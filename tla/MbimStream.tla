----------------------------- MODULE MbimStream -----------------------------
(* Messages on a channel: how device_send() cuts a message into fragments,    *)
(* how data_available() and parse_response() find messages in what they read, *)
(* which ones _mbim_message_validate_internal() accepts, and how the fragment *)
(* collector puts a message together again.  parse_request() of the proxy is  *)
(* the same loop.                                                             *)
(*                                                                            *)
(* A channel carries units: the generic header of a message is one, and so is *)
(* its fragment header; the rest of a message is payload.  A socket is a      *)
(* stream, of which a read returns any part; a cdc-wdm port returns one       *)
(* message per read.  device_send() cuts at MAX_CONTROL_TRANSFER, and a modem *)
(* at what the OPEN told it, so that a read of a port can take a message; in  *)
(* a stream the two ends may differ.  The peer may also send messages that    *)
(* are not valid, as long as the length in their header is the length they    *)
(* have: what a write added to the channel ends where that length says.       *)
EXTENDS Naturals, Sequences, FiniteSets

CONSTANTS Message,      \* the messages sent, each under a transaction id of its own
          MaxPayload,   \* bound: units of payload
          Transfers,    \* the values of the maximum control transfer, at either end
          Totals,       \* numbers of fragments that bytes which are no header may show
          MaxFaults     \* bound: invalid messages, and again read errors

ASSUME StreamAssumption == /\ Message \subseteq Nat \ {0}
                           /\ MaxPayload \in Nat \ {0}
                           /\ \A max \in Transfers : max \in Nat /\ max > 2
                           /\ Totals \subseteq Nat \ {0}
                           /\ MaxFaults \in Nat

VARIABLES
  packets,               \* a read returns one message: a cdc-wdm port
  max_control_transfer,  \* of the reader: how much one read takes
  max_fragment_size,     \* of the writer: where it cuts messages
  payload_length,        \* of the messages sent so far, in units
  sending,               \* the writes device_send() has still to do
  cut,                   \* messages whose writing failed half-way
  channel,               \* what was written and not read yet
  response,              \* what was read and not parsed yet
  parsing,               \* parse_response() is in its loop
  open,                  \* the channel is there
  collector,             \* ctx->fragments of the transaction of each message
  outcome,               \* of the transaction of each message
  misread,               \* messages for which bytes were taken that are no header
  invalids,              \* invalid messages the peer has sent
  read_errors            \* times the buffer was cleared for G_IO_ERR

peerVars == <<payload_length, sending, cut, invalids>>
readerVars == <<collector, outcome, misread>>
fixedVars == <<packets, max_control_transfer, max_fragment_size>>
streamVars == <<fixedVars, peerVars, readerVars, channel, response, parsing, open, read_errors>>

FragmentHeader == 2   \* sizeof (struct header) + sizeof (struct fragment_header)
Sent == DOMAIN payload_length

Payload(m, n) == [i \in 1..n |-> [head |-> FALSE, of |-> m, at |-> i]]
Filler == [head |-> FALSE]     \* a unit whose contents play no part

-----------------------------------------------------------------------------
(* Validation                                                                 *)

Types == {"fragment", "single", "bare", "unknown"}   \* a CLOSE is bare

MinLength == [fragment |-> FragmentHeader, single |-> 2, bare |-> 1]

(* _mbim_message_validate_generic_header(): a length that is no length of a   *)
(* message is anything.                                                       *)
MayBeIncomplete(buffer) ==
  buffer = << >> \/ (buffer[1].head => Len(buffer) < buffer[1].length)

TypeHeaderValid(header) ==
  /\ header.type # "unknown"
  /\ header.length >= MinLength[header.type]

PartialFragmentValid(header) == header.current < header.total

CompleteFragmentValid(header) ==
  /\ header.current = 0
  /\ header.length >= header.needs

ValidateInternal(header) ==
  /\ TypeHeaderValid(header)
  /\ header.type = "fragment" =>
        \/ header.total > 1 /\ PartialFragmentValid(header)
        \/ header.total = 1 /\ CompleteFragmentValid(header)

(* The first message is whole, and is it valid?  A buffer that does not begin *)
(* with a header may be taken for anything.                                   *)
Whole(buffer) == buffer # << >> /\ (buffer[1].head => Len(buffer) >= buffer[1].length)
MayBeInvalid(buffer) == Whole(buffer) /\ (buffer[1].head => ~ValidateInternal(buffer[1]))
MayBeValid(buffer) == Whole(buffer) /\ (buffer[1].head => ValidateInternal(buffer[1]))

-----------------------------------------------------------------------------
(* Sending                                                                    *)

Header(m, type, length, total, current, needs) ==
  [head |-> TRUE, id |-> m, type |-> type, length |-> length,
   total |-> total, current |-> current, needs |-> needs]

SplitFragmentsMutant(m, data, length) ==
  LET room == max_fragment_size - FragmentHeader
      all == length - FragmentHeader
      total == all \div room
      Part(i) == SubSeq(data, i * room + 1, (i + 1) * room)
  IN [i \in 1..total |->
        << Header(m, "fragment", FragmentHeader + Len(Part(i - 1)), total, i - 1, 0), Filler >>
        \o Part(i - 1)]

(* The fragments of a message that is longer than the maximum: all carry as   *)
(* much as fits, the last one what is left.                                   *)
SplitFragments(m, data, length) ==
  LET fragment_payload_length == max_fragment_size - FragmentHeader
      total_payload_length == length - FragmentHeader
      total == (total_payload_length \div fragment_payload_length)
               + (IF total_payload_length % fragment_payload_length = 0 THEN 0 ELSE 1)
      Data(i) == LET walked == i * fragment_payload_length
                     left == total_payload_length - walked
                     data_length == IF left > fragment_payload_length
                                    THEN fragment_payload_length ELSE left
                 IN SubSeq(data, walked + 1, walked + data_length)
  IN [i \in 1..total |->
        << Header(m, "fragment", FragmentHeader + Len(Data(i - 1)), total, i - 1, 0), Filler >>
        \o Data(i - 1)]

(* What device_send() writes, one element for each device_write().            *)
Writes(m, data) ==
  LET length == FragmentHeader + Len(data)
  IN IF length <= max_fragment_size
     THEN << << Header(m, "fragment", length, 1, 0, length), Filler >> \o data >>
     ELSE SplitFragments(m, data, length)

(* A message is about to leave.                                               *)
DeviceSend ==
  /\ open /\ sending = << >>
  /\ \E m \in Message \ Sent, n \in 1..MaxPayload :
       /\ \A other \in Message \ Sent : m <= other
       /\ payload_length' = [x \in Sent \cup {m} |-> IF x = m THEN n ELSE payload_length[x]]
       /\ sending' = Writes(m, Payload(m, n))
  /\ UNCHANGED <<fixedVars, readerVars, cut, channel, response, parsing, open, invalids, read_errors>>

DeviceWrite ==
  /\ open /\ sending # << >>
  /\ channel' = channel \o Head(sending)
  /\ sending' = Tail(sending)
  /\ UNCHANGED <<fixedVars, readerVars, payload_length, cut, response, parsing, open, invalids, read_errors>>

(* A write fails, and the rest of the message is not sent.                    *)
WriteFails ==
  /\ open /\ sending # << >>
  /\ cut' = cut \cup {Head(sending)[1].id}
  /\ sending' = << >>
  /\ UNCHANGED <<fixedVars, readerVars, payload_length, channel, response, parsing, open, invalids, read_errors>>

(* A message that cannot be fragmented, such as an OPEN_DONE.                 *)
SendSingle ==
  /\ open /\ sending = << >>
  /\ \E m \in Message \ Sent :
       /\ \A other \in Message \ Sent : m <= other
       /\ payload_length' = [x \in Sent \cup {m} |-> IF x = m THEN 0 ELSE payload_length[x]]
       /\ channel' = channel \o << Header(m, "single", 2, 1, 0, 0), Filler >>
  /\ UNCHANGED <<fixedVars, readerVars, sending, cut, response, parsing, open, invalids, read_errors>>

InvalidMessages ==
  { << Header(0, "unknown", 2, 1, 0, 0), Filler >>,           \* no such type
    << Header(0, "single", 1, 1, 0, 0) >>,                    \* header cut short
    << Header(0, "fragment", 2, 0, 0, 0), Filler >>,          \* no fragments at all
    << Header(0, "fragment", 2, 2, 2, 0), Filler >>,          \* fragment 2 of 0..1
    << Header(0, "fragment", 3, 1, 0, 4), Filler, Filler >> } \* buffer does not fit

PeerSendsInvalid ==
  /\ open /\ sending = << >> /\ invalids < MaxFaults
  /\ invalids' = invalids + 1
  /\ \E message \in InvalidMessages : channel' = channel \o message
  /\ UNCHANGED <<fixedVars, payload_length, sending, cut, readerVars, response, parsing, open, read_errors>>

-----------------------------------------------------------------------------
(* Reading                                                                    *)

(* How much one read may return.                                              *)
ReadLengths ==
  IF packets THEN {channel[1].length}
  ELSE {n \in 1..Len(channel) : n <= max_control_transfer}

DataAvailable ==
  /\ open /\ ~parsing /\ channel # << >>
  /\ \E n \in ReadLengths :
       /\ response' = response \o SubSeq(channel, 1, n)
       /\ channel' = SubSeq(channel, n + 1, Len(channel))
  /\ parsing' = TRUE
  /\ UNCHANGED <<fixedVars, peerVars, readerVars, open, read_errors>>

(* G_IO_ERR: what was read is thrown away.                                    *)
DataError ==
  /\ open /\ ~parsing /\ read_errors < MaxFaults
  /\ read_errors' = read_errors + 1
  /\ response' = << >>
  /\ UNCHANGED <<fixedVars, peerVars, readerVars, channel, parsing, open>>

HangupMutant ==
  /\ open /\ ~parsing
  /\ open' = FALSE
  /\ UNCHANGED <<fixedVars, peerVars, readerVars, channel, response, parsing, read_errors>>

(* G_IO_HUP, or a close by the application between two dispatches.            *)
Hangup ==
  /\ open /\ ~parsing
  /\ open' = FALSE
  /\ response' = << >>
  /\ UNCHANGED <<fixedVars, peerVars, readerVars, channel, parsing, read_errors>>

-----------------------------------------------------------------------------
(* Putting together                                                           *)

NoFragments == [total |-> 0]

CollectorInit(header, data) ==
  IF header.current # 0 THEN NoFragments
  ELSE [total |-> header.total, current |-> 0, payload |-> data]

CollectorAddMutant(fragments, header, data) ==
  IF header.current = 0 THEN NoFragments
  ELSE [total |-> fragments.total, current |-> header.current,
        payload |-> fragments.payload \o data]

(* Only the next fragment can be added.                                       *)
CollectorAdd(fragments, header, data) ==
  IF fragments.current # header.current - 1 THEN NoFragments
  ELSE [total |-> fragments.total, current |-> header.current,
        payload |-> fragments.payload \o data]

CollectorComplete(fragments) == fragments.current = fragments.total - 1

(* process_message(): a message without a transaction is ignored; one that is *)
(* out of sequence fails the transaction it is for.                           *)
ProcessMessage(header, data) ==
  LET m == header.id
      fragments == IF header.type = "single"
                   THEN [total |-> 1, current |-> 0, payload |-> data]
                   ELSE IF collector[m] = NoFragments THEN CollectorInit(header, data)
                   ELSE CollectorAdd(collector[m], header, data)
  IN IF outcome[m] # "waiting" THEN UNCHANGED <<collector, outcome>>
     ELSE /\ collector' = [collector EXCEPT ![m] = fragments]
          /\ outcome' = [outcome EXCEPT ![m] =
                           IF fragments = NoFragments THEN "out_of_sequence"
                           ELSE IF CollectorComplete(fragments) THEN "whole" ELSE "waiting"]

(* What the bytes of a buffer that does not begin with a header may show, to  *)
(* be taken for a valid message of that length; a bare one would be ignored.  *)
MisreadHeaders(length) ==
  {header \in UNION {[head : {TRUE}, id : Message, type : Types \ {"bare"}, length : {length},
                      total : {total}, current : 0..(total - 1), needs : {0}] : total \in Totals} :
     ValidateInternal(header)}

(* Such a message is processed like any other, and the transaction id that    *)
(* the bytes show may be that of one that waits, or of none.  Its contents    *)
(* play no part.                                                              *)
ProcessMisread(length) ==
  \/ UNCHANGED readerVars
  \/ \E header \in MisreadHeaders(length) :
       /\ outcome[header.id] = "waiting"
       /\ ProcessMessage(header, << >>)
       /\ misread' = misread \cup {header.id}

-----------------------------------------------------------------------------
(* parse_response()                                                           *)

(* No full message yet.                                                       *)
ParseWaits ==
  /\ parsing /\ MayBeIncomplete(response)
  /\ parsing' = FALSE
  /\ UNCHANGED <<fixedVars, peerVars, readerVars, channel, response, open, read_errors>>

(* An invalid message: everything that was read goes.                         *)
ParseDiscards ==
  /\ parsing /\ MayBeInvalid(response)
  /\ parsing' = FALSE
  /\ response' = << >>
  /\ UNCHANGED <<fixedVars, peerVars, readerVars, channel, open, read_errors>>

(* A message is processed and removed; unless that closed the device, the     *)
(* loop goes on with what is left.                                            *)
ParseProcesses ==
  /\ parsing /\ MayBeValid(response)
  /\ \E length \in IF response[1].head THEN {response[1].length} ELSE 1..Len(response) :
       LET left == SubSeq(response, length + 1, Len(response))
       IN /\ IF response[1].head
             THEN /\ ProcessMessage(response[1], SubSeq(response, FragmentHeader + 1, length))
                  /\ UNCHANGED misread
             ELSE ProcessMisread(length)
          /\ \/ /\ response' = left
                /\ parsing' = (left # << >>)
                /\ UNCHANGED open
             \/ /\ open' = FALSE
                /\ response' = << >>
                /\ parsing' = FALSE
  /\ UNCHANGED <<fixedVars, peerVars, channel, read_errors>>

-----------------------------------------------------------------------------
StreamInit ==
  /\ packets \in BOOLEAN
  /\ max_control_transfer \in Transfers
  /\ max_fragment_size \in Transfers
  /\ packets => max_fragment_size <= max_control_transfer
  /\ payload_length = << >>
  /\ sending = << >>
  /\ cut = {}
  /\ channel = << >>
  /\ response = << >>
  /\ parsing = FALSE
  /\ open = TRUE
  /\ collector = [m \in Message |-> NoFragments]
  /\ outcome = [m \in Message |-> "waiting"]
  /\ misread = {}
  /\ invalids = 0
  /\ read_errors = 0

StreamNext ==
  \/ DeviceSend \/ DeviceWrite \/ WriteFails \/ SendSingle \/ PeerSendsInvalid
  \/ DataAvailable \/ DataError \/ Hangup
  \/ ParseWaits \/ ParseDiscards \/ ParseProcesses

StreamSpec == StreamInit /\ [][StreamNext]_streamVars

-----------------------------------------------------------------------------
(* Properties                                                                 *)

(* A write is a message, as long as its header says, and one read of a port   *)
(* is large enough for it.                                                    *)
OneMessage(write) ==
  /\ write # << >> /\ write[1].head
  /\ write[1].length = Len(write) /\ Len(write) <= max_fragment_size
  /\ packets => Len(write) <= max_control_transfer

(* The variables have their types: parse_response() is not in its loop with   *)
(* an empty buffer or on a closed channel, device_send() writes whole         *)
(* messages that one read can take, and a port is never read but at the       *)
(* beginning of one.                                                          *)
StreamTypeOK ==
  /\ packets \in BOOLEAN
  /\ max_control_transfer \in Transfers /\ max_fragment_size \in Transfers
  /\ Sent \subseteq Message /\ \A m \in Sent : payload_length[m] \in 0..MaxPayload
  /\ cut \subseteq Sent
  /\ \A i \in DOMAIN sending : OneMessage(sending[i])
  /\ packets /\ channel # << >> => /\ channel[1].head
                                  /\ OneMessage(SubSeq(channel, 1, channel[1].length))
  /\ parsing => open /\ response # << >>
  /\ open \/ response = << >>
  /\ outcome \in [Message -> {"waiting", "out_of_sequence", "whole"}]
  /\ misread \subseteq Message
  /\ invalids \in 0..MaxFaults /\ read_errors \in 0..MaxFaults

Arrived(m) == /\ m \in Sent
              /\ outcome[m] = "whole"
              /\ collector[m].payload = Payload(m, payload_length[m])

(* A message that the collector declares complete is the message that was     *)
(* sent, whatever was lost or thrown away between its fragments, unless bytes *)
(* from the middle of a message were taken for one of its transaction id; and *)
(* that never happens on a port, nor in a stream before parse_response() or a *)
(* read error has thrown away what was read.                                  *)
WholeOrNothing ==
  /\ \A m \in Message \ misread : outcome[m] = "whole" => Arrived(m)
  /\ misread # {} => ~packets /\ invalids + read_errors > 0

Quiet == open /\ ~parsing /\ channel = << >> /\ sending = << >>

(* When everything has been read, every message that was sent has arrived and *)
(* nothing is left over: on a port that delivers one message per read always, *)
(* so that an invalid message or a read error costs no other message; in a    *)
(* stream as long as there are none, however the reads cut it.                *)
NothingLost ==
  Quiet /\ (packets \/ (invalids = 0 /\ read_errors = 0)) =>
    /\ response = << >>
    /\ \A m \in Sent \ cut : Arrived(m)

=============================================================================
