--------------------------- MODULE MbimForwarding ---------------------------
(* How MbimProxy passes the commands of its clients on to one open device,    *)
(* fragment by fragment, under transaction ids of its own, and the answers    *)
(* back under the ids of the clients: process_command() and                   *)
(* device_command_ready() in mbim-proxy.c, mbim_device_command() and what it  *)
(* leaves in the transaction table in mbim-device.c.                          *)
(*                                                                            *)
(* A client writes the fragments of a command one after another; the proxy    *)
(* reads the sockets of its clients in any order.                             *)
EXTENDS Naturals, FiniteSets, SequencesExt

CONSTANTS Client,     \* the clients of the device, numbers above 0
          MaxId       \* stands for G_MAXUINT32, where transaction ids wrap to 1

ASSUME ForwardingAssumption ==
  MaxId \in Nat \ {0} /\ Client \subseteq Nat \ {0} /\ IsFiniteSet(Client)

Id == 1..MaxId
Proxy == 0            \* in the place of a client: a message of the proxy itself

VARIABLES
  commands,        \* the number of fragments of each command of a client; fixed
  unread,          \* what each client wrote and the proxy has not read begins with this fragment
  transaction_id,  \* priv->transaction_id of the device
  open,            \* the device has a channel
  requests,        \* a Request for each fragment forwarded, in order
  ids,             \* the transaction id each was forwarded under
  transactions,    \* transaction id -> the request whose task is in the table
  timers,          \* requests whose task has a timer attached
  freed,           \* those of them whose task was freed with its wait context, its timer still attached
  collecting,      \* the modem: transaction id -> fragments collected
  answers,         \* sent by the modem and not read yet
  delivered,       \* what each client was sent
  mixed            \* a message was sent between two fragments of another client

forwardingVars == <<commands, unread, transaction_id, open, requests, ids, transactions, timers,
                    freed, collecting, answers, delivered, mixed>>

NoRequest == 0

(* The clients number their commands 1, 2, ... and use that as transaction id *)
(* and so different clients use the same ids.                                 *)
Message(c, id, total) ==
  [i \in 1..total |-> [client |-> c, id |-> id, current |-> i - 1, total |-> total]]
Fragments(c, id) == Message(c, id, commands[c][id])

(* The socket of a client: all its commands are written, and read in order.   *)
HasUnread(c) == unread[c].id \in DOMAIN commands[c]
Unread(c) == Fragments(c, unread[c].id)[unread[c].current + 1]
AfterRead(c) == IF unread[c].current + 1 < commands[c][unread[c].id]
                THEN [unread[c] EXCEPT !.current = @ + 1]
                ELSE [id |-> unread[c].id + 1, current |-> 0]

-----------------------------------------------------------------------------
(* The modem                                                                  *)

(* A fragment that is not the next one is an error; a first one starts anew.  *)
Collected(id, f) ==
  IF f.current = 0 THEN << f >>
  ELSE IF Len(collecting[id]) = f.current THEN Append(collecting[id], f)
  ELSE << >>

ModemReceives(id, f) ==
  LET parts == Collected(id, f)
      complete == parts # << >> /\ Len(parts) = f.total
  IN /\ collecting' = [collecting EXCEPT ![id] = IF complete THEN << >> ELSE parts]
     /\ answers' = IF complete THEN answers \cup {[id |-> id, kind |-> "COMMAND_DONE", of |-> parts]}
                   ELSE IF parts = << >>
                   THEN answers \cup {[id |-> id, kind |-> "FUNCTION_ERROR", of |-> << f >>]}
                   ELSE answers

-----------------------------------------------------------------------------
(* Forwarding                                                                 *)

NextIdMutant(id) == id + 1

NextId(id) == IF id = MaxId THEN 1 ELSE id + 1

Deliver(c, id, kind, of) ==
  delivered' = [delivered EXCEPT ![c] = Append(@, [id |-> id, kind |-> kind, of |-> of])]

(* mbim_device_get_next_transaction_id() for the last fragment, otherwise     *)
(* mbim_device_get_transaction_id(), which takes no id.                       *)
Counter(f) == IF f.current = f.total - 1 THEN NextId(transaction_id) ELSE transaction_id

(* mbim_device_command(): the task goes into the table under its id, in the   *)
(* place of any other, and the message out, which may be lost; without a      *)
(* channel the caller is told "wrong state" (and tells its client NOT_OPENED).*)
CommandSent(f, reaches) ==
  LET r == Len(requests) + 1
  IN /\ transaction_id' = Counter(f)
     /\ mixed' = (mixed \/ \E c \in Client \ {f.client} : unread[c].current > 0)
     /\ requests' = Append(requests, f)
     /\ ids' = Append(ids, transaction_id)
     /\ IF open
        THEN /\ transactions' = [transactions EXCEPT ![transaction_id] = r]
             /\ timers' = timers \cup {r}
        ELSE UNCHANGED <<transactions, timers>>
     /\ IF open /\ reaches THEN ModemReceives(transaction_id, f)
        ELSE UNCHANGED <<collecting, answers>>
     /\ UNCHANGED <<commands, open, freed>>

process_command(c) ==
  /\ HasUnread(c)
  /\ \E reaches \in BOOLEAN : CommandSent(Unread(c), reaches)
  /\ unread' = [unread EXCEPT ![c] = AfterRead(c)]
  /\ IF open THEN UNCHANGED delivered
     ELSE Deliver(c, Unread(c).id, "NOT_OPENED", << Unread(c) >>)

ProcessCommand == \E c \in Client : process_command(c)

(* The request r leaves the table with its timer.                             *)
Release(r) ==
  /\ transactions' = [transactions EXCEPT ![ids[r]] = NoRequest]
  /\ timers' = timers \ {r}

RestoredMutant(r) == ids[r]

(* The id the client gave its command.                                        *)
Restored(r) == requests[r].id

(* device_command_ready() with an answer, under the id of the client.         *)
DeviceCommandReady ==
  /\ open
  /\ \E a \in answers :
       LET r == transactions[a.id]
       IN /\ answers' = answers \ {a}
          /\ IF r = NoRequest THEN UNCHANGED <<transactions, timers, delivered>>
             ELSE /\ Release(r)
                  /\ IF requests[r].client = Proxy THEN UNCHANGED delivered
                     ELSE Deliver(requests[r].client, Restored(r), a.kind, a.of)
  /\ UNCHANGED <<commands, unread, transaction_id, open, requests, ids, freed, collecting, mixed>>

(* The id a timer looks up: that of its own task, out of the wait context;    *)
(* any, once the wait context was freed with the task.                        *)
LookedUp(r) == IF r \in freed THEN Id ELSE {ids[r]}

(* transaction_timed_out(), after 300 seconds: the timer of one task releases *)
(* whichever task has its id, and clears the timeout_source of that one: when *)
(* it is another, the timer of that one is not removed with it.  The client   *)
(* is told nothing.                                                           *)
RequestTimedOut ==
  /\ \E r \in timers : \E id \in LookedUp(r) :
       /\ timers' = timers \ {r}
       /\ transactions' = [transactions EXCEPT ![id] = NoRequest]
       /\ freed' = (freed \ {r}) \cup ({transactions[id]} \ {NoRequest, r})
  /\ UNCHANGED <<commands, unread, transaction_id, open, requests, ids, collecting, answers, delivered, mixed>>

(* mbim_device_close_force(): every task that is in the table is aborted, and *)
(* what the modem has sent is never read.  Aborted requests are not answered. *)
DeviceCloses ==
  /\ open
  /\ open' = FALSE
  /\ transactions' = [id \in Id |-> NoRequest]
  /\ timers' = {r \in timers : transactions[ids[r]] # r}
  /\ answers' = {}
  /\ UNCHANGED <<commands, unread, transaction_id, requests, ids, freed, collecting, delivered, mixed>>

(* The device is opened again; the modem forgets what it was collecting.      *)
DeviceReopens ==
  /\ ~open
  /\ open' = TRUE
  /\ collecting' = [id \in Id |-> << >>]
  /\ UNCHANGED <<commands, unread, transaction_id, requests, ids, transactions, timers, freed, answers,
                 delivered, mixed>>

-----------------------------------------------------------------------------
ForwardingInit ==
  /\ unread = [c \in Client |-> [id |-> 1, current |-> 0]]
  /\ open = TRUE
  /\ requests = << >>
  /\ ids = << >>
  /\ transactions = [id \in Id |-> NoRequest]
  /\ timers = {}
  /\ freed = {}
  /\ collecting = [id \in Id |-> << >>]
  /\ answers = {}
  /\ delivered = [c \in Client |-> << >>]
  /\ mixed = FALSE

-----------------------------------------------------------------------------
(* Properties                                                                 *)

(* Only tasks that have a timer are in the table, under the id they were sent *)
(* under and with a wait context that timer can read, and nothing is left to  *)
(* read from a closed device.                                                 *)
ForwardingTypes ==
  /\ transaction_id \in Id
  /\ Len(ids) = Len(requests) /\ Range(ids) \subseteq Id
  /\ transactions \in [Id -> 0..Len(requests)]
  /\ \A id \in Id : transactions[id] # NoRequest => ids[transactions[id]] = id
  /\ {transactions[id] : id \in Id} \ {NoRequest} \subseteq timers \ freed
  /\ freed \subseteq timers
  /\ open \/ answers = {}

(* An answer of the modem reaches the client that sent the command, under the *)
(* id it gave it, and once.  Of a command in one fragment that is so whatever *)
(* the other clients do, although they use the same ids and their fragments   *)
(* are forwarded under an id that was only peeked; of one in several fragments*)
(* as long as no other message is sent between two of them.                   *)
OwnAnswer ==
  \A c \in Client : \A i \in DOMAIN delivered[c] :
    LET d == delivered[c][i]
    IN d.kind = "COMMAND_DONE" /\ (Len(d.of) = 1 \/ ~mixed) =>
         /\ d.id \in DOMAIN commands[c] /\ d.of = Fragments(c, d.id)
         /\ \A j \in DOMAIN delivered[c] : delivered[c][j].id = d.id => i = j

=============================================================================
