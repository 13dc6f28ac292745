-------------------------- MODULE MbimCliArguments --------------------------
(* How mbimcli reads the argument of an option: key-value lists, which        *)
(* mbimcli_parse_key_value_string() hands to a callback pair by pair; lists   *)
(* whose pairs are collected into items; and plain comma-separated fields.    *)
(*                                                                            *)
(* An argument is already cut into pairs or fields here.  A value is one of a *)
(* few that the readers tell apart: two ordinary ones, a number that is no    *)
(* session id, the largest 32-bit number, one nothing can read, and the empty *)
(* one.  Every option that takes key-value pairs is here (of the groups of an *)
(* LTE attach configuration, which are read one by one, one), and so are the  *)
(* PINs; of the lists of plain fields four.                                   *)
EXTENDS Naturals, Sequences, FiniteSets

CONSTANTS MaxPairs,     \* bound on the pairs or fields of an argument
          MaxParts      \* bound on the pairs of a list of items

ASSUME MaxPairsAssumption == MaxPairs \in Nat
ASSUME MaxPartsAssumption == MaxParts \in Nat

Values == {"1", "2", "300", "max", "bad", ""}

(* The values the mbimcli_read_*_from_string() functions accept: the name of  *)
(* an enumerator, a list of flags (no flag, for an empty one), a number, a    *)
(* buffer in hexadecimal; and the session ids, 0 to 255.                      *)
ReadEnum == {"1", "2"}
ReadMask == ReadEnum \cup {""}
ReadUint == {"1", "2", "300", "max"}
ReadBuffer == {"1", "2"}
ReadSession == {"1", "2"}
ReadText == Values
ReadSomeText == Values \ {""}

BufferSize(v) == IF v = "1" THEN 1 ELSE 2

-----------------------------------------------------------------------------
(* The callbacks for plain pairs: what each key accepts.                      *)

connect_activate_properties_handle ==
    [session_id |-> ReadSession, access_string |-> ReadText, apn |-> ReadText,
     auth |-> ReadEnum, username |-> ReadSomeText, password |-> ReadSomeText,
     ip_type |-> ReadEnum, compression |-> ReadEnum, context_type |-> ReadEnum,
     media_type |-> ReadEnum]

set_register_state_foreach_cb ==
    [action |-> ReadEnum, provider_id |-> ReadText, data_class |-> ReadMask]

set_provisioned_contexts_foreach_cb ==
    [context_id |-> ReadUint, context_type |-> ReadEnum, auth |-> ReadEnum,
     compression |-> ReadEnum, username |-> ReadText, password |-> ReadText,
     access_string |-> ReadText, provider_id |-> ReadText]

(* The Microsoft service has contexts of its own.                             *)
ms_set_provisioned_contexts_foreach_cb ==
    [operation |-> ReadEnum, context_type |-> ReadEnum, ip_type |-> ReadEnum,
     state |-> ReadEnum, roaming_control |-> ReadEnum, media_type |-> ReadEnum,
     source |-> ReadEnum, auth |-> ReadEnum, compression |-> ReadEnum,
     username |-> ReadText, password |-> ReadText, access_string |-> ReadText]

set_signal_state_foreach_cb ==
    [signal_strength_interval |-> ReadUint, rssi_threshold |-> ReadUint,
     error_rate_threshold |-> ReadUint]

set_registration_parameters_foreach_cb ==
    [mico_mode |-> ReadEnum, drx_cycle |-> ReadEnum, ladn_info |-> ReadEnum,
     default_pdu_activation_hint |-> ReadEnum,
     re_register_if_needed |-> ReadEnum]

set_lte_attach_configuration_foreach_cb ==
    [ip_type |-> ReadEnum, roaming_control |-> ReadEnum, source |-> ReadEnum,
     auth |-> ReadEnum, compression |-> ReadEnum, username |-> ReadText,
     password |-> ReadText, access_string |-> ReadText]

read_record_query_properties_handle ==
    [application_id |-> ReadBuffer, file_path |-> ReadBuffer,
     record_number |-> ReadUint, local_pin |-> ReadText, data |-> ReadBuffer]

read_binary_query_properties_handle ==
    [application_id |-> ReadBuffer, file_path |-> ReadBuffer,
     read_offset |-> ReadUint, read_size |-> ReadUint, local_pin |-> ReadText,
     data |-> ReadBuffer]

file_status_query_properties_handle ==
    [application_id |-> ReadBuffer, file_path |-> ReadBuffer]

open_channel_properties_handle ==
    [application_id |-> ReadBuffer, selectp2arg |-> ReadUint,
     channel_group |-> ReadUint]

close_channel_properties_handle ==
    [channel |-> ReadUint, channel_group |-> ReadUint]

apdu_properties_handle ==
    [command |-> ReadBuffer, secure_message |-> ReadEnum, channel |-> ReadUint,
     classbyte_type |-> ReadEnum]

add_link_properties_handle ==
    [session_id |-> ReadUint, iface |-> ReadText, prefix |-> ReadText]

Handlers ==
    [connect_activate        |-> connect_activate_properties_handle,
     register_state          |-> set_register_state_foreach_cb,
     provisioned_contexts    |-> set_provisioned_contexts_foreach_cb,
     ms_provisioned_contexts |-> ms_set_provisioned_contexts_foreach_cb,
     signal_state            |-> set_signal_state_foreach_cb,
     registration_parameters |-> set_registration_parameters_foreach_cb,
     lte_attach              |-> set_lte_attach_configuration_foreach_cb,
     read_record             |-> read_record_query_properties_handle,
     read_binary             |-> read_binary_query_properties_handle,
     file_status             |-> file_status_query_properties_handle,
     open_channel            |-> open_channel_properties_handle,
     close_channel           |-> close_channel_properties_handle,
     apdu                    |-> apdu_properties_handle,
     link_add                |-> add_link_properties_handle]

KeyValueOptions == DOMAIN Handlers

(* The keys an option cannot do without, checked after the last pair.         *)
Required(o) ==
    CASE o \in {"read_record", "read_binary", "file_status"} -> {"application_id", "file_path"}
      [] o = "open_channel" -> {"application_id"}
      [] o = "apdu" -> {"command"}
      [] o = "link_add" -> {"iface"}
      [] o = "registration_parameters" -> DOMAIN Handlers[o]
      [] OTHER -> {}

(* The key under which a value is kept.                                       *)
Kept(k) == IF k = "apn" THEN "access_string" ELSE k

-----------------------------------------------------------------------------
(* Lists of items, and fields.                                                *)

(* The parts of an item, and the values tried for them: a packet filter of    *)
(* MBIMEx 3.0 has an id as well.                                              *)
Parts ==
    [packet_filters      |-> {"packet_filter", "packet_mask"},
     packet_filters_v3   |-> {"packet_filter", "packet_mask", "filter_id"},
     terminal_capability |-> {"terminal_capability"}]

PartValues == {"1", "2", "bad"}

ItemOptions == DOMAIN Parts

(* filter-id is a known key without MBIMEx 3.0 too; check_filter_add()        *)
(* rejects it.                                                                *)
ItemKeys(o) == IF o = "terminal_capability" THEN {"terminal_capability"}
               ELSE {"packet_filter", "packet_mask", "filter_id"}

(* The options whose items are for a session.                                 *)
SessionOptions == {"packet_filters", "packet_filters_v3"}

(* The fields of an option, what each accepts, and how few will do.  An empty *)
(* field of the slot mappings is slot 0.                                      *)
FieldReads ==
    [connect_positional |-> <<ReadText, ReadEnum, ReadText, ReadText>>,
     phonebook_write    |-> <<ReadText, ReadText, ReadUint>>,
     dss                |-> <<ReadEnum, ReadUint>>,
     slot_mappings      |-> [i \in 1..MaxPairs |-> ReadUint \cup {""}]]

Fewest(o) == CASE o \in {"phonebook_write", "dss"} -> 2
               [] o = "slot_mappings" -> 1
               [] OTHER -> 0

FieldOptions == DOMAIN FieldReads

(* The PIN commands: whether they take a new PIN, whether a type may be       *)
(* given, and the default type.                                               *)
PinCommands ==
    [pin_enter     |-> [new |-> FALSE, typed |-> TRUE,  type |-> "pin1"],
     pin_change    |-> [new |-> TRUE,  typed |-> FALSE, type |-> "pin1"],
     pin_enable    |-> [new |-> FALSE, typed |-> FALSE, type |-> "pin1"],
     pin_disable   |-> [new |-> FALSE, typed |-> TRUE,  type |-> "pin1"],
     pin_enter_puk |-> [new |-> TRUE,  typed |-> TRUE,  type |-> "puk1"]]

PinOptions == DOMAIN PinCommands

(* Types of PINs by number.  The last two kinds of secret, which are neither  *)
(* PINs nor PUKs, come after the PUKs.                                        *)
PinTypes == [unknown |-> 0, pin1 |-> 2, pin2 |-> 3, puk1 |-> 11, puk2 |-> 12,
             adm |-> 19]
PinFields == {"unknown", "pin2", "puk2", "adm", "secret", "other"}

-----------------------------------------------------------------------------

Options == KeyValueOptions \cup ItemOptions \cup FieldOptions \cup PinOptions

(* The key of every pair that is not meant.                                   *)
Unknown == "unrecognized"

Outcomes == {"reading", "rejected", "accepted"}

VARIABLES
    option,     \* the option whose argument is read
    argument,   \* what was read of it, a sequence of pairs or fields
    props,      \* the value kept under each key or field; parts of an item
    items,      \* the items collected
    session,    \* the session the items are for
    outcome

vars == <<option, argument, props, items, session, outcome>>

None == << >>

Init ==
    /\ option \in Options
    /\ argument = << >> /\ props = None /\ items = << >> /\ session = "0"
    /\ outcome = "reading"

(* The rest of the argument is read.                                          *)
Reads(rest) == /\ outcome = "reading"
               /\ argument' = argument \o rest
               /\ UNCHANGED <<option, session>>

Reject == outcome' = "rejected" /\ UNCHANGED <<props, items>>

Accept(kept, list) == outcome' = "accepted" /\ props' = kept /\ items' = list

(* A value is kept, in place of an earlier one.                               *)
WithValue(kept, key, value) ==
    [k \in DOMAIN kept \cup {key} |-> IF k = key THEN value ELSE kept[k]]

-----------------------------------------------------------------------------
(* Key-value pairs.                                                           *)

(* A mutant that lets a later key replace an earlier one everywhere.          *)
RepeatedMutant(key) == FALSE

(* A link is added with every key at most once, where the number that stands  *)
(* for "automatic" does not count as a session id.                            *)
Repeated(key) == /\ option = "link_add" /\ key \in DOMAIN props
                 /\ ~(key = "session_id" /\ props[key] = "max")

Understood(key, value) == /\ key \in DOMAIN Handlers[option]
                          /\ value \in Handlers[option][key]
                          /\ ~Repeated(key)

(* The callback of a pair.  A later value replaces an earlier one.            *)
HandlePair ==
    /\ option \in KeyValueOptions /\ Len(argument) < MaxPairs
    /\ \E key \in DOMAIN Handlers[option] \cup {Unknown}, value \in Values :
          /\ Reads(<<<<key, value>>>>)
          /\ \/ ~Understood(key, value) /\ Reject
             \/ /\ Understood(key, value)
                /\ props' = WithValue(props, Kept(key), value)
                /\ UNCHANGED <<items, outcome>>

(* What is checked after the last pair, such as that the id of a link is one. *)
PairsComplete ==
    /\ Required(option) \subseteq DOMAIN props
    /\ option = "link_add" /\ "session_id" \in DOMAIN props =>
          props["session_id"] \in ReadSession \cup {"max"}

FinishPairs ==
    /\ option \in KeyValueOptions
    /\ Reads(<< >>)
    /\ IF PairsComplete
       THEN Accept(props, items) ELSE Reject

-----------------------------------------------------------------------------
(* Items.                                                                     *)

(* check_filter_add() and check_terminal_add(): the parts read so far make an *)
(* item, or the argument is rejected.                                         *)
Complete(parts) ==
    /\ DOMAIN parts = Parts[option]
    /\ \A k \in DOMAIN parts \ {"filter_id"} : parts[k] \in ReadBuffer
    /\ "packet_mask" \in DOMAIN parts =>
          BufferSize(parts["packet_filter"]) = BufferSize(parts["packet_mask"])
    /\ "filter_id" \in DOMAIN parts => parts["filter_id"] \in ReadUint

(* The session id may be given anywhere, and the last one holds.              *)
HandleSession ==
    /\ option \in SessionOptions /\ Len(argument) < MaxParts
    /\ outcome = "reading"
    /\ \E value \in PartValues :
          /\ argument' = argument \o <<<<"session_id", value>>>>
          /\ \/ value \notin ReadSession /\ Reject /\ UNCHANGED session
             \/ /\ value \in ReadSession
                /\ session' = value
                /\ UNCHANGED <<props, items, outcome>>
    /\ UNCHANGED option

(* A key seen again begins the next item.                                     *)
HandlePart ==
    /\ option \in ItemOptions /\ Len(argument) < MaxParts
    /\ \E key \in ItemKeys(option) \cup {Unknown}, value \in PartValues :
          /\ Reads(<<<<key, value>>>>)
          /\ \/ /\ key = Unknown \/ (key \in DOMAIN props /\ ~Complete(props))
                /\ Reject
             \/ /\ key \in ItemKeys(option) \ DOMAIN props
                /\ props' = WithValue(props, key, value)
                /\ UNCHANGED <<items, outcome>>
             \/ /\ key \in DOMAIN props /\ Complete(props)
                /\ props' = WithValue(None, key, value)
                /\ items' = Append(items, props)
                /\ UNCHANGED outcome

(* A filter-id with nothing else is not taken for the beginning of an item.   *)
FinishItems ==
    /\ option \in ItemOptions
    /\ Reads(<< >>)
    /\ IF DOMAIN props \ {"filter_id"} = {} THEN Accept(props, items)
       ELSE IF Complete(props) THEN Accept(None, Append(items, props))
       ELSE Reject

-----------------------------------------------------------------------------
(* Fields.                                                                    *)

(* An old-style connection has a username exactly if it has an auth protocol, *)
(* where 1 is the protocol "none".                                            *)
CredentialsMatch(fields) ==
    option = "connect_positional" =>
       ((Len(fields) >= 2 /\ fields[2] # "1") <=> Len(fields) >= 3)

ReadFields ==
    /\ option \in FieldOptions
    /\ \E n \in 0..MaxPairs : \E fields \in [1..n -> Values] :
          /\ Reads(fields)
          /\ IF /\ n \in Fewest(option)..Len(FieldReads[option])
                /\ \A i \in 1..n : fields[i] \in FieldReads[option][i]
                /\ CredentialsMatch(fields)
             THEN Accept(fields, items) ELSE Reject

(* set_pin_input_parse(): with all its fields given, the first is the type,   *)
(* which must be of the kind of the default one.                              *)
PinFits(given, default) ==
    /\ given \in DOMAIN PinTypes \ {"unknown"}
    /\ PinTypes[given] >= PinTypes.puk1 <=> PinTypes[default] >= PinTypes.puk1

ReadPin ==
    /\ option \in PinOptions
    /\ \E n \in 0..MaxPairs : \E fields \in [1..n -> PinFields] :
          LET command == PinCommands[option]
              least == IF command.new THEN 2 ELSE 1
              typed == command.typed /\ n = least + 1
          IN  /\ Reads(fields)
              /\ IF /\ n = least \/ typed
                    /\ typed => PinFits(fields[1], command.type)
                 THEN Accept([type |-> IF typed THEN fields[1] ELSE command.type,
                              secrets |-> IF typed THEN Tail(fields)
                                          ELSE fields], items)
                 ELSE Reject

Next == \/ HandlePair \/ FinishPairs
        \/ HandlePart \/ HandleSession \/ FinishItems
        \/ ReadFields \/ ReadPin

Spec == Init /\ [][Next]_vars

-----------------------------------------------------------------------------
(* Properties.                                                                *)

Read == outcome = "accepted"

(* Key-value pairs: every pair was understood, the last value of each key     *)
(* holds, and nothing that is needed is missing.  A link is described once,   *)
(* but for the automatic id.                                                  *)
PairsAsGiven ==
    Read /\ option \in KeyValueOptions =>
       LET places(k) == {i \in DOMAIN argument : Kept(argument[i][1]) = k}
           last(k) == CHOOSE i \in places(k) : \A j \in places(k) : j <= i
       IN  /\ DOMAIN props = {Kept(argument[i][1]) : i \in DOMAIN argument}
           /\ \A k \in DOMAIN props : props[k] = argument[last(k)][2]
           /\ \A i \in DOMAIN argument :
                 argument[i][2] \in Handlers[option][argument[i][1]]
           /\ PairsComplete
           /\ option = "link_add" =>
                 \A k \in DOMAIN props : \A i \in places(k) :
                    i = last(k) \/ argument[i] = <<"session_id", "max">>

(* The places of the parts in the argument, and the parts from the first one  *)
(* to the last one given, not counting the session ids between them.          *)
PartPlaces == {j \in DOMAIN argument : argument[j][1] # "session_id"}
Rank(j) == Cardinality({k \in PartPlaces : k <= j})
Given(first, last) == {argument[j] : j \in {k \in PartPlaces : Rank(k) \in first..last}}

(* Items: the parts of one were given with none of another item between them, *)
(* in the order of the items: no part is lost, used twice or mixed with those *)
(* of another item, wherever session ids were given.  Only a filter-id that   *)
(* nothing follows may be dropped.  The session is the last one given.        *)
ItemsAsGiven ==
    Read /\ option \in ItemOptions =>
       LET size == Cardinality(Parts[option])
           count == Cardinality(PartPlaces)
           sessions == DOMAIN argument \ PartPlaces
       IN  /\ \A i \in DOMAIN items :
                 Given(size * (i - 1) + 1, size * i) =
                    {<<k, items[i][k]>> : k \in DOMAIN items[i]}
           /\ \/ count = size * Len(items)
              \/ /\ count = size * Len(items) + 1
                 /\ \E part \in Given(count, count) : part[1] = "filter_id"
           /\ \/ sessions = {} /\ session = "0"
              \/ \E j \in sessions :
                    (\A k \in sessions : k <= j) /\ session = argument[j][2]

(* PINs: a secret is never sent as one of the other kind, there are as many   *)
(* as there must be, and they keep their order.  (The last types count as     *)
(* PUKs in the comparison of the numbers.)                                    *)
PinsAsGiven ==
    Read /\ option \in PinOptions =>
       /\ option = "pin_enter_puk" <=> props.type \in {"puk1", "puk2", "adm"}
       /\ Len(props.secrets) = (IF option \in {"pin_change", "pin_enter_puk"}
                                THEN 2 ELSE 1)
       /\ \A i \in DOMAIN props.secrets :
             props.secrets[i] =
                argument[Len(argument) - Len(props.secrets) + i]

(* An argument is used exactly as given, or not at all: pairs, items and PINs *)
(* are none of them lost, mixed or taken for another.                         *)
UsedAsGiven == PairsAsGiven /\ ItemsAsGiven /\ PinsAsGiven

=============================================================================
