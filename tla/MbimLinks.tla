------------------------------ MODULE MbimLinks ------------------------------
(* Network links multiplexed over one modem: mbim_device_add_link(),          *)
(* mbim_device_delete_link(), mbim_device_delete_all_links(), the net port    *)
(* managers of the two kinds of kernel driver, and their netlink transactions *)
(* (mbim-net-port-manager*.c, mbim-helpers-netlink.c).                        *)
(*                                                                            *)
(* The kernel carries out a request when it is sent and puts the              *)
(* acknowledgement in the socket; other processes add and delete links, too.  *)
(*                                                                            *)
(* As in MbimProxy, a function of the code is an operator from a state to the *)
(* next, a record `s', and an action is a dispatch of the main loop or a call *)
(* of the application.                                                        *)
EXTENDS Naturals, FiniteSets, SequencesExt

CONSTANTS Call,         \* calls of the application, in the order they are made
          Prefix,       \* interface name prefixes
          MaxSession,   \* stands for MBIM_DEVICE_SESSION_ID_MAX
          Leftovers,    \* the sets of links an earlier process may have left
          Foreign,      \* links that other processes add or delete
          MaxOthers     \* bound: how often they do

ASSUME LinksAssumption == /\ Call \subseteq Nat \ {0}
                          /\ MaxSession \in Nat \ {0} /\ MaxSession < 4094
                          /\ MaxOthers \in Nat

VARIABLES
  manager,       \* "none", or the kind in priv->net_port_manager
  driver,        \* the kind of driver of the modem
  links,         \* the links there are on the modem
  sequence_id,   \* priv->current_sequence_id
  transactions,  \* sequence id -> call whose task the transaction completes, or NoTask
  acks,          \* what the kernel has put in the socket
  source,        \* netlink_message_cb() is attached
  calls,         \* the calls and their contexts
  idle,          \* tasks returned in the dispatch that made them, and their results
  others,        \* links other processes have added and deleted
  crashed        \* the process came to an end

linksVars == <<manager, driver, links, sequence_id, transactions, acks, source, calls, idle, others,
               crashed>>

NoTask == 0

(* A link is its name; the prefix of a name ends before the session id.       *)
Link == [prefix : Prefix, session : 0..MaxSession]
AUTOMATIC == MaxSession + 1
ASSUME ForeignAssumption == Foreign \subseteq Link
ASSUME LeftoversAssumption == \A left \in Leftovers : left \subseteq Link /\ IsFiniteSet(left)
Bases == {"own", "other", "missing"}    \* of the modem, of something else, not there

Results == {"ok", "refused", "failed", "timed_out", "cancelled"}
Unused == [op |-> "none", result |-> "pending"]

(* verdicts, listed and removed are not in the code: what the kernel said to  *)
(* the requests of the call, the links mbim_device_delete_all_links() found   *)
(* and those it removed.                                                      *)
NewCall(op) == [op |-> op, cancelled |-> FALSE, result |-> "pending", todo |-> << >>,
                verdicts |-> << >>, listed |-> {}, removed |-> {}]

Made == {c \in Call : calls[c].op # "none"}
Pending == {c \in Made : calls[c].result = "pending"}

State == [links |-> links, sequence_id |-> sequence_id, transactions |-> transactions,
          acks |-> acks, calls |-> calls, idle |-> idle]

Become(s) == /\ links' = s.links
             /\ sequence_id' = s.sequence_id
             /\ transactions' = s.transactions
             /\ acks' = s.acks
             /\ calls' = s.calls
             /\ idle' = s.idle

-----------------------------------------------------------------------------
(* The kernel                                                                 *)

(* session_id_to_vlan_id(): session 0 is VLAN 4094.                           *)
session_id_to_vlan_id(session) == IF session = 0 THEN 4094 ELSE session

Channel(link) == IF driver = "wdm" THEN session_id_to_vlan_id(link.session) ELSE link.session

KernelAdds(s, link, base) == base = "own" /\ \A l \in s.links : Channel(l) # Channel(link)

-----------------------------------------------------------------------------
(* Netlink transactions                                                       *)

Without(f, x) == [y \in DOMAIN f \ {x} |-> f[y]]

(* mbim_helpers_netlink_transaction_new()                                     *)
TransactionNew(s, c) ==
  LET id == s.sequence_id + 1
  IN [s EXCEPT !.sequence_id = id,
               !.transactions = [q \in DOMAIN @ \cup {id} |-> IF q = id THEN c ELSE @[q]]]

(* A task returned in the dispatch that made it: the callback comes later.    *)
ReturnLater(s, c, result) == [s EXCEPT !.idle = Append(@, [call |-> c, result |-> result])]

(* What becomes of a request: it cannot be sent; the kernel refuses it, as it *)
(* does when the process may not change links or the interface just went      *)
(* away; or the kernel carries it out, if it can.                             *)
Fates == {"unsent", "refused", "granted"}

Sent(s, c, ok, changed) ==
  LET new == TransactionNew(s, c)
  IN [new EXCEPT !.links = IF ok THEN changed ELSE @,
                 !.acks = Append(@, [id |-> new.sequence_id, ok |-> ok]),
                 !.calls[c].verdicts = Append(@, ok)]

Unsent(s, c) ==
  LET new == TransactionNew(s, c)
  IN ReturnLater([new EXCEPT !.transactions = Without(@, new.sequence_id)], c, "failed")

(* A request of the call c that asks for the links `changed'.                 *)
Transact(s, c, fate, possible, changed) ==
  IF fate = "unsent" THEN Unsent(s, c)
  ELSE Sent(s, c, fate = "granted" /\ possible, changed)

-----------------------------------------------------------------------------
(* Deleting                                                                   *)

(* net_port_manager_del_link(): an interface that is not there has no index.  *)
DelLink(s, c, link, fate) ==
  IF link \notin s.links THEN ReturnLater(s, c, "failed")
  ELSE LET tried == Transact(s, c, fate, TRUE, s.links \ {link})
       IN IF fate = "granted" THEN [tried EXCEPT !.calls[c].removed = @ \cup {link}] ELSE tried

(* delete_next_link(): done, or the first of those that are left.             *)
DeleteNextLink(s, c, fate) ==
  LET todo == s.calls[c].todo
  IN IF todo = << >> THEN [s EXCEPT !.calls[c].result = "ok"]
     ELSE DelLink(s, c, todo[1], fate)

(* g_ptr_array_remove_index_fast (links, 0): the last one takes its place.    *)
RemoveFirstFast(list) ==
  IF Len(list) <= 1 THEN << >> ELSE << Last(list) >> \o SubSeq(list, 2, Len(list) - 1)

ReadyMutant(s, c, result, fate) ==
  LET seen == IF s.calls[c].cancelled THEN "cancelled" ELSE result
  IN IF s.calls[c].op = "del_all" /\ seen \in {"ok", "refused"}
     THEN DeleteNextLink([s EXCEPT !.calls[c].todo = RemoveFirstFast(@)], c, fate)
     ELSE [s EXCEPT !.calls[c].result = seen]

(* The task of the net port manager is returned and its callback run:         *)
(* device_add_link_ready(), device_del_link_ready(), or                       *)
(* port_manager_del_link_ready() and device_del_all_links_ready().  A task    *)
(* whose cancellable is cancelled fails whatever it was returned with.        *)
Ready(s, c, result, fate) ==
  LET seen == IF s.calls[c].cancelled THEN "cancelled" ELSE result
  IN IF s.calls[c].op = "del_all" /\ seen = "ok"
     THEN DeleteNextLink([s EXCEPT !.calls[c].todo = RemoveFirstFast(@)], c, fate)
     ELSE [s EXCEPT !.calls[c].result = seen]

(* ... at once, unless it is cancelled.                                       *)
Return(s, c, result, fate) ==
  IF s.calls[c].cancelled THEN ReturnLater(s, c, result) ELSE Ready(s, c, result, fate)

-----------------------------------------------------------------------------
(* Calls                                                                      *)

(* setup_net_port_manager(): made once, if a netlink socket can be had.       *)
Setup(c, op, works) ==
  /\ c \notin Made
  /\ \A other \in Call \ Made : c <= other
  /\ UNCHANGED <<driver, others, crashed>>
  /\ IF manager = "none" /\ ~works
     THEN /\ Become(ReturnLater([State EXCEPT !.calls[c] = NewCall(op)], c, "failed"))
          /\ UNCHANGED <<manager, source>>
     ELSE /\ manager' = driver
          /\ source' = IF manager = "none" THEN TRUE ELSE source

(* mbim_net_port_manager_util_get_first_free_session_id()                     *)
FreeSessions(prefix) == {i \in 1..MaxSession : [prefix |-> prefix, session |-> i] \notin links}
FirstFree(prefix) == CHOOSE i \in FreeSessions(prefix) : \A j \in FreeSessions(prefix) : i <= j

(* The manager of the wdm driver knows the interface of its modem; the other  *)
(* one takes any interface there is and leaves it to the kernel.              *)
BaseAccepted(base) == IF driver = "wdm" THEN base = "own" ELSE base # "missing"

AddLink(c, session, prefix, base, fate) ==
  LET id == IF session = AUTOMATIC THEN FirstFree(prefix) ELSE session
      link == [prefix |-> prefix, session |-> id]
      s == [State EXCEPT !.calls[c] = NewCall("add")]
  IN IF session = AUTOMATIC /\ FreeSessions(prefix) = {} THEN ReturnLater(s, c, "failed")
     ELSE IF ~BaseAccepted(base) THEN ReturnLater(s, c, "failed")
     ELSE Transact(s, c, fate, KernelAdds(s, link, base), s.links \cup {link})

mbim_device_add_link ==
  \E c \in Call, works \in BOOLEAN, fate \in Fates :
    \E session \in 0..AUTOMATIC, prefix \in Prefix, base \in Bases :
      /\ Setup(c, "add", works)
      /\ manager' # "none" => Become(AddLink(c, session, prefix, base, fate))

mbim_device_delete_link ==
  \E c \in Call, works \in BOOLEAN, fate \in Fates :
    \E link \in Link :
      /\ Setup(c, "del", works)
      /\ manager' # "none" => Become(DelLink([State EXCEPT !.calls[c] = NewCall("del")], c, link, fate))

(* The links are listed once; the list is empty, or may not be had.  A task   *)
(* with nothing to do is returned in this dispatch.                           *)
DeleteAll(c, list, fate) ==
  LET new == [NewCall("del_all") EXCEPT !.todo = list, !.listed = Range(list)]
      s == [State EXCEPT !.calls[c] = new]
  IN IF list = << >> THEN ReturnLater(s, c, "ok") ELSE DeleteNextLink(s, c, fate)

mbim_device_delete_all_links ==
  \E c \in Call, works, listed \in BOOLEAN, fate \in Fates :
    /\ Setup(c, "del_all", works)
    /\ manager' # "none" =>
         IF listed
         THEN \E list \in SetToSeqs(links) : Become(DeleteAll(c, list, fate))
         ELSE Become(ReturnLater([State EXCEPT !.calls[c] = NewCall("del_all")], c, "failed"))

Cancel ==
  \E c \in Pending :
    /\ ~calls[c].cancelled
    /\ calls' = [calls EXCEPT ![c].cancelled = TRUE]
    /\ UNCHANGED <<manager, driver, links, sequence_id, transactions, acks, source, idle, others,
                   crashed>>

-----------------------------------------------------------------------------
(* The main loop                                                              *)

fixedVars == <<manager, driver, others>>

CompleteMutant(s, id, ok, fate) ==
  Return([s EXCEPT !.transactions = Without(@, id)], s.transactions[id], "ok", fate)

(* mbim_helpers_netlink_transaction_complete()                                *)
Complete(s, id, ok, fate) ==
  Return([s EXCEPT !.transactions = Without(@, id)], s.transactions[id],
         IF ok THEN "ok" ELSE "refused", fate)

(* netlink_message_cb(): an acknowledgement completes the transaction of its  *)
(* sequence id, if there still is one; one without a task only goes.          *)
netlink_message_cb ==
  /\ source /\ acks # << >>
  /\ \E fate \in Fates :
       LET ack == Head(acks)
           read == [State EXCEPT !.acks = Tail(@)]
       IN Become(IF ack.id \notin DOMAIN transactions THEN read
                 ELSE IF transactions[ack.id] = NoTask
                 THEN [read EXCEPT !.transactions = Without(@, ack.id)]
                 ELSE Complete(read, ack.id, ack.ok, fate))
  /\ UNCHANGED <<fixedVars, source, crashed>>

(* The socket was closed or a read failed: nothing is read any more.          *)
SocketFails ==
  /\ source
  /\ source' = FALSE
  /\ UNCHANGED <<fixedVars, links, sequence_id, transactions, acks, calls, idle, crashed>>

TimedOutStaysMutant(c) ==
  /\ \E id \in DOMAIN transactions :
       /\ transactions[id] = c
       /\ \E fate \in Fates : Become(Return(State, c, "timed_out", fate))
  /\ UNCHANGED <<fixedVars, source, crashed>>

TimedOutWhileOpenMutant(c) ==
  /\ source
  /\ \E id \in DOMAIN transactions :
       /\ transactions[id] = c
       /\ \E fate \in Fates :
            Become(Return([State EXCEPT !.transactions = Without(@, id)], c, "timed_out", fate))
  /\ UNCHANGED <<fixedVars, source, crashed>>

(* The timer of a transaction, of which a call has one at a time, takes its   *)
(* task.  transaction_timed_out() has the table as a second parameter, but a  *)
(* GSourceFunc is called with one argument: it may find the table there, or   *)
(* NULL, and then nothing is removed, or something the process ends at.       *)
TimedOut(c) ==
  /\ \E id \in DOMAIN transactions :
       /\ transactions[id] = c
       /\ \/ /\ \E fate \in Fates,
                   left \in {Without(transactions, id), [transactions EXCEPT ![id] = NoTask]} :
                  Become(Return([State EXCEPT !.transactions = left], c, "timed_out", fate))
             /\ UNCHANGED crashed
          \/ /\ crashed' = TRUE
             /\ UNCHANGED <<links, sequence_id, transactions, acks, calls, idle>>
  /\ UNCHANGED <<fixedVars, source>>

transaction_timed_out == \E c \in Call : TimedOut(c)

RunIdle ==
  /\ idle # << >>
  /\ \E fate \in Fates :
       LET first == Head(idle)
       IN Become(Ready([State EXCEPT !.idle = Tail(@)], first.call, first.result, fate))
  /\ UNCHANGED <<fixedVars, source, crashed>>

OtherProcess ==
  /\ others < MaxOthers
  /\ others' = others + 1
  /\ \E link \in Foreign :
       \/ KernelAdds(State, link, "own") /\ links' = links \cup {link}
       \/ link \in links /\ links' = links \ {link}
  /\ UNCHANGED <<manager, driver, sequence_id, transactions, acks, source, calls, idle, crashed>>

-----------------------------------------------------------------------------
LinksInit ==
  /\ manager = "none"
  /\ driver \in {"wdm", "wwan"}
  /\ links \in Leftovers
  /\ sequence_id = 0
  /\ transactions = << >>
  /\ acks = << >>
  /\ source = FALSE
  /\ calls = [c \in Call |-> Unused]
  /\ idle = << >>
  /\ others = 0
  /\ crashed = FALSE

LinksNext ==
  /\ ~crashed
  /\ \/ mbim_device_add_link \/ mbim_device_delete_link \/ mbim_device_delete_all_links
     \/ Cancel \/ netlink_message_cb \/ SocketFails \/ transaction_timed_out \/ RunIdle
     \/ OtherProcess

LinksSpec == LinksInit /\ [][LinksNext]_linksVars

(* The main loop dispatches what is ready: timers expire, idle sources run.   *)
LinksFairSpec == /\ LinksSpec
                 /\ WF_linksVars(~crashed /\ RunIdle)
                 /\ \A c \in Call : WF_linksVars(~crashed /\ TimedOut(c))

-----------------------------------------------------------------------------
(* Properties                                                                 *)

(* The netlink transactions and the idle sources together hold each call that *)
(* has not returned once, and no other: no task is lost and none is returned  *)
(* twice, whatever the acknowledgements, the timers, the failed writes and    *)
(* the cancellations did.                                                     *)
HeldOnce ==
  \A c \in Made :
    Cardinality({id \in DOMAIN transactions : transactions[id] = c})
    + Cardinality({i \in DOMAIN idle : idle[i].call = c}) = IF c \in Pending THEN 1 ELSE 0

(* A call that adds or deletes a link succeeds only when the kernel did what  *)
(* it asked, and reports a refusal only when the kernel refused: it never     *)
(* takes the acknowledgement of another call for its own.                     *)
OwnVerdict ==
  \A c \in Made :
    /\ calls[c].result = "ok" /\ calls[c].op # "del_all" => calls[c].verdicts = << TRUE >>
    /\ calls[c].result = "refused" => Last(calls[c].verdicts) = FALSE

(* mbim_device_delete_all_links() succeeds only when it has deleted every     *)
(* link it found, although others add and delete links under it.              *)
AllDeleted ==
  \A c \in Made : calls[c].op = "del_all" /\ calls[c].result = "ok"
                  => calls[c].removed = calls[c].listed

(* Every call is answered once, and the answer stays; and, unless the process *)
(* ends, it is answered: also when the socket is gone, when acknowledgements  *)
(* come after the timer, and when a call is cancelled between two links.      *)
Calls == INSTANCE RequestReply
         WITH Request <- Call, Reply <- Results, NoReply <- "pending",
              pending <- Pending, reply <- [c \in Call |-> calls[c].result]
CallsAnswered ==
  /\ Calls!Spec
  /\ []~crashed => \A c \in Call : c \in Pending ~> c \notin Pending

=============================================================================
