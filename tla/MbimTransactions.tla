-------------------------- MODULE MbimTransactions --------------------------
(***************************************************************************)
(* The transaction table of an MbimDevice (src/libmbim-glib/mbim-device.c):*)
(* how requests are stored, matched with what the modem sends, reassembled *)
(* from fragments, timed out, cancelled, and returned to their callers.    *)
(*                                                                         *)
(* The library runs in one GLib main context, so a step is one dispatch of *)
(* the main loop or one call of the application.  g_task_return_*() runs   *)
(* the caller's callback before it returns when it is called by a main     *)
(* loop source dispatched after the task was created; it then sets         *)
(* `running' here, and the rest of the dispatch waits for RunCallback.     *)
(* Otherwise (the task was created in this very dispatch, or its           *)
(* cancellable is cancelled) the callback is queued in `idle'.             *)
(*                                                                         *)
(* The modem is arbitrary: any answer, error or indication fragment may be *)
(* read at any time the channel is open.                                   *)
(***************************************************************************)
EXTENDS Naturals, Sequences

CONSTANTS MaxTid,       \* stands for G_MAXUINT32, where transaction ids wrap to 1
          MaxTasks,     \* bound: GTasks created in a behaviour
          MaxFragments  \* bound: fragments of a message

ASSUME BoundsAssumption == /\ MaxTid \in Nat \ {0}
                           /\ MaxTasks \in Nat \ {0}
                           /\ MaxFragments \in Nat \ {0}

HOST  == "HOST"    \* TRANSACTION_TYPE_HOST
MODEM == "MODEM"   \* TRANSACTION_TYPE_MODEM
TransactionType == {HOST, MODEM}
RequestType     == {"OPEN", "CLOSE", "COMMAND"}
MessageType     == RequestType \cup {"INDICATE_STATUS"}

Tid  == 1..MaxTid
Task == 1..MaxTasks
None == 0             \* no task: a free slot of the table, nothing running

Timeouts  == {"timeout", "timeout_fragment"}
Successes == {"response", "function_error"}
Failures  == {"aborted", "wrong_state", "write_failed", "out_of_sequence", "unknown_state"}
Outcome   == Timeouts \cup Successes \cup Failures

TransactionContext == [kind : TransactionType, type : MessageType, transaction_id : Tid]

VARIABLES
  iochannel,                 \* priv->iochannel # NULL
  transaction_id,            \* priv->transaction_id
  transactions,              \* priv->transactions[]: type -> id -> task
  pending_error_indication,  \* priv->pending_error_indication # NULL
  consecutive_timeouts,      \* priv->consecutive_timeouts
  ntasks,                    \* the tasks 1..ntasks have been created
  ctx,                       \* TransactionContext of each task
  fragments,                 \* ctx->fragments: the fragment numbers collected
  total,                     \* the total announced by the first fragment
  timeout_source,            \* tasks whose ctx->timeout_source is attached
  result,                    \* what the task was returned with
  idle,                      \* tasks whose callback waits in an idle source
  running,                   \* task whose callback is being run
  called,                    \* how often the callback of each task was run
  reports                    \* ids with a HOST_ERROR waiting in an idle source

taskVars == <<ntasks, ctx>>
collectorVars == <<fragments, total>>
tableVars == <<transactions, timeout_source>>
returnVars == <<result, idle, running, called, consecutive_timeouts>>
deviceVars == <<iochannel, transaction_id, pending_error_indication>>
txnVars == <<taskVars, collectorVars, tableVars, returnVars, deviceVars, reports>>

TxnTypeOK ==
  /\ iochannel \in BOOLEAN
  /\ transaction_id \in Tid
  /\ transactions \in [TransactionType -> [Tid -> Task \cup {None}]]
  /\ pending_error_indication \in BOOLEAN
  /\ consecutive_timeouts \in Nat
  /\ ntasks \in 0..MaxTasks
  /\ ctx \in [Task -> TransactionContext]
  /\ fragments \in [Task -> Seq(0..(MaxFragments - 1))]
  /\ total \in [Task -> 0..MaxFragments]
  /\ timeout_source \in SUBSET Task
  /\ result \in [Task -> Outcome \cup {"pending"}]
  /\ idle \in Seq(Task)
  /\ running \in Task \cup {None}
  /\ called \in [Task -> Nat]
  /\ reports \in SUBSET Tid

TxnInit ==
  /\ iochannel = FALSE
  /\ transaction_id = 1
  /\ transactions = [k \in TransactionType |-> [id \in Tid |-> None]]
  /\ pending_error_indication = FALSE
  /\ consecutive_timeouts = 0
  /\ ntasks = 0
  /\ ctx = [t \in Task |-> [kind |-> HOST, type |-> "COMMAND", transaction_id |-> 1]]
  /\ fragments = [t \in Task |-> <<>>]
  /\ total = [t \in Task |-> 0]
  /\ timeout_source = {}
  /\ result = [t \in Task |-> "pending"]
  /\ idle = <<>>
  /\ running = None
  /\ called = [t \in Task |-> 0]
  /\ reports = {}

-----------------------------------------------------------------------------
(* The helpers of mbim-device.c.  Each primes the variables it names and   *)
(* no other.                                                               *)

\* The main loop dispatches a source only when no callback is being run and
\* process_message() is not about to emit the error signal.
Quiet == running = None /\ ~pending_error_indication

\* Application code runs in a dispatch of its own or inside a callback.
AppRuns == running # None \/ Quiet

\* transaction_task_new
NewTask(kind, type, id) ==
  /\ ntasks < MaxTasks
  /\ ntasks' = ntasks + 1
  /\ ctx' = [ctx EXCEPT ![ntasks + 1] = [kind |-> kind, type |-> type, transaction_id |-> id]]

\* (Operators named ...Mutant are wrong on purpose: each is the next definition
\* with a plausible bug, which the properties must notice.)
ReleaseMutant(kind, id) == UNCHANGED transactions

\* device_release_transaction, when it finds the task
Release(kind, id) == transactions' = [transactions EXCEPT ![kind][id] = None]

StoreMutant(t, kind, id) ==
  /\ transactions' = [transactions EXCEPT ![kind][id] = t]
  /\ timeout_source' = IF kind = HOST THEN timeout_source \cup {t} ELSE timeout_source

\* device_store_transaction of a new task: the timer is set and the hash
\* table takes the task in the place of what it held under the same id
Store(t, kind, id) ==
  /\ transactions' = [transactions EXCEPT ![kind][id] = t]
  /\ timeout_source' = timeout_source \cup {t}

\* The counting done by transaction_task_complete_and_free
CountTimeouts(r) ==
  consecutive_timeouts' = IF r \in Timeouts THEN consecutive_timeouts + 1
                          ELSE IF r \in Successes THEN 0 ELSE consecutive_timeouts

\* transaction_task_complete_and_free with the callback run at once, ...
CompleteNow(t, r) ==
  /\ result' = [result EXCEPT ![t] = r]
  /\ running' = t
  /\ CountTimeouts(r)
  /\ UNCHANGED <<idle, called>>

\* ... and with the callback left to an idle source.
CompleteLater(t, r) ==
  /\ result' = [result EXCEPT ![t] = r]
  /\ idle' = Append(idle, t)
  /\ CountTimeouts(r)
  /\ UNCHANGED <<running, called>>

NextTransactionIdMutant == transaction_id + 1

\* mbim_device_get_next_transaction_id
NextTransactionId == IF transaction_id = MaxTid THEN 1 ELSE transaction_id + 1

\* The one assumption on ids: they wrap only after G_MAXUINT32 requests, so a
\* new request never takes the id of one that is still known to the device.
FreshTid(id) ==
  /\ transactions[HOST][id] = None
  /\ \A t \in timeout_source : ctx[t].kind = HOST => ctx[t].transaction_id # id

-----------------------------------------------------------------------------
(* Calls of the application, and of the rest of the library.               *)

\* mbim_device_command, for a message that takes the next id
CommandOf(type, id) ==
  LET t == ntasks + 1
  IN /\ FreshTid(id)
     /\ transaction_id' = NextTransactionId
     /\ NewTask(HOST, type, id)
     /\ UNCHANGED <<collectorVars, iochannel, pending_error_indication, reports>>
     /\ \/ /\ ~iochannel                      \* "Device must be open to send commands"
           /\ CompleteLater(t, "wrong_state")
           /\ UNCHANGED tableVars
        \/ /\ iochannel                       \* "Request is already cancelled"
           /\ CompleteLater(t, "aborted")    \* (after its timer was set)
           /\ timeout_source' = timeout_source \cup {t}
           /\ UNCHANGED transactions
        \/ /\ iochannel                       \* stored, but device_send fails: released again
           /\ CompleteLater(t, "write_failed")
           /\ timeout_source' = timeout_source \cup {t}
           /\ UNCHANGED transactions
        \/ /\ iochannel                       \* stored and sent
           /\ Store(t, HOST, id)
           /\ UNCHANGED returnVars

Command(type) == AppRuns /\ CommandOf(type, transaction_id)

\* transaction_cancelled: the caller cancels the cancellable of a stored request
TransactionCancelled(t) ==
  /\ AppRuns
  /\ \E id \in Tid :
       /\ transactions[HOST][id] = t
       /\ Release(HOST, id)
  /\ CompleteLater(t, "aborted")
  /\ UNCHANGED <<taskVars, collectorVars, timeout_source, deviceVars, reports>>

\* create_iochannel, reduced to its result: a channel is made if there is none
OpenChannel ==
  /\ AppRuns
  /\ ~iochannel
  /\ iochannel' = TRUE
  /\ UNCHANGED <<taskVars, collectorVars, tableVars, returnVars, transaction_id,
                 pending_error_indication, reports>>

DestroyIochannelMutant == iochannel' = FALSE /\ UNCHANGED pending_error_indication

\* destroy_iochannel: what is stored stays stored
DestroyIochannel ==
  /\ iochannel' = FALSE
  /\ pending_error_indication' = (pending_error_indication /\ ~iochannel)

\* mbim_device_close_force
CloseForce ==
  /\ AppRuns
  /\ iochannel
  /\ DestroyIochannel
  /\ UNCHANGED <<taskVars, collectorVars, tableVars, returnVars, transaction_id, reports>>

-----------------------------------------------------------------------------
(* process_message, one action per kind of message that finds a task or    *)
(* makes one; the others change nothing here.                              *)

Reading == Quiet /\ iochannel

\* OPEN_DONE and CLOSE_DONE: not fragments, matched by id and type
ReceiveDone(type, id) ==
  LET t == transactions[HOST][id]
  IN /\ Reading
     /\ t # None
     /\ ctx[t].type = type
     /\ Release(HOST, id)
     /\ CompleteNow(t, "response")
     /\ UNCHANGED <<taskVars, collectorVars, timeout_source, deviceVars, reports>>

\* finalize_pending_open_request, on a CLOSE_DONE that matches nothing: when
\* the device is waiting for an OPEN_DONE, its OPEN is given up
FinalizePendingOpen(id) ==
  LET t == transactions[HOST][id]
  IN /\ Reading
     /\ t # None
     /\ ctx[t].type = "OPEN"
     /\ Release(HOST, id)
     /\ CompleteNow(t, "unknown_state")
     /\ UNCHANGED <<taskVars, collectorVars, timeout_source, deviceVars, reports>>

NextFragmentMutant(t, current) == fragments[t] # <<>> \/ current = 0

\* _mbim_message_fragment_collector_init and _collector_add accept only the next fragment
NextFragment(t, current) ==
  IF fragments[t] = <<>> THEN current = 0
                         ELSE fragments[t][Len(fragments[t])] + 1 = current

\* _mbim_message_fragment_collector_complete compares with the total of fragment 0
LastFragment(t, current, of) ==
  current + 1 = IF fragments[t] = <<>> THEN of ELSE total[t]

\* The collector takes the fragment into ctx->fragments
Collect(t, current, of) ==
  /\ fragments' = [fragments EXCEPT ![t] = Append(@, current)]
  /\ total' = [total EXCEPT ![t] = IF fragments[t] = <<>> THEN of ELSE @]

\* device_report_error
ReportError(id) == reports' = reports \cup {id}

\* A fragment of a stored message: COMMAND_DONE, or more of an indication.
\* A task that waits for more is stored again, keeping its timer.
ReceiveFragment(kind, type, id, current, of) ==
  LET t == transactions[kind][id]
  IN /\ Reading
     /\ t # None
     /\ ctx[t].type = type
     /\ UNCHANGED <<taskVars, timeout_source, deviceVars>>
     /\ \/ /\ ~NextFragment(t, current)
           /\ Release(kind, id)
           /\ CompleteNow(t, "out_of_sequence")
           /\ ReportError(id)
           /\ UNCHANGED collectorVars
        \/ /\ NextFragment(t, current)
           /\ LastFragment(t, current, of)
           /\ Collect(t, current, of)
           /\ Release(kind, id)
           /\ CompleteNow(t, "response")
           /\ UNCHANGED reports
        \/ /\ NextFragment(t, current)
           /\ ~LastFragment(t, current, of)
           /\ Collect(t, current, of)
           /\ UNCHANGED <<transactions, returnVars, reports>>

\* The first fragment seen of an indication: a task is made for it.  It is
\* returned in the dispatch that made it, so its callback waits in an idle.
ReceiveNewIndication(id, current, of) ==
  LET t == ntasks + 1
  IN /\ Reading
     /\ transactions[MODEM][id] = None
     /\ NewTask(MODEM, "INDICATE_STATUS", id)
     /\ UNCHANGED deviceVars
     /\ \/ /\ current # 0
           /\ CompleteLater(t, "out_of_sequence")
           /\ ReportError(id)
           /\ UNCHANGED <<collectorVars, tableVars>>
        \/ /\ current = 0 /\ of = 1
           /\ Collect(t, current, of)
           /\ CompleteLater(t, "response")
           /\ UNCHANGED <<tableVars, reports>>
        \/ /\ current = 0 /\ of > 1
           /\ Collect(t, current, of)
           /\ Store(t, MODEM, id)
           /\ UNCHANGED <<returnVars, reports>>

\* FUNCTION_ERROR: matched by id alone, and returned as a message
ReceiveFunctionError(id) ==
  LET t == transactions[HOST][id]
  IN /\ Reading
     /\ t # None
     /\ pending_error_indication' = TRUE
     /\ Release(HOST, id)
     /\ CompleteNow(t, "function_error")
     /\ UNCHANGED <<taskVars, collectorVars, timeout_source, iochannel, transaction_id, reports>>

\* ... after whose callback the error signal is emitted, if it is still pending
EmitError ==
  /\ running = None
  /\ pending_error_indication
  /\ pending_error_indication' = FALSE
  /\ UNCHANGED <<taskVars, collectorVars, tableVars, returnVars, iochannel, transaction_id, reports>>

-----------------------------------------------------------------------------
(* Timers and idle sources.                                                *)

TransactionTimedOutMutant(t) ==
  LET kind == ctx[t].kind
      id   == ctx[t].transaction_id
      u    == transactions[kind][id]
  IN /\ Quiet
     /\ t \in timeout_source
     /\ timeout_source' = timeout_source \ {t}
     /\ UNCHANGED <<taskVars, collectorVars, deviceVars, reports>>
     /\ \/ u = None /\ UNCHANGED <<transactions, returnVars>>
        \/ u # None /\ fragments[u] = <<>> /\ Release(kind, id) /\ CompleteNow(u, "timeout")

\* transaction_timed_out: the timer of t releases whatever has t's kind and id,
\* and clears the timeout_source of that.  With fresh ids (FreshTid) it is t or
\* nothing; what happens with ids used again is in MbimForwarding.
TransactionTimedOut(t) ==
  LET kind == ctx[t].kind
      id   == ctx[t].transaction_id
      u    == transactions[kind][id]
  IN /\ Quiet
     /\ t \in timeout_source
     /\ timeout_source' = timeout_source \ {t}
     /\ UNCHANGED <<taskVars, collectorVars, deviceVars>>
     /\ \/ /\ u = None                        \* transaction already completed
           /\ UNCHANGED <<transactions, returnVars, reports>>
        \/ /\ u # None /\ fragments[u] = <<>>
           /\ Release(kind, id)
           /\ CompleteNow(u, "timeout")
           /\ UNCHANGED reports
        \/ /\ u # None /\ fragments[u] # <<>>
           /\ Release(kind, id)
           /\ CompleteNow(u, "timeout_fragment")
           /\ ReportError(id)

\* The idle source of a returned task
RunIdle ==
  /\ Quiet
  /\ idle # <<>>
  /\ running' = Head(idle)
  /\ idle' = Tail(idle)
  /\ UNCHANGED <<taskVars, collectorVars, tableVars, result, called, consecutive_timeouts,
                 deviceVars, reports>>

\* The callback returns and the task is freed, its timer with it
RunCallback ==
  /\ running # None
  /\ called' = [called EXCEPT ![running] = @ + 1]
  /\ running' = None
  /\ timeout_source' = timeout_source \ {running}
  /\ UNCHANGED <<taskVars, collectorVars, transactions, result, idle, consecutive_timeouts,
                 deviceVars, reports>>

\* device_report_error_in_idle: the HOST_ERROR is written if there is a channel
ReportErrorInIdle(id) ==
  /\ Quiet
  /\ id \in reports
  /\ reports' = reports \ {id}
  /\ UNCHANGED <<taskVars, collectorVars, tableVars, returnVars, deviceVars>>

-----------------------------------------------------------------------------
AppCalls ==
  \/ \E type \in RequestType : Command(type)
  \/ \E t \in Task : TransactionCancelled(t)
  \/ OpenChannel
  \/ CloseForce

ProcessMessage ==
  \/ \E id \in Tid, type \in {"OPEN", "CLOSE"} : ReceiveDone(type, id)
  \/ \E id \in Tid, of \in 1..MaxFragments : \E current \in 0..(of - 1) :
       \/ ReceiveFragment(HOST, "COMMAND", id, current, of)
       \/ ReceiveFragment(MODEM, "INDICATE_STATUS", id, current, of)
       \/ ReceiveNewIndication(id, current, of)
  \/ \E id \in Tid : ReceiveFunctionError(id) \/ FinalizePendingOpen(id)

MainLoop ==
  \/ \E t \in Task : TransactionTimedOut(t)
  \/ RunIdle
  \/ RunCallback
  \/ EmitError
  \/ \E id \in Tid : ReportErrorInIdle(id)

TxnNext == AppCalls \/ ProcessMessage \/ MainLoop

TxnSpec == TxnInit /\ [][TxnNext]_txnVars

\* The main loop dispatches every source that is ready, and a callback ends:
\* nothing is asked of the application or of the modem.
TxnFairness ==
  /\ \A t \in Task : WF_txnVars(TransactionTimedOut(t))
  /\ WF_txnVars(RunIdle)
  /\ WF_txnVars(RunCallback)
  /\ WF_txnVars(EmitError)

TxnFairSpec == TxnSpec /\ TxnFairness

-----------------------------------------------------------------------------
(* Safety.                                                                 *)

Created == 1..ntasks
InIdle(t) == \E i \in 1..Len(idle) : idle[i] = t

\* A created task is in exactly one place: waiting in the table under its own
\* kind and id, queued in an idle source, being called back, or called back
\* once.  A request is so never lost by a handler that released it, and never
\* completed twice by two of an answer, a timeout and a cancellation.
Waiting(t) == /\ result[t] = "pending"
              /\ transactions[ctx[t].kind][ctx[t].transaction_id] = t

TableHoldsPending ==
  \A k \in TransactionType, id \in Tid :
    LET t == transactions[k][id]
    IN t # None => /\ t \in Created
                   /\ result[t] = "pending"
                   /\ ctx[t].kind = k
                   /\ ctx[t].transaction_id = id

NoTaskLost ==
  \A t \in Created :
    \/ Waiting(t)
    \/ result[t] # "pending" /\ (called[t] = 1 \/ running = t \/ InIdle(t))

CalledBackOnce ==
  /\ \A t \in Task : called[t] <= 1 /\ (result[t] = "pending" => called[t] = 0)
  /\ \A t \in Task : running = t \/ InIdle(t) => called[t] = 0 /\ result[t] # "pending"
  /\ running # None => ~InIdle(running)
  /\ \A i, j \in 1..Len(idle) : idle[i] = idle[j] => i = j

ExactlyOnce == TableHoldsPending /\ NoTaskLost /\ CalledBackOnce

\* A stored transaction has its timer, also after it was stored again to wait
\* for more fragments: without it nothing would end a request whose answer is
\* lost, or free an indication whose last fragment never comes.
StoredHasTimer ==
  \A k \in TransactionType, id \in Tid :
    transactions[k][id] # None => transactions[k][id] \in timeout_source

\* A reassembled message returned to a caller consists of the fragments
\* 0, 1, ..., total - 1, each once and in order, whatever the modem repeated,
\* skipped or interleaved.
WholeMessage ==
  \A t \in Task :
    result[t] = "response" /\ fragments[t] # <<>> =>
      /\ Len(fragments[t]) = total[t]
      /\ \A i \in 1..total[t] : fragments[t][i] = i - 1

\* An error signal waits to be emitted only while the channel that the error
\* came through is there: "pending error indications are always cleared if the
\* channel is closed", by the callback that runs in between.
ErrorNeedsChannel == pending_error_indication => iochannel

-----------------------------------------------------------------------------
(* The inductive invariant behind ExactlyOnce and StoredHasTimer: a task   *)
(* that was not created yet has left no trace.                             *)
Uncreated ==
  \A t \in Task \ Created :
    result[t] = "pending" /\ called[t] = 0 /\ fragments[t] = <<>>

TxnIInv == TxnTypeOK /\ Uncreated /\ ExactlyOnce /\ StoredHasTimer

(* ... and behind WholeMessage: what a task has collected is the beginning *)
(* of a message, and a waiting one still misses its end.                   *)
CollectedInOrder ==
  \A t \in Task :
    /\ \A i \in 1..Len(fragments[t]) : fragments[t][i] = i - 1
    /\ Len(fragments[t]) <= total[t]
    /\ fragments[t] # <<>> /\ result[t] = "pending" => Len(fragments[t]) < total[t]
    /\ fragments[t] # <<>> /\ result[t] = "response" => Len(fragments[t]) = total[t]

(* Only COMMAND and INDICATE_STATUS are fragments, so an OPEN_DONE or a    *)
(* CLOSE_DONE finds no collector: "g_assert (ctx->fragments == NULL)".     *)
OnlyFragmentsCollected ==
  \A t \in Task : fragments[t] # <<>> => ctx[t].type \in {"COMMAND", "INDICATE_STATUS"}

CollectorIInv == TxnIInv /\ CollectedInOrder /\ OnlyFragmentsCollected
=============================================================================
