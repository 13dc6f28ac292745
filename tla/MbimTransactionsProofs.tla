----------------------- MODULE MbimTransactionsProofs -----------------------
(***************************************************************************)
(* Proofs about MbimTransactions, for every MaxTid, MaxTasks and           *)
(* MaxFragments; at the end, that it implements RequestReply.              *)
(***************************************************************************)
EXTENDS MbimTransactionsRefinement, TLAPS

LEMMA AppendType ==
  ASSUME NEW S, NEW s \in Seq(S), NEW e \in S
  PROVE  Append(s, e) \in Seq(S)
OBVIOUS

LEMMA TypeInit == TxnInit => TxnTypeOK
<1> SUFFICES ASSUME TxnInit PROVE TxnTypeOK
  OBVIOUS
<1>1. 1 \in Tid
  BY BoundsAssumption DEF Tid
<1>2. [kind |-> HOST, type |-> "COMMAND", transaction_id |-> 1] \in TransactionContext
  BY <1>1 DEF TransactionContext, TransactionType, MessageType, RequestType
<1>3. ctx \in [Task -> TransactionContext] /\ transaction_id \in Tid
  BY <1>1, <1>2 DEF TxnInit
<1>4. transactions \in [TransactionType -> [Tid -> Task \cup {None}]]
  BY DEF TxnInit
<1>5. /\ fragments \in [Task -> Seq(0..(MaxFragments - 1))]
      /\ total \in [Task -> 0..MaxFragments]
  BY BoundsAssumption DEF TxnInit
<1>9. iochannel \in BOOLEAN /\ pending_error_indication \in BOOLEAN
  BY DEF TxnInit
<1>6. consecutive_timeouts \in Nat /\ ntasks \in 0..MaxTasks
  BY BoundsAssumption DEF TxnInit
<1>7. /\ timeout_source \in SUBSET Task
      /\ result \in [Task -> Outcome \cup {"pending"}]
      /\ idle \in Seq(Task)
      /\ running \in Task \cup {None}
      /\ called \in [Task -> Nat]
      /\ reports \in SUBSET Tid
  BY DEF TxnInit
<1>8. QED BY <1>3, <1>4, <1>5, <1>6, <1>7, <1>9 DEF TxnTypeOK

LEMMA NextIdType ==
  ASSUME transaction_id \in Tid PROVE NextTransactionId \in Tid
BY BoundsAssumption DEF NextTransactionId, Tid

(* The pieces every handler is made of keep the types.                     *)

LEMMA NewTaskType ==
  ASSUME TxnTypeOK, NEW kind \in TransactionType, NEW type \in MessageType, NEW id \in Tid,
         NewTask(kind, type, id)
  PROVE  /\ ntasks + 1 \in Task
         /\ ntasks' = ntasks + 1 /\ ntasks' \in 0..MaxTasks
         /\ ctx' \in [Task -> TransactionContext]
<1>1. ntasks \in Nat /\ MaxTasks \in Nat /\ ntasks < MaxTasks
  BY BoundsAssumption DEF TxnTypeOK, NewTask
<1>2. ntasks + 1 \in Task
  BY <1>1 DEF Task
<1>3. [kind |-> kind, type |-> type, transaction_id |-> id] \in TransactionContext
  BY DEF TransactionContext
<1>4. QED BY <1>1, <1>2, <1>3 DEF NewTask, TxnTypeOK

LEMMA ReleaseType ==
  ASSUME TxnTypeOK, NEW kind \in TransactionType, NEW id \in Tid, Release(kind, id)
  PROVE  transactions' \in [TransactionType -> [Tid -> Task \cup {None}]]
BY DEF TxnTypeOK, Release

LEMMA StoreType ==
  ASSUME TxnTypeOK, NEW t \in Task, NEW kind \in TransactionType, NEW id \in Tid,
         Store(t, kind, id)
  PROVE  /\ transactions' \in [TransactionType -> [Tid -> Task \cup {None}]]
         /\ timeout_source' \in SUBSET Task
BY DEF TxnTypeOK, Store

LEMMA CompleteType ==
  ASSUME TxnTypeOK, NEW t \in Task, NEW r \in Outcome,
         CompleteNow(t, r) \/ CompleteLater(t, r)
  PROVE  /\ result' \in [Task -> Outcome \cup {"pending"}]
         /\ idle' \in Seq(Task)
         /\ running' \in Task \cup {None}
         /\ called' \in [Task -> Nat]
         /\ consecutive_timeouts' \in Nat
<1>1. result' \in [Task -> Outcome \cup {"pending"}]
  BY DEF TxnTypeOK, CompleteNow, CompleteLater
<1>2. idle' \in Seq(Task)
  <2>1. idle \in Seq(Task) /\ Append(idle, t) \in Seq(Task)
    BY AppendType DEF TxnTypeOK
  <2>2. QED BY <2>1 DEF CompleteNow, CompleteLater
<1>3. running' \in Task \cup {None} /\ called' \in [Task -> Nat]
  BY DEF TxnTypeOK, CompleteNow, CompleteLater
<1>4. consecutive_timeouts' \in Nat
  BY DEF TxnTypeOK, CompleteNow, CompleteLater, CountTimeouts
<1>5. QED BY <1>1, <1>2, <1>3, <1>4

LEMMA CollectType ==
  ASSUME TxnTypeOK, NEW t \in Task, NEW of \in 1..MaxFragments, NEW current \in 0..(of - 1),
         Collect(t, current, of)
  PROVE  /\ fragments' \in [Task -> Seq(0..(MaxFragments - 1))]
         /\ total' \in [Task -> 0..MaxFragments]
<1>1. current \in 0..(MaxFragments - 1)
  BY BoundsAssumption
<1>2. fragments[t] \in Seq(0..(MaxFragments - 1))
  BY DEF TxnTypeOK
<1>3. Append(fragments[t], current) \in Seq(0..(MaxFragments - 1))
  BY <1>1, <1>2, AppendType
<1>4. fragments' \in [Task -> Seq(0..(MaxFragments - 1))]
  BY <1>3 DEF Collect, TxnTypeOK
<1>5. of \in 0..MaxFragments
  BY BoundsAssumption
<1>6. total' \in [Task -> 0..MaxFragments]
  BY <1>5 DEF Collect, TxnTypeOK
<1>7. QED BY <1>4, <1>6

LEMMA ReportType ==
  ASSUME TxnTypeOK, NEW id \in Tid, ReportError(id)
  PROVE  reports' \in SUBSET Tid
BY DEF TxnTypeOK, ReportError

LEMMA ChannelType ==
  ASSUME TxnTypeOK, DestroyIochannel
  PROVE  iochannel' \in BOOLEAN /\ pending_error_indication' \in BOOLEAN
BY DEF TxnTypeOK, DestroyIochannel

\* A task found in the table is a task
LEMMA FoundType ==
  ASSUME TxnTypeOK, NEW kind \in TransactionType, NEW id \in Tid, transactions[kind][id] # None
  PROVE  transactions[kind][id] \in Task
BY DEF TxnTypeOK

LEMMA ContextType ==
  ASSUME TxnTypeOK, NEW t \in Task
  PROVE  /\ ctx[t].kind \in TransactionType
         /\ ctx[t].type \in MessageType
         /\ ctx[t].transaction_id \in Tid
BY DEF TxnTypeOK, TransactionContext

LEMMA TypeStep == TxnTypeOK /\ [TxnNext]_txnVars => TxnTypeOK'
<1> SUFFICES ASSUME TxnTypeOK, [TxnNext]_txnVars PROVE TxnTypeOK'
  OBVIOUS
<1> HOST \in TransactionType /\ MODEM \in TransactionType
  BY DEF TransactionType
<1> USE DEF taskVars, collectorVars, tableVars, returnVars, deviceVars
<1>1. ASSUME NEW type \in RequestType, Command(type) PROVE TxnTypeOK'
  <2> DEFINE t == ntasks + 1
             id == transaction_id
  <2>1. id \in Tid /\ type \in MessageType
    BY DEF TxnTypeOK, MessageType
  <2>2. CommandOf(type, id)
    BY <1>1 DEF Command
  <2>3. NewTask(HOST, type, id) /\ transaction_id' \in Tid
    BY <2>2, NextIdType DEF CommandOf, TxnTypeOK
  <2>4. t \in Task /\ ntasks' \in 0..MaxTasks /\ ctx' \in [Task -> TransactionContext]
    BY <2>1, <2>3, NewTaskType
  <2>5. /\ fragments' = fragments /\ total' = total /\ iochannel' = iochannel
        /\ pending_error_indication' = pending_error_indication /\ reports' = reports
    BY <2>2 DEF CommandOf
  <2>6. ASSUME NEW r \in Outcome, CompleteLater(t, r),
               transactions' = transactions,
               timeout_source' \in {timeout_source, timeout_source \cup {t}}
        PROVE  TxnTypeOK'
    <3>1. timeout_source' \in SUBSET Task
      BY <2>4, <2>6 DEF TxnTypeOK
    <3>2. QED BY <2>3, <2>4, <2>5, <2>6, <3>1, CompleteType DEF TxnTypeOK
  <2>7. CASE Store(t, HOST, id) /\ UNCHANGED returnVars
    BY <2>1, <2>3, <2>4, <2>5, <2>7, StoreType DEF TxnTypeOK
  <2>8. {"wrong_state", "aborted", "write_failed"} \subseteq Outcome
    BY DEF Outcome, Failures
  <2>9. QED BY <2>2, <2>6, <2>7, <2>8 DEF CommandOf
<1>2. ASSUME NEW t \in Task, TransactionCancelled(t) PROVE TxnTypeOK'
  <2>1. PICK id \in Tid : Release(HOST, id)
    BY <1>2 DEF TransactionCancelled
  <2>2. CompleteLater(t, "aborted") /\ "aborted" \in Outcome
    BY <1>2 DEF TransactionCancelled, Outcome, Failures
  <2>3. QED BY <1>2, <2>1, <2>2, ReleaseType, CompleteType DEF TransactionCancelled, TxnTypeOK
<1>3. CASE OpenChannel
  BY <1>3 DEF OpenChannel, TxnTypeOK
<1>4. CASE CloseForce
  BY <1>4, ChannelType DEF CloseForce, TxnTypeOK
<1>5. ASSUME NEW id \in Tid, NEW type \in {"OPEN", "CLOSE"}, ReceiveDone(type, id)
      PROVE  TxnTypeOK'
  <2> DEFINE t == transactions[HOST][id]
  <2>1. t \in Task
    BY <1>5, FoundType DEF ReceiveDone
  <2>2. CompleteNow(t, "response") /\ "response" \in Outcome
    BY <1>5 DEF ReceiveDone, Outcome, Successes
  <2>3. QED BY <1>5, <2>1, <2>2, ReleaseType, CompleteType DEF ReceiveDone, TxnTypeOK
<1>6. ASSUME NEW kind \in TransactionType, NEW type \in MessageType, NEW id \in Tid,
             NEW of \in 1..MaxFragments, NEW current \in 0..(of - 1),
             ReceiveFragment(kind, type, id, current, of)
      PROVE  TxnTypeOK'
  <2> DEFINE t == transactions[kind][id]
  <2>1. t \in Task
    BY <1>6, FoundType DEF ReceiveFragment
  <2>2. /\ ntasks' = ntasks /\ ctx' = ctx /\ timeout_source' = timeout_source
        /\ iochannel' = iochannel /\ transaction_id' = transaction_id
        /\ pending_error_indication' = pending_error_indication
    BY <1>6 DEF ReceiveFragment
  <2>3. {"out_of_sequence", "response"} \subseteq Outcome
    BY DEF Outcome, Successes, Failures
  <2>4. CASE Release(kind, id) /\ CompleteNow(t, "out_of_sequence") /\ ReportError(id)
             /\ UNCHANGED collectorVars
    BY <2>1, <2>2, <2>3, <2>4, ReleaseType, CompleteType, ReportType DEF TxnTypeOK
  <2>5. CASE Collect(t, current, of) /\ Release(kind, id) /\ CompleteNow(t, "response")
             /\ UNCHANGED reports
    BY <2>1, <2>2, <2>3, <2>5, ReleaseType, CompleteType, CollectType DEF TxnTypeOK
  <2>6. CASE Collect(t, current, of) /\ UNCHANGED <<transactions, returnVars, reports>>
    BY <2>1, <2>2, <2>6, CollectType DEF TxnTypeOK
  <2>7. QED BY <1>6, <2>4, <2>5, <2>6 DEF ReceiveFragment
<1>7. ASSUME NEW id \in Tid, NEW of \in 1..MaxFragments, NEW current \in 0..(of - 1),
             ReceiveNewIndication(id, current, of)
      PROVE  TxnTypeOK'
  <2> DEFINE t == ntasks + 1
  <2>1. NewTask(MODEM, "INDICATE_STATUS", id) /\ "INDICATE_STATUS" \in MessageType
    BY <1>7 DEF ReceiveNewIndication, MessageType
  <2>2. t \in Task /\ ntasks' \in 0..MaxTasks /\ ctx' \in [Task -> TransactionContext]
    BY <2>1, NewTaskType
  <2>3. /\ iochannel' = iochannel /\ transaction_id' = transaction_id
        /\ pending_error_indication' = pending_error_indication
    BY <1>7 DEF ReceiveNewIndication
  <2>4. {"out_of_sequence", "response"} \subseteq Outcome
    BY DEF Outcome, Successes, Failures
  <2>5. CASE CompleteLater(t, "out_of_sequence") /\ ReportError(id)
             /\ UNCHANGED <<collectorVars, tableVars>>
    BY <2>2, <2>3, <2>4, <2>5, CompleteType, ReportType DEF TxnTypeOK
  <2>6. CASE Collect(t, current, of) /\ CompleteLater(t, "response")
             /\ UNCHANGED <<tableVars, reports>>
    BY <2>2, <2>3, <2>4, <2>6, CompleteType, CollectType DEF TxnTypeOK
  <2>7. CASE Collect(t, current, of) /\ Store(t, MODEM, id) /\ UNCHANGED <<returnVars, reports>>
    BY <2>2, <2>3, <2>7, StoreType, CollectType DEF TxnTypeOK
  <2>8. QED BY <1>7, <2>5, <2>6, <2>7 DEF ReceiveNewIndication
<1>8. ASSUME NEW id \in Tid, ReceiveFunctionError(id) PROVE TxnTypeOK'
  <2> DEFINE t == transactions[HOST][id]
  <2>1. t \in Task
    BY <1>8, FoundType DEF ReceiveFunctionError
  <2>2. CompleteNow(t, "function_error") /\ "function_error" \in Outcome
    BY <1>8 DEF ReceiveFunctionError, Outcome, Successes
  <2>3. QED BY <1>8, <2>1, <2>2, ReleaseType, CompleteType DEF ReceiveFunctionError, TxnTypeOK
<1>9. ASSUME NEW t \in Task, TransactionTimedOut(t) PROVE TxnTypeOK'
  <2> DEFINE kind == ctx[t].kind
             id   == ctx[t].transaction_id
             u    == transactions[kind][id]
  <2>1. kind \in TransactionType /\ id \in Tid
    BY ContextType
  <2>2. /\ ntasks' = ntasks /\ ctx' = ctx /\ timeout_source' \in SUBSET Task
        /\ fragments' = fragments /\ total' = total
        /\ iochannel' = iochannel /\ transaction_id' = transaction_id
        /\ pending_error_indication' = pending_error_indication
    BY <1>9 DEF TransactionTimedOut, TxnTypeOK
  <2>3. {"timeout", "timeout_fragment"} \subseteq Outcome
    BY DEF Outcome, Timeouts
  <2>4. CASE UNCHANGED <<transactions, returnVars, reports>>
    BY <2>2, <2>4 DEF TxnTypeOK
  <2>5. CASE u # None /\ Release(kind, id) /\ CompleteNow(u, "timeout") /\ UNCHANGED reports
    BY <2>1, <2>2, <2>3, <2>5, FoundType, ReleaseType, CompleteType DEF TxnTypeOK
  <2>6. CASE u # None /\ Release(kind, id) /\ CompleteNow(u, "timeout_fragment") /\ ReportError(id)
    BY <2>1, <2>2, <2>3, <2>6, FoundType, ReleaseType, CompleteType, ReportType DEF TxnTypeOK
  <2>7. QED BY <1>9, <2>4, <2>5, <2>6 DEF TransactionTimedOut
<1>10. CASE RunIdle
  <2>1. Head(idle) \in Task /\ Tail(idle) \in Seq(Task)
    BY <1>10 DEF RunIdle, TxnTypeOK
  <2>2. QED BY <1>10, <2>1 DEF RunIdle, TxnTypeOK
<1>11. CASE RunCallback
  <2>1. called' \in [Task -> Nat] /\ running' \in Task \cup {None} /\ timeout_source' \in SUBSET Task
    BY <1>11 DEF RunCallback, TxnTypeOK
  <2>2. QED BY <1>11, <2>1 DEF RunCallback, TxnTypeOK
<1>12. CASE EmitError
  BY <1>12 DEF EmitError, TxnTypeOK
<1>13. ASSUME NEW id \in Tid, ReportErrorInIdle(id) PROVE TxnTypeOK'
  BY <1>13 DEF ReportErrorInIdle, TxnTypeOK
<1>17. ASSUME NEW id \in Tid, FinalizePendingOpen(id) PROVE TxnTypeOK'
  <2> DEFINE t == transactions[HOST][id]
  <2>1. t \in Task
    BY <1>17, FoundType DEF FinalizePendingOpen
  <2>2. CompleteNow(t, "unknown_state") /\ "unknown_state" \in Outcome
    BY <1>17 DEF FinalizePendingOpen, Outcome, Failures
  <2>3. QED BY <1>17, <2>1, <2>2, ReleaseType, CompleteType DEF FinalizePendingOpen, TxnTypeOK
<1>14. CASE UNCHANGED txnVars
  BY <1>14 DEF txnVars, TxnTypeOK
<1>15. "COMMAND" \in MessageType /\ "INDICATE_STATUS" \in MessageType
  BY DEF MessageType, RequestType
<1>16. QED
  BY <1>1, <1>2, <1>3, <1>4, <1>5, <1>6, <1>7, <1>8, <1>9, <1>10, <1>11, <1>12, <1>13, <1>14, <1>15, <1>17
     DEF TxnNext, AppCalls, ProcessMessage, MainLoop

\* The variables of the transaction table keep their types
THEOREM TypeCorrect == TxnSpec => []TxnTypeOK
<1>1. QED BY TypeInit, TypeStep, PTL DEF TxnSpec

-----------------------------------------------------------------------------
(* Exactly once.  Two lemmas say what returning a task does to the places  *)
(* tasks can be in; the actions then only differ in the task they return.  *)

LEMMA IdleAppend ==
  ASSUME TxnTypeOK, NEW t \in Task, idle' = Append(idle, t)
  PROVE  /\ Len(idle') = Len(idle) + 1 /\ Len(idle) \in Nat
         /\ idle'[Len(idle) + 1] = t
         /\ \A i \in 1..Len(idle) : idle'[i] = idle[i]
BY DEF TxnTypeOK

LEMMA ReturnedOnce ==
  ASSUME TxnTypeOK, CalledBackOnce, NEW t \in Task, NEW r \in Outcome, result[t] = "pending",
         \/ running = None /\ CompleteNow(t, r)
         \/ CompleteLater(t, r)
  PROVE  /\ CalledBackOnce'
         /\ running' = t \/ InIdle(t)'
         /\ result'[t] = r
         /\ called' = called
         /\ \A u \in Task \ {t} :
              /\ result'[u] = result[u]
              /\ running = u => running' = u
              /\ InIdle(u) => InIdle(u)'
<1>1. (\A u \in Task : u # None) /\ r # "pending"
  BY DEF Task, None, Outcome, Timeouts, Successes, Failures
<1>2. called' = called /\ called \in [Task -> Nat]
  BY DEF CompleteNow, CompleteLater, TxnTypeOK
<1>3. result'[t] = r /\ \A u \in Task \ {t} : result'[u] = result[u]
  BY DEF CompleteNow, CompleteLater, TxnTypeOK
<1>4. running # t /\ ~InIdle(t)
  BY DEF CalledBackOnce
<1>5. called[t] = 0
  BY DEF CalledBackOnce
<1>6. CASE running = None /\ CompleteNow(t, r)
  <2>1. running' = t /\ idle' = idle
    BY <1>6 DEF CompleteNow
  <2>2. \A u \in Task : InIdle(u)' <=> InIdle(u)
    BY <2>1 DEF InIdle
  <2>3. CalledBackOnce'
    BY <1>1, <1>2, <1>3, <1>4, <1>5, <2>1, <2>2 DEF CalledBackOnce
  <2>4. QED BY <1>1, <1>2, <1>3, <1>6, <2>1, <2>2, <2>3
<1>7. CASE CompleteLater(t, r)
  <2>1. running' = running /\ idle' = Append(idle, t)
    BY <1>7 DEF CompleteLater
  <2>2. /\ Len(idle') = Len(idle) + 1 /\ Len(idle) \in Nat
        /\ idle'[Len(idle) + 1] = t
        /\ \A i \in 1..Len(idle) : idle'[i] = idle[i]
    BY <2>1, IdleAppend
  <2>3. \A u \in Task : InIdle(u)' <=> u = t \/ InIdle(u)
    BY <2>2 DEF InIdle
  <2>4. \A i, j \in 1..Len(idle') : idle'[i] = idle'[j] => i = j
    <3>1. \A i \in 1..Len(idle) : idle[i] # t
      BY <1>4 DEF InIdle
    <3>2. \A i, j \in 1..Len(idle) : idle[i] = idle[j] => i = j
      BY DEF CalledBackOnce
    <3>3. QED BY <2>2, <3>1, <3>2
  <2>5. \A u \in Task : called'[u] <= 1 /\ (result'[u] = "pending" => called'[u] = 0)
    BY <1>1, <1>2, <1>3, <1>5 DEF CalledBackOnce
  <2>6. \A u \in Task : running' = u \/ InIdle(u)' => called'[u] = 0 /\ result'[u] # "pending"
    BY <1>1, <1>2, <1>3, <1>4, <1>5, <2>1, <2>3 DEF CalledBackOnce
  <2>7. running' # None => ~InIdle(running)'
    <3>1. running \in Task \cup {None}
      BY DEF TxnTypeOK
    <3>2. QED BY <1>4, <2>1, <2>3, <3>1 DEF CalledBackOnce
  <2>8. CalledBackOnce'
    BY <2>4, <2>5, <2>6, <2>7 DEF CalledBackOnce, InIdle
  <2>9. QED BY <1>2, <1>3, <2>1, <2>3, <2>8
<1>8. QED BY <1>6, <1>7

LEMMA CreatedType ==
  ASSUME TxnTypeOK
  PROVE  Created \subseteq Task /\ ntasks \in Nat
<1>1. ntasks \in 0..MaxTasks
  BY DEF TxnTypeOK
<1>2. QED BY <1>1, BoundsAssumption DEF Created, Task

LEMMA NotReturned ==
  ASSUME TxnTypeOK, UNCHANGED returnVars, CalledBackOnce
  PROVE  /\ CalledBackOnce'
         /\ \A u \in Task : /\ result'[u] = result[u] /\ called'[u] = called[u]
                            /\ running = u => running' = u
                            /\ InIdle(u) => InIdle(u)'
BY DEF returnVars, CalledBackOnce, InIdle

\* A handler that releases a task of the table and returns it
LEMMA ReleasedOnce ==
  ASSUME TxnIInv, NEW kind \in TransactionType, NEW id \in Tid, NEW t \in Task, NEW r \in Outcome,
         t = transactions[kind][id], Release(kind, id),
         \/ running = None /\ CompleteNow(t, r)
         \/ CompleteLater(t, r),
         ntasks' = ntasks, ctx' = ctx,
         \A u \in timeout_source : u \in timeout_source' \/ u = t
                                   \/ u # transactions[ctx[u].kind][ctx[u].transaction_id]
  PROVE  ExactlyOnce' /\ StoredHasTimer'
<1> USE DEF TxnIInv, ExactlyOnce
<1>1. /\ t # None /\ t \in Created /\ result[t] = "pending"
      /\ ctx[t].kind = kind /\ ctx[t].transaction_id = id
  <2>1. t # None
    BY DEF Task, None
  <2>2. QED BY <2>1 DEF TableHoldsPending
<1>2. /\ CalledBackOnce'
      /\ running' = t \/ InIdle(t)'
      /\ result'[t] = r /\ r # "pending"
      /\ called' = called
      /\ \A u \in Task \ {t} :
           /\ result'[u] = result[u]
           /\ running = u => running' = u
           /\ InIdle(u) => InIdle(u)'
  <2>1. r # "pending"
    BY DEF Outcome, Timeouts, Successes, Failures
  <2>2. QED BY <1>1, <2>1, ReturnedOnce
<1>3. transactions'[kind][id] = None
  BY DEF Release, TxnTypeOK
<1>4. \A k \in TransactionType, i \in Tid :
        k # kind \/ i # id => transactions'[k][i] = transactions[k][i]
  BY DEF Release, TxnTypeOK
<1>5. \A k \in TransactionType, i \in Tid :
        k # kind \/ i # id => transactions[k][i] # t
  BY <1>1 DEF TableHoldsPending
<1>6. \A k \in TransactionType, i \in Tid : transactions[k][i] \in Task \cup {None}
  BY DEF TxnTypeOK
<1>7. TableHoldsPending'
  <2> SUFFICES ASSUME NEW k \in TransactionType, NEW i \in Tid, transactions'[k][i] # None
               PROVE  LET u == transactions'[k][i]
                      IN u \in 1..ntasks' /\ result'[u] = "pending"
                         /\ ctx'[u].kind = k /\ ctx'[u].transaction_id = i
    BY DEF TableHoldsPending, Created
  <2>1. k # kind \/ i # id
    BY <1>3
  <2>2. /\ transactions'[k][i] = transactions[k][i]
        /\ transactions[k][i] \in Task \ {t}
    BY <1>4, <1>5, <1>6, <2>1
  <2>3. QED BY <1>2, <2>2 DEF TableHoldsPending, Created
<1>8. NoTaskLost'
  <2> SUFFICES ASSUME NEW u \in Created
               PROVE  \/ result'[u] = "pending"
                         /\ transactions'[ctx[u].kind][ctx[u].transaction_id] = u
                      \/ result'[u] # "pending" /\ (called'[u] = 1 \/ running' = u \/ InIdle(u)')
    BY DEF NoTaskLost, Waiting, Created
  <2>1. u \in Task
    BY CreatedType
  <2>2. CASE u = t
    BY <1>2, <2>2
  <2>3. CASE u # t
    <3>1. ctx[u].kind \in TransactionType /\ ctx[u].transaction_id \in Tid
      BY <2>1, ContextType
    <3>2. CASE Waiting(u)
      <4>1. ctx[u].kind # kind \/ ctx[u].transaction_id # id
        BY <2>3, <3>2 DEF Waiting
      <4>2. QED BY <1>2, <1>4, <2>1, <2>3, <3>1, <3>2, <4>1 DEF Waiting
    <3>3. CASE result[u] # "pending" /\ (called[u] = 1 \/ running = u \/ InIdle(u))
      BY <1>2, <2>1, <2>3, <3>3
    <3>4. QED BY <3>2, <3>3 DEF NoTaskLost
  <2>4. QED BY <2>2, <2>3
<1>9. StoredHasTimer'
  <2> SUFFICES ASSUME NEW k \in TransactionType, NEW i \in Tid, transactions'[k][i] # None
               PROVE  transactions'[k][i] \in timeout_source'
    BY DEF StoredHasTimer
  <2>1. k # kind \/ i # id
    BY <1>3
  <2> DEFINE u == transactions[k][i]
  <2>2. transactions'[k][i] = u /\ u # t /\ u # None
    BY <1>4, <1>5, <2>1
  <2>3. u \in timeout_source
    BY <2>2 DEF StoredHasTimer
  <2>4. transactions[ctx[u].kind][ctx[u].transaction_id] = u
    BY <2>2 DEF TableHoldsPending
  <2>5. QED BY <2>2, <2>3, <2>4
<1>10. QED BY <1>2, <1>7, <1>8, <1>9

\* A handler that makes a task and stores it under a free id
LEMMA StoredOnce ==
  ASSUME TxnIInv, NEW kind \in TransactionType, NEW type \in MessageType, NEW id \in Tid,
         NewTask(kind, type, id), transactions[kind][id] = None,
         Store(ntasks + 1, kind, id), UNCHANGED returnVars
  PROVE  ExactlyOnce' /\ StoredHasTimer'
<1> DEFINE t == ntasks + 1
<1> USE DEF TxnIInv, ExactlyOnce
<1>1. t \in Task /\ ntasks' = t /\ ntasks \in Nat
  BY NewTaskType, CreatedType
<1>2. t \notin Created /\ t # None
  BY <1>1 DEF Created, None
<1>3. result[t] = "pending" /\ called[t] = 0
  BY <1>1, <1>2 DEF Uncreated
<1>4. /\ CalledBackOnce'
      /\ \A u \in Task : /\ result'[u] = result[u] /\ called'[u] = called[u]
                         /\ running = u => running' = u
                         /\ InIdle(u) => InIdle(u)'
  BY NotReturned
<1>5. /\ ctx'[t].kind = kind /\ ctx'[t].transaction_id = id
      /\ \A u \in Created : ctx'[u] = ctx[u]
  BY <1>1, <1>2, CreatedType DEF NewTask, TxnTypeOK
<1>6. /\ transactions'[kind][id] = t
      /\ \A k \in TransactionType, i \in Tid :
           k # kind \/ i # id => transactions'[k][i] = transactions[k][i]
  BY DEF Store, TxnTypeOK
<1>7. /\ Created' = Created \cup {t}
      /\ Created \subseteq Task
  BY <1>1, CreatedType DEF Created
<1>8. TableHoldsPending'
  <2> SUFFICES ASSUME NEW k \in TransactionType, NEW i \in Tid, transactions'[k][i] # None
               PROVE  LET u == transactions'[k][i]
                      IN u \in Created' /\ result'[u] = "pending"
                         /\ ctx'[u].kind = k /\ ctx'[u].transaction_id = i
    BY DEF TableHoldsPending
  <2>1. CASE k = kind /\ i = id
    BY <1>1, <1>3, <1>4, <1>5, <1>6, <1>7, <2>1
  <2>2. CASE k # kind \/ i # id
    <3>1. transactions'[k][i] = transactions[k][i] /\ transactions[k][i] \in Created
      BY <1>6, <2>2 DEF TableHoldsPending
    <3>2. QED BY <1>4, <1>5, <1>7, <3>1 DEF TableHoldsPending
  <2>3. QED BY <2>1, <2>2
<1>9. NoTaskLost'
  <2> SUFFICES ASSUME NEW u \in Created'
               PROVE  \/ result'[u] = "pending"
                         /\ transactions'[ctx'[u].kind][ctx'[u].transaction_id] = u
                      \/ result'[u] # "pending" /\ (called'[u] = 1 \/ running' = u \/ InIdle(u)')
    BY DEF NoTaskLost, Waiting
  <2>1. CASE u = t
    BY <1>1, <1>3, <1>4, <1>5, <1>6, <2>1
  <2>2. CASE u \in Created
    <3>1. u \in Task /\ ctx'[u] = ctx[u]
      BY <1>5, <1>7, <2>2
    <3>2. CASE Waiting(u)
      <4>1. ctx[u].kind \in TransactionType /\ ctx[u].transaction_id \in Tid
        BY <3>1, ContextType
      <4>2. u # None
        BY <3>1 DEF Task, None
      <4>3. ctx[u].kind # kind \/ ctx[u].transaction_id # id
        BY <3>2, <4>2 DEF Waiting
      <4>4. QED BY <1>4, <1>6, <3>1, <3>2, <4>1, <4>3 DEF Waiting
    <3>3. CASE result[u] # "pending" /\ (called[u] = 1 \/ running = u \/ InIdle(u))
      BY <1>4, <3>1, <3>3
    <3>4. QED BY <2>2, <3>2, <3>3 DEF NoTaskLost
  <2>3. QED BY <1>7, <2>1, <2>2
<1>10. StoredHasTimer'
  <2> SUFFICES ASSUME NEW k \in TransactionType, NEW i \in Tid, transactions'[k][i] # None
               PROVE  transactions'[k][i] \in timeout_source'
    BY DEF StoredHasTimer
  <2>1. CASE k = kind /\ i = id
    BY <1>6, <2>1 DEF Store
  <2>2. CASE k # kind \/ i # id
    BY <1>6, <2>2 DEF Store, StoredHasTimer
  <2>3. QED BY <2>1, <2>2
<1>11. QED BY <1>4, <1>8, <1>9, <1>10

\* A handler that makes a task and returns it at once
LEMMA MadeAndReturned ==
  ASSUME TxnIInv, NEW kind \in TransactionType, NEW type \in MessageType, NEW id \in Tid,
         NEW r \in Outcome, NEW t \in Task, t = ntasks + 1,
         NewTask(kind, type, id), CompleteLater(t, r), transactions' = transactions,
         timeout_source \subseteq timeout_source'
  PROVE  ExactlyOnce' /\ StoredHasTimer'
<1> USE DEF TxnIInv, ExactlyOnce
<1>1. ntasks' = t /\ ntasks \in Nat
  BY NewTaskType, CreatedType
<1>2. t \notin Created /\ r # "pending"
  BY <1>1 DEF Created, Outcome, Timeouts, Successes, Failures
<1>3. result[t] = "pending" 
  BY <1>1, <1>2 DEF Uncreated
<1>4. /\ CalledBackOnce'
      /\ running' = t \/ InIdle(t)'
      /\ result'[t] = r
      /\ called' = called
      /\ \A u \in Task \ {t} :
           /\ result'[u] = result[u]
           /\ running = u => running' = u
           /\ InIdle(u) => InIdle(u)'
  BY <1>3, ReturnedOnce
<1>5. \A u \in Created : ctx'[u] = ctx[u]
  BY <1>1, <1>2, CreatedType DEF NewTask, TxnTypeOK
<1>6. /\ Created' = Created \cup {t}
      /\ Created \subseteq Task
  BY <1>1, CreatedType DEF Created
<1>7. TableHoldsPending'
  <2> SUFFICES ASSUME NEW k \in TransactionType, NEW i \in Tid, transactions[k][i] # None
               PROVE  LET u == transactions[k][i]
                      IN u \in Created' /\ result'[u] = "pending"
                         /\ ctx'[u].kind = k /\ ctx'[u].transaction_id = i
    BY DEF TableHoldsPending
  <2>1. /\ transactions[k][i] \in Created /\ transactions[k][i] # t
        /\ result[transactions[k][i]] = "pending"
        /\ ctx[transactions[k][i]].kind = k /\ ctx[transactions[k][i]].transaction_id = i
    BY <1>2 DEF TableHoldsPending
  <2>2. QED BY <1>4, <1>5, <1>6, <2>1
<1>8. NoTaskLost'
  <2> SUFFICES ASSUME NEW u \in Created'
               PROVE  \/ result'[u] = "pending"
                         /\ transactions'[ctx'[u].kind][ctx'[u].transaction_id] = u
                      \/ result'[u] # "pending" /\ (called'[u] = 1 \/ running' = u \/ InIdle(u)')
    BY DEF NoTaskLost, Waiting
  <2>1. CASE u = t
    BY <1>2, <1>4, <2>1
  <2>2. CASE u \in Created
    <3>1. u \in Task \ {t} /\ ctx'[u] = ctx[u]
      BY <1>2, <1>5, <1>6, <2>2
    <3>2. CASE Waiting(u)
      BY <1>4, <3>1, <3>2 DEF Waiting
    <3>3. CASE result[u] # "pending" /\ (called[u] = 1 \/ running = u \/ InIdle(u))
      BY <1>4, <3>1, <3>3
    <3>4. QED BY <2>2, <3>2, <3>3 DEF NoTaskLost
  <2>3. QED BY <1>6, <2>1, <2>2
<1>9. StoredHasTimer'
  BY DEF StoredHasTimer
<1>10. QED BY <1>4, <1>7, <1>8, <1>9

\* A handler that returns nothing and stores nothing new
LEMMA NothingMoved ==
  ASSUME TxnIInv, UNCHANGED <<ntasks, ctx, transactions>>, UNCHANGED returnVars,
         \A u \in timeout_source : u \in timeout_source'
                                   \/ u # transactions[ctx[u].kind][ctx[u].transaction_id]
  PROVE  ExactlyOnce' /\ StoredHasTimer'
<1> USE DEF TxnIInv, ExactlyOnce
<1>1. /\ CalledBackOnce'
      /\ \A u \in Task : /\ result'[u] = result[u] /\ called'[u] = called[u]
                         /\ running = u => running' = u
                         /\ InIdle(u) => InIdle(u)'
  BY NotReturned
<1>2. Created' = Created /\ Created \subseteq Task
  BY CreatedType DEF Created
<1>3. TableHoldsPending'
  BY <1>1, <1>2 DEF TableHoldsPending
<1>4. NoTaskLost'
  BY <1>1, <1>2 DEF NoTaskLost, Waiting
<1>5. StoredHasTimer'
  <2> SUFFICES ASSUME NEW k \in TransactionType, NEW i \in Tid, transactions[k][i] # None
               PROVE  transactions[k][i] \in timeout_source'
    BY DEF StoredHasTimer
  <2> DEFINE u == transactions[k][i]
  <2>1. u \in timeout_source
    BY DEF StoredHasTimer
  <2>2. transactions[ctx[u].kind][ctx[u].transaction_id] = u
    BY DEF TableHoldsPending
  <2>3. QED BY <2>1, <2>2
<1>6. QED BY <1>1, <1>3, <1>4, <1>5

\* No handler touches a task that does not exist yet
LEMMA UncreatedStep ==
  ASSUME TxnIInv, ntasks' \in {ntasks, ntasks + 1},
         \A u \in Task \ Created' :
            result'[u] = result[u] /\ called'[u] = called[u] /\ fragments'[u] = fragments[u]
  PROVE  Uncreated'
<1>1. Created \subseteq Created'
  BY CreatedType DEF Created, TxnIInv
<1>2. QED BY <1>1 DEF Uncreated, TxnIInv

\* The tasks found in the table, or named by a timer, exist
LEMMA FoundOnce ==
  ASSUME TxnIInv, NEW kind \in TransactionType, NEW id \in Tid, transactions[kind][id] # None
  PROVE  /\ transactions[kind][id] \in Task
         /\ transactions[kind][id] \in Created
         /\ result[transactions[kind][id]] = "pending"
BY FoundType DEF TxnIInv, ExactlyOnce, TableHoldsPending

LEMMA CompleteOther ==
  ASSUME TxnTypeOK, NEW t \in Task, NEW r \in Outcome, CompleteNow(t, r) \/ CompleteLater(t, r)
  PROVE  \A u \in Task \ {t} : result'[u] = result[u] /\ called'[u] = called[u]
BY DEF TxnTypeOK, CompleteNow, CompleteLater

LEMMA CollectOther ==
  ASSUME TxnTypeOK, NEW t \in Task, NEW current, NEW of, Collect(t, current, of)
  PROVE  \A u \in Task \ {t} : fragments'[u] = fragments[u]
BY DEF TxnTypeOK, Collect

Placed == ExactlyOnce /\ StoredHasTimer /\ Uncreated

LEMMA PlacedStep == TxnIInv /\ [TxnNext]_txnVars => Placed'
<1> SUFFICES ASSUME TxnIInv, [TxnNext]_txnVars PROVE Placed'
  OBVIOUS
<1>0. /\ HOST \in TransactionType /\ MODEM \in TransactionType
      /\ Outcome = {"timeout", "timeout_fragment", "response", "function_error", "aborted",
                    "wrong_state", "write_failed", "out_of_sequence", "unknown_state"}
  BY DEF TransactionType, Outcome, Timeouts, Successes, Failures
<1>00. TxnTypeOK /\ Created \subseteq Task /\ ntasks \in Nat
  BY CreatedType DEF TxnIInv
<1> USE DEF taskVars, collectorVars, tableVars, returnVars, deviceVars
(* Every action below leaves the table as it is, or is one of the lemmas. *)
<1>1. ASSUME NEW type \in RequestType, Command(type) PROVE Placed'
  <2> DEFINE id == transaction_id
  <2>1. id \in Tid /\ type \in MessageType
    BY <1>00 DEF TxnTypeOK, MessageType
  <2>2. CommandOf(type, id) /\ transactions[HOST][id] = None
    BY <1>1 DEF Command, CommandOf, FreshTid
  <2>3. NewTask(HOST, type, id) /\ fragments' = fragments
    BY <2>2 DEF CommandOf
  <2>4. PICK t \in Task : t = ntasks + 1
    BY <1>00, <2>1, <2>3, <1>0, NewTaskType
  <2>5. ntasks' = t /\ t \in Created'
    BY <1>00, <2>3, <2>4 DEF NewTask, Created
  <2>6. ASSUME NEW r \in Outcome, CompleteLater(t, r), transactions' = transactions,
               timeout_source \subseteq timeout_source'
        PROVE  Placed'
    <3>1. ExactlyOnce' /\ StoredHasTimer'
      BY <1>0, <2>1, <2>3, <2>4, <2>6, MadeAndReturned
    <3>2. Uncreated'
      BY <1>00, <2>3, <2>4, <2>5, <2>6, CompleteOther, UncreatedStep
    <3>3. QED BY <3>1, <3>2 DEF Placed
  <2>7. CASE Store(t, HOST, id) /\ UNCHANGED returnVars
    <3>1. ExactlyOnce' /\ StoredHasTimer'
      BY <1>0, <2>1, <2>2, <2>3, <2>4, <2>7, StoredOnce
    <3>2. Uncreated'
      BY <2>3, <2>4, <2>5, <2>7, UncreatedStep
    <3>3. QED BY <3>1, <3>2 DEF Placed
  <2>8. QED BY <1>0, <2>2, <2>4, <2>6, <2>7 DEF CommandOf
<1>2. ASSUME NEW t \in Task, TransactionCancelled(t) PROVE Placed'
  <2>1. PICK id \in Tid : transactions[HOST][id] = t /\ Release(HOST, id)
    BY <1>2 DEF TransactionCancelled
  <2>2. /\ CompleteLater(t, "aborted") /\ ntasks' = ntasks /\ ctx' = ctx
        /\ timeout_source' = timeout_source /\ fragments' = fragments
    BY <1>2 DEF TransactionCancelled
  <2>3. ExactlyOnce' /\ StoredHasTimer'
    BY <1>0, <2>1, <2>2, ReleasedOnce
  <2>4. t \in Created
    BY <1>0, <2>1, FoundOnce DEF Task, None
  <2>5. Uncreated'
    BY <1>0, <1>00, <2>2, <2>4, CompleteOther, UncreatedStep DEF Created
  <2>6. QED BY <2>3, <2>5 DEF Placed
<1>3. CASE OpenChannel \/ CloseForce \/ EmitError \/ \E id \in Tid : ReportErrorInIdle(id)
  <2>1. /\ UNCHANGED <<ntasks, ctx, transactions>> /\ UNCHANGED returnVars
        /\ timeout_source' = timeout_source /\ fragments' = fragments
    BY <1>3 DEF OpenChannel, CloseForce, EmitError, ReportErrorInIdle
  <2>2. ExactlyOnce' /\ StoredHasTimer'
    BY <2>1, NothingMoved
  <2>3. Uncreated'
    BY <2>1, UncreatedStep
  <2>4. QED BY <2>2, <2>3 DEF Placed
<1>4. ASSUME NEW id \in Tid,
             \/ \E type \in {"OPEN", "CLOSE"} : ReceiveDone(type, id)
             \/ ReceiveFunctionError(id)
             \/ FinalizePendingOpen(id)
      PROVE  Placed'
  <2>1. transactions[HOST][id] # None
    BY <1>4 DEF ReceiveDone, ReceiveFunctionError, FinalizePendingOpen
  <2>2. PICK t \in Task : t = transactions[HOST][id] /\ t \in Created
    BY <1>0, <2>1, FoundOnce
  <2>3. /\ Release(HOST, id) /\ running = None
        /\ \E r \in Outcome : CompleteNow(t, r)
        /\ ntasks' = ntasks /\ ctx' = ctx
        /\ timeout_source' = timeout_source /\ fragments' = fragments
    BY <1>0, <1>4, <2>2 DEF ReceiveDone, ReceiveFunctionError, FinalizePendingOpen, Reading, Quiet
  <2>4. ExactlyOnce' /\ StoredHasTimer'
    BY <1>0, <2>2, <2>3, ReleasedOnce
  <2>5. Uncreated'
    BY <1>00, <2>2, <2>3, CompleteOther, UncreatedStep DEF Created
  <2>6. QED BY <2>4, <2>5 DEF Placed
<1>5. ASSUME NEW kind \in TransactionType, NEW type \in MessageType, NEW id \in Tid,
             NEW of \in 1..MaxFragments, NEW current \in 0..(of - 1),
             ReceiveFragment(kind, type, id, current, of)
      PROVE  Placed'
  <2>1. transactions[kind][id] # None
    BY <1>5 DEF ReceiveFragment
  <2>2. PICK t \in Task : t = transactions[kind][id] /\ t \in Created
    BY <2>1, FoundOnce
  <2>3. /\ running = None /\ ntasks' = ntasks /\ ctx' = ctx /\ timeout_source' = timeout_source
        /\ fragments' = fragments \/ Collect(t, current, of)
    BY <1>5, <2>2 DEF ReceiveFragment, Reading, Quiet
  <2>4. \A u \in Task \ {t} : fragments'[u] = fragments[u]
    BY <1>00, <2>3, CollectOther
  <2>5. CASE Release(kind, id) /\ \E r \in Outcome : CompleteNow(t, r)
    <3>1. ExactlyOnce' /\ StoredHasTimer'
      BY <2>2, <2>3, <2>5, ReleasedOnce
    <3>2. Uncreated'
      BY <1>00, <2>2, <2>3, <2>4, <2>5, CompleteOther, UncreatedStep DEF Created
    <3>3. QED BY <3>1, <3>2 DEF Placed
  <2>6. CASE UNCHANGED <<transactions, returnVars>>
    <3>1. ExactlyOnce' /\ StoredHasTimer'
      BY <2>3, <2>6, NothingMoved
    <3>2. Uncreated'
      BY <2>2, <2>3, <2>4, <2>6, UncreatedStep DEF Created
    <3>3. QED BY <3>1, <3>2 DEF Placed
  <2>7. QED BY <1>0, <1>5, <2>2, <2>5, <2>6 DEF ReceiveFragment
<1>6. ASSUME NEW id \in Tid, NEW of \in 1..MaxFragments, NEW current \in 0..(of - 1),
             ReceiveNewIndication(id, current, of)
      PROVE  Placed'
  <2>1. /\ NewTask(MODEM, "INDICATE_STATUS", id) /\ "INDICATE_STATUS" \in MessageType
        /\ transactions[MODEM][id] = None
    BY <1>6 DEF ReceiveNewIndication, MessageType
  <2>2. PICK t \in Task : t = ntasks + 1
    BY <1>0, <1>00, <2>1, NewTaskType
  <2>3. ntasks' = t /\ t \in Created'
    BY <1>00, <2>1, <2>2 DEF NewTask, Created
  <2>4. \A u \in Task \ {t} : fragments'[u] = fragments[u]
    BY <1>6, <1>00, <2>2, CollectOther DEF ReceiveNewIndication
  <2>5. CASE transactions' = transactions /\ timeout_source' = timeout_source
             /\ \E r \in Outcome : CompleteLater(t, r)
    <3>1. ExactlyOnce' /\ StoredHasTimer'
      BY <1>0, <2>1, <2>2, <2>5, MadeAndReturned
    <3>2. Uncreated'
      BY <1>00, <2>2, <2>3, <2>4, <2>5, CompleteOther, UncreatedStep
    <3>3. QED BY <3>1, <3>2 DEF Placed
  <2>6. CASE Store(t, MODEM, id) /\ UNCHANGED returnVars
    <3>1. ExactlyOnce' /\ StoredHasTimer'
      BY <1>0, <2>1, <2>2, <2>6, StoredOnce
    <3>2. Uncreated'
      BY <2>2, <2>3, <2>4, <2>6, UncreatedStep
    <3>3. QED BY <3>1, <3>2 DEF Placed
  <2>7. QED BY <1>0, <1>6, <2>2, <2>5, <2>6 DEF ReceiveNewIndication
<1>7. ASSUME NEW t \in Task, TransactionTimedOut(t) PROVE Placed'
  <2> DEFINE kind == ctx[t].kind
             id   == ctx[t].transaction_id
  <2>1. kind \in TransactionType /\ id \in Tid
    BY <1>00, ContextType
  <2>2. /\ running = None /\ ntasks' = ntasks /\ ctx' = ctx
        /\ timeout_source' = timeout_source \ {t} /\ fragments' = fragments
    BY <1>7 DEF TransactionTimedOut, Quiet
  <2>3. CASE transactions[kind][id] = None /\ UNCHANGED <<transactions, returnVars>>
    <3>1. t # None
      BY DEF Task, None
    <3>2. ExactlyOnce' /\ StoredHasTimer'
      BY <2>2, <2>3, <3>1, NothingMoved
    <3>3. Uncreated'
      BY <2>2, <2>3, UncreatedStep
    <3>4. QED BY <3>2, <3>3 DEF Placed
  <2>4. ASSUME NEW u \in Task, u = transactions[kind][id], Release(kind, id),
               NEW r \in Outcome, CompleteNow(u, r)
        PROVE  Placed'
    <3>1. u # None /\ u \in Created
      BY <2>1, <2>4, FoundOnce DEF Task, None
    <3>2. \A v \in timeout_source : v \in timeout_source' \/ v = u
                                   \/ v # transactions[ctx[v].kind][ctx[v].transaction_id]
      BY <2>2, <2>4
    <3>3. ExactlyOnce' /\ StoredHasTimer'
      BY <2>1, <2>2, <2>4, <3>2, ReleasedOnce
    <3>4. Uncreated'
      BY <1>00, <2>2, <2>4, <3>1, CompleteOther, UncreatedStep DEF Created
    <3>5. QED BY <3>3, <3>4 DEF Placed
  <2>5. CASE transactions[kind][id] # None
    <3>1. PICK u \in Task : u = transactions[kind][id]
      BY <2>1, <2>5, FoundOnce
    <3>2. QED BY <1>0, <1>7, <2>4, <2>5, <3>1 DEF TransactionTimedOut
  <2>6. QED BY <1>7, <2>3, <2>5 DEF TransactionTimedOut
<1>8. CASE RunIdle
  <2>1. PICK t \in Task : t = idle[1]
    BY <1>00, <1>8 DEF RunIdle, TxnTypeOK
  <2>2. /\ running = None /\ running' = t /\ idle' = Tail(idle) /\ idle # <<>>
        /\ UNCHANGED <<ntasks, ctx, transactions, timeout_source, fragments, result, called>>
    BY <1>8, <2>1 DEF RunIdle, Quiet
  <2>3. /\ Len(idle) \in Nat \ {0} /\ Len(idle') = Len(idle) - 1
        /\ \A i \in 1..Len(idle') : idle'[i] = idle[i + 1]
    BY <1>00, <2>2 DEF TxnTypeOK
  <2>4. \A u \in Task : InIdle(u) <=> u = t \/ InIdle(u)'
    <3> SUFFICES ASSUME NEW u \in Task PROVE InIdle(u) <=> u = t \/ InIdle(u)'
      OBVIOUS
    <3>1. ASSUME NEW i \in 1..Len(idle), idle[i] = u, u # t PROVE InIdle(u)'
      <4>1. i # 1 /\ i - 1 \in 1..Len(idle')
        BY <2>1, <2>3, <3>1
      <4>2. idle'[i - 1] = u
        BY <2>3, <3>1, <4>1
      <4>3. QED BY <4>1, <4>2 DEF InIdle
    <3>2. ASSUME NEW i \in 1..Len(idle'), idle'[i] = u PROVE InIdle(u)
      BY <2>3, <3>2 DEF InIdle
    <3>3. u = t => InIdle(u)
      BY <2>1, <2>3 DEF InIdle
    <3>4. QED BY <3>1, <3>2, <3>3 DEF InIdle
  <2>5. \A i, j \in 1..Len(idle) : idle[i] = idle[j] => i = j
    BY DEF TxnIInv, ExactlyOnce, CalledBackOnce
  <2>6. ~InIdle(t)'
    BY <2>1, <2>3, <2>5 DEF InIdle
  <2>7. \A i, j \in 1..Len(idle') : idle'[i] = idle'[j] => i = j
    BY <2>3, <2>5
  <2>8. CalledBackOnce'
    <3>1. CalledBackOnce
      BY DEF TxnIInv, ExactlyOnce
    <3>2. \A u \in Task : running' = u \/ InIdle(u)' => called[u] = 0 /\ result[u] # "pending"
      BY <2>2, <2>4, <3>1 DEF CalledBackOnce
    <3>3. running' # None => ~InIdle(running)'
      BY <2>2, <2>6 DEF InIdle
    <3>4. QED BY <2>2, <2>7, <3>1, <3>2, <3>3 DEF CalledBackOnce
  <2>9. NoTaskLost'
    <3>1. \A u \in Task : running = u \/ InIdle(u) => running' = u \/ InIdle(u)'
      BY <2>2, <2>4 DEF Task, None
    <3>2. Created' = Created
      BY <2>2 DEF Created
    <3>3. QED BY <1>00, <2>2, <3>1, <3>2 DEF TxnIInv, ExactlyOnce, NoTaskLost, Waiting
  <2>10. TableHoldsPending' /\ StoredHasTimer'
    BY <2>2 DEF TxnIInv, ExactlyOnce, TableHoldsPending, StoredHasTimer, Created
  <2>11. Uncreated'
    BY <2>2, UncreatedStep
  <2>12. QED BY <2>8, <2>9, <2>10, <2>11 DEF Placed, ExactlyOnce
<1>9. CASE RunCallback
  <2>1. PICK t \in Task : t = running /\ t # None
    BY <1>00, <1>9 DEF RunCallback, TxnTypeOK
  <2>2. /\ running' = None /\ timeout_source' = timeout_source \ {t}
        /\ called' = [called EXCEPT ![t] = @ + 1]
        /\ UNCHANGED <<ntasks, ctx, transactions, fragments, result, idle>>
    BY <1>9, <2>1 DEF RunCallback
  <2>3. /\ called[t] = 0 /\ result[t] # "pending" /\ ~InIdle(t)
    BY <2>1 DEF TxnIInv, ExactlyOnce, CalledBackOnce
  <2>4. called'[t] = 1 /\ \A u \in Task \ {t} : called'[u] = called[u]
    BY <1>00, <2>2, <2>3 DEF TxnTypeOK
  <2>5. \A u \in Task : InIdle(u)' <=> InIdle(u)
    BY <2>2 DEF InIdle
  <2>6. Created' = Created
    BY <2>2 DEF Created
  <2>7. CalledBackOnce'
    <3>1. CalledBackOnce
      BY DEF TxnIInv, ExactlyOnce
    <3>2. \A u \in Task : u # None
      BY DEF Task, None
    <3>3. \A u \in Task : called'[u] <= 1 /\ (result'[u] = "pending" => called'[u] = 0)
      BY <2>2, <2>3, <2>4, <3>1 DEF CalledBackOnce
    <3>4. \A u \in Task : running' = u \/ InIdle(u)' => called'[u] = 0 /\ result'[u] # "pending"
      BY <2>2, <2>3, <2>4, <2>5, <3>1, <3>2 DEF CalledBackOnce
    <3>5. QED BY <2>2, <3>1, <3>3, <3>4 DEF CalledBackOnce
  <2>8. NoTaskLost'
    <3> SUFFICES ASSUME NEW u \in Created
                 PROVE  \/ Waiting(u)
                        \/ result[u] # "pending" /\ (called'[u] = 1 \/ InIdle(u))
      BY <2>2, <2>5, <2>6, <1>00 DEF NoTaskLost, Waiting
    <3>1. \/ Waiting(u)
          \/ result[u] # "pending" /\ (called[u] = 1 \/ running = u \/ InIdle(u))
      BY DEF TxnIInv, ExactlyOnce, NoTaskLost
    <3>2. QED BY <1>00, <2>1, <2>3, <2>4, <3>1
  <2>9. TableHoldsPending'
    BY <2>2, <2>6 DEF TxnIInv, ExactlyOnce, TableHoldsPending
  <2>10. StoredHasTimer'
    BY <2>2, <2>3 DEF TxnIInv, ExactlyOnce, TableHoldsPending, StoredHasTimer
  <2>11. Uncreated'
    <3>1. t \in Created
      BY <2>3 DEF TxnIInv, Uncreated
    <3>2. QED BY <1>00, <2>2, <2>4, <2>6, <3>1, UncreatedStep
  <2>12. QED BY <2>7, <2>8, <2>9, <2>10, <2>11 DEF Placed, ExactlyOnce
<1>10. CASE UNCHANGED txnVars
  <2>1. ExactlyOnce' /\ StoredHasTimer'
    BY <1>10, NothingMoved DEF txnVars
  <2>2. Uncreated'
    BY <1>10, UncreatedStep DEF txnVars
  <2>3. QED BY <2>1, <2>2 DEF Placed
<1>11. "COMMAND" \in MessageType /\ "INDICATE_STATUS" \in MessageType
  BY DEF MessageType, RequestType
<1>12. QED
  BY <1>0, <1>1, <1>2, <1>3, <1>4, <1>5, <1>6, <1>7, <1>8, <1>9, <1>10, <1>11
     DEF TxnNext, AppCalls, ProcessMessage, MainLoop

LEMMA TxnIInvInit == TxnInit => TxnIInv
<1> SUFFICES ASSUME TxnInit PROVE TxnIInv
  OBVIOUS
<1>1. TxnTypeOK
  BY TypeInit
<1>2. Created = {}
  BY DEF TxnInit, Created
<1>3. /\ result = [t \in Task |-> "pending"] /\ called = [t \in Task |-> 0]
      /\ idle = <<>> /\ running = None /\ fragments = [t \in Task |-> <<>>]
      /\ \A k \in TransactionType, id \in Tid : transactions[k][id] = None
  BY DEF TxnInit
<1>4. Uncreated /\ TableHoldsPending /\ NoTaskLost /\ StoredHasTimer
  BY <1>2, <1>3 DEF Uncreated, TableHoldsPending, NoTaskLost, StoredHasTimer
<1>5. \A t \in Task : ~InIdle(t) /\ t # None
  BY <1>3 DEF InIdle, Task, None
<1>6. CalledBackOnce
  BY <1>3, <1>5 DEF CalledBackOnce
<1>7. QED BY <1>1, <1>4, <1>6 DEF TxnIInv, ExactlyOnce

LEMMA TxnIInvStep == TxnIInv /\ [TxnNext]_txnVars => TxnIInv'
BY TypeStep, PlacedStep DEF TxnIInv, Placed

LEMMA TxnIInvHolds == TxnSpec => []TxnIInv
BY TxnIInvInit, TxnIInvStep, PTL DEF TxnSpec

\* Every request and every indication is in exactly one place, and its callback
\* is run at most once
THEOREM ExactlyOnceHolds == TxnSpec => []ExactlyOnce
<1>1. TxnIInv => ExactlyOnce
  BY DEF TxnIInv
<1>2. QED BY <1>1, TxnIInvHolds, PTL

\* What waits in the table always has a timer that ends the wait
THEOREM StoredHasTimerHolds == TxnSpec => []StoredHasTimer
<1>1. TxnIInv => StoredHasTimer
  BY DEF TxnIInv
<1>2. QED BY <1>1, TxnIInvHolds, PTL

-----------------------------------------------------------------------------
(* Whole messages.                                                         *)

LEMMA CollectorInit == TxnInit => CollectedInOrder /\ OnlyFragmentsCollected
BY DEF TxnInit, CollectedInOrder, OnlyFragmentsCollected

\* Steps that collect nothing
LEMMA NotCollected ==
  ASSUME CollectedInOrder, UNCHANGED collectorVars,
         \A u \in Task : \/ result'[u] = result[u]
                         \/ result'[u] \notin {"pending", "response"}
                         \/ fragments[u] = <<>>
  PROVE  CollectedInOrder'
BY DEF CollectedInOrder, collectorVars

\* One more fragment, in its place
LEMMA CollectedNext ==
  ASSUME TxnTypeOK, CollectedInOrder, NEW t \in Task, result[t] = "pending",
         NEW of \in 1..MaxFragments, NEW current \in 0..(of - 1),
         NextFragment(t, current), Collect(t, current, of),
         \/ LastFragment(t, current, of) /\ result'[t] = "response"
         \/ ~LastFragment(t, current, of) /\ result'[t] = "pending",
         \A u \in Task \ {t} : result'[u] = result[u]
  PROVE  CollectedInOrder'
<1> DEFINE f == fragments[t]
<1>1. f \in Seq(0..(MaxFragments - 1)) /\ total[t] \in Nat /\ of \in Nat /\ current \in Nat
  BY BoundsAssumption DEF TxnTypeOK
<1>2. /\ fragments'[t] = Append(f, current)
      /\ total'[t] = IF f = <<>> THEN of ELSE total[t]
      /\ \A u \in Task \ {t} : fragments'[u] = fragments[u] /\ total'[u] = total[u]
  BY DEF Collect, TxnTypeOK
<1>3. /\ \A i \in 1..Len(f) : f[i] = i - 1
      /\ f # <<>> => Len(f) < total[t]
  BY DEF CollectedInOrder
<1>4. Len(f) \in Nat /\ (f = <<>> <=> Len(f) = 0)
  BY <1>1
<1>5. current = Len(f)
  <2>1. CASE f = <<>>
    BY <1>4, <2>1 DEF NextFragment
  <2>2. CASE f # <<>>
    <3>1. f[Len(f)] = Len(f) - 1
      BY <1>3, <1>4, <2>2
    <3>2. QED BY <1>4, <2>2, <3>1 DEF NextFragment
  <2>3. QED BY <2>1, <2>2
<1>6. /\ Len(fragments'[t]) = Len(f) + 1
      /\ \A i \in 1..Len(fragments'[t]) : fragments'[t][i] = i - 1
      /\ fragments'[t] # <<>>
  BY <1>1, <1>2, <1>3, <1>4, <1>5
<1>7. /\ Len(f) + 1 <= total'[t]
      /\ LastFragment(t, current, of) <=> Len(f) + 1 = total'[t]
  <2>1. CASE f = <<>>
    BY <1>1, <1>2, <1>4, <1>5, <2>1 DEF LastFragment
  <2>2. CASE f # <<>>
    BY <1>1, <1>2, <1>3, <1>4, <1>5, <2>2 DEF LastFragment
  <2>3. QED BY <2>1, <2>2
<1>8. total'[t] \in Nat
  BY <1>1, <1>2
<1> HIDE DEF f
<1>9. QED
  <2> SUFFICES ASSUME NEW u \in Task
               PROVE  /\ \A i \in 1..Len(fragments'[u]) : fragments'[u][i] = i - 1
                      /\ Len(fragments'[u]) <= total'[u]
                      /\ fragments'[u] # <<>> /\ result'[u] = "pending" => Len(fragments'[u]) < total'[u]
                      /\ fragments'[u] # <<>> /\ result'[u] = "response" => Len(fragments'[u]) = total'[u]
    BY DEF CollectedInOrder
  <2>1. CASE u = t
    BY <1>4, <1>6, <1>7, <1>8, <2>1
  <2>2. CASE u # t
    BY <1>2, <2>2 DEF CollectedInOrder
  <2>3. QED BY <2>1, <2>2

LEMMA CompletedResult ==
  ASSUME TxnTypeOK, NEW t \in Task, NEW r \in Outcome, CompleteNow(t, r) \/ CompleteLater(t, r)
  PROVE  result'[t] = r /\ r # "pending" /\ \A u \in Task \ {t} : result'[u] = result[u]
BY DEF TxnTypeOK, CompleteNow, CompleteLater, Outcome, Timeouts, Successes, Failures

LEMMA CollectorStep ==
  CollectorIInv /\ [TxnNext]_txnVars => CollectedInOrder' /\ OnlyFragmentsCollected'
<1> SUFFICES ASSUME CollectorIInv, [TxnNext]_txnVars
             PROVE  CollectedInOrder' /\ OnlyFragmentsCollected'
  OBVIOUS
<1>0. /\ HOST \in TransactionType /\ MODEM \in TransactionType
      /\ Outcome = {"timeout", "timeout_fragment", "response", "function_error", "aborted",
                    "wrong_state", "write_failed", "out_of_sequence", "unknown_state"}
  BY DEF TransactionType, Outcome, Timeouts, Successes, Failures
<1>00. /\ TxnIInv /\ TxnTypeOK /\ CollectedInOrder /\ OnlyFragmentsCollected
       /\ Created \subseteq Task /\ ntasks \in Nat
  BY CreatedType DEF CollectorIInv, TxnIInv
<1> USE DEF taskVars, collectorVars, tableVars, returnVars, deviceVars
<1>1. ASSUME NEW type \in RequestType, Command(type)
      PROVE  CollectedInOrder' /\ OnlyFragmentsCollected'
  <2> DEFINE id == transaction_id
  <2>1. id \in Tid /\ type \in MessageType
    BY <1>00 DEF TxnTypeOK, MessageType
  <2>2. CommandOf(type, id)
    BY <1>1 DEF Command
  <2>3. NewTask(HOST, type, id) /\ UNCHANGED collectorVars
    BY <2>2 DEF CommandOf
  <2>4. PICK t \in Task : t = ntasks + 1
    BY <1>0, <1>00, <2>1, <2>3, NewTaskType
  <2>5. fragments[t] = <<>> /\ \A u \in Task \ {t} : ctx'[u] = ctx[u]
    BY <1>00, <2>3, <2>4 DEF TxnIInv, Uncreated, Created, NewTask, TxnTypeOK
  <2>6. \A u \in Task \ {t} : result'[u] = result[u]
    <3>1. CASE \E r \in Outcome : CompleteLater(t, r)
      BY <1>00, <3>1, CompletedResult
    <3>2. CASE result' = result
      BY <3>2
    <3>3. QED BY <1>0, <2>2, <2>4, <3>1, <3>2 DEF CommandOf
  <2>7. CollectedInOrder'
    BY <1>00, <2>3, <2>5, <2>6, NotCollected
  <2>8. OnlyFragmentsCollected'
    BY <1>00, <2>3, <2>5 DEF OnlyFragmentsCollected
  <2>9. QED BY <2>7, <2>8
<1>2. ASSUME ctx' = ctx, UNCHANGED collectorVars, NEW t \in Task, NEW r \in Outcome,
             r # "response" \/ fragments[t] = <<>>, CompleteNow(t, r) \/ CompleteLater(t, r)
      PROVE  CollectedInOrder' /\ OnlyFragmentsCollected'
  <2>1. CollectedInOrder'
    BY <1>00, <1>2, CompletedResult, NotCollected
  <2>2. OnlyFragmentsCollected'
    BY <1>00, <1>2 DEF OnlyFragmentsCollected
  <2>3. QED BY <2>1, <2>2
<1>3. ASSUME ctx' = ctx, UNCHANGED collectorVars, result' = result
      PROVE  CollectedInOrder' /\ OnlyFragmentsCollected'
  <2>1. CollectedInOrder'
    BY <1>00, <1>3, NotCollected
  <2>2. OnlyFragmentsCollected'
    BY <1>00, <1>3 DEF OnlyFragmentsCollected
  <2>3. QED BY <2>1, <2>2
<1>4. ASSUME NEW t \in Task, TransactionCancelled(t)
      PROVE  CollectedInOrder' /\ OnlyFragmentsCollected'
  BY <1>0, <1>2, <1>4 DEF TransactionCancelled
<1>5. CASE OpenChannel \/ CloseForce \/ EmitError \/ RunIdle \/ RunCallback \/ UNCHANGED txnVars
           \/ \E id \in Tid : ReportErrorInIdle(id)
  BY <1>3, <1>5
     DEF OpenChannel, CloseForce, EmitError, RunIdle, RunCallback, ReportErrorInIdle, txnVars
<1>6. ASSUME NEW id \in Tid, NEW type \in {"OPEN", "CLOSE"}, ReceiveDone(type, id)
      PROVE  CollectedInOrder' /\ OnlyFragmentsCollected'
  <2>1. PICK t \in Task : t = transactions[HOST][id]
    BY <1>0, <1>00, <1>6, FoundOnce DEF ReceiveDone
  <2>2. ctx[t].type \in {"OPEN", "CLOSE"}
    BY <1>6, <2>1 DEF ReceiveDone
  <2>3. fragments[t] = <<>>
    BY <1>00, <2>2 DEF OnlyFragmentsCollected
  <2>4. QED BY <1>0, <1>2, <1>6, <2>1, <2>3 DEF ReceiveDone
<1>7. ASSUME NEW id \in Tid, ReceiveFunctionError(id)
      PROVE  CollectedInOrder' /\ OnlyFragmentsCollected'
  <2>1. PICK t \in Task : t = transactions[HOST][id]
    BY <1>0, <1>00, <1>7, FoundOnce DEF ReceiveFunctionError
  <2>2. QED BY <1>0, <1>2, <1>7, <2>1 DEF ReceiveFunctionError
<1>11. ASSUME NEW id \in Tid, FinalizePendingOpen(id)
      PROVE  CollectedInOrder' /\ OnlyFragmentsCollected'
  <2>1. PICK t \in Task : t = transactions[HOST][id]
    BY <1>0, <1>00, <1>11, FoundOnce DEF FinalizePendingOpen
  <2>2. QED BY <1>0, <1>2, <1>11, <2>1 DEF FinalizePendingOpen
<1>8. ASSUME NEW kind \in TransactionType, NEW type \in {"COMMAND", "INDICATE_STATUS"},
             NEW id \in Tid, NEW of \in 1..MaxFragments, NEW current \in 0..(of - 1),
             ReceiveFragment(kind, type, id, current, of)
      PROVE  CollectedInOrder' /\ OnlyFragmentsCollected'
  <2>1. PICK t \in Task : t = transactions[kind][id]
    BY <1>00, <1>8, FoundOnce DEF ReceiveFragment
  <2>2. result[t] = "pending" /\ ctx[t].type = type /\ ctx' = ctx
    BY <1>00, <1>8, <2>1, FoundOnce DEF ReceiveFragment
  <2>3. CASE CompleteNow(t, "out_of_sequence") /\ UNCHANGED collectorVars
    BY <1>0, <1>2, <2>2, <2>3
  <2>4. CASE /\ NextFragment(t, current) /\ Collect(t, current, of)
             /\ \/ LastFragment(t, current, of) /\ CompleteNow(t, "response")
                \/ ~LastFragment(t, current, of) /\ result' = result
    <3>1. /\ \/ LastFragment(t, current, of) /\ result'[t] = "response"
             \/ ~LastFragment(t, current, of) /\ result'[t] = "pending"
          /\ \A u \in Task \ {t} : result'[u] = result[u]
      BY <1>0, <1>00, <2>2, <2>4, CompletedResult
    <3>2. CollectedInOrder'
      BY <1>00, <2>2, <2>4, <3>1, CollectedNext
    <3>3. OnlyFragmentsCollected'
      BY <1>00, <2>2, <2>4, CollectOther DEF OnlyFragmentsCollected
    <3>4. QED BY <3>2, <3>3
  <2>5. QED BY <1>8, <2>1, <2>3, <2>4 DEF ReceiveFragment
<1>9. ASSUME NEW id \in Tid, NEW of \in 1..MaxFragments, NEW current \in 0..(of - 1),
             ReceiveNewIndication(id, current, of)
      PROVE  CollectedInOrder' /\ OnlyFragmentsCollected'
  <2>1. NewTask(MODEM, "INDICATE_STATUS", id) /\ "INDICATE_STATUS" \in MessageType
    BY <1>9 DEF ReceiveNewIndication, MessageType
  <2>2. PICK t \in Task : t = ntasks + 1
    BY <1>0, <1>00, <2>1, NewTaskType
  <2>3. fragments[t] = <<>> /\ result[t] = "pending"
    BY <1>00, <2>2 DEF TxnIInv, Uncreated, Created
  <2>4. ctx'[t].type = "INDICATE_STATUS" /\ \A u \in Task \ {t} : ctx'[u] = ctx[u]
    BY <1>00, <2>1, <2>2 DEF NewTask, TxnTypeOK
  <2>5. CASE CompleteLater(t, "out_of_sequence") /\ UNCHANGED collectorVars
    <3>1. CollectedInOrder'
      BY <1>0, <1>00, <2>3, <2>5, CompletedResult, NotCollected
    <3>2. OnlyFragmentsCollected'
      BY <1>00, <2>3, <2>4, <2>5 DEF OnlyFragmentsCollected
    <3>3. QED BY <3>1, <3>2
  <2>6. CASE /\ current = 0 /\ Collect(t, current, of)
             /\ \/ of = 1 /\ CompleteLater(t, "response")
                \/ of > 1 /\ result' = result
    <3>1. NextFragment(t, current) /\ (LastFragment(t, current, of) <=> of = 1)
      BY <2>3, <2>6 DEF NextFragment, LastFragment
    <3>2. /\ \/ LastFragment(t, current, of) /\ result'[t] = "response"
             \/ ~LastFragment(t, current, of) /\ result'[t] = "pending"
          /\ \A u \in Task \ {t} : result'[u] = result[u]
      <4>1. CASE of = 1 /\ CompleteLater(t, "response")
        BY <1>0, <1>00, <3>1, <4>1, CompletedResult
      <4>2. CASE of > 1 /\ result' = result
        BY <2>3, <3>1, <4>2
      <4>3. QED BY <2>6, <4>1, <4>2
    <3>3. CollectedInOrder'
      BY <1>00, <2>3, <2>6, <3>1, <3>2, CollectedNext
    <3>4. OnlyFragmentsCollected'
      BY <1>00, <2>4, <2>6, CollectOther DEF OnlyFragmentsCollected
    <3>5. QED BY <3>3, <3>4
  <2>7. QED BY <1>9, <2>2, <2>5, <2>6 DEF ReceiveNewIndication
<1>10. ASSUME NEW t \in Task, TransactionTimedOut(t)
       PROVE  CollectedInOrder' /\ OnlyFragmentsCollected'
  <2> DEFINE u == transactions[ctx[t].kind][ctx[t].transaction_id]
  <2>1. ctx' = ctx /\ UNCHANGED collectorVars
    BY <1>10 DEF TransactionTimedOut
  <2>2. u # None => u \in Task
    BY <1>00, ContextType, FoundOnce
  <2>3. QED BY <1>0, <1>2, <1>3, <1>10, <2>1, <2>2 DEF TransactionTimedOut
<1>12. QED
  BY <1>0, <1>1, <1>4, <1>5, <1>6, <1>7, <1>8, <1>9, <1>10, <1>11
     DEF TxnNext, AppCalls, ProcessMessage, MainLoop

\* A message returned to a caller is whole, its fragments in order
THEOREM WholeMessageHolds == TxnSpec => []WholeMessage
<1>1. TxnInit => CollectorIInv
  BY TxnIInvInit, CollectorInit DEF CollectorIInv
<1>2. CollectorIInv /\ [TxnNext]_txnVars => CollectorIInv'
  BY TxnIInvStep, CollectorStep DEF CollectorIInv
<1>3. CollectorIInv => WholeMessage
  BY DEF CollectorIInv, CollectedInOrder, WholeMessage
<1>4. QED BY <1>1, <1>2, <1>3, PTL DEF TxnSpec

\* No error signal is emitted for a channel that was closed in between
THEOREM ErrorNeedsChannelHolds == TxnSpec => []ErrorNeedsChannel
<1> USE DEF ErrorNeedsChannel
<1>1. TxnInit => ErrorNeedsChannel
  BY DEF TxnInit
<1>2. ErrorNeedsChannel /\ [TxnNext]_txnVars => ErrorNeedsChannel'
  <2> SUFFICES ASSUME ErrorNeedsChannel, [TxnNext]_txnVars PROVE ErrorNeedsChannel'
    OBVIOUS
  <2>1. CASE UNCHANGED <<iochannel, pending_error_indication>>
    BY <2>1
  <2>2. CASE iochannel /\ iochannel' = iochannel
    BY <2>2
  <2>3. CASE ~pending_error_indication'
    BY <2>3
  <2>4. CASE CloseForce
    BY <2>4 DEF CloseForce, DestroyIochannel
  <2> USE DEF deviceVars
  <2>5. CASE AppCalls
    BY <2>1, <2>4, <2>5 DEF AppCalls, Command, CommandOf, TransactionCancelled, OpenChannel
  <2>6. CASE ProcessMessage
    <3>1. ASSUME NEW id \in Tid, NEW type, ReceiveDone(type, id)
          PROVE  iochannel /\ iochannel' = iochannel
      BY <3>1 DEF ReceiveDone, Reading
    <3>2. ASSUME NEW kind, NEW type, NEW id \in Tid, NEW current, NEW of,
                 ReceiveFragment(kind, type, id, current, of)
          PROVE  iochannel /\ iochannel' = iochannel
      BY <3>2 DEF ReceiveFragment, Reading
    <3>3. ASSUME NEW id \in Tid, NEW current, NEW of, ReceiveNewIndication(id, current, of)
          PROVE  iochannel /\ iochannel' = iochannel
      BY <3>3 DEF ReceiveNewIndication, Reading
    <3>4. ASSUME NEW id \in Tid, ReceiveFunctionError(id)
          PROVE  iochannel /\ iochannel' = iochannel
      BY <3>4 DEF ReceiveFunctionError, Reading
    <3>5. ASSUME NEW id \in Tid, FinalizePendingOpen(id)
          PROVE  iochannel /\ iochannel' = iochannel
      BY <3>5 DEF FinalizePendingOpen, Reading
    <3>6. QED BY <2>2, <2>6, <3>1, <3>2, <3>3, <3>4, <3>5 DEF ProcessMessage
  <2>7. CASE MainLoop
    BY <2>1, <2>3, <2>7 DEF MainLoop, TransactionTimedOut, RunIdle, RunCallback, EmitError,
                            ReportErrorInIdle
  <2>8. CASE UNCHANGED txnVars
    BY <2>1, <2>8 DEF txnVars
  <2>9. QED BY <2>5, <2>6, <2>7, <2>8 DEF TxnNext
<1>3. QED BY <1>1, <1>2, PTL DEF TxnSpec

(***************************************************************************)
(* The transaction table implements RequestReply: the initial states map   *)
(* to its initial state, and every step to one of its steps or to none.    *)
(***************************************************************************)

\* Nothing was requested yet
LEMMA AbstractInit == TxnInit => Abstract!Init
<1> SUFFICES ASSUME TxnInit PROVE Abstract!Init
  OBVIOUS
<1>1. Created = {}
  BY DEF TxnInit, Created
<1>2. PendingBar = {} /\ ReplyBar = [t \in Task |-> "pending"]
  BY <1>1 DEF PendingBar, ReplyBar, Requested
<1>3. QED BY <1>2 DEF Abstract!Init

\* Steps that accept nothing and run no callback
LEMMA AbstractStutter ==
  ASSUME TxnIInv, called' = called,
         \A u \in Task : result'[u] = result[u] \/ result[u] = "pending",
         Requested' = Requested
  PROVE  UNCHANGED Abstract!vars
<1>1. Requested \subseteq Task
  BY CreatedType DEF TxnIInv, Requested
<1>2. \A u \in Task : result[u] = "pending" => called[u] = 0
  BY DEF TxnIInv, ExactlyOnce, CalledBackOnce
<1>3. PendingBar' = PendingBar
  BY DEF PendingBar
<1>4. ReplyBar' = ReplyBar
  BY <1>2 DEF ReplyBar
<1>5. QED BY <1>3, <1>4 DEF Abstract!vars

LEMMA AbstractStep == TxnIInv /\ TxnIInv' /\ [TxnNext]_txnVars => [Abstract!Next]_Abstract!vars
<1> SUFFICES ASSUME TxnIInv, TxnIInv', [TxnNext]_txnVars
             PROVE  Abstract!Next \/ UNCHANGED Abstract!vars
  OBVIOUS
<1>0. /\ HOST \in TransactionType /\ MODEM \in TransactionType /\ HOST # MODEM
      /\ Outcome = {"timeout", "timeout_fragment", "response", "function_error", "aborted",
                    "wrong_state", "write_failed", "out_of_sequence", "unknown_state"}
  BY DEF TransactionType, Outcome, Timeouts, Successes, Failures, HOST, MODEM
<1>00. TxnTypeOK /\ Created \subseteq Task /\ ntasks \in Nat
  BY CreatedType DEF TxnIInv
<1> USE DEF taskVars, collectorVars, tableVars, returnVars, deviceVars
<1>1. ASSUME NEW kind \in TransactionType, NEW type \in MessageType, NEW id \in Tid,
             NewTask(kind, type, id), called' = called,
             \A u \in Task : result'[u] = result[u] \/ result[u] = "pending"
      PROVE  Abstract!Next \/ UNCHANGED Abstract!vars
  <2>1. PICK t \in Task : t = ntasks + 1
    BY <1>00, <1>1, NewTaskType
  <2>2. /\ Created' = Created \cup {t} /\ t \notin Created
        /\ ctx'[t].kind = kind /\ \A u \in Created : ctx'[u] = ctx[u]
    BY <1>00, <1>1, <2>1 DEF NewTask, Created, TxnTypeOK
  <2>3. CASE kind = MODEM
    <3>1. Requested' = Requested
      BY <1>0, <2>2, <2>3 DEF Requested
    <3>2. QED BY <1>1, <3>1, AbstractStutter
  <2>4. CASE kind = HOST
    <3>1. Requested' = Requested \cup {t} /\ t \notin Requested
      BY <2>2, <2>4 DEF Requested
    <3>2. called[t] = 0
      BY <2>2 DEF TxnIInv, Uncreated
    <3>3. \A u \in Task : result[u] = "pending" => called[u] = 0
      BY DEF TxnIInv, ExactlyOnce, CalledBackOnce
    <3>4. PendingBar' = PendingBar \cup {t} /\ t \notin PendingBar
      BY <1>1, <3>1, <3>2 DEF PendingBar
    <3>5. ReplyBar' = ReplyBar /\ ReplyBar[t] = "pending"
      BY <1>1, <3>1, <3>2, <3>3 DEF ReplyBar
    <3>6. Abstract!Accept(t)
      BY <3>4, <3>5 DEF Abstract!Accept
    <3>7. QED BY <3>6 DEF Abstract!Next
  <2>5. QED BY <2>3, <2>4 DEF TransactionType
<1>2. ASSUME ntasks' = ntasks, ctx' = ctx, called' = called,
             \A u \in Task : result'[u] = result[u] \/ result[u] = "pending"
      PROVE  UNCHANGED Abstract!vars
  BY <1>2, AbstractStutter DEF Requested, Created
<1>3. ASSUME NEW t \in Task, result[t] = "pending", NEW r \in Outcome,
             CompleteNow(t, r) \/ CompleteLater(t, r)
      PROVE  called' = called /\ \A u \in Task : result'[u] = result[u] \/ result[u] = "pending"
  BY <1>00, <1>3, CompletedResult DEF CompleteNow, CompleteLater
<1>4. ASSUME NEW t \in Task, ntasks' = ntasks, ctx' = ctx, result[t] = "pending",
             NEW r \in Outcome, CompleteNow(t, r) \/ CompleteLater(t, r)
      PROVE  UNCHANGED Abstract!vars
  BY <1>2, <1>3, <1>4
<1>5. ASSUME NEW type \in RequestType, Command(type)
      PROVE  Abstract!Next \/ UNCHANGED Abstract!vars
  <2> DEFINE id == transaction_id
  <2>1. id \in Tid /\ type \in MessageType
    BY <1>00 DEF TxnTypeOK, MessageType
  <2>2. CommandOf(type, id)
    BY <1>5 DEF Command
  <2>3. NewTask(HOST, type, id)
    BY <2>2 DEF CommandOf
  <2>4. PICK t \in Task : t = ntasks + 1 /\ result[t] = "pending"
    BY <1>0, <1>00, <2>1, <2>3, NewTaskType DEF TxnIInv, Uncreated, Created
  <2>5. called' = called /\ \A u \in Task : result'[u] = result[u] \/ result[u] = "pending"
    <3>1. CASE \E r \in Outcome : CompleteLater(t, r)
      BY <1>3, <2>4, <3>1
    <3>2. CASE UNCHANGED returnVars
      BY <3>2
    <3>3. QED BY <1>0, <2>2, <2>4, <3>1, <3>2 DEF CommandOf
  <2>6. QED BY <1>0, <1>1, <2>1, <2>3, <2>5
<1>6. ASSUME NEW id \in Tid, NEW current, NEW of, ReceiveNewIndication(id, current, of)
      PROVE  Abstract!Next \/ UNCHANGED Abstract!vars
  <2>1. NewTask(MODEM, "INDICATE_STATUS", id) /\ "INDICATE_STATUS" \in MessageType
    BY <1>6 DEF ReceiveNewIndication, MessageType
  <2>2. PICK t \in Task : t = ntasks + 1 /\ result[t] = "pending"
    BY <1>0, <1>00, <2>1, NewTaskType DEF TxnIInv, Uncreated, Created
  <2>3. called' = called /\ \A u \in Task : result'[u] = result[u] \/ result[u] = "pending"
    <3>1. CASE \E r \in Outcome : CompleteLater(t, r)
      BY <1>3, <2>2, <3>1
    <3>2. CASE UNCHANGED returnVars
      BY <3>2
    <3>3. QED BY <1>0, <1>6, <2>2, <3>1, <3>2 DEF ReceiveNewIndication
  <2>4. QED BY <1>0, <1>1, <2>1, <2>3
<1>7. ASSUME NEW t \in Task, TransactionCancelled(t) PROVE UNCHANGED Abstract!vars
  <2>1. result[t] = "pending"
    BY <1>0, <1>7, FoundOnce DEF TransactionCancelled, Task, None
  <2>2. QED BY <1>0, <1>4, <1>7, <2>1 DEF TransactionCancelled
<1>8. ASSUME NEW id \in Tid,
             \/ \E type \in {"OPEN", "CLOSE"} : ReceiveDone(type, id)
             \/ ReceiveFunctionError(id)
             \/ FinalizePendingOpen(id)
      PROVE  UNCHANGED Abstract!vars
  <2>1. PICK t \in Task : t = transactions[HOST][id] /\ result[t] = "pending"
    BY <1>0, <1>8, FoundOnce DEF ReceiveDone, ReceiveFunctionError, FinalizePendingOpen
  <2>2. QED BY <1>0, <1>4, <1>8, <2>1 DEF ReceiveDone, ReceiveFunctionError, FinalizePendingOpen
<1>9. ASSUME NEW kind \in TransactionType, NEW type, NEW id \in Tid, NEW current, NEW of,
             ReceiveFragment(kind, type, id, current, of)
      PROVE  UNCHANGED Abstract!vars
  <2>1. PICK t \in Task : t = transactions[kind][id] /\ result[t] = "pending"
    BY <1>9, FoundOnce DEF ReceiveFragment
  <2>2. ntasks' = ntasks /\ ctx' = ctx
    BY <1>9 DEF ReceiveFragment
  <2>3. CASE \E r \in Outcome : CompleteNow(t, r)
    BY <1>4, <2>1, <2>2, <2>3
  <2>4. CASE UNCHANGED returnVars
    BY <1>2, <2>2, <2>4
  <2>5. QED BY <1>0, <1>9, <2>1, <2>3, <2>4 DEF ReceiveFragment
<1>10. ASSUME NEW t \in Task, TransactionTimedOut(t) PROVE UNCHANGED Abstract!vars
  <2> DEFINE u == transactions[ctx[t].kind][ctx[t].transaction_id]
  <2>1. ntasks' = ntasks /\ ctx' = ctx
    BY <1>10 DEF TransactionTimedOut
  <2>2. u # None => u \in Task /\ result[u] = "pending"
    BY <1>00, ContextType, FoundOnce
  <2>3. CASE UNCHANGED returnVars
    BY <1>2, <2>1, <2>3
  <2>4. CASE u # None /\ \E r \in Outcome : CompleteNow(u, r)
    BY <1>4, <2>1, <2>2, <2>4
  <2>5. QED BY <1>0, <1>10, <2>3, <2>4 DEF TransactionTimedOut
<1>11. CASE OpenChannel \/ CloseForce \/ EmitError \/ RunIdle \/ UNCHANGED txnVars
            \/ \E id \in Tid : ReportErrorInIdle(id)
  BY <1>2, <1>11 DEF OpenChannel, CloseForce, EmitError, RunIdle, ReportErrorInIdle, txnVars
<1>12. CASE RunCallback
  <2>1. PICK t \in Task : t = running
    BY <1>00, <1>12 DEF RunCallback, TxnTypeOK
  <2>2. /\ ntasks' = ntasks /\ ctx' = ctx /\ result' = result
        /\ called' = [called EXCEPT ![t] = @ + 1]
    BY <1>12, <2>1 DEF RunCallback
  <2>3. called[t] = 0 /\ result[t] # "pending"
    BY <2>1 DEF TxnIInv, ExactlyOnce, CalledBackOnce
  <2>4. called'[t] = 1 /\ \A u \in Task \ {t} : called'[u] = called[u]
    BY <1>00, <2>2, <2>3 DEF TxnTypeOK
  <2>5. Requested' = Requested /\ Requested \subseteq Task
    BY <1>00, <2>2 DEF Requested, Created
  <2>6. CASE t \in Requested
    <3>1. PendingBar' = PendingBar \ {t} /\ t \in PendingBar
      BY <2>3, <2>4, <2>5, <2>6 DEF PendingBar
    <3>2. ReplyBar' = [ReplyBar EXCEPT ![t] = result[t]]
      <4>1. ReplyBar' = [u \in Task |-> IF u \in Requested /\ called'[u] > 0
                                       THEN result[u] ELSE "pending"]
        BY <2>2, <2>5 DEF ReplyBar
      <4>2. \A u \in Task : ReplyBar'[u] = IF u = t THEN result[t] ELSE ReplyBar[u]
        BY <2>4, <2>6, <4>1 DEF ReplyBar
      <4>3. DOMAIN ReplyBar = Task /\ DOMAIN ReplyBar' = Task
        BY <4>1 DEF ReplyBar
      <4>4. ReplyBar' = [u \in Task |-> ReplyBar'[u]]
        BY <4>1
      <4>5. [ReplyBar EXCEPT ![t] = result[t]]
              = [u \in Task |-> IF u = t THEN result[t] ELSE ReplyBar[u]]
        BY <4>3
      <4>6. QED BY <4>2, <4>4, <4>5
    <3>3. Abstract!Answer(t, result[t])
      BY <3>1, <3>2 DEF Abstract!Answer
    <3>4. result[t] \in Outcome
      BY <1>00, <2>3 DEF TxnTypeOK
    <3>5. QED BY <3>3, <3>4 DEF Abstract!Next
  <2>7. CASE t \notin Requested
    <3>1. PendingBar' = PendingBar
      BY <2>4, <2>5, <2>7 DEF PendingBar
    <3>2. ReplyBar' = ReplyBar
      BY <2>2, <2>4, <2>5, <2>7 DEF ReplyBar
    <3>3. QED BY <3>1, <3>2 DEF Abstract!vars
  <2>8. QED BY <2>6, <2>7
<1>13. QED
  BY <1>0, <1>5, <1>6, <1>7, <1>8, <1>9, <1>10, <1>11, <1>12
     DEF TxnNext, AppCalls, ProcessMessage, MainLoop

\* Every request handed to the device is answered at most once, by one of the
\* outcomes the library knows, and keeps its answer
THEOREM ImplementsRequestReply == TxnSpec => RequestsAnsweredOnce
<1>1. QED
  BY AbstractInit, AbstractStep, TxnIInvHolds, PTL DEF TxnSpec, RequestsAnsweredOnce, Abstract!Spec
=============================================================================
