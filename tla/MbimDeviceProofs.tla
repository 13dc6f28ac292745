-------------------------- MODULE MbimDeviceProofs --------------------------
(***************************************************************************)
(* The open and close operations use the transaction table only through    *)
(* the actions of MbimTransactions, so what is proved of every behaviour   *)
(* of the table holds of every behaviour of the device.                    *)
(*                                                                         *)
(* The operations always wait for exactly one callback, a modem found in   *)
(* an unknown state is closed before it is asked to open again, and what   *)
(* an operation reports is true of the modem, for any number of            *)
(* operations, tasks, commands, ids and retries.  OpsIInv is inductive on  *)
(* its own: besides what OperationAdvances counts it says which request an *)
(* operation waits for, so that the callback that runs is the one of the   *)
(* step the operation is at.  OutcomeIInv adds what is known of the modem  *)
(* from the requests made and the answers read.                            *)
(***************************************************************************)
EXTENDS MbimDevice, MbimTransactionsProofs, FiniteSetTheorems

\* What process_message and finalize_pending_open_request look transactions up by
PipeTypeOK == /\ rx \in Seq(Answer)
              /\ open_transaction_id \in Tid \cup {0}

LEMMA PipeInit == DeviceInit => PipeTypeOK
<1> SUFFICES ASSUME DeviceInit PROVE PipeTypeOK
  OBVIOUS
<1>1. open_transaction_id = 0
  BY DEF DeviceInit
<1>2. [to |-> "CLOSE", id |-> 0, ok |-> TRUE, error |-> FALSE] \in Answer
  BY DEF Answer, RequestType
<1>3. <<>> \in Seq(Answer) /\ \A a \in Answer : <<a>> \in Seq(Answer)
  OBVIOUS
<1>4. rx \in Seq(Answer)
  BY <1>2, <1>3 DEF DeviceInit
<1>5. QED BY <1>1, <1>4 DEF PipeTypeOK

LEMMA CommandIsTxnNext ==
  ASSUME NEW type \in RequestType, Command(type)
  PROVE  TxnNext
BY DEF TxnNext, AppCalls

LEMMA RequestOfType == \A step : RequestOf(step) \in RequestType
BY DEF RequestOf, RequestType

LEMMA TransmitPipe ==
  ASSUME PipeTypeOK, NEW type \in RequestType, NEW id \in Tid, Transmit(type, id)
  PROVE  rx' \in Seq(Answer)
<1>1. CASE UNCHANGED modemVars
  BY <1>1 DEF modemVars, PipeTypeOK
<1>2. ASSUME NEW ok \in BOOLEAN, NEW error \in BOOLEAN, NEW lost \in BOOLEAN,
             rx' = IF lost THEN rx
                   ELSE Append(rx, [to |-> type, id |-> id, ok |-> ok, error |-> error])
      PROVE  rx' \in Seq(Answer)
  <2>1. [to |-> type, id |-> id, ok |-> ok, error |-> error] \in Answer
    BY DEF Answer
  <2>2. QED BY <1>2, <2>1 DEF PipeTypeOK
<1>3. QED BY <1>1, <1>2 DEF Transmit

\* What the operations do to the transaction table is a step of the table, and
\* keeps the types of the pipe
StepsTable == (TxnNext \/ UNCHANGED txnVars) /\ PipeTypeOK'

LEMMA RequestSteps ==
  ASSUME TxnTypeOK, PipeTypeOK, NEW o, NEW type \in RequestType, NEW cancelled,
         Request(o, type, cancelled)
  PROVE  TxnNext /\ rx' \in Seq(Answer)
<1>1. TxnNext
  BY CommandIsTxnNext DEF Request
<1>2. transaction_id \in Tid
  BY DEF TxnTypeOK
<1>3. Transmit(type, transaction_id) \/ UNCHANGED modemVars
  BY DEF Request
<1>4. rx' \in Seq(Answer)
  BY <1>2, <1>3, TransmitPipe DEF modemVars, PipeTypeOK
<1>5. QED BY <1>1, <1>4

LEMMA ReturnSteps ==
  ASSUME PipeTypeOK, NEW o, NEW p, NEW r, NEW status, NEW id \in Tid \cup {0},
         OpenReturns(o, p, r, status, id)
  PROVE  StepsTable
BY DEF OpenReturns, StepsTable, PipeTypeOK, modemVars

LEMMA ContextSteps ==
  ASSUME TxnTypeOK, PipeTypeOK, NEW o, NEW p, NEW id \in Tid \cup {0}, ContextStep(o, p, id)
  PROVE  StepsTable
<1>1. ASSUME NEW q, SendStep(o, q, id) PROVE StepsTable
  <2>1. Request(o, RequestOf(q.step), q.cancelled)
    BY <1>1 DEF SendStep
  <2>2. TxnNext /\ rx' \in Seq(Answer)
    BY <2>1, RequestOfType, RequestSteps
  <2>3. open_transaction_id' \in Tid \cup {0}
    BY <1>1 DEF SendStep, TxnTypeOK
  <2>4. QED BY <2>2, <2>3 DEF StepsTable, PipeTypeOK
<1>2. \A q, r, status : OpenReturns(o, q, r, status, id) => StepsTable
  BY ReturnSteps
<1>3. QED BY <1>1, <1>2 DEF ContextStep

LEMMA CloseSteps ==
  ASSUME CloseNow
  PROVE  TxnNext \/ UNCHANGED txnVars
BY DEF CloseNow, TxnNext, AppCalls

LEMMA RepliedSteps ==
  ASSUME TxnTypeOK, PipeTypeOK, NEW o \in Op, OperationReplied(o)
  PROVE  StepsTable
<1>1. \A p, id : id \in Tid \cup {0} /\ ContextStep(o, p, id) => StepsTable
  BY ContextSteps
<1>2. \A p, r, status, id : id \in Tid \cup {0} /\ OpenReturns(o, p, r, status, id) => StepsTable
  BY ReturnSteps
<1>3. open_transaction_id \in Tid \cup {0} /\ 0 \in Tid \cup {0}
  BY DEF PipeTypeOK
<1>4. CASE ProxyCfgMessageReady(o)
  BY <1>1, <1>2, <1>3, <1>4 DEF ProxyCfgMessageReady
<1>5. CASE CloseMessageBeforeOpenReady(o)
  BY <1>1, <1>3, <1>5 DEF CloseMessageBeforeOpenReady
<1>6. CASE OpenMessageReady(o)
  BY <1>1, <1>2, <1>3, <1>6 DEF OpenMessageReady
<1>7. CASE DeviceServicesMessageReady(o)
  BY <1>1, <1>2, <1>3, <1>7 DEF DeviceServicesMessageReady
<1>8. CASE MsExtVersionMessageReady(o)
  BY <1>1, <1>2, <1>3, <1>8 DEF MsExtVersionMessageReady
<1>9. CASE CloseMessageReady(o)
  BY <1>9, CloseSteps DEF CloseMessageReady, StepsTable, PipeTypeOK, modemVars
<1>10. QED BY <1>4, <1>5, <1>6, <1>7, <1>8, <1>9 DEF OperationReplied

LEMMA ReadSteps ==
  ASSUME TxnTypeOK, PipeTypeOK, ReadMessage
  PROVE  StepsTable
<1> DEFINE m == Head(rx)
<1>1. m \in Answer /\ rx' \in Seq(Answer)
  BY DEF ReadMessage, PipeTypeOK
<1>2. CASE ReceiveAnswer(m)
  <2>1. m.id \in Tid
    BY <1>1, <1>2 DEF ReceiveAnswer, Matches, Answer
  <2>2. open_transaction_id' = open_transaction_id
    BY <1>2 DEF ReceiveAnswer, statusVars
  <2>3. ASSUME ReceiveFunctionError(m.id) PROVE TxnNext
    BY <2>1, <2>3 DEF TxnNext, ProcessMessage
  <2>4. ASSUME ReceiveFragment(HOST, "COMMAND", m.id, 0, 1) PROVE TxnNext
    <3>1. 1 \in 1..MaxFragments /\ 0 \in 0..(1 - 1)
      BY BoundsAssumption
    <3>2. QED BY <2>1, <2>4, <3>1 DEF TxnNext, ProcessMessage
  <2>5. ASSUME m.to # "COMMAND", ReceiveDone(m.to, m.id) PROVE TxnNext
    <3>1. m.to \in {"OPEN", "CLOSE"}
      BY <1>1, <2>5 DEF Answer, RequestType
    <3>2. QED BY <2>1, <2>5, <3>1 DEF TxnNext, ProcessMessage
  <2>6. TxnNext
    BY <1>2, <2>3, <2>4, <2>5 DEF ReceiveAnswer
  <2>7. QED BY <1>1, <2>2, <2>6 DEF StepsTable, PipeTypeOK
<1>3. CASE Unmatched(m)
  <2>1. CASE UNCHANGED <<txnVars, open_transaction_id>>
    BY <1>1, <2>1 DEF StepsTable, PipeTypeOK
  <2>2. CASE open_transaction_id # 0 /\ FinalizePendingOpen(open_transaction_id)
             /\ open_transaction_id' = 0
    <3>1. open_transaction_id \in Tid
      BY <2>2 DEF PipeTypeOK
    <3>2. TxnNext
      BY <2>2, <3>1 DEF TxnNext, ProcessMessage
    <3>3. QED BY <1>1, <2>2, <3>2 DEF StepsTable, PipeTypeOK
  <2>3. QED BY <1>3, <2>1, <2>2 DEF Unmatched
<1>4. QED BY <1>2, <1>3 DEF ReadMessage

LEMMA DeviceSteps ==
  ASSUME TxnTypeOK, PipeTypeOK, DeviceNext \/ UNCHANGED devVars
  PROVE  StepsTable
<1> USE DEF ownVars, opVars, statusVars, modemVars
<1>1. \A p, o, id : id \in Tid \cup {0} /\ ContextStep(o, p, id) => StepsTable
  BY ContextSteps
<1>2. \A p, o, r, status, id : id \in Tid \cup {0} /\ OpenReturns(o, p, r, status, id) => StepsTable
  BY ReturnSteps
<1>3. open_transaction_id \in Tid \cup {0}
  BY DEF PipeTypeOK
<1>4. CASE TxnNext /\ UNCHANGED <<rx, open_transaction_id>>
  BY <1>4 DEF StepsTable, PipeTypeOK
<1>5. CASE UNCHANGED txnVars /\ UNCHANGED <<rx, open_transaction_id>>
  BY <1>5 DEF StepsTable, PipeTypeOK
<1>6. OpenChannel \/ CloseForce \/ RunCallback \/ RunIdle \/ EmitError
        \/ (\E t \in Task : TransactionTimedOut(t) \/ TransactionCancelled(t)) => TxnNext
  BY DEF TxnNext, AppCalls, MainLoop
<1>7. CloseNow => TxnNext \/ UNCHANGED txnVars
  BY CloseSteps
<1>8. ASSUME NEW o \in Op, NEW flags \in OpenFlags, OpenFull(o, flags) PROVE StepsTable
  BY <1>4, <1>5, <1>6, <1>8 DEF OpenFull
<1>9. ASSUME NEW o, NEW cancelled, NEW type \in RequestType, Request(o, type, cancelled),
             open_transaction_id' = open_transaction_id
      PROVE  StepsTable
  BY <1>3, <1>9, RequestSteps DEF StepsTable, PipeTypeOK
<1>10. ASSUME NEW o \in Op, Close(o) PROVE StepsTable
  <2>1. "CLOSE" \in RequestType
    BY DEF RequestType
  <2>2. QED BY <1>4, <1>5, <1>7, <1>9, <1>10, <2>1 DEF Close
<1>11. ASSUME NEW o \in Op, CancelOperation(o) PROVE StepsTable
  BY <1>4, <1>5, <1>6, <1>11 DEF CancelOperation
<1>12. ASSUME NEW o \in Op, CreateIochannelReady(o) PROVE StepsTable
  BY <1>1, <1>2, <1>3, <1>12 DEF CreateIochannelReady
<1>13. ASSUME NEW o \in Op, WaitForProxy(o) PROVE StepsTable
  BY <1>4, <1>5, <1>6, <1>13 DEF WaitForProxy
<1>14. CASE ForceClose \/ Hangup
  BY <1>4, <1>5, <1>7, <1>14 DEF ForceClose, Hangup
<1>15. CASE AppCommand
  <2>1. "COMMAND" \in RequestType
    BY DEF RequestType
  <2>2. QED BY <1>9, <1>15, <2>1 DEF AppCommand
<1>16. CASE CancelCommand
  <2>1. Created \subseteq Task
    BY BoundsAssumption DEF Created, Task, TxnTypeOK
  <2>2. QED BY <1>4, <1>6, <1>16, <2>1 DEF CancelCommand
<1>17. CASE SetInSession
  BY <1>5, <1>17 DEF SetInSession
<1>18. CASE CallbackReturns
  BY <1>4, <1>6, <1>18 DEF CallbackReturns
<1>19. ASSUME NEW t \in Task, Dispatch(TransactionTimedOut(t)) PROVE StepsTable
  BY <1>4, <1>6, <1>19 DEF Dispatch
<1>20. CASE Dispatch(RunIdle) \/ Dispatch(EmitError)
  BY <1>4, <1>6, <1>20 DEF Dispatch
<1>21. CASE UNCHANGED devVars
  BY <1>5, <1>21 DEF devVars
<1>22. QED
  BY <1>8, <1>10, <1>11, <1>12, <1>13, <1>14, <1>15, <1>16, <1>17, <1>18, <1>19, <1>20, <1>21,
     RepliedSteps, ReadSteps DEF DeviceNext

\* mbim_device_open_full, mbim_device_close, mbim_device_close_force and what
\* they read and dispatch change the transaction table only as MbimTransactions
\* allows, so they lose, repeat and mix up no request
THEOREM DeviceUsesTransactions == DeviceSpec => UsesTransactions
<1>1. DeviceInit => TxnInit /\ TxnTypeOK /\ PipeTypeOK
  BY TypeInit, PipeInit DEF DeviceInit
<1>2. TxnTypeOK /\ PipeTypeOK /\ [DeviceNext]_devVars
        => (TxnTypeOK /\ PipeTypeOK)' /\ [TxnNext]_txnVars
  BY DeviceSteps, TypeStep DEF StepsTable
<1>3. QED BY <1>1, <1>2, PTL DEF DeviceSpec, UsesTransactions, TxnSpec

\* Every request of an operation or of the application is in exactly one place,
\* and called back once, in every behaviour of the device
THEOREM DeviceExactlyOnce == DeviceSpec => []ExactlyOnce
<1>1. QED BY DeviceUsesTransactions, ExactlyOnceHolds, PTL DEF UsesTransactions

-----------------------------------------------------------------------------
(***************************************************************************)
(* What an operation waits for.                                            *)

\* The operation o waits for the task t to call it back
WaitsFor(o, t) == owner[t] = o /\ Outstanding(t)

\* ... and it should wait for one
Waits(o) == Pending(o) /\ ops[o].channel = "none"

\* A pending operation waits for one task, unless it waits for its channel
OneWait(o) ==
  /\ Waits(o) => \E t \in Task : WaitsFor(o, t)
  /\ \A t \in Task : WaitsFor(o, t) => Waits(o)
  /\ \A t, u \in Task : WaitsFor(o, t) /\ WaitsFor(o, u) => t = u
  /\ ops[o].channel # "none" => Pending(o) /\ ops[o].kind = "open" /\ ops[o].step = CREATE_IOCHANNEL

\* The task is the request of the step that the operation is at
RequestFits(o) ==
  \A t \in Task : WaitsFor(o, t) =>
    /\ ops[o].kind = "open" => /\ ops[o].step \in FLAGS_PROXY..MS_EXT_VERSION
                               /\ ctx[t].type = RequestOf(ops[o].step)
    /\ ops[o].kind = "close" => ctx[t].type = "CLOSE"

\* An operation that found the modem in an unknown state hears of it in this
\* very dispatch, before anything else happens
SureOrTold(o) ==
  Pending(o) /\ ops[o].unsure =>
    /\ running # None /\ ~handled /\ owner[running] = o
    /\ result[running] = "unknown_state" /\ ctx[running].type = "OPEN"

OperationOK(o) == OneWait(o) /\ RequestFits(o) /\ SureOrTold(o)

OpsIInv == /\ TxnIInv
           /\ DeviceTypeOK
           /\ handled => running # None
           /\ \A o \in Op : OperationOK(o)


\* device_open_context_step stops at the first step that has something to do
LEMMA StopAtFirst ==
  ASSUME NEW p, p.step \in Step
  PROVE  /\ StopAt(p) \in p.step..LAST
         /\ Stops(p, StopAt(p))
         /\ \A u \in p.step..(StopAt(p) - 1) : ~Stops(p, u)
<1> DEFINE P(s) == Stops(p, s)
           First(s) == /\ P(s)
                       /\ \A u \in p.step..(s - 1) : ~P(u)
           k == p.step
<1>1. P(7)
  BY DEF Stops, LAST
<1>2. k \in 1..7
  BY DEF Step, CREATE_IOCHANNEL, LAST
<1>3. \E s \in k..7 : First(s)
  <2> HIDE DEF P
  <2> SUFFICES ASSUME \A s \in k..7 : ~First(s) PROVE FALSE
    OBVIOUS
  <2>1. 1 \in k..7 => ~P(1)
    BY <1>2
  <2>2. 2 \in k..7 => ~P(2)
    BY <1>2, <2>1
  <2>3. 3 \in k..7 => ~P(3)
    BY <1>2, <2>1, <2>2
  <2>4. 4 \in k..7 => ~P(4)
    BY <1>2, <2>1, <2>2, <2>3
  <2>5. 5 \in k..7 => ~P(5)
    BY <1>2, <2>1, <2>2, <2>3, <2>4
  <2>6. 6 \in k..7 => ~P(6)
    BY <1>2, <2>1, <2>2, <2>3, <2>4, <2>5
  <2>7. ~P(7)
    BY <1>2, <2>1, <2>2, <2>3, <2>4, <2>5, <2>6
  <2>8. QED BY <1>1, <2>7
<1>4. StopAt(p) = CHOOSE s \in k..7 : First(s)
  BY DEF StopAt, LAST
<1>5. StopAt(p) \in k..7 /\ First(StopAt(p))
  <2> HIDE DEF First
  <2>1. QED BY <1>3, <1>4
<1>6. QED BY <1>5 DEF LAST

\* The context p taken to the step s
At(p, s) == [p EXCEPT !.step = s]

\* What device_open_context_step comes to: it returns, or it sends the request
\* of a step s; from p.step on, nothing had to be done before s
Skips(p, s) == /\ s \in p.step..LAST
               /\ \A u \in p.step..(s - 1) : ~Stops(p, u)

LEMMA ContextCases ==
  ASSUME NEW p \in Operation, NEW o, NEW id, p.step # CREATE_IOCHANNEL, ContextStep(o, p, id)
  PROVE  \/ OpenReturns(o, p, "timeout", "CLOSED", id)
         \/ Skips(p, LAST) /\ OpenReturns(o, At(p, LAST), "ok", "OPEN", id)
         \/ OpenReturns(o, At(p, MS_EXT_VERSION), "failed", open_status, id)
         \/ \E s \in FLAGS_PROXY..MS_EXT_VERSION :
               Skips(p, s) /\ Stops(p, s) /\ SendStep(o, At(p, s), id)
<1> DEFINE q == [p EXCEPT !.step = StopAt(p)]
<1>1. p.step \in Step /\ p.step \in 1..7 /\ p.step # 1
  BY DEF Operation, Step, CREATE_IOCHANNEL, LAST
<1>2. /\ StopAt(p) \in p.step..LAST
      /\ Stops(p, StopAt(p)) /\ Skips(p, StopAt(p))
  BY <1>1, StopAtFirst DEF Skips
<1>3. q = At(p, StopAt(p)) /\ q.step = StopAt(p)
  BY DEF At, Operation
<1>4. CASE OpenReturns(o, p, "timeout", "CLOSED", id)
  BY <1>4
<1>5. CASE q.step = LAST /\ OpenReturns(o, q, "ok", "OPEN", id)
  BY <1>2, <1>3, <1>5
<1>6. CASE q.step = MS_EXT_VERSION /\ OpenReturns(o, q, "failed", open_status, id)
  BY <1>3, <1>6
<1>7. CASE q.step # LAST /\ SendStep(o, q, id)
  <2>1. StopAt(p) \in FLAGS_PROXY..MS_EXT_VERSION
    BY <1>1, <1>2, <1>3, <1>7 DEF LAST, FLAGS_PROXY, MS_EXT_VERSION
  <2>2. QED BY <1>2, <1>3, <1>7, <2>1
<1>8. QED BY <1>4, <1>5, <1>6, <1>7 DEF ContextStep

LEMMA AtType ==
  ASSUME NEW p \in Operation, NEW s \in Step
  PROVE  /\ At(p, s) \in Operation
         /\ At(p, s).step = s
         /\ At(p, s).kind = p.kind /\ At(p, s).channel = p.channel
         /\ At(p, s).result = p.result /\ At(p, s).unsure = p.unsure
         /\ At(p, s).cancelled = p.cancelled
BY DEF At, Operation

LEMMA ReturnedType ==
  ASSUME NEW p \in Operation, NEW r \in {"ok", "failed", "timeout", "cancelled"}
  PROVE  /\ Returned(p, r) \in Operation
         /\ Returned(p, r).result # "pending"
         /\ Returned(p, r).result = "ok" => r = "ok"
         /\ Returned(p, r).kind = p.kind /\ Returned(p, r).step = p.step
         /\ Returned(p, r).channel = p.channel /\ Returned(p, r).unsure = p.unsure
BY DEF Returned, Operation

\* What create_iochannel makes of the operation p
Connects(p, q) ==
  \/ q = [p EXCEPT !.channel = "failed"]
  \/ q = [p EXCEPT !.channel = "made"]
  \/ q = [p EXCEPT !.channel = "connecting", !.spawn_retries = 1]

LEMMA ConnectsType ==
  ASSUME NEW p \in Operation, NEW q, Connects(p, q)
  PROVE  /\ q \in Operation /\ q.channel # "none"
         /\ q.kind = p.kind /\ q.step = p.step /\ q.result = p.result /\ q.unsure = p.unsure
<1>1. 1 \in 0..MaxSpawnRetries
  BY DeviceAssumption
<1>2. CASE q = [p EXCEPT !.channel = "failed"] \/ q = [p EXCEPT !.channel = "made"]
  BY <1>2 DEF Operation
<1>3. CASE q = [p EXCEPT !.channel = "connecting", !.spawn_retries = 1]
  BY <1>1, <1>3 DEF Operation
<1> QED BY <1>2, <1>3 DEF Connects

LEMMA UnusedType ==
  /\ Unused \in Operation
  /\ Unused.kind = "unused" /\ Unused.channel = "none" /\ Unused.result = "pending"
  /\ Unused.step = CREATE_IOCHANNEL /\ ~Unused.unsure /\ ~Unused.cancelled
<1>1. 0 \in 0..MaxSpawnRetries
  BY DeviceAssumption
<1>2. CREATE_IOCHANNEL \in Step
  BY DEF Step, CREATE_IOCHANNEL, LAST
<1>3. QED BY <1>1, <1>2 DEF Unused, Operation

(***************************************************************************)
(* Types.                                                                  *)

\* The types that PipeTypeOK and TxnTypeOK do not give
OwnTypeOK ==
  /\ open_status \in {"CLOSED", "OPENING", "OPEN"}
  /\ in_session \in BOOLEAN
  /\ ops \in [Op -> Operation]
  /\ owner \in [Task -> Op \cup {Application}]
  /\ handled \in BOOLEAN
  /\ connected \in Op \cup {0}
  /\ answered \in SUBSET Task
  /\ aborted \in BOOLEAN
  /\ modem_open \in BOOLEAN

LEMMA DeviceTypes == DeviceTypeOK <=> TxnTypeOK /\ PipeTypeOK /\ OwnTypeOK
BY DEF DeviceTypeOK, OwnTypeOK, PipeTypeOK

LEMMA DeviceTypesNext == DeviceTypeOK' <=> TxnTypeOK' /\ PipeTypeOK' /\ OwnTypeOK'
BY DEF DeviceTypeOK, OwnTypeOK, PipeTypeOK

LEMMA OpType ==
  ASSUME OwnTypeOK, NEW o \in Op
  PROVE  /\ ops[o] \in Operation
         /\ \A q \in Operation : [ops EXCEPT ![o] = q] \in [Op -> Operation]
         /\ \A q : [ops EXCEPT ![o] = q][o] = q
         /\ \A q, u : u \in Op /\ u # o => [ops EXCEPT ![o] = q][u] = ops[u]
BY DEF OwnTypeOK

LEMMA RequestTypes ==
  ASSUME OwnTypeOK, NEW o \in Op \cup {Application}, NEW type, NEW cancelled,
         Request(o, type, cancelled)
  PROVE  /\ owner' \in [Task -> Op \cup {Application}]
         /\ answered' = answered /\ aborted' = aborted
         /\ modem_open' \in BOOLEAN
<1>1. owner' \in [Task -> Op \cup {Application}]
  BY DEF Request, OwnTypeOK
<1>2. Transmit(type, transaction_id) \/ UNCHANGED modemVars
  BY DEF Request
<1>3. modem_open' \in BOOLEAN
  BY <1>2 DEF Transmit, modemVars, OwnTypeOK
<1>4. answered' = answered /\ aborted' = aborted
  BY DEF Request
<1>5. QED BY <1>1, <1>3, <1>4

\* What a callback of an operation leaves
LeftTypes(o) == /\ open_status' \in {"CLOSED", "OPENING", "OPEN"}
                  /\ ops' \in [Op -> Operation]
                  /\ owner' \in [Task -> Op \cup {Application}]
                  /\ answered' \in SUBSET Task
                  /\ aborted' \in BOOLEAN
                  /\ modem_open' \in BOOLEAN

LEMMA ReturnTypes ==
  ASSUME OwnTypeOK, NEW o \in Op, NEW p \in Operation, NEW r \in {"ok", "failed", "timeout"},
         NEW status \in {"CLOSED", "OPENING", "OPEN"}, NEW id, OpenReturns(o, p, r, status, id)
  PROVE  LeftTypes(o)
<1>1. ops' \in [Op -> Operation]
  BY ReturnedType, OpType DEF OpenReturns
<1>2. QED BY <1>1 DEF OpenReturns, LeftTypes, OwnTypeOK, modemVars

LEMMA SentType ==
  ASSUME NEW q \in Operation, NEW b \in BOOLEAN, NEW c \in BOOLEAN
  PROVE  /\ [q EXCEPT !.close_before_open = b, !.unsure = c] \in Operation
         /\ [q EXCEPT !.close_before_open = b, !.unsure = c].unsure = c
         /\ [q EXCEPT !.close_before_open = b, !.unsure = c].kind = q.kind
         /\ [q EXCEPT !.close_before_open = b, !.unsure = c].step = q.step
         /\ [q EXCEPT !.close_before_open = b, !.unsure = c].channel = q.channel
         /\ [q EXCEPT !.close_before_open = b, !.unsure = c].result = q.result
BY DEF Operation

LEMMA ContextTypes ==
  ASSUME OwnTypeOK, NEW o \in Op, NEW p \in Operation, NEW id, p.step # CREATE_IOCHANNEL,
         ContextStep(o, p, id)
  PROVE  LeftTypes(o)
<1>1. LAST \in Step /\ MS_EXT_VERSION \in Step
  BY DEF LAST, MS_EXT_VERSION, Step, CREATE_IOCHANNEL
<1>2. \A q \in Operation : \A r \in {"ok", "failed", "timeout"},
             status \in {"CLOSED", "OPENING", "OPEN"} :
        OpenReturns(o, q, r, status, id) => LeftTypes(o)
  BY ReturnTypes
<1>3. At(p, LAST) \in Operation /\ At(p, MS_EXT_VERSION) \in Operation
  BY <1>1, AtType
<1>4. open_status \in {"CLOSED", "OPENING", "OPEN"}
  BY DEF OwnTypeOK
<1>5. ASSUME NEW s \in FLAGS_PROXY..MS_EXT_VERSION, SendStep(o, At(p, s), id)
      PROVE  LeftTypes(o)
  <2>1. s \in Step
    BY DEF LAST, MS_EXT_VERSION, Step, CREATE_IOCHANNEL, FLAGS_PROXY
  <2> DEFINE q == At(p, s)
  <2>2. q \in Operation
    BY <2>1, AtType
  <2>3. q.close_before_open \in BOOLEAN /\ q.unsure \in BOOLEAN
    BY <2>2 DEF Operation
  <2> HIDE DEF q
  <2>4. ops' = [ops EXCEPT ![o] = [q EXCEPT
                  !.close_before_open = q.close_before_open /\ ~(q.step = CLOSE_MESSAGE),
                  !.unsure = q.unsure /\ ~(q.step = CLOSE_MESSAGE)]]
    BY <1>5 DEF SendStep, q
  <2>5. ops' \in [Op -> Operation]
    BY <2>2, <2>3, <2>4, OpType, SentType
  <2>6. Request(o, RequestOf(q.step), q.cancelled) /\ open_status' = open_status
    BY <1>5 DEF SendStep, q
  <2>7. QED BY <2>5, <2>6, RequestTypes DEF LeftTypes, OwnTypeOK
<1>6. QED BY <1>2, <1>3, <1>4, <1>5, ContextCases

\* The contexts that the callbacks give to device_open_context_step
LEMMA StepType ==
  ASSUME NEW p \in Operation, NEW s \in Step
  PROVE  /\ [p EXCEPT !.step = s] \in Operation
         /\ [p EXCEPT !.close_before_open = TRUE, !.step = s] \in Operation
         /\ [p EXCEPT !.channel = "none"] \in Operation
         /\ [p EXCEPT !.channel = "none", !.step = s] \in Operation
         /\ [p EXCEPT !.step = s].step = s
         /\ [p EXCEPT !.close_before_open = TRUE, !.step = s].step = s
         /\ [p EXCEPT !.channel = "none", !.step = s].step = s
BY DEF Operation

LEMMA RepliedTypes ==
  ASSUME TxnTypeOK, OwnTypeOK, NEW o \in Op, OperationReplied(o)
  PROVE  LeftTypes(o)
<1>1. /\ FLAGS_PROXY = 2 /\ CLOSE_MESSAGE = 3 /\ OPEN_MESSAGE = 4 /\ DEVICE_SERVICES = 5
      /\ MS_EXT_VERSION = 6 /\ LAST = 7 /\ CREATE_IOCHANNEL = 1 /\ Step = 1..7
  BY DEF FLAGS_PROXY, CLOSE_MESSAGE, OPEN_MESSAGE, DEVICE_SERVICES, MS_EXT_VERSION, LAST,
         CREATE_IOCHANNEL, Step
<1>2. \A p \in Operation : \A id : p.step # CREATE_IOCHANNEL /\ ContextStep(o, p, id) => LeftTypes(o)
  BY ContextTypes
<1>3. \A id : \A p \in Operation, r \in {"ok", "failed", "timeout"},
             status \in {"CLOSED", "OPENING", "OPEN"} :
        OpenReturns(o, p, r, status, id) => LeftTypes(o)
  BY ReturnTypes
<1>4. ops[o] \in Operation /\ open_status \in {"CLOSED", "OPENING", "OPEN"}
  BY OpType DEF OwnTypeOK
<1>12. \A s \in 2..7 : LET q == [ops[o] EXCEPT !.step = s]
                     IN \A id : ContextStep(o, q, id) => LeftTypes(o)
  <2> TAKE s \in 2..7
  <2>1. [ops[o] EXCEPT !.step = s] \in Operation /\ [ops[o] EXCEPT !.step = s].step = s
    <3>1. s \in Step
      BY <1>1
    <3>2. QED BY <1>4, <3>1, StepType
  <2>2. s # CREATE_IOCHANNEL
    BY <1>1
  <2>3. QED BY <1>2, <2>1, <2>2
<1>5. CASE ProxyCfgMessageReady(o)
  BY <1>1, <1>3, <1>4, <1>5, <1>12 DEF ProxyCfgMessageReady
<1>6. CASE CloseMessageBeforeOpenReady(o)
  BY <1>1, <1>6, <1>12 DEF CloseMessageBeforeOpenReady
<1>7. CASE OpenMessageReady(o)
  <2> DEFINE q == [ops[o] EXCEPT !.close_before_open = TRUE, !.step = CLOSE_MESSAGE]
  <2>1. q \in Operation /\ q.step # CREATE_IOCHANNEL
    <3>1. CLOSE_MESSAGE \in Step /\ CLOSE_MESSAGE # CREATE_IOCHANNEL
      BY <1>1
    <3>2. QED BY <1>4, <3>1, StepType
  <2>2. \A id : ContextStep(o, q, id) => LeftTypes(o)
    BY <1>2, <2>1
  <2>3. ops[o].step # CREATE_IOCHANNEL
    BY <1>1, <1>7 DEF OpenMessageReady
  <2>4. \A id : ContextStep(o, ops[o], id) => LeftTypes(o)
    BY <1>2, <1>4, <2>3
  <2>5. QED BY <1>1, <1>3, <1>4, <1>7, <1>12, <2>2, <2>4 DEF OpenMessageReady
<1>8. CASE DeviceServicesMessageReady(o)
  BY <1>1, <1>3, <1>4, <1>8, <1>12 DEF DeviceServicesMessageReady
<1>9. CASE MsExtVersionMessageReady(o)
  BY <1>1, <1>3, <1>4, <1>9, <1>12 DEF MsExtVersionMessageReady
<1>10. CASE CloseMessageReady(o)
  <2>0. PICK r \in {"ok", "failed"} : ops' = [ops EXCEPT ![o] = Returned(ops[o], r)]
    BY <1>10 DEF CloseMessageReady, DestroyResults
  <2>1. ops' \in [Op -> Operation]
    BY <1>4, <2>0, ReturnedType, OpType
  <2>2. QED BY <1>10, <2>1 DEF CloseMessageReady, CloseNow, LeftTypes, OwnTypeOK, modemVars
<1>11. QED BY <1>5, <1>6, <1>7, <1>8, <1>9, <1>10 DEF OperationReplied

LEMMA OwnTypesStep ==
  ASSUME TxnIInv, DeviceTypeOK, DeviceNext \/ UNCHANGED devVars
  PROVE  OwnTypeOK'
<1> USE DEF opVars, statusVars, modemVars
<1>0. TxnTypeOK /\ PipeTypeOK /\ OwnTypeOK
  BY DeviceTypes
<1>01. UNCHANGED ownVars => OwnTypeOK'
  BY <1>0 DEF ownVars, OwnTypeOK
<1>02. CloseNow => open_status' = "CLOSED"
  BY DEF CloseNow
<1>1. ASSUME NEW o \in Op, NEW flags \in OpenFlags, OpenFull(o, flags) PROVE OwnTypeOK'
  <2> DEFINE p == [Unused EXCEPT !.kind = "open", !.flags = flags]
  <2>1. flags \in [proxy : BOOLEAN, mbimex : {"none", "v2", "both"}]
    BY DeviceAssumption
  <2>2. p \in Operation
    BY <2>1, UnusedType DEF Operation
  <2>3. PICK q : /\ ops' = [ops EXCEPT ![o] = q]
                 /\ q = Returned(p, "failed") \/ Connects(p, q)
    BY <1>1 DEF OpenFull, Connects
  <2> HIDE DEF p
  <2>4. q \in Operation
    BY <2>2, <2>3, ReturnedType, ConnectsType
  <2>5. ops' \in [Op -> Operation]
    BY <1>0, <2>3, <2>4, OpType
  <2>6. QED BY <1>0, <1>1, <2>5 DEF OpenFull, OwnTypeOK
<1>2. ASSUME NEW o \in Op, Close(o) PROVE OwnTypeOK'
  <2> DEFINE p == [Unused EXCEPT !.kind = "close"]
  <2>1. p \in Operation
    BY UnusedType DEF Operation
  <2>2. Returned(p, "failed") \in Operation /\ Returned(p, "ok") \in Operation
    BY <2>1, ReturnedType
  <2>8. PICK q \in {Returned(p, "failed"), Returned(p, "ok"), p} : ops' = [ops EXCEPT ![o] = q]
    BY <1>2 DEF Close, DestroyResults
  <2> HIDE DEF p
  <2>3. ops' \in [Op -> Operation]
    BY <1>0, <2>1, <2>2, <2>8, OpType
  <2>4. open_status' \in {open_status, "CLOSED"} /\ UNCHANGED <<handled, connected, in_session>>
    BY <1>2, <1>02 DEF Close
  <2>5. CASE UNCHANGED <<owner, modemVars, answered, aborted>>
    BY <1>0, <2>3, <2>4, <2>5 DEF OwnTypeOK
  <2>6. CASE Request(o, "CLOSE", FALSE)
    BY <1>0, <2>3, <2>4, <2>6, RequestTypes DEF OwnTypeOK
  <2>7. QED BY <1>2, <2>5, <2>6 DEF Close
<1>3. ASSUME NEW o \in Op, CancelOperation(o) PROVE OwnTypeOK'
  <2>1. ops' = [ops EXCEPT ![o] = [ops[o] EXCEPT !.cancelled = TRUE]]
    BY <1>3 DEF CancelOperation
  <2>2. [ops[o] EXCEPT !.cancelled = TRUE] \in Operation
    <3>1. ops[o] \in Operation
      BY <1>0, OpType
    <3>2. QED BY <3>1 DEF Operation
  <2>3. ops' \in [Op -> Operation]
    BY <1>0, <2>1, <2>2, OpType
  <2>4. QED BY <1>0, <1>3, <2>3 DEF CancelOperation, OwnTypeOK
<1>4. ASSUME NEW o \in Op, CreateIochannelReady(o) PROVE OwnTypeOK'
  <2>1. ops[o] \in Operation /\ 2 \in Step /\ FLAGS_PROXY = 2 /\ CREATE_IOCHANNEL = 1
    BY <1>0, OpType DEF Step, FLAGS_PROXY, CREATE_IOCHANNEL, LAST
  <2>2. /\ [ops[o] EXCEPT !.channel = "none"] \in Operation
        /\ [ops[o] EXCEPT !.channel = "none", !.step = 2] \in Operation
        /\ [ops[o] EXCEPT !.channel = "none", !.step = 2].step = 2
    BY <2>1 DEF Operation
  <2>3. LeftTypes(o)
    <3>1. CASE OpenReturns(o, [ops[o] EXCEPT !.channel = "none"], "failed", "CLOSED", open_transaction_id)
      BY <1>0, <2>2, <3>1, ReturnTypes
    <3>2. CASE ContextStep(o, [ops[o] EXCEPT !.channel = "none", !.step = 2], open_transaction_id)
      <4>1. [ops[o] EXCEPT !.channel = "none", !.step = 2].step # CREATE_IOCHANNEL
        BY <2>1, <2>2
      <4>2. QED BY <1>0, <2>2, <3>2, <4>1, ContextTypes
    <3>3. QED BY <1>4, <2>1, <3>1, <3>2 DEF CreateIochannelReady
  <2>4. connected' = 0 /\ UNCHANGED <<in_session, handled>>
    BY <1>4 DEF CreateIochannelReady
  <2>5. QED BY <1>0, <2>3, <2>4 DEF LeftTypes, OwnTypeOK
<1>5. ASSUME NEW o \in Op, WaitForProxy(o) PROVE OwnTypeOK'
  <2>1. ops[o] \in Operation
    BY <1>0, OpType
  <2>2. [ops[o] EXCEPT !.channel = "failed"] \in Operation /\ [ops[o] EXCEPT !.channel = "made"] \in Operation
    BY <2>1 DEF Operation
  <2>3. ops[o].spawn_retries < MaxSpawnRetries
          => [ops[o] EXCEPT !.spawn_retries = ops[o].spawn_retries + 1] \in Operation
    BY <2>1, DeviceAssumption DEF Operation
  <2>4. \/ ops' = [ops EXCEPT ![o] = [ops[o] EXCEPT !.channel = "failed"]]
        \/ ops' = [ops EXCEPT ![o] = [ops[o] EXCEPT !.channel = "made"]]
        \/ /\ ops[o].spawn_retries < MaxSpawnRetries
           /\ ops' = [ops EXCEPT ![o] = [ops[o] EXCEPT !.spawn_retries = ops[o].spawn_retries + 1]]
    BY <1>5 DEF WaitForProxy
  <2>5. ops' \in [Op -> Operation]
    BY <1>0, <2>2, <2>3, <2>4, OpType
  <2>6. connected' \in Op \cup {0}
    BY <1>0, <1>5 DEF WaitForProxy, OwnTypeOK
  <2>7. QED BY <1>0, <1>5, <2>5, <2>6 DEF WaitForProxy, OwnTypeOK
<1>6. ASSUME NEW o \in Op, OperationReplied(o) PROVE OwnTypeOK'
  <2>1. LeftTypes(o)
    BY <1>0, <1>6, RepliedTypes
  <2>2. handled' = TRUE /\ UNCHANGED <<connected, in_session>>
    BY <1>6 DEF OperationReplied
  <2>3. QED BY <1>0, <2>1, <2>2 DEF LeftTypes, OwnTypeOK
<1>7. CASE ForceClose \/ Hangup
  BY <1>0, <1>02, <1>7 DEF ForceClose, Hangup, OwnTypeOK
<1>8. CASE AppCommand
  <2>1. PICK cancelled \in BOOLEAN : Request(Application, "COMMAND", cancelled)
    BY <1>8 DEF AppCommand
  <2>2. UNCHANGED <<ops, handled, connected, statusVars>>
    BY <1>8 DEF AppCommand
  <2>3. QED BY <1>0, <2>1, <2>2, RequestTypes DEF OwnTypeOK
<1>9. CASE SetInSession
  BY <1>0, <1>9, DeviceAssumption DEF SetInSession, OwnTypeOK
<1>10. CASE ReadMessage
  <2> DEFINE m == Head(rx)
  <2>1. UNCHANGED <<modem_open, handled, connected, owner, open_status, in_session>>
    BY <1>10 DEF ReadMessage, ReceiveAnswer, Unmatched
  <2>2. CASE ReceiveAnswer(m)
    <3>1. rx \in Seq(Answer) /\ rx # <<>>
      BY <1>0, <1>10 DEF ReadMessage, PipeTypeOK
    <3>6. m \in Answer
      BY <3>1
    <3>2. m.id \in Tid /\ transactions[HOST][m.id] # None
      <4>1. Matches(m) /\ m.id \in Tid \cup {0}
        BY <2>2, <3>6 DEF ReceiveAnswer, Answer
      <4>2. QED BY <4>1 DEF Matches
    <3>3. transactions[HOST][m.id] \in Task
      BY <1>0, <3>2, FoundType DEF TransactionType
    <3>4. answered' \in SUBSET Task
      BY <1>0, <2>2, <3>3 DEF ReceiveAnswer, OwnTypeOK
    <3>5. QED BY <1>0, <2>1, <2>2, <3>4 DEF ReceiveAnswer, OwnTypeOK
  <2>3. CASE Unmatched(m)
    <3>1. answered' = answered /\ aborted' \in BOOLEAN
      BY <1>0, <2>3 DEF Unmatched, OwnTypeOK
    <3>2. CASE ops' = ops
      BY <1>0, <2>1, <3>1, <3>2 DEF OwnTypeOK
    <3> DEFINE t == transactions[HOST][open_transaction_id]
    <3>3. CASE /\ open_transaction_id # 0 /\ FinalizePendingOpen(open_transaction_id)
               /\ ops' = IF owner[t] = Application THEN ops ELSE [ops EXCEPT ![owner[t]].unsure = TRUE]
      <4>1. open_transaction_id \in Tid /\ t # None
        BY <1>0, <3>3 DEF PipeTypeOK, FinalizePendingOpen
      <4>2. t \in Task
        BY <1>0, <4>1, FoundType DEF TransactionType
      <4>3. owner[t] \in Op \cup {Application}
        BY <1>0, <4>2 DEF OwnTypeOK
      <4> HIDE DEF t
      <4>4. ASSUME NEW o \in Op PROVE [ops EXCEPT ![o].unsure = TRUE] \in [Op -> Operation]
        <5>1. [ops EXCEPT ![o].unsure = TRUE] = [ops EXCEPT ![o] = [ops[o] EXCEPT !.unsure = TRUE]]
          OBVIOUS
        <5>2. [ops[o] EXCEPT !.unsure = TRUE] \in Operation
          <6>1. ops[o] \in Operation
            BY <1>0, OpType
          <6>2. QED BY <6>1 DEF Operation
        <5>3. QED BY <1>0, <5>1, <5>2, OpType
      <4>5. ops' \in [Op -> Operation]
        BY <1>0, <3>3, <4>3, <4>4 DEF OwnTypeOK
      <4>6. QED BY <1>0, <2>1, <3>1, <4>5 DEF OwnTypeOK
    <3>4. QED BY <2>3, <3>2, <3>3 DEF Unmatched
  <2>4. QED BY <1>10, <2>2, <2>3 DEF ReadMessage
<1>11. CASE CallbackReturns
  BY <1>0, <1>11 DEF CallbackReturns, OwnTypeOK
<1>12. CASE UNCHANGED ownVars
  BY <1>01, <1>12
<1>13. UNCHANGED devVars => UNCHANGED ownVars
  BY DEF devVars
<1>14. CancelCommand \/ Dispatch(RunIdle) \/ Dispatch(EmitError)
         \/ (\E t \in Task : Dispatch(TransactionTimedOut(t))) => UNCHANGED ownVars
  BY DEF CancelCommand, Dispatch
<1>15. QED
  BY <1>1, <1>2, <1>3, <1>4, <1>5, <1>6, <1>7, <1>8, <1>9, <1>10, <1>11, <1>12, <1>13, <1>14
     DEF DeviceNext

LEMMA DeviceTypesStep ==
  ASSUME TxnIInv, DeviceTypeOK, DeviceNext \/ UNCHANGED devVars
  PROVE  TxnIInv' /\ DeviceTypeOK'
<1>1. StepsTable
  BY DeviceTypes, DeviceSteps
<1>2. TxnIInv'
  BY <1>1, TxnIInvStep DEF StepsTable
<1>3. TxnTypeOK'
  BY <1>2 DEF TxnIInv
<1>4. QED BY <1>1, <1>2, <1>3, OwnTypesStep, DeviceTypesNext DEF StepsTable

(***************************************************************************)
(* What operations wait for, step by step.                                 *)

\* A step that makes no task, and ends no callback
SameTasks == UNCHANGED <<taskVars, called, transaction_id>> /\ (running' = running \/ running = None)

LEMMA SameTasksBy ==
  ASSUME \/ UNCHANGED txnVars \/ OpenChannel \/ CloseForce \/ CloseNow \/ RunIdle \/ EmitError
         \/ \E t : TransactionCancelled(t)
         \/ \E t : TransactionTimedOut(t)
         \/ \E id : ReceiveFunctionError(id) \/ FinalizePendingOpen(id)
         \/ \E type, id : ReceiveDone(type, id)
         \/ \E kind, type, id, current, of : ReceiveFragment(kind, type, id, current, of)
  PROVE  SameTasks
<1> USE DEF SameTasks, taskVars, collectorVars, tableVars, returnVars, deviceVars, Reading, Quiet,
            CompleteNow, CompleteLater
<1>1. CASE UNCHANGED txnVars
  BY <1>1 DEF txnVars
<1>2. CASE OpenChannel
  BY <1>2 DEF OpenChannel
<1>3. CASE CloseForce
  BY <1>3 DEF CloseForce
<1>4. CASE CloseNow
  BY <1>4 DEF CloseNow, CloseForce, txnVars
<1>5. CASE RunIdle
  BY <1>5 DEF RunIdle
<1>6. CASE EmitError
  BY <1>6 DEF EmitError
<1>7. CASE \E t : TransactionCancelled(t)
  BY <1>7 DEF TransactionCancelled
<1>8. CASE \E t : TransactionTimedOut(t)
  BY <1>8 DEF TransactionTimedOut
<1>9. CASE \E id : ReceiveFunctionError(id) \/ FinalizePendingOpen(id)
  BY <1>9 DEF ReceiveFunctionError, FinalizePendingOpen
<1>10. CASE \E type, id : ReceiveDone(type, id)
  BY <1>10 DEF ReceiveDone
<1>11. CASE \E kind, type, id, current, of : ReceiveFragment(kind, type, id, current, of)
  BY <1>11 DEF ReceiveFragment
<1>12. QED BY <1>1, <1>2, <1>3, <1>4, <1>5, <1>6, <1>7, <1>8, <1>9, <1>10, <1>11

LEMMA SameWaits ==
  ASSUME handled => running # None, SameTasks, UNCHANGED <<owner, handled>>
  PROVE  \A o, t : t # None => (WaitsFor(o, t)' <=> WaitsFor(o, t))
BY DEF SameTasks, taskVars, WaitsFor, Outstanding, Created

\* The same operation, but for what does not matter here
SameOp(o) == /\ ops'[o].kind = ops[o].kind /\ ops'[o].step = ops[o].step
             /\ ops'[o].channel = "none" <=> ops[o].channel = "none"
             /\ ops'[o].result = ops[o].result
             /\ ops'[o].unsure = ops[o].unsure

Told(o) == Pending(o) /\ ops[o].unsure

LEMMA SameOK ==
  ASSUME NEW o \in Op, OperationOK(o), SameOp(o), ~Told(o), UNCHANGED ctx,
         \A t \in Task : WaitsFor(o, t)' <=> WaitsFor(o, t)
  PROVE  OperationOK(o)'
<1>1. (Pending(o)' <=> Pending(o)) /\ (Waits(o)' <=> Waits(o))
  BY DEF SameOp, Pending, Waits
<1>2. OneWait(o)'
  BY <1>1 DEF OperationOK, OneWait, SameOp
<1>3. RequestFits(o)'
  BY DEF OperationOK, RequestFits, SameOp
<1>4. SureOrTold(o)'
  BY <1>1 DEF SureOrTold, Told, SameOp
<1>5. QED BY <1>2, <1>3, <1>4 DEF OperationOK

\* Only the callback of an operation runs while that operation is unsure
LEMMA NoneTold ==
  ASSUME OpsIInv, AppTurn \/ running = None \/ handled \/ owner[running] = Application
  PROVE  \A o \in Op : ~Told(o)
<1>1. \A o \in Op : o # Application
  BY DEF Op, Application
<1>2. ASSUME NEW o \in Op, Told(o) PROVE FALSE
  <2>1. running # None /\ ~handled /\ owner[running] = o
    BY <1>2 DEF OpsIInv, OperationOK, SureOrTold, Told
  <2>2. QED BY <1>1, <2>1 DEF AppTurn, Quiet
<1>3. QED BY <1>2

\* A step that leaves the tasks alone and the operations nearly so
LEMMA StillOps ==
  ASSUME OpsIInv, SameTasks, UNCHANGED <<owner, handled>>,
         \A o \in Op : SameOp(o) /\ ~Told(o)
  PROVE  /\ \A o \in Op : OperationOK(o)'
         /\ (handled => running # None)'
<1>1. handled => running # None
  BY DEF OpsIInv
<1>2. \A t \in Task : t # None
  BY DEF Task, None
<1>3. \A o \in Op : \A t \in Task : WaitsFor(o, t)' <=> WaitsFor(o, t)
  BY <1>1, <1>2, SameWaits
<1>4. UNCHANGED ctx
  BY DEF SameTasks, taskVars
<1>5. \A o \in Op : OperationOK(o)'
  BY <1>3, <1>4, SameOK DEF OpsIInv
<1>6. (handled => running # None)'
  BY <1>1 DEF SameTasks
<1>7. QED BY <1>5, <1>6

\* What mbim_device_command does to the tasks
LEMMA RequestTasks ==
  ASSUME OpsIInv, NEW o, NEW type \in RequestType, NEW cancelled, Request(o, type, cancelled)
  PROVE  /\ ntasks + 1 \in Task /\ ntasks + 1 \notin Created
         /\ Created' = Created \cup {ntasks + 1} /\ ntasks' = ntasks + 1 /\ ntasks < MaxTasks
         /\ transaction_id' = NextTransactionId
         /\ called' = called /\ running' = running
         /\ called[ntasks + 1] = 0 /\ running # ntasks + 1
         /\ ctx'[ntasks + 1].type = type /\ ctx'[ntasks + 1].kind = HOST
         /\ ctx'[ntasks + 1].transaction_id = transaction_id
         /\ \A t \in Task \ {ntasks + 1} : ctx'[t] = ctx[t]
         /\ owner'[ntasks + 1] = o
         /\ \A t \in Task \ {ntasks + 1} : owner'[t] = owner[t]
<1>1. TxnIInv /\ TxnTypeOK /\ OwnTypeOK
  BY DeviceTypes DEF OpsIInv, TxnIInv
<1>2. CommandOf(type, transaction_id)
  BY DEF Request, Command
<1>3. /\ NewTask(HOST, type, transaction_id) /\ transaction_id' = NextTransactionId
      /\ called' = called /\ running' = running
  BY <1>2 DEF CommandOf, CompleteLater, returnVars
<1>4. ntasks \in Nat /\ MaxTasks \in Nat /\ ntasks < MaxTasks
  BY <1>1, <1>3, BoundsAssumption DEF TxnTypeOK, NewTask
<1>5. /\ ntasks + 1 \in Task /\ ntasks + 1 \notin Created
      /\ Created' = Created \cup {ntasks + 1} /\ ntasks' = ntasks + 1
  BY <1>3, <1>4 DEF Task, Created, NewTask
<1>6. called[ntasks + 1] = 0 /\ result[ntasks + 1] = "pending"
  BY <1>1, <1>5 DEF TxnIInv, Uncreated
<1>7. running # ntasks + 1
  BY <1>1, <1>5, <1>6 DEF TxnIInv, ExactlyOnce, CalledBackOnce
<1>8. /\ ctx'[ntasks + 1].type = type /\ ctx'[ntasks + 1].kind = HOST
      /\ ctx'[ntasks + 1].transaction_id = transaction_id
      /\ \A t \in Task \ {ntasks + 1} : ctx'[t] = ctx[t]
  BY <1>1, <1>3, <1>5 DEF NewTask, TxnTypeOK
<1>9. /\ owner'[ntasks + 1] = o
      /\ \A t \in Task \ {ntasks + 1} : owner'[t] = owner[t]
  BY <1>1, <1>5 DEF Request, OwnTypeOK
<1>10. QED BY <1>3, <1>4, <1>5, <1>6, <1>7, <1>8, <1>9

\* ... and who waits after it: the caller for the new task, and no longer for
\* the one whose callback it is in
LEMMA RequestWaits ==
  ASSUME OpsIInv, NEW o, NEW type \in RequestType, NEW cancelled, Request(o, type, cancelled),
         handled => handled'
  PROVE  \A u \in Op, t \in Task :
           WaitsFor(u, t)' <=> \/ WaitsFor(u, t) /\ ~(t = running /\ handled')
                               \/ t = ntasks + 1 /\ u = o
<1> TAKE u \in Op, t \in Task
<1>1. CASE t = ntasks + 1
  BY <1>1, RequestTasks DEF WaitsFor, Outstanding
<1>2. CASE t # ntasks + 1
  <2>1. (t \in Created)' <=> t \in Created
    BY <1>2, RequestTasks
  <2>2. called' = called /\ running' = running /\ owner'[t] = owner[t]
    BY <1>2, RequestTasks
  <2>3. QED BY <1>2, <2>1, <2>2 DEF WaitsFor, Outstanding
<1>3. QED BY <1>1, <1>2

\* The operation o is being driven: whatever it waited for has come, and
\* nothing else is disturbed
Driven(o) ==
  /\ handled => handled'
  /\ running' = running /\ (handled' => running # None)
  /\ \A t \in Task : WaitsFor(o, t) => t = running /\ handled'
  /\ \A u \in Op \ {o} : ~Told(u)
  /\ \A u \in Op \ {o} : \A t \in Task : WaitsFor(u, t) => ~(t = running /\ handled')

LEMMA ReturnWaits ==
  ASSUME OpsIInv, UNCHANGED <<ntasks, called, owner>>, running' = running, handled => handled'
  PROVE  \A u \in Op, t \in Task :
           WaitsFor(u, t)' <=> WaitsFor(u, t) /\ ~(t = running /\ handled')
BY DEF WaitsFor, Outstanding, Created

\* The operation o ends
LEMMA EndOK ==
  ASSUME OpsIInv, NEW o \in Op, Driven(o), SameTasks, UNCHANGED owner,
         NEW q \in Operation, q.result # "pending", q.channel = "none",
         ops' = [ops EXCEPT ![o] = q]
  PROVE  /\ \A u \in Op : OperationOK(u)'
         /\ (handled => running # None)'
<1>1. OwnTypeOK
  BY DeviceTypes DEF OpsIInv
<1>2. UNCHANGED <<ntasks, ctx, called, owner>> /\ running' = running /\ (handled => handled')
  BY DEF SameTasks, taskVars, Driven
<1>3. \A u \in Op, t \in Task : WaitsFor(u, t)' <=> WaitsFor(u, t) /\ ~(t = running /\ handled')
  BY <1>2, ReturnWaits
<1>4. ops'[o] = q
  BY <1>1, OpType
<1>5. OperationOK(o)'
  <2>1. ~Pending(o)' /\ ~Waits(o)' /\ ops'[o].channel = "none"
    BY <1>4 DEF Pending, Waits
  <2>2. \A t \in Task : ~WaitsFor(o, t)'
    BY <1>3 DEF Driven
  <2>3. QED BY <2>1, <2>2 DEF OperationOK, OneWait, RequestFits, SureOrTold
<1>6. ASSUME NEW u \in Op, u # o PROVE OperationOK(u)'
  <2>1. ops'[u] = ops[u]
    BY <1>1, <1>6, OpType
  <2>2. \A t \in Task : WaitsFor(u, t)' <=> WaitsFor(u, t)
    BY <1>3, <1>6 DEF Driven
  <2>3. QED BY <1>2, <1>6, <2>1, <2>2, SameOK DEF OpsIInv, Driven, SameOp
<1>7. (handled => running # None)'
  BY DEF Driven
<1>8. QED BY <1>5, <1>6, <1>7

\* The operation o sends a request
LEMMA SendOK ==
  ASSUME OpsIInv, NEW o \in Op, Driven(o), NEW type \in RequestType, NEW cancelled,
         Request(o, type, cancelled),
         NEW q \in Operation, q.kind # "unused", q.result = "pending", q.channel = "none", ~q.unsure,
         q.kind = "open" => q.step \in FLAGS_PROXY..MS_EXT_VERSION /\ type = RequestOf(q.step),
         q.kind = "close" => type = "CLOSE",
         ops' = [ops EXCEPT ![o] = q]
  PROVE  /\ \A u \in Op : OperationOK(u)'
         /\ (handled => running # None)'
<1> DEFINE new == ntasks + 1
<1>1. OwnTypeOK
  BY DeviceTypes DEF OpsIInv
<1>2. \A u \in Op, t \in Task :
        WaitsFor(u, t)' <=> \/ WaitsFor(u, t) /\ ~(t = running /\ handled')
                            \/ t = new /\ u = o
  <2>1. handled => handled'
    BY DEF Driven
  <2>2. QED BY <2>1, RequestWaits
<1>3. /\ new \in Task /\ ctx'[new].type = type
      /\ \A t \in Task \ {new} : ctx'[t] = ctx[t]
      /\ \A u \in Op : ~WaitsFor(u, new)
  BY RequestTasks DEF WaitsFor, Outstanding
<1> HIDE DEF new
<1>4. ops'[o] = q
  BY <1>1, OpType
<1>5. OperationOK(o)'
  <2>1. Pending(o)' /\ Waits(o)' /\ ops'[o].channel = "none"
    BY <1>4 DEF Pending, Waits
  <2>2. \A t \in Task : WaitsFor(o, t)' <=> t = new
    BY <1>2, <1>3 DEF Driven
  <2>3. OneWait(o)'
    BY <1>3, <2>1, <2>2 DEF OneWait
  <2>4. RequestFits(o)'
    BY <1>3, <1>4, <2>2 DEF RequestFits
  <2>5. SureOrTold(o)'
    BY <1>4 DEF SureOrTold
  <2>6. QED BY <2>3, <2>4, <2>5 DEF OperationOK
<1>6. ASSUME NEW u \in Op, u # o PROVE OperationOK(u)'
  <2>1. ops'[u] = ops[u] /\ OperationOK(u) /\ ~Told(u)
    BY <1>1, <1>6, OpType DEF Driven, OpsIInv
  <2>2. \A t \in Task : WaitsFor(u, t)' <=> WaitsFor(u, t)
    <3>1. \A t \in Task : WaitsFor(u, t) => ~(t = running /\ handled')
      BY <1>6 DEF Driven
    <3>2. \A t \in Task : WaitsFor(u, t)' <=> WaitsFor(u, t) /\ ~(t = running /\ handled')
      BY <1>2, <1>6
    <3>3. QED BY <3>1, <3>2
  <2>3. (Pending(u)' <=> Pending(u)) /\ (Waits(u)' <=> Waits(u))
    BY <2>1 DEF Pending, Waits
  <2>4. OneWait(u)'
    BY <2>1, <2>2, <2>3 DEF OperationOK, OneWait
  <2>5. \A t \in Task : WaitsFor(u, t) => ctx'[t] = ctx[t]
    BY <1>3, <1>6
  <2>6. RequestFits(u)'
    BY <2>1, <2>2, <2>5 DEF OperationOK, RequestFits
  <2>7. SureOrTold(u)'
    BY <2>1, <2>3 DEF SureOrTold, Told
  <2>8. QED BY <2>4, <2>6, <2>7 DEF OperationOK
<1>7. (handled => running # None)'
  BY DEF Driven
<1>8. QED BY <1>5, <1>6, <1>7

LEMMA OpenReturnsOK ==
  ASSUME OpsIInv, NEW o \in Op, Driven(o), NEW p \in Operation, p.channel = "none",
         NEW r \in {"ok", "failed", "timeout"}, NEW status, NEW id, OpenReturns(o, p, r, status, id)
  PROVE  /\ \A u \in Op : OperationOK(u)'
         /\ (handled => running # None)'
<1>1. /\ Returned(p, r) \in Operation /\ Returned(p, r).result # "pending"
      /\ Returned(p, r).channel = "none"
  BY ReturnedType
<1>2. ops' = [ops EXCEPT ![o] = Returned(p, r)] /\ UNCHANGED <<txnVars, owner>>
  BY DEF OpenReturns
<1>3. SameTasks
  BY <1>2, SameTasksBy
<1>4. QED BY <1>1, <1>2, <1>3, EndOK

\* device_open_context_step
LEMMA ContextOK ==
  ASSUME OpsIInv, NEW o \in Op, Driven(o), NEW p \in Operation, NEW id,
         p.step # CREATE_IOCHANNEL, p.kind = "open", p.channel = "none", p.result = "pending",
         p.unsure => p.step = CLOSE_MESSAGE /\ p.close_before_open,
         ContextStep(o, p, id)
  PROVE  /\ \A u \in Op : OperationOK(u)'
         /\ (handled => running # None)'
<1> DEFINE Goal == (\A u \in Op : OperationOK(u)') /\ (handled => running # None)'
<1>0. /\ FLAGS_PROXY = 2 /\ CLOSE_MESSAGE = 3 /\ OPEN_MESSAGE = 4 /\ DEVICE_SERVICES = 5
      /\ MS_EXT_VERSION = 6 /\ LAST = 7 /\ Step = 1..7 /\ CREATE_IOCHANNEL = 1
  BY DEF FLAGS_PROXY, CLOSE_MESSAGE, OPEN_MESSAGE, DEVICE_SERVICES, MS_EXT_VERSION, LAST,
         CREATE_IOCHANNEL, Step
<1>1. \A s \in Step : At(p, s) \in Operation /\ At(p, s).channel = "none"
  BY AtType
<1>2. \A q \in Operation, r \in {"ok", "failed", "timeout"} : \A status :
         q.channel = "none" /\ OpenReturns(o, q, r, status, id) => Goal
  BY OpenReturnsOK
<1>3. ASSUME NEW s \in FLAGS_PROXY..MS_EXT_VERSION, Skips(p, s), SendStep(o, At(p, s), id)
      PROVE  Goal
  <2> DEFINE q == At(p, s)
             closing == q.step = CLOSE_MESSAGE
             b == q.close_before_open /\ ~closing
             c == q.unsure /\ ~closing
             n == [q EXCEPT !.close_before_open = b, !.unsure = c]
  <2>1. s \in Step
    BY <1>0
  <2>2. /\ q \in Operation /\ q.step = s /\ q.kind = "open" /\ q.channel = "none"
        /\ q.result = "pending" /\ q.unsure = p.unsure
    BY <2>1, AtType
  <2>3. q.close_before_open \in BOOLEAN /\ q.unsure \in BOOLEAN
    BY <2>2 DEF Operation
  <2> HIDE DEF q
  <2>5. ops' = [ops EXCEPT ![o] = n] /\ Request(o, RequestOf(s), q.cancelled)
    BY <1>3, <2>2 DEF SendStep, q
  <2>10. b \in BOOLEAN /\ c \in BOOLEAN /\ (c => p.unsure /\ s # CLOSE_MESSAGE)
    BY <2>2, <2>3
  <2> HIDE DEF b, c
  <2>4. /\ n \in Operation /\ n.unsure = c
        /\ n.kind = "open" /\ n.step = s /\ n.channel = "none" /\ n.result = "pending"
    BY <2>2, <2>10 DEF Operation
  <2>6. p.unsure => s = CLOSE_MESSAGE
    <3>1. p.unsure => Stops(p, CLOSE_MESSAGE)
      BY DEF Stops
    <3>2. s \in p.step..LAST /\ \A u \in p.step..(s - 1) : ~Stops(p, u)
      BY <1>3 DEF Skips
    <3>3. ASSUME p.unsure PROVE s = CLOSE_MESSAGE
      <4>1. p.step = 3 /\ Stops(p, 3)
        BY <1>0, <3>1, <3>3
      <4>2. s \in 3..7 /\ \A u \in 3..(s - 1) : ~Stops(p, u)
        BY <1>0, <3>2, <4>1
      <4>3. QED BY <1>0, <4>1, <4>2
    <3>4. QED BY <3>3
  <2>7. ~n.unsure
    BY <2>4, <2>6, <2>10
  <2> HIDE DEF n
  <2>8. RequestOf(s) \in RequestType
    BY RequestOfType
  <2>9. QED BY <2>4, <2>5, <2>7, <2>8, SendOK
<1>4. LAST \in Step /\ MS_EXT_VERSION \in Step
  BY <1>0
<1>5. CASE OpenReturns(o, p, "timeout", "CLOSED", id)
  BY <1>2, <1>5
<1>6. CASE OpenReturns(o, At(p, LAST), "ok", "OPEN", id)
  BY <1>1, <1>2, <1>4, <1>6
<1>7. CASE OpenReturns(o, At(p, MS_EXT_VERSION), "failed", open_status, id)
  BY <1>1, <1>2, <1>4, <1>7
<1>8. QED BY <1>3, <1>5, <1>6, <1>7, ContextCases

LEMMA ContextRunning ==
  ASSUME OpsIInv, NEW o, NEW p \in Operation, NEW id, p.step # CREATE_IOCHANNEL,
         ContextStep(o, p, id)
  PROVE  running' = running
<1>1. \A q, r, status : OpenReturns(o, q, r, status, id) => running' = running
  BY DEF OpenReturns, txnVars, returnVars
<1>2. \A q : SendStep(o, q, id) => running' = running
  BY RequestTasks, RequestOfType DEF SendStep
<1>3. QED BY <1>1, <1>2, ContextCases

\* What the callback of an operation finds
LEMMA RepliedFacts ==
  ASSUME OpsIInv, NEW o \in Op, OperationReplied(o)
  PROVE  /\ running \in Created /\ running \in Task /\ owner[running] = o
         /\ ~handled /\ handled' = TRUE
         /\ WaitsFor(o, running) /\ Waits(o)
         /\ ops[o] \in Operation /\ ops[o].channel = "none" /\ ops[o].result = "pending"
         /\ ops[o].kind = "open" => /\ ops[o].step \in FLAGS_PROXY..MS_EXT_VERSION
                                    /\ ctx[running].type = RequestOf(ops[o].step)
         /\ ops[o].kind = "close" => ctx[running].type = "CLOSE"
         /\ ops[o].unsure => result[running] = "unknown_state" /\ ctx[running].type = "OPEN"
         /\ running' = running => Driven(o)
<1>1. /\ running # None /\ owner[running] = o /\ o # Application /\ ~handled /\ handled' = TRUE
  BY DEF OperationReplied, Replied
<1>2. TxnIInv /\ TxnTypeOK /\ OwnTypeOK
  BY DeviceTypes DEF OpsIInv, TxnIInv
<1>3. running \in Task
  BY <1>1, <1>2 DEF TxnTypeOK
<1>4. called[running] = 0 /\ result[running] # "pending"
  BY <1>2, <1>3 DEF TxnIInv, ExactlyOnce, CalledBackOnce
<1>5. running \in Created
  BY <1>2, <1>3, <1>4 DEF TxnIInv, Uncreated
<1>6. WaitsFor(o, running)
  BY <1>1, <1>4, <1>5 DEF WaitsFor, Outstanding
<1>7. OperationOK(o)
  BY DEF OpsIInv
<1>8. Waits(o) /\ \A t \in Task : WaitsFor(o, t) => t = running
  BY <1>3, <1>6, <1>7 DEF OperationOK, OneWait
<1>9. ops[o] \in Operation /\ ops[o].channel = "none" /\ ops[o].result = "pending"
  BY <1>2, <1>8, OpType DEF Waits, Pending
<1>10. /\ ops[o].kind = "open" => /\ ops[o].step \in FLAGS_PROXY..MS_EXT_VERSION
                                  /\ ctx[running].type = RequestOf(ops[o].step)
       /\ ops[o].kind = "close" => ctx[running].type = "CLOSE"
  BY <1>3, <1>6, <1>7 DEF OperationOK, RequestFits
<1>11. ops[o].unsure => result[running] = "unknown_state" /\ ctx[running].type = "OPEN"
  BY <1>7, <1>8 DEF OperationOK, SureOrTold, Waits
<1>12. ASSUME NEW u \in Op, u # o PROVE ~Told(u) /\ \A t \in Task : WaitsFor(u, t) => t # running
  BY <1>1, <1>12 DEF Told, OpsIInv, OperationOK, SureOrTold, WaitsFor
<1>13. running' = running => Driven(o)
  BY <1>1, <1>8, <1>12 DEF Driven
<1>14. QED BY <1>1, <1>3, <1>5, <1>6, <1>8, <1>9, <1>10, <1>11, <1>13

LEMMA RepliedOK ==
  ASSUME OpsIInv, NEW o \in Op, OperationReplied(o)
  PROVE  /\ \A u \in Op : OperationOK(u)'
         /\ (handled => running # None)'
<1> DEFINE Goal == (\A u \in Op : OperationOK(u)') /\ (handled => running # None)'
           p == ops[o]
<1> SUFFICES Goal
  OBVIOUS
<1>0. /\ FLAGS_PROXY = 2 /\ CLOSE_MESSAGE = 3 /\ OPEN_MESSAGE = 4 /\ DEVICE_SERVICES = 5
      /\ MS_EXT_VERSION = 6 /\ LAST = 7 /\ Step = 1..7 /\ CREATE_IOCHANNEL = 1
  BY DEF FLAGS_PROXY, CLOSE_MESSAGE, OPEN_MESSAGE, DEVICE_SERVICES, MS_EXT_VERSION, LAST,
         CREATE_IOCHANNEL, Step
<1>1. /\ p \in Operation /\ p.channel = "none" /\ p.result = "pending"
      /\ p.unsure => result[running] = "unknown_state" /\ ctx[running].type = "OPEN"
      /\ running' = running => Driven(o)
      /\ p.kind = "open" => ctx[running].type = RequestOf(p.step)
      /\ p.kind = "close" => ctx[running].type = "CLOSE"
  BY RepliedFacts
<1>2. \A q \in Operation : \A id :
        /\ q.step # CREATE_IOCHANNEL /\ q.kind = "open" /\ q.channel = "none" /\ q.result = "pending"
        /\ q.unsure => q.step = CLOSE_MESSAGE /\ q.close_before_open
        /\ ContextStep(o, q, id)
        => Goal
  BY <1>1, ContextRunning, ContextOK
<1>3. \A q \in Operation, r \in {"ok", "failed", "timeout"} : \A status, id :
         q.channel = "none" /\ OpenReturns(o, q, r, status, id) => Goal
  <2>1. \A q, r, status, id : OpenReturns(o, q, r, status, id) => running' = running
    BY DEF OpenReturns, txnVars, returnVars
  <2>2. QED BY <1>1, <2>1, OpenReturnsOK
<1>4. \A s \in 2..7 : \A id : p.kind = "open" /\ ~p.unsure /\ ContextStep(o, [p EXCEPT !.step = s], id) => Goal
  <2> TAKE s \in 2..7
  <2> DEFINE q == [p EXCEPT !.step = s]
  <2>1. s \in Step
    BY <1>0
  <2>2. /\ q \in Operation /\ q.step = s /\ q.channel = "none" /\ q.result = "pending"
        /\ q.kind = p.kind /\ q.unsure = p.unsure
    BY <1>1, <2>1 DEF Operation
  <2>3. s # CREATE_IOCHANNEL
    BY <1>0
  <2> HIDE DEF q
  <2>4. QED BY <1>2, <2>2, <2>3 DEF q
<1>5. p.unsure => /\ p.kind = "open" => p.step = OPEN_MESSAGE
                  /\ ~HasResponse /\ ~Succeeded /\ result[running] # "timeout"
  <2>1. p.unsure => ~HasResponse /\ ~Succeeded /\ result[running] # "timeout"
    BY <1>1 DEF HasResponse, Succeeded, Successes
  <2>2. ASSUME p.unsure, p.kind = "open" PROVE p.step = OPEN_MESSAGE
    BY <1>1, <2>2 DEF RequestOf
  <2>3. QED BY <2>1, <2>2
<1> HIDE DEF Goal
<1>6. CASE ProxyCfgMessageReady(o)
  BY <1>0, <1>1, <1>3, <1>4, <1>5, <1>6 DEF ProxyCfgMessageReady
<1>7. CASE CloseMessageBeforeOpenReady(o)
  BY <1>0, <1>4, <1>5, <1>7 DEF CloseMessageBeforeOpenReady
<1>8. CASE OpenMessageReady(o)
  <2> DEFINE q == [p EXCEPT !.close_before_open = TRUE, !.step = CLOSE_MESSAGE]
  <2>1. CLOSE_MESSAGE \in Step
    BY <1>0
  <2>2. /\ q \in Operation /\ q.step = CLOSE_MESSAGE /\ q.channel = "none" /\ q.result = "pending"
        /\ q.kind = p.kind /\ q.close_before_open = TRUE
    BY <1>1, <2>1 DEF Operation
  <2> HIDE DEF q
  <2>3. p.kind = "open" /\ p.step = OPEN_MESSAGE
    BY <1>8 DEF OpenMessageReady
  <2>4. \A id : ContextStep(o, q, id) => Goal
    BY <1>0, <1>2, <2>2, <2>3
  <2>5. \A id : ~p.unsure /\ ContextStep(o, p, id) => Goal
    BY <1>0, <1>1, <1>2, <2>3
  <2>6. CASE ContextStep(o, q, 0)
    BY <2>4, <2>6
  <2>7. CASE result[running] = "timeout" /\ ContextStep(o, p, 0)
    BY <1>5, <2>5, <2>7
  <2>8. CASE Succeeded /\ ContextStep(o, [p EXCEPT !.step = DEVICE_SERVICES], 0)
    BY <1>0, <1>4, <1>5, <2>3, <2>8
  <2>9. CASE OpenReturns(o, p, "failed", "CLOSED", 0)
    BY <1>1, <1>3, <2>9
  <2>10. QED BY <1>8, <2>6, <2>7, <2>8, <2>9 DEF OpenMessageReady, q
<1>9. CASE DeviceServicesMessageReady(o)
  BY <1>0, <1>1, <1>3, <1>4, <1>5, <1>9 DEF DeviceServicesMessageReady
<1>10. CASE MsExtVersionMessageReady(o)
  BY <1>0, <1>1, <1>3, <1>4, <1>5, <1>10 DEF MsExtVersionMessageReady
<1>11. CASE CloseMessageReady(o)
  <2>1. /\ CloseNow /\ owner' = owner
        /\ \E r \in {"ok", "failed"} : ops' = [ops EXCEPT ![o] = Returned(p, r)]
    BY <1>11 DEF CloseMessageReady, DestroyResults
  <2>2. running' = running
    BY <2>1 DEF CloseNow, CloseForce, returnVars, txnVars
  <2>3. SameTasks
    BY <2>1, SameTasksBy
  <2>4. PICK r \in {"ok", "failed"} : ops' = [ops EXCEPT ![o] = Returned(p, r)]
    BY <2>1
  <2>5. Returned(p, r) \in Operation /\ Returned(p, r).result # "pending" /\ Returned(p, r).channel = "none"
    BY <1>1, ReturnedType
  <2>6. QED BY <1>1, <2>1, <2>2, <2>3, <2>4, <2>5, EndOK DEF Goal
<1>12. QED BY <1>6, <1>7, <1>8, <1>9, <1>10, <1>11 DEF OperationReplied

\* An operation that waits for no task is driven by whoever touches it
LEMMA IdleDriven ==
  ASSUME OpsIInv, NEW o \in Op, ~Waits(o), handled' = handled, running' = running,
         \A u \in Op : ~Told(u)
  PROVE  Driven(o)
<1>1. \A t \in Task : ~WaitsFor(o, t)
  BY DEF OpsIInv, OperationOK, OneWait
<1>2. \A u \in Op, t \in Task : WaitsFor(u, t) => ~(t = running /\ handled')
  BY DEF WaitsFor, Outstanding
<1>3. QED BY <1>1, <1>2 DEF Driven, OpsIInv

LEMMA CloseNowTasks ==
  ASSUME CloseNow PROVE SameTasks /\ running' = running
BY SameTasksBy DEF CloseNow, CloseForce, returnVars, txnVars

LEMMA CreateIochannelReadyOK ==
  ASSUME OpsIInv, NEW o \in Op, CreateIochannelReady(o)
  PROVE  /\ \A u \in Op : OperationOK(u)'
         /\ (handled => running # None)'
<1> DEFINE id == open_transaction_id
           q == [ops[o] EXCEPT !.channel = "none"]
           n == [ops[o] EXCEPT !.channel = "none", !.step = FLAGS_PROXY]
<1>1. running = None /\ handled' = handled /\ Pending(o)
  BY DEF CreateIochannelReady, Quiet
<1>2. OpenReturns(o, q, "failed", "CLOSED", id) \/ ContextStep(o, n, id)
  BY DEF CreateIochannelReady
<1>3. ops[o].channel # "none"
  BY DEF CreateIochannelReady
<1>4. \A u \in Op : ~Told(u)
  BY <1>1, NoneTold
<1>5. ~Waits(o) /\ ops[o].kind = "open" /\ ops[o].result = "pending" /\ ~ops[o].unsure
  BY <1>1, <1>3, <1>4 DEF Waits, OpsIInv, OperationOK, OneWait, Told, Pending
<1>6. ops[o] \in Operation
  BY DeviceTypes, OpType DEF OpsIInv
<1>7. FLAGS_PROXY \in Step /\ FLAGS_PROXY # CREATE_IOCHANNEL
  BY DEF FLAGS_PROXY, CREATE_IOCHANNEL, Step, LAST
<1>8. /\ q \in Operation /\ q.channel = "none"
      /\ n \in Operation /\ n.channel = "none" /\ n.step = FLAGS_PROXY
      /\ n.kind = ops[o].kind /\ n.result = ops[o].result /\ n.unsure = ops[o].unsure
  BY <1>6, <1>7 DEF Operation
<1> HIDE DEF q, n
<1>9. running' = running => Driven(o)
  BY <1>1, <1>4, <1>5, IdleDriven
<1>10. CASE OpenReturns(o, q, "failed", "CLOSED", id)
  <2>1. running' = running
    BY <1>10 DEF OpenReturns, txnVars, returnVars
  <2>2. QED BY <1>8, <1>9, <1>10, <2>1, OpenReturnsOK
<1>11. CASE ContextStep(o, n, id)
  <2>1. running' = running
    BY <1>7, <1>8, <1>11, ContextRunning
  <2>2. QED BY <1>5, <1>7, <1>8, <1>9, <1>11, <2>1, ContextOK
<1>12. QED BY <1>2, <1>10, <1>11

LEMMA WaitForProxyOK ==
  ASSUME OpsIInv, NEW o \in Op, WaitForProxy(o)
  PROVE  /\ \A u \in Op : OperationOK(u)'
         /\ (handled => running # None)'
         /\ \A u \in Op : SameOp(u)
<1>1. /\ running = None /\ ops[o].channel = "connecting" /\ UNCHANGED <<owner, handled>>
      /\ UNCHANGED txnVars \/ OpenChannel
  BY DEF WaitForProxy, Quiet
<1>2. SameTasks /\ \A u \in Op : ~Told(u)
  BY <1>1, NoneTold, SameTasksBy
<1>3. OwnTypeOK /\ ops[o] \in Operation
  BY DeviceTypes, OpType DEF OpsIInv
<1>4. \/ ops' = [ops EXCEPT ![o] = [ops[o] EXCEPT !.channel = "failed"]]
      \/ ops' = [ops EXCEPT ![o] = [ops[o] EXCEPT !.channel = "made"]]
      \/ ops' = [ops EXCEPT ![o] = [ops[o] EXCEPT !.spawn_retries = ops[o].spawn_retries + 1]]
  BY DEF WaitForProxy
<1>5. \A u \in Op \ {o} : ops'[u] = ops[u]
  BY <1>3, <1>4, OpType
<1>6. SameOp(o)
  <2>1. \A c \in {"failed", "made"} : ops' = [ops EXCEPT ![o] = [ops[o] EXCEPT !.channel = c]] => SameOp(o)
    BY <1>1, <1>3 DEF SameOp, OwnTypeOK, Operation
  <2>2. \A k : ops' = [ops EXCEPT ![o] = [ops[o] EXCEPT !.spawn_retries = k]] => SameOp(o)
    BY <1>1, <1>3 DEF SameOp, OwnTypeOK, Operation
  <2>3. QED BY <1>4, <2>1, <2>2
<1>7. \A u \in Op : SameOp(u)
  BY <1>5, <1>6 DEF SameOp
<1>8. QED BY <1>1, <1>2, <1>7, StillOps

\* A new operation that starts with its channel
LEMMA ConnectOK ==
  ASSUME OpsIInv, NEW o \in Op, ~Pending(o), SameTasks, UNCHANGED <<owner, handled>>,
         \A u \in Op : ~Told(u),
         NEW q \in Operation, q.channel # "none", q.kind = "open", q.result = "pending", ~q.unsure,
         q.step = CREATE_IOCHANNEL,
         ops' = [ops EXCEPT ![o] = q]
  PROVE  /\ \A u \in Op : OperationOK(u)'
         /\ (handled => running # None)'
<1>1. OwnTypeOK /\ (handled => running # None)
  BY DeviceTypes DEF OpsIInv
<1>2. \A t \in Task : t # None
  BY DEF Task, None
<1>3. \A u \in Op : \A t \in Task : WaitsFor(u, t)' <=> WaitsFor(u, t)
  BY <1>1, <1>2, SameWaits
<1>4. ops'[o] = q
  BY <1>1, OpType
<1>5. OperationOK(o)'
  <2>1. ~Waits(o) /\ \A t \in Task : ~WaitsFor(o, t)
    BY DEF Waits, OpsIInv, OperationOK, OneWait
  <2>2. Pending(o)' /\ ~Waits(o)'
    BY <1>4 DEF Pending, Waits
  <2>3. OneWait(o)'
    BY <1>3, <1>4, <2>1, <2>2 DEF OneWait
  <2>4. RequestFits(o)' /\ SureOrTold(o)'
    BY <1>3, <1>4, <2>1 DEF RequestFits, SureOrTold
  <2>5. QED BY <2>3, <2>4 DEF OperationOK
<1>6. ASSUME NEW u \in Op, u # o PROVE OperationOK(u)'
  <2>1. ops'[u] = ops[u]
    BY <1>1, <1>6, OpType
  <2>2. UNCHANGED ctx /\ SameOp(u)
    BY <2>1 DEF SameTasks, taskVars, SameOp
  <2>3. QED BY <1>3, <2>2, SameOK DEF OpsIInv
<1>7. (handled => running # None)'
  BY <1>1 DEF SameTasks
<1>8. QED BY <1>5, <1>6, <1>7

LEMMA OpenFullOK ==
  ASSUME OpsIInv, NEW o \in Op, NEW flags \in OpenFlags, OpenFull(o, flags)
  PROVE  /\ \A u \in Op : OperationOK(u)'
         /\ (handled => running # None)'
<1> DEFINE p == [Unused EXCEPT !.kind = "open", !.flags = flags]
<1>1. /\ AppTurn /\ UNCHANGED <<owner, handled>> /\ ops[o].kind = "unused"
      /\ UNCHANGED txnVars \/ OpenChannel
  BY DEF OpenFull, NewOp
<1>2. /\ SameTasks /\ running' = running
      /\ \A u \in Op : ~Told(u)
      /\ ~Pending(o) /\ ~Waits(o)
  BY <1>1, NoneTold, SameTasksBy DEF Pending, Waits, txnVars, returnVars, OpenChannel
<1>3. flags \in [proxy : BOOLEAN, mbimex : {"none", "v2", "both"}]
  BY DeviceAssumption
<1>4. /\ p \in Operation /\ p.channel = "none" /\ p.kind = "open" /\ p.result = "pending"
      /\ ~p.unsure /\ p.step = CREATE_IOCHANNEL
  BY <1>3, UnusedType DEF Operation
<1>6. PICK q : /\ ops' = [ops EXCEPT ![o] = q]
               /\ q = Returned(p, "failed") \/ Connects(p, q)
  BY DEF OpenFull, Connects
<1> HIDE DEF p
<1>7. CASE ops' = [ops EXCEPT ![o] = Returned(p, "failed")]
  <2>1. /\ Returned(p, "failed") \in Operation /\ Returned(p, "failed").result # "pending"
        /\ Returned(p, "failed").channel = "none"
    BY <1>4, ReturnedType
  <2>2. QED BY <1>1, <1>2, <1>7, <2>1, IdleDriven, EndOK
<1>8. CASE Connects(p, q)
  <2>1. /\ q \in Operation /\ q.channel # "none" /\ q.kind = "open" /\ q.result = "pending"
        /\ ~q.unsure /\ q.step = CREATE_IOCHANNEL
    BY <1>4, <1>8, ConnectsType
  <2> QED BY <1>1, <1>2, <1>6, <2>1, ConnectOK
<1>9. QED BY <1>6, <1>7, <1>8

LEMMA CloseOK ==
  ASSUME OpsIInv, NEW o \in Op, Close(o)
  PROVE  /\ \A u \in Op : OperationOK(u)'
         /\ (handled => running # None)'
<1> DEFINE p == [Unused EXCEPT !.kind = "close"]
<1>1. AppTurn /\ UNCHANGED handled /\ ops[o].kind = "unused"
  BY DEF Close, NewOp
<1>2. (\A u \in Op : ~Told(u)) /\ ~Waits(o)
  BY <1>1, NoneTold DEF Pending, Waits
<1>3. running' = running => Driven(o)
  BY <1>1, <1>2, IdleDriven
<1>4. /\ p \in Operation /\ p.channel = "none" /\ p.kind = "close" /\ p.result = "pending" /\ ~p.unsure
  BY UnusedType DEF Operation
<1>5. \/ /\ \E r \in {"ok", "failed"} : ops' = [ops EXCEPT ![o] = Returned(p, r)]
         /\ UNCHANGED txnVars \/ CloseNow
         /\ UNCHANGED owner
      \/ ops' = [ops EXCEPT ![o] = p] /\ Request(o, "CLOSE", FALSE)
  BY DEF Close, DestroyResults
<1> HIDE DEF p
<1>6. ASSUME NEW r \in {"ok", "failed"}, ops' = [ops EXCEPT ![o] = Returned(p, r)],
             UNCHANGED txnVars \/ CloseNow, UNCHANGED owner
      PROVE  /\ \A u \in Op : OperationOK(u)'
             /\ (handled => running # None)'
  <2>1. /\ Returned(p, r) \in Operation /\ Returned(p, r).result # "pending"
        /\ Returned(p, r).channel = "none"
    BY <1>4, ReturnedType
  <2>2. SameTasks /\ running' = running
    BY <1>6, SameTasksBy, CloseNowTasks DEF txnVars, returnVars
  <2>3. QED BY <1>3, <1>6, <2>1, <2>2, EndOK
<1>7. CASE ops' = [ops EXCEPT ![o] = p] /\ Request(o, "CLOSE", FALSE)
  <2>1. "CLOSE" \in RequestType
    BY DEF RequestType
  <2>2. running' = running
    BY <1>7, <2>1, RequestTasks
  <2>3. QED BY <1>3, <1>4, <1>7, <2>1, <2>2, SendOK
<1>8. QED BY <1>5, <1>6, <1>7

LEMMA AppCommandOK ==
  ASSUME OpsIInv, AppCommand
  PROVE  /\ \A u \in Op : OperationOK(u)'
         /\ (handled => running # None)'
<1> DEFINE new == ntasks + 1
<1>1. AppTurn /\ UNCHANGED <<ops, handled>>
  BY DEF AppCommand
<1>2. PICK cancelled \in BOOLEAN : Request(Application, "COMMAND", cancelled)
  BY DEF AppCommand
<1>3. "COMMAND" \in RequestType
  BY DEF RequestType
<1>4. \A u \in Op : u # Application /\ ~Told(u)
  BY <1>1, NoneTold DEF Op, Application
<1>5. handled => handled'
  BY <1>1
<1>6. \A u \in Op, t \in Task :
        WaitsFor(u, t)' <=> \/ WaitsFor(u, t) /\ ~(t = running /\ handled')
                            \/ t = new /\ u = Application
  BY <1>2, <1>3, <1>5, RequestWaits
<1>7. \A u \in Op, t \in Task : WaitsFor(u, t) => ~(t = running /\ handled')
  BY <1>1 DEF WaitsFor, Outstanding
<1>8. \A u \in Op, t \in Task : WaitsFor(u, t)' <=> WaitsFor(u, t)
  BY <1>4, <1>6, <1>7
<1>9. /\ \A t \in Task \ {new} : ctx'[t] = ctx[t]
      /\ \A u \in Op : ~WaitsFor(u, new)
      /\ running' = running
  BY <1>2, <1>3, RequestTasks DEF WaitsFor, Outstanding
<1> HIDE DEF new
<1>10. ASSUME NEW u \in Op PROVE OperationOK(u)'
  <2>1. OperationOK(u) /\ (Pending(u)' <=> Pending(u)) /\ (Waits(u)' <=> Waits(u))
    BY <1>1 DEF OpsIInv, Pending, Waits
  <2>2. OneWait(u)'
    BY <1>1, <1>8, <2>1 DEF OperationOK, OneWait
  <2>3. \A t \in Task : WaitsFor(u, t) => ctx'[t] = ctx[t]
    BY <1>9
  <2>4. RequestFits(u)'
    BY <1>1, <1>8, <2>1, <2>3 DEF OperationOK, RequestFits
  <2>5. SureOrTold(u)'
    BY <1>1, <1>4, <2>1 DEF SureOrTold, Told
  <2>6. QED BY <2>2, <2>4, <2>5 DEF OperationOK
<1>11. (handled => running # None)'
  BY <1>1, <1>9 DEF OpsIInv
<1>12. QED BY <1>10, <1>11

LEMMA CallbackReturnsOK ==
  ASSUME OpsIInv, CallbackReturns
  PROVE  /\ \A u \in Op : OperationOK(u)'
         /\ (handled => running # None)'
         /\ \A u \in Op, t \in Task : WaitsFor(u, t)' <=> WaitsFor(u, t)
<1>1. /\ running # None /\ (owner[running] = Application \/ handled)
      /\ handled' = FALSE /\ running' = None
      /\ called' = [called EXCEPT ![running] = @ + 1]
      /\ UNCHANGED <<ntasks, ctx, ops, owner>>
  BY DEF CallbackReturns, RunCallback, taskVars
<1>2. TxnTypeOK
  BY DEF OpsIInv, TxnIInv
<1>3. \A u \in Op : u # Application /\ ~Told(u)
  BY <1>1, NoneTold DEF Op, Application
<1>4. /\ running \in Task /\ called \in [Task -> Nat]
      /\ \A t \in Task : t # None
  BY <1>1, <1>2 DEF TxnTypeOK, Task, None
<1>5. \A u \in Op, t \in Task : WaitsFor(u, t)' <=> WaitsFor(u, t)
  <2> TAKE u \in Op, t \in Task
  <2>1. CASE t = running
    <3>1. called'[t] = called[t] + 1 /\ called[t] \in Nat
      BY <1>1, <1>4, <2>1
    <3>2. ~WaitsFor(u, t)'
      BY <3>1 DEF WaitsFor, Outstanding
    <3>3. ~WaitsFor(u, t)
      BY <1>1, <1>3, <2>1 DEF WaitsFor, Outstanding
    <3>4. QED BY <3>2, <3>3
  <2>2. CASE t # running
    BY <1>1, <1>4, <2>2 DEF WaitsFor, Outstanding, Created
  <2>3. QED BY <2>1, <2>2
<1>6. \A u \in Op : SameOp(u)
  BY <1>1 DEF SameOp
<1>7. \A u \in Op : OperationOK(u)'
  BY <1>1, <1>3, <1>5, <1>6, SameOK DEF OpsIInv
<1>8. QED BY <1>1, <1>5, <1>7

LEMMA CancelOperationOK ==
  ASSUME OpsIInv, NEW o \in Op, CancelOperation(o)
  PROVE  /\ \A u \in Op : OperationOK(u)'
         /\ (handled => running # None)'
         /\ \A u \in Op : SameOp(u)
<1>1. /\ AppTurn /\ UNCHANGED <<owner, handled>>
      /\ ops' = [ops EXCEPT ![o] = [ops[o] EXCEPT !.cancelled = TRUE]]
      /\ UNCHANGED txnVars \/ \E t : TransactionCancelled(t)
  BY DEF CancelOperation
<1>2. SameTasks /\ \A u \in Op : ~Told(u)
  BY <1>1, NoneTold, SameTasksBy
<1>3. OwnTypeOK /\ ops[o] \in Operation
  BY DeviceTypes, OpType DEF OpsIInv
<1>4. \A u \in Op : SameOp(u)
  BY <1>1, <1>3 DEF SameOp, OwnTypeOK, Operation
<1>5. QED BY <1>1, <1>2, <1>4, StillOps

LEMMA FinalizedFacts ==
  ASSUME TxnTypeOK, NEW id \in Tid, FinalizePendingOpen(id)
  PROVE  LET t == transactions[HOST][id]
         IN /\ t \in Task /\ ctx[t].type = "OPEN"
            /\ running = None /\ running' = t
            /\ result'[t] = "unknown_state"
            /\ UNCHANGED <<ntasks, ctx, called>>
<1> DEFINE t == transactions[HOST][id]
<1>1. t # None /\ HOST \in TransactionType
  BY DEF FinalizePendingOpen, TransactionType
<1>2. t \in Task
  BY <1>1, FoundType
<1>3. QED BY <1>2 DEF FinalizePendingOpen, CompleteNow, Reading, Quiet, taskVars, TxnTypeOK

LEMMA ReadMessageOK ==
  ASSUME OpsIInv, ReadMessage
  PROVE  /\ \A u \in Op : OperationOK(u)'
         /\ (handled => running # None)'
<1> DEFINE m == Head(rx)
           t == transactions[HOST][open_transaction_id]
<1>1. running = None /\ UNCHANGED <<owner, handled>>
  BY DEF ReadMessage, Reading, Quiet, ReceiveAnswer, Unmatched, opVars
<1>2. \A u \in Op : ~Told(u)
  BY <1>1, NoneTold
<1>3. OwnTypeOK /\ PipeTypeOK /\ TxnTypeOK
  BY DeviceTypes DEF OpsIInv
<1>4. CASE ops' = ops /\ SameTasks
  <2>1. \A u \in Op : SameOp(u)
    BY <1>4 DEF SameOp
  <2>2. QED BY <1>1, <1>2, <1>4, <2>1, StillOps
<1>5. ReceiveAnswer(m) => ops' = ops /\ SameTasks
  BY SameTasksBy DEF ReceiveAnswer, opVars
<1>6. ASSUME open_transaction_id # 0, FinalizePendingOpen(open_transaction_id),
             ops' = IF owner[t] = Application THEN ops ELSE [ops EXCEPT ![owner[t]].unsure = TRUE]
      PROVE  /\ \A u \in Op : OperationOK(u)'
             /\ (handled => running # None)'
  <2>1. open_transaction_id \in Tid
    BY <1>3, <1>6 DEF PipeTypeOK
  <2>2. /\ t \in Task /\ ctx[t].type = "OPEN" /\ running' = t /\ result'[t] = "unknown_state"
        /\ UNCHANGED <<ntasks, ctx, called>>
    BY <1>3, <1>6, <2>1, FinalizedFacts
  <2>3. SameTasks /\ ~handled
    BY <1>1, <1>6, SameTasksBy DEF OpsIInv
  <2>4. \A u \in Op : \A k \in Task : WaitsFor(u, k)' <=> WaitsFor(u, k)
    <3>1. \A k \in Task : k # None
      BY DEF Task, None
    <3>2. QED BY <1>1, <2>3, <3>1, SameWaits
  <2> HIDE DEF t
  <2>5. ASSUME NEW u \in Op, u # owner[t] PROVE OperationOK(u)'
    <3>1. ops'[u] = ops[u]
      BY <1>3, <1>6, <2>5 DEF OwnTypeOK
    <3>2. SameOp(u)
      BY <3>1 DEF SameOp
    <3>3. QED BY <1>2, <2>2, <2>4, <3>2, SameOK DEF OpsIInv
  <2>6. ASSUME NEW u \in Op, u = owner[t] PROVE OperationOK(u)'
    <3>1. u # Application
      BY DEF Op, Application
    <3>2. ops[u] \in Operation /\ ops' = [ops EXCEPT ![u] = [ops[u] EXCEPT !.unsure = TRUE]]
      BY <1>3, <1>6, <2>6, <3>1, OpType
    <3>3. /\ ops'[u].kind = ops[u].kind /\ ops'[u].step = ops[u].step
          /\ ops'[u].channel = ops[u].channel /\ ops'[u].result = ops[u].result
      BY <1>3, <3>2 DEF OwnTypeOK, Operation
    <3>4. OperationOK(u) /\ (Pending(u)' <=> Pending(u)) /\ (Waits(u)' <=> Waits(u))
      BY <3>3 DEF OpsIInv, Pending, Waits
    <3>5. OneWait(u)'
      BY <2>4, <3>3, <3>4 DEF OperationOK, OneWait
    <3>6. RequestFits(u)'
      BY <2>2, <2>4, <3>3, <3>4 DEF OperationOK, RequestFits
    <3>7. SureOrTold(u)'
      BY <1>1, <2>2, <2>3, <2>6 DEF SureOrTold, Task, None
    <3>8. QED BY <3>5, <3>6, <3>7 DEF OperationOK
  <2>7. (handled => running # None)'
    BY <1>1, <2>3
  <2>8. QED BY <2>5, <2>6, <2>7
<1>7. Unmatched(m) => \/ ops' = ops /\ SameTasks
                      \/ /\ open_transaction_id # 0 /\ FinalizePendingOpen(open_transaction_id)
                         /\ ops' = IF owner[t] = Application THEN ops
                                   ELSE [ops EXCEPT ![owner[t]].unsure = TRUE]
  BY SameTasksBy DEF Unmatched
<1>8. QED BY <1>4, <1>5, <1>6, <1>7 DEF ReadMessage

LEMMA OpsIInvStep == OpsIInv /\ [DeviceNext]_devVars => OpsIInv'
<1> SUFFICES ASSUME OpsIInv, [DeviceNext]_devVars PROVE OpsIInv'
  OBVIOUS
<1> DEFINE Goal == (\A u \in Op : OperationOK(u)') /\ (handled => running # None)'
<1>1. TxnIInv' /\ DeviceTypeOK'
  BY DeviceTypesStep DEF OpsIInv
<1>2. Goal => OpsIInv'
  BY <1>1 DEF OpsIInv
<1> SUFFICES Goal
  BY <1>2
<1>3. ASSUME SameTasks, UNCHANGED <<ops, owner, handled>>, AppTurn \/ running = None PROVE Goal
  <2>1. \A o \in Op : SameOp(o) /\ ~Told(o)
    BY <1>3, NoneTold DEF SameOp
  <2>2. QED BY <1>3, <2>1, StillOps
<1>4. CASE ForceClose \/ Hangup
  <2>1. SameTasks /\ UNCHANGED <<ops, owner, handled>>
    BY <1>4, SameTasksBy DEF ForceClose, Hangup, opVars
  <2>2. AppTurn \/ running = None
    BY <1>4 DEF ForceClose, Hangup, Reading, Quiet
  <2>3. QED BY <1>3, <2>1, <2>2
<1>5. CASE CancelCommand
  <2>1. PICK t : TransactionCancelled(t)
    BY <1>5 DEF CancelCommand
  <2>2. SameTasks /\ UNCHANGED <<ops, owner, handled>> /\ AppTurn
    BY <1>5, <2>1, SameTasksBy DEF CancelCommand, ownVars, opVars
  <2>3. QED BY <1>3, <2>2
<1>6. CASE SetInSession
  BY <1>3, <1>6, SameTasksBy DEF SetInSession, opVars
<1>7. CASE \/ \E t \in Task : Dispatch(TransactionTimedOut(t))
           \/ Dispatch(RunIdle) \/ Dispatch(EmitError)
  <2>1. SameTasks /\ running = None
    BY <1>7, SameTasksBy DEF Dispatch, TransactionTimedOut, RunIdle, EmitError, Quiet
  <2>2. UNCHANGED <<ops, owner, handled>>
    BY <1>7 DEF Dispatch, ownVars, opVars
  <2>3. QED BY <1>3, <2>1, <2>2
<1>8. CASE UNCHANGED devVars
  <2>1. /\ UNCHANGED <<ntasks, ctx, called, running, result, ops, owner, handled>>
    BY <1>8 DEF devVars, txnVars, taskVars, returnVars, ownVars, opVars
  <2>2. \A o, t : WaitsFor(o, t)' <=> WaitsFor(o, t)
    BY <2>1 DEF WaitsFor, Outstanding, Created
  <2>3. \A o \in Op : OneWait(o)' /\ RequestFits(o)' /\ SureOrTold(o)'
    BY <2>1, <2>2 DEF OpsIInv, OperationOK, OneWait, RequestFits, SureOrTold, Waits, Pending
  <2>4. QED BY <2>1, <2>3 DEF OpsIInv, OperationOK
<1> HIDE DEF Goal
<1>9. (\E o \in Op : \/ \E flags \in OpenFlags : OpenFull(o, flags)
                     \/ Close(o) \/ CancelOperation(o) \/ CreateIochannelReady(o)
                     \/ WaitForProxy(o) \/ OperationReplied(o)) => Goal
  BY OpenFullOK, CloseOK, CancelOperationOK, CreateIochannelReadyOK, WaitForProxyOK, RepliedOK
     DEF Goal
<1>10. AppCommand \/ ReadMessage \/ CallbackReturns => Goal
  BY AppCommandOK, ReadMessageOK, CallbackReturnsOK DEF Goal
<1>11. QED BY <1>4, <1>5, <1>6, <1>7, <1>8, <1>9, <1>10 DEF DeviceNext

LEMMA OpsIInvInit == DeviceInit => OpsIInv
<1> SUFFICES ASSUME DeviceInit PROVE OpsIInv
  OBVIOUS
<1>1. TxnIInv /\ TxnTypeOK /\ PipeTypeOK
  BY TxnIInvInit, TypeInit, PipeInit DEF DeviceInit
<1>2. OwnTypeOK
  <2>1. ops \in [Op -> Operation] /\ in_session \in BOOLEAN
    BY UnusedType, DeviceAssumption DEF DeviceInit
  <2>2. QED BY <2>1 DEF DeviceInit, OwnTypeOK
<1>3. \A o \in Op : /\ ops[o].kind = "unused" /\ ops[o].channel = "none"
                    /\ \A t \in Task : ~WaitsFor(o, t)
  BY UnusedType DEF DeviceInit, WaitsFor, Application, Op
<1>4. \A o \in Op : OperationOK(o)
  BY <1>3 DEF OperationOK, OneWait, RequestFits, SureOrTold, Waits, Pending
<1>5. ~handled
  BY DEF DeviceInit
<1>6. QED BY <1>1, <1>2, <1>4, <1>5, DeviceTypes DEF OpsIInv

\* The open and close operations keep the invariant: each waits for one thing
THEOREM OpsIInvHolds == DeviceSpec => []OpsIInv
BY OpsIInvInit, OpsIInvStep, PTL DEF DeviceSpec

\* Types of the device, for any number of operations, commands and retries
THEOREM DeviceTypeOKHolds == DeviceSpec => []DeviceTypeOK
<1>1. OpsIInv => DeviceTypeOK
  BY DEF OpsIInv
<1>2. QED BY <1>1, OpsIInvHolds, PTL

LEMMA OneWaitCounts ==
  ASSUME OpsIInv, NEW o \in Op
  PROVE  Cardinality({t \in Task : owner[t] = o /\ Outstanding(t)})
           + (IF ops[o].channel # "none" THEN 1 ELSE 0) = IF Pending(o) THEN 1 ELSE 0
<1> DEFINE S == {t \in Task : owner[t] = o /\ Outstanding(t)}
<1>1. OneWait(o)
  BY DEF OpsIInv, OperationOK
<1>2. \A t : t \in S <=> t \in Task /\ WaitsFor(o, t)
  BY DEF WaitsFor
<1> HIDE DEF S
<1>3. CASE Waits(o)
  <2>1. PICK t \in Task : WaitsFor(o, t)
    BY <1>1, <1>3 DEF OneWait
  <2>2. S = {t}
    BY <1>1, <1>2, <2>1 DEF OneWait
  <2>3. Cardinality(S) = 1
    BY <2>2, FS_Singleton
  <2>4. QED BY <1>3, <2>3 DEF Waits, S
<1>4. CASE ~Waits(o)
  <2>1. S = {}
    BY <1>1, <1>2, <1>4 DEF OneWait
  <2>2. Cardinality(S) = 0
    BY <2>1, FS_EmptySet
  <2>3. ops[o].channel # "none" <=> Pending(o)
    BY <1>1, <1>4 DEF OneWait, Waits
  <2>4. QED BY <2>2, <2>3 DEF S
<1>5. QED BY <1>3, <1>4

\* An open or close operation that is pending waits for exactly one callback:
\* no handler forgets it, and no two handlers drive it
THEOREM OperationAdvancesHolds == DeviceSpec => []OperationAdvances
<1>1. OpsIInv => OperationAdvances
  BY OneWaitCounts DEF OperationAdvances
<1>2. QED BY <1>1, OpsIInvHolds, PTL

(***************************************************************************)
(* The contexts that device_open_context_step is called with, and why an   *)
(* OPEN is not requested again before the CLOSE.                           *)

\* The context p of the operation o, whose callback runs device_open_context_step
Resumes(o, p) ==
  /\ p \in Operation
  /\ p.kind = "open" /\ p.channel = "none" /\ p.result = "pending"
  /\ p.unsure = ops[o].unsure /\ p.step \in FLAGS_PROXY..LAST
  /\ p.unsure => p.step = CLOSE_MESSAGE /\ p.close_before_open
  /\ ops[o].kind = "open" /\ Pending(o)
  /\ p.step \in DEVICE_SERVICES..LAST =>
       \/ ops[o].step \in DEVICE_SERVICES..LAST
       \/ /\ ops[o].step = OPEN_MESSAGE /\ Succeeded
          /\ running \in Task /\ running \in Created /\ WaitsFor(o, running)

LEMMA ResumesAt ==
  ASSUME OpsIInv, NEW o \in Op, Pending(o), ops[o].kind = "open", ops[o].channel = "none",
         ops[o].step \in FLAGS_PROXY..LAST, ~ops[o].unsure, NEW s \in FLAGS_PROXY..LAST,
         s \in DEVICE_SERVICES..LAST =>
           \/ ops[o].step \in DEVICE_SERVICES..LAST
           \/ /\ ops[o].step = OPEN_MESSAGE /\ Succeeded
              /\ running \in Task /\ running \in Created /\ WaitsFor(o, running)
  PROVE  Resumes(o, [ops[o] EXCEPT !.step = s])
<1> DEFINE q == [ops[o] EXCEPT !.step = s]
<1>1. ops[o] \in Operation /\ ops[o].result = "pending"
  BY DeviceTypes, OpType DEF OpsIInv, Pending
<1>2. s \in Step
  BY DEF FLAGS_PROXY, LAST, Step, CREATE_IOCHANNEL
<1>3. /\ q \in Operation /\ q.step = s /\ q.kind = ops[o].kind /\ q.channel = ops[o].channel
      /\ q.result = ops[o].result /\ q.unsure = ops[o].unsure
  BY <1>1, <1>2 DEF Operation
<1> HIDE DEF q
<1>4. Resumes(o, q)
  BY <1>1, <1>3 DEF Resumes
<1>5. QED BY <1>4 DEF q

\* What the callbacks of an open operation come to
Comes(o) ==
  \/ \E p, id : Resumes(o, p) /\ ContextStep(o, p, id)
  \/ \E p \in Operation : \E status, id :
       p.channel = "none" /\ OpenReturns(o, p, "failed", status, id)

LEMMA RepliedComes ==
  ASSUME OpsIInv, NEW o \in Op, OperationReplied(o)
  PROVE  Comes(o) \/ CloseMessageReady(o)
<1> DEFINE p == ops[o]
<1>0. /\ FLAGS_PROXY = 2 /\ CLOSE_MESSAGE = 3 /\ OPEN_MESSAGE = 4 /\ DEVICE_SERVICES = 5
      /\ MS_EXT_VERSION = 6 /\ LAST = 7 /\ Step = 1..7 /\ CREATE_IOCHANNEL = 1
  BY DEF FLAGS_PROXY, CLOSE_MESSAGE, OPEN_MESSAGE, DEVICE_SERVICES, MS_EXT_VERSION, LAST,
         CREATE_IOCHANNEL, Step
<1>1. /\ p \in Operation /\ p.channel = "none" /\ p.result = "pending" /\ Pending(o)
      /\ p.unsure => result[running] = "unknown_state" /\ ctx[running].type = "OPEN"
      /\ p.kind = "open" => p.step \in 2..6 /\ ctx[running].type = RequestOf(p.step)
      /\ running \in Task /\ running \in Created /\ WaitsFor(o, running)
  BY <1>0, RepliedFacts DEF Waits
<1>2. p.unsure => /\ p.kind = "open" => p.step = OPEN_MESSAGE
                  /\ ~HasResponse /\ ~Succeeded /\ result[running] # "timeout"
  <2>1. p.unsure => ~HasResponse /\ ~Succeeded /\ result[running] # "timeout"
    BY <1>1 DEF HasResponse, Succeeded, Successes
  <2>2. ASSUME p.unsure, p.kind = "open" PROVE p.step = OPEN_MESSAGE
    BY <1>1, <2>2 DEF RequestOf
  <2>3. QED BY <2>1, <2>2
<1>3. \A s \in 2..7 : \A id :
        /\ p.kind = "open" /\ ~p.unsure
        /\ s \in 5..7 => p.step \in 5..7 \/ (p.step = 4 /\ Succeeded)
        /\ ContextStep(o, [p EXCEPT !.step = s], id)
        => Comes(o)
  <2> SUFFICES ASSUME NEW s \in 2..7, NEW id, p.kind = "open", ~p.unsure,
                      s \in 5..7 => p.step \in 5..7 \/ (p.step = 4 /\ Succeeded),
                      ContextStep(o, [p EXCEPT !.step = s], id)
               PROVE  Comes(o)
    OBVIOUS
  <2>1. Resumes(o, [p EXCEPT !.step = s])
    <3>1. s \in FLAGS_PROXY..LAST /\ p.step \in FLAGS_PROXY..LAST
      BY <1>0, <1>1
    <3>2. s \in DEVICE_SERVICES..LAST =>
            p.step \in DEVICE_SERVICES..LAST \/ (p.step = OPEN_MESSAGE /\ Succeeded)
      BY <1>0
    <3>3. QED BY <1>1, <3>1, <3>2, ResumesAt
  <2>2. QED BY <2>1 DEF Comes
<1>4. \A status, id : OpenReturns(o, p, "failed", status, id) => Comes(o)
  BY <1>1 DEF Comes
<1>5. CASE ProxyCfgMessageReady(o)
  BY <1>0, <1>2, <1>3, <1>4, <1>5 DEF ProxyCfgMessageReady
<1>6. CASE CloseMessageBeforeOpenReady(o)
  BY <1>0, <1>2, <1>3, <1>6 DEF CloseMessageBeforeOpenReady
<1>7. CASE OpenMessageReady(o)
  <2> DEFINE q == [p EXCEPT !.close_before_open = TRUE, !.step = CLOSE_MESSAGE]
  <2>1. CLOSE_MESSAGE \in Step /\ p.kind = "open" /\ p.step = OPEN_MESSAGE
    BY <1>0, <1>7 DEF OpenMessageReady
  <2>2. /\ q \in Operation /\ q.step = CLOSE_MESSAGE /\ q.channel = "none" /\ q.result = "pending"
        /\ q.kind = p.kind /\ q.unsure = p.unsure /\ q.close_before_open = TRUE
    BY <1>1, <2>1 DEF Operation
  <2> HIDE DEF q
  <2>3. Resumes(o, q)
    BY <1>0, <1>1, <2>1, <2>2 DEF Resumes
  <2>4. ~p.unsure => Resumes(o, p)
    BY <1>0, <1>1, <2>1 DEF Resumes
  <2>5. CASE ContextStep(o, q, 0)
    BY <2>3, <2>5 DEF Comes
  <2>6. CASE result[running] = "timeout" /\ ContextStep(o, p, 0)
    BY <1>2, <2>4, <2>6 DEF Comes
  <2>7. CASE Succeeded /\ ContextStep(o, [p EXCEPT !.step = DEVICE_SERVICES], 0)
    BY <1>0, <1>2, <1>3, <2>1, <2>7
  <2>8. CASE OpenReturns(o, p, "failed", "CLOSED", 0)
    BY <1>4, <2>8
  <2>9. QED BY <1>7, <2>5, <2>6, <2>7, <2>8 DEF OpenMessageReady, q
<1>8. CASE DeviceServicesMessageReady(o)
  BY <1>0, <1>2, <1>3, <1>4, <1>8 DEF DeviceServicesMessageReady
<1>9. CASE MsExtVersionMessageReady(o)
  BY <1>0, <1>2, <1>3, <1>4, <1>9 DEF MsExtVersionMessageReady
<1>10. QED BY <1>5, <1>6, <1>7, <1>8, <1>9 DEF OperationReplied

LEMMA ReadyComes ==
  ASSUME OpsIInv, NEW o \in Op, CreateIochannelReady(o)
  PROVE  Comes(o)
<1> DEFINE id == open_transaction_id
           q == [ops[o] EXCEPT !.channel = "none"]
           n == [ops[o] EXCEPT !.channel = "none", !.step = FLAGS_PROXY]
<1>1. running = None /\ Pending(o) /\ ops[o].channel # "none"
  BY DEF CreateIochannelReady, Quiet
<1>2. ops[o].kind = "open" /\ ops[o].result = "pending" /\ ~ops[o].unsure
  BY <1>1, NoneTold DEF OpsIInv, OperationOK, OneWait, Told, Pending
<1>3. ops[o] \in Operation
  BY DeviceTypes, OpType DEF OpsIInv
<1>4. FLAGS_PROXY \in Step /\ FLAGS_PROXY \in FLAGS_PROXY..LAST /\ FLAGS_PROXY \notin DEVICE_SERVICES..LAST
  BY DEF FLAGS_PROXY, CREATE_IOCHANNEL, Step, LAST, DEVICE_SERVICES
<1>5. /\ q \in Operation /\ q.channel = "none"
      /\ n \in Operation /\ n.channel = "none" /\ n.step = FLAGS_PROXY
      /\ n.kind = ops[o].kind /\ n.result = ops[o].result /\ n.unsure = ops[o].unsure
  BY <1>3, <1>4 DEF Operation
<1>6. OpenReturns(o, q, "failed", "CLOSED", id) \/ ContextStep(o, n, id)
  BY DEF CreateIochannelReady
<1> HIDE DEF q, n
<1>7. Resumes(o, n)
  BY <1>1, <1>2, <1>4, <1>5 DEF Resumes
<1>8. QED BY <1>5, <1>6, <1>7 DEF Comes

\* What such a callback sends: an operation that is unsure sends a CLOSE
Sends(o, p, s) ==
  /\ Resumes(o, p) /\ s \in FLAGS_PROXY..MS_EXT_VERSION /\ Skips(p, s) /\ Stops(p, s)
  /\ ops[o].unsure => s = CLOSE_MESSAGE
  /\ Request(o, RequestOf(s), p.cancelled)
  /\ \E q \in Operation : /\ q.kind = "open" /\ q.step = s /\ q.result = "pending"
                          /\ ops' = [ops EXCEPT ![o] = q]

LEMMA SendsWhat ==
  ASSUME OpsIInv, NEW o \in Op, NEW p, Resumes(o, p), NEW id,
         NEW s \in FLAGS_PROXY..MS_EXT_VERSION, Skips(p, s), Stops(p, s), SendStep(o, At(p, s), id)
  PROVE  Sends(o, p, s)
<1> DEFINE q == At(p, s)
           closing == q.step = CLOSE_MESSAGE
           b == q.close_before_open /\ ~closing
           c == q.unsure /\ ~closing
           n == [q EXCEPT !.close_before_open = b, !.unsure = c]
<1>0. /\ FLAGS_PROXY = 2 /\ CLOSE_MESSAGE = 3 /\ MS_EXT_VERSION = 6 /\ LAST = 7 /\ Step = 1..7
  BY DEF FLAGS_PROXY, CLOSE_MESSAGE, MS_EXT_VERSION, LAST, CREATE_IOCHANNEL, Step
<1>1. s \in Step /\ p \in Operation
  BY <1>0 DEF Resumes
<1>2. /\ q \in Operation /\ q.step = s /\ q.kind = "open" /\ q.result = "pending"
      /\ q.cancelled = p.cancelled
  BY <1>1, AtType DEF Resumes
<1>3. q.close_before_open \in BOOLEAN /\ q.unsure \in BOOLEAN
  BY <1>2 DEF Operation
<1> HIDE DEF q
<1>4. ops' = [ops EXCEPT ![o] = n] /\ Request(o, RequestOf(s), p.cancelled)
  BY <1>2 DEF SendStep, q
<1>5. b \in BOOLEAN /\ c \in BOOLEAN
  BY <1>3
<1> HIDE DEF b, c
<1>6. n \in Operation /\ n.kind = "open" /\ n.step = s /\ n.result = "pending"
  BY <1>2, <1>5 DEF Operation
<1>7. p.unsure => s = CLOSE_MESSAGE
  <2>1. p.unsure => Stops(p, CLOSE_MESSAGE) /\ p.step = CLOSE_MESSAGE
    BY DEF Stops, Resumes
  <2>2. s \in p.step..LAST /\ \A u \in p.step..(s - 1) : ~Stops(p, u)
    BY DEF Skips
  <2>3. ASSUME p.unsure PROVE s = CLOSE_MESSAGE
    <3>1. p.step = 3 /\ Stops(p, 3)
      BY <1>0, <2>1, <2>3
    <3>2. s \in 3..7 /\ \A u \in 3..(s - 1) : ~Stops(p, u)
      BY <1>0, <2>2, <3>1
    <3>3. QED BY <1>0, <3>1, <3>2
  <2>4. QED BY <2>3
<1>8. QED BY <1>4, <1>6, <1>7 DEF Sends, Resumes

\* An operation ends; only one that had nothing more to do ends well
Ends(o) ==
  \E p \in Operation, r \in {"ok", "failed", "timeout"} : \E status, id :
    /\ OpenReturns(o, p, r, status, id)
    /\ r = "ok" => \E q : Resumes(o, q) /\ Skips(q, LAST)

LEMMA ComesDoes ==
  ASSUME OpsIInv, NEW o \in Op, Comes(o)
  PROVE  Ends(o) \/ \E p, s : Sends(o, p, s)
<1>1. CASE \E p \in Operation : \E status, id : p.channel = "none" /\ OpenReturns(o, p, "failed", status, id)
  <2>1. "failed" \in {"ok", "failed", "timeout"} /\ "failed" # "ok"
    OBVIOUS
  <2>2. QED BY <1>1, <2>1 DEF Ends
<1>2. ASSUME NEW p, NEW id, Resumes(o, p), ContextStep(o, p, id)
      PROVE  Ends(o) \/ \E q, s : Sends(o, q, s)
  <2>0. p \in Operation /\ p.step # CREATE_IOCHANNEL
    BY <1>2 DEF Resumes, FLAGS_PROXY, CREATE_IOCHANNEL, LAST
  <2>1. LAST \in Step /\ MS_EXT_VERSION \in Step
    BY DEF LAST, MS_EXT_VERSION, Step, CREATE_IOCHANNEL
  <2>2. At(p, LAST) \in Operation /\ At(p, MS_EXT_VERSION) \in Operation
    BY <2>0, <2>1, AtType
  <2>3. CASE OpenReturns(o, p, "timeout", "CLOSED", id)
    <3>1. "timeout" \in {"ok", "failed", "timeout"} /\ "timeout" # "ok"
      OBVIOUS
    <3>2. QED BY <2>0, <2>3, <3>1 DEF Ends
  <2>4. CASE Skips(p, LAST) /\ OpenReturns(o, At(p, LAST), "ok", "OPEN", id)
    <3>1. "ok" \in {"ok", "failed", "timeout"}
      OBVIOUS
    <3>2. QED BY <1>2, <2>2, <2>4, <3>1 DEF Ends
  <2>5. CASE OpenReturns(o, At(p, MS_EXT_VERSION), "failed", open_status, id)
    <3>1. "failed" \in {"ok", "failed", "timeout"} /\ "failed" # "ok"
      OBVIOUS
    <3>2. QED BY <2>2, <2>5, <3>1 DEF Ends
  <2>6. ASSUME NEW s \in FLAGS_PROXY..MS_EXT_VERSION, Skips(p, s), Stops(p, s),
               SendStep(o, At(p, s), id)
        PROVE  \E q, u : Sends(o, q, u)
    BY <1>2, <2>6, SendsWhat
  <2>7. QED BY <1>2, <2>0, <2>3, <2>4, <2>5, <2>6, ContextCases
<1>3. QED BY <1>1, <1>2 DEF Comes

\* The steps that make a request
Asks(o) == \/ \E p, s : Sends(o, p, s)
           \/ Close(o) /\ Request(o, "CLOSE", FALSE)

LEMMA StepKinds ==
  ASSUME OpsIInv, DeviceNext
  PROVE  UNCHANGED taskVars \/ AppCommand \/ \E o \in Op : Asks(o)
<1>1. ASSUME NEW o \in Op, Comes(o) PROVE UNCHANGED taskVars \/ Asks(o)
  <2>1. Ends(o) => UNCHANGED taskVars
    BY DEF Ends, OpenReturns, txnVars, taskVars
  <2>2. QED BY <1>1, <2>1, ComesDoes DEF Asks
<1>2. SameTasks => UNCHANGED taskVars
  BY DEF SameTasks
<1>3. ASSUME NEW o \in Op, OperationReplied(o) PROVE UNCHANGED taskVars \/ Asks(o)
  <2>1. CloseMessageReady(o) => SameTasks
    BY CloseNowTasks DEF CloseMessageReady
  <2>2. QED BY <1>1, <1>2, <1>3, <2>1, RepliedComes
<1>4. ASSUME NEW o \in Op, CreateIochannelReady(o) PROVE UNCHANGED taskVars \/ Asks(o)
  BY <1>1, <1>4, ReadyComes
<1>5. ASSUME NEW o \in Op, NEW flags \in OpenFlags, OpenFull(o, flags) PROVE SameTasks
  BY <1>5, SameTasksBy DEF OpenFull
<1>6. ASSUME NEW o \in Op, Close(o) PROVE SameTasks \/ Asks(o)
  BY <1>6, SameTasksBy DEF Close, Asks
<1>7. ASSUME NEW o \in Op, CancelOperation(o) \/ WaitForProxy(o) PROVE SameTasks
  BY <1>7, SameTasksBy DEF CancelOperation, WaitForProxy
<1>8. ForceClose \/ CancelCommand \/ SetInSession \/ Hangup => SameTasks
  BY SameTasksBy DEF ForceClose, CancelCommand, SetInSession, Hangup
<1>9. ReadMessage => SameTasks
  BY SameTasksBy DEF ReadMessage, ReceiveAnswer, Unmatched
<1>10. CallbackReturns => UNCHANGED taskVars
  BY DEF CallbackReturns, RunCallback
<1>11. \/ \E t \in Task : Dispatch(TransactionTimedOut(t))
       \/ Dispatch(RunIdle) \/ Dispatch(EmitError)
       => SameTasks
  BY SameTasksBy DEF Dispatch
<1>12. QED
  BY <1>2, <1>3, <1>4, <1>5, <1>6, <1>7, <1>8, <1>9, <1>10, <1>11 DEF DeviceNext

\* No OPEN is requested again for a modem that was found in an unknown state,
\* before the CLOSE was
THEOREM CloseBeforeReopenHolds == DeviceSpec => CloseBeforeReopen
<1> DEFINE A == \A t \in Created' \ Created : ctx'[t].type = "OPEN" => ~ops[owner'[t]].unsure
<1>1. ASSUME OpsIInv, [DeviceNext]_devVars PROVE A
  <2>1. CASE UNCHANGED taskVars \/ UNCHANGED devVars
    BY <2>1 DEF Created, taskVars, devVars, txnVars
  <2>2. ASSUME NEW o, NEW type \in RequestType, NEW cancelled, Request(o, type, cancelled),
               type = "OPEN" => ~ops[o].unsure
        PROVE  A
    BY <1>1, <2>2, RequestTasks
  <2>3. "CLOSE" \in RequestType /\ "COMMAND" \in RequestType
    BY DEF RequestType
  <2>4. CASE AppCommand
    BY <2>2, <2>3, <2>4 DEF AppCommand
  <2>5. ASSUME NEW o \in Op, Asks(o) PROVE A
    <3>1. CASE Request(o, "CLOSE", FALSE)
      BY <2>2, <2>3, <3>1
    <3>2. ASSUME NEW p, NEW s, Sends(o, p, s) PROVE A
      <4>1. RequestOf(s) \in RequestType /\ Request(o, RequestOf(s), p.cancelled)
        BY <3>2, RequestOfType DEF Sends
      <4>2. ops[o].unsure => RequestOf(s) = "CLOSE"
        BY <3>2 DEF Sends, RequestOf, CLOSE_MESSAGE, OPEN_MESSAGE
      <4>3. QED BY <2>2, <4>1, <4>2
    <3>3. QED BY <2>5, <3>1, <3>2 DEF Asks
  <2>6. QED BY <1>1, <2>1, <2>4, <2>5, StepKinds
<1>2. QED BY <1>1, OpsIInvHolds, PTL DEF CloseBeforeReopen, DeviceSpec

(***************************************************************************)
(* What is known of the modem, when operations come one after the other    *)
(* and ids do not wrap.                                                    *)

OneAtATime == \A o, u \in Op : Pending(o) /\ Pending(u) => o = u

\* Ids are given in order, and never twice
OwnIds ==
  /\ ntasks < MaxTid => transaction_id = ntasks + 1
  /\ \A t \in Created : ctx[t].kind = HOST /\ ctx[t].transaction_id = t

\* t is the last OPEN or CLOSE that was requested
LastOfModem(t) == \A u \in Created : u > t => ctx[u].type = "COMMAND"

\* Nothing answers a request that was not made
AnswersMade ==
  /\ \A i \in 1..Len(rx) : rx[i].id \in 0..ntasks
  /\ answered \subseteq Created

AnsweredWell(t) == t \in answered \/ \E i \in 1..Len(rx) : rx[i].id = t /\ rx[i].ok

\* The modem is as the last OPEN or CLOSE it carried out has left it
AnswersTrue ==
  \A t \in Created : AnsweredWell(t) /\ LastOfModem(t) =>
    /\ ctx[t].type = "OPEN" => modem_open
    /\ ctx[t].type = "CLOSE" => ~modem_open

\* Nobody requests an OPEN or a CLOSE while an operation waits for its own
NoneSince == \A o \in Op, t \in Task : WaitsFor(o, t) => LastOfModem(t)

\* An operation that is past its OPEN has an open modem
PastOpen ==
  \A o \in Op : Pending(o) /\ ops[o].kind = "open" /\ ops[o].step \in DEVICE_SERVICES..LAST
                => in_session \/ modem_open

OutcomeParts == OneAtATime /\ OwnIds /\ AnswersMade /\ AnswersTrue /\ NoneSince /\ PastOpen

OutcomeIInv == OpsIInv /\ OutcomeParts

\* A step that requests nothing and reads nothing
LEMMA QuietTasks ==
  ASSUME OutcomeIInv, UNCHANGED <<taskVars, transaction_id, modemVars, answered>>,
         \A u \in Op, t \in Task : WaitsFor(u, t)' => WaitsFor(u, t)
  PROVE  OwnIds' /\ AnswersMade' /\ AnswersTrue' /\ NoneSince'
<1> USE DEF taskVars, modemVars
<1>1. OwnIds'
  BY DEF OutcomeIInv, OutcomeParts, OwnIds, Created
<1>2. AnswersMade'
  BY DEF OutcomeIInv, OutcomeParts, AnswersMade, Created
<1>3. AnswersTrue' <=> AnswersTrue
  BY DEF AnswersTrue, AnsweredWell, LastOfModem, Created
<1>4. NoneSince'
  BY DEF OutcomeIInv, OutcomeParts, NoneSince, LastOfModem, Created
<1>5. QED BY <1>1, <1>2, <1>3, <1>4 DEF OutcomeIInv, OutcomeParts

\* ... and starts no operation
Quietly == /\ UNCHANGED <<taskVars, transaction_id, modemVars, answered, in_session>>
           /\ \A u \in Op, t \in Task : WaitsFor(u, t)' => WaitsFor(u, t)
           /\ \A u \in Op : Pending(u)' => /\ Pending(u)
                                          /\ ops'[u].kind = ops[u].kind
                                          /\ ops'[u].step = ops[u].step

LEMMA QuietOutcome ==
  ASSUME OutcomeIInv, Quietly
  PROVE  OutcomeParts'
<1> USE DEF Quietly, modemVars
<1>1. OneAtATime'
  BY DEF OutcomeIInv, OutcomeParts, OneAtATime
<1>2. PastOpen'
  BY DEF OutcomeIInv, OutcomeParts, PastOpen
<1>3. QED BY <1>1, <1>2, QuietTasks DEF OutcomeParts

\* ... or starts one that has not sent anything yet
LEMMA NewOutcome ==
  ASSUME OutcomeIInv, UNCHANGED <<taskVars, transaction_id, modemVars, answered>>,
         \A u \in Op, t \in Task : WaitsFor(u, t)' => WaitsFor(u, t),
         NEW o, \A u \in Op : Pending(u)' => u = o,
         (Pending(o) /\ ops[o].kind = "open")' => ops'[o].step = CREATE_IOCHANNEL
  PROVE  OutcomeParts'
<1>1. OneAtATime'
  BY DEF OneAtATime
<1>2. PastOpen'
  BY DEF PastOpen, CREATE_IOCHANNEL, DEVICE_SERVICES, LAST
<1>3. QED BY <1>1, <1>2, QuietTasks DEF OutcomeParts

LEMMA EndedOutcome ==
  ASSUME OutcomeIInv, NEW o \in Op, Pending(o), NEW q \in Operation, q.result # "pending",
         ops' = [ops EXCEPT ![o] = q], handled => handled', running' = running,
         UNCHANGED <<taskVars, called, owner, transaction_id, modemVars, answered, in_session>>
  PROVE  OutcomeParts'
<1>1. OpsIInv /\ OwnTypeOK
  BY DeviceTypes DEF OutcomeIInv, OutcomeParts, OpsIInv
<1>2. \A u \in Op, t \in Task : WaitsFor(u, t)' => WaitsFor(u, t)
  BY <1>1, ReturnWaits DEF taskVars
<1>3. \A u \in Op : Pending(u)' => /\ Pending(u)
                                   /\ ops'[u].kind = ops[u].kind
                                   /\ ops'[u].step = ops[u].step
  <2>1. ops'[o] = q /\ \A u \in Op : u # o => ops'[u] = ops[u]
    BY <1>1, OpType
  <2>2. QED BY <2>1 DEF Pending
<1>4. QED BY <1>2, <1>3, QuietOutcome DEF Quietly

\* The modem carries out a request when it is written
LEMMA RequestModem ==
  ASSUME NEW o, NEW type, NEW cancelled, Request(o, type, cancelled)
  PROVE  \/ modem_open' = modem_open /\ rx' = rx
         \/ \E ok, error \in BOOLEAN :
              /\ modem_open' = IF ok /\ type = "OPEN" THEN TRUE
                               ELSE IF ok /\ type = "CLOSE" THEN FALSE ELSE modem_open
              /\ rx' \in {rx, Append(rx, [to |-> type, id |-> transaction_id, ok |-> ok, error |-> error])}
BY DEF Request, Transmit, modemVars

\* A request of an operation that nothing else waits for, or of the application
LEMMA RequestOutcome ==
  ASSUME OutcomeIInv, MaxTasks <= MaxTid, NEW o \in Op \cup {Application}, NEW type \in RequestType,
         NEW cancelled, Request(o, type, cancelled),
         o = Application => type = "COMMAND"
  PROVE  /\ OwnIds' /\ AnswersMade' /\ AnswersTrue'
         /\ \A t \in Task : LastOfModem(t) /\ type = "COMMAND" => LastOfModem(t)'
         /\ \A t \in Task : t = ntasks + 1 => LastOfModem(t)'
         /\ type = "COMMAND" => modem_open' = modem_open
<1>0. OpsIInv /\ TxnTypeOK /\ PipeTypeOK
  BY DeviceTypes DEF OutcomeIInv, OutcomeParts, OpsIInv
<1>a. PICK new \in Task : new = ntasks + 1
  BY <1>0, RequestTasks
<1>1. /\ new = ntasks + 1 /\ new \in Task /\ new \notin Created /\ Created' = Created \cup {new} /\ ntasks' = new
      /\ ntasks < MaxTasks /\ transaction_id' = NextTransactionId
      /\ ctx'[new].type = type /\ ctx'[new].kind = HOST /\ ctx'[new].transaction_id = transaction_id
      /\ \A t \in Task \ {new} : ctx'[t] = ctx[t]
  BY <1>0, <1>a, RequestTasks
<1>2. ntasks \in Nat /\ MaxTid \in Nat /\ MaxTasks \in Nat /\ Created \subseteq Task /\ Task = 1..MaxTasks
      /\ Created = 1..ntasks
  BY <1>0, CreatedType, BoundsAssumption DEF Task, Created
<1>3. transaction_id = new
  BY <1>1, <1>2 DEF OutcomeIInv, OutcomeParts, OwnIds
<1>4. answered' = answered /\ answered \subseteq Created
  BY DEF Request, OutcomeIInv, OutcomeParts, AnswersMade
<1>5. rx \in Seq(Answer)
  BY <1>0 DEF PipeTypeOK
<1>6. OwnIds'
  <2>1. ntasks' < MaxTid => transaction_id' = ntasks' + 1
    BY <1>1, <1>2, <1>3 DEF NextTransactionId
  <2>2. \A t \in Created' : ctx'[t].kind = HOST /\ ctx'[t].transaction_id = t
    BY <1>1, <1>2, <1>3 DEF OutcomeIInv, OutcomeParts, OwnIds
  <2>3. QED BY <2>1, <2>2 DEF OwnIds
<1>7. PICK ok \in BOOLEAN, error \in BOOLEAN :
        \/ modem_open' = modem_open /\ rx' = rx
        \/ /\ modem_open' = IF ok /\ type = "OPEN" THEN TRUE
                            ELSE IF ok /\ type = "CLOSE" THEN FALSE ELSE modem_open
           /\ rx' \in {rx, Append(rx, [to |-> type, id |-> transaction_id, ok |-> ok, error |-> error])}
  BY RequestModem
<1> DEFINE m == [to |-> type, id |-> new, ok |-> ok, error |-> error]
<1>8. m \in Answer /\ m.id = new /\ m.ok = ok
  <2>1. new \in Tid
    BY <1>0, <1>3 DEF TxnTypeOK
  <2>2. QED BY <2>1 DEF Answer
<1>9. rx' = rx \/ rx' = Append(rx, m)
  BY <1>3, <1>7
<1> HIDE DEF m
<1>10. ASSUME NEW i \in 1..Len(rx') PROVE \/ i \in 1..Len(rx) /\ rx'[i] = rx[i]
                                          \/ rx' = Append(rx, m) /\ rx'[i] = m
  <2>1. CASE rx' = rx
    BY <2>1, <1>10
  <2>2. CASE rx' = Append(rx, m)
    BY <2>2, <1>5, <1>8, <1>10
  <2>3. QED BY <1>9, <2>1, <2>2
<1>11. \A i \in 1..Len(rx) : rx[i].id \in 0..ntasks /\ rx[i].id # new
  BY <1>1, <1>2 DEF OutcomeIInv, OutcomeParts, AnswersMade
<1>12. AnswersMade'
  <2>1. \A i \in 1..Len(rx') : rx'[i].id \in 0..ntasks'
    BY <1>1, <1>2, <1>8, <1>10, <1>11
  <2>2. QED BY <1>1, <1>4, <2>1 DEF AnswersMade
<1>13. \A t \in Task : t # new => (AnsweredWell(t)' => AnsweredWell(t))
  BY <1>4, <1>8, <1>10 DEF AnsweredWell
<1>14. AnsweredWell(new)' => rx' = Append(rx, m) /\ ok
  BY <1>1, <1>4, <1>8, <1>10, <1>11 DEF AnsweredWell
<1>15. type = "COMMAND" => modem_open' = modem_open
  BY <1>7
<1>16. LastOfModem(new)' /\ \A t \in Task : LastOfModem(t)' /\ t # new => LastOfModem(t) /\ (t \in Created => type = "COMMAND")
  <2>1. \A u \in Created : u # new /\ u \in Task /\ u < new
    BY <1>1, <1>2
  <2>2. QED BY <1>1, <1>2, <2>1 DEF LastOfModem
<1>17. \A t \in Task : LastOfModem(t) /\ type = "COMMAND" => LastOfModem(t)'
  BY <1>1, <1>2 DEF LastOfModem
<1>18. AnswersTrue'
  <2> SUFFICES ASSUME NEW t \in Created', AnsweredWell(t)', LastOfModem(t)'
               PROVE  /\ ctx'[t].type = "OPEN" => modem_open'
                      /\ ctx'[t].type = "CLOSE" => ~modem_open'
    BY DEF AnswersTrue
  <2>1. CASE t = new
    <3>1. ok /\ rx' = Append(rx, m)
      BY <1>14, <2>1
    <3>2. rx' # rx
      BY <1>5, <3>1
    <3>3. QED BY <1>1, <1>7, <2>1, <3>1, <3>2
  <2>2. CASE t # new
    <3>1. t \in Created /\ t \in Task /\ ctx'[t] = ctx[t]
      BY <1>1, <1>2, <2>2
    <3>2. AnsweredWell(t) /\ LastOfModem(t) /\ type = "COMMAND"
      BY <1>13, <1>16, <2>2, <3>1
    <3>3. QED BY <1>15, <3>1, <3>2 DEF OutcomeIInv, OutcomeParts, AnswersTrue
  <2>3. QED BY <2>1, <2>2
<1>19. QED BY <1>1, <1>6, <1>12, <1>15, <1>16, <1>17, <1>18

\* Once the chain of an open operation is past its OPEN, the modem is open
LEMMA OpenIsPast ==
  ASSUME OutcomeIInv, NEW o \in Op, NEW p, Resumes(o, p),
         NEW s \in DEVICE_SERVICES..LAST, Skips(p, s)
  PROVE  in_session \/ modem_open
<1>0. /\ FLAGS_PROXY = 2 /\ OPEN_MESSAGE = 4 /\ DEVICE_SERVICES = 5 /\ LAST = 7
  BY DEF FLAGS_PROXY, OPEN_MESSAGE, DEVICE_SERVICES, LAST
<1>1. CASE ops[o].step \in DEVICE_SERVICES..LAST
  BY <1>1 DEF Resumes, OutcomeIInv, OutcomeParts, PastOpen
<1>2. CASE /\ ops[o].step = OPEN_MESSAGE /\ Succeeded
           /\ running \in Task /\ running \in Created /\ WaitsFor(o, running)
  <2>1. RequestFits(o) /\ ops[o].kind = "open"
    BY DEF OutcomeIInv, OutcomeParts, OpsIInv, OperationOK, Resumes
  <2>2. ctx[running].type = "OPEN"
    BY <1>2, <2>1 DEF RequestFits, RequestOf
  <2>3. LastOfModem(running) /\ AnsweredWell(running)
    BY <1>2 DEF OutcomeIInv, OutcomeParts, NoneSince, AnsweredWell, Succeeded
  <2>4. QED BY <1>2, <2>2, <2>3 DEF OutcomeIInv, OutcomeParts, AnswersTrue
<1>3. CASE p.step \notin DEVICE_SERVICES..LAST
  <2>1. p.step \in 2..4
    BY <1>0, <1>3 DEF Resumes
  <2>2. 4 \in p.step..(s - 1)
    BY <1>0, <2>1
  <2>3. ~Stops(p, OPEN_MESSAGE)
    BY <1>0, <2>2 DEF Skips
  <2>4. QED BY <2>3 DEF Stops
<1>4. QED BY <1>1, <1>2, <1>3 DEF Resumes

\* A request of the only operation that is pending after it
LEMMA AskOutcome ==
  ASSUME OutcomeIInv, OpsIInv', MaxTasks <= MaxTid, NEW o \in Op, NEW type \in RequestType,
         NEW cancelled, Request(o, type, cancelled), handled => handled',
         \A u \in Op : Pending(u)' => u = o,
         (Pending(o) /\ ops[o].kind = "open" /\ ops[o].step \in DEVICE_SERVICES..LAST)'
           => type = "COMMAND" /\ (in_session' \/ modem_open)
  PROVE  OutcomeParts'
<1>1. OpsIInv /\ o # Application
  BY DEF OutcomeIInv, OutcomeParts, Op, Application
<1>2. /\ OwnIds' /\ AnswersMade' /\ AnswersTrue'
      /\ \A t \in Task : t = ntasks + 1 => LastOfModem(t)'
      /\ type = "COMMAND" => modem_open' = modem_open
  BY <1>1, RequestOutcome
<1>3. OneAtATime'
  BY DEF OneAtATime
<1>4. NoneSince'
  <2> SUFFICES ASSUME NEW u \in Op, NEW t \in Task, WaitsFor(u, t)' PROVE LastOfModem(t)'
    BY DEF NoneSince
  <2>1. ntasks + 1 \in Task
    BY <1>1, RequestTasks
  <2>2. PICK new \in Task : new = ntasks + 1
    BY <2>1
  <2>3. WaitsFor(o, new)'
    BY <1>1, <2>2, RequestWaits
  <2>4. Pending(u)' /\ u = o
    BY DEF OpsIInv, OperationOK, OneWait, Waits
  <2>5. t = new
    BY <2>3, <2>4 DEF OpsIInv, OperationOK, OneWait
  <2>6. QED BY <1>2, <2>2, <2>5
<1>5. PastOpen'
  BY <1>2 DEF PastOpen
<1>6. QED BY <1>2, <1>3, <1>4, <1>5 DEF OutcomeParts

\* The steps of the device, as far as what operations report goes
LEMMA QuietSteps ==
  ASSUME OutcomeIInv,
         \/ ForceClose \/ Hangup \/ CancelCommand \/ CallbackReturns
         \/ \E o \in Op : CancelOperation(o) \/ WaitForProxy(o)
         \/ \E t \in Task : Dispatch(TransactionTimedOut(t))
         \/ Dispatch(RunIdle) \/ Dispatch(EmitError)
         \/ UNCHANGED devVars
  PROVE  Quietly /\ \A u \in Op : ops'[u].result = ops[u].result
<1> DEFINE Goal == Quietly /\ \A u \in Op : ops'[u].result = ops[u].result
<1> USE DEF statusVars
<1>1. OpsIInv /\ (handled => running # None) /\ \A t \in Task : t # None
  BY DEF OutcomeIInv, OutcomeParts, OpsIInv, Task, None
<1>2. ASSUME SameTasks, UNCHANGED <<owner, handled, modemVars, answered, in_session>>,
             \A u \in Op : SameOp(u)
      PROVE  Goal
  <2>1. \A u \in Op, t \in Task : WaitsFor(u, t)' => WaitsFor(u, t)
    BY <1>1, <1>2, SameWaits
  <2>2. QED BY <1>2, <2>1 DEF Quietly, SameTasks, SameOp, Pending
<1>3. CASE ForceClose \/ Hangup
  BY <1>2, <1>3, SameTasksBy DEF ForceClose, Hangup, opVars, SameOp
<1>4. CASE CancelCommand
  BY <1>2, <1>4, SameTasksBy DEF CancelCommand, ownVars, opVars, SameOp
<1>5. CASE CallbackReturns
  <2>1. \A u \in Op, t \in Task : WaitsFor(u, t)' => WaitsFor(u, t)
    BY <1>1, <1>5, CallbackReturnsOK
  <2>2. UNCHANGED <<taskVars, transaction_id, modemVars, answered, in_session, ops>>
    BY <1>5 DEF CallbackReturns, RunCallback, deviceVars
  <2>3. QED BY <2>1, <2>2 DEF Quietly, Pending
<1>6. ASSUME NEW o \in Op, CancelOperation(o) PROVE Goal
  BY <1>1, <1>2, <1>6, SameTasksBy, CancelOperationOK DEF CancelOperation
<1>7. ASSUME NEW o \in Op, WaitForProxy(o) PROVE Goal
  BY <1>1, <1>2, <1>7, SameTasksBy, WaitForProxyOK DEF WaitForProxy
<1>8. CASE \/ \E t \in Task : Dispatch(TransactionTimedOut(t))
           \/ Dispatch(RunIdle) \/ Dispatch(EmitError)
  BY <1>2, <1>8, SameTasksBy DEF Dispatch, ownVars, opVars, SameOp
<1>9. CASE UNCHANGED devVars
  <2>1. SameTasks
    BY <1>9, SameTasksBy DEF devVars
  <2>2. QED BY <1>2, <1>9, <2>1 DEF devVars, ownVars, opVars, SameOp
<1>10. QED BY <1>3, <1>4, <1>5, <1>6, <1>7, <1>8, <1>9

\* What the application does to a modem that nobody else uses
LEMMA OpenFullOutcome ==
  ASSUME OutcomeIInv, Patient, NEW o \in Op, NEW flags \in OpenFlags, OpenFull(o, flags)
  PROVE  OutcomeParts' /\ \A u \in Op : ops'[u].kind = ops[u].kind => ops'[u] = ops[u]
<1> DEFINE p == [Unused EXCEPT !.kind = "open", !.flags = flags]
<1>1. OwnTypeOK /\ OpsIInv /\ (handled => running # None) /\ \A t \in Task : t # None
  BY DeviceTypes DEF OutcomeIInv, OutcomeParts, OpsIInv, Task, None
<1>2. /\ ops[o].kind = "unused" /\ \A u \in Op : ~Pending(u)
      /\ UNCHANGED <<owner, handled, in_session, modemVars, answered>>
  BY DEF OpenFull, NewOp
<1>3. SameTasks
  BY SameTasksBy DEF OpenFull
<1>4. \E q \in {Returned(p, "failed"), [p EXCEPT !.channel = "failed"], [p EXCEPT !.channel = "made"],
                [p EXCEPT !.channel = "connecting", !.spawn_retries = 1]} : ops' = [ops EXCEPT ![o] = q]
  BY DEF OpenFull
<1>5. \A q \in {Returned(p, "failed"), [p EXCEPT !.channel = "failed"], [p EXCEPT !.channel = "made"],
                [p EXCEPT !.channel = "connecting", !.spawn_retries = 1]} : q.kind = "open" /\ q.step = CREATE_IOCHANNEL
  BY DEF Returned, Unused
<1>6. ops'[o].kind = "open" /\ ops'[o].step = CREATE_IOCHANNEL /\ \A u \in Op \ {o} : ops'[u] = ops[u]
  BY <1>1, <1>4, <1>5, OpType
<1>7. \A u \in Op, t \in Task : WaitsFor(u, t)' => WaitsFor(u, t)
  BY <1>1, <1>2, <1>3, SameWaits
<1>8. \A u \in Op : Pending(u)' => u = o
  BY <1>2, <1>6 DEF Pending
<1>9. OutcomeParts'
  BY <1>2, <1>3, <1>6, <1>7, <1>8, NewOutcome DEF SameTasks
<1>10. QED BY <1>2, <1>6, <1>9

LEMMA CloseOutcome ==
  ASSUME OutcomeIInv, OpsIInv', Patient, MaxTasks <= MaxTid, NEW o \in Op, Close(o)
  PROVE  OutcomeParts' /\ \A u \in Op : ops'[u].kind = ops[u].kind => ops'[u] = ops[u]
<1> DEFINE p == [Unused EXCEPT !.kind = "close"]
<1>1. OwnTypeOK /\ OpsIInv /\ (handled => running # None) /\ \A t \in Task : t # None
  BY DeviceTypes DEF OutcomeIInv, OutcomeParts, OpsIInv, Task, None
<1>2. /\ ops[o].kind = "unused" /\ \A u \in Op : ~Pending(u)
      /\ UNCHANGED <<handled, in_session>>
  BY DEF Close, NewOp
<1>3. \E q \in {Returned(p, "ok"), Returned(p, "failed"), p} : ops' = [ops EXCEPT ![o] = q]
  BY DEF Close, DestroyResults
<1>4. \A q \in {Returned(p, "ok"), Returned(p, "failed"), p} : q.kind = "close"
  BY DEF Returned, Unused
<1>5. ops'[o].kind = "close" /\ \A u \in Op \ {o} : ops'[u] = ops[u]
  BY <1>1, <1>3, <1>4, OpType
<1>6. \A u \in Op : Pending(u)' => u = o
  BY <1>2, <1>5 DEF Pending
<1>7. ASSUME Request(o, "CLOSE", FALSE) PROVE OutcomeParts'
  <2>1. "CLOSE" \in RequestType
    BY DEF RequestType
  <2>2. QED BY <1>2, <1>5, <1>6, <1>7, <2>1, AskOutcome
<1>8. ASSUME UNCHANGED <<owner, modemVars, answered>>, SameTasks PROVE OutcomeParts'
  <2>1. \A u \in Op, t \in Task : WaitsFor(u, t)' => WaitsFor(u, t)
    BY <1>1, <1>2, <1>8, SameWaits
  <2>2. UNCHANGED <<taskVars, transaction_id, modemVars, answered>>
    BY <1>8 DEF SameTasks
  <2>3. (Pending(o) /\ ops[o].kind = "open")' => ops'[o].step = CREATE_IOCHANNEL
    BY <1>5
  <2>4. QED BY <1>6, <2>1, <2>2, <2>3, NewOutcome
<1>9. Request(o, "CLOSE", FALSE) \/ (UNCHANGED <<owner, modemVars, answered>> /\ SameTasks)
  BY SameTasksBy DEF Close
<1>10. OutcomeParts'
  BY <1>7, <1>8, <1>9
<1>11. QED BY <1>2, <1>5, <1>10

LEMMA ReadOutcome ==
  ASSUME OutcomeIInv, ReadMessage
  PROVE  OutcomeParts' /\ \A u \in Op : ops'[u].result = ops[u].result
<1> DEFINE m == Head(rx)
           k == transactions[HOST][m.id]
<1>0. OpsIInv /\ TxnIInv /\ TxnTypeOK /\ PipeTypeOK /\ OwnTypeOK
  BY DeviceTypes DEF OutcomeIInv, OutcomeParts, OpsIInv
<1>1. /\ running = None /\ rx # <<>> /\ rx' = Tail(rx)
      /\ UNCHANGED <<owner, handled, modem_open, in_session>>
  BY DEF ReadMessage, Reading, Quiet, ReceiveAnswer, Unmatched, opVars, statusVars
<1>2. SameTasks
  BY SameTasksBy DEF ReadMessage, ReceiveAnswer, Unmatched
<1>3. /\ UNCHANGED <<ntasks, ctx, transaction_id>> /\ Created' = Created
  BY <1>2 DEF SameTasks, taskVars, Created
<1>4. \A u \in Op, t \in Task : WaitsFor(u, t)' => WaitsFor(u, t)
  <2>1. (handled => running # None) /\ \A t \in Task : t # None
    BY <1>0 DEF OpsIInv, Task, None
  <2>2. QED BY <1>1, <1>2, <2>1, SameWaits
<1>5. /\ rx \in Seq(Answer) /\ m \in Answer /\ m = rx[1] /\ Len(rx) \in Nat \ {0}
      /\ Len(rx') = Len(rx) - 1 /\ \A i \in 1..Len(rx') : rx'[i] = rx[i + 1]
  BY <1>0, <1>1 DEF PipeTypeOK
<1>6. ASSUME m.ok, Matches(m) PROVE k \in Created /\ k = m.id
  <2>1. m.id \in Tid /\ HOST \in TransactionType /\ k # None
    BY <1>5, <1>6 DEF Matches, Answer, TransactionType
  <2>2. k \in Created /\ ctx[k].transaction_id = m.id
    BY <1>0, <2>1 DEF TxnIInv, ExactlyOnce, TableHoldsPending
  <2>3. QED BY <2>2 DEF OutcomeIInv, OutcomeParts, OwnIds
<1>7. answered' = answered \/ (answered' = answered \cup {k} /\ m.ok /\ Matches(m))
  BY DEF ReadMessage, ReceiveAnswer, Unmatched
<1> HIDE DEF m, k
<1>8. \A t \in Created : AnsweredWell(t)' => AnsweredWell(t)
  <2> SUFFICES ASSUME NEW t \in Created, AnsweredWell(t)' PROVE AnsweredWell(t)
    OBVIOUS
  <2>1. CASE t \in answered'
    <3>1. t \in answered \/ (rx[1].id = t /\ rx[1].ok)
      BY <1>5, <1>6, <1>7, <2>1
    <3>2. 1 \in 1..Len(rx)
      BY <1>5
    <3>3. QED BY <3>1, <3>2 DEF AnsweredWell
  <2>2. CASE \E i \in 1..Len(rx') : rx'[i].id = t /\ rx'[i].ok
    <3>1. PICK i \in 1..Len(rx') : rx'[i].id = t /\ rx'[i].ok
      BY <2>2
    <3>2. i + 1 \in 1..Len(rx) /\ rx[i + 1].id = t /\ rx[i + 1].ok
      BY <1>5, <3>1
    <3>3. QED BY <3>2 DEF AnsweredWell
  <2>3. QED BY <2>1, <2>2 DEF AnsweredWell
<1>9. AnswersMade'
  <2>1. ASSUME NEW i \in 1..Len(rx') PROVE rx'[i].id \in 0..ntasks
    <3>1. i + 1 \in 1..Len(rx)
      BY <1>5
    <3>2. QED BY <1>5, <3>1 DEF OutcomeIInv, OutcomeParts, AnswersMade
  <2>2. answered' \subseteq Created
    BY <1>6, <1>7 DEF OutcomeIInv, OutcomeParts, AnswersMade
  <2>3. QED BY <1>3, <2>1, <2>2 DEF AnswersMade
<1>10. OwnIds' /\ NoneSince' /\ AnswersTrue'
  <2>1. OwnIds'
    BY <1>3 DEF OutcomeIInv, OutcomeParts, OwnIds
  <2>2. \A t : LastOfModem(t)' <=> LastOfModem(t)
    BY <1>3 DEF LastOfModem
  <2>3. NoneSince'
    BY <1>4, <2>2 DEF OutcomeIInv, OutcomeParts, NoneSince
  <2>4. AnswersTrue'
    BY <1>1, <1>3, <1>8, <2>2 DEF OutcomeIInv, OutcomeParts, AnswersTrue
  <2>5. QED BY <2>1, <2>3, <2>4
<1>11. ASSUME NEW u \in Op
       PROVE  ops'[u].kind = ops[u].kind /\ ops'[u].step = ops[u].step /\ ops'[u].result = ops[u].result
  <2>1. ops[u] \in Operation
    BY <1>0, OpType
  <2>2. ops'[u] = ops[u] \/ ops'[u] = [ops[u] EXCEPT !.unsure = TRUE]
    <3>1. CASE ops' = ops
      BY <3>1
    <3>2. ASSUME NEW o, ops' = [ops EXCEPT ![o].unsure = TRUE]
          PROVE  ops'[u] = ops[u] \/ ops'[u] = [ops[u] EXCEPT !.unsure = TRUE]
      BY <1>0, <3>2 DEF OwnTypeOK
    <3>3. ops' = ops \/ \E o : ops' = [ops EXCEPT ![o].unsure = TRUE]
      BY DEF ReadMessage, ReceiveAnswer, Unmatched, opVars
    <3>4. QED BY <3>1, <3>2, <3>3
  <2>3. QED BY <2>1, <2>2 DEF Operation
<1>12. OneAtATime' /\ PastOpen'
  BY <1>1, <1>11 DEF OutcomeIInv, OutcomeParts, OneAtATime, PastOpen, Pending
<1>13. QED BY <1>9, <1>10, <1>11, <1>12 DEF OutcomeParts

LEMMA AppCommandOutcome ==
  ASSUME OutcomeIInv, MaxTasks <= MaxTid, AppCommand
  PROVE  OutcomeParts'
<1>1. PICK cancelled \in BOOLEAN : Request(Application, "COMMAND", cancelled)
  BY DEF AppCommand
<1>2. "COMMAND" \in RequestType /\ Application \in Op \cup {Application}
  BY DEF RequestType
<1>3. UNCHANGED <<ops, handled, in_session>> /\ OpsIInv
  BY DEF AppCommand, statusVars, OutcomeIInv, OutcomeParts
<1>4. /\ OwnIds' /\ AnswersMade' /\ AnswersTrue' /\ modem_open' = modem_open
      /\ \A t \in Task : LastOfModem(t) => LastOfModem(t)'
  BY <1>1, <1>2, RequestOutcome
<1>5. \A u \in Op, t \in Task : WaitsFor(u, t)' => WaitsFor(u, t)
  <2>1. \A u \in Op : u # Application
    BY DEF Op, Application
  <2>2. QED BY <1>1, <1>2, <1>3, <2>1, RequestWaits
<1>6. OneAtATime' /\ NoneSince' /\ PastOpen'
  BY <1>3, <1>4, <1>5 DEF OutcomeIInv, OutcomeParts, OneAtATime, NoneSince, PastOpen, Pending
<1>7. QED BY <1>4, <1>6 DEF OutcomeParts

LEMMA SetInSessionOutcome ==
  ASSUME OutcomeIInv, SetInSession
  PROVE  OutcomeParts'
<1>1. \A u \in Op : ~Pending(u)'
  BY DEF SetInSession, opVars, Pending
<1>2. SameTasks /\ UNCHANGED <<owner, handled, modemVars, answered>>
  BY SameTasksBy DEF SetInSession, opVars
<1>3. \A u \in Op, t \in Task : WaitsFor(u, t)' => WaitsFor(u, t)
  <2>1. (handled => running # None) /\ \A t \in Task : t # None
    BY DEF OutcomeIInv, OutcomeParts, OpsIInv, Task, None
  <2>2. QED BY <1>2, <2>1, SameWaits
<1>4. OwnIds' /\ AnswersMade' /\ AnswersTrue' /\ NoneSince'
  BY <1>2, <1>3, QuietTasks DEF SameTasks
<1>5. OneAtATime' /\ PastOpen'
  BY <1>1 DEF OneAtATime, PastOpen
<1>6. QED BY <1>4, <1>5 DEF OutcomeParts

\* What the property says of a step, for one operation
TrueOutcome(o) ==
  ops[o].result = "pending" /\ ops'[o].result = "ok" /\ ops[o].kind = ops'[o].kind =>
    /\ ops[o].kind = "open"  => in_session \/ modem_open'
    /\ ops[o].kind = "close" => ~modem_open'

LEMMA SendsOutcome ==
  ASSUME OutcomeIInv, OpsIInv', MaxTasks <= MaxTid, NEW o \in Op, NEW p, NEW s, Sends(o, p, s),
         handled => handled', in_session' = in_session
  PROVE  OutcomeParts' /\ \A u \in Op : TrueOutcome(u)
<1>1. /\ Resumes(o, p) /\ s \in FLAGS_PROXY..MS_EXT_VERSION /\ Skips(p, s)
      /\ Request(o, RequestOf(s), p.cancelled) /\ RequestOf(s) \in RequestType
  BY RequestOfType DEF Sends
<1>2. PICK q \in Operation : /\ q.kind = "open" /\ q.step = s /\ q.result = "pending"
                             /\ ops' = [ops EXCEPT ![o] = q]
  BY DEF Sends
<1>3. OwnTypeOK
  BY DeviceTypes DEF OutcomeIInv, OutcomeParts, OpsIInv
<1>4. ops'[o] = q /\ \A u \in Op \ {o} : ops'[u] = ops[u]
  BY <1>2, <1>3, OpType
<1>5. \A u \in Op : Pending(u)' => u = o
  BY <1>1, <1>4 DEF Resumes, OutcomeIInv, OutcomeParts, OneAtATime, Pending
<1>6. s \in DEVICE_SERVICES..LAST => RequestOf(s) = "COMMAND" /\ (in_session' \/ modem_open)
  <2>1. s \in DEVICE_SERVICES..LAST => in_session \/ modem_open
    BY <1>1, OpenIsPast
  <2>2. s \in DEVICE_SERVICES..LAST => RequestOf(s) = "COMMAND"
    BY DEF RequestOf, DEVICE_SERVICES, LAST, OPEN_MESSAGE, CLOSE_MESSAGE
  <2>3. QED BY <2>1, <2>2
<1>7. OutcomeParts'
  BY <1>1, <1>2, <1>4, <1>5, <1>6, AskOutcome
<1>8. QED BY <1>2, <1>4, <1>7 DEF TrueOutcome

LEMMA EndsOutcome ==
  ASSUME OutcomeIInv, NEW o \in Op, Pending(o), Ends(o),
         handled => handled', in_session' = in_session
  PROVE  OutcomeParts' /\ \A u \in Op : TrueOutcome(u)
<1>1. PICK p \in Operation, r \in {"ok", "failed", "timeout"} :
        /\ \E status, id : OpenReturns(o, p, r, status, id)
        /\ r = "ok" => \E q : Resumes(o, q) /\ Skips(q, LAST)
  BY DEF Ends
<1>2. /\ ops' = [ops EXCEPT ![o] = Returned(p, r)]
      /\ UNCHANGED <<taskVars, called, running, owner, transaction_id, modemVars, answered>>
  BY <1>1 DEF OpenReturns, txnVars, taskVars, returnVars, deviceVars
<1>3. Returned(p, r) \in Operation /\ Returned(p, r).result # "pending"
  BY <1>1, ReturnedType
<1>4. OutcomeParts'
  BY <1>2, <1>3, EndedOutcome
<1>5. OwnTypeOK
  BY DeviceTypes DEF OutcomeIInv, OutcomeParts, OpsIInv
<1>6. ops'[o] = Returned(p, r) /\ \A u \in Op \ {o} : ops'[u] = ops[u]
  BY <1>2, <1>3, <1>5, OpType
<1>7. TrueOutcome(o)
  <2>1. ops'[o].result = "ok" => r = "ok"
    BY <1>6 DEF Returned, Operation
  <2>2. LAST \in DEVICE_SERVICES..LAST
    BY DEF DEVICE_SERVICES, LAST
  <2>3. ASSUME NEW q, Resumes(o, q), Skips(q, LAST) PROVE ops[o].kind = "open" /\ (in_session \/ modem_open')
    BY <1>2, <2>2, <2>3, OpenIsPast DEF Resumes, modemVars
  <2>4. QED BY <1>1, <2>1, <2>3 DEF TrueOutcome
<1>8. QED BY <1>4, <1>6, <1>7 DEF TrueOutcome

LEMMA CloseMessageOutcome ==
  ASSUME OutcomeIInv, NEW o \in Op, OperationReplied(o), CloseMessageReady(o)
  PROVE  OutcomeParts' /\ \A u \in Op : TrueOutcome(u)
<1>0. PICK r \in {"ok", "failed"} :
         ops' = [ops EXCEPT ![o] = Returned(ops[o], r)] /\ (r = "ok" => Succeeded)
  BY DEF CloseMessageReady, DestroyResults
<1>1. OwnTypeOK /\ OpsIInv
  BY DeviceTypes DEF OutcomeIInv, OutcomeParts, OpsIInv
<1>2. /\ running \in Created /\ running \in Task /\ WaitsFor(o, running) /\ Pending(o)
      /\ ops[o] \in Operation /\ ops[o].kind = "close" /\ ctx[running].type = "CLOSE"
      /\ handled' = TRUE
  BY <1>1, RepliedFacts DEF Waits, CloseMessageReady
<1>3. /\ ops' = [ops EXCEPT ![o] = Returned(ops[o], r)]
      /\ UNCHANGED <<owner, modemVars, answered, in_session>>
  BY <1>0 DEF CloseMessageReady, OperationReplied
<1>4. SameTasks /\ running' = running
  BY CloseNowTasks DEF CloseMessageReady
<1>5. r \in {"ok", "failed", "timeout"}
  OBVIOUS
<1>6. Returned(ops[o], r) \in Operation /\ Returned(ops[o], r).result # "pending"
  BY <1>2, <1>5, ReturnedType
<1>7. OutcomeParts'
  BY <1>2, <1>3, <1>4, <1>6, EndedOutcome DEF SameTasks
<1>8. ops'[o] = Returned(ops[o], r) /\ \A u \in Op \ {o} : ops'[u] = ops[u]
  BY <1>1, <1>3, <1>6, OpType
<1>9. TrueOutcome(o)
  <2>1. ops'[o].result = "ok" => Succeeded
    BY <1>0, <1>2, <1>8 DEF Returned, Operation
  <2>2. Succeeded => ~modem_open
    BY <1>2 DEF Succeeded, OutcomeIInv, OutcomeParts, NoneSince, AnswersTrue, AnsweredWell
  <2>3. QED BY <1>2, <1>3, <2>1, <2>2 DEF TrueOutcome, modemVars
<1>10. QED BY <1>7, <1>8, <1>9 DEF TrueOutcome

LEMMA OutcomeStep ==
  ASSUME OutcomeIInv, Patient, MaxTasks <= MaxTid, [DeviceNext]_devVars
  PROVE  OutcomeIInv' /\ \A u \in Op : TrueOutcome(u)
<1> DEFINE Goal == OutcomeParts' /\ \A u \in Op : TrueOutcome(u)
<1>1. OpsIInv /\ OpsIInv'
  BY OpsIInvStep DEF OutcomeIInv, OutcomeParts
<1>2. SUFFICES Goal
  BY <1>1 DEF OutcomeIInv, OutcomeParts
<1>3. ASSUME Quietly, \A u \in Op : ops'[u].result = ops[u].result PROVE Goal
  BY <1>3, QuietOutcome DEF TrueOutcome
<1>4. CASE \/ ForceClose \/ Hangup \/ CancelCommand \/ CallbackReturns
           \/ \E o \in Op : CancelOperation(o) \/ WaitForProxy(o)
           \/ \E t \in Task : Dispatch(TransactionTimedOut(t))
           \/ Dispatch(RunIdle) \/ Dispatch(EmitError)
           \/ UNCHANGED devVars
  BY <1>3, <1>4, QuietSteps
<1>5. ASSUME NEW o \in Op, Comes(o), Pending(o), handled => handled', in_session' = in_session
      PROVE  Goal
  BY <1>1, <1>5, ComesDoes, SendsOutcome, EndsOutcome
<1>6. ASSUME NEW o \in Op, OperationReplied(o) PROVE Goal
  <2>1. Pending(o) /\ handled' = TRUE /\ in_session' = in_session
    BY <1>1, <1>6, RepliedFacts DEF Waits, OperationReplied
  <2>2. QED BY <1>1, <1>5, <1>6, <2>1, RepliedComes, CloseMessageOutcome
<1>7. ASSUME NEW o \in Op, CreateIochannelReady(o) PROVE Goal
  <2>1. Pending(o) /\ handled' = handled /\ in_session' = in_session
    BY <1>7 DEF CreateIochannelReady
  <2>2. QED BY <1>1, <1>5, <1>7, <2>1, ReadyComes
<1>8. ASSUME NEW o \in Op, NEW flags \in OpenFlags, OpenFull(o, flags) PROVE Goal
  BY <1>8, OpenFullOutcome DEF TrueOutcome
<1>9. ASSUME NEW o \in Op, Close(o) PROVE Goal
  BY <1>1, <1>9, CloseOutcome DEF TrueOutcome
<1>10. CASE AppCommand
  BY <1>10, AppCommandOutcome DEF AppCommand, TrueOutcome
<1>11. CASE SetInSession
  BY <1>11, SetInSessionOutcome DEF SetInSession, opVars, TrueOutcome
<1>12. CASE ReadMessage
  BY <1>12, ReadOutcome DEF TrueOutcome
<1>13. QED
  BY <1>4, <1>6, <1>7, <1>8, <1>9, <1>10, <1>11, <1>12 DEF DeviceNext

LEMMA OutcomeInit == DeviceInit => OutcomeIInv
<1> SUFFICES ASSUME DeviceInit PROVE OutcomeIInv
  OBVIOUS
<1>1. OpsIInv
  BY OpsIInvInit
<1>2. /\ \A o \in Op : ~Pending(o)
      /\ \A o \in Op, t \in Task : ~WaitsFor(o, t)
  BY DEF DeviceInit, Pending, Unused, WaitsFor, Op, Application
<1>3. ntasks = 0 /\ Created = {} /\ transaction_id = 1 /\ answered = {}
  BY DEF DeviceInit, TxnInit, Created
<1>4. \A i \in 1..Len(rx) : rx[i].id = 0
  BY DEF DeviceInit
<1>5. QED
  BY <1>1, <1>2, <1>3, <1>4
     DEF OutcomeIInv, OutcomeParts, OneAtATime, OwnIds, AnswersMade, AnswersTrue, NoneSince, PastOpen

\* An application that waits for one operation to end before it starts another
\* is told the truth, whatever was retried, lost or late: after an open that
\* succeeds the modem is open, and after a close that succeeds it is closed.
\* MaxTasks <= MaxTid: no transaction id has been given twice
THEOREM OutcomesAreTrueHolds ==
  ASSUME Patient, MaxTasks <= MaxTid
  PROVE  DeviceSpec => OutcomesAreTrue
<1> DEFINE A == \A o \in Op : TrueOutcome(o)
<1>1. DeviceInit => OutcomeIInv
  BY OutcomeInit
<1>2. OutcomeIInv /\ [DeviceNext]_devVars => OutcomeIInv' /\ A
  BY OutcomeStep
<1>3. A <=> \A o \in Op :
              ops[o].result = "pending" /\ ops'[o].result = "ok" /\ ops[o].kind = ops'[o].kind =>
                /\ ops[o].kind = "open"  => in_session \/ modem_open'
                /\ ops[o].kind = "close" => ~modem_open'
  BY DEF TrueOutcome
<1>4. QED BY <1>1, <1>2, <1>3, PTL DEF DeviceSpec, OutcomesAreTrue

=============================================================================
