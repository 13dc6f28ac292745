----------------------------- MODULE MbimDevice -----------------------------
(***************************************************************************)
(* Opening and closing an MbimDevice (src/libmbim-glib/mbim-device.c): the *)
(* open and close operations run on top of the transaction table, whose    *)
(* actions are those of MbimTransactions.                                  *)
(*                                                                         *)
(* An open operation is a chain of requests, each sent by the callback of  *)
(* the one before; in between anything may happen: the application cancels *)
(* it or closes the device by force, the port hangs up, a timer fires, a   *)
(* late answer arrives.  The modem handles a request when it is written,   *)
(* and answers in order, late, or not at all.                              *)
(***************************************************************************)
EXTENDS MbimTransactions, FiniteSets

CONSTANTS MaxOps,           \* bound: open and close operations in a behaviour
          MaxCommands,      \* bound: commands of the application in a behaviour
          MaxSpawnRetries,  \* MAX_SPAWN_RETRIES (10), made smaller
          OpenFlags,        \* the flags an application opens with
          InSession,        \* the values device-in-session takes
          Patient           \* the application waits for an operation to end
                            \* before it starts another one

ASSUME DeviceAssumption == /\ MaxOps \in Nat \ {0}
                           /\ MaxCommands \in Nat
                           /\ MaxSpawnRetries \in Nat \ {0}
                           /\ OpenFlags \subseteq [proxy : BOOLEAN, mbimex : {"none", "v2", "both"}]
                           /\ InSession \subseteq BOOLEAN /\ InSession # {}
                           /\ Patient \in BOOLEAN

\* DeviceOpenContextStep
CREATE_IOCHANNEL == 1
FLAGS_PROXY      == 2
CLOSE_MESSAGE    == 3
OPEN_MESSAGE     == 4
DEVICE_SERVICES  == 5
MS_EXT_VERSION   == 6
LAST             == 7
Step == CREATE_IOCHANNEL..LAST

Op == 1..MaxOps
Application == 0       \* owns the requests that belong to no operation

\* DeviceOpenContext and DeviceCloseContext with their GTask.  channel is where
\* create_iochannel is; unsure is a history variable: the modem was found in an
\* unknown state, and no CLOSE was requested since.
Operation == [kind              : {"unused", "open", "close"},
              flags             : [proxy : BOOLEAN, mbimex : {"none", "v2", "both"}],
              step              : Step,
              close_before_open : BOOLEAN,
              channel           : {"none", "connecting", "made", "failed"},
              spawn_retries     : 0..MaxSpawnRetries,
              cancelled         : BOOLEAN,
              unsure            : BOOLEAN,
              result            : {"pending", "ok", "failed", "timeout", "cancelled"}]

\* (Again, operators named ...Mutant are wrong on purpose.)
Unused == [kind |-> "unused", flags |-> [proxy |-> FALSE, mbimex |-> "none"],
           step |-> CREATE_IOCHANNEL, close_before_open |-> FALSE, channel |-> "none",
           spawn_retries |-> 0, cancelled |-> FALSE, unsure |-> FALSE, result |-> "pending"]

\* What the modem puts in the pipe: the answer to a request, or a FUNCTION_ERROR
Answer == [to : RequestType, id : Tid \cup {0}, ok : BOOLEAN, error : BOOLEAN]

VARIABLES
  open_status,          \* priv->open_status
  open_transaction_id,  \* priv->open_transaction_id
  in_session,           \* priv->in_session
  ops,                  \* the operations called so far
  owner,                \* the operation that waits for each task
  handled,              \* the callback of the running task has done its work
  connected,            \* operation whose create_iochannel_ready ends this dispatch
  answered,             \* tasks answered with a status of success
  aborted,              \* g_assert() ended the process
  modem_open,           \* the modem is in the state that OPEN brings it to
  rx                    \* answers of the modem not read yet

opVars    == <<ops, owner, handled, connected>>
statusVars == <<open_status, open_transaction_id, in_session>>
modemVars == <<modem_open, rx>>
ownVars   == <<opVars, statusVars, modemVars, answered, aborted>>
devVars   == <<txnVars, ownVars>>

DeviceTypeOK ==
  /\ TxnTypeOK
  /\ open_status \in {"CLOSED", "OPENING", "OPEN"}
  /\ open_transaction_id \in Tid \cup {0}
  /\ in_session \in BOOLEAN
  /\ ops \in [Op -> Operation]
  /\ owner \in [Task -> Op \cup {Application}]
  /\ handled \in BOOLEAN
  /\ connected \in Op \cup {0}
  /\ answered \in SUBSET Task
  /\ aborted \in BOOLEAN
  /\ modem_open \in BOOLEAN
  /\ rx \in Seq(Answer)

\* Whoever used the modem before may have left it open, and a CLOSE_DONE in
\* the pipe that nobody here waits for
DeviceInit ==
  /\ TxnInit
  /\ open_status = "CLOSED"
  /\ open_transaction_id = 0
  /\ in_session \in InSession
  /\ ops = [o \in Op |-> Unused]
  /\ owner = [t \in Task |-> Application]
  /\ handled = FALSE
  /\ connected = 0
  /\ answered = {}
  /\ aborted = FALSE
  /\ modem_open \in BOOLEAN
  /\ rx \in {<<>>, <<[to |-> "CLOSE", id |-> 0, ok |-> TRUE, error |-> FALSE]>>}

Pending(o) == ops[o].kind # "unused" /\ ops[o].result = "pending"

\* The process runs, and no dispatch is waiting for create_iochannel_ready
Alive == ~aborted /\ connected = 0

-----------------------------------------------------------------------------
(* The modem.                                                              *)

\* A request written to the channel: lost, handled with the answer lost, or
\* handled and answered
Transmit(type, id) ==
  \/ UNCHANGED modemVars
  \/ \E ok, error \in BOOLEAN, lost \in BOOLEAN :
       /\ ok => ~error
       /\ lost => ok
       /\ modem_open' = IF ok /\ type = "OPEN" THEN TRUE
                        ELSE IF ok /\ type = "CLOSE" THEN FALSE ELSE modem_open
       /\ rx' = IF lost THEN rx
                ELSE Append(rx, [to |-> type, id |-> id, ok |-> ok, error |-> error])

\* mbim_device_command, called for operation o (or for the application); with
\* the cancellable already cancelled the request is aborted before it is sent
Request(o, type, cancelled) ==
  LET t == ntasks + 1
  IN /\ Command(type)
     /\ iochannel => (result'[t] = "aborted") = cancelled
     /\ owner' = [owner EXCEPT ![t] = o]
     /\ IF result'[t] = "pending" THEN Transmit(type, transaction_id)
                                  ELSE UNCHANGED modemVars
     /\ UNCHANGED <<answered, aborted>>

-----------------------------------------------------------------------------
(* The open operation.                                                     *)

\* g_task_return_*() of an operation: a cancelled one always reports that
Returned(p, r) == [p EXCEPT !.result = IF p.cancelled THEN "cancelled" ELSE r]

StopsMutant(p, s) ==
  \/ s = FLAGS_PROXY /\ p.flags.proxy
  \/ s = OPEN_MESSAGE /\ ~in_session
  \/ s \in {DEVICE_SERVICES, MS_EXT_VERSION} /\ p.flags.mbimex # "none"
  \/ s = LAST

\* The steps at which device_open_context_step does something and returns
Stops(p, s) ==
  \/ s = FLAGS_PROXY /\ p.flags.proxy
  \/ s = CLOSE_MESSAGE /\ p.close_before_open
  \/ s = OPEN_MESSAGE /\ ~in_session
  \/ s \in {DEVICE_SERVICES, MS_EXT_VERSION} /\ p.flags.mbimex # "none"
  \/ s = LAST

\* ... and the one it falls through to from p.step
StopAt(p) == CHOOSE s \in p.step..LAST : /\ Stops(p, s)
                                         /\ \A u \in p.step..(s - 1) : ~Stops(p, u)

RequestOf(step) == IF step = OPEN_MESSAGE THEN "OPEN"
                   ELSE IF step = CLOSE_MESSAGE THEN "CLOSE" ELSE "COMMAND"

\* The open operation returns, leaving the given status and open_transaction_id
OpenReturns(o, p, r, status, id) ==
  /\ ops' = [ops EXCEPT ![o] = Returned(p, r)]
  /\ open_status' = status
  /\ open_transaction_id' = id
  /\ UNCHANGED <<txnVars, owner, modemVars, answered, aborted>>

\* proxy_cfg_message, close_message_before_open, open_message,
\* device_services_message and ms_ext_version_message
SendStep(o, p, id) ==
  LET closing == p.step = CLOSE_MESSAGE
  IN /\ Request(o, RequestOf(p.step), p.cancelled)
     /\ ops' = [ops EXCEPT ![o] = [p EXCEPT
                  !.close_before_open = p.close_before_open /\ ~closing,
                  !.unsure = p.unsure /\ ~closing]]
     /\ open_transaction_id' = IF p.step = OPEN_MESSAGE THEN transaction_id ELSE id
     /\ UNCHANGED open_status

\* device_open_context_step of an operation past its first step, with the
\* context p; id is the open_transaction_id its caller left
ContextStep(o, p, id) ==
  \/ OpenReturns(o, p, "timeout", "CLOSED", id)     \* the total timeout elapsed
  \/ LET q == [p EXCEPT !.step = StopAt(p)]
     IN \/ q.step = LAST /\ OpenReturns(o, q, "ok", "OPEN", id)
        \/ /\ q.step = MS_EXT_VERSION               \* both MBIMEx 2.0 and 3.0 requested
           /\ q.flags.mbimex = "both"
           /\ OpenReturns(o, q, "failed", open_status, id)
        \/ /\ q.step # LAST
           /\ ~(q.step = MS_EXT_VERSION /\ q.flags.mbimex = "both")
           /\ SendStep(o, q, id)

\* create_iochannel_ready
CreateIochannelReady(o) ==
  LET p == ops[o]
  IN /\ ~aborted /\ connected \in {0, o}
     /\ Quiet
     /\ Pending(o)
     /\ connected' = 0
     /\ UNCHANGED <<in_session, handled>>
     /\ \/ /\ p.channel = "failed"
           /\ OpenReturns(o, [p EXCEPT !.channel = "none"], "failed", "CLOSED", open_transaction_id)
        \/ /\ p.channel = "made"
           /\ ContextStep(o, [p EXCEPT !.channel = "none", !.step = FLAGS_PROXY],
                          open_transaction_id)

WaitForProxyMutant(o) ==
  LET p == ops[o]
  IN /\ Alive
     /\ Quiet
     /\ Pending(o)
     /\ p.channel = "connecting"
     /\ ops' = [ops EXCEPT ![o].channel = IF p.spawn_retries < MaxSpawnRetries THEN @ ELSE "none",
                           ![o].spawn_retries = IF @ < MaxSpawnRetries THEN @ + 1 ELSE @]
     /\ UNCHANGED <<txnVars, connected, owner, handled, statusVars, modemVars, answered, aborted>>

\* wait_for_proxy_cb: create_iochannel_with_socket once more.  The task is
\* older than this dispatch, so create_iochannel_ready follows at once.
WaitForProxy(o) ==
  LET p == ops[o]
  IN /\ Alive
     /\ Quiet
     /\ Pending(o)
     /\ p.channel = "connecting"
     /\ \/ /\ p.spawn_retries < MaxSpawnRetries
           /\ ops' = [ops EXCEPT ![o].spawn_retries = @ + 1]
           /\ UNCHANGED <<txnVars, connected>>
        \/ /\ p.spawn_retries = MaxSpawnRetries
           /\ ops' = [ops EXCEPT ![o].channel = "failed"]
           /\ connected' = o
           /\ UNCHANGED txnVars
        \/ /\ ops' = [ops EXCEPT ![o].channel = "made"]
           /\ connected' = o
           /\ IF iochannel THEN UNCHANGED txnVars ELSE OpenChannel
     /\ UNCHANGED <<owner, handled, statusVars, modemVars, answered, aborted>>

\* The callback of the operation that waits for the running task
Replied(o) == running # None /\ owner[running] = o /\ o # Application /\ ~handled

\* A message was returned, and mbim_message_response_get_result() accepts it
HasResponse == result[running] \in Successes

SucceededMutant == result[running] = "response"

Succeeded == result[running] = "response" /\ running \in answered

ProxyCfgMessageReady(o) ==
  /\ ops[o].kind = "open" /\ ops[o].step = FLAGS_PROXY
  /\ IF HasResponse
     THEN ContextStep(o, [ops[o] EXCEPT !.step = CLOSE_MESSAGE], open_transaction_id)
     ELSE OpenReturns(o, ops[o], "failed", "CLOSED", open_transaction_id)

CloseMessageBeforeOpenReady(o) ==
  /\ ops[o].kind = "open" /\ ops[o].step = CLOSE_MESSAGE
  /\ ContextStep(o, [ops[o] EXCEPT !.step = OPEN_MESSAGE], open_transaction_id)

OpenMessageReadyMutant(o) ==
  LET p == ops[o]
      r == result[running]
  IN /\ p.kind = "open" /\ p.step = OPEN_MESSAGE
     /\ \/ /\ r = "timeout"
           /\ UNCHANGED <<txnVars, ops, owner, open_status, open_transaction_id, modemVars,
                          answered, aborted>>
        \/ Succeeded /\ ContextStep(o, [p EXCEPT !.step = DEVICE_SERVICES], 0)
        \/ /\ r # "timeout" /\ ~Succeeded
           /\ OpenReturns(o, p, "failed", "CLOSED", 0)

OpenMessageReady(o) ==
  LET p == ops[o]
      r == result[running]
  IN /\ p.kind = "open" /\ p.step = OPEN_MESSAGE
     /\ \/ /\ r = "unknown_state"
           /\ ContextStep(o, [p EXCEPT !.close_before_open = TRUE, !.step = CLOSE_MESSAGE], 0)
        \/ r = "timeout" /\ ContextStep(o, p, 0)
        \/ Succeeded /\ ContextStep(o, [p EXCEPT !.step = DEVICE_SERVICES], 0)
        \/ /\ r \notin {"unknown_state", "timeout"}
           /\ ~Succeeded
           /\ OpenReturns(o, p, "failed", "CLOSED", 0)

\* The version command may be supported by the modem, or not
DeviceServicesMessageReady(o) ==
  /\ ops[o].kind = "open" /\ ops[o].step = DEVICE_SERVICES
  /\ IF Succeeded
     THEN \E next \in {MS_EXT_VERSION, LAST} :
            ContextStep(o, [ops[o] EXCEPT !.step = next], open_transaction_id)
     ELSE OpenReturns(o, ops[o], "failed", open_status, open_transaction_id)

MsExtVersionMessageReady(o) ==
  /\ ops[o].kind = "open" /\ ops[o].step = MS_EXT_VERSION
  /\ IF Succeeded
     THEN ContextStep(o, [ops[o] EXCEPT !.step = LAST], open_transaction_id)
     ELSE OpenReturns(o, ops[o], "failed", open_status, open_transaction_id)

-----------------------------------------------------------------------------
(* Closing.                                                                *)

CloseNowMutant ==
  /\ open_status' = "CLOSED"
  /\ iochannel' = FALSE
  /\ transactions' = [k \in TransactionType |-> [id \in Tid |-> None]]
  /\ UNCHANGED <<taskVars, collectorVars, timeout_source, returnVars, transaction_id,
                 pending_error_indication, reports>>

\* What an operation that closes the channel successfully returns: the channel
\* is gone also when shutting it down fails, which destroy_iochannel reports
DestroyResults == IF iochannel THEN {"ok", "failed"} ELSE {"ok"}

\* open_status = CLOSED and destroy_iochannel
CloseNow ==
  /\ open_status' = "CLOSED"
  /\ IF iochannel THEN CloseForce ELSE UNCHANGED txnVars

CloseMessageReady(o) ==
  /\ ops[o].kind = "close"
  /\ CloseNow
  /\ \E r \in DestroyResults :
       ops' = [ops EXCEPT ![o] = Returned(ops[o], IF Succeeded THEN r ELSE "failed")]
  /\ UNCHANGED <<owner, open_transaction_id, modemVars, answered, aborted>>

OperationReplied(o) ==
  /\ Alive
  /\ Replied(o)
  /\ handled' = TRUE
  /\ UNCHANGED <<connected, in_session>>
  /\ \/ ProxyCfgMessageReady(o)
     \/ CloseMessageBeforeOpenReady(o)
     \/ OpenMessageReady(o)
     \/ DeviceServicesMessageReady(o)
     \/ MsExtVersionMessageReady(o)
     \/ CloseMessageReady(o)

-----------------------------------------------------------------------------
(* Calls of the application: from a dispatch of its own, from the callback *)
(* of a command, or from the callback of an operation that just returned.  *)

AppTurn ==
  /\ Alive
  /\ \/ Quiet
     \/ running # None /\ owner[running] = Application
     \/ /\ running # None
        /\ handled /\ ops[owner[running]].result \in {"ok", "failed", "timeout"}

\* An unused slot, taken in order
NewOp(o) == /\ ops[o].kind = "unused"
            /\ \A u \in Op : u < o => ops[u].kind # "unused"
            /\ Patient => \A u \in Op : ~Pending(u)

\* mbim_device_open_full: the first step, create_iochannel and
\* create_iochannel_with_fd or create_iochannel_with_socket
OpenFull(o, flags) ==
  LET p == [Unused EXCEPT !.kind = "open", !.flags = flags]
  IN /\ AppTurn
     /\ NewOp(o)
     /\ UNCHANGED <<owner, handled, connected, open_transaction_id, in_session,
                    modemVars, answered, aborted>>
     /\ \/ /\ open_status # "CLOSED"        \* already open, or opening
           /\ ops' = [ops EXCEPT ![o] = Returned(p, "failed")]
           /\ UNCHANGED <<txnVars, open_status>>
        \/ /\ open_status = "CLOSED"
           /\ open_status' = "OPENING"
           /\ \/ /\ ops' = [ops EXCEPT ![o] = [p EXCEPT !.channel = "failed"]]
                 /\ UNCHANGED txnVars
              \/ /\ ~iochannel
                 /\ ops' = [ops EXCEPT ![o] = [p EXCEPT !.channel = "made"]]
                 /\ OpenChannel
              \/ /\ ~iochannel /\ flags.proxy
                 /\ ops' = [ops EXCEPT ![o] = [p EXCEPT !.channel = "connecting",
                                                          !.spawn_retries = 1]]
                 /\ UNCHANGED txnVars

\* mbim_device_close
Close(o) ==
  LET p == [Unused EXCEPT !.kind = "close"]
  IN /\ AppTurn
     /\ NewOp(o)
     /\ UNCHANGED <<handled, connected, open_transaction_id, in_session>>
     /\ \/ /\ open_status = "CLOSED"
           /\ ops' = [ops EXCEPT ![o] = Returned(p, "ok")]
           /\ UNCHANGED <<txnVars, owner, open_status, modemVars, answered, aborted>>
        \/ /\ open_status = "OPENING"       \* not yet fully open
           /\ ops' = [ops EXCEPT ![o] = Returned(p, "failed")]
           /\ UNCHANGED <<txnVars, owner, open_status, modemVars, answered, aborted>>
        \/ /\ open_status = "OPEN" /\ in_session
           /\ CloseNow
           /\ \E r \in DestroyResults : ops' = [ops EXCEPT ![o] = Returned(p, r)]
           /\ UNCHANGED <<owner, modemVars, answered, aborted>>
        \/ /\ open_status = "OPEN" /\ ~in_session
           /\ ops' = [ops EXCEPT ![o] = p]
           /\ Request(o, "CLOSE", FALSE)
           /\ UNCHANGED open_status

\* mbim_device_close_force
ForceClose ==
  /\ AppTurn
  /\ CloseNow
  /\ UNCHANGED <<opVars, open_transaction_id, in_session, modemVars, answered, aborted>>

\* The application cancels an operation, and with it the request it waits for
CancelOperation(o) ==
  /\ AppTurn
  /\ Pending(o) /\ ~ops[o].cancelled
  /\ ops' = [ops EXCEPT ![o].cancelled = TRUE]
  /\ \/ \E t \in Task : owner[t] = o /\ TransactionCancelled(t)
     \/ /\ \A id \in Tid : transactions[HOST][id] # None => owner[transactions[HOST][id]] # o
        /\ UNCHANGED txnVars
  /\ UNCHANGED <<owner, handled, connected, statusVars, modemVars, answered, aborted>>

\* mbim_device_command, and its cancellation
AppCommand ==
  /\ AppTurn
  /\ Cardinality({t \in Created : owner[t] = Application}) < MaxCommands
  /\ \E cancelled \in BOOLEAN : Request(Application, "COMMAND", cancelled)
  /\ UNCHANGED <<ops, handled, connected, statusVars>>

CancelCommand ==
  /\ AppTurn
  /\ \E t \in Created : owner[t] = Application /\ TransactionCancelled(t)
  /\ UNCHANGED ownVars

\* set_property of device-in-session, between operations
SetInSession ==
  /\ AppTurn
  /\ \A o \in Op : ~Pending(o)
  /\ in_session' \in InSession \ {in_session}
  /\ UNCHANGED <<txnVars, opVars, open_status, open_transaction_id, modemVars, answered, aborted>>

-----------------------------------------------------------------------------
(* What the channel delivers.                                              *)

\* data_available with G_IO_HUP
Hangup ==
  /\ Alive
  /\ Reading
  /\ CloseNow
  /\ UNCHANGED <<opVars, open_transaction_id, in_session, modemVars, answered, aborted>>

\* process_message finds a request for the answer m ...
Matches(m) == /\ m.id # 0
              /\ transactions[HOST][m.id] # None
              /\ m.error \/ ctx[transactions[HOST][m.id]].type = m.to

ReceiveAnswer(m) ==
  /\ Matches(m)
  /\ IF m.error THEN ReceiveFunctionError(m.id)
     ELSE IF m.to = "COMMAND" THEN ReceiveFragment(HOST, "COMMAND", m.id, 0, 1)
     ELSE ReceiveDone(m.to, m.id)
  /\ answered' = IF m.ok THEN answered \cup {transactions[HOST][m.id]} ELSE answered
  /\ UNCHANGED <<opVars, statusVars, aborted>>

\* ... or does not: the message is dropped, but a CLOSE_DONE while opening
\* gives the OPEN up (finalize_pending_open_request)
Unmatched(m) ==
  LET finalize == /\ open_status = "OPENING"
                  /\ m.to = "CLOSE" /\ ~m.error
                  /\ open_transaction_id # 0
      t == transactions[HOST][open_transaction_id]
  IN /\ ~Matches(m)
     /\ UNCHANGED <<owner, handled, connected, answered, open_status, in_session>>
     /\ \/ /\ ~finalize
           /\ UNCHANGED <<txnVars, ops, open_transaction_id, aborted>>
        \/ /\ finalize
           /\ FinalizePendingOpen(open_transaction_id)
           /\ open_transaction_id' = 0
           /\ ops' = IF owner[t] = Application THEN ops ELSE [ops EXCEPT ![owner[t]].unsure = TRUE]
           /\ UNCHANGED aborted
        \/ /\ finalize                      \* g_assert (task)
           /\ ~(t # None /\ ctx[t].type = "OPEN")
           /\ aborted' = TRUE
           /\ UNCHANGED <<txnVars, ops, open_transaction_id>>

ReadMessage ==
  /\ Alive
  /\ Reading
  /\ rx # <<>>
  /\ rx' = Tail(rx)
  /\ UNCHANGED modem_open
  /\ ReceiveAnswer(Head(rx)) \/ Unmatched(Head(rx))

-----------------------------------------------------------------------------
\* The callback of a task returns, after it has done its work
CallbackReturns ==
  /\ Alive
  /\ running # None
  /\ owner[running] = Application \/ handled
  /\ RunCallback
  /\ handled' = FALSE
  /\ UNCHANGED <<ops, owner, connected, statusVars, modemVars, answered, aborted>>

\* The timers and idle sources of the transaction table
Dispatch(A) == Alive /\ A /\ UNCHANGED ownVars

DeviceNext ==
  \/ \E o \in Op : \/ \E flags \in OpenFlags : OpenFull(o, flags)
                   \/ Close(o)
                   \/ CancelOperation(o)
                   \/ CreateIochannelReady(o)
                   \/ WaitForProxy(o)
                   \/ OperationReplied(o)
  \/ ForceClose
  \/ AppCommand
  \/ CancelCommand
  \/ SetInSession
  \/ Hangup
  \/ ReadMessage
  \/ CallbackReturns
  \/ \E t \in Task : Dispatch(TransactionTimedOut(t))
  \/ Dispatch(RunIdle)
  \/ Dispatch(EmitError)

DeviceSpec == DeviceInit /\ [][DeviceNext]_devVars

\* The main loop dispatches what is ready; nothing is asked of the application,
\* of the modem, or of the port
DeviceFairness ==
  /\ \A o \in Op : /\ WF_devVars(CreateIochannelReady(o))
                   /\ WF_devVars(WaitForProxy(o))
                   /\ WF_devVars(OperationReplied(o))
  /\ WF_devVars(CallbackReturns)
  /\ \A t \in Task : WF_devVars(Dispatch(TransactionTimedOut(t)))
  /\ WF_devVars(Dispatch(RunIdle))
  /\ WF_devVars(Dispatch(EmitError))

DeviceFairSpec == DeviceSpec /\ DeviceFairness

-----------------------------------------------------------------------------
(* Properties.                                                             *)

\* A pending operation always waits for exactly one thing that will call it
\* back: its channel, or one of its requests.  Otherwise the handler that had
\* it last forgot it, or two handlers drive it at once.
Outstanding(t) == /\ t \in Created
                  /\ called[t] = 0
                  /\ ~(running = t /\ handled)

OperationAdvances ==
  \A o \in Op :
    Cardinality({t \in Task : owner[t] = o /\ Outstanding(t)})
      + (IF ops[o].channel # "none" THEN 1 ELSE 0) = IF Pending(o) THEN 1 ELSE 0

\* The result of an operation is true of the modem: an open that succeeds
\* leaves it open (or was told that it is), and a close that sent its CLOSE
\* and succeeds leaves it closed, whatever was retried, lost or late before.
OutcomesAreTrue ==
  [][\A o \in Op :
       ops[o].result = "pending" /\ ops'[o].result = "ok" /\ ops[o].kind = ops'[o].kind =>
         /\ ops[o].kind = "open"  => in_session \/ modem_open'
         /\ ops[o].kind = "close" => ~modem_open']_devVars

\* "finalize the open request right away to trigger a close before open": no
\* OPEN is requested again before that CLOSE was
CloseBeforeReopen ==
  [][\A t \in Created' \ Created :
       ctx'[t].type = "OPEN" => ~ops[owner'[t]].unsure]_devVars

\* Every operation ends, also when the modem is silent, the port hangs up, or
\* the proxy never comes up (unless an assertion ends the process first)
OperationsEnd == \A o \in Op : Pending(o) ~> (~Pending(o) \/ aborted)

\* The operations use the transaction table as MbimTransactions describes it
UsesTransactions == TxnSpec

-----------------------------------------------------------------------------
(* What a comment or the documentation says, and the code does not do.     *)

\* "If there is a valid open_transaction_id, there must be a valid transaction":
\* the assertion in finalize_pending_open_request never fails.
AssertionHolds == ~aborted

=============================================================================
