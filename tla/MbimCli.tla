------------------------------- MODULE MbimCli -------------------------------
(* The command line tool, mbimcli.c: from the options given to the exit       *)
(* status.  The tool creates a device, opens it, runs one operation of one    *)
(* service, closes the device and leaves, every step in the callback of the   *)
(* one before.  A signal cancels the operation, a second one the main loop.   *)
EXTENDS MbimCliOperation, Naturals, FiniteSets

CONSTANTS ArgSets,        \* sets of options, each a pair of service and name
          MaxInterrupts   \* bound on the signals the user sends

BasicConnect == INSTANCE MbimCliBasicConnect
Extensions == INSTANCE MbimCliExtensions
Uicc == INSTANCE MbimCliUicc
Others == INSTANCE MbimCliServices

Noop == <<"main", "noop">>

(* The branches of all run functions, by service and option.                  *)
Run == Joined({Others!Run, [basic_connect |-> BasicConnect!Run,
                            ms_basic_connect_extensions |-> Extensions!Run,
                            ms_uicc_low_level_access |-> Uicc!Run]})

OptionGroups ==
    Joined({Others!OptionGroups,
            [basic_connect |-> BasicConnect!OptionGroup,
             ms_basic_connect_extensions |-> Extensions!OptionGroup,
             ms_uicc_low_level_access |-> Uicc!OptionGroup]})

Options == UNION {{s} \X OptionGroups[s] : s \in DOMAIN OptionGroups}
Branch(o) == Run[o[1]][o[2]]

ASSUME ArgSetsAssumption ==
    \A g \in ArgSets : g \subseteq Options \cup {Noop} /\ IsFiniteSet(g)
ASSUME MaxInterruptsAssumption == MaxInterrupts \in Nat

VARIABLES
    given,          \* the options on the command line
    flags,          \* --no-open, --no-close, and both MBIMEx versions at once
    waiting,        \* the library call whose callback is awaited
    closes,         \* calls of mbim_device_close() not answered yet
    cancellable,    \* the global GCancellable
    interrupts,     \* signals received
    interruptedAt,  \* what was going on when the first one came
    quitting,       \* g_main_loop_quit() waits in an idle source
    status,         \* operation_status
    dones,          \* calls of mbimcli_async_operation_done()
    seen,           \* the answers the operation got
    inSession,      \* the in-session property of the device
    session,        \* of the modem, as far as the tool knows
    exit            \* how the process ended

vars == <<given, flags, waiting, closes, cancellable, interrupts,
          interruptedAt, quitting, status, dones, seen, inSession, session,
          exit>>

input == <<given, flags>>
signal == <<cancellable, interrupts, interruptedAt, quitting>>

Flags == [no_open : BOOLEAN, no_close : BOOLEAN, both_mbimex : BOOLEAN]
TheOption == CHOOSE o \in given : TRUE

Init ==
    /\ given \in ArgSets
    /\ flags \in Flags
    /\ waiting = "start" /\ closes = 0
    /\ cancellable = "null" /\ interrupts = 0 /\ interruptedAt = "never"
    /\ quitting = FALSE
    /\ status = FALSE /\ dones = 0 /\ seen = {}
    /\ inSession = FALSE
    /\ session = IF flags.no_open THEN "open" ELSE "closed"
    /\ exit = "running"

Exit(how) ==
    /\ exit' = how
    /\ UNCHANGED <<input, signal, waiting, closes, status, dones, inSession>>

-----------------------------------------------------------------------------
(* From main() to the operation.                                              *)

(* <name>_options_enabled() and parse_actions(): one action of one service.   *)
OneAction == /\ Cardinality(given) = 1
             /\ ~flags.both_mbimex

Main ==
    /\ waiting = "start" /\ exit = "running"
    /\ \/ ~OneAction /\ Exit("failure")
       \/ /\ OneAction
          /\ cancellable' = "live"
          /\ waiting' = "new"
          /\ UNCHANGED <<input, interrupts, interruptedAt, quitting, closes,
                         status, dones, inSession, exit>>
    /\ UNCHANGED <<seen, session>>

(* A mutant in which a call that was cancelled in vain can succeed.           *)
MaySucceedMutant == TRUE

(* A library call that was cancelled fails, even when its answer is there.    *)
MaySucceed == cancellable # "cancelled"

(* An unreadable transaction id of --no-open ends the tool as well.           *)
DeviceNewReady ==
    /\ waiting = "new" /\ exit = "running"
    /\ \/ Exit("failure")
       \/ /\ MaySucceed
          /\ inSession' = flags.no_open
          /\ waiting' = "open"
          /\ UNCHANGED <<input, signal, closes, status, dones, exit>>
    /\ UNCHANGED <<seen, session>>

(* A mutant that leaves the in-session property as it was at the opening.     *)
DoneKeepsSession(ok, n) ==
    /\ status' = ok
    /\ dones' = dones + n
    /\ cancellable' = "null"
    /\ closes' = closes + n
    /\ session' = IF inSession THEN "open" ELSE "closing"
    /\ waiting' = "nothing"
    /\ UNCHANGED <<input, interrupts, interruptedAt, quitting, inSession, exit>>

(* mbimcli_async_operation_done(), called n times in a row: it keeps the      *)
(* status, drops the cancellable and closes the device.  An in-session device *)
(* is closed without a word to the modem.                                     *)
Done(ok, n) ==
    /\ status' = ok
    /\ dones' = dones + n
    /\ cancellable' = "null"
    /\ inSession' = flags.no_close
    /\ closes' = closes + n
    /\ session' = IF inSession' THEN "open" ELSE "closing"
    /\ waiting' = "nothing"
    /\ UNCHANGED <<input, interrupts, interruptedAt, quitting, exit>>

(* Nothing but a library call, or nothing at all, is left to wait for.        *)
Await(call) ==
    /\ waiting' = call
    /\ session' = "open"
    /\ UNCHANGED <<input, signal, closes, status, dones, inSession, exit>>

(* shutdown() frees the context of the operation: doing it twice is undefined *)
(* and may end the process.                                                   *)
Conclude(verdict) ==
    \/ verdict = "done" /\ Done(TRUE, 1)
    \/ verdict = "failed" /\ Done(FALSE, 1)
    \/ verdict = "twice" /\ Done(FALSE, 2)
    \/ verdict = "twice" /\ Exit("crashed") /\ session' = "open"
    \/ verdict = "forgotten" /\ Await("nothing")

(* The run function of the service, called with the device open.              *)
RunOption ==
    \/ given = {Noop} /\ Done(TRUE, 1)
    \/ /\ given # {Noop}
       /\ \E v \in Branch(TheOption).early : Conclude(v)
    \/ /\ given # {Noop}
       /\ Branch(TheOption).reply # Nothing
       /\ Await("command")

(* The modem has a session now: by the OPEN of this device, or left open by   *)
(* whoever used it before --no-open.                                          *)
DeviceOpenReady ==
    /\ waiting = "open" /\ exit = "running"
    /\ \/ Exit("failure") /\ UNCHANGED session
       \/ MaySucceed /\ RunOption
    /\ UNCHANGED seen

-----------------------------------------------------------------------------
(* The operation.                                                             *)

CommandReady ==
    /\ waiting = "command" /\ exit = "running"
    /\ \E a \in Answers :
          /\ a # "none" => MaySucceed
          /\ seen' = seen \cup {a}
          /\ LET verdict == Branch(TheOption).reply[a]
             IN  IF verdict = "ip_config"
                 THEN Await("ip_config") \/ Conclude("failed")
                 ELSE Conclude(verdict)

(* The request for the IP configuration after a connection is sent without    *)
(* the cancellable: the first signal does nothing to it.                      *)
IpConfigurationReady ==
    /\ waiting = "ip_config" /\ exit = "running"
    /\ \E a \in Answers :
          /\ seen' = seen \cup {a}
          /\ Conclude(BasicConnect!ip_configuration_query_ready[a])

(* device_close_ready() leaves the main loop, however the closing went.       *)
Leave == exit' = IF status THEN "success" ELSE "failure"

DeviceCloseReady ==
    /\ closes > 0 /\ exit = "running"
    /\ closes' = closes - 1
    /\ session' \in (IF inSession THEN {session} ELSE {"closed", "unknown"})
    /\ Leave
    /\ UNCHANGED <<input, signal, waiting, status, dones, seen, inSession>>

-----------------------------------------------------------------------------
(* Signals.                                                                   *)

SignalsHandler ==
    /\ waiting # "start" /\ exit = "running"
    /\ interrupts < MaxInterrupts
    /\ interrupts' = interrupts + 1
    /\ interruptedAt' = IF interrupts > 0 THEN interruptedAt
                        ELSE IF dones > 0 THEN "closing" ELSE waiting
    /\ IF cancellable = "live"
       THEN cancellable' = "cancelled" /\ UNCHANGED quitting
       ELSE quitting' = TRUE /\ UNCHANGED cancellable
    /\ UNCHANGED <<input, waiting, closes, status, dones, seen, inSession,
                   session, exit>>

MainLoopQuit ==
    /\ quitting /\ exit = "running"
    /\ Leave
    /\ UNCHANGED <<input, signal, waiting, closes, status, dones, seen,
                   inSession, session>>

Callback == \/ Main \/ DeviceNewReady \/ DeviceOpenReady \/ CommandReady
            \/ IpConfigurationReady \/ DeviceCloseReady \/ MainLoopQuit

Next == Callback \/ SignalsHandler

(* Every library call ends, by its timeout at the latest, and the main loop   *)
(* runs what is ready; nobody has to send signals.                            *)
Spec == Init /\ [][Next]_vars /\ WF_vars(Callback)

-----------------------------------------------------------------------------
(* Properties.                                                                *)

(* Options whose branches or callbacks have a path without shutdown().        *)
MayForget ==
    {<<"basic_connect", "query_device_services">>,
     <<"google", "query_carrier_lock">>,
     <<"intel_tools", "set_trace_config">>,
     <<"intel_tools", "query_trace_config">>,
     <<"ms_basic_connect_extensions", "query_version">>}

FinishesTwice ==
    {<<"ms_uicc_low_level_access", "set_uicc_terminal_capability">>}

IgnoresStatus == {<<"intel_thermal_rf", "set_rfim">>}

(* An exit status of success means that the modem (or the kernel) carried out *)
(* every request of the operation: no answer was missing or an error.  The    *)
(* one option whose callback does not look at the status is excepted.         *)
SuccessIsReal ==
    exit = "success" /\ given \cap IgnoresStatus = {}
        => seen \cap {"none", "refused"} = {}

(* An operation is finished at most once, and only when no callback of it can *)
(* still come: its context is gone.  The option that finishes twice on an     *)
(* unknown key is excepted.                                                   *)
FinishedOnce ==
    given \cap FinishesTwice = {}
        => /\ dones <= 1 /\ exit # "crashed"
           /\ dones = 1 => waiting = "nothing"

(* An operation the user interrupted while its first request was under way,   *)
(* or earlier, never ends in success, even when the answer had come already.  *)
InterruptedFails ==
    exit = "success" => interruptedAt \in {"never", "ip_config", "closing"}

(* Once the operation is finished, the tool leaves the modem's session open   *)
(* with --no-close and only then, whoever opened it.                          *)
SessionAsAsked ==
    dones > 0 => (flags.no_close <=> session = "open")

(* The tool ends by itself whatever the modem answers, except for the options *)
(* that may forget to finish; and for those, too, a second signal ends it.    *)
Ends == (given \cap MayForget = {} \/ interrupts = 2) ~> (exit # "running")

=============================================================================
