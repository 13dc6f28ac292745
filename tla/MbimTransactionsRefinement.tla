--------------------- MODULE MbimTransactionsRefinement ---------------------
(***************************************************************************)
(* The transaction table implements RequestReply: the caller of a request  *)
(* sees the moment its callback is run, whatever the table, the collector, *)
(* the timers and the idle sources did before.                             *)
(***************************************************************************)
EXTENDS MbimTransactions

Requested == {t \in Created : ctx[t].kind = HOST}

PendingBar == {t \in Requested : called[t] = 0}
ReplyBar   == [t \in Task |-> IF t \in Requested /\ called[t] > 0 THEN result[t] ELSE "pending"]

Abstract == INSTANCE RequestReply
              WITH Request <- Task, Reply <- Outcome, NoReply <- "pending",
                   pending <- PendingBar, reply <- ReplyBar

\* mbim_device_command: every request handed to the device is answered exactly
\* once, and its answer does not change afterwards.
RequestsAnsweredOnce == Abstract!Spec

\* ... and it is answered in the end: no request hangs, also when the modem is
\* silent or the device is closed by force with the request outstanding.
RequestsAnswered == Abstract!FairSpec
=============================================================================
