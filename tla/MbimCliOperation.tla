-------------------------- MODULE MbimCliOperation --------------------------
(* The vocabulary of mbimcli's operations (src/src/mbimcli).  Every option of *)
(* the tool is served by a branch of some mbimcli_<service>_run(), which      *)
(* reads the option's argument and sends one request, and by a <name>_ready() *)
(* callback, which looks at what came back.  Both must end in shutdown(),     *)
(* that is in one call of mbimcli_async_operation_done(): nothing else makes  *)
(* the tool go on.                                                            *)
(*                                                                            *)
(* What is printed is left out, and so is the MBIMEx version, which chooses   *)
(* between parsers that are used in the same way.                             *)

(* What mbim_device_command_finish(), mbim_message_response_get_result() and  *)
(* the parser of the response make of an answer: no response at all, a status *)
(* that is an error, an information buffer the parser refuses, all in order.  *)
Answers == {"none", "refused", "garbled", "good"}

(* How a callback, or a branch that rejects its argument, leaves the          *)
(* operation: finished with TRUE or FALSE, finished twice, never finished, or *)
(* continued with a second request for the IP configuration.                  *)
Verdicts == {"done", "failed", "twice", "forgotten", "ip_config"}

(* The callback that checks everything and then reports success.              *)
Checked == [a \in Answers |-> IF a = "good" THEN "done" ELSE "failed"]

(* No information buffer is expected: only the status counts.                 *)
Unparsed == [Checked EXCEPT !["garbled"] = "done"]

(* The branch for a buffer that cannot be parsed has no shutdown().           *)
ForgetsGarbled == [Checked EXCEPT !["garbled"] = "forgotten"]

(* The status of the response is not looked at.                               *)
TrustsAny == [Unparsed EXCEPT !["refused"] = "done"]

(* A branch of a run function: early are the verdicts it can reach by itself, *)
(* reply is the callback of the request it sends otherwise.                   *)
Asks(reply) == [early |-> {}, reply |-> reply]
Reads(reply) == [early |-> {"failed"}, reply |-> reply]
ReadsForgetful(reply) == [early |-> {"forgotten"}, reply |-> reply]

(* The branch that asks the modem nothing.                                    *)
Nothing == << >>

(* The branches of a run function from those of its parts, which have no      *)
(* option in common.  (The proofs cannot expand the operator @@ of TLC.)      *)
Joined(parts) ==
    [x \in UNION {DOMAIN p : p \in parts} |->
        (CHOOSE p \in parts : x \in DOMAIN p)[x]]

=============================================================================
