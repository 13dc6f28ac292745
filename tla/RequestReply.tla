---------------------------- MODULE RequestReply ----------------------------
(***************************************************************************)
(* What mbim_device_command() promises its callers: a request that was     *)
(* accepted is answered, once, and an answer is never taken back.          *)
(***************************************************************************)
CONSTANTS Request, Reply, NoReply  \* NoReply is no member of Reply

VARIABLES pending,  \* requests accepted and not yet answered
          reply     \* the answer given to each request

vars == <<pending, reply>>

Init == /\ pending = {}
        /\ reply = [r \in Request |-> NoReply]

Accept(r) == /\ r \notin pending
             /\ reply[r] = NoReply
             /\ pending' = pending \cup {r}
             /\ UNCHANGED reply

Answer(r, a) == /\ r \in pending
                /\ pending' = pending \ {r}
                /\ reply' = [reply EXCEPT ![r] = a]

Next == \E r \in Request : Accept(r) \/ \E a \in Reply : Answer(r, a)

Spec == Init /\ [][Next]_vars

FairSpec == Spec /\ \A r \in Request : WF_vars(\E a \in Reply : Answer(r, a))
=============================================================================
