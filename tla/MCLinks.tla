------------------------------- MODULE MCLinks -------------------------------
(* Links of two names; an earlier process left none, or one for each session; *)
(* another process meddles with the link of the last session.                 *)
EXTENDS MbimLinks

CONSTANTS wwan, mux

MCLeftovers == { {}, [prefix : {mux}, session : 0..MaxSession] }
MCForeign == {[prefix |-> mux, session |-> MaxSession]}
=============================================================================
