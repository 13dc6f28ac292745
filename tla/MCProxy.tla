------------------------------ MODULE MCProxy ------------------------------
(* Instances of MbimProxy for TLC *)
EXTENDS MbimProxy, TLC

\* The slots of clients, devices and requests are interchangeable
Symmetry == Permutations(Client) \cup Permutations(Device) \cup Permutations(Request)
=============================================================================
