----------------------------- MODULE MCMK4Output -----------------------------
(* Instances of MK4Output for TLC. *)
EXTENDS MK4Output

CONSTANTS p1, p2, h1, h2

OneHost  == [p \in Proc |-> h1]
NoSkew   == [h \in Host |-> 0]
Uneven   == [p \in Proc |-> IF p = p1 THEN 2 ELSE 1]
=============================================================================
