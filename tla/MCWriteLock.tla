---------------------------- MODULE MCWriteLock ----------------------------
(* Instances of WriteLock for TLC. *)
EXTENDS WriteLock

CONSTANTS p1, p2, h1, h2

OneHost  == [p \in Proc |-> h1]
TwoHosts == [p \in Proc |-> IF p = p1 THEN h1 ELSE h2]
NoSkew   == [h \in Host |-> 0]
SkewedClocks == [h \in Host |-> IF h = h1 THEN 1 ELSE 0]
=============================================================================
