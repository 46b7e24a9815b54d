---------------------------- MODULE MCHopsOutput ----------------------------
(* Instances of HopsOutput for TLC. *)
EXTENDS HopsOutput

CONSTANTS p1, p2, h1, h2

OneHost  == [p \in Proc |-> h1]
NoSkew   == [h \in Host |-> 0]
=============================================================================
