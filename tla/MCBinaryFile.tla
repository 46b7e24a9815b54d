---------------------------- MODULE MCBinaryFile -----------------------------
(* Instances of BinaryFile for TLC. *)
EXTENDS BinaryFile

CONSTANTS A, B

\* an object as large as a key, one of a class without a factory, one
\* of a later version, one whose sizes differ
SomeKinds ==
  { [class |-> A, current |-> TRUE,  declared |-> 2, actual |-> 2],
    [class |-> B, current |-> TRUE,  declared |-> 2, actual |-> 2],
    [class |-> A, current |-> FALSE, declared |-> 2, actual |-> 2],
    [class |-> A, current |-> TRUE,  declared |-> 1, actual |-> 2] }
=============================================================================
