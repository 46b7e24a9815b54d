----------------------------- MODULE FringeStore -----------------------------
(***************************************************************************)
(* What a directory of fringe files promises to whoever reads it: a file   *)
(* appears at once, with the whole of what its writer wrote; a fit appears *)
(* under one number only; the numbers have no gap; and as long as the      *)
(* writers have kept each other out, a file that has appeared is never     *)
(* replaced.                                                               *)
(***************************************************************************)
EXTENDS Naturals

CONSTANT Fit      \* the results that are written, each at most once

VARIABLES
  store,          \* the file with each number
  sound           \* no two writers have held the directory at once

Init == store = <<>> /\ sound = TRUE

Publish(f, n) ==
  /\ \A k \in DOMAIN store : store[k] # f
  /\ sound => n \notin DOMAIN store
  /\ store' = [k \in DOMAIN store \cup {n} |-> IF k = n THEN f ELSE store[k]]
  /\ UNCHANGED sound

Clash == sound' = FALSE /\ UNCHANGED store

Next ==
  \/ \E f \in Fit : \E n \in {1} \cup {k + 1 : k \in DOMAIN store} : Publish(f, n)
  \/ Clash

Spec == Init /\ [][Next]_<<store, sound>>
=============================================================================
