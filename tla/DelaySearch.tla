---------------------------- MODULE DelaySearch ----------------------------
(***************************************************************************)
(* The coarse search for the fringe peak over single-band delay, delay     *)
(* rate and multi-band delay: MHO_MBDelaySearch, and the build with OpenMP *)
(* that takes its place when it is enabled, MHO_MBDelaySearchOpenMP.  The  *)
(* first visits all points in one loop.  The second deals the single-band  *)
(* delays to a team of threads, each of which keeps a maximum of its own,  *)
(* and merges the maxima after the barrier at the end of the loop.         *)
(*                                                                         *)
(* A bin is a point (sbd, dr, mbd), numbered in the order in which the     *)
(* loops visit them, sbd outermost: a slice is the PerSlice points of one  *)
(* single-band delay.  Powers are natural numbers, 0 standing for any that *)
(* the comparison with the initial maximum rejects, NaN included.  The     *)
(* object outlives a search: a refit executes it again.                    *)
(***************************************************************************)
EXTENDS Integers, FiniteSets

CONSTANTS
  NThreads,   \* fNThreads
  NSBD,       \* fNSBD; Execute refuses an axis of one point
  PerSlice,   \* points of a single-band delay: delay rates times grid points
  Spectra,    \* the powers that may be there
  Windows,    \* the sets of bins that the three search windows may select
  None        \* -1: no bin

NBins  == NSBD * PerSlice
Bin    == 0..(NBins - 1)
Thread == 0..(NThreads - 1)

ASSUME ConstantsAssumption ==
  /\ NThreads \in Nat \ {0}
  /\ NSBD \in Nat \ {0, 1}
  /\ PerSlice \in Nat \ {0}
  /\ Spectra \subseteq [Bin -> Nat]
  /\ Windows \subseteq SUBSET Bin
  /\ None \notin Nat

VARIABLES
  parallel,   \* the build: HOPS_USE_OPENMP
  pc,         \* where ExecuteImpl is
  power,      \* the visibilities: the power of every bin
  window,     \* the bins that InSearchWindow accepts
  cut,        \* thread t has the slices from cut[t] to cut[t + 1] - 1
  at,         \* the bin each thread visits next
  local,      \* fThreadMaxima
  merged,     \* how many of them have been merged
  max,        \* fMax
  best,       \* fSBDMaxBin, fDRMaxBin and fMBDMaxBin
  searched,   \* fNPointsSearched
  found,      \* what ExecuteImpl returned
  before      \* history: the bins when the search began

request == <<parallel, power, window, cut, before>>
vars == <<request, pc, at, local, merged, max, best, searched, found>>

\* schedule(static): one run of slices for each thread of the team, in the
\* order of the threads, their sizes no more than one apart; the team may be
\* smaller than asked for
Deals ==
  {c \in [0..NThreads -> 0..NSBD] :
    /\ c[0] = 0
    /\ c[NThreads] = NSBD
    /\ \E team \in 1..NThreads, q \in 0..NSBD :
         /\ \A t \in 0..(team - 1) : c[t + 1] - c[t] \in {q, q + 1}
         /\ \A t \in team..(NThreads - 1) : c[t + 1] = c[t]}

LocalMax == [val : Nat, bin : Bin \cup {None}, points : Nat]
Fresh    == [val |-> 0, bin |-> None, points |-> 0]

Start(t) == cut[t] * PerSlice
Stop(t)  == cut[t + 1] * PerSlice

DelayTypeOK ==
  /\ parallel \in BOOLEAN
  /\ pc \in {"idle", "search", "merge"}
  /\ power \in Spectra
  /\ window \in Windows \cup {{}}
  /\ cut \in Deals
  /\ at \in [Thread -> 0..NBins]
  /\ \A t \in Thread : at[t] \in Start(t)..Stop(t)
  /\ local \in [Thread -> LocalMax]
  /\ merged \in 0..NThreads
  /\ max \in Nat
  /\ best \in Bin \cup {None}
  /\ searched \in Nat
  /\ found \in BOOLEAN
  /\ before \in Bin \cup {None}

Init ==
  /\ parallel \in BOOLEAN
  /\ pc = "idle"
  /\ power \in Spectra
  /\ window = {}
  /\ cut \in Deals
  /\ at = [t \in Thread |-> Start(t)]
  /\ local = [t \in Thread |-> Fresh]
  /\ merged = 0
  /\ max = 0
  /\ best = None
  /\ searched = 0
  /\ found = FALSE
  /\ before = None

-----------------------------------------------------------------------------
(* ExecuteImpl *)

\* mutant: the maxima of the threads are those of the search before
ExecuteKeepsMaxima ==
  /\ pc = "idle"
  /\ pc' = "search"
  /\ power' \in Spectra
  /\ window' \in Windows
  /\ cut' \in {c \in Deals : parallel \/ c[1] = NSBD}
  /\ at' = [t \in Thread |-> cut'[t] * PerSlice]
  /\ max' = 0
  /\ searched' = 0
  /\ found' = FALSE
  /\ before' = best
  /\ UNCHANGED <<parallel, local, merged, best>>

\* the maximum, the count and the maxima of the threads are reset; the bins
\* are not
Execute ==
  /\ pc = "idle"
  /\ pc' = "search"
  /\ power' \in Spectra
  /\ window' \in Windows
  /\ cut' \in {c \in Deals : parallel \/ c[1] = NSBD}
  /\ at' = [t \in Thread |-> cut'[t] * PerSlice]
  /\ local' = [t \in Thread |-> Fresh]
  /\ max' = 0
  /\ searched' = 0
  /\ found' = FALSE
  /\ before' = best
  /\ UNCHANGED <<parallel, merged, best>>

Exceeds(x, y) == x > y

\* the body of the innermost loop, at bin b, with the maximum m so far
Visit(m, b) ==
  IF b \notin window THEN m
  ELSE [val    |-> IF Exceeds(power[b], m.val) THEN power[b] ELSE m.val,
        bin    |-> IF Exceeds(power[b], m.val) THEN b ELSE m.bin,
        points |-> m.points + 1]

\* the loop of the serial build, that of thread 0 alone
SerialPoint ==
  /\ pc = "search"
  /\ ~parallel
  /\ at[0] < Stop(0)
  /\ LET m == Visit([val |-> max, bin |-> best, points |-> searched], at[0])
     IN /\ max' = m.val
        /\ best' = m.bin
        /\ searched' = m.points
  /\ at' = [at EXCEPT ![0] = @ + 1]
  /\ UNCHANGED <<request, pc, local, merged, found>>

Point(t) ==
  /\ pc = "search"
  /\ parallel
  /\ at[t] < Stop(t)
  /\ local' = [local EXCEPT ![t] = Visit(@, at[t])]
  /\ at' = [at EXCEPT ![t] = @ + 1]
  /\ UNCHANGED <<request, pc, merged, max, best, searched, found>>

\* the end of the loop, a barrier for the threads; the serial build has
\* nothing to merge
Join ==
  /\ pc = "search"
  /\ \A t \in Thread : at[t] = Stop(t) \/ (~parallel /\ t # 0)
  /\ pc' = "merge"
  /\ merged' = IF parallel THEN 0 ELSE NThreads
  /\ UNCHANGED <<request, at, local, max, best, searched, found>>

Merge ==
  /\ pc = "merge"
  /\ merged < NThreads
  /\ LET m == local[merged]
     IN /\ max' = IF Exceeds(m.val, max) THEN m.val ELSE max
        /\ best' = IF Exceeds(m.val, max) THEN m.bin ELSE best
        /\ searched' = searched + m.points
  /\ merged' = merged + 1
  /\ UNCHANGED <<request, pc, at, local, found>>

\* finalize_search: a peak was found if there are bins
Finalize ==
  /\ pc = "merge"
  /\ merged = NThreads
  /\ found' = (best # None)
  /\ pc' = "idle"
  /\ UNCHANGED <<request, at, local, merged, max, best, searched>>

Control == SerialPoint \/ Join \/ Merge \/ Finalize
Next == Execute \/ Control \/ \E t \in Thread : Point(t)

Spec == Init /\ [][Next]_vars

-----------------------------------------------------------------------------
(* Properties *)

Idle(x, y) == IF pc = "idle" THEN x ELSE y

Request == INSTANCE PeakSearch WITH
  searching <- (pc # "idle"),
  best      <- Idle(best, before),
  max       <- Idle(max, 0),
  searched  <- Idle(searched, 0),
  found     <- Idle(found, FALSE)

(* The fitter gets the first of the largest powers within the windows,        *)
(* however the slices were dealt to the threads and in whatever order they    *)
(* ran; without a positive power it gets the bins of the search before.       *)
FirstMaximum ==
  pc = "idle" =>
    \/ Request!IsPeak(power, window, best, max)
    \/ Request!NoPower /\ best = before /\ max = 0

(* Both builds, with any number of threads, serve a request as PeakSearch     *)
(* says: the same peak, found if there is one, every point of the windows     *)
(* counted once.                                                              *)
IsPeakSearch == Request!Spec
=============================================================================
