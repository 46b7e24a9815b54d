----------------------------- MODULE PeakSearch -----------------------------
(***************************************************************************)
(* What the coarse delay search promises to the fringe fitter, whichever   *)
(* build of it runs: one request is answered by the first of the largest   *)
(* powers within the search windows, and by the number of points in them;  *)
(* a peak is found when there is a positive power there.  When there is    *)
(* none, there is no peak the first time.  Later on it is left open which  *)
(* bins are answered and whether they count as found: the header says that *)
(* they do only for a valid peak, the code keeps those it had.             *)
(***************************************************************************)
EXTENDS Integers, FiniteSets

CONSTANTS
  Spectra,   \* the powers that may be there: functions from bins to Nat
  Windows,   \* the sets of bins that the search windows may select
  None       \* the bin of the constructor: -1

VARIABLES
  searching,   \* a request is being served
  power,       \* the request: the power of every bin,
  window,      \*   and the bins to be searched
  best,        \* the answer: the bins of the peak (GetSBDMaxBin, ...),
  max,         \*   its power (GetSearchMaximumAmplitude),
  searched,    \*   the points visited (GetNPointsSearched),
  found        \*   and whether a peak was found

vars == <<searching, power, window, best, max, searched, found>>

\* b is the first bin of S where f is largest, and v its value
IsPeak(f, S, b, v) ==
  /\ b \in S
  /\ v = f[b]
  /\ v > 0
  /\ \A c \in S : f[c] < v \/ (f[c] = v /\ b <= c)

Init ==
  /\ searching = FALSE
  /\ power \in Spectra
  /\ window = {}
  /\ best = None
  /\ max = 0
  /\ searched = 0
  /\ found = FALSE

Begin ==
  /\ ~searching
  /\ searching' = TRUE
  /\ power' \in Spectra
  /\ window' \in Windows
  /\ max' = 0
  /\ searched' = 0
  /\ found' = FALSE
  /\ UNCHANGED best

NoPower == \A b \in window : power[b] = 0

EndFound ==
  /\ best' \in window
  /\ max' \in {power[b] : b \in window}
  /\ IsPeak(power, window, best', max')
  /\ found' = TRUE

EndNotFound ==
  /\ NoPower
  /\ max' = 0
  /\ best' \in window \cup {best}
  /\ found' \in BOOLEAN
  /\ best = None => best' = None /\ found' = FALSE

End ==
  /\ searching
  /\ searching' = FALSE
  /\ EndFound \/ EndNotFound
  /\ searched' = Cardinality(window)
  /\ UNCHANGED <<power, window>>

Spec == Init /\ [][Begin \/ End]_vars
=============================================================================
