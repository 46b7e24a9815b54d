------------------------- MODULE IonosphericSearch --------------------------
(***************************************************************************)
(* MHO_IonosphericFringeFitter: the differential TEC is searched in levels *)
(* of finer and finer grids, each placed by the maximum of the one before, *)
(* either coarse, medium, fine and final (rjc_ion_search) or, with the     *)
(* coarse points smoothed and interpolated, coarse, fine and final         *)
(* (ion_search_smooth).  At every point the visibilities are rotated in    *)
(* place, the coarse delay search is done and the amplitude kept; once     *)
(* the signal is strong the search is narrowed to one single-band delay.   *)
(* A refit begins with the visibilities of the cache, if there is one, and *)
(* else with those of the fit before, rotated as they are.                 *)
(*                                                                         *)
(* TEC are integers, in units of which FineStep are 0.4 TECU.  The signal  *)
(* is at one single-band delay; its amplitude falls off on both sides of   *)
(* the TEC that is sought, down to the level of the noise, which is there  *)
(* at all other delays.                                                    *)
(***************************************************************************)
EXTENDS Integers, Sequences, FiniteSets, Functions

CONSTANTS
  Setups,      \* the fits that are asked for, with the data they are given
  Noise,       \* the amplitude at all delays where there is no signal
  Strong,      \* the amplitude above which calculate_approx_snr exceeds 15
  MaxFits      \* bound: fits of one pass, the first and the refits

\* two steps between points: 0.4 and 2.0 TECU; and the points of the grids
FineStep    == 4
MediumStep  == 20
FinePoints  == 12
SmoothFinePoints == 24

\* half the width of each grid
MediumHalf     == 110
FineHalf       == 22
SmoothFineHalf == 46

\* npts points from "from" on, "by" apart: ion_npts and ion_win, or for one point
\* the difference of the stations' a priori values; the signal is at "peak", "height" strong; sbWin: the
\* control file has a window of its own for the single-band delay; caching: there are
\* operators in both prefit and postfit, so that the fitter keeps the visibilities
Setup == [npts : Nat \ {0}, from : Int, by : Nat, peak : Int, height : Nat,
          smooth : BOOLEAN, sbWin : BOOLEAN, caching : BOOLEAN]

ASSUME SetupAssumption ==
  /\ Setups \subseteq Setup
  /\ \A s \in Setups : s.npts > 1 => s.by >= FineStep /\ s.by % 4 = 0
  /\ Noise \in Nat /\ Strong \in Nat
  /\ Noise <= Strong
  /\ MaxFits \in Nat \ {0}

VARIABLES
  setup,       \* what is asked for
  fits,        \* fits begun
  pc,          \* "level": at the switch; "point": in the loop; "done"
  level,       \* the grid being set up or searched
  ilmax,       \* number of its points
  step,        \* the distance between them
  bottom,      \* its first point
  center,      \* where it was placed
  ionloop,     \* the point the loop is at
  values,      \* amplitudes, by the point of the present grid; never cleared
  dtec,        \* all points so far, with their amplitudes
  last,        \* last_ion_diff
  applied,     \* how far the visibilities are rotated
  ionDiff,     \* /fringe/ion_diff
  firstPass,   \* first_pass
  strong,      \* prev_approx_snr > 15
  window,      \* the single-band delays MHO_MBDelaySearch looks at
  initial,     \* fInitialSBWin, reported as /fringe/sb_win
  edge,        \* history: a grid was placed by the rule for the upper edge
  seen         \* history: how far the visibilities were rotated, and what was found

grid     == <<level, ilmax, step, bottom, center>>
searched == <<values, last, applied, ionDiff, firstPass, strong, window, initial, seen>>
vars == <<setup, fits, pc, grid, ionloop, dtec, edge, searched>>

Window == {"full", "signal", "noise"}
Level  == {"coarse", "medium", "fine", "final"}

\* a point of the search: a TEC and the amplitude found there
Point == [tec : Int, amp : Nat]

\* of dtec, see PointsReported
TypeOK ==
  /\ setup \in Setups
  /\ fits \in 1..MaxFits
  /\ pc \in {"level", "point", "done"}
  /\ level \in Level
  /\ ilmax \in Nat
  /\ step \in Nat
  /\ bottom \in Int
  /\ center \in Int
  /\ ionloop \in Nat
  /\ values \in [0..(setup.npts + SmoothFinePoints) -> Nat]
  /\ last \in Int
  /\ applied \in Int
  /\ ionDiff \in Int
  /\ firstPass \in BOOLEAN
  /\ strong \in BOOLEAN
  /\ window \in Window
  /\ initial \in Window
  /\ edge \in BOOLEAN
  /\ seen \in SUBSET Point

Init ==
  /\ setup \in Setups
  /\ fits = 1
  /\ pc = "level"
  /\ level = "coarse"
  /\ ilmax = 0
  /\ step = 0
  /\ bottom = 0
  /\ center = 0
  /\ ionloop = 0
  /\ values = [i \in 0..(setup.npts + SmoothFinePoints) |-> 0]
  /\ dtec = <<>>
  /\ last = 0
  /\ applied = 0
  /\ ionDiff = 0
  /\ firstPass = TRUE
  /\ strong = FALSE
  /\ window = "full"
  /\ initial = "full"
  /\ edge = FALSE
  /\ seen = {}

-----------------------------------------------------------------------------
(* What a grid has found *)

Points == 0..(ilmax - 1)

\* the first of the largest of f[0] .. f[n - 1]: one, if n is not 0
FirstMax(f, n) ==
  {k \in 0..(n - 1) :
     /\ \A j \in 0..(n - 1) : f[j] <= f[k]
     /\ \A j \in 0..(k - 1) : f[j] < f[k]}

\* the points of the grid, behind those of the grids before
Stored == dtec \o [k \in 1..ilmax |->
                     [tec |-> bottom + (k - 1) * step, amp |-> values[k - 1]]]

\* half a cosine over width points, d points from its middle: (1 - 4xx) / (1 + xx)
\* for x = d / width, in thousandths
Shape(width, d) == (1000 * (width * width - 4 * d * d)) \div (width * width + d * d)

\* 36 / step in TECU, made odd
Width ==
  LET whole == 360 \div step
      odd   == IF whole % 2 = 0 THEN whole + 1 ELSE whole
  IN IF odd >= 4 * setup.npts THEN 4 * setup.npts - 1 ELSE odd

\* the coarse points, with three more between any two: at each the mean of those
\* that are near enough and not zero
SmoothedPoints == 4 * ilmax - 3
Smoothed ==
  [j \in 0..(SmoothedPoints - 1) |->
     LET near == {i \in Points : /\ 4 * i - j <= (Width - 1) \div 2
                                 /\ j - 4 * i <= (Width - 1) \div 2
                                 /\ values[i] # 0}
         shape == [i \in near |-> Shape(Width, 4 * i - j)]
         total == SumFunction(shape)
     IN IF total = 0 THEN 0
        ELSE (1000 * SumFunction([i \in near |-> values[i] * shape[i]])) \div total]

-----------------------------------------------------------------------------
(* Where the next grid is placed *)

\* mutant: the grid begins at the maximum
PlacedAtMaximum(k, by, half) == bottom + k * by + half

\* its middle, for a maximum at point k of points "by" apart; "ion_npts" is the
\* number of coarse points whatever the grid the maximum is of
Placed(k, by, half) ==
  IF k = 0 THEN bottom + half
  ELSE IF k = setup.npts THEN bottom + (k - 1) * by - half
  ELSE bottom + k * by

SetGrid(next, n, by, middle, half) ==
  /\ level' = next
  /\ ilmax' = n
  /\ step' = by
  /\ center' = middle
  /\ bottom' = middle - half

StartLoop ==
  /\ pc = "level"
  /\ pc' = "point"
  /\ ionloop' = 0

Coarse ==
  /\ StartLoop
  /\ ilmax = 0
  /\ level' = "coarse"
  /\ ilmax' = setup.npts
  /\ step' = setup.by
  /\ bottom' = setup.from
  /\ center' = setup.from + ((setup.npts - 1) * setup.by) \div 2
  /\ UNCHANGED <<setup, fits, dtec, edge, searched>>

\* a grid has been searched, and is not the last
Searching(which) == pc = "level" /\ ilmax # 0 /\ level = which

\* what Medium, Fine and SmoothFine have in common
Refine(next, k, by, n, newStep, half) ==
  /\ StartLoop
  /\ dtec' = Stored
  /\ SetGrid(next, n, newStep, Placed(k, by, half), half)
  /\ edge' = (edge \/ k = setup.npts)
  /\ UNCHANGED <<setup, fits, searched>>

Medium ==
  /\ Searching("coarse")
  /\ ~setup.smooth
  /\ \E k \in FirstMax(values, ilmax) :
       Refine("medium", k, step, FinePoints, MediumStep, MediumHalf)

Fine ==
  /\ Searching("medium")
  /\ \E k \in FirstMax(values, ilmax) :
       Refine("fine", k, step, FinePoints, FineStep, FineHalf)

SmoothFine ==
  /\ Searching("coarse")
  /\ setup.smooth
  /\ \E g \in {Smoothed} : \E k \in FirstMax(g, SmoothedPoints) :
       Refine("fine", k, step \div 4, SmoothFinePoints, FineStep, SmoothFineHalf)

\* the maximum of the parabola through three points, one step apart, as far from
\* the middle one as it may be
Vertex(y) ==
  LET bend == 2 * y[2] - y[1] - y[3]
      x    == (step * (y[3] - y[1])) \div (2 * bend)
  IN IF bend <= 0 THEN (IF y[3] > y[1] THEN step ELSE -step)
     ELSE IF x > step THEN step
     ELSE IF x < -step THEN -step
     ELSE x

\* point k of the grid, moved inward from either end
Middle(k) == IF k = 0 THEN 1 ELSE IF k = ilmax - 1 THEN k - 1 ELSE k

Peak(m) == bottom + m * step + Vertex(<<values[m - 1], values[m], values[m + 1]>>)

Final ==
  /\ Searching("fine")
  /\ StartLoop
  /\ dtec' = Stored
  /\ \E k \in FirstMax(values, ilmax) : SetGrid("final", 1, 0, Peak(Middle(k)), 0)
  /\ UNCHANGED <<setup, fits, edge, searched>>

-----------------------------------------------------------------------------
(* A point *)

\* the amplitude of the signal when the visibilities are rotated by tec
Signal(tec) ==
  LET away == IF tec < setup.peak THEN setup.peak - tec ELSE tec - setup.peak
  IN IF setup.height - away > Noise THEN setup.height - away ELSE Noise

\* coarse_fringe_search and interpolate_peak: the bins of the maximum in the window,
\* for visibilities rotated by tec
FoundIn(win, tec) ==
  IF win # "full" THEN {win}
  ELSE IF Signal(tec) > Noise THEN {"signal"}
  ELSE {"signal", "noise"}

\* the window of this search: that of the control file is set again before every
\* search of the first pass
Searched == IF firstPass /\ setup.sbWin THEN "full" ELSE window

\* the correction before is taken back, and that of this point made
Rotate(tec) ==
  /\ applied' = applied - last + tec
  /\ last' = tec

KeepWindow(win) == initial' = IF firstPass THEN win ELSE initial

\* mutant: the strength of the signal is not looked at
NarrowAnyway(bin) ==
  IF firstPass /\ ionloop > 0
  THEN window' = bin /\ firstPass' = FALSE
  ELSE window' = Searched /\ firstPass' = firstPass

\* by the signal at the point before, to the delay found at this one
Narrow(bin) ==
  IF firstPass /\ ionloop > 0 /\ strong
  THEN window' = bin /\ firstPass' = FALSE
  ELSE window' = Searched /\ firstPass' = firstPass

SearchPoint ==
  LET tec == bottom + ionloop * step
  IN
  /\ pc = "point"
  /\ ionloop < ilmax
  /\ Rotate(tec)
  /\ \E bin \in FoundIn(Searched, applied') :
       LET amp == IF bin = "signal" THEN Signal(applied') ELSE Noise
       IN /\ KeepWindow(Searched)
          /\ Narrow(bin)
          /\ strong' = (amp > Strong)
          /\ values' = [values EXCEPT ![ionloop] = amp]
          /\ seen' = seen \cup {[tec |-> applied', amp |-> amp]}
  /\ ionDiff' = tec
  /\ ionloop' = ionloop + 1
  /\ UNCHANGED <<setup, fits, pc, grid, dtec, edge>>

\* to the next level, if there is one
EndLoop ==
  /\ pc = "point"
  /\ ionloop = ilmax
  /\ pc' = "level"
  /\ setup.npts > 1
  /\ level # "final"
  /\ UNCHANGED <<setup, fits, grid, ionloop, dtec, edge, searched>>

\* mutant: the points are left as they were searched
SortedNot(s) == s

\* sort_tecs exchanges neighbours as long as any are in the wrong order: points of one
\* TEC stay in the order in which they were searched
Sorted(s) ==
  LET Before(j, i) == s[j].tec < s[i].tec \/ (s[j].tec = s[i].tec /\ j < i)
      place == [i \in DOMAIN s |-> 1 + Cardinality({j \in DOMAIN s : Before(j, i)})]
  IN [k \in DOMAIN s |-> s[CHOOSE i \in DOMAIN s : place[i] = k]]

\* nothing is stored when there is but one point
Finish ==
  /\ pc = "point"
  /\ ionloop = ilmax
  /\ setup.npts = 1 \/ level = "final"
  /\ pc' = "done"
  /\ dtec' = IF setup.npts = 1 THEN <<>>
             ELSE Sorted(Append(dtec, [tec |-> center, amp |-> values[0]]))
  /\ UNCHANGED <<setup, fits, grid, ionloop, edge, searched>>

\* mutant: the visibilities are never taken from the cache
RefitUnrefreshed ==
  /\ pc = "done"
  /\ fits < MaxFits
  /\ fits' = fits + 1
  /\ pc' = "level"
  /\ level' = "coarse"
  /\ ilmax' = 0
  /\ ionloop' = 0
  /\ values' = [i \in DOMAIN values |-> 0]
  /\ dtec' = <<>>
  /\ last' = 0
  /\ firstPass' = TRUE
  /\ strong' = FALSE
  /\ edge' = FALSE
  /\ seen' = {}
  /\ UNCHANGED <<setup, step, bottom, center, applied, ionDiff, window, initial>>

\* the visibilities come from the cache; without one they stay as they are rotated,
\* although last_ion_diff begins at 0 again. Of the search before, the fitter keeps
\* fInitialSBWin and MHO_MBDelaySearch its window
Refit ==
  /\ pc = "done"
  /\ fits < MaxFits
  /\ fits' = fits + 1
  /\ pc' = "level"
  /\ level' = "coarse"
  /\ ilmax' = 0
  /\ ionloop' = 0
  /\ values' = [i \in DOMAIN values |-> 0]
  /\ dtec' = <<>>
  /\ last' = 0
  /\ applied' = IF setup.caching THEN 0 ELSE applied
  /\ firstPass' = TRUE
  /\ strong' = FALSE
  /\ edge' = FALSE
  /\ seen' = {}
  /\ UNCHANGED <<setup, step, bottom, center, ionDiff, window, initial>>

Run == Coarse \/ Medium \/ Fine \/ SmoothFine \/ Final \/ SearchPoint \/ EndLoop \/ Finish

Stopped == pc = "done" /\ fits = MaxFits /\ UNCHANGED vars

Next == Run \/ Refit \/ Stopped

Spec == Init /\ [][Next]_vars

-----------------------------------------------------------------------------
(* Properties *)

Within(a, b, d) == a - b <= d /\ b - a <= d

\* the widest coarse step over which the grid placed at a point still reaches the
\* peak between it and the next
Reach == IF setup.smooth THEN SmoothFineHalf ELSE 2 * MediumHalf

\* the rotations of the fits before are not in the visibilities any more
Refreshed == fits = 1 \/ setup.caching

(* The TEC that is reported is the one sought, to within a fine step, if it is *)
(* in the window, the coarse points are near enough to each other and all see  *)
(* the signal, which is not lost between the points of the medium grid, and no *)
(* maximum had the number of the coarse points, which is taken for the upper   *)
(* edge wherever it is; in a refit only with the cache, without which the TEC  *)
(* found is off by that of the fit before.                                     *)
PeakFound ==
  /\ pc = "done"
  /\ Refreshed
  /\ setup.npts > 1
  /\ ~edge
  /\ window # "noise"
  /\ setup.by <= Reach
  /\ setup.smooth \/ Signal(setup.peak + MediumStep \div 2) > Noise
  /\ setup.from <= setup.peak /\ setup.peak <= setup.from + (setup.npts - 1) * setup.by
  /\ \A k \in 0..(setup.npts - 1) : Signal(setup.from + k * setup.by) > Noise
  => Within(ionDiff, setup.peak, FineStep)

(* The array that is reported has every point of every grid, in order, and in  *)
(* the first fit, and a refit from the cache, each with the amplitude that was *)
(* found when the visibilities were rotated by it.                             *)
PointsReported ==
  pc = "done" /\ setup.npts > 1 =>
    /\ Refreshed => Range(dtec) = seen
    /\ Len(dtec) = setup.npts + SmoothFinePoints + 1
    /\ \A i \in 1..(Len(dtec) - 1) : dtec[i].tec <= dtec[i + 1].tec

(* After the first fit, and a refit from the cache, the visibilities from      *)
(* which the solution is computed are rotated by the TEC that is reported,     *)
(* whatever points were visited on the way there.                              *)
SolutionIsApplied == pc = "done" /\ Refreshed => applied = ionDiff

(* What is reported as the single-band delay window is the full one, cached    *)
(* before the search was narrowed (rjc_ion_search), in the first fit and if    *)
(* the control file has a window. It may not be the one that was used last.    *)
FullWindowKept == fits = 1 \/ setup.sbWin => initial = "full"

(* The search is not narrowed to a delay where the signal is not, if the points*)
(* next to a strong one still see it: its strength is that of the point before,*)
(* and the delay that of the next. So it is however a refit begins.            *)
NarrowedToSignal ==
  /\ setup.npts > 1
  /\ setup.by <= Strong - Noise
  /\ MediumStep <= Strong - Noise
  => window # "noise"
=============================================================================
