---------------------- MODULE IonosphericSearchProofs ------------------------
(***************************************************************************)
(* What holds of the ionospheric search for any setup, any data that have  *)
(* the form Signal, and any number of refits: the search is narrowed only  *)
(* to the signal; and in the first fit, and every refit from the cache, the *)
(* solution has the TEC that is reported, the array of points has what was *)
(* seen at every point, and, without smoothing, the peak is found.         *)
(***************************************************************************)
EXTENDS IonosphericSearch, TLAPS, FiniteSetTheorems, SequenceTheorems

-----------------------------------------------------------------------------
(* The inductive invariant *)

\* the variables the properties depend on, with the form of the grids
GridOK ==
  /\ setup \in Setups
  /\ pc \in {"level", "point", "done"}
  /\ level \in Level
  /\ ilmax \in Nat
  /\ step \in Int
  /\ bottom \in Int
  /\ ionloop \in Nat
  /\ values \in [0..(setup.npts + SmoothFinePoints) -> Int]
  /\ level = "coarse" => ilmax = 0 \/ (ilmax = setup.npts /\ step = setup.by)
  /\ level = "medium" => ilmax = FinePoints /\ step = MediumStep
  /\ level = "fine"   => ilmax \in {FinePoints, SmoothFinePoints} /\ step = FineStep
  /\ level = "final"  => ilmax = 1
  /\ pc = "point" => ilmax # 0 /\ ionloop <= ilmax
  /\ pc = "done" => ilmax # 0
  /\ level # "coarse" \/ (pc = "level" /\ ilmax # 0) => setup.npts > 1

\* what is to be taken back is the point before, and all that was done unless
\* a fit left its rotation in the visibilities
RotationOK ==
  /\ last \in Int
  /\ applied \in Int
  /\ Refreshed => applied = last
  /\ pc = "point" /\ ionloop # 0 => last = bottom + (ionloop - 1) * step
  /\ ilmax # 0 /\ (pc = "point" => ionloop # 0) => ionDiff = last

\* the window asked for is still known, while it may be narrowed
WindowOK ==
  /\ firstPass \in BOOLEAN
  /\ fits \in Nat \ {0}
  /\ fits = 1 \/ setup.sbWin => initial = "full"
  /\ fits = 1 /\ firstPass => window = "full"

\* the strength that is remembered in a loop is that of the point before
StrengthOK ==
  /\ strong \in BOOLEAN
  /\ window \in Window
  /\ strong /\ pc = "point" /\ ionloop # 0 =>
       Signal(applied) > Strong

IInv == GridOK /\ RotationOK /\ WindowOK /\ StrengthOK /\ NarrowedToSignal

-----------------------------------------------------------------------------
LEMMA InitIInv == Init => IInv
  <1> SUFFICES ASSUME Init PROVE IInv
    OBVIOUS
  <1> USE SetupAssumption DEF Init
  <1>1. GridOK
    BY DEF GridOK, Level, Setup, SmoothFinePoints
  <1>2. RotationOK
    BY DEF RotationOK, Refreshed
  <1>3. WindowOK
    BY DEF WindowOK
  <1>4. StrengthOK
    BY DEF StrengthOK, Window
  <1>5. NarrowedToSignal
    BY DEF NarrowedToSignal
  <1> QED
    BY <1>1, <1>2, <1>3, <1>4, <1>5 DEF IInv

\* a grid is set up: nothing is searched
LEMMA NewGrid ==
  ASSUME IInv, StartLoop, UNCHANGED <<setup, fits, searched>>,
         ilmax' \in Nat \ {0}, step' \in Int, bottom' \in Int, level' \in Level,
         level' = "coarse" => ilmax' = setup.npts /\ step' = setup.by,
         level' = "medium" => ilmax' = FinePoints /\ step' = MediumStep,
         level' = "fine"   => ilmax' \in {FinePoints, SmoothFinePoints} /\ step' = FineStep,
         level' = "final"  => ilmax' = 1,
         level' # "coarse" => setup.npts > 1
  PROVE  IInv'
  <1> USE DEF IInv, StartLoop, searched
  <1>1. GridOK'
    BY DEF GridOK
  <1>2. RotationOK'
    BY DEF RotationOK, Refreshed
  <1>3. WindowOK'
    BY DEF WindowOK
  <1>4. StrengthOK'
    BY DEF StrengthOK
  <1>5. NarrowedToSignal'
    BY DEF NarrowedToSignal
  <1> QED
    BY <1>1, <1>2, <1>3, <1>4, <1>5

LEMMA CoarseStep == IInv /\ Coarse => IInv'
  <1> SUFFICES ASSUME IInv, Coarse PROVE IInv'
    OBVIOUS
  <1>1. setup \in Setup
    BY SetupAssumption DEF IInv, GridOK
  <1>2. /\ ilmax' \in Nat \ {0} /\ step' \in Int /\ bottom' \in Int
        /\ level' = "coarse" /\ ilmax' = setup.npts /\ step' = setup.by
    BY <1>1 DEF Coarse, Setup
  <1>3. StartLoop /\ UNCHANGED <<setup, fits, searched>>
    BY DEF Coarse
  <1> QED
    BY <1>2, <1>3, NewGrid DEF Level

\* the point of the maximum is one of the grid
LEMMA RefineStep ==
  ASSUME IInv, NEW next \in {"medium", "fine"}, NEW k \in Int, NEW by \in Int,
         NEW n \in Nat \ {0}, NEW newStep \in Int, NEW half \in Int,
         Refine(next, k, by, n, newStep, half), setup.npts > 1,
         next = "medium" => n = FinePoints /\ newStep = MediumStep,
         next = "fine" => n \in {FinePoints, SmoothFinePoints} /\ newStep = FineStep
  PROVE  IInv'
  <1>1. setup \in Setup /\ bottom \in Int
    BY SetupAssumption DEF IInv, GridOK
  <1>2. Placed(k, by, half) \in Int
    BY <1>1 DEF Placed
  <1>3. /\ level' = next /\ ilmax' = n /\ step' = newStep
        /\ bottom' = Placed(k, by, half) - half
    BY DEF Refine, SetGrid
  <1>4. bottom' \in Int
    BY <1>2, <1>3
  <1>5. StartLoop /\ UNCHANGED <<setup, fits, searched>>
    BY DEF Refine
  <1> QED
    BY <1>3, <1>4, <1>5, NewGrid DEF Level

LEMMA MediumStepKeeps == IInv /\ Medium => IInv'
  <1> SUFFICES ASSUME IInv, NEW k \in FirstMax(values, ilmax),
                      Refine("medium", k, step, FinePoints, MediumStep, MediumHalf),
                      setup.npts > 1
               PROVE  IInv'
    BY DEF Medium, Searching, IInv, GridOK
  <1>1. step \in Int /\ ilmax \in Nat
    BY DEF IInv, GridOK
  <1>2. k \in Int
    BY <1>1 DEF FirstMax
  <1>3. FinePoints \in Nat \ {0} /\ MediumStep \in Int /\ MediumHalf \in Int
    BY DEF FinePoints, MediumStep, MediumHalf
  <1> QED
    BY <1>1, <1>2, <1>3, RefineStep

LEMMA FineStepKeeps == IInv /\ Fine => IInv'
  <1> SUFFICES ASSUME IInv, NEW k \in FirstMax(values, ilmax),
                      Refine("fine", k, step, FinePoints, FineStep, FineHalf),
                      setup.npts > 1
               PROVE  IInv'
    BY DEF Fine, Searching, IInv, GridOK
  <1>1. step \in Int /\ ilmax \in Nat
    BY DEF IInv, GridOK
  <1>2. k \in Int
    BY <1>1 DEF FirstMax
  <1>3. FinePoints \in Nat \ {0} /\ FineStep \in Int /\ FineHalf \in Int
    BY DEF FinePoints, FineStep, FineHalf
  <1> QED
    BY <1>1, <1>2, <1>3, RefineStep

LEMMA SmoothFineStepKeeps == IInv /\ SmoothFine => IInv'
  <1> SUFFICES ASSUME IInv, NEW g, NEW k \in FirstMax(g, SmoothedPoints),
                      Refine("fine", k, step \div 4, SmoothFinePoints, FineStep,
                             SmoothFineHalf),
                      setup.npts > 1
               PROVE  IInv'
    BY DEF SmoothFine, Searching, IInv, GridOK
  <1>1. step \div 4 \in Int /\ ilmax \in Nat
    BY DEF IInv, GridOK
  <1>2. k \in Int
    BY <1>1 DEF FirstMax, SmoothedPoints
  <1>3. SmoothFinePoints \in Nat \ {0} /\ FineStep \in Int /\ SmoothFineHalf \in Int
    BY DEF SmoothFinePoints, FineStep, SmoothFineHalf
  <1> QED
    BY <1>1, <1>2, <1>3, RefineStep

\* the vertex of the parabola is not further away than a step
LEMMA VertexBounded ==
  ASSUME step \in Nat, NEW a \in Int, NEW b \in Int, NEW c \in Int
  PROVE  /\ Vertex(<<a, b, c>>) \in Int
         /\ -step <= Vertex(<<a, b, c>>) /\ Vertex(<<a, b, c>>) <= step
  <1> DEFINE y == <<a, b, c>>
             bend == 2 * b - a - c
             x == (step * (c - a)) \div (2 * bend)
  <1>1. y[1] = a /\ y[2] = b /\ y[3] = c
    OBVIOUS
  <1>2. Vertex(y) = IF bend <= 0 THEN (IF c > a THEN step ELSE -step)
                    ELSE IF x > step THEN step
                    ELSE IF x < -step THEN -step
                    ELSE x
    BY <1>1 DEF Vertex
  <1>3. bend \in Int
    OBVIOUS
  <1>4. step * (c - a) \in Int
    OBVIOUS
  <1>5. bend > 0 => x \in Int
    BY <1>3, <1>4
  <1> HIDE DEF x, bend, y
  <1>6. -step \in Int
    OBVIOUS
  <1>7. CASE bend <= 0
    <2>1. Vertex(y) \in {step, -step}
      BY <1>2, <1>7
    <2> QED
      BY <2>1, <1>6 DEF y
  <1>8. CASE ~(bend <= 0)
    <2>1. x \in Int
      BY <1>3, <1>5, <1>8
    <2>2. Vertex(y) = IF x > step THEN step ELSE IF x < -step THEN -step ELSE x
      BY <1>2, <1>8
    <2>3. Vertex(y) \in Int /\ -step <= Vertex(y) /\ Vertex(y) <= step
      BY <2>1, <2>2, <1>6
    <2> QED
      BY <2>3 DEF y
  <1> QED
    BY <1>7, <1>8

\* the point the last grid is placed at
LEMMA PeakIsTec ==
  ASSUME IInv, Searching("fine"), NEW k \in FirstMax(values, ilmax)
  PROVE  Peak(Middle(k)) \in Int
  <1>1. /\ ilmax \in {FinePoints, SmoothFinePoints} /\ step = FineStep /\ bottom \in Int
        /\ setup \in Setup
        /\ values \in [0..(setup.npts + SmoothFinePoints) -> Int]
    BY SetupAssumption DEF IInv, GridOK, Searching
  <1>2. k \in 0..(ilmax - 1)
    BY DEF FirstMax
  <1> DEFINE m == Middle(k)
  <1>3. m \in 1..(ilmax - 2)
    BY <1>1, <1>2 DEF Middle, FinePoints, SmoothFinePoints
  <1> HIDE DEF m
  <1>4. setup.npts \in Nat
    BY <1>1 DEF Setup
  <1>5. values[m - 1] \in Int /\ values[m] \in Int /\ values[m + 1] \in Int
    BY <1>1, <1>3, <1>4 DEF FinePoints, SmoothFinePoints
  <1>6. Vertex(<<values[m - 1], values[m], values[m + 1]>>) \in Int
    BY <1>1, <1>5, VertexBounded DEF FineStep
  <1>7. Peak(m) \in Int
    BY <1>1, <1>3, <1>6 DEF Peak, FineStep
  <1> QED
    BY <1>7 DEF m

LEMMA FinalStep == IInv /\ Final => IInv'
  <1> SUFFICES ASSUME IInv, Final PROVE IInv'
    OBVIOUS
  <1> PICK k \in FirstMax(values, ilmax) : SetGrid("final", 1, 0, Peak(Middle(k)), 0)
    BY DEF Final
  <1>1. setup.npts > 1
    BY DEF IInv, GridOK, Final, Searching
  <1>2. level' = "final" /\ ilmax' = 1 /\ step' = 0 /\ bottom' \in Int
    BY PeakIsTec DEF SetGrid, Final
  <1>3. StartLoop /\ UNCHANGED <<setup, fits, searched>>
    BY DEF Final
  <1> QED
    BY <1>1, <1>2, <1>3, NewGrid DEF Level

-----------------------------------------------------------------------------
(* A point *)

\* where a point is
Tec == bottom + ionloop * step

LEMMA TecInteger == IInv => Tec \in Int
  BY DEF IInv, GridOK, Tec

\* the signal is no stronger than it was one step before, less that step
LEMMA SignalNext ==
  ASSUME setup \in Setups, NEW t \in Int, NEW d \in Nat
  PROVE  Signal(t + d) \in Int /\ Signal(t) \in Int /\ Signal(t + d) >= Signal(t) - d
  <1>1. setup.peak \in Int /\ setup.height \in Int
    BY SetupAssumption DEF Setup
  <1> QED
    BY <1>1, SetupAssumption DEF Signal

\* the points of a grid to be narrowed in are near each other
LEMMA StepBounded ==
  IInv /\ pc = "point" /\ ionloop < ilmax /\ ionloop > 0 =>
    /\ setup.npts > 1
    /\ step \in Nat
    /\ setup.by <= Strong - Noise /\ MediumStep <= Strong - Noise => step <= Strong - Noise
  <1> SUFFICES ASSUME IInv, pc = "point", ionloop < ilmax, ionloop > 0
               PROVE  /\ setup.npts > 1
                      /\ step \in Nat
                      /\ setup.by <= Strong - Noise /\ MediumStep <= Strong - Noise
                           => step <= Strong - Noise
    OBVIOUS
  <1> QED
    BY SetupAssumption DEF IInv, GridOK, Setup, Level, FineStep, MediumStep

\* what a search finds, whatever its window
LEMMA SearchPointStep == IInv /\ SearchPoint => IInv'
  <1> SUFFICES ASSUME IInv, SearchPoint PROVE IInv'
    OBVIOUS
  <1>1. /\ pc = "point" /\ ionloop < ilmax /\ Rotate(Tec) /\ ionDiff' = Tec
        /\ ionloop' = ionloop + 1 /\ UNCHANGED <<setup, fits, pc, grid, dtec, edge>>
    BY DEF SearchPoint, Tec
  <1> PICK bin \in FoundIn(Searched, applied') :
         LET amp == IF bin = "signal" THEN Signal(applied') ELSE Noise
         IN /\ KeepWindow(Searched)
            /\ Narrow(bin)
            /\ strong' = (amp > Strong)
            /\ values' = [values EXCEPT ![ionloop] = amp]
            /\ seen' = seen \cup {[tec |-> applied', amp |-> amp]}
    BY DEF SearchPoint
  <1> DEFINE amp == IF bin = "signal" THEN Signal(applied') ELSE Noise
  <1>2. KeepWindow(Searched) /\ Narrow(bin) /\ strong' = (amp > Strong)
        /\ values' = [values EXCEPT ![ionloop] = amp]
    OBVIOUS
  <1>3. Tec \in Int /\ setup \in Setups
    BY TecInteger DEF IInv, GridOK
  <1>4. applied' = applied - last + Tec /\ applied' \in Int /\ last' = Tec
    BY <1>1, <1>3 DEF Rotate, IInv, RotationOK
  <1>5. Signal(applied') \in Int
    <2>1. Signal(applied' + 0) \in Int /\ Signal(applied') \in Int
      BY <1>3, <1>4, SignalNext
    <2> QED
      BY <2>1
  <1>6. amp \in Int /\ (amp > Strong => bin = "signal" /\ Signal(applied') > Strong)
    BY <1>5, SetupAssumption
  <1> HIDE DEF amp
  <1>7. GridOK'
    <2>1. values' \in [0..(setup.npts + SmoothFinePoints) -> Int]
      BY <1>2, <1>6 DEF IInv, GridOK
    <2>2. ionloop' \in Nat /\ ionloop' <= ilmax
      BY <1>1 DEF IInv, GridOK
    <2>3. UNCHANGED <<setup, pc, level, ilmax, step, bottom>>
      BY <1>1 DEF grid
    <2> QED
      BY <2>1, <2>2, <2>3 DEF IInv, GridOK
  <1>8. RotationOK'
    <2>1. bottom' + (ionloop' - 1) * step' = Tec
      <3>1. bottom' = bottom /\ step' = step /\ ionloop' - 1 = ionloop
        BY <1>1 DEF grid, IInv, GridOK
      <3> QED
        BY <3>1 DEF Tec
    <2>2. Refreshed' => applied' = last'
      <3>1. Refreshed' <=> Refreshed
        BY <1>1 DEF Refreshed
      <3>2. Refreshed => applied = last /\ last \in Int
        BY DEF IInv, RotationOK
      <3> QED
        BY <1>3, <1>4, <3>1, <3>2
    <2> QED
      BY <1>1, <1>3, <1>4, <2>1, <2>2 DEF RotationOK
  <1>9. bin \in Window
    BY DEF FoundIn, Searched, IInv, StrengthOK, Window
  <1>10. WindowOK'
    BY <1>1, <1>2 DEF IInv, WindowOK, KeepWindow, Narrow, Searched, StrengthOK
  <1>11. StrengthOK'
    <2>1. strong' \in BOOLEAN
      BY <1>2
    <2>2. window' \in Window
      BY <1>2, <1>9 DEF Narrow, Searched, IInv, StrengthOK, Window
    <2>3. setup' = setup
      BY <1>1
    <2>4. strong' => Signal(applied') > Strong
      BY <1>2, <1>6
    <2>5. strong' => (Signal(applied) > Strong)'
      BY <2>3, <2>4 DEF Signal
    <2> QED
      BY <2>1, <2>2, <2>5 DEF StrengthOK
  <1>12. NarrowedToSignal'
    <2> SUFFICES ASSUME setup.npts > 1, setup.by <= Strong - Noise,
                        MediumStep <= Strong - Noise
                 PROVE  window' # "noise"
      BY <1>1 DEF NarrowedToSignal
    <2>1. window # "noise" /\ Searched # "noise"
      BY DEF IInv, NarrowedToSignal, Searched
    <2>2. CASE ~(firstPass /\ ionloop > 0 /\ strong)
      BY <1>2, <2>1, <2>2 DEF Narrow
    <2>3. CASE firstPass /\ ionloop > 0 /\ strong
      <3>1. step \in Nat /\ step <= Strong - Noise
        BY <1>1, <2>3, StepBounded
      <3>2. applied \in Int /\ applied' = applied + step
        <4>1. last \in Int /\ applied \in Int /\ last = bottom + (ionloop - 1) * step
          BY <1>1, <2>3 DEF IInv, RotationOK
        <4>2. Tec = last + step
          BY <4>1 DEF IInv, GridOK, Tec
        <4> QED
          BY <1>4, <3>1, <4>1, <4>2
      <3>3. Signal(applied) > Strong
        BY <1>1, <2>3 DEF IInv, StrengthOK
      <3>4. Signal(applied') >= Signal(applied) - step /\ Signal(applied) \in Int
        BY <1>3, <3>1, <3>2, SignalNext
      <3>5. Signal(applied') > Noise
        BY <1>5, <3>1, <3>3, <3>4, SetupAssumption
      <3>6. bin # "noise"
        BY <2>1, <3>5 DEF FoundIn
      <3> QED
        BY <1>2, <2>3, <3>6 DEF Narrow
    <2> QED
      BY <2>2, <2>3
  <1> QED
    BY <1>7, <1>8, <1>10, <1>11, <1>12 DEF IInv

LEMMA EndLoopStep == IInv /\ EndLoop => IInv'
  <1> SUFFICES ASSUME IInv, EndLoop PROVE IInv'
    OBVIOUS
  <1> USE DEF IInv, EndLoop, grid, searched
  <1>1. GridOK'
    BY DEF GridOK
  <1>2. RotationOK'
    BY DEF RotationOK, GridOK, Refreshed
  <1>3. WindowOK'
    BY DEF WindowOK
  <1>4. StrengthOK'
    BY DEF StrengthOK
  <1>5. NarrowedToSignal'
    BY DEF NarrowedToSignal
  <1> QED
    BY <1>1, <1>2, <1>3, <1>4, <1>5

LEMMA FinishStep == IInv /\ Finish => IInv'
  <1> SUFFICES ASSUME IInv, Finish PROVE IInv'
    OBVIOUS
  <1> USE DEF IInv, Finish, grid, searched
  <1>1. GridOK'
    BY DEF GridOK
  <1>2. RotationOK'
    BY DEF RotationOK, GridOK, Refreshed
  <1>3. WindowOK'
    BY DEF WindowOK
  <1>4. StrengthOK'
    BY DEF StrengthOK
  <1>5. NarrowedToSignal'
    BY DEF NarrowedToSignal
  <1> QED
    BY <1>1, <1>2, <1>3, <1>4, <1>5

LEMMA RefitStep == IInv /\ Refit => IInv'
  <1> SUFFICES ASSUME IInv, Refit PROVE IInv'
    OBVIOUS
  <1> USE DEF IInv, Refit
  <1>1. GridOK'
    BY DEF GridOK, Level
  <1>2. RotationOK'
    BY DEF RotationOK, WindowOK, Refreshed
  <1>3. WindowOK'
    BY DEF WindowOK
  <1>4. StrengthOK'
    BY DEF StrengthOK
  <1>5. NarrowedToSignal'
    BY DEF NarrowedToSignal
  <1> QED
    BY <1>1, <1>2, <1>3, <1>4, <1>5

LEMMA StutterStep == IInv /\ UNCHANGED vars => IInv'
  BY DEF IInv, vars, grid, searched, GridOK, RotationOK, WindowOK, StrengthOK,
         NarrowedToSignal, Signal, Refreshed

(* The inductive invariant, for any setup and data and any number of fits.    *)
THEOREM Invariance == Spec => []IInv
  <1>1. IInv /\ [Next]_vars => IInv'
    <2> SUFFICES ASSUME IInv, [Next]_vars PROVE IInv'
      OBVIOUS
    <2>1. CASE Coarse
      BY <2>1, CoarseStep
    <2>2. CASE Medium
      BY <2>2, MediumStepKeeps
    <2>3. CASE Fine
      BY <2>3, FineStepKeeps
    <2>4. CASE SmoothFine
      BY <2>4, SmoothFineStepKeeps
    <2>5. CASE Final
      BY <2>5, FinalStep
    <2>6. CASE SearchPoint
      BY <2>6, SearchPointStep
    <2>7. CASE EndLoop
      BY <2>7, EndLoopStep
    <2>8. CASE Finish
      BY <2>8, FinishStep
    <2>9. CASE Refit
      BY <2>9, RefitStep
    <2>10. CASE UNCHANGED vars
      BY <2>10, StutterStep
    <2> QED
      BY <2>1, <2>2, <2>3, <2>4, <2>5, <2>6, <2>7, <2>8, <2>9, <2>10
         DEF Next, Run, Stopped
  <1> QED
    BY InitIInv, <1>1, PTL DEF Spec

\* what the inductive invariant does not tell of the types
Rest ==
  /\ fits \in 1..MaxFits
  /\ step \in Nat
  /\ center \in Int
  /\ values \in [0..(setup.npts + SmoothFinePoints) -> Nat]
  /\ ionDiff \in Int
  /\ initial \in Window
  /\ edge \in BOOLEAN
  /\ seen \in SUBSET Point

LEMMA RestSuffices == IInv /\ Rest => TypeOK
  BY DEF IInv, GridOK, RotationOK, WindowOK, StrengthOK, Rest, TypeOK

LEMMA RestInit == Init => Rest
  <1> SUFFICES ASSUME Init PROVE Rest
    OBVIOUS
  <1>1. values \in [0..(setup.npts + SmoothFinePoints) -> Nat]
    BY DEF Init
  <1>2. fits \in 1..MaxFits
    <2>1. MaxFits \in Nat \ {0} /\ fits = 1
      BY SetupAssumption, Zenon DEF Init
    <2> QED
      BY <2>1
  <1>3. seen \in SUBSET Point
    BY DEF Init
  <1>4. initial \in Window /\ edge \in BOOLEAN
    BY Zenon DEF Init, Window
  <1>5. step = 0 /\ center = 0 /\ ionDiff = 0
    BY DEF Init
  <1> QED
    BY <1>1, <1>2, <1>3, <1>4, <1>5 DEF Rest

\* a new grid
LEMMA RestGrid ==
  ASSUME Rest, UNCHANGED <<setup, fits, searched>>,
         step' \in Nat, center' \in Int, edge' \in BOOLEAN
  PROVE  Rest'
  BY DEF Rest, searched

LEMMA RestPoint == IInv /\ Rest /\ SearchPoint => Rest'
  <1> SUFFICES ASSUME IInv, Rest, SearchPoint PROVE Rest'
    OBVIOUS
  <1> USE DEF IInv, GridOK, RotationOK, WindowOK, StrengthOK
  <1>0. /\ setup \in Setup /\ Noise \in Nat
        /\ bottom \in Int /\ ionloop \in Nat /\ step \in Nat
    BY SetupAssumption DEF Rest
  <1> DEFINE tec == bottom + ionloop * step
  <1>1. tec \in Int
    BY <1>0
  <1>2. applied' \in Int /\ ionDiff' \in Int
    BY <1>1 DEF SearchPoint, Rotate
  <1>3. PICK bin \in FoundIn(Searched, applied') :
          LET amp == IF bin = "signal" THEN Signal(applied') ELSE Noise
          IN /\ KeepWindow(Searched)
             /\ values' = [values EXCEPT ![ionloop] = amp]
             /\ seen' = seen \cup {[tec |-> applied', amp |-> amp]}
    BY DEF SearchPoint
  <1> DEFINE amp == IF bin = "signal" THEN Signal(applied') ELSE Noise
  <1>4. amp \in Nat
    BY <1>0, <1>2 DEF Signal, Setup
  <1>5. values' = [values EXCEPT ![ionloop] = amp] /\ seen' = seen \cup {[tec |-> applied', amp |-> amp]}
    BY <1>3
  <1>6. initial' \in Window
    BY <1>3 DEF KeepWindow, Searched, Rest, Window
  <1> HIDE DEF amp
  <1>7. values' \in [0..(setup.npts + SmoothFinePoints) -> Nat]
    BY <1>4, <1>5 DEF Rest
  <1>8. seen' \in SUBSET Point
    BY <1>2, <1>4, <1>5 DEF Rest, Point
  <1> QED
    BY <1>2, <1>6, <1>7, <1>8 DEF Rest, SearchPoint, grid

LEMMA RestFinal == IInv /\ Rest /\ Final => Rest'
  <1> SUFFICES ASSUME IInv, Rest, Final PROVE Rest'
    OBVIOUS
  <1>1. step' \in Nat /\ center' \in Int
    BY PeakIsTec DEF Final, SetGrid
  <1>2. UNCHANGED <<setup, fits, searched>> /\ edge' \in BOOLEAN
    BY DEF Final, Rest
  <1> QED
    BY <1>1, <1>2, RestGrid

LEMMA RestStep == IInv /\ IInv' /\ Rest /\ [Next]_vars => Rest'
  <1> SUFFICES ASSUME IInv, IInv', Rest, [Next]_vars PROVE Rest'
    OBVIOUS
  <1>0. setup \in Setup /\ bottom' \in Int
    BY SetupAssumption DEF IInv, GridOK
  <1>1. CASE Coarse
    <2>1. step' \in Nat /\ center' \in Int /\ edge' \in BOOLEAN
      BY <1>0, <1>1 DEF Coarse, Setup, Rest
    <2> QED
      BY <1>1, <2>1, RestGrid DEF Coarse
  <1>2. ASSUME NEW next, NEW k, NEW by, NEW n, NEW newStep \in Nat, NEW half \in Nat,
               k \in Int, by \in Int, Refine(next, k, by, n, newStep, half)
        PROVE  Rest'
    <2>1. Placed(k, by, half) \in Int
      BY <1>0, <1>2 DEF Placed, IInv, GridOK, Setup
    <2>2. step' \in Nat /\ center' \in Int /\ edge' \in BOOLEAN
      BY <1>2, <2>1 DEF Refine, SetGrid, Rest
    <2> QED
      BY <1>2, <2>2, RestGrid DEF Refine
  <1>3. CASE Medium \/ Fine \/ SmoothFine
    <2>1. step \in Int /\ step \div 4 \in Int /\ ilmax \in Nat
      BY DEF Rest, IInv, GridOK
    <2>2. ASSUME NEW f, NEW n \in Int PROVE FirstMax(f, n) \subseteq Int
      BY <2>2 DEF FirstMax
    <2>3. SmoothedPoints \in Int
      BY <2>1 DEF SmoothedPoints
    <2> QED
      BY <1>2, <1>3, <2>1, <2>2, <2>3
         DEF Medium, Fine, SmoothFine, MediumStep, FineStep, MediumHalf, FineHalf, SmoothFineHalf
  <1>4. CASE Final
    BY <1>4, RestFinal
  <1>5. CASE SearchPoint
    BY <1>5, RestPoint
  <1>6. CASE EndLoop \/ Finish \/ UNCHANGED vars
    BY <1>6 DEF EndLoop, Finish, vars, grid, searched, Rest
  <1>7. CASE Refit
    <2>1. values' \in [0..(setup'.npts + SmoothFinePoints) -> Nat]
      BY <1>7 DEF Refit, Rest
    <2>2. fits' \in 1..MaxFits
      BY <1>7, SetupAssumption DEF Refit, Rest
    <2> QED
      BY <1>7, <2>1, <2>2 DEF Refit, Rest
  <1> QED
    BY <1>1, <1>3, <1>4, <1>5, <1>6, <1>7 DEF Next, Run, Stopped

(* Every variable has its type, for any setup, data and number of fits.        *)
THEOREM Typed == Spec => []TypeOK
  <1>1. Spec => []Rest
    BY Invariance, RestInit, RestStep, PTL DEF Spec
  <1> QED
    BY <1>1, Invariance, RestSuffices, PTL

(* The visibilities from which the solution is computed (after the last search *)
(* of rjc_ion_search) are rotated by the TEC that is reported: after the first *)
(* fit, and every refit from the cache.                                        *)
THEOREM Applied == Spec => []SolutionIsApplied
  <1>1. IInv => SolutionIsApplied
    BY DEF IInv, GridOK, RotationOK, SolutionIsApplied
  <1> QED
    BY Invariance, <1>1, PTL

(* The full window is kept for the report, although the search may be narrowed *)
(* (fInitialSBWin).                                                            *)
THEOREM Reported == Spec => []FullWindowKept
  <1>1. IInv => FullWindowKept
    BY DEF IInv, WindowOK, FullWindowKept
  <1> QED
    BY Invariance, <1>1, PTL

(* The search is not narrowed to a delay without the signal, if the points next*)
(* to a strong one still see it.                                               *)
THEOREM Narrowed == Spec => []NarrowedToSignal
  <1>1. IInv => NarrowedToSignal
    BY DEF IInv
  <1> QED
    BY Invariance, <1>1, PTL

-----------------------------------------------------------------------------
(* What is reported *)

LEMMA SortedFacts ==
  ASSUME NEW s \in Seq(Point)
  PROVE  /\ Sorted(s) \in Seq(Point) /\ Len(Sorted(s)) = Len(s)
         /\ Range(Sorted(s)) = Range(s)
         /\ \A k, m \in 1..Len(s) : k <= m => Sorted(s)[k].tec <= Sorted(s)[m].tec
  <1> DEFINE D == 1..Len(s)
             Before(j, i) == s[j].tec < s[i].tec \/ (s[j].tec = s[i].tec /\ j < i)
             down(i) == {j \in D : Before(j, i)}
             place == [i \in D |-> 1 + Cardinality(down(i))]
             from(k) == CHOOSE i \in D : place[i] = k
  <1>1. Len(s) \in Nat /\ DOMAIN s = D /\ IsFiniteSet(D) /\ Cardinality(D) = Len(s)
    <2>1. Len(s) \in Nat /\ DOMAIN s = D
      OBVIOUS
    <2>2. PICK n : n = Len(s) /\ n \in Nat
      BY <2>1
    <2>3. IsFiniteSet(1..n) /\ Cardinality(1..n) = n
      <3>1. 1 \in Int /\ n \in Int
        BY <2>2
      <3>2. IsFiniteSet(1..n) /\ Cardinality(1..n) = IF 1 > n THEN 0 ELSE n - 1 + 1
        BY <3>1, FS_Interval, Zenon
      <3> QED
        BY <2>2, <3>2
    <2> QED
      BY <2>1, <2>2, <2>3
  <1>2. Sorted(s) = [k \in D |-> s[from(k)]]
    BY <1>1 DEF Sorted
  <1>3. \A i \in D : s[i] \in Point /\ s[i].tec \in Int /\ i \in Nat
    <2>1. \A i \in D : s[i] \in Point /\ i \in Nat
      BY <1>1
    <2> QED
      BY <2>1 DEF Point
  <1>4. ASSUME NEW i \in D
        PROVE  ~Before(i, i)
    BY <1>3
  <1>5. ASSUME NEW i \in D, NEW j \in D, NEW m \in D, Before(i, j), Before(j, m)
        PROVE  Before(i, m)
    BY <1>3, <1>5
  <1>6. ASSUME NEW i \in D, NEW j \in D
        PROVE  i = j \/ Before(i, j) \/ Before(j, i)
    BY <1>3
  <1>7. ASSUME NEW i \in D, NEW j \in D, Before(i, j)
        PROVE  s[i].tec <= s[j].tec
    BY <1>3, <1>7
  <1> HIDE DEF D, Before
  <1>8. ASSUME NEW i \in D
        PROVE  /\ IsFiniteSet(down(i)) /\ Cardinality(down(i)) \in Nat
               /\ Cardinality(down(i)) < Len(s)
    <2>1. down(i) \in SUBSET D /\ down(i) # D
      BY <1>4
    <2>2. IsFiniteSet(down(i)) /\ Cardinality(down(i)) <= Cardinality(D)
          /\ Cardinality(down(i)) # Cardinality(D)
      BY <1>1, <2>1, FS_Subset
    <2>3. Cardinality(down(i)) \in Nat
      BY <2>2, FS_CardinalityType
    <2> QED
      BY <1>1, <2>2, <2>3
  <1>9. ASSUME NEW i \in D, NEW j \in D, Before(i, j)
        PROVE  Cardinality(down(i)) < Cardinality(down(j))
    <2>1. down(i) \in SUBSET down(j) /\ i \in down(j) /\ i \notin down(i)
      BY <1>4, <1>5, <1>9
    <2>2. IsFiniteSet(down(j))
      BY <1>8
    <2>3. Cardinality(down(i)) <= Cardinality(down(j)) /\ Cardinality(down(i)) # Cardinality(down(j))
      BY <2>1, <2>2, FS_Subset
    <2>4. Cardinality(down(i)) \in Nat /\ Cardinality(down(j)) \in Nat
      BY <1>8
    <2> QED
      BY <2>3, <2>4
  <1> HIDE DEF down
  <1>10. \A i \in D : place[i] \in D
    BY <1>1, <1>8 DEF D
  <1>11. \A i, j \in D : Before(i, j) => place[i] < place[j]
    BY <1>8, <1>9
  <1>12. \A i, j \in D : place[i] = place[j] => i = j
    <2>1. \A i \in D : place[i] \in Nat
      BY <1>8
    <2> QED
      BY <1>6, <1>11, <2>1
  <1>13. place \in Surjection(D, D)
    <2>1. place \in Injection(D, D)
      <3>1. place \in [D -> D]
        BY <1>10 DEF place
      <3> QED
        BY <1>12, <3>1 DEF Injection, IsInjective
    <2> QED
      BY <1>1, <2>1, FS_Injection
  <1>14. \A k \in D : from(k) \in D /\ place[from(k)] = k
    BY <1>13 DEF Surjection
  <1>15. \A i \in D : from(place[i]) = i
    BY <1>10, <1>12, <1>14
  <1> HIDE DEF place, from
  <1>16. Sorted(s) \in Seq(Point) /\ Len(Sorted(s)) = Len(s)
    <2>1. Sorted(s) \in [1..Len(s) -> Point]
      BY <1>2, <1>3, <1>14 DEF D
    <2> QED
      BY <1>1, <2>1, SeqDef, LenProperties DEF D
  <1>17. Range(Sorted(s)) = Range(s)
    <2>1. \A k \in D : Sorted(s)[k] = s[from(k)] /\ Sorted(s)[place[k]] = s[k]
      BY <1>2, <1>10, <1>15
    <2>2. DOMAIN Sorted(s) = D
      BY <1>2
    <2>3. ASSUME NEW k \in D
          PROVE  (\E i \in D : Sorted(s)[k] = s[i]) /\ (\E i \in D : s[k] = Sorted(s)[i])
      BY <1>10, <1>14, <2>1
    <2>4. Range(Sorted(s)) = {Sorted(s)[k] : k \in D} /\ Range(s) = {s[i] : i \in D}
      BY <1>1, <2>2, Zenon DEF Range
    <2> QED
      BY <2>3, <2>4, SMTT(30)
  <1>18. ASSUME NEW k \in D, NEW m \in D, k <= m
         PROVE  Sorted(s)[k].tec <= Sorted(s)[m].tec
    <2>1. PICK i \in D : i = from(k) /\ place[i] = k
      BY <1>14
    <2>2. PICK j \in D : j = from(m) /\ place[j] = m
      BY <1>14
    <2>3. ~Before(j, i)
      BY <1>11, <1>18, <2>1, <2>2 DEF D
    <2>4. s[i].tec <= s[j].tec
      BY <1>3, <1>6, <1>7, <2>3
    <2> QED
      BY <1>2, <2>1, <2>2, <2>4
  <1> QED
    BY <1>16, <1>17, <1>18 DEF D


\* point i of the grid, with its amplitude
PointAt(i) == [tec |-> bottom + i * step, amp |-> values[i]]

Found == {PointAt(i) : i \in 0..(ionloop - 1)}

\* what has been stored so far, and what is still to be: the array has the points of the
\* grids before this one
Gathered ==
  /\ dtec \in Seq(Point)
  /\ pc = "level" => ionloop = ilmax
  /\ pc # "done" =>
       /\ Refreshed => seen = Range(dtec) \cup Found
       /\ Len(dtec) = CASE level = "coarse" -> 0
                        [] level = "medium" -> setup.npts
                        [] level = "fine"   -> setup.npts + SmoothFinePoints - ilmax
                        [] OTHER            -> setup.npts + SmoothFinePoints
       /\ level = "final" => center = bottom /\ step = 0
  /\ PointsReported

LEMMA GatheredInit == Init => Gathered
  <1> SUFFICES ASSUME Init PROVE Gathered
    OBVIOUS
  <1>1. /\ dtec = <<>> /\ pc = "level" /\ level = "coarse" /\ ionloop = 0 /\ ilmax = 0 /\ seen = {}
    BY DEF Init
  <1>2. Found = {} /\ Range(dtec) = {} /\ dtec \in Seq(Point) /\ Len(dtec) = 0
    BY <1>1 DEF Found, Range
  <1> QED
    BY <1>1, <1>2 DEF Gathered, PointsReported

\* the points of a grid are stored behind the others
LEMMA StoredFacts ==
  ASSUME TypeOK, dtec \in Seq(Point), ilmax <= setup.npts + SmoothFinePoints
  PROVE  /\ Stored \in Seq(Point) /\ Len(Stored) = Len(dtec) + ilmax
         /\ Range(Stored) = Range(dtec) \cup {PointAt(i) : i \in 0..(ilmax - 1)}
  <1> DEFINE new == [k \in 1..ilmax |-> [tec |-> bottom + (k - 1) * step, amp |-> values[k - 1]]]
  <1>1. /\ ilmax \in Nat /\ bottom \in Int /\ step \in Nat /\ setup.npts \in Nat
        /\ values \in [0..(setup.npts + SmoothFinePoints) -> Nat]
    BY SetupAssumption DEF TypeOK, Setup
  <1>2. \A i \in 0..(ilmax - 1) : PointAt(i) \in Point
    <2> TAKE i \in 0..(ilmax - 1)
    <2>1. i \in 0..(setup.npts + SmoothFinePoints)
      BY <1>1 DEF SmoothFinePoints
    <2>2. values[i] \in Nat /\ bottom + i * step \in Int
      BY <1>1, <2>1
    <2> QED
      BY <2>2 DEF PointAt, Point
  <1>3. \A k \in 1..ilmax : k - 1 \in 0..(ilmax - 1) /\ new[k] = PointAt(k - 1)
    BY <1>1 DEF PointAt
  <1>4. \A i \in 0..(ilmax - 1) : i + 1 \in 1..ilmax /\ (i + 1) - 1 = i
    BY <1>1
  <1>5. Stored = dtec \o new
    BY DEF Stored
  <1>6. DOMAIN new = 1..ilmax
    OBVIOUS
  <1> HIDE DEF new
  <1>7. new \in Seq(Point) /\ Len(new) = ilmax
    <2>1. new \in [1..ilmax -> Point]
      <3>1. new = [k \in 1..ilmax |-> new[k]]
        BY <1>6 DEF new
      <3> QED
        BY <1>2, <1>3, <3>1
    <2> QED
      BY <1>1, <2>1, SeqDef, LenProperties
  <1>8. /\ Stored \in Seq(Point) /\ Len(Stored) = Len(dtec) + ilmax
        /\ \A i \in 1..(Len(dtec) + ilmax) :
             Stored[i] = IF i <= Len(dtec) THEN dtec[i] ELSE new[i - Len(dtec)]
    BY <1>5, <1>7, ConcatProperties
  <1>9. Len(dtec) \in Nat /\ DOMAIN dtec = 1..Len(dtec)
    OBVIOUS
  <1>10. ASSUME NEW x \in Range(Stored)
         PROVE  x \in Range(dtec) \cup {PointAt(i) : i \in 0..(ilmax - 1)}
    <2>1. PICK i \in 1..(Len(dtec) + ilmax) : x = Stored[i]
      BY <1>8 DEF Range
    <2>2. CASE i <= Len(dtec)
      <3>1. i \in DOMAIN dtec /\ x = dtec[i]
        BY <1>8, <1>9, <2>1, <2>2
      <3> QED
        BY <3>1 DEF Range
    <2>3. CASE i > Len(dtec)
      <3>1. i - Len(dtec) \in 1..ilmax /\ x = new[i - Len(dtec)]
        BY <1>1, <1>8, <1>9, <2>1, <2>3
      <3> QED
        BY <1>3, <3>1
    <2> QED
      BY <1>9, <2>2, <2>3
  <1>11. ASSUME NEW x \in Range(dtec)
         PROVE  x \in Range(Stored)
    <2>1. PICK i \in 1..Len(dtec) : x = dtec[i]
      BY <1>9 DEF Range
    <2>2. i \in 1..(Len(dtec) + ilmax) /\ i <= Len(dtec)
      BY <1>1, <1>9
    <2>3. i \in DOMAIN Stored /\ Stored[i] = x
      BY <1>8, <2>1, <2>2
    <2> QED
      BY <2>3 DEF Range
  <1>12. ASSUME NEW i \in 0..(ilmax - 1)
         PROVE  PointAt(i) \in Range(Stored)
    <2>1. PICK k \in 1..ilmax : k = i + 1 /\ k - 1 = i
      BY <1>4
    <2>2. Len(dtec) + k \in 1..(Len(dtec) + ilmax) /\ ~(Len(dtec) + k <= Len(dtec))
          /\ (Len(dtec) + k) - Len(dtec) = k
      BY <1>1, <1>9
    <2>3. Len(dtec) + k \in DOMAIN Stored /\ Stored[Len(dtec) + k] = new[k]
      BY <1>8, <2>2
    <2>4. new[k] = PointAt(i)
      BY <1>3, <2>1
    <2> QED
      BY <2>3, <2>4 DEF Range
  <1> QED
    BY <1>8, <1>10, <1>11, <1>12

\* the next grid is set up
LEMMA GatheredGrid ==
  ASSUME TypeOK, IInv, Gathered, pc = "level", ilmax # 0, dtec' = Stored, pc' = "point",
         ionloop' = 0, seen' = seen, setup' = setup, fits' = fits,
         \/ level = "coarse" /\ level' = "medium"
         \/ level = "coarse" /\ level' = "fine" /\ ilmax' = SmoothFinePoints
         \/ level = "medium" /\ level' = "fine" /\ ilmax' = FinePoints
         \/ level = "fine" /\ level' = "final" /\ center' = bottom' /\ step' = 0
  PROVE  Gathered'
  <1>1. /\ ilmax \in Nat /\ setup.npts \in Nat
        /\ level = "coarse" => ilmax = setup.npts
        /\ level = "medium" => ilmax = FinePoints
        /\ level = "fine" => ilmax \in {FinePoints, SmoothFinePoints}
    BY SetupAssumption DEF TypeOK, Setup, IInv, GridOK
  <1>2. /\ Stored \in Seq(Point) /\ Len(Stored) = Len(dtec) + ilmax
        /\ Range(Stored) = Range(dtec) \cup {PointAt(i) : i \in 0..(ilmax - 1)}
    <2>1. ilmax <= setup.npts + SmoothFinePoints
      BY <1>1 DEF FinePoints, SmoothFinePoints
    <2> QED
      BY <2>1, StoredFacts DEF Gathered
  <1>3. ionloop = ilmax /\ (Refreshed => seen = Range(Stored))
    BY <1>2 DEF Gathered, Found
  <1>4. Found' = {}
    BY DEF Found
  <1>5. Refreshed' => seen' = Range(dtec') \cup Found'
    BY <1>3, <1>4 DEF Refreshed
  <1>6. Len(dtec') = CASE level' = "coarse" -> 0
                       [] level' = "medium" -> setup'.npts
                       [] level' = "fine"   -> setup'.npts + SmoothFinePoints - ilmax'
                       [] OTHER             -> setup'.npts + SmoothFinePoints
    BY <1>1, <1>2 DEF Gathered, FinePoints, SmoothFinePoints
  <1> QED
    BY <1>2, <1>5, <1>6 DEF Gathered, PointsReported

LEMMA GatheredPoint == TypeOK /\ IInv /\ Gathered /\ SearchPoint => Gathered'
  <1> SUFFICES ASSUME TypeOK, IInv, Gathered, SearchPoint PROVE Gathered'
    OBVIOUS
  <1>1. /\ pc = "point" /\ ionloop < ilmax /\ Rotate(bottom + ionloop * step)
        /\ ionloop' = ionloop + 1 /\ UNCHANGED <<setup, fits, pc, grid, dtec, edge>>
    BY DEF SearchPoint
  <1>2. PICK amp : /\ values' = [values EXCEPT ![ionloop] = amp]
                   /\ seen' = seen \cup {[tec |-> applied', amp |-> amp]}
    BY DEF SearchPoint
  <1>3. /\ ilmax \in Nat /\ setup.npts \in Nat /\ ionloop \in Nat /\ bottom \in Int /\ step \in Nat
        /\ values \in [0..(setup.npts + SmoothFinePoints) -> Nat]
        /\ ilmax <= setup.npts + SmoothFinePoints
    BY <1>1, SetupAssumption
    DEF TypeOK, Setup, IInv, GridOK, Level, FinePoints, SmoothFinePoints
  <1>4. Refreshed' => Refreshed /\ applied' = bottom + ionloop * step
    <2>1. bottom + ionloop * step \in Int
      BY <1>3
    <2> QED
      BY <1>1, <2>1 DEF Rotate, IInv, RotationOK, Refreshed
  <1>5. UNCHANGED <<level, ilmax, step, bottom, center>>
    BY <1>1 DEF grid
  <1>6. PICK n : n = ionloop /\ n \in Nat
    BY <1>3
  <1>7. /\ n \in 0..(setup.npts + SmoothFinePoints) /\ n <= ilmax
        /\ 0..(ionloop - 1) = 0..(n - 1) /\ 0..(ionloop' - 1) = 0..n
    BY <1>1, <1>3, <1>6 DEF SmoothFinePoints
  <1>8. Refreshed' => PointAt(n)' = [tec |-> applied', amp |-> amp]
    <2>1. values'[n] = amp /\ (Refreshed' => applied' = bottom + n * step)
      BY <1>2, <1>3, <1>4, <1>6, <1>7
    <2> QED
      BY <1>5, <2>1 DEF PointAt
  <1>9. \A i \in 0..(n - 1) : PointAt(i)' = PointAt(i)
    <2> TAKE i \in 0..(n - 1)
    <2>1. i # ionloop /\ i \in 0..(setup.npts + SmoothFinePoints)
      BY <1>3, <1>6, <1>7 DEF SmoothFinePoints
    <2>2. values'[i] = values[i]
      BY <1>2, <1>3, <2>1
    <2> QED
      BY <1>5, <2>2 DEF PointAt
  <1>10. Refreshed' => Found' = Found \cup {[tec |-> applied', amp |-> amp]}
    <2>1. Found' = {PointAt(i)' : i \in 0..n} /\ Found = {PointAt(i) : i \in 0..(n - 1)}
      BY <1>7 DEF Found
    <2>2. \A i : i \in 0..n <=> i \in 0..(n - 1) \/ i = n
      BY <1>6
    <2> QED
      BY <1>8, <1>9, <2>1, <2>2
  <1>11. Refreshed' => seen' = Range(dtec') \cup Found'
    BY <1>1, <1>2, <1>4, <1>10 DEF Gathered
  <1> QED
    BY <1>1, <1>5, <1>11 DEF Gathered, PointsReported

LEMMA GatheredFinish == TypeOK /\ IInv /\ Gathered /\ Finish => Gathered'
  <1> SUFFICES ASSUME TypeOK, IInv, Gathered, Finish PROVE Gathered'
    OBVIOUS
  <1>1. /\ pc = "point" /\ ionloop = ilmax /\ pc' = "done" /\ setup' = setup /\ fits' = fits
        /\ seen' = seen
        /\ setup.npts = 1 \/ level = "final"
        /\ dtec' = IF setup.npts = 1 THEN <<>>
                   ELSE Sorted(Append(dtec, [tec |-> center, amp |-> values[0]]))
    BY DEF Finish, searched
  <1>2. CASE setup.npts = 1
    <2>1. dtec' = <<>> /\ ~(setup.npts > 1)
      BY <1>1, <1>2
    <2>2. PointsReported'
      BY <1>1, <2>1 DEF PointsReported
    <2>3. dtec' \in Seq(Point)
      BY <2>1
    <2>4. pc' = "done"
      BY <1>1
    <2>5. pc' # "level" /\ ~(pc' # "done")
      BY <2>4
    <2> QED
      BY <2>2, <2>3, <2>5, Zenon DEF Gathered
  <1>3. CASE setup.npts # 1
    <2> DEFINE p == [tec |-> center, amp |-> values[0]]
               all == Append(dtec, p)
    <2>1. /\ level = "final" /\ ilmax = 1 /\ ionloop = 1 /\ center = bottom /\ step = 0
          /\ bottom \in Int /\ setup.npts \in Nat /\ center \in Int
          /\ values \in [0..(setup.npts + SmoothFinePoints) -> Nat]
      BY <1>1, <1>3, SetupAssumption DEF TypeOK, Setup, IInv, GridOK, Gathered
    <2>2. values[0] \in Nat
      BY <2>1 DEF SmoothFinePoints
    <2>3. p \in Point
      BY <2>1, <2>2 DEF Point
    <2>4. Found = {p}
      <3>1. 0..(ionloop - 1) = {0} /\ bottom + 0 * step = center
        BY <2>1
      <3> QED
        BY <3>1 DEF Found, PointAt
    <2>5. (Refreshed => seen = Range(dtec) \cup {p}) /\ Len(dtec) = setup.npts + SmoothFinePoints
      BY <1>1, <2>1, <2>4 DEF Gathered
    <2>6. dtec \in Seq(Point)
      BY DEF Gathered
    <2> HIDE DEF p
    <2>7. /\ all \in Seq(Point) /\ Len(all) = setup.npts + SmoothFinePoints + 1
          /\ Refreshed => Range(all) = seen
      <3>1. /\ all \in Seq(Point) /\ Len(all) = Len(dtec) + 1
            /\ \A i \in 1..Len(dtec) : all[i] = dtec[i]
            /\ all[Len(dtec) + 1] = p
        BY <2>3, <2>6, AppendProperties
      <3>2. DOMAIN all = 1..(Len(dtec) + 1) /\ DOMAIN dtec = 1..Len(dtec) /\ Len(dtec) \in Nat
        BY <2>6, <3>1
      <3> HIDE DEF all
      <3>3. \A i : i \in DOMAIN all <=> i \in DOMAIN dtec \/ i = Len(dtec) + 1
        BY <3>2
      <3>4. Range(all) = {all[i] : i \in DOMAIN all} /\ Range(dtec) = {dtec[i] : i \in DOMAIN dtec}
        BY Zenon DEF Range
      <3>5. Range(all) = Range(dtec) \cup {p}
        BY <3>1, <3>2, <3>3, <3>4
      <3> QED
        BY <2>5, <3>1, <3>5
    <2>8. dtec' = Sorted(all)
      BY <1>1, <1>3 DEF p
    <2> HIDE DEF all
    <2>9. /\ dtec' \in Seq(Point) /\ Len(dtec') = setup.npts + SmoothFinePoints + 1
          /\ Refreshed => Range(dtec') = seen
      BY <2>7, <2>8, SortedFacts
    <2>10. \A i \in 1..(Len(dtec') - 1) : dtec'[i].tec <= dtec'[i + 1].tec
      <3>1. \A k, m \in 1..Len(dtec') : k <= m => dtec'[k].tec <= dtec'[m].tec
        BY <2>7, <2>8, <2>9, SortedFacts
      <3>2. Len(dtec') \in Nat
        BY <2>9
      <3> QED
        BY <3>1, <3>2
    <2> QED
      BY <1>1, <2>9, <2>10 DEF Gathered, PointsReported, Refreshed
  <1> QED
    BY <1>2, <1>3

LEMMA GatheredStep == TypeOK /\ IInv /\ Gathered /\ [Next]_vars => Gathered'
  <1> SUFFICES ASSUME TypeOK, IInv, Gathered, [Next]_vars PROVE Gathered'
    OBVIOUS
  <1>1. CASE Coarse
    <2>1. /\ ilmax = 0 /\ level' = "coarse" /\ pc = "level" /\ pc' = "point" /\ ionloop' = 0
          /\ UNCHANGED <<setup, fits, dtec, seen>>
      BY <1>1 DEF Coarse, StartLoop, searched
    <2>2. ionloop = 0 /\ level = "coarse"
      BY <2>1 DEF Gathered, IInv, GridOK, Level, FinePoints, SmoothFinePoints
    <2>3. Found = {} /\ Found' = {}
      BY <2>1, <2>2 DEF Found
    <2> QED
      BY <2>1, <2>2, <2>3 DEF Gathered, PointsReported, Refreshed
  <1>2. CASE Medium
    BY <1>2, GatheredGrid DEF Medium, Searching, Refine, StartLoop, SetGrid, searched
  <1>3. CASE Fine
    BY <1>3, GatheredGrid DEF Fine, Searching, Refine, StartLoop, SetGrid, searched
  <1>4. CASE SmoothFine
    BY <1>4, GatheredGrid DEF SmoothFine, Searching, Refine, StartLoop, SetGrid, searched
  <1>5. CASE Final
    <2>1. PICK k \in FirstMax(values, ilmax) : SetGrid("final", 1, 0, Peak(Middle(k)), 0)
      BY <1>5 DEF Final
    <2>2. Peak(Middle(k)) \in Int
      BY <1>5, PeakIsTec DEF Final
    <2>3. level' = "final" /\ step' = 0 /\ center' = bottom'
      BY <2>1, <2>2 DEF SetGrid
    <2> QED
      BY <1>5, <2>3, GatheredGrid DEF Final, Searching, StartLoop, searched
  <1>6. CASE SearchPoint
    BY <1>6, GatheredPoint
  <1>7. CASE EndLoop
    BY <1>7 DEF EndLoop, grid, searched, Gathered, Found, PointAt, PointsReported, Refreshed
  <1>8. CASE Finish
    BY <1>8, GatheredFinish
  <1>9. CASE Refit
    <2>1. /\ dtec' = <<>> /\ pc' = "level" /\ level' = "coarse" /\ ionloop' = 0 /\ ilmax' = 0
          /\ seen' = {}
      BY <1>9 DEF Refit
    <2>2. Found' = {} /\ Range(dtec') = {} /\ dtec' \in Seq(Point) /\ Len(dtec') = 0
      BY <2>1 DEF Found, Range
    <2> QED
      BY <2>1, <2>2 DEF Gathered, PointsReported
  <1>10. CASE UNCHANGED vars
    BY <1>10 DEF vars, grid, searched, Gathered, Found, PointAt, PointsReported, Refreshed
  <1> QED
    BY <1>1, <1>2, <1>3, <1>4, <1>5, <1>6, <1>7, <1>8, <1>9, <1>10 DEF Next, Run, Stopped

(* The array that is reported (sort_tecs, /fringe/dtec_array) is in order and  *)
(* has as many points as all grids, for any setup and after any refit; after   *)
(* the first fit and every refit from the cache it has every point, with the   *)
(* amplitude found there, and no other.                                        *)
THEOREM AllPoints == Spec => []PointsReported
  <1>1. Spec => []Gathered
    BY Invariance, Typed, GatheredInit, GatheredStep, PTL DEF Spec
  <1>2. Gathered => PointsReported
    BY DEF Gathered
  <1> QED
    BY <1>1, <1>2, PTL

-----------------------------------------------------------------------------
(* The peak is found *)

Away(t) == IF t < setup.peak THEN setup.peak - t ELSE t - setup.peak

\* what PeakFound asks of the setup, the data and the fit, for the search without
\* smoothing
Sought ==
  /\ Refreshed
  /\ ~setup.smooth
  /\ setup.npts > 1
  /\ setup.by <= Reach
  /\ Signal(setup.peak + MediumStep \div 2) > Noise
  /\ setup.from <= setup.peak /\ setup.peak <= setup.from + (setup.npts - 1) * setup.by
  /\ \A k \in 0..(setup.npts - 1) : Signal(setup.from + k * setup.by) > Noise

\* the peak is where the grid is
Enclosed ==
  CASE level = "medium" -> bottom <= setup.peak /\ setup.peak <= bottom + 2 * MediumHalf
    [] level = "fine"   -> bottom <= setup.peak /\ setup.peak <= bottom + 2 * FineHalf
    [] level = "final"  -> Within(bottom, setup.peak, FineStep)
    [] OTHER            -> TRUE

(* As long as the search has not been narrowed to noise, what is found at a    *)
(* point is the signal, and the peak is within the grid.                       *)
Tracking ==
  /\ firstPass /\ setup.sbWin /\ window # "full" => level = "coarse" /\ ionloop = 0
  /\ pc = "level" => ionloop = ilmax
  /\ level = "coarse" /\ ilmax # 0 => bottom = setup.from
  /\ level = "fine" /\ ~setup.smooth => ilmax = FinePoints
  /\ level = "final" => step = 0 /\ (ionloop # 0 => ionDiff = bottom)
  /\ pc = "done" => ionloop # 0 /\ (setup.npts > 1 => level = "final")
  /\ Sought /\ window # "noise" /\ ~edge =>
       /\ \A i \in 0..(ionloop - 1) : values[i] = Signal(bottom + i * step)
       /\ Enclosed

LEMMA SignalAway ==
  ASSUME setup \in Setups, NEW t \in Int
  PROVE  /\ Away(t) \in Nat /\ Signal(t) \in Nat /\ Noise \in Nat
         /\ setup.height \in Nat /\ setup.peak \in Int /\ setup.height - Away(t) \in Int
         /\ Signal(t) = IF setup.height - Away(t) > Noise THEN setup.height - Away(t) ELSE Noise
  <1>1. setup.peak \in Int /\ setup.height \in Nat /\ Noise \in Nat
    BY SetupAssumption DEF Setup
  <1> QED
    BY <1>1 DEF Signal, Away

LEMMA TrackingInit == Init => Tracking
  <1> SUFFICES ASSUME Init PROVE Tracking
    OBVIOUS
  <1>1. /\ pc = "level" /\ level = "coarse" /\ ionloop = 0 /\ ilmax = 0
    BY DEF Init
  <1>2. 0..(ionloop - 1) = {}
    BY <1>1
  <1> QED
    BY <1>1, <1>2 DEF Tracking, Enclosed

\* a point: what is found there is the signal, unless the search is confined to noise
LEMMA TrackingPoint == TypeOK /\ IInv /\ Tracking /\ SearchPoint => Tracking'
  <1> SUFFICES ASSUME TypeOK, IInv, Tracking, SearchPoint PROVE Tracking'
    OBVIOUS
  <1>1. /\ pc = "point" /\ ionloop < ilmax /\ Rotate(bottom + ionloop * step)
        /\ ionloop' = ionloop + 1 /\ ionDiff' = bottom + ionloop * step
        /\ UNCHANGED <<setup, fits, pc, level, ilmax, step, bottom, edge>>
    BY DEF SearchPoint, grid
  <1>2. PICK bin \in FoundIn(Searched, applied') :
          LET amp == IF bin = "signal" THEN Signal(applied') ELSE Noise
          IN /\ Narrow(bin)
             /\ values' = [values EXCEPT ![ionloop] = amp]
    BY DEF SearchPoint
  <1>3. /\ setup \in Setups /\ ilmax \in Nat /\ setup.npts \in Nat /\ ionloop \in Nat
        /\ bottom \in Int /\ step \in Nat /\ firstPass \in BOOLEAN /\ setup.sbWin \in BOOLEAN
        /\ values \in [0..(setup.npts + SmoothFinePoints) -> Nat]
        /\ ilmax <= setup.npts + SmoothFinePoints
    BY <1>1, SetupAssumption
    DEF TypeOK, Setup, IInv, GridOK, Level, FinePoints, SmoothFinePoints
  <1>4. PICK n : n = ionloop /\ n \in Nat /\ n \in 0..(setup.npts + SmoothFinePoints)
    BY <1>1, <1>3 DEF SmoothFinePoints
  <1>5. PICK tec \in Int : tec = applied' /\ (Refreshed => tec = bottom + n * step)
    <2>1. bottom + n * step \in Int
      BY <1>3, <1>4
    <2>2. last \in Int /\ applied \in Int /\ (Refreshed => applied = last)
      BY DEF IInv, RotationOK
    <2> QED
      BY <1>1, <1>4, <2>1, <2>2 DEF Rotate
  <1>6. Signal(tec) \in Nat /\ Signal(tec) >= Noise /\ Noise \in Nat
    <2>1. /\ Signal(tec) \in Nat /\ Noise \in Nat /\ setup.height - Away(tec) \in Int
          /\ Signal(tec) = IF setup.height - Away(tec) > Noise THEN setup.height - Away(tec)
                           ELSE Noise
      BY <1>3, SignalAway
    <2> QED
      BY <2>1
  <1>7. window' # "noise" => values'[n] = Signal(tec)
    <2>1. values'[n] = IF bin = "signal" THEN Signal(tec) ELSE Noise
      BY <1>2, <1>3, <1>4, <1>5
    <2>2. window' \in {bin, Searched}
      BY <1>2 DEF Narrow
    <2>3. Searched # "full" => bin = Searched
      BY <1>2 DEF FoundIn
    <2>4. Searched = "full" /\ bin # "signal" => Signal(tec) = Noise
      BY <1>2, <1>5, <1>6 DEF FoundIn
    <2>5. CASE Searched = "full"
      BY <2>1, <2>4, <2>5
    <2>6. CASE Searched # "full"
      <3>1. window' # "noise" => bin # "noise"
        BY <2>2, <2>3, <2>6
      <3>2. bin \in {"full", "signal", "noise"}
        BY <1>2 DEF FoundIn, Searched, TypeOK, Window
      <3> QED
        BY <2>1, <2>3, <2>6, <3>1, <3>2
    <2> QED
      BY <2>5, <2>6
  <1>8. window' # "noise" => window # "noise" \/ (level = "coarse" /\ n = 0)
    <2>1. SUFFICES ASSUME window' # "noise", window = "noise", ~(level = "coarse" /\ n = 0)
                   PROVE  FALSE
      OBVIOUS
    <2>2. Searched = "noise"
      BY <1>4, <2>1 DEF Tracking, Searched
    <2>3. bin = "noise"
      BY <1>2, <2>2 DEF FoundIn
    <2> QED
      BY <1>2, <2>1, <2>2, <2>3 DEF Narrow
  <1>9. firstPass' /\ setup'.sbWin => window' = "full"
    BY <1>1, <1>2 DEF Narrow, Searched
  <1>10. Sought' <=> Sought
    BY <1>1 DEF Sought, Signal, Reach, Refreshed
  <1>11. ASSUME Sought, window' # "noise", ~edge
         PROVE  /\ \A i \in 0..(ionloop' - 1) : values'[i] = Signal(bottom + i * step)
                /\ Enclosed
    <2>1. \A i \in 0..(n - 1) : values[i] = Signal(bottom + i * step)
      <3>1. n = 0 => 0..(n - 1) = {}
        OBVIOUS
      <3> QED
        BY <1>4, <1>8, <1>11, <3>1 DEF Tracking
    <2>2. Enclosed
      BY <1>8, <1>11 DEF Tracking, Enclosed
    <2>3. \A i \in 0..(n - 1) : values'[i] = values[i]
      BY <1>2, <1>3, <1>4
    <2>4. \A i \in 0..(ionloop' - 1) : i \in 0..(n - 1) \/ i = n
      BY <1>1, <1>4
    <2>5. values'[n] = Signal(bottom + n * step)
      BY <1>5, <1>7, <1>11 DEF Sought
    <2> QED
      BY <2>1, <2>2, <2>3, <2>4, <2>5
  <1>12. level = "final" => ionDiff' = bottom'
    <2>1. level = "final" => step = 0
      BY DEF Tracking
    <2> QED
      BY <1>1, <1>3, <2>1
  <1>13. Sought' /\ window' # "noise" /\ ~edge' =>
           /\ \A i \in 0..(ionloop' - 1) : values'[i] = Signal(bottom + i * step)'
           /\ Enclosed'
    BY <1>1, <1>10, <1>11 DEF Signal, Enclosed
  <1> QED
    BY <1>1, <1>9, <1>12, <1>13 DEF Tracking


\* the stronger of two signals is nearer to the peak
LEMMA NearerIsStronger ==
  ASSUME setup \in Setups, NEW t \in Int, NEW u \in Int,
         Signal(u) <= Signal(t), setup.height - Away(u) > Noise
  PROVE  Away(t) <= Away(u)
  <1>1. /\ Away(t) \in Nat /\ Away(u) \in Nat /\ Noise \in Nat /\ setup.height \in Nat
        /\ Signal(t) = IF setup.height - Away(t) > Noise THEN setup.height - Away(t) ELSE Noise
        /\ Signal(u) = IF setup.height - Away(u) > Noise THEN setup.height - Away(u) ELSE Noise
    BY SignalAway
  <1> QED
    BY <1>1

\* some point of a grid around the peak is no more than half a step from it
LEMMA NearPoint ==
  ASSUME setup \in Setups, NEW b \in Int, NEW by \in Nat \ {0}, NEW n \in Nat \ {0},
         b <= setup.peak, setup.peak <= b + (n - 1) * by
  PROVE  \E j \in 0..(n - 1) : 2 * Away(b + j * by) <= by
  <1>1. PICK d \in Nat : d = setup.peak - b /\ setup.peak \in Int
    <2>1. setup.peak \in Int
      BY SignalAway
    <2> QED
      BY <2>1
  <1>2. PICK q \in Nat, r \in 0..(by - 1) : d = q * by + r
    <2>1. d \div by \in Int /\ d % by \in 0..(by - 1) /\ d = by * (d \div by) + (d % by)
      BY <1>1
    <2>2. d \div by >= 0
      BY <1>1
    <2> QED
      BY <2>1, <2>2
  <1>3. q * by \in Int /\ (n - 1) * by \in Int /\ q * by + r <= (n - 1) * by
    BY <1>1, <1>2
  <1>4. q <= n - 1
    <2>1. q >= n => q * by >= (n - 1) * by + by
      <3>1. q >= n => q * by >= n * by
        BY <1>2
      <3>2. n * by = (n - 1) * by + by
        OBVIOUS
      <3> QED
        BY <3>1, <3>2
    <2> QED
      BY <1>2, <1>3, <2>1
  <1>5. b + q * by \in Int /\ setup.peak = b + q * by + r
    <2>1. PICK p \in Int : p = q * by /\ d = p + r
      BY <1>2, <1>3
    <2>2. b + p \in Int /\ setup.peak = b + p + r
      BY <1>1, <1>2, <2>1
    <2> QED
      BY <2>1, <2>2
  <1>6. CASE 2 * r <= by
    <2>1. Away(b + q * by) = r
      BY <1>1, <1>5 DEF Away
    <2>2. q \in 0..(n - 1)
      BY <1>2, <1>4
    <2>3. 2 * Away(b + q * by) <= by
      BY <1>6, <2>1
    <2> QED
      BY <2>2, <2>3
  <1>7. CASE 2 * r > by
    <2>1. q # n - 1
      BY <1>2, <1>3, <1>7
    <2>2. q + 1 \in 0..(n - 1) /\ (q + 1) * by = q * by + by
      BY <1>2, <1>4, <2>1
    <2>3. setup.peak = b + (q + 1) * by - (by - r) /\ b + (q + 1) * by \in Int
      BY <1>2, <1>3, <1>5, <2>2
    <2>4. Away(b + (q + 1) * by) = by - r
      BY <1>1, <1>2, <2>3 DEF Away
    <2>5. 2 * Away(b + (q + 1) * by) <= by
      BY <1>2, <1>7, <2>4
    <2> QED
      BY <2>2, <2>5
  <1> QED
    BY <1>2, <1>6, <1>7

(* The maximum of a grid around the peak whose every point, or the nearest, sees *)
(* the signal, is no more than half a step from the peak.                        *)
LEMMA MaximumIsNear ==
  ASSUME setup \in Setups, NEW b \in Int, NEW by \in Nat \ {0}, NEW n \in Nat \ {0},
         NEW f, \A i \in 0..(n - 1) : f[i] = Signal(b + i * by),
         b <= setup.peak, setup.peak <= b + (n - 1) * by,
         \A j \in 0..(n - 1) : 2 * Away(b + j * by) <= by => setup.height - Away(b + j * by) > Noise,
         NEW k \in FirstMax(f, n)
  PROVE  /\ k \in 0..(n - 1) /\ b + k * by \in Int
         /\ 2 * Away(b + k * by) <= by
  <1>1. k \in 0..(n - 1) /\ \A j \in 0..(n - 1) : f[j] <= f[k]
    BY DEF FirstMax
  <1>2. PICK j \in 0..(n - 1) : 2 * Away(b + j * by) <= by
    BY NearPoint
  <1>3. PICK t \in Int : t = b + k * by
    <2>1. k * by \in Int
      BY <1>1
    <2> QED
      BY <2>1
  <1>4. PICK u \in Int : u = b + j * by
    <2>1. j * by \in Int
      BY <1>2
    <2> QED
      BY <2>1
  <1>5. Signal(u) <= Signal(t)
    BY <1>1, <1>2, <1>3, <1>4
  <1>6. setup.height - Away(u) > Noise /\ 2 * Away(u) <= by
    BY <1>2, <1>4
  <1>7. Away(t) <= Away(u)
    BY <1>5, <1>6, NearerIsStronger
  <1>8. Away(t) \in Nat /\ Away(u) \in Nat
    BY SignalAway
  <1>9. 2 * Away(t) <= by
    BY <1>6, <1>7, <1>8
  <1> QED
    BY <1>1, <1>3, <1>9

\* the grid around a point from which the peak is no further away than half its width
LEMMA PlacedAround ==
  ASSUME setup \in Setups, bottom \in Int, NEW k \in Nat, NEW by \in Int, NEW half \in Nat,
         bottom <= setup.peak, k # setup.npts,
         bottom + k * by \in Int, Away(bottom + k * by) <= half
  PROVE  LET first == Placed(k, by, half) - half
         IN first <= setup.peak /\ setup.peak <= first + 2 * half
  <1>1. PICK t \in Int : t = bottom + k * by
    OBVIOUS
  <1>2. setup.peak \in Int /\ Away(t) <= half
    BY <1>1, SignalAway
  <1>3. t - half <= setup.peak /\ setup.peak <= t + half
    BY <1>2 DEF Away
  <1>4. CASE k = 0
    <2>1. t = bottom
      BY <1>1, <1>4
    <2>2. Placed(k, by, half) = bottom + half
      BY <1>4 DEF Placed
    <2> QED
      BY <1>2, <1>3, <2>1, <2>2
  <1>5. CASE k # 0
    <2>1. Placed(k, by, half) = t
      BY <1>1, <1>5 DEF Placed
    <2> QED
      BY <1>2, <1>3, <2>1
  <1> QED
    BY <1>4, <1>5


\* what holds at the end of a grid that is not the last, when the search was not lost
LEMMA GridSearched ==
  ASSUME TypeOK, IInv, Tracking, Sought, window # "noise", ~edge, pc = "level", ilmax # 0
  PROVE  /\ setup \in Setups /\ setup.npts \in Nat \ {0} /\ setup.peak \in Int
         /\ ilmax \in Nat \ {0} /\ bottom \in Int /\ step \in Int
         /\ \A i \in 0..(ilmax - 1) : values[i] = Signal(bottom + i * step)
         /\ Enclosed
  <1>1. setup \in Setup
    BY SetupAssumption DEF TypeOK
  <1>2. ionloop = ilmax
    BY DEF Tracking
  <1>3. ~(level = "coarse" /\ ionloop = 0)
    BY <1>2
  <1> QED
    BY <1>1, <1>2, <1>3 DEF Tracking, TypeOK, Setup

\* what is left of Tracking when the next grid is set up
LEMMA TrackingGrid ==
  ASSUME TypeOK, IInv, Tracking, StartLoop, UNCHANGED <<setup, fits, searched>>,
         level' \in {"medium", "fine", "final"}, setup.npts > 1,
         level' = "fine" /\ ~setup.smooth => ilmax' = FinePoints,
         level' = "final" => step' = 0,
         pc = "level", ilmax # 0,
         Sought /\ window # "noise" /\ ~edge' => Enclosed'
  PROVE  Tracking'
  <1>1. /\ pc' = "point" /\ ionloop' = 0 /\ window' = window /\ firstPass' = firstPass
        /\ setup' = setup /\ fits' = fits
    BY DEF StartLoop, searched
  <1>2. ~(firstPass' /\ setup'.sbWin /\ window' # "full")
    BY <1>1, ilmax # 0 DEF Tracking
  <1>3. Sought' <=> Sought
    BY <1>1 DEF Sought, Signal, Reach, Refreshed
  <1>4. 0..(ionloop' - 1) = {}
    BY <1>1
  <1>5. /\ level' # "coarse" /\ (ionloop' # 0 => FALSE)
    BY <1>1
  <1>6. (Sought /\ window # "noise" /\ ~edge =>
           /\ \A i \in 0..(ionloop - 1) : values[i] = Signal(bottom + i * step)
           /\ Enclosed)'
    BY <1>1, <1>3, <1>4
  <1> QED
    BY <1>1, <1>2, <1>5, <1>6 DEF Tracking

\* the margin the signal has over the noise
LEMMA Margin ==
  ASSUME setup \in Setups, Sought
  PROVE  setup.height - 10 > Noise
  <1>1. PICK t \in Int : t = setup.peak + MediumStep \div 2 /\ t = setup.peak + 10
    <2>1. setup.peak \in Int
      BY SignalAway
    <2> QED
      BY <2>1 DEF MediumStep
  <1>2. Signal(t) > Noise
    BY <1>1 DEF Sought
  <1>3. /\ Away(t) \in Nat /\ Noise \in Nat /\ setup.height \in Nat
        /\ Signal(t) = IF setup.height - Away(t) > Noise THEN setup.height - Away(t) ELSE Noise
    BY SignalAway
  <1>4. Away(t) = 10
    <2>1. setup.peak \in Int
      BY SignalAway
    <2> QED
      BY <1>1, <2>1 DEF Away
  <1> QED
    BY <1>2, <1>3, <1>4

\* from the coarse points to the medium grid
LEMMA TrackingMedium == TypeOK /\ IInv /\ Tracking /\ Medium => Tracking'
  <1> SUFFICES ASSUME TypeOK, IInv, Tracking, Searching("coarse"), ~setup.smooth,
                      NEW k \in FirstMax(values, ilmax),
                      Refine("medium", k, step, FinePoints, MediumStep, MediumHalf)
               PROVE  Tracking'
    BY DEF Medium
  <1>1. /\ StartLoop /\ UNCHANGED <<setup, fits, searched>> /\ level' = "medium"
        /\ bottom' = Placed(k, step, MediumHalf) - MediumHalf
        /\ edge' = (edge \/ k = setup.npts)
    BY DEF Refine, SetGrid
  <1>2. setup.npts > 1 /\ pc = "level" /\ ilmax # 0
    BY DEF Searching, IInv, GridOK
  <1>3. ASSUME Sought, window # "noise", ~edge'
        PROVE  Enclosed'
    <2>1. /\ setup \in Setups /\ setup.npts \in Nat \ {0} /\ setup.peak \in Int
          /\ ilmax \in Nat \ {0} /\ bottom \in Int
          /\ \A i \in 0..(ilmax - 1) : values[i] = Signal(bottom + i * step)
      BY <1>1, <1>2, <1>3, GridSearched
    <2>2. ilmax = setup.npts /\ step = setup.by /\ bottom = setup.from
      BY <1>2 DEF Searching, IInv, GridOK, Tracking
    <2>3. step \in Nat \ {0} /\ step <= 220
      BY <1>2, <1>3, <2>1, <2>2, SetupAssumption
      DEF Sought, Reach, MediumHalf, FineStep, Setup
    <2>4. \A j \in 0..(ilmax - 1) : setup.height - Away(bottom + j * step) > Noise
      <3> SUFFICES ASSUME NEW j \in 0..(ilmax - 1)
                   PROVE  setup.height - Away(bottom + j * step) > Noise
        OBVIOUS
      <3>1. PICK t \in Int : t = bottom + j * step
        <4>1. j * step \in Int
          BY <2>3
        <4> QED
          BY <2>1, <4>1
      <3>2. Signal(t) > Noise
        BY <1>3, <2>2, <3>1 DEF Sought
      <3>3. setup.height - Away(t) > Noise
        <4>1. /\ Noise \in Nat /\ setup.height - Away(t) \in Int
              /\ Signal(t) = IF setup.height - Away(t) > Noise THEN setup.height - Away(t)
                             ELSE Noise
          BY <2>1, SignalAway
        <4> QED
          BY <3>2, <4>1
      <3> QED
        BY <3>1, <3>3
    <2>5. bottom <= setup.peak /\ setup.peak <= bottom + (ilmax - 1) * step
      BY <1>3, <2>2 DEF Sought
    <2>6. /\ k \in 0..(ilmax - 1) /\ bottom + k * step \in Int
          /\ 2 * Away(bottom + k * step) <= step
      BY <2>1, <2>3, <2>4, <2>5, MaximumIsNear
    <2>7. Away(bottom + k * step) <= MediumHalf
      <3>1. Away(bottom + k * step) \in Nat
        BY <2>1, <2>6, SignalAway
      <3> QED
        BY <2>3, <2>6, <3>1 DEF MediumHalf
    <2>8. k \in Nat /\ k # setup.npts /\ MediumHalf \in Nat /\ step \in Int
      BY <2>1, <2>2, <2>3, <2>6 DEF MediumHalf
    <2>9. bottom' <= setup.peak /\ setup.peak <= bottom' + 2 * MediumHalf
      BY <1>1, <2>1, <2>5, <2>6, <2>7, <2>8, PlacedAround
    <2> QED
      BY <1>1, <2>9 DEF Enclosed
  <1> QED
    BY <1>1, <1>2, <1>3, TrackingGrid

\* from the medium to the fine grid
LEMMA TrackingFine == TypeOK /\ IInv /\ Tracking /\ Fine => Tracking'
  <1> SUFFICES ASSUME TypeOK, IInv, Tracking, Searching("medium"),
                      NEW k \in FirstMax(values, ilmax),
                      Refine("fine", k, step, FinePoints, FineStep, FineHalf)
               PROVE  Tracking'
    BY DEF Fine
  <1>1. /\ StartLoop /\ UNCHANGED <<setup, fits, searched>> /\ level' = "fine"
        /\ bottom' = Placed(k, step, FineHalf) - FineHalf
        /\ ilmax' = FinePoints
        /\ edge' = (edge \/ k = setup.npts)
    BY DEF Refine, SetGrid
  <1>2. setup.npts > 1 /\ pc = "level" /\ ilmax # 0
    BY DEF Searching, IInv, GridOK
  <1>3. ASSUME Sought, window # "noise", ~edge'
        PROVE  Enclosed'
    <2>1. /\ setup \in Setups /\ setup.npts \in Nat \ {0} /\ setup.peak \in Int
          /\ ilmax \in Nat \ {0} /\ bottom \in Int
          /\ \A i \in 0..(ilmax - 1) : values[i] = Signal(bottom + i * step)
          /\ Enclosed
      BY <1>1, <1>2, <1>3, GridSearched
    <2>2. ilmax = 12 /\ step = 20 /\ level = "medium"
      BY <1>2 DEF Searching, IInv, GridOK, FinePoints, MediumStep
    <2>3. bottom <= setup.peak /\ setup.peak <= bottom + (ilmax - 1) * step
      BY <2>1, <2>2 DEF Enclosed, MediumHalf
    <2>4. \A j \in 0..(ilmax - 1) : 2 * Away(bottom + j * step) <= step =>
            setup.height - Away(bottom + j * step) > Noise
      <3> SUFFICES ASSUME NEW j \in 0..(ilmax - 1), 2 * Away(bottom + j * step) <= step
                   PROVE  setup.height - Away(bottom + j * step) > Noise
        OBVIOUS
      <3>1. PICK t \in Int : t = bottom + j * step
        BY <2>1, <2>2
      <3>2. Away(t) \in Nat /\ Noise \in Nat /\ setup.height \in Nat
        BY <2>1, SignalAway
      <3>3. 2 * Away(t) <= 20
        BY <2>2, <3>1
      <3>4. setup.height - Away(t) > Noise
        BY <1>3, <2>1, <3>2, <3>3, Margin
      <3> QED
        BY <3>1, <3>4
    <2>5. step \in Nat \ {0}
      BY <2>2
    <2>6. /\ k \in 0..(ilmax - 1) /\ bottom + k * step \in Int
          /\ 2 * Away(bottom + k * step) <= step
      BY <2>1, <2>3, <2>4, <2>5, MaximumIsNear
    <2>7. Away(bottom + k * step) <= FineHalf
      <3>1. Away(bottom + k * step) \in Nat
        BY <2>1, <2>6, SignalAway
      <3> QED
        BY <2>2, <2>6, <3>1 DEF FineHalf
    <2>8. k \in Nat /\ k # setup.npts /\ FineHalf \in Nat /\ step \in Int
      <3>1. k \in Nat /\ FineHalf \in Nat /\ step \in Int
        BY <2>2, <2>6 DEF FineHalf
      <3>2. k # setup.npts
        BY <1>1, <1>3
      <3> QED
        BY <3>1, <3>2
    <2>9. bottom' <= setup.peak /\ setup.peak <= bottom' + 2 * FineHalf
      BY <1>1, <2>1, <2>3, <2>6, <2>7, <2>8, PlacedAround
    <2> QED
      BY <1>1, <2>9 DEF Enclosed
  <1> QED
    BY <1>1, <1>2, <1>3, TrackingGrid

\* the vertex is on the side of the stronger neighbour
LEMMA VertexSide ==
  ASSUME step = 4, NEW a \in Int, NEW b \in Int, NEW c \in Int,
         2 * b - a - c >= 0, 2 * b - a - c = 0 => c # a
  PROVE  /\ Vertex(<<a, b, c>>) \in -4..4
         /\ c >= a => Vertex(<<a, b, c>>) >= 0
         /\ c < a => Vertex(<<a, b, c>>) <= 0
  <1> DEFINE y == <<a, b, c>>
  <1>1. PICK bend \in Nat, up \in Int : bend = 2 * b - a - c /\ up = c - a
    <2>1. 2 * b - a - c \in Nat /\ c - a \in Int
      OBVIOUS
    <2> QED
      BY <2>1
  <1>2. y[1] = a /\ y[2] = b /\ y[3] = c
    OBVIOUS
  <1> DEFINE x == (step * (c - a)) \div (2 * bend)
  <1>3. Vertex(y) = IF bend <= 0 THEN (IF c > a THEN step ELSE -step)
                    ELSE IF x > step THEN step
                    ELSE IF x < -step THEN -step
                    ELSE x
    BY <1>1, <1>2 DEF Vertex
  <1>4. bend > 0 => x \in Int /\ (up >= 0 => x >= 0) /\ (up < 0 => x <= 0)
    <2>1. x = (4 * up) \div (2 * bend)
      BY <1>1
    <2> HIDE DEF x
    <2>2. PICK p \in Int, q \in Nat : p = 4 * up /\ q = 2 * bend
      OBVIOUS
    <2>3. q > 0 => p \div q \in Int /\ (p >= 0 => p \div q >= 0) /\ (p < 0 => p \div q <= 0)
      BY <2>2
    <2> QED
      BY <2>1, <2>2, <2>3
  <1> HIDE DEF x, y
  <1>5. CASE bend = 0
    <2>1. Vertex(y) = IF c > a THEN 4 ELSE -4
      BY <1>3, <1>5
    <2>2. c # a
      BY <1>1, <1>5
    <2>3. Vertex(y) \in -4..4 /\ (c >= a => Vertex(y) >= 0) /\ (c < a => Vertex(y) <= 0)
      BY <2>1, <2>2
    <2> QED
      BY <2>3 DEF y
  <1>6. CASE bend > 0
    <2>1. Vertex(y) = IF x > 4 THEN 4 ELSE IF x < -4 THEN -4 ELSE x
      <3>1. ~(bend <= 0)
        BY <1>6
      <3> QED
        BY <1>3, <3>1
    <2>2. x \in Int /\ (c >= a => x >= 0) /\ (c < a => x <= 0)
      BY <1>1, <1>4, <1>6
    <2>3. Vertex(y) \in -4..4 /\ (c >= a => Vertex(y) >= 0) /\ (c < a => Vertex(y) <= 0)
      BY <2>1, <2>2
    <2> QED
      BY <2>3 DEF y
  <1> QED
    BY <1>1, <1>5, <1>6

(* The parabola through three points of which the middle one is no further from *)
(* the peak than a fine step has its vertex near the peak.                      *)
LEMMA VertexNearPeak ==
  ASSUME setup \in Setups, step = 4, NEW t \in Int,
         t - 4 <= setup.peak, setup.peak <= t + 4, setup.height - 10 > Noise,
         NEW lower \in Int, NEW middle \in Int, NEW upper \in Int,
         lower = Signal(t - 4), middle = Signal(t), upper = Signal(t + 4)
  PROVE  /\ t + Vertex(<<lower, middle, upper>>) \in Int
         /\ Within(t + Vertex(<<lower, middle, upper>>), setup.peak, 4)
  <1>1. setup.peak \in Int /\ setup.height \in Nat /\ Noise \in Nat
    BY SignalAway
  <1>2. PICK d \in -4..4 : setup.peak = t + d
    <2>1. setup.peak - t \in -4..4 /\ setup.peak = t + (setup.peak - t)
      BY <1>1
    <2> QED
      BY <2>1
  <1>3. lower = setup.height - (d + 4)
    BY <1>1, <1>2 DEF Signal
  <1>4. upper = setup.height - (4 - d)
    BY <1>1, <1>2 DEF Signal
  <1>5. middle = IF d >= 0 THEN setup.height - d ELSE setup.height + d
    BY <1>1, <1>2 DEF Signal
  <1>6. 2 * middle - lower - upper >= 0 /\ upper - lower = 2 * d
    BY <1>1, <1>3, <1>4, <1>5
  <1>7. 2 * middle - lower - upper = 0 => upper # lower
    BY <1>1, <1>3, <1>4, <1>5
  <1>8. PICK v \in Int : v = Vertex(<<lower, middle, upper>>) /\ v \in -4..4
    <2>1. Vertex(<<lower, middle, upper>>) \in -4..4
      BY <1>6, <1>7, VertexSide
    <2> QED
      BY <2>1
  <1>9. (d >= 0 => v >= 0) /\ (d < 0 => v <= 0)
    <2>1. (upper >= lower => v >= 0) /\ (upper < lower => v <= 0)
      BY <1>6, <1>7, <1>8, VertexSide
    <2> QED
      BY <1>6, <2>1
  <1>10. t + v \in Int /\ Within(t + v, setup.peak, 4)
    BY <1>2, <1>8, <1>9 DEF Within
  <1> QED
    BY <1>8, <1>10


\* from the fine grid to the TEC of the peak
LEMMA TrackingFinal == TypeOK /\ IInv /\ Tracking /\ Final => Tracking'
  <1> SUFFICES ASSUME TypeOK, IInv, Tracking, Searching("fine"), StartLoop,
                      NEW k \in FirstMax(values, ilmax),
                      SetGrid("final", 1, 0, Peak(Middle(k)), 0),
                      UNCHANGED <<setup, fits, edge, searched>>
               PROVE  Tracking'
    BY DEF Final
  <1>1. /\ level' = "final" /\ step' = 0 /\ edge' = edge
        /\ bottom' = Peak(Middle(k)) - 0
        /\ UNCHANGED <<setup, fits, searched>>
    BY DEF SetGrid
  <1>2. setup.npts > 1 /\ pc = "level" /\ ilmax # 0 /\ level = "fine" /\ step = 4
    BY DEF Searching, IInv, GridOK, FineStep
  <1>3. ASSUME Sought, window # "noise", ~edge'
        PROVE  Enclosed'
    <2>1. /\ setup \in Setups /\ setup.npts \in Nat \ {0} /\ setup.peak \in Int
          /\ ilmax \in Nat \ {0} /\ bottom \in Int
          /\ \A i \in 0..(ilmax - 1) : values[i] = Signal(bottom + i * step)
          /\ Enclosed
      BY <1>1, <1>2, <1>3, GridSearched
    <2>2. ilmax = 12
      BY <1>2, <1>3 DEF Tracking, Sought, FinePoints
    <2>3. bottom <= setup.peak /\ setup.peak <= bottom + (ilmax - 1) * step
      BY <1>2, <2>1, <2>2 DEF Enclosed, FineHalf
    <2>4. setup.height - 10 > Noise
      BY <1>3, <2>1, Margin
    <2>5. \A j \in 0..(ilmax - 1) : 2 * Away(bottom + j * step) <= step =>
            setup.height - Away(bottom + j * step) > Noise
      <3> SUFFICES ASSUME NEW j \in 0..(ilmax - 1), 2 * Away(bottom + j * step) <= step
                   PROVE  setup.height - Away(bottom + j * step) > Noise
        OBVIOUS
      <3>1. PICK t \in Int : t = bottom + j * step
        BY <1>2, <2>1, <2>2
      <3>2. Away(t) \in Nat /\ Noise \in Nat /\ setup.height \in Nat
        BY <2>1, SignalAway
      <3>3. 2 * Away(t) <= 4
        BY <1>2, <3>1
      <3>4. setup.height - Away(t) > Noise
        BY <2>4, <3>2, <3>3
      <3> QED
        BY <3>1, <3>4
    <2>6. step \in Nat \ {0}
      BY <1>2
    <2>7. /\ k \in 0..(ilmax - 1)
          /\ 2 * Away(bottom + k * step) <= step
      BY <2>1, <2>3, <2>5, <2>6, MaximumIsNear
    <2>8. PICK u \in Int : u = bottom + k * 4 /\ k \in 0..11 /\ 2 * Away(u) <= 4
      BY <1>2, <2>1, <2>2, <2>7
    <2>9. u - 2 <= setup.peak /\ setup.peak <= u + 2
      BY <2>1, <2>8 DEF Away
    <2>10. PICK m \in 1..10 : m = Middle(k)
      BY <2>2, <2>8 DEF Middle
    <2>11. PICK t \in Int : t = bottom + m * 4
      BY <2>1
    <2>12. t - 4 <= setup.peak /\ setup.peak <= t + 4
      <3>1. CASE k = 0
        BY <2>1, <2>2, <2>3, <2>8, <2>9, <2>10, <2>11, <3>1 DEF Middle
      <3>2. CASE k = 11
        BY <1>2, <2>1, <2>2, <2>3, <2>8, <2>9, <2>10, <2>11, <3>2 DEF Middle
      <3>3. CASE k # 0 /\ k # 11
        BY <2>1, <2>2, <2>8, <2>9, <2>10, <2>11, <3>3 DEF Middle
      <3> QED
        BY <3>1, <3>2, <3>3
    <2>13. /\ values[m - 1] = Signal(t - 4) /\ values[m] = Signal(t)
           /\ values[m + 1] = Signal(t + 4)
      <3>1. m - 1 \in 0..(ilmax - 1) /\ m \in 0..(ilmax - 1) /\ m + 1 \in 0..(ilmax - 1)
        BY <2>2
      <3>2. /\ values[m - 1] = Signal(bottom + (m - 1) * step)
            /\ values[m] = Signal(bottom + m * step)
            /\ values[m + 1] = Signal(bottom + (m + 1) * step)
        BY <2>1, <3>1
      <3>3. /\ bottom + (m - 1) * step = t - 4 /\ bottom + m * step = t
            /\ bottom + (m + 1) * step = t + 4
        BY <1>2, <2>1, <2>11
      <3> QED
        BY <3>2, <3>3
    <2>14. Signal(t - 4) \in Int /\ Signal(t) \in Int /\ Signal(t + 4) \in Int
      <3>1. \A s \in Int : Signal(s) \in Nat
        BY <2>1, SignalAway
      <3>2. t - 4 \in Int /\ t + 4 \in Int
        OBVIOUS
      <3> QED
        BY <3>1, <3>2
    <2> DEFINE y == <<values[m - 1], values[m], values[m + 1]>>
    <2>15. t + Vertex(y) \in Int /\ Within(t + Vertex(y), setup.peak, 4)
      BY <1>2, <2>1, <2>4, <2>12, <2>13, <2>14, VertexNearPeak
    <2>16. Peak(m) = t + Vertex(y)
      BY <1>2, <2>1, <2>11 DEF Peak
    <2>17. bottom' = t + Vertex(y)
      <3> HIDE DEF y
      <3>1. bottom' = Peak(m) - 0
        BY <1>1, <2>10
      <3> QED
        BY <2>15, <2>16, <3>1
    <2>18. Within(bottom', setup.peak, FineStep)
      BY <2>15, <2>17 DEF FineStep
    <2> QED
      BY <1>1, <2>18 DEF Enclosed
  <1> QED
    BY <1>1, <1>2, <1>3, TrackingGrid

\* the other steps
LEMMA TrackingOther ==
  TypeOK /\ IInv /\ Tracking /\ (Coarse \/ SmoothFine \/ EndLoop \/ Finish \/ Refit \/ UNCHANGED vars)
    => Tracking'
  <1> SUFFICES ASSUME TypeOK, IInv, Tracking,
                      Coarse \/ SmoothFine \/ EndLoop \/ Finish \/ Refit \/ UNCHANGED vars
               PROVE  Tracking'
    OBVIOUS
  <1>1. CASE Coarse
    <2>1. /\ pc' = "point" /\ ionloop' = 0 /\ level' = "coarse" /\ bottom' = setup.from
          /\ UNCHANGED <<setup, window, firstPass, edge>>
      BY <1>1 DEF Coarse, StartLoop, searched
    <2>2. 0..(ionloop' - 1) = {}
      BY <2>1
    <2> QED
      BY <2>1, <2>2 DEF Tracking, Enclosed
  <1>2. CASE SmoothFine
    <2>1. /\ StartLoop /\ UNCHANGED <<setup, fits, searched>> /\ level' = "fine"
          /\ setup.smooth /\ Searching("coarse")
      BY <1>2 DEF SmoothFine, Refine, SetGrid
    <2>2. setup.npts > 1 /\ pc = "level" /\ ilmax # 0
      BY <2>1 DEF Searching, IInv, GridOK
    <2>3. ~Sought
      BY <2>1 DEF Sought
    <2> QED
      BY <2>1, <2>2, <2>3, TrackingGrid
  <1>3. CASE EndLoop
    <2>1. /\ pc' = "level" /\ ionloop = ilmax
          /\ UNCHANGED <<setup, fits, grid, ionloop, edge, searched>>
      BY <1>3 DEF EndLoop
    <2>2. (Sought' <=> Sought) /\ (Enclosed' <=> Enclosed)
      BY <2>1 DEF grid, Sought, Signal, Reach, Enclosed, Refreshed
    <2>3. (\A i \in 0..(ionloop - 1) : values[i] = Signal(bottom + i * step))' <=>
          \A i \in 0..(ionloop - 1) : values[i] = Signal(bottom + i * step)
      BY <2>1 DEF grid, searched, Signal
    <2> QED
      BY <2>1, <2>2, <2>3 DEF Tracking, grid, searched
  <1>4. CASE Finish
    <2>1. /\ pc' = "done" /\ ionloop = ilmax /\ pc = "point"
          /\ setup.npts = 1 \/ level = "final"
          /\ UNCHANGED <<setup, fits, grid, ionloop, edge, searched>>
      BY <1>4 DEF Finish
    <2>2. (Sought' <=> Sought) /\ (Enclosed' <=> Enclosed)
      BY <2>1 DEF grid, Sought, Signal, Reach, Enclosed, Refreshed
    <2>3. (\A i \in 0..(ionloop - 1) : values[i] = Signal(bottom + i * step))' <=>
          \A i \in 0..(ionloop - 1) : values[i] = Signal(bottom + i * step)
      BY <2>1 DEF grid, searched, Signal
    <2>4. ionloop # 0 /\ (setup.npts > 1 => level = "final")
      <3>1. setup.npts = 1 => ~(setup.npts > 1)
        OBVIOUS
      <3>2. ilmax # 0
        BY <2>1 DEF IInv, GridOK
      <3> QED
        BY <2>1, <3>1, <3>2
    <2> QED
      BY <2>1, <2>2, <2>3, <2>4 DEF Tracking, grid, searched
  <1>5. CASE Refit
    <2>1. /\ pc' = "level" /\ ionloop' = 0 /\ level' = "coarse" /\ ilmax' = 0
      BY <1>5 DEF Refit
    <2>2. 0..(ionloop' - 1) = {}
      BY <2>1
    <2> QED
      BY <2>1, <2>2 DEF Tracking, Enclosed
  <1>6. CASE UNCHANGED vars
    <2>1. UNCHANGED <<setup, fits, pc, grid, ionloop, edge, searched>>
      BY <1>6 DEF vars
    <2>2. (Sought' <=> Sought) /\ (Enclosed' <=> Enclosed)
      BY <2>1 DEF grid, Sought, Signal, Reach, Enclosed, Refreshed
    <2>3. (\A i \in 0..(ionloop - 1) : values[i] = Signal(bottom + i * step))' <=>
          \A i \in 0..(ionloop - 1) : values[i] = Signal(bottom + i * step)
      BY <2>1 DEF grid, searched, Signal
    <2> QED
      BY <2>1, <2>2, <2>3 DEF Tracking, grid, searched
  <1> QED
    BY <1>1, <1>2, <1>3, <1>4, <1>5, <1>6

LEMMA TrackingStep == TypeOK /\ IInv /\ Tracking /\ [Next]_vars => Tracking'
  BY TrackingPoint, TrackingMedium, TrackingFine, TrackingFinal, TrackingOther
  DEF Next, Run, Stopped

LEMMA TrackedPeakFound == TypeOK /\ Tracking => (~setup.smooth => PeakFound)
  <1> SUFFICES ASSUME TypeOK, Tracking, ~setup.smooth,
                      pc = "done", Refreshed, setup.npts > 1, ~edge, window # "noise",
                      setup.by <= Reach,
                      Signal(setup.peak + MediumStep \div 2) > Noise,
                      setup.from <= setup.peak,
                      setup.peak <= setup.from + (setup.npts - 1) * setup.by,
                      \A k \in 0..(setup.npts - 1) : Signal(setup.from + k * setup.by) > Noise
               PROVE  Within(ionDiff, setup.peak, FineStep)
    BY DEF PeakFound
  <1>1. Sought
    BY DEF Sought
  <1>2. level = "final" /\ ionloop # 0 /\ ionDiff = bottom
    BY DEF Tracking
  <1>3. Enclosed
    BY <1>1, <1>2 DEF Tracking
  <1> QED
    BY <1>2, <1>3 DEF Enclosed

(* PeakFound (the TEC that rjc_ion_search reports is the one sought, in the    *)
(* first fit and every refit from the cache) for a search without smoothing:   *)
(* what the smoothed grid has for a maximum depends on sums over the coarse    *)
(* points, and is left to the runs.                                            *)
THEOREM PlainPeakFound == Spec => [](~setup.smooth => PeakFound)
  <1>1. Init => Tracking
    BY TrackingInit
  <1>2. TypeOK /\ IInv /\ Tracking /\ [Next]_vars => Tracking'
    BY TrackingStep
  <1>3. TypeOK /\ Tracking => (~setup.smooth => PeakFound)
    BY TrackedPeakFound
  <1> QED
    BY <1>1, <1>2, <1>3, Typed, Invariance, PTL DEF Spec
=============================================================================
