------------------------- MODULE DelaySearchProofs -------------------------
(***************************************************************************)
(* Both builds of the coarse search answer every request as PeakSearch     *)
(* says, for any number of threads and any way of dealing the slices.  The *)
(* inductive invariant says of every maximum kept - one by each thread,    *)
(* one by the search - that it is the first maximum of the bins it has     *)
(* taken in.  Two lemmas carry it: one more bin is visited (AfterVisit);   *)
(* the maximum of a later run of bins is merged (AfterMerge).              *)
(***************************************************************************)
EXTENDS DelaySearch, FiniteSetTheorems, TLAPS

\* b is the first bin of S with the largest power, which is v; if no power in S is
\* positive, b is the old bin and v is 0
Peak(S, b, v, old) ==
  \/ Request!IsPeak(power, S, b, v)
  \/ (\A c \in S : power[c] = 0) /\ b = old /\ v = 0

\* the bins of the windows from lo up to, not including, hi
Within(lo, hi) == {b \in window : lo <= b /\ b < hi}

\* the bins that the maximum of the search has taken in: those below Done
Done ==
  IF pc = "idle" THEN NBins
  ELSE IF pc = "merge" THEN cut[merged] * PerSlice
  ELSE IF parallel THEN 0 ELSE at[0]

(* A search in progress has the deal of its build; a serial one merges nothing. *)
Phases ==
  /\ ~parallel /\ pc # "idle" => Stop(0) = NBins
  /\ ~parallel /\ pc = "merge" => merged = NThreads
  /\ parallel /\ pc = "merge" => \A t \in Thread : at[t] = Stop(t)

(* Each thread has the first maximum, and the number, of the bins it visited. *)
LocalMaxima ==
  parallel /\ pc # "idle" =>
    \A t \in Thread :
      /\ Peak(Within(Start(t), at[t]), local[t].bin, local[t].val, None)
      /\ local[t].points = Cardinality(Within(Start(t), at[t]))

(* The search has those of the bins it took in. *)
GlobalMaximum ==
  /\ Peak(Within(0, Done), best, max, before)
  /\ searched = Cardinality(Within(0, Done))

(* What Finalize leaves. *)
Answered == pc = "idle" => found = (best # None)

IInv == DelayTypeOK /\ Phases /\ LocalMaxima /\ GlobalMaximum /\ Answered

-----------------------------------------------------------------------------
(* Arithmetic of slices *)

LEMMA Monotone ==
  ASSUME NEW a \in Nat, NEW b \in Nat, NEW c \in Nat, a <= b
  PROVE  a * c <= b * c /\ a * c \in Nat
<1>1. PICK d \in Nat : b = a + d
  <2>1. b - a \in Nat /\ b = a + (b - a)
    OBVIOUS
  <2> QED BY <2>1
<1>2. b * c = a * c + d * c
  BY <1>1
<1>3. a * c \in Nat /\ d * c \in Nat
  OBVIOUS
<1> QED BY <1>2, <1>3

LEMMA BinsExist == NBins \in Nat
BY ConstantsAssumption DEF NBins

(* Where the run of each thread starts and stops. *)
LEMMA Runs ==
  ASSUME NEW c \in Deals
  PROVE  /\ c[0] * PerSlice = 0
         /\ c[NThreads] * PerSlice = NBins
         /\ \A t \in 0..NThreads : c[t] * PerSlice \in 0..NBins
         /\ \A t \in Thread : /\ t \in 0..NThreads
                              /\ t + 1 \in 0..NThreads
                              /\ c[t] * PerSlice <= c[t + 1] * PerSlice
<1>1. /\ NThreads \in Nat \ {0} /\ NSBD \in Nat \ {0, 1} /\ PerSlice \in Nat \ {0}
  BY ConstantsAssumption
<1>2. /\ c \in [0..NThreads -> 0..NSBD]
      /\ c[0] = 0
      /\ c[NThreads] = NSBD
  BY DEF Deals
<1>3. \A t \in Thread : t \in 0..NThreads /\ t + 1 \in 0..NThreads
  BY <1>1 DEF Thread
<1>4. \A t \in Thread : c[t] <= c[t + 1]
  <2>1. PICK team \in 1..NThreads, q \in 0..NSBD :
          /\ \A t \in 0..(team - 1) : c[t + 1] - c[t] \in {q, q + 1}
          /\ \A t \in team..(NThreads - 1) : c[t + 1] = c[t]
    BY DEF Deals
  <2> TAKE t \in Thread
  <2>2. c[t] \in Int /\ c[t + 1] \in Int
    BY <1>2, <1>3
  <2>3. CASE t < team
    <3>1. t \in 0..(team - 1)
      BY <2>3, <1>1 DEF Thread
    <3>2. c[t + 1] - c[t] \in {q, q + 1}
      BY <2>1, <3>1
    <3> QED BY <3>2, <2>2
  <2>4. CASE t >= team
    <3>1. t \in team..(NThreads - 1)
      BY <2>4, <1>1 DEF Thread
    <3> QED BY <2>1, <3>1, <2>2
  <2> QED BY <2>3, <2>4, <1>1 DEF Thread
<1>5. \A t \in 0..NThreads : c[t] * PerSlice \in 0..NBins
  <2> TAKE t \in 0..NThreads
  <2>1. c[t] \in Nat /\ c[t] <= NSBD
    BY <1>1, <1>2
  <2>2. c[t] * PerSlice <= NSBD * PerSlice /\ c[t] * PerSlice \in Nat
    BY <2>1, <1>1, Monotone
  <2> QED BY <2>2, BinsExist DEF NBins
<1>6. \A t \in Thread : c[t] * PerSlice <= c[t + 1] * PerSlice
  <2> TAKE t \in Thread
  <2>1. c[t] \in Nat /\ c[t + 1] \in Nat
    BY <1>2, <1>3
  <2> QED BY <2>1, <1>4, <1>1, Monotone
<1>7. c[0] * PerSlice = 0 /\ c[NThreads] * PerSlice = NBins
  BY <1>1, <1>2 DEF NBins
<1> QED BY <1>3, <1>5, <1>6, <1>7

(* The same of the deal in the current state. *)
LEMMA Bounds ==
  ASSUME DelayTypeOK
  PROVE  \A t \in Thread : /\ Start(t) \in 0..NBins
                           /\ Stop(t) \in 0..NBins
                           /\ Start(t) <= at[t]
                           /\ at[t] \in Nat
                           /\ at[t] < Stop(t) => at[t] \in Bin
<1> TAKE t \in Thread
<1>1. cut \in Deals /\ at[t] \in 0..NBins /\ at[t] \in Start(t)..Stop(t)
  BY DEF DelayTypeOK
<1>2. Start(t) \in 0..NBins /\ Stop(t) \in 0..NBins
  BY <1>1, Runs DEF Start, Stop
<1> QED BY <1>1, <1>2, BinsExist DEF Bin

LEMMA DataTyped ==
  ASSUME DelayTypeOK
  PROVE  power \in [Bin -> Nat] /\ window \subseteq Bin
BY ConstantsAssumption DEF DelayTypeOK

-----------------------------------------------------------------------------
(* Runs of bins *)

LEMMA WithinFinite ==
  ASSUME window \subseteq Bin, NEW lo, NEW hi
  PROVE  IsFiniteSet(Within(lo, hi)) /\ Cardinality(Within(lo, hi)) \in Nat
<1>1. IsFiniteSet(Bin)
  BY FS_Interval, BinsExist DEF Bin
<1>2. Within(lo, hi) \subseteq Bin
  BY DEF Within
<1> QED BY <1>1, <1>2, FS_Subset, FS_CardinalityType

LEMMA WithinEmpty ==
  ASSUME window \subseteq Bin, NEW n \in Nat
  PROVE  Within(n, n) = {} /\ Cardinality(Within(n, n)) = 0
<1>1. window \subseteq Nat
  BY BinsExist DEF Bin
<1>2. \A b \in window : ~(n <= b /\ b < n)
  BY <1>1
<1>3. Within(n, n) = {}
  BY <1>2 DEF Within
<1> QED BY <1>3, FS_EmptySet

LEMMA WithinAll ==
  ASSUME window \subseteq Bin
  PROVE  Within(0, NBins) = window
<1>1. \A b \in window : 0 <= b /\ b < NBins
  BY BinsExist DEF Bin
<1> QED BY <1>1 DEF Within

(* One more bin is visited. *)
LEMMA AfterVisit ==
  ASSUME window \subseteq Bin, power \in [Bin -> Nat],
         NEW lo \in Nat, NEW b \in Bin, lo <= b,
         NEW m, m.val \in Nat, m.points \in Nat, NEW old,
         Peak(Within(lo, b), m.bin, m.val, old),
         m.points = Cardinality(Within(lo, b))
  PROVE  /\ Peak(Within(lo, b + 1), Visit(m, b).bin, Visit(m, b).val, old)
         /\ Visit(m, b).points = Cardinality(Within(lo, b + 1))
         /\ Visit(m, b).val \in Nat
         /\ Visit(m, b).bin \in {m.bin, b}
         /\ Visit(m, b).points \in Nat
<1>1. window \subseteq Nat /\ b \in Nat
  BY BinsExist DEF Bin
<1>2. CASE b \notin window
  <2>1. Within(lo, b + 1) = Within(lo, b)
    <3>1. \A c \in window : c < b + 1 <=> c < b
      BY <1>1, <1>2
    <3> QED BY <3>1 DEF Within
  <2>2. Visit(m, b) = m
    BY <1>2 DEF Visit
  <2> QED BY <2>1, <2>2
<1>3. CASE b \in window
  <2>1. Within(lo, b + 1) = Within(lo, b) \cup {b} /\ b \notin Within(lo, b)
    <3>1. \A c \in window : c < b + 1 <=> c < b \/ c = b
      BY <1>1
    <3>2. lo <= b /\ ~(b < b)
      BY <1>1
    <3> QED BY <3>1, <3>2, <1>3 DEF Within
  <2>2. Cardinality(Within(lo, b + 1)) = Cardinality(Within(lo, b)) + 1
    BY <2>1, WithinFinite, FS_AddElement
  <2>3. \A c \in Within(lo, b) : c < b /\ c \in Nat /\ power[c] \in Nat
    BY <1>1 DEF Within
  <2>4. power[b] \in Nat
    OBVIOUS
  <2>5. CASE power[b] > m.val
    <3>1. Visit(m, b) = [val |-> power[b], bin |-> b, points |-> m.points + 1]
      BY <1>3, <2>5 DEF Visit, Exceeds
    <3>2. \A c \in Within(lo, b) : power[c] < power[b]
      BY <2>3, <2>4, <2>5 DEF Peak, Request!IsPeak
    <3>3. Peak(Within(lo, b + 1), b, power[b], old)
      BY <2>1, <2>4, <2>5, <3>2, <1>1 DEF Peak, Request!IsPeak
    <3> QED BY <3>1, <3>3, <2>2, <2>4
  <2>6. CASE ~(power[b] > m.val)
    <3>1. Visit(m, b) = [val |-> m.val, bin |-> m.bin, points |-> m.points + 1]
      BY <1>3, <2>6 DEF Visit, Exceeds
    <3>2. Peak(Within(lo, b + 1), m.bin, m.val, old)
      BY <2>1, <2>3, <2>4, <2>6, <1>1 DEF Peak, Request!IsPeak
    <3> QED BY <3>1, <3>2, <2>2
  <2> QED BY <2>5, <2>6
<1> QED BY <1>2, <1>3

(* The maximum of the run of bins that follows is merged. *)
LEMMA AfterMerge ==
  ASSUME window \subseteq Bin, power \in [Bin -> Nat],
         NEW mid \in Nat, NEW hi \in Nat, mid <= hi,
         NEW b, NEW v \in Nat, NEW n \in Nat, NEW old,
         NEW m, m.val \in Nat, m.points \in Nat,
         Peak(Within(0, mid), b, v, old),
         n = Cardinality(Within(0, mid)),
         Peak(Within(mid, hi), m.bin, m.val, None),
         m.points = Cardinality(Within(mid, hi))
  PROVE  /\ Peak(Within(0, hi),
                 IF Exceeds(m.val, v) THEN m.bin ELSE b,
                 IF Exceeds(m.val, v) THEN m.val ELSE v, old)
         /\ n + m.points = Cardinality(Within(0, hi))
<1> DEFINE A == Within(0, mid)
           B == Within(mid, hi)
<1>1. window \subseteq Nat
  BY BinsExist DEF Bin
<1>2. Within(0, hi) = A \cup B /\ A \cap B = {}
  <2>1. \A c \in window : /\ 0 <= c /\ c < hi <=> (0 <= c /\ c < mid) \/ (mid <= c /\ c < hi)
                          /\ ~((0 <= c /\ c < mid) /\ (mid <= c /\ c < hi))
    BY <1>1
  <2> QED BY <2>1 DEF Within
<1>3. Cardinality(Within(0, hi)) = Cardinality(A) + Cardinality(B)
  <2>1. IsFiniteSet(A) /\ IsFiniteSet(B)
    BY WithinFinite
  <2>2. Cardinality(A \cup B) = Cardinality(A) + Cardinality(B) - Cardinality(A \cap B)
    BY <2>1, FS_Union
  <2>3. Cardinality(A) \in Nat /\ Cardinality(B) \in Nat
    BY <2>1, FS_CardinalityType
  <2>4. Cardinality(A \cap B) = 0
    BY <1>2, FS_EmptySet
  <2>5. Cardinality(Within(0, hi)) = Cardinality(A \cup B)
    BY <1>2
  <2> HIDE DEF A, B
  <2> QED BY <2>2, <2>3, <2>4, <2>5
<1>4. \A c \in A, d \in B : c < d
  BY <1>1 DEF Within
<1>5. \A c \in A \cup B : c \in Nat /\ power[c] \in Nat
  BY <1>1 DEF Within
<1>6. CASE m.val > v
  <2>1. m.bin \in B /\ m.val = power[m.bin] /\ m.val > 0
        /\ \A c \in B : power[c] < m.val \/ (power[c] = m.val /\ m.bin <= c)
    BY <1>6 DEF Peak, Request!IsPeak
  <2>2. \A c \in A : power[c] < m.val
    BY <1>5, <1>6 DEF Peak, Request!IsPeak
  <2>3. Peak(A \cup B, m.bin, m.val, old)
    BY <2>1, <2>2 DEF Peak, Request!IsPeak
  <2> QED BY <2>3, <1>2, <1>3, <1>6 DEF Exceeds
<1>7. CASE ~(m.val > v)
  <2>1. \A c \in B : power[c] <= v
    BY <1>5, <1>7 DEF Peak, Request!IsPeak
  <2>2. Peak(A \cup B, b, v, old)
    <3>1. CASE v > 0
      BY <3>1, <2>1, <1>4, <1>5 DEF Peak, Request!IsPeak
    <3>2. CASE v = 0
      BY <3>2, <2>1, <1>5 DEF Peak, Request!IsPeak
    <3> QED BY <3>1, <3>2
  <2> QED BY <2>2, <1>2, <1>3, <1>7 DEF Exceeds
<1> QED BY <1>6, <1>7

-----------------------------------------------------------------------------
(* Type correctness *)

LEMMA ThreadZero == 0 \in Thread /\ 0 \in 0..NThreads /\ NThreads \in 0..NThreads
BY ConstantsAssumption DEF Thread

LEMMA VisitTyped ==
  ASSUME DelayTypeOK, NEW m \in LocalMax, NEW b \in Bin
  PROVE  Visit(m, b) \in LocalMax
<1>1. power[b] \in Nat
  BY DataTyped
<1> QED BY <1>1 DEF Visit, LocalMax

LEMMA TypeInit ==
  ASSUME Init
  PROVE  DelayTypeOK
<1>1. cut \in Deals
  BY DEF Init
<1>2. \A t \in Thread : /\ Start(t) \in 0..NBins
                        /\ Stop(t) \in 0..NBins
                        /\ Start(t) <= Stop(t)
  BY <1>1, Runs DEF Start, Stop
<1>3. at \in [Thread -> 0..NBins] /\ \A t \in Thread : at[t] \in Start(t)..Stop(t)
  BY <1>2, BinsExist DEF Init
<1>4. local \in [Thread -> LocalMax] /\ merged \in 0..NThreads
  BY ThreadZero DEF Init, Fresh, LocalMax
<1> QED BY <1>1, <1>3, <1>4 DEF Init, DelayTypeOK

LEMMA TypeStep ==
  ASSUME DelayTypeOK, [Next]_vars
  PROVE  DelayTypeOK'
<1> USE DEF DelayTypeOK
<1>1. CASE Execute
  <2>1. cut' \in Deals
    BY <1>1 DEF Execute
  <2>2. \A t \in Thread : /\ Start(t)' \in 0..NBins
                          /\ Stop(t)' \in 0..NBins
                          /\ Start(t)' <= Stop(t)'
    BY <2>1, Runs DEF Start, Stop
  <2>3. \A t \in Thread : at'[t] = Start(t)'
    BY <1>1 DEF Execute, Start
  <2>4. at' \in [Thread -> 0..NBins] /\ \A t \in Thread : at'[t] \in Start(t)'..Stop(t)'
    <3>1. at' = [t \in Thread |-> Start(t)']
      BY <1>1 DEF Execute, Start
    <3> QED BY <3>1, <2>2, BinsExist
  <2>5. local' \in [Thread -> LocalMax]
    BY <1>1 DEF Execute, Fresh, LocalMax
  <2> QED BY <1>1, <2>1, <2>4, <2>5 DEF Execute
<1>2. CASE SerialPoint
  <2> DEFINE m == [val |-> max, bin |-> best, points |-> searched]
  <2>1. at[0] \in Bin /\ at[0] \in Nat /\ at[0] < Stop(0)
    BY <1>2, Bounds, ThreadZero DEF SerialPoint
  <2>2. m \in LocalMax
    BY DEF LocalMax
  <2>3. Visit(m, at[0]) \in LocalMax
    BY <2>1, <2>2, VisitTyped
  <2>4. max' \in Nat /\ best' \in Bin \cup {None} /\ searched' \in Nat
    BY <1>2, <2>3 DEF SerialPoint, LocalMax
  <2>5. at' \in [Thread -> 0..NBins] /\ \A t \in Thread : at'[t] \in Start(t)..Stop(t)
    BY <1>2, <2>1, Bounds, BinsExist, ThreadZero DEF SerialPoint, Bin
  <2> QED BY <1>2, <2>4, <2>5 DEF SerialPoint, request, Start, Stop
<1>3. ASSUME NEW t \in Thread, Point(t)
      PROVE  DelayTypeOK'
  <2>1. at[t] \in Bin /\ at[t] \in Nat /\ at[t] < Stop(t)
    BY <1>3, Bounds DEF Point
  <2>2. local[t] \in LocalMax
    OBVIOUS
  <2>3. Visit(local[t], at[t]) \in LocalMax
    BY <2>1, <2>2, VisitTyped
  <2>4. local' \in [Thread -> LocalMax]
    BY <1>3, <2>3 DEF Point
  <2>5. at' \in [Thread -> 0..NBins] /\ \A u \in Thread : at'[u] \in Start(u)..Stop(u)
    BY <1>3, <2>1, Bounds, BinsExist DEF Point, Bin
  <2> QED BY <1>3, <2>4, <2>5 DEF Point, request, Start, Stop
<1>4. CASE Join
  <2>1. merged' \in 0..NThreads
    BY <1>4, ThreadZero DEF Join
  <2> QED BY <1>4, <2>1 DEF Join, request, Start, Stop
<1>5. CASE Merge
  <2>1. merged \in Thread /\ merged' \in 0..NThreads
    BY <1>5, ConstantsAssumption DEF Merge, Thread
  <2>2. local[merged] \in LocalMax
    BY <2>1
  <2>3. max' \in Nat /\ best' \in Bin \cup {None} /\ searched' \in Nat
    BY <1>5, <2>2 DEF Merge, LocalMax
  <2> QED BY <1>5, <2>1, <2>3 DEF Merge, request, Start, Stop
<1>6. CASE Finalize
  BY <1>6 DEF Finalize, request, Start, Stop
<1>7. CASE UNCHANGED vars
  BY <1>7 DEF vars, request, Start, Stop
<1> QED BY <1>1, <1>2, <1>3, <1>4, <1>5, <1>6, <1>7 DEF Next, Control

-----------------------------------------------------------------------------
(* The inductive invariant *)

LEMMA InvInit ==
  ASSUME Init
  PROVE  IInv
<1>1. DelayTypeOK
  BY TypeInit
<1>2. window = {} /\ pc = "idle" /\ best = None /\ before = None /\ max = 0
      /\ searched = 0 /\ found = FALSE
  BY DEF Init
<1>3. \A lo, hi : Within(lo, hi) = {}
  BY <1>2 DEF Within
<1>4. GlobalMaximum
  BY <1>2, <1>3, FS_EmptySet DEF GlobalMaximum, Peak, Request!IsPeak
<1> QED BY <1>1, <1>2, <1>4 DEF IInv, Phases, LocalMaxima, Answered

(* A search begins: nothing has been visited. *)
LEMMA ExecuteStep ==
  ASSUME IInv, Execute, DelayTypeOK'
  PROVE  IInv'
<1>1. cut' \in Deals /\ window' \subseteq Bin /\ parallel' = parallel
  BY ConstantsAssumption DEF Execute, DelayTypeOK
<1>2. \A n \in Nat : Within(n, n)' = {}
  <2> TAKE n \in Nat
  <2>1. \A b \in window' : ~(n <= b /\ b < n)
    BY <1>1, BinsExist DEF Bin
  <2> QED BY <2>1 DEF Within
<1>3. \A t \in Thread : at'[t] = Start(t)' /\ Start(t)' \in Nat
  <2>1. \A t \in Thread : Start(t)' \in 0..NBins
    BY <1>1, Runs DEF Start
  <2> QED BY <2>1, BinsExist DEF Execute, Start
<1>4. Phases'
  <2>1. ~parallel => cut'[1] = NSBD
    BY DEF Execute
  <2>2. ~parallel => Stop(0)' = NBins
    BY <2>1 DEF Stop, NBins
  <2> QED BY <1>1, <2>2 DEF Phases, Execute
<1>5. LocalMaxima'
  <2> SUFFICES ASSUME NEW t \in Thread
               PROVE  /\ Peak(Within(Start(t), at[t]), local[t].bin, local[t].val, None)'
                      /\ (local[t].points = Cardinality(Within(Start(t), at[t])))'
    BY DEF LocalMaxima
  <2>1. Within(Start(t), at[t])' = {}
    BY <1>2, <1>3 DEF Within
  <2>2. local'[t] = Fresh
    BY DEF Execute
  <2> QED BY <2>1, <2>2, FS_EmptySet DEF Fresh, Peak, Request!IsPeak
<1>6. GlobalMaximum'
  <2>1. Done' = 0
    <3>1. ~parallel => at'[0] = 0
      BY <1>1, Runs, ThreadZero DEF Execute
    <3> QED BY <1>1, <3>1 DEF Done, Execute
  <2>2. Within(0, Done)' = {}
    BY <1>2, <2>1 DEF Within
  <2> QED BY <2>2, FS_EmptySet DEF GlobalMaximum, Peak, Request!IsPeak, Execute
<1> QED BY <1>4, <1>5, <1>6 DEF IInv, Answered, Execute

(* One point of the serial loop. *)
LEMMA SerialStep ==
  ASSUME IInv, SerialPoint, DelayTypeOK'
  PROVE  IInv'
<1> DEFINE m == [val |-> max, bin |-> best, points |-> searched]
<1>1. DelayTypeOK /\ GlobalMaximum /\ pc = "search" /\ ~parallel
  BY DEF IInv, SerialPoint
<1>2. at[0] \in Bin /\ at[0] \in Nat /\ at'[0] = at[0] + 1
  BY <1>1, Bounds, ThreadZero DEF SerialPoint, DelayTypeOK
<1>3. Done = at[0] /\ Done' = at[0] + 1
  BY <1>1, <1>2 DEF Done, SerialPoint, request
<1>4. /\ m.val \in Nat /\ m.points \in Nat
      /\ Peak(Within(0, at[0]), m.bin, m.val, before)
      /\ m.points = Cardinality(Within(0, at[0]))
  BY <1>1, <1>3 DEF GlobalMaximum, DelayTypeOK
<1>5. /\ Peak(Within(0, at[0] + 1), Visit(m, at[0]).bin, Visit(m, at[0]).val, before)
      /\ Visit(m, at[0]).points = Cardinality(Within(0, at[0] + 1))
  <2> HIDE DEF m
  <2> QED BY <1>1, <1>2, <1>4, DataTyped, AfterVisit
<1>6. GlobalMaximum'
  <2>1. max' = Visit(m, at[0]).val /\ best' = Visit(m, at[0]).bin
        /\ searched' = Visit(m, at[0]).points
    BY DEF SerialPoint
  <2>2. window' = window /\ power' = power /\ before' = before
    BY DEF SerialPoint, request
  <2> QED BY <1>3, <1>5, <2>1, <2>2 DEF GlobalMaximum, Peak, Within, Request!IsPeak
<1>7. Phases' /\ LocalMaxima' /\ Answered'
  BY <1>1 DEF IInv, Phases, LocalMaxima, Answered, SerialPoint, request, Stop
<1> QED BY <1>6, <1>7 DEF IInv

(* One point of a thread: the maxima of the others stay as they are. *)
LEMMA PointStep ==
  ASSUME IInv, NEW t \in Thread, Point(t), DelayTypeOK'
  PROVE  IInv'
<1>1. DelayTypeOK /\ LocalMaxima /\ pc = "search" /\ parallel
  BY DEF IInv, Point
<1>2. /\ window' = window /\ power' = power /\ cut' = cut /\ before' = before
      /\ parallel' = parallel /\ pc' = pc
  BY DEF Point, request
<1>3. at[t] \in Bin /\ at[t] \in Nat /\ Start(t) \in Nat /\ Start(t) <= at[t]
  BY <1>1, Bounds, BinsExist DEF Point
<1>4. /\ local[t].val \in Nat /\ local[t].points \in Nat
      /\ Peak(Within(Start(t), at[t]), local[t].bin, local[t].val, None)
      /\ local[t].points = Cardinality(Within(Start(t), at[t]))
  BY <1>1 DEF LocalMaxima, DelayTypeOK, LocalMax
<1>5. /\ Peak(Within(Start(t), at[t] + 1), Visit(local[t], at[t]).bin,
              Visit(local[t], at[t]).val, None)
      /\ Visit(local[t], at[t]).points = Cardinality(Within(Start(t), at[t] + 1))
  BY <1>1, <1>3, <1>4, DataTyped, AfterVisit
<1>6. LocalMaxima'
  <2> SUFFICES ASSUME NEW u \in Thread
               PROVE  /\ Peak(Within(Start(u), at[u]), local[u].bin, local[u].val, None)'
                      /\ (local[u].points = Cardinality(Within(Start(u), at[u])))'
    BY DEF LocalMaxima
  <2>1. CASE u = t
    <3>1. local'[t] = Visit(local[t], at[t]) /\ at'[t] = at[t] + 1
      BY <1>1 DEF Point, DelayTypeOK
    <3> QED BY <1>2, <1>5, <2>1, <3>1 DEF Peak, Within, Start, Request!IsPeak
  <2>2. CASE u # t
    <3>1. local'[u] = local[u] /\ at'[u] = at[u]
      BY <1>1, <2>2 DEF Point, DelayTypeOK
    <3>2. /\ Peak(Within(Start(u), at[u]), local[u].bin, local[u].val, None)
          /\ local[u].points = Cardinality(Within(Start(u), at[u]))
      BY <1>1 DEF LocalMaxima
    <3> QED BY <1>2, <3>1, <3>2 DEF Peak, Within, Start, Request!IsPeak
  <2> QED BY <2>1, <2>2
<1>7. GlobalMaximum'
  <2>1. Done' = Done
    BY <1>1, <1>2 DEF Done
  <2> QED BY <1>2, <2>1 DEF IInv, GlobalMaximum, Peak, Within, Request!IsPeak, Point
<1>8. Phases' /\ Answered'
  BY <1>1, <1>2 DEF IInv, Phases, Answered, Stop
<1> QED BY <1>6, <1>7, <1>8 DEF IInv

(* The barrier: the serial search has taken in every bin, the other none. *)
LEMMA JoinStep ==
  ASSUME IInv, Join, DelayTypeOK'
  PROVE  IInv'
<1>1. DelayTypeOK /\ Phases /\ GlobalMaximum /\ pc = "search" /\ cut \in Deals
  BY DEF IInv, Join, DelayTypeOK
<1>2. /\ window' = window /\ power' = power /\ cut' = cut /\ before' = before
      /\ parallel' = parallel /\ at' = at /\ local' = local /\ max' = max
      /\ best' = best /\ searched' = searched /\ pc' = "merge"
  BY DEF Join, request
<1>3. Done' = Done
  <2>1. CASE parallel
    <3>1. Done = 0
      BY <1>1, <2>1 DEF Done
    <3>2. Done' = cut[0] * PerSlice
      BY <1>2, <2>1 DEF Done, Join
    <3> QED BY <3>1, <3>2, <1>1, Runs
  <2>2. CASE ~parallel
    <3>1. Done = at[0] /\ at[0] = Stop(0) /\ Stop(0) = NBins
      BY <1>1, <2>2, ThreadZero DEF Done, Join, Phases
    <3>2. Done' = cut[NThreads] * PerSlice
      BY <1>2, <2>2 DEF Done, Join
    <3> QED BY <3>1, <3>2, <1>1, Runs
  <2> QED BY <2>1, <2>2
<1>4. GlobalMaximum'
  BY <1>1, <1>2, <1>3 DEF GlobalMaximum, Peak, Within, Request!IsPeak
<1>5. LocalMaxima'
  BY <1>1, <1>2 DEF IInv, LocalMaxima, Peak, Within, Start, Request!IsPeak
<1>6. Phases'
  BY <1>1, <1>2 DEF Phases, Stop, Join
<1> QED BY <1>2, <1>4, <1>5, <1>6 DEF IInv, Answered

(* The maximum of the next thread is merged. *)
LEMMA MergeStep ==
  ASSUME IInv, Merge, DelayTypeOK'
  PROVE  IInv'
<1> DEFINE m   == local[merged]
           mid == cut[merged] * PerSlice
           hi  == cut[merged + 1] * PerSlice
<1>1. /\ DelayTypeOK /\ Phases /\ LocalMaxima /\ GlobalMaximum
      /\ pc = "merge" /\ cut \in Deals
  BY DEF IInv, Merge, DelayTypeOK
<1>2. /\ window' = window /\ power' = power /\ cut' = cut /\ before' = before
      /\ parallel' = parallel /\ at' = at /\ local' = local /\ pc' = pc
      /\ merged' = merged + 1
  BY DEF Merge, request
<1>3. merged \in Thread /\ merged \in Nat /\ parallel
  <2>1. merged \in 0..NThreads /\ merged < NThreads /\ parallel \in BOOLEAN
    BY <1>1 DEF DelayTypeOK, Merge
  <2>2. ~parallel => merged = NThreads
    BY <1>1 DEF Phases
  <2> QED BY <2>1, <2>2, ConstantsAssumption DEF Thread
<1>4. at[merged] = hi /\ Start(merged) = mid
  BY <1>1, <1>3 DEF Phases, Stop, Start
<1>5. mid \in Nat /\ hi \in Nat /\ mid <= hi
  <2>1. mid \in 0..NBins /\ hi \in 0..NBins /\ mid <= hi
    BY <1>1, <1>3, Runs
  <2> QED BY <2>1, BinsExist
<1>6. /\ m.val \in Nat /\ m.points \in Nat
      /\ Peak(Within(mid, hi), m.bin, m.val, None)
      /\ m.points = Cardinality(Within(mid, hi))
  <2>1. /\ Peak(Within(Start(merged), at[merged]), m.bin, m.val, None)
        /\ m.points = Cardinality(Within(Start(merged), at[merged]))
    BY <1>1, <1>3 DEF LocalMaxima
  <2>2. m \in LocalMax
    BY <1>1, <1>3 DEF DelayTypeOK
  <2> QED BY <1>4, <2>1, <2>2 DEF LocalMax
<1>7. Done = mid /\ Done' = hi
  BY <1>1, <1>2 DEF Done
<1>8. /\ max \in Nat /\ searched \in Nat
      /\ Peak(Within(0, mid), best, max, before)
      /\ searched = Cardinality(Within(0, mid))
  BY <1>1, <1>7 DEF GlobalMaximum, DelayTypeOK
<1>9. /\ Peak(Within(0, hi),
              IF Exceeds(m.val, max) THEN m.bin ELSE best,
              IF Exceeds(m.val, max) THEN m.val ELSE max, before)
      /\ searched + m.points = Cardinality(Within(0, hi))
  <2> HIDE DEF m, mid, hi
  <2> QED BY <1>1, <1>5, <1>6, <1>8, DataTyped, AfterMerge
<1>10. GlobalMaximum'
  <2>1. /\ max' = IF Exceeds(m.val, max) THEN m.val ELSE max
        /\ best' = IF Exceeds(m.val, max) THEN m.bin ELSE best
        /\ searched' = searched + m.points
    BY DEF Merge
  <2>2. Peak(Within(0, hi), best', max', before)
    BY <1>9, <2>1
  <2>3. searched' = Cardinality(Within(0, hi))
    BY <1>9, <2>1
  <2> HIDE DEF m, mid, hi
  <2> QED BY <1>2, <1>7, <2>2, <2>3 DEF GlobalMaximum, Peak, Within, Request!IsPeak
<1>11. LocalMaxima'
  BY <1>1, <1>2 DEF LocalMaxima, Peak, Within, Start, Request!IsPeak
<1>12. Phases' /\ Answered'
  BY <1>1, <1>2, <1>3 DEF Phases, Answered, Stop
<1> QED BY <1>10, <1>11, <1>12 DEF IInv

(* The search returns: all bins have been taken in. *)
LEMMA FinalizeStep ==
  ASSUME IInv, Finalize, DelayTypeOK'
  PROVE  IInv'
<1>1. DelayTypeOK /\ GlobalMaximum /\ pc = "merge" /\ merged = NThreads /\ cut \in Deals
  BY DEF IInv, Finalize, DelayTypeOK
<1>2. /\ window' = window /\ power' = power /\ before' = before /\ max' = max
      /\ best' = best /\ searched' = searched /\ pc' = "idle"
      /\ found' = (best # None)
  BY DEF Finalize, request
<1>3. Done' = Done
  BY <1>1, <1>2, Runs DEF Done
<1>4. GlobalMaximum'
  BY <1>1, <1>2, <1>3 DEF GlobalMaximum, Peak, Within, Request!IsPeak
<1> QED BY <1>2, <1>4 DEF IInv, Phases, LocalMaxima, Answered

LEMMA InvStep ==
  ASSUME IInv, [Next]_vars
  PROVE  IInv'
<1>1. DelayTypeOK'
  BY TypeStep DEF IInv
<1>2. CASE UNCHANGED vars
  BY <1>2 DEF vars, request, IInv, DelayTypeOK, Phases, LocalMaxima, GlobalMaximum,
     Answered, Done, Peak, Within, Start, Stop, Request!IsPeak
<1> QED BY <1>1, <1>2, ExecuteStep, SerialStep, PointStep, JoinStep, MergeStep,
        FinalizeStep DEF Next, Control

-----------------------------------------------------------------------------
(* Theorems *)

(* The inductive invariant: what every thread, and the search, has as its     *)
(* maximum and count is right for the bins visited so far (ExecuteImpl).      *)
THEOREM Invariance == Spec => []IInv
BY InvInit, InvStep, PTL DEF Spec

(* ExecuteImpl keeps its state well typed, every thread in its own slices,    *)
(* for any number of threads, slices and points.                              *)
THEOREM Typed == Spec => []DelayTypeOK
<1>1. IInv => DelayTypeOK
  BY DEF IInv
<1> QED BY <1>1, Invariance, PTL

LEMMA AnswerRight ==
  ASSUME IInv, pc = "idle"
  PROVE  /\ Peak(window, best, max, before)
         /\ searched = Cardinality(window)
         /\ found = (best # None)
<1>1. Within(0, Done) = window
  BY DataTyped, WithinAll DEF IInv, Done
<1> QED BY <1>1 DEF IInv, GlobalMaximum, Answered

(* finalize_search hands over the first of the largest powers within the      *)
(* windows, or the old bins if there is no positive power: for any number of  *)
(* threads, any deal of the slices and any order of the threads.              *)
THEOREM PeakFound == Spec => []FirstMaximum
<1>1. IInv => FirstMaximum
  BY AnswerRight DEF FirstMaximum, Peak, Request!NoPower
<1> QED BY <1>1, Invariance, PTL

-----------------------------------------------------------------------------
(* The abstract search *)

LEMMA RequestInit ==
  ASSUME Init
  PROVE  Request!Init
BY DEF Init, Request!Init, Idle

LEMMA RequestStep ==
  ASSUME IInv, IInv', [Next]_vars
  PROVE  [Request!Begin \/ Request!End]_(Request!vars)
<1> USE DEF Idle
<1>1. CASE Execute
  BY <1>1 DEF Execute, Request!Begin
<1>2. CASE Finalize
  <2>1. /\ Peak(window, best, max, before)' /\ searched' = Cardinality(window')
        /\ found' = (best' # None) /\ pc = "merge" /\ pc' = "idle"
    <3>1. pc' = "idle" /\ pc = "merge"
      BY <1>2 DEF Finalize
    <3>2. /\ Done' = NBins
          /\ DelayTypeOK' /\ GlobalMaximum' /\ Answered'
      BY <3>1 DEF IInv, Done
    <3>3. window' \subseteq Bin
      BY <3>2, ConstantsAssumption DEF DelayTypeOK
    <3>4. \A b \in window' : 0 <= b /\ b < NBins
      BY <3>3, BinsExist DEF Bin
    <3>5. Within(0, Done)' = window'
      BY <3>2, <3>4 DEF Within
    <3> QED BY <3>1, <3>2, <3>5 DEF GlobalMaximum, Answered
  <2>2. window' = window /\ power' = power /\ before' = before
    BY <1>2 DEF Finalize, request
  <2>3. \/ Request!IsPeak(power, window, best', max')
        \/ (\A c \in window : power[c] = 0) /\ best' = before /\ max' = 0
    BY <2>1, <2>2 DEF Peak, Request!IsPeak
  <2>4. Request!Cardinality(window) = Cardinality(window)
    BY Zenon DEF Request!Cardinality, Cardinality
  <2>5. Idle(best, before)' = best' /\ Idle(max, 0)' = max'
        /\ Idle(searched, 0)' = searched' /\ Idle(found, FALSE)' = found'
        /\ Idle(best, before) = before
    BY <2>1
  <2>6. CASE Request!IsPeak(power, window, best', max')
    <3>1. /\ best' \in window /\ max' \in {power[b] : b \in window} /\ found' = TRUE
      <4>1. best' \in window /\ max' = power[best']
        BY <2>6 DEF Request!IsPeak
      <4>2. window \subseteq Bin /\ None \notin Bin
        BY ConstantsAssumption, BinsExist DEF Bin, IInv, DelayTypeOK
      <4> QED BY <2>1, <4>1, <4>2
    <3>2. Request!EndFound
      BY <2>5, <2>6, <3>1 DEF Request!EndFound
    <3> QED BY <2>1, <2>2, <2>4, <2>5, <3>2 DEF Request!End
  <2>7. CASE (\A c \in window : power[c] = 0) /\ best' = before /\ max' = 0
    <3>1. Request!EndNotFound
      BY <2>1, <2>5, <2>7 DEF Request!EndNotFound, Request!NoPower
    <3> QED BY <2>1, <2>2, <2>4, <2>5, <3>1 DEF Request!End
  <2> QED BY <2>3, <2>6, <2>7
<1>3. ASSUME SerialPoint \/ Join \/ Merge \/ (\E t \in Thread : Point(t)) \/ UNCHANGED vars
      PROVE  UNCHANGED Request!vars
  BY <1>3 DEF SerialPoint, Join, Merge, Point, vars, request, Request!vars
<1> QED BY <1>1, <1>2, <1>3 DEF Next, Control

(* MHO_MBDelaySearch and MHO_MBDelaySearchOpenMP serve a request as PeakSearch *)
(* says: the same answer, found if there is a peak, every point of the windows *)
(* counted once.                                                              *)
THEOREM Implements == Spec => IsPeakSearch
<1>1. Init => Request!Init
  BY RequestInit
<1>2. IInv /\ IInv' /\ [Next]_vars => [Request!Begin \/ Request!End]_(Request!vars)
  BY RequestStep
<1> QED BY <1>1, <1>2, Invariance, PTL DEF Spec, IsPeakSearch, Request!Spec
=============================================================================
