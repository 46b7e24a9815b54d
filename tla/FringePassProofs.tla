--------------------------- MODULE FringePassProofs ---------------------------
(***************************************************************************)
(* Proofs about FringePass, for any number of processes, passes and        *)
(* refits, and for any experiment and command line.  That each selection   *)
(* is given out once rests on what the loops of determine_passes put into  *)
(* the list of passes; they are folds over sequences, about which          *)
(* FlattenOnce says what is needed, by induction on their length.          *)
(***************************************************************************)
EXTENDS FringePass, FiniteSetTheorems, SequenceTheorems, WellFoundedInduction, TLAPS

-----------------------------------------------------------------------------
(* The inductive invariant *)

\* the pass has not been given to its fitter
Early == {"discover", "broadcast", "next", "init", "configure", "fitter"}

(* What the fields of a pass tell about each other.  A fit that is neither    *)
(* skipped nor finished has not been run since the last refit, and what is    *)
(* calibrated without a cache is calibrated in the first fit only.            *)
PassState(r) ==
  /\ at[r] \in Early => /\ calibrated[r] = 0 /\ again[r] = 0
                        /\ ~skipped[r] /\ ~finished[r]
  /\ at[r] \in {"initialize", "prerun", "run"} => ~finished[r]
  /\ at[r] = "postrun" => skipped[r] \/ finished[r]
  /\ at[r] \in {"finalize", "output"} => finished[r]
  /\ at[r] = "output" => ~skipped[r]
  /\ finished[r] /\ ~skipped[r] => solved[r]
  /\ at[r] \in {"test", "initialize"} /\ ~skipped[r] /\ ~finished[r] /\ again[r] = 0
       => calibrated[r] = 0
  /\ at[r] \in {"prerun", "run"} /\ ~skipped[r] /\ (caching[r] \/ again[r] = 0)
       => calibrated[r] = 1

PassStates == \A r \in Rank : PassState(r)

\* the indexes that process r goes through
Dealt(r) == {r + k * Processes : k \in Nat}

\* steps at which a process has no pass
Passless == {"discover", "broadcast", "next", "barrier", "done", "exited"}

(* The passes are known, and the same, as long as some process goes on.       *)
Known ==
  /\ \A r \in Rank : at[r] \notin {"discover", "broadcast", "exited"} => sent
  /\ sent => at[0] # "discover"
  /\ sent => passes = Determined[input]

(* Who has taken which pass.                                                  *)
Dealing ==
  /\ Known
  /\ \A r \in Rank : pass[r] \in Dealt(r)
  /\ \A i \in Pass : takenBy[i] # {} => sent /\ i < Len(passes)
  /\ \A i \in Pass : \A r \in takenBy[i] : i \in Dealt(r)
  /\ \A i \in Pass, r \in Rank : i \in Dealt(r) /\ i < pass[r] => r \in takenBy[i]
  /\ \A r \in Rank : at[r] \notin Passless
                       => pass[r] \in Pass /\ r \in takenBy[pass[r]]
  /\ \A r \in Rank : at[r] \in {"barrier", "done"} => pass[r] >= Len(passes)

IInv == TypeOK /\ PassStates /\ Dealing

-----------------------------------------------------------------------------
(* Types *)

LEMMA Typing == ASSUME TypeOK, [Next]_vars PROVE TypeOK'
<1>a. Processes \in Nat \ {0} /\ MaxPasses \in Nat /\ MaxAgain \in Nat
  BY FringePassAssumption
<1> USE <1>a DEF Goto, Status, Step, Loop, Rank, TypeOK, status, fitter, discovery
<1>0. ASSUME NEW r \in Rank, Continue(r), UNCHANGED <<discovery, plugins, takenBy>>
      PROVE  TypeOK'
  <2>1. pass' \in [Rank -> Nat]
    BY <1>0 DEF Continue
  <2>2. kind' \in [Rank -> Kind] /\ at' \in [Rank -> Step]
    BY <1>0 DEF Continue, DestroyPass, Kind
  <2>3. /\ skipped' \in [Rank -> BOOLEAN] /\ finished' \in [Rank -> BOOLEAN]
        /\ python' \in [Rank -> BOOLEAN] /\ postfit' \in [Rank -> BOOLEAN]
        /\ caching' \in [Rank -> BOOLEAN] /\ solved' \in [Rank -> BOOLEAN]
    BY <1>0 DEF Continue, DestroyPass
  <2>4. calibrated' \in [Rank -> 0..2] /\ again' \in [Rank -> 0..MaxAgain]
    BY <1>0 DEF Continue, DestroyPass
  <2> QED
    BY <1>0, <2>1, <2>2, <2>3, <2>4
<1>1. ASSUME NEW r \in Rank, TakePass(r) PROVE TypeOK'
  BY <1>1 DEF TakePass
<1>2. ASSUME NEW r \in Rank, NoMorePasses(r) PROVE TypeOK'
  BY <1>2 DEF NoMorePasses
<1>3. ASSUME NEW r \in Rank, InitializeFails(r) PROVE TypeOK'
  BY <1>0, <1>3 DEF InitializeFails
<1>4. ASSUME NEW r \in Rank, Initialize(r) PROVE TypeOK'
  BY <1>4 DEF Initialize
<1>5. ASSUME NEW r \in Rank, ConfigureSkips(r) PROVE TypeOK'
  BY <1>0, <1>5 DEF ConfigureSkips
<1>6. ASSUME NEW r \in Rank, Configure(r) PROVE TypeOK'
  <2>1. kind' \in [Rank -> Kind]
    BY <1>6 DEF Configure
  <2>2. python' \in [Rank -> BOOLEAN]
    BY <1>6 DEF Configure
  <2>3. plugins' \in [Rank -> {"unbuilt", "none", "python"}]
    <3>1. CASE plugins[r] # "unbuilt"
      BY <1>6, <3>1 DEF Configure
    <3>2. CASE plugins[r] = "unbuilt"
      <4>1. PICK b \in {"none", "python"} : plugins' = [plugins EXCEPT ![r] = b]
        BY <1>6, <3>2 DEF Configure
      <4> QED
        BY <4>1
    <3> QED
      BY <3>1, <3>2
  <2> QED
    BY <1>6, <2>1, <2>2, <2>3 DEF Configure
<1>7. ASSUME NEW r \in Rank, NoData(r) PROVE TypeOK'
  BY <1>7 DEF NoData
<1>8. ASSUME NEW r \in Rank, EmptyData(r) PROVE TypeOK'
  BY <1>8 DEF EmptyData
<1>9. ASSUME NEW r \in Rank, FitterConfigure(r) PROVE TypeOK'
  BY <1>9 DEF FitterConfigure
<1>10. ASSUME NEW r \in Rank, IsFinished(r) PROVE TypeOK'
  BY <1>10 DEF IsFinished
<1>11. ASSUME NEW r \in Rank, FitterInitialize(r) PROVE TypeOK'
  <2>1. calibrated' \in [Rank -> 0..2]
    BY <1>11 DEF FitterInitialize
  <2> QED
    BY <1>11, <2>1 DEF FitterInitialize
<1>12. ASSUME NEW r \in Rank, PreRun(r) PROVE TypeOK'
  BY <1>12 DEF PreRun
<1>13. ASSUME NEW r \in Rank, PreRunSkips(r) PROVE TypeOK'
  BY <1>13 DEF PreRunSkips
<1>14. ASSUME NEW r \in Rank, RunsNothing(r) PROVE TypeOK'
  BY <1>14 DEF RunsNothing
<1>15. ASSUME NEW r \in Rank, RunSolves(r) PROVE TypeOK'
  BY <1>15 DEF RunSolves
<1>16. ASSUME NEW r \in Rank, NoPeak(r) PROVE TypeOK'
  BY <1>16 DEF NoPeak
<1>17. ASSUME NEW r \in Rank, IonSearchFails(r) PROVE TypeOK'
  BY <1>17 DEF IonSearchFails
<1>18. ASSUME NEW r \in Rank, InterpolationFails(r) PROVE TypeOK'
  BY <1>18 DEF InterpolationFails
<1>19. ASSUME NEW r \in Rank, PostRun(r) PROVE TypeOK'
  BY <1>19 DEF PostRun
<1>20. ASSUME NEW r \in Rank, PostRunAgain(r) PROVE TypeOK'
  <2>1. again' \in [Rank -> 0..MaxAgain]
    BY <1>20 DEF PostRunAgain
  <2> QED
    BY <1>20, <2>1 DEF PostRunAgain
<1>21. ASSUME NEW r \in Rank, Finalize(r) PROVE TypeOK'
  <2>1. CASE skipped[r]
    BY <1>0, <1>21, <2>1 DEF Finalize
  <2>2. CASE ~skipped[r]
    BY <1>21, <2>2 DEF Finalize
  <2> QED
    BY <2>1, <2>2
<1>22. ASSUME NEW r \in Rank, Output(r) PROVE TypeOK'
  BY <1>0, <1>22 DEF Output
<1>23. ASSUME NEW r \in Rank, Exit(r) PROVE TypeOK'
  BY <1>23 DEF Exit
<1>24. CASE GlobalBarrier
  BY <1>24 DEF GlobalBarrier
<1>25. CASE UNCHANGED vars
  BY <1>25 DEF vars
<1>26. CASE Discover
  <2>1. Len(passes') \in 0..MaxPasses
    BY <1>26, FringePassAssumption DEF Discover
  <2> QED
    BY <1>26, <2>1 DEF Discover
<1>27. CASE DiscoveryExits
  BY <1>27 DEF DiscoveryExits
<1>28. ASSUME NEW r \in Rank, BroadcastString(r) PROVE TypeOK'
  BY <1>28 DEF BroadcastString
<1> QED
  BY <1>1, <1>2, <1>3, <1>4, <1>5, <1>6, <1>7, <1>8, <1>9, <1>10, <1>11, <1>12, <1>13,
     <1>14, <1>15, <1>16, <1>17, <1>18, <1>19, <1>20, <1>21, <1>22, <1>23, <1>24, <1>25,
     <1>26, <1>27, <1>28
     DEF Next, Drive, Ended

-----------------------------------------------------------------------------
(* The fields of a pass *)

LEMMA PassStateStep == ASSUME TypeOK, PassStates, [Next]_vars PROVE PassStates'
<1> SUFFICES ASSUME NEW q \in Rank
             PROVE  PassState(q)'
  BY DEF PassStates
<1>0. PassState(q)
  BY DEF PassStates
<1> USE <1>0 DEF Goto, Status, status, fitter, TypeOK, PassState, Early
<1>1. ASSUME NEW r \in Rank, Continue(r), UNCHANGED <<discovery, plugins, takenBy>>
      PROVE  PassState(q)'
  BY <1>1 DEF Continue, DestroyPass
<1>2. ASSUME NEW r \in Rank,
             InitializeFails(r) \/ ConfigureSkips(r) \/ Finalize(r) \/ Output(r)
      PROVE  PassState(q)'
  <2>1. CASE Continue(r)
    BY <1>1, <1>2, <2>1 DEF InitializeFails, ConfigureSkips, Finalize, Output
  <2>2. CASE Finalize(r) /\ ~skipped[r]
    BY <2>2 DEF Finalize
  <2> QED
    BY <1>2, <2>1, <2>2 DEF InitializeFails, ConfigureSkips, Finalize, Output
<1>3. ASSUME NEW r \in Rank, TakePass(r) PROVE PassState(q)'
  BY <1>3 DEF TakePass
<1>4. ASSUME NEW r \in Rank, NoMorePasses(r) PROVE PassState(q)'
  BY <1>4 DEF NoMorePasses
<1>5. ASSUME NEW r \in Rank, Initialize(r) PROVE PassState(q)'
  BY <1>5 DEF Initialize
<1>6. ASSUME NEW r \in Rank, Configure(r) PROVE PassState(q)'
  BY <1>6 DEF Configure
<1>7. ASSUME NEW r \in Rank, NoData(r) PROVE PassState(q)'
  BY <1>7 DEF NoData
<1>8. ASSUME NEW r \in Rank, EmptyData(r) PROVE PassState(q)'
  BY <1>8 DEF EmptyData
<1>9. ASSUME NEW r \in Rank, FitterConfigure(r) PROVE PassState(q)'
  BY <1>9 DEF FitterConfigure
<1>10. ASSUME NEW r \in Rank, IsFinished(r) PROVE PassState(q)'
  BY <1>10 DEF IsFinished
<1>11. ASSUME NEW r \in Rank, FitterInitialize(r) PROVE PassState(q)'
  BY <1>11 DEF FitterInitialize
<1>12. ASSUME NEW r \in Rank, PreRun(r) PROVE PassState(q)'
  BY <1>12 DEF PreRun
<1>13. ASSUME NEW r \in Rank, PreRunSkips(r) PROVE PassState(q)'
  BY <1>13 DEF PreRunSkips
<1>14. ASSUME NEW r \in Rank, RunsNothing(r) PROVE PassState(q)'
  BY <1>14 DEF RunsNothing
<1>15. ASSUME NEW r \in Rank, RunSolves(r) PROVE PassState(q)'
  BY <1>15 DEF RunSolves
<1>16. ASSUME NEW r \in Rank, NoPeak(r) PROVE PassState(q)'
  BY <1>16 DEF NoPeak
<1>17. ASSUME NEW r \in Rank, IonSearchFails(r) PROVE PassState(q)'
  BY <1>17 DEF IonSearchFails
<1>18. ASSUME NEW r \in Rank, InterpolationFails(r) PROVE PassState(q)'
  BY <1>18 DEF InterpolationFails
<1>19. ASSUME NEW r \in Rank, PostRun(r) PROVE PassState(q)'
  BY <1>19 DEF PostRun
<1>20. ASSUME NEW r \in Rank, PostRunAgain(r) PROVE PassState(q)'
  BY <1>20 DEF PostRunAgain
<1>21. ASSUME NEW r \in Rank, Exit(r) PROVE PassState(q)'
  BY <1>21 DEF Exit
<1>22. CASE GlobalBarrier
  BY <1>22 DEF GlobalBarrier
<1>23. CASE UNCHANGED vars
  BY <1>23 DEF vars
<1>24. CASE Discover \/ DiscoveryExits
  BY <1>24 DEF Discover, DiscoveryExits
<1>25. ASSUME NEW r \in Rank, BroadcastString(r) PROVE PassState(q)'
  BY <1>25 DEF BroadcastString
<1> QED
  BY <1>2, <1>3, <1>4, <1>5, <1>6, <1>7, <1>8, <1>9, <1>10, <1>11, <1>12, <1>13, <1>14,
     <1>15, <1>16, <1>17, <1>18, <1>19, <1>20, <1>21, <1>22, <1>23,
     <1>24, <1>25
     DEF Next, Drive, Ended

-----------------------------------------------------------------------------
(* How the passes are dealt out: pass_index starts at the id of the process   *)
(* and grows by the number of processes.                                      *)

(* No index is on the way of two processes.                                   *)
LEMMA DealtOnce ==
  ASSUME NEW r \in Rank, NEW q \in Rank, NEW i, i \in Dealt(r), i \in Dealt(q)
  PROVE  r = q
<1> USE FringePassAssumption DEF Rank
<1>1. PICK k \in Nat : i = r + k * Processes
  BY DEF Dealt
<1>2. PICK m \in Nat : i = q + m * Processes
  BY DEF Dealt
<1>3. ASSUME NEW a \in Rank, NEW b \in Rank, NEW x \in Nat, NEW y \in Nat,
             a + x * Processes = b + y * Processes, x < y
      PROVE  FALSE
  <2>1. a = b + (y - x) * Processes
    BY <1>3
  <2>2. (y - x) * Processes >= Processes
    BY <1>3
  <2> QED
    BY <2>1, <2>2
<1>4. k = m
  BY <1>1, <1>2, <1>3
<1> QED
  BY <1>1, <1>2, <1>4

(* Every index is on the way of some process.                                 *)
LEMMA DealtToSome == \A i \in Nat : \E r \in Rank : i \in Dealt(r)
<1> SUFFICES ASSUME NEW i \in Nat
             PROVE  \E r \in Rank : i \in Dealt(r)
  OBVIOUS
<1>1. i = (i % Processes) + (i \div Processes) * Processes
  BY FringePassAssumption
<1>2. i % Processes \in Rank /\ i \div Processes \in Nat
  BY FringePassAssumption DEF Rank
<1> QED
  BY <1>1, <1>2 DEF Dealt

(* A process skips no index of its own.                                       *)
LEMMA DealtNext ==
  ASSUME NEW r \in Rank, NEW i \in Dealt(r), NEW p \in Dealt(r), i < p + Processes
  PROVE  i <= p /\ p + Processes \in Dealt(r)
<1> USE FringePassAssumption DEF Rank
<1>1. PICK k \in Nat : i = r + k * Processes
  BY DEF Dealt
<1>2. PICK m \in Nat : p = r + m * Processes
  BY DEF Dealt
<1>3. k < m + 1
  BY <1>1, <1>2
<1>4. p + Processes = r + (m + 1) * Processes
  BY <1>2
<1>5. k * Processes <= m * Processes
  BY <1>3
<1> QED
  BY <1>1, <1>2, <1>4, <1>5 DEF Dealt

\* the actions that leave the dealing alone
Fitting(r) ==
  /\ at[r] \notin Passless
  /\ at' \in [Rank -> Step]
  /\ at'[r] \notin Passless \ {"exited"}
  /\ \A q \in Rank \ {r} : at'[q] = at[q]
  /\ UNCHANGED <<discovery, pass, takenBy>>

LEMMA FittingStep ==
  ASSUME TypeOK, NEW r \in Rank, Drive(r) \/ Exit(r)
  PROVE  \/ Fitting(r) \/ TakePass(r) \/ NoMorePasses(r)
         \/ Continue(r) /\ UNCHANGED <<discovery, takenBy>>
               /\ at[r] \notin Passless
         \/ r = 0 /\ Discover
         \/ BroadcastString(r)
<1> USE DEF TypeOK, Fitting, Goto, Step, Loop, Passless
<1>1. CASE Exit(r)
  BY <1>1 DEF Exit
<1>2. CASE \/ InitializeFails(r) \/ ConfigureSkips(r) \/ Output(r)
           \/ Finalize(r) /\ skipped[r]
  BY <1>2 DEF InitializeFails, ConfigureSkips, Output, Finalize
<1>3. CASE Finalize(r) /\ ~skipped[r]
  BY <1>3 DEF Finalize
<1>4. CASE \/ Initialize(r) \/ Configure(r)
           \/ NoData(r) \/ EmptyData(r) \/ FitterConfigure(r)
  BY <1>4 DEF Initialize, Configure, NoData, EmptyData, FitterConfigure
<1>5. CASE \/ IsFinished(r) \/ FitterInitialize(r) \/ PreRun(r) \/ PreRunSkips(r)
  BY <1>5 DEF IsFinished, FitterInitialize, PreRun, PreRunSkips
<1>6. CASE \/ RunsNothing(r) \/ RunSolves(r)
           \/ NoPeak(r) \/ IonSearchFails(r) \/ InterpolationFails(r)
  BY <1>6 DEF RunsNothing, RunSolves, NoPeak, IonSearchFails, InterpolationFails
<1>7. CASE PostRun(r) \/ PostRunAgain(r)
  BY <1>7 DEF PostRun, PostRunAgain
<1> QED
  BY <1>1, <1>2, <1>3, <1>4, <1>5, <1>6, <1>7 DEF Drive

LEMMA DealingStep == ASSUME TypeOK, Dealing, [Next]_vars PROVE Dealing'
<1> USE FringePassAssumption DEF TypeOK, Dealing, Known, Passless, discovery
<1>0. 0 \in Rank
  BY DEF Rank
<1>1. ASSUME NEW r \in Rank, Fitting(r)
      PROVE  Dealing'
  <2>1. UNCHANGED <<passes, sent, pass, takenBy>>
    BY <1>1 DEF Fitting
  <2>2. Known'
    BY <1>0, <1>1, <2>1 DEF Fitting
  <2>3. \A q \in Rank : at'[q] \notin Passless => pass'[q] \in Pass /\ q \in takenBy'[pass'[q]]
    BY <1>1, <2>1 DEF Fitting
  <2>4. \A q \in Rank : at'[q] \in {"barrier", "done"} => pass'[q] >= Len(passes')
    BY <1>1, <2>1 DEF Fitting
  <2> QED
    BY <2>1, <2>2, <2>3, <2>4
<1>2. ASSUME NEW r \in Rank, TakePass(r)
      PROVE  Dealing'
  <2>1. pass[r] \in Pass
    BY <1>2 DEF TakePass, Pass
  <2> QED
    BY <1>2, <2>1 DEF TakePass, Goto
<1>3. ASSUME NEW r \in Rank, NoMorePasses(r)
      PROVE  Dealing'
  BY <1>3 DEF NoMorePasses, Goto
<1>4. ASSUME NEW r \in Rank, Continue(r), UNCHANGED <<discovery, takenBy>>,
             at[r] \notin Passless
      PROVE  Dealing'
  <2>1. /\ pass' = [pass EXCEPT ![r] = @ + Processes]
        /\ at' = [at EXCEPT ![r] = "next"]
    BY <1>4 DEF Continue, Goto
  <2>2. pass'[r] \in Dealt(r)
    BY <2>1, DealtNext
  <2>3. \A i \in Pass : i \in Dealt(r) /\ i < pass'[r] => r \in takenBy[i]
    <3> SUFFICES ASSUME NEW i \in Pass, i \in Dealt(r), i < pass[r] + Processes
                 PROVE  r \in takenBy[i]
      BY <2>1
    <3>1. i <= pass[r]
      BY DealtNext
    <3>2. i < pass[r] \/ i = pass[r]
      BY <3>1 DEF Pass
    <3> QED
      BY <1>4, <3>2
  <2> QED
    BY <1>4, <2>1, <2>2, <2>3
<1>5. CASE GlobalBarrier
  BY <1>0, <1>5 DEF GlobalBarrier
<1>6. CASE UNCHANGED vars
  BY <1>6 DEF vars
<1>7. CASE Discover
  BY <1>0, <1>7 DEF Discover, Goto
<1>8. CASE DiscoveryExits
  BY <1>0, <1>8 DEF DiscoveryExits, Goto
<1>9. ASSUME NEW r \in Rank, BroadcastString(r)
      PROVE  Dealing'
  BY <1>0, <1>9 DEF BroadcastString, Goto
<1> QED
  BY <1>1, <1>2, <1>3, <1>4, <1>5, <1>6, <1>7, <1>8, <1>9, FittingStep DEF Next, Ended

-----------------------------------------------------------------------------
(* Induction, for a set instead of a predicate *)

\* a set of naturals that has 0, and with a number the next, has all of them
LEMMA SetInduction ==
  ASSUME NEW S, 0 \in S, \A n \in Nat : n \in S => n + 1 \in S
  PROVE  Nat \subseteq S
<1> SUFFICES ASSUME NEW m \in Nat, m \notin S PROVE FALSE
  OBVIOUS
<1> DEFINE T == {0..n : n \in Nat \ S}
           R == StrictSubsetOrdering(Nat)
<1>1. T # {}
  OBVIOUS
<1>2. T \subseteq FiniteSubsetsOf(Nat)
  <2> SUFFICES ASSUME NEW n \in Nat PROVE 0..n \in FiniteSubsetsOf(Nat)
    OBVIOUS
  <2>1. IsFiniteSet(0..n)
    BY FS_Interval
  <2>2. 0..n \subseteq Nat
    OBVIOUS
  <2> QED
    BY <2>1, <2>2 DEF FiniteSubsetsOf
<1>3. IsWellFoundedOn(R, FiniteSubsetsOf(Nat))
  BY FS_StrictSubsetOrderingWellFounded
<1>4. PICK x \in T : \A y \in T : ~(<<y, x>> \in R)
  <2> HIDE DEF T, R
  <2> QED
    BY <1>1, <1>2, <1>3, WFMin, Zenon
<1>5. PICK k \in Nat \ S : x = 0..k
  OBVIOUS
<1>6. k # 0
  OBVIOUS
<1>7. k - 1 \in Nat
  BY <1>6
<1>8. k - 1 \in S
  <2> SUFFICES ASSUME k - 1 \notin S PROVE FALSE
    OBVIOUS
  <2>1. 0..(k - 1) \in T
    BY <1>7
  <2>2. 0..(k - 1) \subseteq 0..k /\ 0..(k - 1) # 0..k /\ 0..k \subseteq Nat
    <3>1. k \in 0..k /\ ~(k \in 0..(k - 1))
      BY <1>7
    <3> QED
      BY <3>1
  <2>3. <<0..(k - 1), 0..k>> \in R
    BY <2>2 DEF StrictSubsetOrdering
  <2> QED
    BY <1>4, <1>5, <2>1, <2>3
<1>9. (k - 1) + 1 \in S
  BY <1>7, <1>8
<1> QED
  BY <1>7, <1>9

-----------------------------------------------------------------------------
(* Once and never in a sequence *)

Once(s, x) == \E i \in 1..Len(s) : s[i] = x /\ \A j \in 1..Len(s) : s[j] = x => j = i
Never(s, x) == \A i \in 1..Len(s) : s[i] # x

\* what is once in one of two sequences, and not in the other, is once in both together
LEMMA ConcatOnce ==
  ASSUME NEW T, NEW s \in Seq(T), NEW t \in Seq(T), NEW x
  PROVE  /\ s \o t \in Seq(T)
         /\ Never(s, x) /\ Never(t, x) => Never(s \o t, x)
         /\ Once(s, x) /\ Never(t, x) => Once(s \o t, x)
         /\ Never(s, x) /\ Once(t, x) => Once(s \o t, x)
<1>1. /\ s \o t \in Seq(T)
      /\ Len(s) \in Nat /\ Len(t) \in Nat
      /\ Len(s \o t) = Len(s) + Len(t)
      /\ \A i \in 1..(Len(s) + Len(t)) :
           (s \o t)[i] = IF i <= Len(s) THEN s[i] ELSE t[i - Len(s)]
  BY ConcatProperties
<1> DEFINE c == s \o t
<1>2. /\ Len(c) = Len(s) + Len(t)
      /\ \A i \in 1..Len(s) : i \in 1..Len(c) /\ c[i] = s[i]
      /\ \A i \in 1..Len(t) : Len(s) + i \in 1..Len(c) /\ c[Len(s) + i] = t[i]
      /\ \A i \in 1..Len(c) : \/ i \in 1..Len(s)
                              \/ \E j \in 1..Len(t) : i = Len(s) + j
  <2>1. \A i \in 1..(Len(s) + Len(t)) :
          i > Len(s) => i - Len(s) \in 1..Len(t) /\ i = Len(s) + (i - Len(s))
    BY <1>1
  <2>2. \A i \in 1..Len(t) : /\ Len(s) + i \in 1..(Len(s) + Len(t)) /\ ~(Len(s) + i <= Len(s))
                             /\ (Len(s) + i) - Len(s) = i
    BY <1>1
  <2>3. \A i \in 1..Len(s) : i \in 1..(Len(s) + Len(t)) /\ i <= Len(s)
    BY <1>1
  <2>4. \A i \in 1..(Len(s) + Len(t)) : i > Len(s) \/ i \in 1..Len(s)
    BY <1>1
  <2>5. \A i \in 1..Len(s) : i \in 1..Len(c) /\ c[i] = s[i]
    BY <1>1, <2>3
  <2>6. \A i \in 1..Len(t) : Len(s) + i \in 1..Len(c) /\ c[Len(s) + i] = t[i]
    BY <1>1, <2>2
  <2>7. \A i \in 1..Len(c) : i \in 1..Len(s) \/ \E j \in 1..Len(t) : i = Len(s) + j
    BY <1>1, <2>1, <2>4
  <2>8. Len(c) = Len(s) + Len(t)
    BY <1>1
  <2> HIDE DEF c
  <2> QED
    BY <2>5, <2>6, <2>7, <2>8
<1> HIDE DEF c
<1>3. Never(s, x) /\ Never(t, x) => Never(c, x)
  <2> SUFFICES ASSUME Never(s, x), Never(t, x), NEW i \in 1..Len(c), c[i] = x
               PROVE  FALSE
    BY DEF Never
  <2>1. CASE i \in 1..Len(s)
    BY <1>2, <2>1 DEF Never
  <2>2. CASE \E j \in 1..Len(t) : i = Len(s) + j
    BY <1>2, <2>2 DEF Never
  <2> QED
    BY <1>2, <2>1, <2>2
<1>4. Once(s, x) /\ Never(t, x) => Once(c, x)
  <2> SUFFICES ASSUME Once(s, x), Never(t, x) PROVE Once(c, x)
    OBVIOUS
  <2>1. PICK i \in 1..Len(s) : s[i] = x /\ \A j \in 1..Len(s) : s[j] = x => j = i
    BY DEF Once
  <2>2. i \in 1..Len(c) /\ c[i] = x
    BY <1>2, <2>1
  <2>3. ASSUME NEW j \in 1..Len(c), c[j] = x PROVE j = i
    <3>1. CASE j \in 1..Len(s)
      BY <1>2, <2>1, <2>3, <3>1
    <3>2. CASE \E k \in 1..Len(t) : j = Len(s) + k
      BY <1>2, <2>3, <3>2 DEF Never
    <3> QED
      BY <1>2, <3>1, <3>2
  <2> QED
    BY <2>2, <2>3 DEF Once
<1>5. Never(s, x) /\ Once(t, x) => Once(c, x)
  <2> SUFFICES ASSUME Never(s, x), Once(t, x) PROVE Once(c, x)
    OBVIOUS
  <2>1. PICK i \in 1..Len(t) : t[i] = x /\ \A j \in 1..Len(t) : t[j] = x => j = i
    BY DEF Once
  <2>2. Len(s) + i \in 1..Len(c) /\ c[Len(s) + i] = x
    BY <1>2, <2>1
  <2>3. ASSUME NEW j \in 1..Len(c), c[j] = x PROVE j = Len(s) + i
    <3>1. CASE j \in 1..Len(s)
      BY <1>2, <2>3, <3>1 DEF Never
    <3>2. CASE \E k \in 1..Len(t) : j = Len(s) + k
      <4>1. PICK k \in 1..Len(t) : j = Len(s) + k
        BY <3>2
      <4>2. t[k] = x
        BY <1>2, <2>3, <4>1
      <4> QED
        BY <2>1, <4>1, <4>2
    <3> QED
      BY <1>2, <3>1, <3>2
  <2> QED
    BY <2>2, <2>3 DEF Once
<1> QED
  BY <1>1, <1>3, <1>4, <1>5 DEF c

-----------------------------------------------------------------------------
(* FlattenSeq *)

\* the function by which FlattenSeq is computed
FlattenBody(seqs, f) ==
  [i \in 1..Len(seqs) |-> IF i = 1 THEN seqs[i] ELSE f[i - 1] \o seqs[i]]

\* it exists
LEMMA FlattenExists ==
  ASSUME NEW seqs, Len(seqs) \in Nat
  PROVE  \E f : f = FlattenBody(seqs, f)
<1> DEFINE Body(n, f) == [i \in 1..n |-> IF i = 1 THEN seqs[i] ELSE f[i - 1] \o seqs[i]]
           S == {n \in Nat : \E f : f = Body(n, f)}
<1>1. 0 \in S
  <2>1. [i \in 1..0 |-> 0] = Body(0, [i \in 1..0 |-> 0])
    OBVIOUS
  <2> QED
    BY <2>1
<1>2. ASSUME NEW n \in Nat, n \in S PROVE n + 1 \in S
  <2>1. PICK f : f = Body(n, f)
    BY <1>2
  <2> DEFINE last == IF n = 0 THEN seqs[1] ELSE f[n] \o seqs[n + 1]
             g == [i \in 1..(n + 1) |-> IF i = n + 1 THEN last ELSE f[i]]
  <2>2. \A i \in 1..(n + 1) : g[i] = IF i = 1 THEN seqs[i] ELSE g[i - 1] \o seqs[i]
    <3> SUFFICES ASSUME NEW i \in 1..(n + 1)
                 PROVE  g[i] = IF i = 1 THEN seqs[i] ELSE g[i - 1] \o seqs[i]
      OBVIOUS
    <3>1. CASE i = n + 1
      <4>1. CASE n = 0
        BY <3>1, <4>1
      <4>2. CASE n # 0
        <5>1. g[i] = f[n] \o seqs[n + 1] /\ i # 1
          <6>1. g[i] = last
            BY <3>1
          <6>2. last = f[n] \o seqs[n + 1]
            BY <4>2
          <6>3. i # 1
            BY <3>1, <4>2
          <6> QED
            BY <6>1, <6>2, <6>3
        <5>2. n \in 1..(n + 1) /\ n # n + 1 /\ i - 1 = n
          BY <3>1, <4>2
        <5>3. g[n] = f[n]
          BY <5>2
        <5> QED
          BY <3>1, <5>1, <5>2, <5>3
      <4> QED
        BY <4>1, <4>2
    <3>2. CASE i # n + 1
      <4>1. i \in 1..n /\ g[i] = f[i]
        BY <3>2
      <4>2. f[i] = IF i = 1 THEN seqs[i] ELSE f[i - 1] \o seqs[i]
        BY <2>1, <4>1
      <4>3. i # 1 => i - 1 \in 1..(n + 1) /\ i - 1 # n + 1
        BY <3>2
      <4>4. i # 1 => g[i - 1] = f[i - 1]
        BY <4>3
      <4> QED
        BY <4>1, <4>2, <4>4
    <3> QED
      BY <3>1, <3>2
  <2>3. g = Body(n + 1, g)
    <3> DEFINE h == Body(n + 1, g)
    <3>1. g = [i \in 1..(n + 1) |-> g[i]]
      OBVIOUS
    <3>2. \A i \in 1..(n + 1) : h[i] = g[i]
      BY <2>2
    <3>3. h = [i \in 1..(n + 1) |-> h[i]]
      OBVIOUS
    <3> HIDE DEF g, h
    <3>4. g = h
      BY <3>1, <3>2, <3>3
    <3> QED
      BY <3>4 DEF h
  <2>4. \E h : h = Body(n + 1, h)
    <3> HIDE DEF g, Body
    <3> QED
      BY <2>3
  <2>5. n + 1 \in Nat
    OBVIOUS
  <2> HIDE DEF Body
  <2> QED
    BY <2>4, <2>5
<1> HIDE DEF S
<1>3. Len(seqs) \in S
  BY <1>1, <1>2, SetInduction
<1> QED
  BY <1>3 DEF S, FlattenBody

\* and FlattenSeq is its last value
LEMMA FlattenIs ==
  ASSUME NEW seqs, Len(seqs) \in Nat \ {0}
  PROVE  \E f : f = FlattenBody(seqs, f) /\ FlattenSeq(seqs) = f[Len(seqs)]
<1> DEFINE flatten == CHOOSE f : f = [i \in 1..Len(seqs) |->
                                        IF i = 1 THEN seqs[i] ELSE f[i - 1] \o seqs[i]]
<1>1. FlattenSeq(seqs) = flatten[Len(seqs)]
  BY DEF FlattenSeq
<1>2. \E f : f = [i \in 1..Len(seqs) |-> IF i = 1 THEN seqs[i] ELSE f[i - 1] \o seqs[i]]
  BY FlattenExists DEF FlattenBody
<1>3. flatten = FlattenBody(seqs, flatten)
  BY <1>2, Zenon DEF FlattenBody
<1> QED
  BY <1>1, <1>3

(* What is in one of the parts, once, and in no other, is once in the whole;   *)
(* and what is in none of them is not in it.                                   *)
LEMMA FlattenOnce ==
  ASSUME NEW T, NEW seqs, Len(seqs) \in Nat, Len(seqs) = 0 => seqs = <<>>,
         \A i \in 1..Len(seqs) : seqs[i] \in Seq(T), NEW x
  PROVE  /\ FlattenSeq(seqs) \in Seq(T)
         /\ (\A i \in 1..Len(seqs) : Never(seqs[i], x)) => Never(FlattenSeq(seqs), x)
         /\ \A k \in 1..Len(seqs) :
              Once(seqs[k], x) /\ (\A i \in 1..Len(seqs) : i # k => Never(seqs[i], x))
                => Once(FlattenSeq(seqs), x)
<1>1. CASE Len(seqs) = 0
  <2>1. FlattenSeq(seqs) = <<>>
    BY <1>1 DEF FlattenSeq
  <2>2. FlattenSeq(seqs) \in Seq(T) /\ Len(<<>>) = 0
    BY <2>1
  <2>3. Never(<<>>, x)
    BY <2>2 DEF Never
  <2>4. 1..Len(seqs) = {}
    BY <1>1
  <2> QED
    BY <2>1, <2>2, <2>3, <2>4
<1>2. CASE Len(seqs) # 0
  <2>1. PICK f : f = FlattenBody(seqs, f) /\ FlattenSeq(seqs) = f[Len(seqs)]
    BY <1>2, FlattenIs
  <2> DEFINE n == Len(seqs)
  <2>2. \A i \in 1..n : f[i] = IF i = 1 THEN seqs[i] ELSE f[i - 1] \o seqs[i]
    BY <2>1 DEF FlattenBody
  <2> HIDE DEF n
  <2>3. n \in Nat /\ n # 0 /\ FlattenSeq(seqs) = f[n]
    BY <1>2, <2>1 DEF n
  <2> DEFINE Good(i) == /\ f[i] \in Seq(T)
                        /\ (\A j \in 1..i : Never(seqs[j], x)) => Never(f[i], x)
                        /\ \A k \in 1..i :
                             Once(seqs[k], x) /\ (\A j \in 1..i : j # k => Never(seqs[j], x))
                               => Once(f[i], x)
             S == {i \in Nat : i \in 1..n => Good(i)}
  <2>4. 0 \in S
    BY <2>3
  <2>5. ASSUME NEW i \in Nat, i \in S PROVE i + 1 \in S
    <3> SUFFICES ASSUME i + 1 \in 1..n PROVE Good(i + 1)
      OBVIOUS
    <3>1. seqs[i + 1] \in Seq(T)
      BY DEF n
    <3>2. CASE i = 0
      <4>1. f[1] = seqs[1] /\ seqs[1] \in Seq(T)
        BY <2>2, <3>1, <3>2
      <4>2. 1..1 = {1}
        OBVIOUS
      <4>3. Good(1)
        BY <4>1, <4>2
      <4> QED
        BY <3>2, <4>3
    <3>3. CASE i # 0
      <4>1. i \in 1..n /\ i + 1 # 1 /\ (i + 1) - 1 = i
        BY <2>3, <3>3
      <4>2. Good(i)
        BY <2>5, <4>1
      <4>3. f[i + 1] = f[i] \o seqs[i + 1]
        BY <2>2, <4>1
      <4>4. \A j \in 1..(i + 1) : j \in 1..i \/ j = i + 1
        OBVIOUS
      <4>5. \A j \in 1..i : j \in 1..(i + 1) /\ j # i + 1
        OBVIOUS
      <4>6. i + 1 \in 1..(i + 1)
        OBVIOUS
      <4>7. f[i] \in Seq(T)
        BY <4>2
      <4>8. /\ f[i + 1] \in Seq(T)
            /\ Never(f[i], x) /\ Never(seqs[i + 1], x) => Never(f[i + 1], x)
            /\ Once(f[i], x) /\ Never(seqs[i + 1], x) => Once(f[i + 1], x)
            /\ Never(f[i], x) /\ Once(seqs[i + 1], x) => Once(f[i + 1], x)
        BY <3>1, <4>3, <4>7, ConcatOnce
      <4>9. (\A j \in 1..(i + 1) : Never(seqs[j], x)) => Never(f[i + 1], x)
        BY <4>2, <4>5, <4>6, <4>8
      <4>10. ASSUME NEW k \in 1..(i + 1), Once(seqs[k], x),
                    \A j \in 1..(i + 1) : j # k => Never(seqs[j], x)
             PROVE  Once(f[i + 1], x)
        <5>1. CASE k = i + 1
          <6>1. \A j \in 1..i : Never(seqs[j], x)
            BY <4>5, <4>10, <5>1
          <6>2. Never(f[i], x)
            BY <4>2, <6>1
          <6> QED
            BY <4>8, <4>10, <5>1, <6>2
        <5>2. CASE k # i + 1
          <6>1. k \in 1..i
            BY <4>4, <4>10, <5>2
          <6>2. \A j \in 1..i : j # k => Never(seqs[j], x)
            BY <4>5, <4>10
          <6>3. Once(f[i], x)
            BY <4>2, <4>10, <6>1, <6>2
          <6>4. Never(seqs[i + 1], x)
            BY <4>6, <4>10, <5>2
          <6> QED
            BY <4>8, <6>3, <6>4
        <5> QED
          BY <5>1, <5>2
      <4> QED
        BY <4>8, <4>9, <4>10
    <3> QED
      BY <3>2, <3>3
  <2> HIDE DEF S
  <2>6. n \in S
    BY <2>3, <2>4, <2>5, SetInduction
  <2>7. n \in 1..n
    BY <2>3
  <2>8. Good(n)
    BY <2>6, <2>7 DEF S
  <2> QED
    BY <2>3, <2>8 DEF n
<1> QED
  BY <1>1, <1>2

\* what is chosen is in order, and as often as before
LEMMA ChosenOnce ==
  ASSUME NEW T, NEW s \in Seq(T), NEW A, NEW x
  PROVE  /\ Chosen(s, A) \in Seq(T)
         /\ x \notin A \/ Never(s, x) => Never(Chosen(s, A), x)
         /\ Once(s, x) /\ x \in A => Once(Chosen(s, A), x)
<1> DEFINE parts == [k \in 1..Len(s) |-> IF s[k] \in A THEN <<s[k]>> ELSE <<>>]
<1>1. Len(s) \in Nat /\ \A k \in 1..Len(s) : s[k] \in T
  BY ElementOfSeq
<1>2. Len(parts) = Len(s) /\ Chosen(s, A) = FlattenSeq(parts)
  BY <1>1 DEF Chosen
<1>3. Len(parts) = 0 => parts = <<>>
  BY <1>1, <1>2
<1>4. \A y : Len(<<y>>) = 1 /\ <<y>>[1] = y
  OBVIOUS
<1>5. Len(<<>>) = 0
  OBVIOUS
<1>6. \A k \in 1..Len(s) : /\ s[k] \in A => parts[k] = <<s[k]>>
                           /\ s[k] \notin A => parts[k] = <<>>
  OBVIOUS
<1>7. \A k \in 1..Len(s) : parts[k] \in Seq(T)
  BY <1>1
<1> HIDE DEF parts
<1>8. \A k \in 1..Len(s) : x \notin A \/ s[k] # x => Never(parts[k], x)
  <2> SUFFICES ASSUME NEW k \in 1..Len(s), x \notin A \/ s[k] # x,
                      NEW i \in 1..Len(parts[k]), parts[k][i] = x
               PROVE  FALSE
    BY DEF Never
  <2>1. CASE s[k] \in A
    <3>1. parts[k] = <<s[k]>> /\ i \in 1..1
      BY <1>4, <1>6, <2>1
    <3>2. i = 1
      BY <3>1
    <3>3. x = s[k]
      BY <1>4, <3>1, <3>2
    <3> QED
      BY <2>1, <3>3
  <2>2. CASE s[k] \notin A
    <3>1. i \in 1..0
      BY <1>5, <1>6, <2>2
    <3> QED
      BY <3>1
  <2> QED
    BY <2>1, <2>2
<1>9. \A k \in 1..Len(s) : x \in A /\ s[k] = x => Once(parts[k], x)
  <2> SUFFICES ASSUME NEW k \in 1..Len(s), x \in A, s[k] = x PROVE Once(parts[k], x)
    OBVIOUS
  <2>1. Len(parts[k]) = 1 /\ parts[k][1] = x
    BY <1>4, <1>6
  <2>2. 1..1 = {1}
    OBVIOUS
  <2> QED
    BY <2>1, <2>2 DEF Once
<1>10. /\ FlattenSeq(parts) \in Seq(T)
       /\ (\A i \in 1..Len(s) : Never(parts[i], x)) => Never(FlattenSeq(parts), x)
       /\ \A k \in 1..Len(s) :
            Once(parts[k], x) /\ (\A i \in 1..Len(s) : i # k => Never(parts[i], x))
              => Once(FlattenSeq(parts), x)
  BY <1>1, <1>2, <1>3, <1>7, FlattenOnce
<1>11. x \notin A \/ Never(s, x) => Never(FlattenSeq(parts), x)
  BY <1>8, <1>10 DEF Never
<1>12. Once(s, x) /\ x \in A => Once(FlattenSeq(parts), x)
  <2> SUFFICES ASSUME Once(s, x), x \in A PROVE Once(FlattenSeq(parts), x)
    OBVIOUS
  <2>1. PICK k \in 1..Len(s) : s[k] = x /\ \A j \in 1..Len(s) : s[j] = x => j = k
    BY DEF Once
  <2>2. Once(parts[k], x)
    BY <1>9, <2>1
  <2>3. \A i \in 1..Len(s) : i # k => Never(parts[i], x)
    BY <1>8, <2>1
  <2> QED
    BY <1>10, <2>2, <2>3
<1> QED
  BY <1>2, <1>10, <1>11, <1>12

-----------------------------------------------------------------------------
(* The passes that are determined *)

PassRecord == [dir : Int, baseline : Seq(STRING), group : STRING, pol : STRING]

\* of a file: for every group chosen and every product
LEMMA FilePasses ==
  ASSUME NEW file \in File, NEW c \in CommandLine, NEW n \in Int, NEW x \in PassRecord,
         Groups(file, c) \in Seq(STRING), PolProducts(file, c) \in Seq(STRING)
  PROVE  /\ PassesOfFile(n, file, c) \in Seq(PassRecord)
         /\ (\/ x.dir # n \/ x.baseline # file.code
             \/ Never(Groups(file, c), x.group) \/ Never(PolProducts(file, c), x.pol))
              => Never(PassesOfFile(n, file, c), x)
         /\ (/\ x.dir = n /\ x.baseline = file.code
             /\ Once(Groups(file, c), x.group) /\ Once(PolProducts(file, c), x.pol))
              => Once(PassesOfFile(n, file, c), x)
<1>1. PICK groups \in Seq(STRING), pols \in Seq(STRING) :
        groups = Groups(file, c) /\ pols = PolProducts(file, c)
  OBVIOUS
<1>2. PICK code \in Seq(STRING) : code = file.code
  BY DEF File
<1> DEFINE rec(j, k) == [dir |-> n, baseline |-> code, group |-> groups[j], pol |-> pols[k]]
           row(j) == [k \in 1..Len(pols) |-> rec(j, k)]
           rows == [j \in 1..Len(groups) |-> row(j)]
<1>3. PassesOfFile(n, file, c) = FlattenSeq(rows)
  BY <1>1, <1>2 DEF PassesOfFile
<1>4. /\ Len(groups) \in Nat /\ \A j \in 1..Len(groups) : groups[j] \in STRING
      /\ Len(pols) \in Nat /\ \A k \in 1..Len(pols) : pols[k] \in STRING
  BY ElementOfSeq
<1>5. \A j \in 1..Len(groups), k \in 1..Len(pols) :
        /\ rec(j, k) \in PassRecord
        /\ rec(j, k) = x <=> /\ x.dir = n /\ x.baseline = code
                             /\ groups[j] = x.group /\ pols[k] = x.pol
  <2> SUFFICES ASSUME NEW j \in 1..Len(groups), NEW k \in 1..Len(pols)
               PROVE  /\ rec(j, k) \in PassRecord
                      /\ rec(j, k) = x <=> /\ x.dir = n /\ x.baseline = code
                                           /\ groups[j] = x.group /\ pols[k] = x.pol
    OBVIOUS
  <2>1. rec(j, k) \in PassRecord
    BY <1>4 DEF PassRecord
  <2>2. x = [dir |-> x.dir, baseline |-> x.baseline, group |-> x.group, pol |-> x.pol]
    BY DEF PassRecord
  <2> QED
    BY <2>1, <2>2
<1> HIDE DEF rec
<1>6. \A j \in 1..Len(groups) :
        /\ row(j) \in Seq(PassRecord) /\ Len(row(j)) = Len(pols)
        /\ \A k \in 1..Len(pols) : row(j)[k] = rec(j, k)
  <2> SUFFICES ASSUME NEW j \in 1..Len(groups)
               PROVE  /\ row(j) \in Seq(PassRecord) /\ Len(row(j)) = Len(pols)
                      /\ \A k \in 1..Len(pols) : row(j)[k] = rec(j, k)
    OBVIOUS
  <2>1. row(j) \in Seq(PassRecord)
    BY <1>4, <1>5, IsASeq
  <2> QED
    BY <1>4, <2>1
<1>7. Len(rows) = Len(groups) /\ (Len(rows) = 0 => rows = <<>>)
      /\ \A j \in 1..Len(groups) : rows[j] = row(j)
  BY <1>4
<1> HIDE DEF row, rows
<1>8. /\ FlattenSeq(rows) \in Seq(PassRecord)
      /\ (\A i \in 1..Len(groups) : Never(rows[i], x)) => Never(FlattenSeq(rows), x)
      /\ \A k \in 1..Len(groups) :
           Once(rows[k], x) /\ (\A i \in 1..Len(groups) : i # k => Never(rows[i], x))
             => Once(FlattenSeq(rows), x)
  BY <1>4, <1>6, <1>7, FlattenOnce
<1>9. \A j \in 1..Len(groups) :
        x.dir # n \/ x.baseline # code \/ groups[j] # x.group \/ Never(pols, x.pol)
          => Never(rows[j], x)
  BY <1>5, <1>6, <1>7 DEF Never
<1>10. \A j \in 1..Len(groups) :
         x.dir = n /\ x.baseline = code /\ groups[j] = x.group /\ Once(pols, x.pol)
           => Once(rows[j], x)
  <2> SUFFICES ASSUME NEW j \in 1..Len(groups), x.dir = n, x.baseline = code,
                      groups[j] = x.group, Once(pols, x.pol)
               PROVE  Once(rows[j], x)
    OBVIOUS
  <2>1. PICK k \in 1..Len(pols) :
          pols[k] = x.pol /\ \A i \in 1..Len(pols) : pols[i] = x.pol => i = k
    BY DEF Once
  <2>2. Len(rows[j]) = Len(pols) /\ \A i \in 1..Len(pols) : rows[j][i] = rec(j, i)
    BY <1>6, <1>7
  <2>3. rows[j][k] = x
    BY <1>5, <2>1, <2>2
  <2>4. \A i \in 1..Len(pols) : rows[j][i] = x => i = k
    BY <1>5, <2>1, <2>2
  <2> QED
    BY <2>2, <2>3, <2>4 DEF Once
<1>11. x.dir # n \/ x.baseline # code \/ Never(groups, x.group) \/ Never(pols, x.pol)
         => Never(FlattenSeq(rows), x)
  BY <1>8, <1>9 DEF Never
<1>12. x.dir = n /\ x.baseline = code /\ Once(groups, x.group) /\ Once(pols, x.pol)
         => Once(FlattenSeq(rows), x)
  <2> SUFFICES ASSUME x.dir = n, x.baseline = code, Once(groups, x.group), Once(pols, x.pol)
               PROVE  Once(FlattenSeq(rows), x)
    OBVIOUS
  <2>1. PICK k \in 1..Len(groups) :
          groups[k] = x.group /\ \A j \in 1..Len(groups) : groups[j] = x.group => j = k
    BY DEF Once
  <2>2. Once(rows[k], x)
    BY <1>10, <2>1
  <2>3. \A i \in 1..Len(groups) : i # k => Never(rows[i], x)
    BY <1>9, <2>1
  <2> QED
    BY <1>8, <2>2, <2>3
<1>13. FlattenSeq(rows) \in Seq(PassRecord)
  BY <1>8
<1>14. PassesOfFile(n, file, c) \in Seq(PassRecord)
  BY <1>3, <1>13
<1>15. ASSUME \/ x.dir # n \/ x.baseline # file.code
              \/ Never(Groups(file, c), x.group) \/ Never(PolProducts(file, c), x.pol)
       PROVE  Never(PassesOfFile(n, file, c), x)
  BY <1>1, <1>2, <1>3, <1>11, <1>15, Zenon
<1>16. ASSUME x.dir = n, x.baseline = file.code, Once(Groups(file, c), x.group),
              Once(PolProducts(file, c), x.pol)
       PROVE  Once(PassesOfFile(n, file, c), x)
  BY <1>1, <1>2, <1>3, <1>12, <1>16, Zenon
<1> QED
  BY <1>14, <1>15, <1>16

\* the groups and products to fit of a file
LEMMA ProductsTyped ==
  ASSUME NEW file \in File, NEW c \in CommandLine
  PROVE  Groups(file, c) \in Seq(STRING) /\ PolProducts(file, c) \in Seq(STRING)
<1>1. file.groups \in Seq(STRING) /\ file.pols \in Seq(STRING) /\ c.pol \in STRING
  BY DEF File, CommandLine
<1> DEFINE A == {h \in Range(file.groups) : c.group \in {"?", h}}
<1>2. Groups(file, c) = Chosen(file.groups, A)
  BY DEF Groups
<1>3. Chosen(file.groups, A) \in Seq(STRING)
  <2> HIDE DEF A
  <2> QED
    BY <1>1, ChosenOnce
<1>4. <<c.pol>> \in Seq(STRING)
  BY <1>1
<1>5. PolProducts(file, c) \in Seq(STRING)
  BY <1>1, <1>4 DEF PolProducts
<1> QED
  BY <1>2, <1>3, <1>5

\* the groups and products of a file, and what is left of them
LEMMA ProductsOnce ==
  ASSUME NEW file \in File, NEW c \in CommandLine, IsInjective(file.groups),
         IsInjective(file.pols), NEW g \in STRING, NEW p \in STRING, p # "??"
  PROVE  /\ g \in Range(file.groups) /\ c.group \in {"?", g} => Once(Groups(file, c), g)
         /\ c.group \notin {"?", g} => Never(Groups(file, c), g)
         /\ c.pol = p \/ (c.pol = "??" /\ p \in Range(file.pols))
              => Once(PolProducts(file, c), p)
         /\ ~(c.pol = p \/ (c.pol = "??" /\ p \in Range(file.pols)))
              => Never(PolProducts(file, c), p)
<1>1. file.groups \in Seq(STRING) /\ file.pols \in Seq(STRING) /\ c.pol \in STRING
  BY DEF File, CommandLine
<1>2. \A s \in Seq(STRING) : DOMAIN s = 1..Len(s)
  OBVIOUS
<1>3. \A s \in Seq(STRING) : \A y : IsInjective(s) /\ y \in Range(s) => Once(s, y)
  BY <1>2 DEF IsInjective, Range, Once
<1>4. \A s \in Seq(STRING) : \A y : y \notin Range(s) => Never(s, y)
  BY <1>2 DEF Range, Never
<1> DEFINE A == {h \in Range(file.groups) : c.group \in {"?", h}}
<1>5. Groups(file, c) = Chosen(file.groups, A)
  BY DEF Groups
<1>6. /\ g \notin A => Never(Chosen(file.groups, A), g)
      /\ Once(file.groups, g) /\ g \in A => Once(Chosen(file.groups, A), g)
  <2> HIDE DEF A
  <2> QED
    BY <1>1, ChosenOnce
<1>7. Len(<<c.pol>>) = 1 /\ <<c.pol>>[1] = c.pol
  BY <1>1
<1>8. Once(<<c.pol>>, c.pol) /\ (c.pol # p => Never(<<c.pol>>, p))
  <2>1. 1..1 = {1}
    OBVIOUS
  <2> QED
    BY <1>7, <2>1 DEF Once, Never
<1>9. PolProducts(file, c) = IF c.pol = "??" THEN file.pols ELSE <<c.pol>>
  BY DEF PolProducts
<1>11. /\ c.pol = p \/ (c.pol = "??" /\ p \in Range(file.pols))
            => Once(PolProducts(file, c), p)
       /\ ~(c.pol = p \/ (c.pol = "??" /\ p \in Range(file.pols)))
            => Never(PolProducts(file, c), p)
  <2>1. CASE c.pol = "??"
    BY <1>1, <1>3, <1>4, <1>9, <2>1
  <2>2. CASE c.pol # "??"
    BY <1>8, <1>9, <2>2
  <2> QED
    BY <2>1, <2>2
<1>12. g \in Range(file.groups) /\ c.group \in {"?", g} => Once(Groups(file, c), g)
  BY <1>1, <1>3, <1>5, <1>6
<1>13. c.group \notin {"?", g} => Never(Groups(file, c), g)
  BY <1>5, <1>6
<1> QED
  BY <1>11, <1>12, <1>13

\* which files are asked for
Asked(c, file) ==
  /\ c.baseline \in {file.pair, file.code, <<"?", file.code[2]>>, <<file.code[1], "?">>,
                     <<"?", "?">>}
  /\ c.exclude_autos => file.code[1] # file.code[2]

\* a code is known from its two characters
LEMMA PairOfCharacters ==
  ASSUME NEW s \in Seq(STRING), Len(s) = 2, NEW a, NEW b
  PROVE  s = <<a, b>> <=> s[1] = a /\ s[2] = b
<1>1. Len(<<a, b>>) = 2 /\ <<a, b>>[1] = a /\ <<a, b>>[2] = b
  OBVIOUS
<1>2. 1..2 = {1, 2}
  OBVIOUS
<1>3. ASSUME s[1] = a, s[2] = b PROVE s = <<a, b>>
  <2>1. a \in STRING /\ b \in STRING
    BY <1>2, <1>3, ElementOfSeq
  <2>2. <<a, b>> \in Seq(STRING)
    <3>1. \A T : \A y, z \in T : <<y, z>> \in Seq(T)
      OBVIOUS
    <3> QED
      BY <2>1, <3>1
  <2>3. \A i \in 1..Len(s) : s[i] = <<a, b>>[i]
    BY <1>1, <1>2, <1>3
  <2> QED
    BY <1>1, <2>2, <2>3, SeqEqual
<1> QED
  BY <1>1, <1>3

\* determine_baselines tests for that
LEMMA AskedMatches ==
  ASSUME NEW file \in File, NEW c \in CommandLine, Len(file.code) = 2, Len(file.pair) = 5
  PROVE  Asked(c, file) <=>
           Matches(c.baseline, file) /\ ~(c.exclude_autos /\ Autocorrelation(file))
<1>1. PICK code \in Seq(STRING), pair \in Seq(STRING) :
        code = file.code /\ pair = file.pair /\ Len(code) = 2 /\ Len(pair) = 5
  BY DEF File
<1>2. PICK baseline \in Seq(STRING) : baseline = c.baseline
  BY DEF CommandLine
<1>3. (c.exclude_autos => code[1] # code[2]) <=> ~(c.exclude_autos /\ Autocorrelation(file))
  BY <1>1 DEF Autocorrelation
<1>4. Matches(baseline, file) <=>
        baseline \in {pair, code, <<"?", code[2]>>, <<code[1], "?">>, <<"?", "?">>}
  <2>1. Len(<<"?", code[2]>>) = 2 /\ Len(<<code[1], "?">>) = 2 /\ Len(<<"?", "?">>) = 2
    OBVIOUS
  <2>2. CASE Len(baseline) = 2
    <3>1. Matches(baseline, file) <=> \A k \in 1..2 : baseline[k] \in {"?", code[k]}
      BY <1>1, <2>2 DEF Matches
    <3>2. 1..2 = {1, 2}
      OBVIOUS
    <3>3. Matches(baseline, file) <=>
            baseline[1] \in {"?", code[1]} /\ baseline[2] \in {"?", code[2]}
      BY <3>1, <3>2
    <3>4. /\ baseline = <<"?", code[2]>> <=> baseline[1] = "?" /\ baseline[2] = code[2]
          /\ baseline = <<code[1], "?">> <=> baseline[1] = code[1] /\ baseline[2] = "?"
          /\ baseline = <<"?", "?">> <=> baseline[1] = "?" /\ baseline[2] = "?"
          /\ baseline = <<code[1], code[2]>> <=> baseline[1] = code[1] /\ baseline[2] = code[2]
      BY <2>2, PairOfCharacters
    <3>5. code = <<code[1], code[2]>>
      BY <1>1, PairOfCharacters
    <3>6. baseline # pair
      <4>1. Len(pair) = 5
        BY <1>1, Zenon
      <4>2. 5 # 2
        OBVIOUS
      <4> QED
        BY <2>2, <4>1, <4>2, Zenon
    <3>7. baseline = code <=> baseline[1] = code[1] /\ baseline[2] = code[2]
      BY <3>4, <3>5
    <3> QED
      BY <3>3, <3>4, <3>6, <3>7
  <2>3. CASE Len(baseline) # 2
    <3>1. Matches(baseline, file) <=> Len(baseline) = 5 /\ baseline = pair
      BY <1>1, <2>3 DEF Matches
    <3>2. baseline \notin {code, <<"?", code[2]>>, <<code[1], "?">>, <<"?", "?">>}
      BY <1>1, <2>1, <2>3
    <3> QED
      BY <1>1, <3>1, <3>2
  <2> QED
    BY <2>2, <2>3
<1> QED
  BY <1>1, <1>2, <1>3, <1>4 DEF Asked

\* the files of a scan in which a baseline is looked for
LEMMA FilesChosen ==
  ASSUME NEW dir \in Directory, NEW c \in CommandLine
  PROVE  /\ determine_baselines(dir, c) \in Seq(File)
         /\ \A j \in 1..Len(determine_baselines(dir, c)) :
              determine_baselines(dir, c)[j] \in Range(dir.cor)
<1> DEFINE A == {f \in Range(dir.cor) : /\ Matches(c.baseline, f)
                                        /\ ~(c.exclude_autos /\ Autocorrelation(f))}
<1>1. PICK cor \in Seq(File) : cor = dir.cor
  BY DEF Directory
<1>2. determine_baselines(dir, c) = Chosen(cor, A)
  BY <1>1 DEF determine_baselines
<1>3. A \subseteq Range(cor)
  BY <1>1
<1> HIDE DEF A
<1>4. \A y : /\ Chosen(cor, A) \in Seq(File)
             /\ y \notin A => Never(Chosen(cor, A), y)
  BY ChosenOnce
<1>5. \A j \in 1..Len(Chosen(cor, A)) : Chosen(cor, A)[j] \in A
  <2> SUFFICES ASSUME NEW j \in 1..Len(Chosen(cor, A)), Chosen(cor, A)[j] \notin A
               PROVE  FALSE
    OBVIOUS
  <2>1. PICK y : y = Chosen(cor, A)[j]
    OBVIOUS
  <2>2. Never(Chosen(cor, A), y)
    BY <1>4, <2>1
  <2> QED
    BY <2>1, <2>2 DEF Never
<1>6. \A j \in 1..Len(Chosen(cor, A)) : Chosen(cor, A)[j] \in Range(cor)
  BY <1>3, <1>5
<1> QED
  BY <1>1, <1>2, <1>4, <1>6

\* a file that the directory has once is looked at once, if it is asked for
LEMMA FilesOnce ==
  ASSUME NEW dir \in Directory, NEW c \in CommandLine, NEW file \in File,
         Len(file.code) = 2, Len(file.pair) = 5, Once(dir.cor, file)
  PROVE  /\ Asked(c, file) => Once(determine_baselines(dir, c), file)
         /\ ~Asked(c, file) => Never(determine_baselines(dir, c), file)
<1> DEFINE A == {f \in Range(dir.cor) : /\ Matches(c.baseline, f)
                                        /\ ~(c.exclude_autos /\ Autocorrelation(f))}
<1>1. PICK cor \in Seq(File) : cor = dir.cor
  BY DEF Directory
<1>2. determine_baselines(dir, c) = Chosen(cor, A)
  BY <1>1 DEF determine_baselines
<1>3. file \in Range(cor)
  <2>1. PICK i \in 1..Len(cor) : cor[i] = file
    BY <1>1 DEF Once
  <2>2. DOMAIN cor = 1..Len(cor)
    OBVIOUS
  <2> QED
    BY <2>1, <2>2 DEF Range
<1>4. file \in A <=> Asked(c, file)
  BY <1>1, <1>3, AskedMatches
<1> HIDE DEF A
<1>5. \A y : /\ y \notin A => Never(Chosen(cor, A), y)
             /\ Once(cor, y) /\ y \in A => Once(Chosen(cor, A), y)
  BY ChosenOnce
<1> QED
  BY <1>1, <1>2, <1>4, <1>5

\* the scans
LEMMA ScansOnce ==
  ASSUME NEW e \in Experiment, NEW n \in Dirs(e)
  PROVE  /\ Scans(e) \in Seq(Dirs(e))
         /\ Dir(e, n).root /\ (e.top.root => n = 0) => Once(Scans(e), n)
         /\ ~(Dir(e, n).root /\ (e.top.root => n = 0)) => Never(Scans(e), n)
<1>1. PICK subs \in Seq(Directory) : subs = e.subs
  BY DEF Experiment
<1>2. Len(subs) \in Nat /\ Dirs(e) = 0..Len(subs)
  BY <1>1 DEF Dirs
<1>3. CASE e.top.root
  <2>1. Scans(e) = <<0>>
    BY <1>3 DEF Scans
  <2>2. Len(<<0>>) = 1 /\ <<0>>[1] = 0 /\ 1..1 = {1}
    OBVIOUS
  <2>3. Scans(e) \in Seq(Dirs(e))
    BY <1>2, <2>1
  <2>4. n = 0 => Once(Scans(e), n)
    BY <2>1, <2>2 DEF Once
  <2>5. n # 0 => Never(Scans(e), n)
    BY <2>1, <2>2 DEF Never
  <2>6. n = 0 => Dir(e, n).root
    BY <1>3 DEF Dir
  <2> QED
    BY <1>3, <2>3, <2>4, <2>5, <2>6
<1>4. CASE ~e.top.root
  <2> DEFINE all == [m \in 1..Len(subs) |-> m]
             A == {m \in 1..Len(subs) : Dir(e, m).root}
  <2>1. Scans(e) = Chosen(all, A)
    BY <1>1, <1>4 DEF Scans
  <2>2. /\ all \in Seq(Dirs(e)) /\ Len(all) = Len(subs)
        /\ \A m \in 1..Len(subs) : all[m] = m
    <3>1. \A m \in 1..Len(subs) : m \in Dirs(e)
      BY <1>2
    <3> QED
      BY <1>2, <3>1
  <2>3. n \in A <=> n # 0 /\ Dir(e, n).root
    BY <1>2
  <2>4. n = 0 => ~Dir(e, n).root
    BY <1>4 DEF Dir
  <2> HIDE DEF all, A
  <2>5. n # 0 => Once(all, n)
    <3>1. n # 0 => n \in 1..Len(all) /\ all[n] = n
      BY <1>2, <2>2
    <3>2. \A j \in 1..Len(all) : all[j] = n => j = n
      BY <2>2
    <3> QED
      BY <3>1, <3>2 DEF Once
  <2>6. /\ Chosen(all, A) \in Seq(Dirs(e))
        /\ n \notin A => Never(Chosen(all, A), n)
        /\ Once(all, n) /\ n \in A => Once(Chosen(all, A), n)
    BY <2>2, ChosenOnce
  <2> QED
    BY <1>4, <2>1, <2>3, <2>4, <2>5, <2>6
<1> QED
  BY <1>3, <1>4

\* what the program does with the files of a directory
Regular(dir) ==
  \A f \in Range(dir.cor) : /\ Len(f.code) = 2 => Len(f.pair) = 5
                            /\ IsInjective(f.groups) /\ IsInjective(f.pols)

\* a group and product of a file are asked for
AskedOf(c, file, group, pol) ==
  /\ Asked(c, file)
  /\ c.group \in {"?", group}
  /\ c.pol = pol \/ (c.pol = "??" /\ pol \in Range(file.pols))

\* the passes of a scan are all its own
LEMMA ScanPasses ==
  ASSUME NEW n \in Int, NEW dir \in Directory, Regular(dir), NEW c \in CommandLine,
         NEW x \in PassRecord
  PROVE  /\ PassesOfScan(n, dir, c) \in Seq(PassRecord)
         /\ x.dir # n => Never(PassesOfScan(n, dir, c), x)
         /\ \A f \in File :
              /\ f \in Range(dir.cor) /\ Len(f.code) = 2 /\ Once(dir.cor, f)
              /\ \A h \in Range(dir.cor) : h.code = f.code => h = f
              /\ x.dir = n /\ x.baseline = f.code
              /\ x.group \in Range(f.groups) /\ x.pol # "??"
              => /\ AskedOf(c, f, x.group, x.pol) => Once(PassesOfScan(n, dir, c), x)
                 /\ ~AskedOf(c, f, x.group, x.pol) => Never(PassesOfScan(n, dir, c), x)
<1>1. PICK files \in Seq(File) : files = determine_baselines(dir, c)
  BY FilesChosen
<1> DEFINE parts == [k \in 1..Len(files) |-> PassesOfFile(n, files[k], c)]
<1>2. PassesOfScan(n, dir, c) = FlattenSeq(parts)
  BY <1>1 DEF PassesOfScan
<1>3. \A k \in 1..Len(files) : files[k] \in File /\ files[k] \in Range(dir.cor)
  BY <1>1, FilesChosen, ElementOfSeq
<1>4. x.group \in STRING /\ x.pol \in STRING
  BY DEF PassRecord
<1>5. ASSUME NEW f \in File, f \in Range(dir.cor)
      PROVE  /\ PassesOfFile(n, f, c) \in Seq(PassRecord)
             /\ x.dir # n \/ x.baseline # f.code => Never(PassesOfFile(n, f, c), x)
             /\ x.pol # "??" /\ ~(/\ c.group \in {"?", x.group}
                                  /\ \/ c.pol = x.pol
                                     \/ c.pol = "??" /\ x.pol \in Range(f.pols))
                  => Never(PassesOfFile(n, f, c), x)
             /\ (/\ x.pol # "??" /\ x.dir = n /\ x.baseline = f.code
                 /\ x.group \in Range(f.groups) /\ c.group \in {"?", x.group}
                 /\ c.pol = x.pol \/ (c.pol = "??" /\ x.pol \in Range(f.pols)))
                  => Once(PassesOfFile(n, f, c), x)
  <2>1. IsInjective(f.groups) /\ IsInjective(f.pols)
    BY <1>5, Zenon DEF Regular
  <2>2. Groups(f, c) \in Seq(STRING) /\ PolProducts(f, c) \in Seq(STRING)
    BY ProductsTyped
  <2>3. x.pol # "??" =>
          /\ x.group \in Range(f.groups) /\ c.group \in {"?", x.group}
               => Once(Groups(f, c), x.group)
          /\ c.group \notin {"?", x.group} => Never(Groups(f, c), x.group)
          /\ c.pol = x.pol \/ (c.pol = "??" /\ x.pol \in Range(f.pols))
               => Once(PolProducts(f, c), x.pol)
          /\ ~(c.pol = x.pol \/ (c.pol = "??" /\ x.pol \in Range(f.pols)))
               => Never(PolProducts(f, c), x.pol)
    BY <1>4, <2>1, ProductsOnce
  <2>4. /\ PassesOfFile(n, f, c) \in Seq(PassRecord)
        /\ (\/ x.dir # n \/ x.baseline # f.code
            \/ Never(Groups(f, c), x.group) \/ Never(PolProducts(f, c), x.pol))
             => Never(PassesOfFile(n, f, c), x)
        /\ (/\ x.dir = n /\ x.baseline = f.code
            /\ Once(Groups(f, c), x.group) /\ Once(PolProducts(f, c), x.pol))
             => Once(PassesOfFile(n, f, c), x)
    BY <2>2, FilePasses
  <2> QED
    BY <2>3, <2>4
<1>6. Len(parts) = Len(files) /\ Len(files) \in Nat /\ (Len(parts) = 0 => parts = <<>>)
  OBVIOUS
<1>7. \A k \in 1..Len(files) : parts[k] = PassesOfFile(n, files[k], c)
  OBVIOUS
<1> HIDE DEF parts
<1>8. \A k \in 1..Len(parts) : parts[k] \in Seq(PassRecord)
  BY <1>3, <1>5, <1>6, <1>7
<1>9. /\ FlattenSeq(parts) \in Seq(PassRecord)
      /\ (\A i \in 1..Len(parts) : Never(parts[i], x)) => Never(FlattenSeq(parts), x)
      /\ \A k \in 1..Len(parts) :
           Once(parts[k], x) /\ (\A i \in 1..Len(parts) : i # k => Never(parts[i], x))
             => Once(FlattenSeq(parts), x)
  BY <1>6, <1>8, FlattenOnce
<1>10. x.dir # n => Never(FlattenSeq(parts), x)
  BY <1>3, <1>5, <1>6, <1>7, <1>9
<1>11. ASSUME NEW f \in File, f \in Range(dir.cor), Len(f.code) = 2, Once(dir.cor, f),
              \A h \in Range(dir.cor) : h.code = f.code => h = f,
              x.dir = n, x.baseline = f.code, x.group \in Range(f.groups), x.pol # "??"
       PROVE  /\ AskedOf(c, f, x.group, x.pol) => Once(FlattenSeq(parts), x)
              /\ ~AskedOf(c, f, x.group, x.pol) => Never(FlattenSeq(parts), x)
  <2>1. Len(f.pair) = 5
    BY <1>11 DEF Regular
  <2>2. /\ Asked(c, f) => Once(files, f)
        /\ ~Asked(c, f) => Never(files, f)
    BY <1>1, <1>11, <2>1, FilesOnce
  <2>3. \A k \in 1..Len(files) : files[k] # f => Never(parts[k], x)
    BY <1>3, <1>5, <1>7, <1>11
  <2>4. CASE ~Asked(c, f)
    <3>1. \A k \in 1..Len(files) : files[k] # f
      BY <2>2, <2>4 DEF Never
    <3>2. ~AskedOf(c, f, x.group, x.pol)
      BY <2>4 DEF AskedOf
    <3> QED
      BY <1>6, <1>9, <2>3, <3>1, <3>2
  <2>5. CASE Asked(c, f) /\ ~AskedOf(c, f, x.group, x.pol)
    <3>1. ~(/\ c.group \in {"?", x.group}
            /\ \/ c.pol = x.pol
               \/ c.pol = "??" /\ x.pol \in Range(f.pols))
      BY <2>5 DEF AskedOf
    <3>2. Never(PassesOfFile(n, f, c), x)
      BY <1>5, <1>11, <3>1
    <3>3. \A k \in 1..Len(files) : Never(parts[k], x)
      BY <1>7, <2>3, <3>2
    <3> QED
      BY <1>6, <1>9, <2>5, <3>3
  <2>6. CASE AskedOf(c, f, x.group, x.pol)
    <3>1. Asked(c, f) /\ Once(PassesOfFile(n, f, c), x)
      BY <1>5, <1>11, <2>6 DEF AskedOf
    <3>2. PICK k \in 1..Len(files) :
            files[k] = f /\ \A j \in 1..Len(files) : files[j] = f => j = k
      BY <2>2, <3>1 DEF Once
    <3>3. Once(parts[k], x)
      BY <1>7, <3>1, <3>2
    <3>4. \A i \in 1..Len(files) : i # k => Never(parts[i], x)
      BY <2>3, <3>2
    <3> QED
      BY <1>6, <1>9, <2>6, <3>3, <3>4
  <2> QED
    BY <2>4, <2>5, <2>6
<1> QED
  BY <1>2, <1>9, <1>10, <1>11

\* the numbers of directories
LEMMA DirsTyped ==
  ASSUME NEW e \in Experiment
  PROVE  \A m \in Dirs(e) : m \in Int /\ Dir(e, m) \in Directory
<1>1. PICK subs \in Seq(Directory) : subs = e.subs
  BY DEF Experiment
<1>2. Dirs(e) = 0..Len(subs) /\ e.top \in Directory
  BY <1>1 DEF Dirs, Experiment
<1>3. \A m \in Dirs(e) : m \in Int /\ (m # 0 => m \in 1..Len(subs))
  BY <1>2
<1>4. \A m \in 1..Len(subs) : subs[m] \in Directory
  BY ElementOfSeq
<1> QED
  BY <1>1, <1>2, <1>3, <1>4 DEF Dir

(* What is asked for is determined once, and what is not asked for is not.    *)
LEMMA DeterminedOnce ==
  ASSUME NEW e \in Experiment, \A m \in Dirs(e) : Regular(Dir(e, m)), NEW c \in CommandLine,
         NEW n \in Dirs(e), NEW f \in File, f \in Range(Dir(e, n).cor), Len(f.code) = 2,
         Once(Dir(e, n).cor, f), \A h \in Range(Dir(e, n).cor) : h.code = f.code => h = f,
         NEW x \in PassRecord, x.dir = n, x.baseline = f.code, x.group \in Range(f.groups),
         x.pol # "??"
  PROVE  /\ determine_passes(e, c) \in Seq(PassRecord)
         /\ (/\ Dir(e, n).root /\ (e.top.root => n = 0)
             /\ AskedOf(c, f, x.group, x.pol))
              => Once(determine_passes(e, c), x)
         /\ ~(/\ Dir(e, n).root /\ (e.top.root => n = 0)
              /\ AskedOf(c, f, x.group, x.pol))
              => Never(determine_passes(e, c), x)
<1>1. PICK scans \in Seq(Dirs(e)) : scans = Scans(e)
  BY ScansOnce
<1> DEFINE parts == [k \in 1..Len(scans) |-> PassesOfScan(scans[k], Dir(e, scans[k]), c)]
           wanted == /\ Dir(e, n).root /\ (e.top.root => n = 0)
                     /\ AskedOf(c, f, x.group, x.pol)
<1>2. determine_passes(e, c) = FlattenSeq(parts)
  BY <1>1 DEF determine_passes
<1>3. \A m \in Dirs(e) : m \in Int /\ Dir(e, m) \in Directory
  BY DirsTyped
<1>4. \A k \in 1..Len(scans) : scans[k] \in Dirs(e)
  BY ElementOfSeq
<1>5. Len(parts) = Len(scans) /\ Len(scans) \in Nat /\ (Len(parts) = 0 => parts = <<>>)
  OBVIOUS
<1>6. \A k \in 1..Len(scans) : parts[k] = PassesOfScan(scans[k], Dir(e, scans[k]), c)
  OBVIOUS
<1> HIDE DEF parts
<1>7. \A k \in 1..Len(scans) : /\ parts[k] \in Seq(PassRecord)
                               /\ scans[k] # n => Never(parts[k], x)
  <2> SUFFICES ASSUME NEW k \in 1..Len(scans)
               PROVE  /\ parts[k] \in Seq(PassRecord)
                      /\ scans[k] # n => Never(parts[k], x)
    OBVIOUS
  <2>1. PICK m \in Int, dir \in Directory : m = scans[k] /\ dir = Dir(e, m) /\ Regular(dir)
    BY <1>3, <1>4
  <2>2. /\ PassesOfScan(m, dir, c) \in Seq(PassRecord)
        /\ x.dir # m => Never(PassesOfScan(m, dir, c), x)
    BY <2>1, ScanPasses
  <2> QED
    BY <1>6, <2>1, <2>2
<1>8. /\ FlattenSeq(parts) \in Seq(PassRecord)
      /\ (\A i \in 1..Len(parts) : Never(parts[i], x)) => Never(FlattenSeq(parts), x)
      /\ \A k \in 1..Len(parts) :
           Once(parts[k], x) /\ (\A i \in 1..Len(parts) : i # k => Never(parts[i], x))
             => Once(FlattenSeq(parts), x)
  BY <1>5, <1>7, FlattenOnce
<1>9. /\ AskedOf(c, f, x.group, x.pol) => Once(PassesOfScan(n, Dir(e, n), c), x)
      /\ ~AskedOf(c, f, x.group, x.pol) => Never(PassesOfScan(n, Dir(e, n), c), x)
  BY <1>3, ScanPasses
<1>10. /\ Dir(e, n).root /\ (e.top.root => n = 0) => Once(scans, n)
       /\ ~(Dir(e, n).root /\ (e.top.root => n = 0)) => Never(scans, n)
  BY <1>1, ScansOnce
<1>11. CASE wanted
  <2>1. PICK k \in 1..Len(scans) :
          scans[k] = n /\ \A j \in 1..Len(scans) : scans[j] = n => j = k
    BY <1>10, <1>11 DEF Once
  <2>2. Once(parts[k], x)
    BY <1>6, <1>9, <1>11, <2>1
  <2>3. \A i \in 1..Len(scans) : i # k => Never(parts[i], x)
    BY <1>7, <2>1
  <2> QED
    BY <1>2, <1>5, <1>8, <1>11, <2>2, <2>3
<1>12. CASE ~wanted
  <2>1. \A k \in 1..Len(scans) : Never(parts[k], x)
    <3> SUFFICES ASSUME NEW k \in 1..Len(scans), scans[k] = n PROVE Never(parts[k], x)
      BY <1>7
    <3>1. Dir(e, n).root /\ (e.top.root => n = 0)
      BY <1>10 DEF Never
    <3> QED
      BY <1>6, <1>9, <1>12, <3>1
  <2> QED
    BY <1>2, <1>5, <1>8, <1>12, <2>1
<1> QED
  BY <1>11, <1>12

\* a set of indexes has a greatest one
LEMMA GreatestExists ==
  ASSUME NEW n \in Nat, NEW I \in SUBSET (1..n), I # {}
  PROVE  \E x \in I : \A y \in I : x >= y
<1> DEFINE S == {m \in Nat : \A J \in SUBSET (1..m) : J # {} => \E x \in J : \A y \in J : x >= y}
<1>1. 0 \in S
  <2>1. 1..0 = {}
    OBVIOUS
  <2>2. \A J \in SUBSET (1..0) : J = {}
    BY <2>1
  <2> QED
    BY <2>2
<1>2. ASSUME NEW m \in Nat, m \in S PROVE m + 1 \in S
  <2> SUFFICES ASSUME NEW J \in SUBSET (1..(m + 1)), J # {}
               PROVE  \E x \in J : \A y \in J : x >= y
    OBVIOUS
  <2>1. CASE m + 1 \in J
    <3>1. \A y \in J : m + 1 >= y
      OBVIOUS
    <3> QED
      BY <2>1, <3>1
  <2>2. CASE m + 1 \notin J
    <3>1. J \in SUBSET (1..m)
      <4>1. \A y \in J : y \in 1..m
        BY <2>2
      <4> QED
        BY <4>1
    <3> QED
      BY <1>2, <3>1
  <2> QED
    BY <2>1, <2>2
<1> HIDE DEF S
<1>3. n \in S
  BY <1>1, <1>2, SetInduction
<1> QED
  BY <1>3 DEF S

\* where there is one file for a baseline, the map of the store has it
LEMMA MappedIs ==
  ASSUME NEW dir \in Directory, NEW k \in DOMAIN dir.cor, Len(dir.cor[k].code) = 2,
         \A j \in DOMAIN dir.cor : dir.cor[j].code = dir.cor[k].code => j = k, NEW b
  PROVE  Mapped(dir, b) = k <=> b = dir.cor[k].code
<1>1. PICK cor \in Seq(File) : cor = dir.cor
  BY DEF Directory
<1>2. DOMAIN cor = 1..Len(cor) /\ Len(cor) \in Nat
  OBVIOUS
<1> DEFINE I == {i \in 1..Len(cor) : Len(cor[i].code) = 2 /\ cor[i].code = b}
<1>3. Mapped(dir, b) = IF I # {} THEN Max(I) ELSE 0
  BY <1>1 DEF Mapped, SelectLastInSeq
<1>4. I \in SUBSET (1..Len(cor))
  OBVIOUS
<1>5. \A i : i \in I <=> i \in 1..Len(cor) /\ Len(cor[i].code) = 2 /\ cor[i].code = b
  OBVIOUS
<1> HIDE DEF I
<1>6. I # {} => Max(I) \in I
  <2> SUFFICES ASSUME I # {} PROVE Max(I) \in I
    OBVIOUS
  <2>1. \E x \in I : \A y \in I : x >= y
    BY <1>2, <1>4, GreatestExists
  <2> QED
    BY <2>1, Zenon DEF Max
<1>7. k \in 1..Len(cor) /\ k # 0
  BY <1>1, <1>2
<1>8. CASE b = dir.cor[k].code
  <2>1. k \in I /\ \A i \in I : i = k
    BY <1>1, <1>2, <1>5, <1>7, <1>8
  <2> QED
    BY <1>3, <1>6, <1>8, <2>1
<1>9. CASE b # dir.cor[k].code
  <2>1. k \notin I
    BY <1>1, <1>5, <1>9
  <2> QED
    BY <1>3, <1>6, <1>7, <1>9, <2>1
<1> QED
  BY <1>8, <1>9

-----------------------------------------------------------------------------
(* The theorems *)

LEMMA InvInit == Init => IInv
<1> SUFFICES ASSUME Init
             PROVE  IInv
  OBVIOUS
<1> USE FringePassAssumption DEF Init, Rank
<1>1. TypeOK
  <2>1. at \in [Rank -> Step]
    BY DEF Step
  <2>2. Len(passes) \in 0..MaxPasses
    OBVIOUS
  <2>3. takenBy \in [Pass -> SUBSET Rank]
    OBVIOUS
  <2>4. /\ calibrated \in [Rank -> 0..2] /\ again \in [Rank -> 0..MaxAgain]
        /\ pass \in [Rank -> Nat]
    OBVIOUS
  <2> QED
    BY <2>1, <2>2, <2>3, <2>4 DEF TypeOK, Kind
<1>2. PassStates
  BY DEF PassStates, PassState, Early
<1>3. \A r \in Rank : r = r + 0 * Processes
  OBVIOUS
<1>4. \A r \in Rank : r \in Dealt(r)
  BY <1>3 DEF Dealt
<1>5. ASSUME NEW i \in Pass, NEW r \in Rank, i \in Dealt(r)
      PROVE  i >= r
  <2>1. PICK k \in Nat : i = r + k * Processes
    BY <1>5 DEF Dealt
  <2>2. k * Processes >= 0
    OBVIOUS
  <2> QED
    BY <2>1, <2>2 DEF Pass
<1>6. Dealing
  BY <1>4, <1>5 DEF Dealing, Known, Passless, Pass
<1> QED
  BY <1>1, <1>2, <1>6 DEF IInv

(* The invariant is inductive.                                                *)
THEOREM Invariance == Spec => []IInv
<1>1. IInv /\ [Next]_vars => IInv'
  BY Typing, PassStateStep, DealingStep DEF IInv
<1> QED
  BY InvInit, <1>1, PTL DEF Spec

(* The status, the fitter and the counters of a pass stay what they are; the  *)
(* refits counted stay within the bound.                                      *)
THEOREM Typed == Spec => []TypeOK
<1>1. IInv => TypeOK
  BY DEF IInv
<1> QED
  BY <1>1, Invariance, PTL

(* For any number of passes and of processes, more processes than passes      *)
(* included: no pass is fitted twice, and none is left out.                   *)
THEOREM DealtOut == Spec => []EachPassOnce
<1>1. ASSUME IInv
      PROVE  EachPassOnce
  <2> USE <1>1 DEF IInv
  <2>1. ASSUME NEW i \in Pass
        PROVE  Cardinality(takenBy[i]) <= 1
    <3>1. takenBy[i] \subseteq Rank
      BY <2>1 DEF TypeOK
    <3>2. CASE takenBy[i] = {}
      BY <3>2, FS_EmptySet
    <3>3. ASSUME NEW r \in takenBy[i]
          PROVE  takenBy[i] = {r}
      BY <3>1, DealtOnce DEF Dealing
    <3>4. ASSUME NEW r \in takenBy[i]
          PROVE  Cardinality(takenBy[i]) = 1
      BY <3>3, FS_Singleton
    <3> QED
      BY <3>2, <3>4
  <2>2. ASSUME AllThrough, NEW i \in Pass, i < Len(passes)
        PROVE  takenBy[i] # {}
    <3>1. i \in Nat
      BY FringePassAssumption DEF Pass
    <3>2. PICK r \in Rank : i \in Dealt(r)
      BY <3>1, DealtToSome
    <3>3. pass[r] >= Len(passes) /\ pass[r] \in Nat
      BY <2>2 DEF AllThrough, Dealing, TypeOK
    <3>4. i < pass[r]
      BY <2>2, <3>1, <3>3, FringePassAssumption DEF TypeOK
    <3> QED
      BY <3>2, <3>4 DEF Dealing
  <2> QED
    BY <2>1, <2>2 DEF EachPassOnce, Dealing
<1> QED
  BY <1>1, Invariance, PTL

(* What reaches the output visitors was solved and not skipped, whatever      *)
(* the three fitters write into the status entries.                           *)
THEOREM SolvedOutput == Spec => []OutputIsSolved
<1>1. IInv => OutputIsSolved
  BY DEF IInv, PassStates, PassState, OutputIsSolved
<1> QED
  BY <1>1, Invariance, PTL

(* The data searched were calibrated once, for any number of refits.          *)
THEOREM Calibrated == Spec => []CalibratedOnce
<1>1. IInv => CalibratedOnce
  BY DEF IInv, PassStates, PassState, CalibratedOnce
<1> QED
  BY <1>1, Invariance, PTL

(* Every selection of the command line is given to a process once, for any    *)
(* experiment, any command line and any number of processes; nothing that it  *)
(* does not select is given to one.                                           *)
THEOREM SelectedOnce == Spec => []EachSelectionOnce
<1>1. ASSUME IInv, EachPassOnce
      PROVE  EachSelectionOnce
<2> SUFFICES ASSUME AllThrough,
                    NEW n \in Dirs(experiment),
                    NEW k \in DOMAIN Dir(experiment, n).cor,
                    Len(Dir(experiment, n).cor[k].code) = 2,
                    \A j \in DOMAIN Dir(experiment, n).cor :
                      Dir(experiment, n).cor[j].code = Dir(experiment, n).cor[k].code => j = k,
                    NEW g \in Range(Dir(experiment, n).cor[k].groups),
                    NEW p \in (Range(Dir(experiment, n).cor[k].pols) \cup {cmdline.pol})
                                \ {"??"}
             PROVE  Cardinality({i \in Pass :
                            /\ takenBy[i] # {}
                            /\ passes[i + 1].dir = n
                            /\ passes[i + 1].group = g /\ passes[i + 1].pol = p
                            /\ Mapped(Dir(experiment, n), passes[i + 1].baseline) = k})
                      = IF Wanted(n, Dir(experiment, n).cor[k], g, p) THEN 1 ELSE 0
  BY Zenon DEF EachSelectionOnce
<2>1. input \in DOMAIN Inputs
  BY <1>1 DEF IInv, TypeOK
<2>2. /\ experiment \in Experiment /\ cmdline \in CommandLine
      /\ \A m \in Dirs(experiment) : Regular(Dir(experiment, m))
  BY <2>1, InputAssumption DEF experiment, cmdline, Regular
<2>3. PICK e \in Experiment, c \in CommandLine :
        /\ e = experiment /\ c = cmdline
        /\ \A m \in Dirs(e) : Regular(Dir(e, m))
  BY <2>2
<2>4. passes = determine_passes(e, c)
  <3>1. 0 \in Rank
    BY FringePassAssumption DEF Rank
  <3>2. sent
    BY <1>1, <3>1 DEF IInv, Dealing, Known, AllThrough
  <3>3. passes = Determined[input]
    BY <1>1, <3>2 DEF IInv, Dealing, Known
  <3> QED
    BY <2>1, <2>3, <3>3 DEF Determined, experiment, cmdline
<2>5. PICK dir \in Directory : dir = Dir(e, n)
  BY <2>3, DirsTyped
<2>6. PICK cor \in Seq(File) : cor = dir.cor
  BY DEF Directory
<2>7. DOMAIN cor = 1..Len(cor) /\ k \in 1..Len(cor)
  BY <2>3, <2>5, <2>6
<2>8. PICK f \in File : f = cor[k]
  BY <2>7, ElementOfSeq
<2>9. /\ f \in Range(dir.cor) /\ Len(f.code) = 2
      /\ Once(dir.cor, f)
      /\ \A h \in Range(dir.cor) : h.code = f.code => h = f
  BY <2>3, <2>5, <2>6, <2>7, <2>8 DEF Range, Once
<2> DEFINE x == [dir |-> n, baseline |-> f.code, group |-> g, pol |-> p]
<2>10. /\ x \in PassRecord /\ x.dir = n /\ x.baseline = f.code
       /\ x.group = g /\ x.pol = p
  <3>1. n \in Int
    BY <2>3, DirsTyped
  <3>2. /\ f.code \in Seq(STRING) /\ f.groups \in Seq(STRING) /\ f.pols \in Seq(STRING)
        /\ c.pol \in STRING
    BY DEF File, CommandLine
  <3>3. \A s \in Seq(STRING) : Range(s) \subseteq STRING
    BY DEF Range
  <3>4. g \in STRING /\ p \in STRING
    BY <2>3, <2>5, <2>6, <2>8, <3>2, <3>3
  <3> QED
    BY <3>1, <3>2, <3>4 DEF PassRecord
<2>11. g \in Range(f.groups) /\ p # "??"
  BY <2>3, <2>5, <2>6, <2>8
<2> HIDE DEF x
<2>12. /\ passes \in Seq(PassRecord)
       /\ (/\ Dir(e, n).root /\ (e.top.root => n = 0)
           /\ AskedOf(c, f, g, p)) => Once(passes, x)
       /\ ~(/\ Dir(e, n).root /\ (e.top.root => n = 0)
            /\ AskedOf(c, f, g, p)) => Never(passes, x)
  <3>1. /\ determine_passes(e, c) \in Seq(PassRecord)
        /\ (/\ Dir(e, n).root /\ (e.top.root => n = 0)
            /\ AskedOf(c, f, x.group, x.pol))
             => Once(determine_passes(e, c), x)
        /\ ~(/\ Dir(e, n).root /\ (e.top.root => n = 0)
             /\ AskedOf(c, f, x.group, x.pol))
             => Never(determine_passes(e, c), x)
    <4>1. n \in Dirs(e) /\ f \in Range(Dir(e, n).cor) /\ Once(Dir(e, n).cor, f)
          /\ \A h \in Range(Dir(e, n).cor) : h.code = f.code => h = f
      BY <2>3, <2>5, <2>9
    <4>2. x.group \in Range(f.groups) /\ x.pol # "??"
      BY <2>10, <2>11
    <4> QED
      BY <2>3, <2>9, <2>10, <4>1, <4>2, DeterminedOnce
  <3> QED
    BY <2>4, <2>10, <3>1
<2>13. Wanted(n, f, g, p) <=> /\ Dir(e, n).root /\ (e.top.root => n = 0)
                              /\ AskedOf(c, f, g, p)
  BY <2>3 DEF Wanted, AskedFor, Asked, AskedOf
<2> DEFINE S == {i \in Pass :
                   /\ takenBy[i] # {}
                   /\ passes[i + 1].dir = n
                   /\ passes[i + 1].group = g /\ passes[i + 1].pol = p
                   /\ Mapped(dir, passes[i + 1].baseline) = k}
<2>14. Len(passes) \in 0..MaxPasses /\ MaxPasses \in Nat
  BY <1>1, FringePassAssumption DEF IInv, TypeOK
<2>15. \A i \in Pass : i \in S <=> i + 1 \in 1..Len(passes) /\ passes[i + 1] = x
  <3> SUFFICES ASSUME NEW i \in Pass
               PROVE  i \in S <=> i + 1 \in 1..Len(passes) /\ passes[i + 1] = x
    OBVIOUS
  <3>1. takenBy[i] # {} <=> i + 1 \in 1..Len(passes)
    <4>1. takenBy[i] # {} <=> i < Len(passes)
      BY <1>1 DEF EachPassOnce
    <4> QED
      BY <2>14, <4>1 DEF Pass
  <3>2. ASSUME i + 1 \in 1..Len(passes)
        PROVE  /\ passes[i + 1].dir = n
               /\ passes[i + 1].group = g /\ passes[i + 1].pol = p
               /\ Mapped(dir, passes[i + 1].baseline) = k
               <=> passes[i + 1] = x
    <4>1. PICK y \in PassRecord : y = passes[i + 1]
      BY <2>12, <3>2, ElementOfSeq
    <4>2. Mapped(dir, y.baseline) = k <=> y.baseline = f.code
      BY <2>3, <2>5, <2>6, <2>8, MappedIs
    <4>3. y = x <=> /\ y.dir = n /\ y.baseline = f.code
                    /\ y.group = g /\ y.pol = p
      <5>1. y = [dir |-> y.dir, baseline |-> y.baseline, group |-> y.group, pol |-> y.pol]
        BY DEF PassRecord
      <5> QED
        BY <5>1 DEF x
    <4> QED
      BY <4>1, <4>2, <4>3
  <3> QED
    BY <3>1, <3>2
<2>16. S \subseteq Pass
  OBVIOUS
<2> HIDE DEF S
<2>17. ASSUME Once(passes, x) PROVE Cardinality(S) = 1
  <3>1. PICK j \in 1..Len(passes) :
          passes[j] = x /\ \A i \in 1..Len(passes) : passes[i] = x => i = j
    BY <2>17 DEF Once
  <3>2. j - 1 \in Pass /\ (j - 1) + 1 = j
    BY <2>14 DEF Pass
  <3>3. j - 1 \in S
    BY <2>15, <3>1, <3>2
  <3>4. \A i \in S : i = j - 1
    <4> SUFFICES ASSUME NEW i \in S PROVE i = j - 1
      OBVIOUS
    <4>1. i \in Pass /\ i + 1 \in 1..Len(passes) /\ passes[i + 1] = x
      BY <2>15, <2>16
    <4>2. i + 1 = j
      BY <3>1, <4>1
    <4> QED
      BY <2>14, <4>1, <4>2 DEF Pass
  <3>5. S = {j - 1}
    BY <3>3, <3>4
  <3> QED
    BY <3>5, FS_Singleton
<2>18. ASSUME Never(passes, x) PROVE Cardinality(S) = 0
  <3>1. S = {}
    BY <2>15, <2>16, <2>18 DEF Never
  <3> QED
    BY <3>1, FS_EmptySet
<2>19. Cardinality(S) = IF Wanted(n, f, g, p) THEN 1 ELSE 0
  BY <2>12, <2>13, <2>17, <2>18
<2> QED
  BY <2>3, <2>5, <2>6, <2>8, <2>19 DEF S
<1> QED
BY <1>1, Invariance, DealtOut, PTL
-----------------------------------------------------------------------------
(* Every process gets on.  Of JobEnds this is what the program itself must    *)
(* bring: that no fit, refit or skipped pass takes a process back to where it *)
(* was, except the pass that is lost (SkippedPassReturns).                    *)

\* with respect to the other processes
Phase(r) ==
  CASE at[r] = "discover" -> 4
    [] at[r] = "broadcast" -> 3
    [] at[r] \notin {"discover", "broadcast", "barrier", "done", "exited"} -> 2
    [] at[r] = "barrier" -> 1
    [] at[r] \in {"done", "exited"} -> 0

PassesLeft(r) == IF pass[r] < MaxPasses THEN MaxPasses - pass[r] ELSE 0
RefitsLeft(r) == MaxAgain - again[r]

\* within a pass, and within a fit of it
Place(r) ==
  CASE at[r] = "next" -> 12
    [] at[r] = "init" -> 11
    [] at[r] = "configure" -> 10
    [] at[r] = "fitter" -> 9
    [] at[r] = "test" -> IF finished[r] THEN 3 ELSE 8
    [] at[r] = "initialize" -> 7
    [] at[r] = "prerun" -> 6
    [] at[r] = "run" -> 5
    [] at[r] = "postrun" -> 4
    [] at[r] = "finalize" -> 2
    [] at[r] = "output" -> 1
    [] at[r] \in {"discover", "broadcast", "barrier", "done", "exited"} -> 0

\* what process r has before it, the weightiest first
Way(r) == <<Phase(r), PassesLeft(r), RefitsLeft(r), Place(r)>>
Ways == [1..4 -> Nat]

Shorter == LexProductOrdering(OpToRel(<, Nat), Nat, 4)

\* a step is one of some process, or of all at the barrier
WayShortens ==
  [][/\ \A r \in Rank : \/ Way(r)' = Way(r)
                        \/ <<Way(r)', Way(r)>> \in Shorter
                        \/ at[r] = "postrun" /\ Lost(r)
     /\ \E r \in Rank : Way(r)' # Way(r)]_vars

(* A pass that is skipped and not finished is lost, and no other is.          *)
LostOnly == \A r \in Rank : at[r] \in Loop /\ skipped[r] /\ ~finished[r] => Lost(r)

\* There is no infinite sequence of ways each shorter than the one before.
LEMMA NoEndlessWay == IsWellFoundedOn(Shorter, Ways)
BY NatLessThanWellFounded, WFLexProductOrdering DEF Shorter, Ways

LEMMA ShorterFirst ==
  ASSUME NEW a \in Ways, NEW b \in Ways, NEW k \in 1..4,
         a[k] < b[k], \A j \in 1..(k - 1) : a[j] = b[j]
  PROVE  <<a, b>> \in Shorter
<1>1. <<a[k], b[k]>> \in OpToRel(<, Nat)
  BY DEF OpToRel, Ways
<1> QED
  BY <1>1 DEF Shorter, LexProductOrdering, Ways

LEMMA LostOnlyStep == ASSUME TypeOK, PassStates, LostOnly, [Next]_vars PROVE LostOnly'
<1> SUFFICES ASSUME NEW q \in Rank
             PROVE  (at[q] \in Loop /\ skipped[q] /\ ~finished[q] => Lost(q))'
  BY DEF LostOnly
<1> DEFINE P == (at[q] \in Loop /\ skipped[q] /\ ~finished[q] => Lost(q))'
<1>0. /\ at[q] \in Loop /\ skipped[q] /\ ~finished[q] => Lost(q)
      /\ at[q] \in Early => calibrated[q] = 0 /\ ~skipped[q]
  BY DEF LostOnly, PassStates, PassState
<1> USE <1>0 DEF Goto, Status, status, fitter, TypeOK, Early, Loop, Lost
<1>1. ASSUME NEW r \in Rank, Continue(r) PROVE P
  BY <1>1 DEF Continue, DestroyPass
<1>2. ASSUME NEW r \in Rank,
             InitializeFails(r) \/ ConfigureSkips(r) \/ Finalize(r) \/ Output(r)
      PROVE  P
  <2>1. CASE Finalize(r) /\ ~skipped[r]
    BY <2>1 DEF Finalize
  <2> QED
    BY <1>1, <1>2, <2>1 DEF InitializeFails, ConfigureSkips, Finalize, Output
<1>3. ASSUME NEW r \in Rank, TakePass(r) PROVE P
  BY <1>3 DEF TakePass
<1>4. ASSUME NEW r \in Rank, NoMorePasses(r) PROVE P
  BY <1>4 DEF NoMorePasses
<1>5. ASSUME NEW r \in Rank, Initialize(r) PROVE P
  BY <1>5 DEF Initialize
<1>6. ASSUME NEW r \in Rank, Configure(r) PROVE P
  BY <1>6 DEF Configure
<1>7. ASSUME NEW r \in Rank, NoData(r) PROVE P
  BY <1>7 DEF NoData
<1>8. ASSUME NEW r \in Rank, EmptyData(r) PROVE P
  BY <1>8 DEF EmptyData
<1>9. ASSUME NEW r \in Rank, FitterConfigure(r) PROVE P
  BY <1>9 DEF FitterConfigure
<1>10. ASSUME NEW r \in Rank, IsFinished(r) PROVE P
  BY <1>10 DEF IsFinished
<1>11. ASSUME NEW r \in Rank, FitterInitialize(r) PROVE P
  BY <1>11 DEF FitterInitialize
<1>12. ASSUME NEW r \in Rank, PreRun(r) PROVE P
  BY <1>12 DEF PreRun
<1>13. ASSUME NEW r \in Rank, PreRunSkips(r) PROVE P
  BY <1>13 DEF PreRunSkips
<1>14. ASSUME NEW r \in Rank, RunsNothing(r) PROVE P
  BY <1>14 DEF RunsNothing
<1>15. ASSUME NEW r \in Rank, RunSolves(r) PROVE P
  BY <1>15 DEF RunSolves
<1>16. ASSUME NEW r \in Rank, NoPeak(r) PROVE P
  BY <1>16 DEF NoPeak
<1>17. ASSUME NEW r \in Rank, IonSearchFails(r) PROVE P
  BY <1>17 DEF IonSearchFails
<1>18. ASSUME NEW r \in Rank, InterpolationFails(r) PROVE P
  BY <1>18 DEF InterpolationFails
<1>19. ASSUME NEW r \in Rank, PostRun(r) PROVE P
  BY <1>19 DEF PostRun
<1>20. ASSUME NEW r \in Rank, PostRunAgain(r) PROVE P
  BY <1>20 DEF PostRunAgain
<1>21. ASSUME NEW r \in Rank, Exit(r) PROVE P
  BY <1>21 DEF Exit
<1>22. ASSUME NEW r \in Rank, BroadcastString(r) PROVE P
  BY <1>22 DEF BroadcastString
<1>23. CASE GlobalBarrier \/ Discover \/ DiscoveryExits
  BY <1>23 DEF GlobalBarrier, Discover, DiscoveryExits
<1>24. CASE UNCHANGED vars
  BY <1>24 DEF vars
<1> QED
  BY <1>2, <1>3, <1>4, <1>5, <1>6, <1>7, <1>8, <1>9, <1>10, <1>11, <1>12, <1>13, <1>14, <1>15, <1>16, <1>17, <1>18, <1>19, <1>20, <1>21, <1>22, <1>23, <1>24
     DEF Next, Drive, Ended

WayNumbers(r) ==
  /\ Phase(r) \in Nat /\ PassesLeft(r) \in Nat /\ RefitsLeft(r) \in Nat /\ Place(r) \in Nat
  /\ Way(r) \in Ways

LEMMA WayTyped == TypeOK => \A r \in Rank : WayNumbers(r)
<1> SUFFICES ASSUME TypeOK, NEW r \in Rank PROVE WayNumbers(r)
  OBVIOUS
<1>1. /\ at[r] \in Step /\ pass[r] \in Nat /\ again[r] \in 0..MaxAgain
      /\ MaxPasses \in Nat /\ MaxAgain \in Nat
  BY FringePassAssumption DEF TypeOK
<1>2. Phase(r) \in Nat
  BY <1>1 DEF Phase
<1>3. PassesLeft(r) \in Nat /\ RefitsLeft(r) \in Nat
  BY <1>1 DEF PassesLeft, RefitsLeft
<1>4. Place(r) \in Nat
  BY <1>1 DEF Place, Step, Loop
<1>5. Way(r) \in Ways
  BY <1>2, <1>3, <1>4 DEF Way, Ways
<1> QED
  BY <1>2, <1>3, <1>4, <1>5 DEF WayNumbers

LEMMA WayTypedNext == TypeOK' => \A r \in Rank : WayNumbers(r)'
<1>1. (TypeOK => \A r \in Rank : WayNumbers(r))'
  BY WayTyped, PTL
<1> QED
  BY <1>1

LEMMA WayCompared ==
  ASSUME NEW r \in Rank, WayNumbers(r), WayNumbers(r)',
         \/ Phase(r)' < Phase(r)
         \/ /\ Phase(r)' = Phase(r)
            /\ \/ PassesLeft(r)' < PassesLeft(r)
               \/ /\ PassesLeft(r)' = PassesLeft(r)
                  /\ \/ RefitsLeft(r)' < RefitsLeft(r)
                     \/ RefitsLeft(r)' = RefitsLeft(r) /\ Place(r)' < Place(r)
  PROVE  <<Way(r)', Way(r)>> \in Shorter /\ Way(r)' # Way(r)
<1> DEFINE a == Way(r)'
           b == Way(r)
<1>1. a \in Ways /\ b \in Ways
  BY DEF WayNumbers
<1>2. /\ a[1] = Phase(r)' /\ a[2] = PassesLeft(r)' /\ a[3] = RefitsLeft(r)' /\ a[4] = Place(r)'
      /\ b[1] = Phase(r) /\ b[2] = PassesLeft(r) /\ b[3] = RefitsLeft(r) /\ b[4] = Place(r)
  BY DEF Way
<1> HIDE DEF a, b
<1>3. \/ a[1] < b[1]
      \/ a[1] = b[1] /\ a[2] < b[2]
      \/ a[1] = b[1] /\ a[2] = b[2] /\ a[3] < b[3]
      \/ a[1] = b[1] /\ a[2] = b[2] /\ a[3] = b[3] /\ a[4] < b[4]
  BY <1>2, Zenon
<1>4. \E k \in 1..4 : a[k] < b[k] /\ \A j \in 1..(k - 1) : a[j] = b[j]
  BY <1>3
<1>5. \A k \in 1..4 : b[k] \in Nat
  BY <1>1 DEF Ways
<1>6. a # b
  BY <1>4, <1>5
<1> QED
  BY <1>1, <1>4, <1>6, ShorterFirst DEF a, b
(* What a process does is its own affair.                                     *)
LEMMA WayOfOthers ==
  ASSUME TypeOK, NEW r \in Rank, Drive(r) \/ Exit(r), NEW q \in Rank, q # r
  PROVE  Way(q)' = Way(q)
<1>1. UNCHANGED <<at[q], pass[q], again[q], finished[q]>>
  <2> USE DEF TypeOK, Goto, Status, status, fitter
  <2>1. CASE Continue(r)
    BY <2>1 DEF Continue, DestroyPass
  <2>2. CASE \/ InitializeFails(r) \/ ConfigureSkips(r) \/ Output(r)
             \/ Finalize(r) /\ skipped[r]
    BY <2>1, <2>2 DEF InitializeFails, ConfigureSkips, Output, Finalize
  <2>3. CASE Finalize(r) /\ ~skipped[r]
    BY <2>3 DEF Finalize
  <2>4. CASE \/ Initialize(r) \/ Configure(r)
             \/ NoData(r) \/ EmptyData(r) \/ FitterConfigure(r)
    BY <2>4 DEF Initialize, Configure, NoData, EmptyData, FitterConfigure
  <2>5. CASE \/ IsFinished(r) \/ FitterInitialize(r) \/ PreRun(r) \/ PreRunSkips(r)
    BY <2>5 DEF IsFinished, FitterInitialize, PreRun, PreRunSkips
  <2>6. CASE \/ RunsNothing(r) \/ RunSolves(r)
             \/ NoPeak(r) \/ IonSearchFails(r) \/ InterpolationFails(r)
    BY <2>6 DEF RunsNothing, RunSolves, NoPeak, IonSearchFails, InterpolationFails
  <2>7. CASE PostRun(r) \/ PostRunAgain(r)
    BY <2>7 DEF PostRun, PostRunAgain
  <2>8. CASE TakePass(r) \/ NoMorePasses(r) \/ BroadcastString(r) \/ Exit(r)
    BY <2>8 DEF TakePass, NoMorePasses, BroadcastString, Exit
  <2>9. CASE r = 0 /\ Discover
    BY <2>9 DEF Discover
  <2> QED
    BY <2>2, <2>3, <2>4, <2>5, <2>6, <2>7, <2>8, <2>9 DEF Drive
<1> QED
  BY <1>1 DEF Way, Phase, PassesLeft, RefitsLeft, Place

(* On to the next pass: there is one less.                                    *)
LEMMA ContinueShortens ==
  ASSUME TypeOK, NEW r \in Rank, Continue(r), at[r] \notin Passless, pass[r] \in Pass
  PROVE  Phase(r)' = Phase(r) /\ PassesLeft(r)' < PassesLeft(r)
<1>1. /\ at[r] \in Step /\ at'[r] = "next" /\ pass'[r] = pass[r] + Processes
      /\ Processes \in Nat \ {0} /\ MaxPasses \in Nat /\ pass[r] \in 0..(MaxPasses - 1)
  BY FringePassAssumption DEF Continue, Goto, TypeOK, Pass
<1>2. Phase(r) = 2 /\ Phase(r)' = 2
  BY <1>1 DEF Phase, Passless
<1> DEFINE p == pass[r]
           n == p + Processes
<1>3. PassesLeft(r) = MaxPasses - p
  BY <1>1 DEF PassesLeft
<1>4. PassesLeft(r)' = IF n < MaxPasses THEN MaxPasses - n ELSE 0
  BY <1>1 DEF PassesLeft
<1>5. p \in Nat /\ p < MaxPasses /\ n \in Nat /\ p < n
  BY <1>1
<1> HIDE DEF n, p
<1>6. (IF n < MaxPasses THEN MaxPasses - n ELSE 0) < MaxPasses - p
  BY <1>1, <1>5
<1> QED
  BY <1>2, <1>3, <1>4, <1>6

\* the ways to leave a pass
Leaves(r) ==
  InitializeFails(r) \/ ConfigureSkips(r) \/ Output(r) \/ (Finalize(r) /\ skipped[r])

(* A step within a pass leads on, to a refit the control file asks for, or    *)
(* round again with a pass that is lost.                                      *)
LEMMA FitShortens ==
  ASSUME TypeOK, PassStates, LostOnly, NEW r \in Rank, Drive(r),
         at[r] \notin {"discover", "broadcast"}, ~Leaves(r), ~NoMorePasses(r)
  PROVE  \/ at[r] = "postrun" /\ Lost(r) /\ Place(r)' # Place(r)
         \/ /\ Phase(r)' = Phase(r) /\ PassesLeft(r)' = PassesLeft(r)
            /\ \/ RefitsLeft(r)' < RefitsLeft(r)
               \/ RefitsLeft(r)' = RefitsLeft(r) /\ Place(r)' < Place(r)
<1> USE DEF Goto, Status, status, fitter, TypeOK
<1>1. PassState(r)
  BY DEF PassStates
<1>2. ASSUME at[r] \notin Passless \/ at[r] = "next", at'[r] \notin Passless,
             UNCHANGED <<pass[r], again[r]>>
      PROVE  /\ Phase(r)' = Phase(r) /\ PassesLeft(r)' = PassesLeft(r)
             /\ RefitsLeft(r)' = RefitsLeft(r)
  BY <1>2 DEF Phase, PassesLeft, RefitsLeft, Passless
<1> DEFINE Same == UNCHANGED <<pass[r], again[r]>>
           Ahead == Place(r)' < Place(r)
<1>3. CASE TakePass(r)
  <2>1. at[r] = "next" /\ at'[r] = "init" /\ Same
    BY <1>3 DEF TakePass
  <2>2. Ahead
    BY <2>1 DEF Place
  <2> QED
    BY <1>2, <2>1, <2>2 DEF Passless
<1>4. CASE Initialize(r)
  <2>1. at[r] = "init" /\ at'[r] = "configure" /\ Same
    BY <1>4 DEF Initialize
  <2>2. Ahead
    BY <2>1 DEF Place
  <2> QED
    BY <1>2, <2>1, <2>2 DEF Passless
<1>5. CASE Configure(r)
  <2>1. at[r] = "configure" /\ at'[r] = "fitter" /\ Same
    BY <1>5 DEF Configure
  <2>2. Ahead
    BY <2>1 DEF Place
  <2> QED
    BY <1>2, <2>1, <2>2 DEF Passless
<1>6. CASE NoData(r) \/ EmptyData(r) \/ FitterConfigure(r)
  <2>1. at[r] = "fitter" /\ at'[r] = "test" /\ Same
    BY <1>6 DEF NoData, EmptyData, FitterConfigure
  <2>2. Ahead
    BY <2>1 DEF Place
  <2> QED
    BY <1>2, <2>1, <2>2 DEF Passless
<1>7. CASE IsFinished(r)
  <2>1. /\ at[r] = "test" /\ at'[r] = (IF finished[r] THEN "finalize" ELSE "initialize")
        /\ Same /\ UNCHANGED finished[r]
    BY <1>7 DEF IsFinished
  <2>2. Ahead
    BY <2>1 DEF Place
  <2> QED
    BY <1>2, <2>1, <2>2 DEF Passless
<1>8. CASE FitterInitialize(r)
  <2>1. at[r] = "initialize" /\ at'[r] = "prerun" /\ Same
    BY <1>8 DEF FitterInitialize
  <2>2. Ahead
    BY <2>1 DEF Place
  <2> QED
    BY <1>2, <2>1, <2>2 DEF Passless
<1>9. CASE PreRun(r) \/ PreRunSkips(r)
  <2>1. at[r] = "prerun" /\ at'[r] = "run" /\ Same
    BY <1>9 DEF PreRun, PreRunSkips
  <2>2. Ahead
    BY <2>1 DEF Place
  <2> QED
    BY <1>2, <2>1, <2>2 DEF Passless
<1>10. CASE \/ RunsNothing(r) \/ RunSolves(r)
            \/ NoPeak(r) \/ IonSearchFails(r) \/ InterpolationFails(r)
  <2>1. at[r] = "run" /\ at'[r] = "postrun" /\ Same
    BY <1>10 DEF RunsNothing, RunSolves, NoPeak, IonSearchFails, InterpolationFails
  <2>2. Ahead
    BY <2>1 DEF Place
  <2> QED
    BY <1>2, <2>1, <2>2 DEF Passless
<1>11. CASE PostRun(r)
  <2>1. at[r] = "postrun" /\ at'[r] = "test" /\ Same /\ UNCHANGED finished[r]
    BY <1>11 DEF PostRun
  <2>2. CASE finished[r]
    <3>1. Ahead
      BY <2>1, <2>2 DEF Place
    <3> QED
      BY <1>2, <2>1, <3>1 DEF Passless
  <2>3. CASE ~finished[r]
    <3>1. Place(r) = 4 /\ Place(r)' = 8
      BY <2>1, <2>3 DEF Place
    <3>2. Lost(r)
      BY <1>1, <2>1, <2>3 DEF PassState, LostOnly, Loop
    <3> QED
      BY <2>1, <3>1, <3>2
  <2> QED
    BY <2>2, <2>3
<1>12. CASE PostRunAgain(r)
  <2>1. /\ at[r] = "postrun" /\ at'[r] = "test" /\ UNCHANGED pass[r]
        /\ again'[r] = again[r] + 1 /\ again[r] \in 0..MaxAgain /\ MaxAgain \in Nat
    BY <1>12, FringePassAssumption DEF PostRunAgain
  <2>2. Phase(r)' = Phase(r) /\ PassesLeft(r)' = PassesLeft(r)
    BY <2>1 DEF Phase, PassesLeft
  <2>3. RefitsLeft(r)' = MaxAgain - (again[r] + 1)
    BY <2>1 DEF RefitsLeft
  <2>4. RefitsLeft(r)' < RefitsLeft(r)
    BY <2>1, <2>3 DEF RefitsLeft
  <2> QED
    BY <2>2, <2>4
<1>13. CASE Finalize(r) /\ ~skipped[r]
  <2>1. at[r] = "finalize" /\ at'[r] = "output" /\ Same
    BY <1>13 DEF Finalize
  <2>2. Ahead
    BY <2>1 DEF Place
  <2> QED
    BY <1>2, <2>1, <2>2 DEF Passless
<1> QED
  BY <1>3, <1>4, <1>5, <1>6, <1>7, <1>8, <1>9, <1>10, <1>11, <1>12, <1>13
     DEF Drive, Discover, BroadcastString, Leaves

(* The phases of a process follow each other.                                 *)
LEMMA PhaseShortens ==
  ASSUME TypeOK, NEW r \in Rank,
         \/ r = 0 /\ (Discover \/ DiscoveryExits)
         \/ BroadcastString(r) \/ NoMorePasses(r) \/ Exit(r)
  PROVE  Phase(r)' < Phase(r)
<1> USE DEF TypeOK, Goto
<1>1. CASE r = 0 /\ (Discover \/ DiscoveryExits)
  <2>1. at[r] = "discover" /\ at'[r] \in {"broadcast", "exited"}
    BY <1>1 DEF Discover, DiscoveryExits
  <2> QED
    BY <2>1 DEF Phase
<1>2. CASE BroadcastString(r)
  <2>1. at[r] = "broadcast" /\ at'[r] \in {"next", "exited"}
    BY <1>2 DEF BroadcastString
  <2> QED
    BY <2>1 DEF Phase
<1>3. CASE NoMorePasses(r)
  <2>1. at[r] = "next" /\ at'[r] = "barrier"
    BY <1>3 DEF NoMorePasses
  <2> QED
    BY <2>1 DEF Phase
<1>4. CASE Exit(r)
  <2>1. at[r] \in {"configure", "prerun", "run"} /\ at'[r] = "exited"
    BY <1>4 DEF Exit
  <2> QED
    BY <2>1 DEF Phase
<1> QED
  BY <1>1, <1>2, <1>3, <1>4

WayInv == IInv /\ LostOnly

(* A step of a process shortens its way.                                      *)
LEMMA DriveShortens ==
  ASSUME WayInv, WayInv', NEW r \in Rank, Drive(r) \/ Exit(r) \/ (r = 0 /\ DiscoveryExits)
  PROVE  /\ Way(r)' # Way(r)
         /\ <<Way(r)', Way(r)>> \in Shorter \/ (at[r] = "postrun" /\ Lost(r))
<1>0. /\ TypeOK /\ TypeOK' /\ PassStates /\ LostOnly /\ Dealing
  BY DEF WayInv, IInv
<1>1. WayNumbers(r) /\ WayNumbers(r)'
  BY <1>0, WayTyped, WayTypedNext
<1>2. CASE \/ r = 0 /\ (Discover \/ DiscoveryExits)
           \/ BroadcastString(r) \/ NoMorePasses(r) \/ Exit(r)
  BY <1>0, <1>1, <1>2, PhaseShortens, WayCompared
<1>3. CASE Leaves(r)
  <2>1. Continue(r) /\ at[r] \notin Passless
    BY <1>3 DEF Leaves, InitializeFails, ConfigureSkips, Output, Finalize, Passless
  <2>2. pass[r] \in Pass
    BY <1>0, <2>1 DEF Dealing
  <2> QED
    BY <1>0, <1>1, <2>1, <2>2, ContinueShortens, WayCompared
<1>4. CASE Drive(r) /\ at[r] \notin {"discover", "broadcast"} /\ ~Leaves(r) /\ ~NoMorePasses(r)
  <2>1. CASE at[r] = "postrun" /\ Lost(r) /\ Place(r)' # Place(r)
    BY <2>1 DEF Way
  <2>2. CASE ~(at[r] = "postrun" /\ Lost(r) /\ Place(r)' # Place(r))
    BY <1>0, <1>1, <1>4, <2>2, FitShortens, WayCompared
  <2> QED
    BY <2>1, <2>2
<1>5. ASSUME Drive(r), at[r] \in {"discover", "broadcast"}
      PROVE  (r = 0 /\ Discover) \/ BroadcastString(r)
  BY <1>5 DEF Drive, TakePass, NoMorePasses, InitializeFails, Initialize, ConfigureSkips,
     Configure, NoData, EmptyData, FitterConfigure, IsFinished, FitterInitialize, PreRun,
     PreRunSkips, RunsNothing, RunSolves, NoPeak, IonSearchFails, InterpolationFails, PostRun,
     PostRunAgain, Finalize, Output
<1> QED
  BY <1>2, <1>3, <1>4, <1>5

LEMMA WayStep ==
  ASSUME WayInv, WayInv', Next
  PROVE  \/ UNCHANGED vars
         \/ /\ \A q \in Rank : \/ Way(q)' = Way(q)
                               \/ <<Way(q)', Way(q)>> \in Shorter
                               \/ at[q] = "postrun" /\ Lost(q)
            /\ \E q \in Rank : Way(q)' # Way(q)
<1>0. TypeOK /\ TypeOK' /\ 0 \in Rank
  BY FringePassAssumption DEF WayInv, IInv, Rank
<1>1. ASSUME NEW r \in Rank, Drive(r) \/ Exit(r)
      PROVE  /\ \A q \in Rank : \/ Way(q)' = Way(q)
                                \/ <<Way(q)', Way(q)>> \in Shorter
                                \/ at[q] = "postrun" /\ Lost(q)
             /\ \E q \in Rank : Way(q)' # Way(q)
  BY <1>0, <1>1, WayOfOthers, DriveShortens
<1>2. CASE DiscoveryExits
  <2>1. \A q \in Rank : q # 0 => Way(q)' = Way(q)
    BY <1>0, <1>2 DEF DiscoveryExits, Goto, status, fitter, TypeOK, Way, Phase, PassesLeft,
       RefitsLeft, Place
  <2> QED
    BY <1>0, <1>2, <2>1, DriveShortens
<1>3. CASE GlobalBarrier
  <2>1. ASSUME NEW q \in Rank
        PROVE  <<Way(q)', Way(q)>> \in Shorter /\ Way(q)' # Way(q)
    <3>1. at[q] = "barrier" /\ at'[q] = "done"
      BY <1>3 DEF GlobalBarrier
    <3>2. Phase(q)' < Phase(q)
      BY <3>1 DEF Phase
    <3>3. WayNumbers(q) /\ WayNumbers(q)'
      BY <1>0, WayTyped, WayTypedNext
    <3> QED
      BY <3>2, <3>3, WayCompared
  <2> QED
    BY <1>0, <2>1
<1>4. CASE Ended
  BY <1>4 DEF Ended
<1> QED
  BY <1>1, <1>2, <1>3, <1>4 DEF Next

(* Every step shortens the way of its process and lengthens that of no other, *)
(* for any number of processes, passes and refits: only a pass that is lost   *)
(* goes round, so that without one the job takes finitely many steps          *)
(* (NoEndlessWay).                                                            *)
THEOREM EveryStepLeadsOn == Spec => [](\A r \in Rank : Way(r) \in Ways) /\ WayShortens
<1>1. Init => LostOnly
  BY DEF Init, LostOnly, Loop, Rank
<1>2. IInv /\ LostOnly /\ [Next]_vars => LostOnly'
  BY LostOnlyStep DEF IInv
<1>3. Spec => []LostOnly
  BY <1>1, <1>2, Invariance, PTL DEF Spec
<1>4. IInv => \A r \in Rank : Way(r) \in Ways
  BY WayTyped DEF IInv, WayNumbers
<1>5. WayInv /\ WayInv' /\ [Next]_vars =>
        [/\ \A r \in Rank : \/ Way(r)' = Way(r)
                            \/ <<Way(r)', Way(r)>> \in Shorter
                            \/ at[r] = "postrun" /\ Lost(r)
         /\ \E r \in Rank : Way(r)' # Way(r)]_vars
  BY WayStep
<1>6. Spec => []WayInv
  BY <1>3, Invariance, PTL DEF WayInv
<1> QED
  BY <1>4, <1>5, <1>6, Invariance, PTL DEF Spec, WayShortens
=============================================================================
