-------------------------- MODULE OutputProofs --------------------------
(***************************************************************************)
(* Proofs about HopsOutput and MK4Output, the two callers of the lock, for *)
(* any processes and any number of fits.  The lock as each of them uses it *)
(* still guarantees what WriteLockProofs shows of it alone.  With that, no *)
(* fit of Visit is lost or in two places, the directory implements         *)
(* FringeStore, and no process makes the way through Visit longer for      *)
(* another; and output, which writes in place and may keep the lock, does  *)
(* not touch a file that is complete.                                      *)
(***************************************************************************)
EXTENDS HopsOutput, MK4Output, WriteLockProofs, WellFoundedInduction

-----------------------------------------------------------------------------
(* The steps of Visit that are no steps of the caller in WriteLock.          *)

\* nothing is renamed: the lock is held on, and no number is taken
LEMMA NoRenameKeeps ==
  ASSUME IInv, NEW p \in Proc, NoRename(p)
  PROVE  IInv'
<1>1. Forgotten'
  BY DEF NoRename, IInv, LockInv, Base, TypeOK, Forgotten, Holding
<1> QED  BY <1>1, HoldOnKeeps DEF NoRename, IInv

\* the lock is given back after a time-out, with a file or without one, or after
\* an error
LEMMA RemoveKeeps ==
  ASSUME IInv, NEW p \in Proc, pc[p] \in {"timedout", "error"}, RemoveWriteLock(p)
  PROVE  IInv'
<1> USE DEF RemoveWriteLock, RemoveOwn, IInv, LockInv, Base
<1>1. TypeOK'
  BY DEF TypeOK, PC, Running
<1>2. Numbered'
  <2>1. PICK n \in Nat : NumberedTo(n)
    BY DEF Numbered
  <2>2. NumberedTo(n)'
    BY <2>1 DEF NumberedTo, TypeOK
  <2> QED  BY <2>2 DEF Numbered
<1>3. Owned' /\ Forgotten' /\ Cleared'
  BY DEF Owned, Forgotten, Cleared, Holding, Alive, Running, TypeOK
<1>4. \/ HasLock(p) /\ dir' = dir \ {OwnLock(p)}
      \/ ~HasLock(p) /\ dir' = dir
  BY ConstantsAssumption DEF TypeOK, Lock, HasLock, OwnLock
<1>5. Calm
  BY <1>4, CalmLoss DEF Alive, Running, Holding, TypeOK
<1>6. Idle
  BY DEF Idle, Holder, Holding, TypeOK
<1> QED  BY <1>1, <1>2, <1>3, <1>5, <1>6, LockCalm

\* a step of the lock is one of a process that is waiting, and writes no file
LEMMA HandlerLocal ==
  ASSUME TypeOK, NEW p \in Proc, Handler(p)
  PROVE  /\ files' = files /\ exclusive' \in BOOLEAN /\ (exclusive' => exclusive)
         /\ Alive(p) /\ pc[p] \notin {"idle", "written"}
         /\ \A q \in Proc \ {p} : pc'[q] = pc[q] /\ seqno'[q] = seqno[q]
<1>1. ASSUME NEW o, pc' = [pc EXCEPT ![p] = o]
      PROVE  \A q \in Proc \ {p} : pc'[q] = pc[q]
  BY <1>1 DEF TypeOK
<1> USE DEF Alive, Running
<1>2. CASE Scan(p)
  <2>1. CASE OpenScan(p)
    BY <2>1 DEF OpenScan, TypeOK
  <2>2. CASE ScanUnparsable(p)
    BY <1>1, <2>2, FailLocal DEF ScanUnparsable, TypeOK
  <2>3. CASE ScanDefers(p)
    BY <1>1, <2>3, DecideLocal DEF ScanDefers, TypeOK
  <2>4. ASSUME NEW l \in unread[p], ScanEntry(p, l)
        PROVE  /\ files' = files /\ exclusive' = exclusive /\ pc[p] = "scan"
               /\ pc' = pc /\ seqno' = seqno
    BY <2>4 DEF ScanEntry
  <2> QED
    BY <1>2, <2>1, <2>2, <2>3, <2>4 DEF Scan, ScanStale, ScanLive, ScanVanished, TypeOK
<1>3. CASE Stamp(p) \/ Create(p) \/ Commit(p) \/ Wake(p) \/ Claim(p)
  BY <1>3 DEF Stamp, Create, Commit, Wake, Claim, TypeOK
<1>4. CASE CreateFails(p) \/ OpendirFails(p)
  BY <1>1, <1>4, FailLocal DEF CreateFails, OpendirFails, TypeOK
<1>5. CASE Rescan(p)
  <2>1. CASE RescanUnparsable(p)
    BY <1>1, <2>1, FailLocal DEF RescanUnparsable, TypeOK
  <2>2. CASE RescanWins(p)
    BY <1>1, <2>2, DecideLocal DEF RescanWins, TypeOK
  <2>3. ASSUME NEW l \in unread[p], RescanPasses(p, l)
        PROVE  /\ files' = files /\ exclusive' = exclusive /\ pc[p] = "rescan"
               /\ pc' = pc /\ seqno' = seqno
    BY <2>3 DEF RescanPasses
  <2>4. ASSUME NEW l \in unread[p], RescanYields(p, l)
        PROVE  /\ files' = files /\ exclusive' = exclusive /\ pc[p] = "rescan"
               /\ seqno' = seqno /\ \A q \in Proc \ {p} : pc'[q] = pc[q]
    BY <1>1, <2>4, DecideLocal DEF RescanYields
  <2> QED
    BY <1>5, <2>1, <2>2, <2>3, <2>4 DEF Rescan, TypeOK
<1> QED  BY <1>2, <1>3, <1>4, <1>5 DEF Handler

-----------------------------------------------------------------------------
(* Visit.                                                                    *)

VisitTypes ==
  /\ stage \in [Proc -> {"idle", "data", "lock"}]
  /\ round \in [Proc -> 1..(Rounds + 1)]
  /\ wrote \in [Proc -> BOOLEAN]
  /\ temps \subseteq Fit
  /\ out \in [files -> Fit]
  /\ finished \subseteq Closed

\* a process that has to do with the lock is in the part of Visit that waits for it
Waiting == \A p \in Proc : Alive(p) /\ pc[p] # "idle" => stage[p] = "lock"

Rounded == \A p \in Proc : stage[p] # "idle" => round[p] <= Rounds

\* a temporary file is of a present or past fit of its writer, and is partial as
\* long as the data are being written
TempsKnown ==
  \A t \in temps :
    /\ t.nr <= round[t.by]
    /\ t.nr = round[t.by] => stage[t.by] # "idle"
    /\ t.state = "partial" <=> t.nr = round[t.by] /\ stage[t.by] = "data"

\* a numbered file is of a past fit, or the present one once it is closed
OutKnown ==
  \A n \in files :
    /\ out[n] \in Closed
    /\ out[n].nr <= round[out[n].by]
    /\ out[n].nr = round[out[n].by] => stage[out[n].by] = "lock"

Known == VisitTypes /\ Waiting /\ Rounded /\ TempsKnown /\ OutKnown

HInv == IInv /\ Known /\ OnePlace /\ NothingLost

\* nothing of the fits changes, and only processes that wait for the lock move
LEMMA KnownKept ==
  ASSUME Known, OnePlace, NothingLost, UNCHANGED visit, files' = files,
         exclusive' => exclusive,
         \A q \in Proc : Alive(q)' /\ pc'[q] # "idle" => stage[q] = "lock"
  PROVE  Known' /\ OnePlace' /\ NothingLost'
<1> USE DEF visit
<1>1. VisitTypes' /\ Waiting' /\ Rounded'
  BY DEF Known, VisitTypes, Waiting, Rounded
<1>2. TempsKnown' /\ OutKnown'
  BY DEF Known, TempsKnown, OutKnown
<1>3. OnePlace' /\ NothingLost'
  BY DEF OnePlace, NothingLost
<1> QED  BY <1>1, <1>2, <1>3 DEF Known

\* a temporary file is opened, or cannot be
LEMMA OpenKnown ==
  ASSUME HInv, NEW p \in Proc, OpenTemp(p) \/ OpenTempFails(p)
  PROVE  Known' /\ OnePlace' /\ NothingLost'
<1> DEFINE t == [by |-> p, nr |-> round[p], state |-> "partial"]
<1> USE DEF HInv, Known, OpenTemp, OpenTempFails, vars
<1>0. /\ stage[p] = "idle" /\ round[p] \in 1..Rounds /\ pc[p] = "idle"
      /\ \E s \in {"data", "lock"} : stage' = [stage EXCEPT ![p] = s]
      /\ files' = files /\ out' = out /\ pc' = pc /\ round' = round
      /\ finished' = finished /\ exclusive' = exclusive
  BY RoundsAssumption DEF VisitTypes, Waiting
<1>1. t \in Fit /\ t \notin Closed /\ t.by = p /\ t.nr = round[p] /\ t.state = "partial"
  BY <1>0 DEF Fit, State, Closed
<1>2. \/ temps' = temps \cup {t} /\ stage'[p] = "data"
      \/ temps' = temps
  BY DEF VisitTypes
<1>3. VisitTypes'
  BY <1>0, <1>1, <1>2 DEF VisitTypes
<1>4. Waiting' /\ Rounded'
  BY <1>0, RoundsAssumption DEF VisitTypes, Waiting, Rounded, Alive
<1>5. TempsKnown'
  <2>1. ASSUME NEW u \in temps PROVE u.nr = round[u.by] => u.by # p
    BY <1>0 DEF TempsKnown
  <2>2. ASSUME NEW u \in temps PROVE u.by \in Proc
    BY DEF VisitTypes, Fit
  <2> QED  BY <1>0, <1>1, <1>2, <2>1, <2>2, RoundsAssumption DEF TempsKnown, VisitTypes
<1>6. OutKnown'
  <2>1. ASSUME NEW n \in files PROVE out[n].by \in Proc /\ (out[n].nr = round[out[n].by] => out[n].by # p)
    BY <1>0 DEF OutKnown, Closed, Fit
  <2> QED  BY <1>0, <2>1 DEF OutKnown, VisitTypes
<1>7. OnePlace'
  BY <1>0, <1>1, <1>2 DEF OnePlace, OutKnown
<1>8. NothingLost'
  BY <1>0, <1>2 DEF NothingLost
<1> QED  BY <1>3, <1>4, <1>5, <1>6, <1>7, <1>8

\* what is closed is the present fit, which was nowhere as a whole before
LEMMA CloseKnown ==
  ASSUME HInv, NEW p \in Proc, CloseTemp(p)
  PROVE  Known' /\ OnePlace' /\ NothingLost'
<1> USE DEF HInv, Known, CloseTemp, vars
<1>0. /\ stage[p] = "data" /\ round[p] \in 1..Rounds /\ pc[p] = "idle"
      /\ stage' = [stage EXCEPT ![p] = "lock"]
      /\ files' = files /\ out' = out /\ pc' = pc /\ round' = round
      /\ exclusive' = exclusive
  BY RoundsAssumption DEF VisitTypes, Waiting, Rounded
<1>1. PICK s \in {"whole", "short"} :
        /\ temps' = (temps \ Temp(p)) \cup {[by |-> p, nr |-> round[p], state |-> s]}
        /\ finished' = finished \cup {[by |-> p, nr |-> round[p], state |-> s]}
  OBVIOUS
<1> DEFINE t == [by |-> p, nr |-> round[p], state |-> s]
<1>2. t \in Closed /\ t \in Fit /\ t.by = p /\ t.nr = round[p] /\ t.state # "partial"
  BY <1>0 DEF Fit, State, Closed
<1>3. temps' = (temps \ Temp(p)) \cup {t} /\ finished' = finished \cup {t}
  BY <1>1
<1> HIDE DEF t
<1>4. VisitTypes'
  BY <1>0, <1>2, <1>3 DEF VisitTypes
<1>5. Waiting' /\ Rounded'
  BY <1>0, RoundsAssumption DEF VisitTypes, Waiting, Rounded, Alive
<1>6. ASSUME NEW u \in temps
      PROVE  /\ u.by \in Proc
             /\ u.by = p /\ u.nr = round[p] => u \in Temp(p)
             /\ u \in Temp(p) => u.state = "partial"
  BY <1>0 DEF VisitTypes, Fit, Temp, TempsKnown
<1>7. TempsKnown'
  BY <1>0, <1>2, <1>3, <1>6, RoundsAssumption DEF TempsKnown, VisitTypes
<1>8. ASSUME NEW n \in files
      PROVE  out[n].by \in Proc /\ ~(out[n].by = p /\ out[n].nr = round[p])
  BY <1>0 DEF OutKnown, Closed, Fit
<1>9. OutKnown'
  BY <1>0, <1>8 DEF OutKnown, VisitTypes
<1>10. OnePlace'
  BY <1>0, <1>2, <1>3, <1>8 DEF OnePlace
<1>11. NothingLost'
  <2>1. ASSUME NEW u \in finished PROVE u \notin Temp(p)
    BY <1>6 DEF VisitTypes, Closed, Temp
  <2> QED  BY <1>0, <1>3, <2>1 DEF NothingLost
<1> QED  BY <1>4, <1>5, <1>7, <1>9, <1>10, <1>11

\* the fit that is renamed is closed, and takes a number that is free as long as
\* the lock has been exclusive
LEMMA RenameMoves ==
  ASSUME HInv, NEW p \in Proc, Rename(p)
  PROVE  \E t \in Temp(p) :
           /\ t \in temps /\ t \in Closed /\ t.by = p /\ t.nr = round[p]
           /\ stage[p] = "lock"
           /\ temps' = temps \ {t}
           /\ files' = files \cup {seqno[p]}
           /\ out' = [n \in files' |-> IF n = seqno[p] THEN t ELSE out[n]]
           /\ exclusive => seqno[p] \notin files
           /\ \A n \in files : out[n] # t
<1> USE DEF HInv, Known, Rename, Write
<1>1. stage[p] = "lock" /\ pc[p] = "hold"
  BY DEF Waiting, Alive, Running
<1>2. PICK t \in Temp(p) :
        /\ temps' = temps \ {t}
        /\ out' = [n \in files' |-> IF n = seqno[p] THEN t ELSE out[n]]
  OBVIOUS
<1>3. t \in temps /\ t.by = p /\ t.nr = round[p]
  BY DEF Temp
<1>4. t \in Closed
  BY <1>1, <1>3 DEF TempsKnown, VisitTypes, Closed
<1>5. exclusive => seqno[p] \notin files
  BY <1>1 DEF IInv, LockInv, UniqueWhileExclusive
<1>6. \A n \in files : out[n] # t
  BY <1>3 DEF OnePlace
<1> QED  BY <1>1, <1>2, <1>3, <1>4, <1>5, <1>6

LEMMA RenameKnown ==
  ASSUME HInv, NEW p \in Proc, Rename(p)
  PROVE  Known' /\ OnePlace' /\ NothingLost'
<1> USE DEF HInv, Known
<1>0. /\ stage' = stage /\ round' = round /\ wrote' = wrote /\ finished' = finished
      /\ exclusive' = exclusive /\ pc' = [pc EXCEPT ![p] = "written"]
  BY DEF Rename, Write
<1>1. PICK t \in Temp(p) :
        /\ t \in temps /\ t \in Closed /\ t.by = p /\ t.nr = round[p]
        /\ stage[p] = "lock"
        /\ temps' = temps \ {t}
        /\ files' = files \cup {seqno[p]}
        /\ out' = [n \in files' |-> IF n = seqno[p] THEN t ELSE out[n]]
        /\ exclusive => seqno[p] \notin files
        /\ \A n \in files : out[n] # t
  BY RenameMoves
<1>2. /\ out'[seqno[p]] = t
      /\ \A n \in files \ {seqno[p]} : out'[n] = out[n]
  BY <1>1
<1>3. VisitTypes'
  BY <1>0, <1>1 DEF VisitTypes
<1>4. Waiting' /\ Rounded'
  BY <1>0, <1>1 DEF Waiting, Rounded, Alive, IInv, LockInv, Base, TypeOK
<1>5. TempsKnown'
  BY <1>0, <1>1 DEF TempsKnown
<1>6. OutKnown'
  BY <1>0, <1>1, <1>2, RoundsAssumption DEF OutKnown, VisitTypes
<1>7. OnePlace'
  BY <1>1, <1>2 DEF OnePlace
<1>8. NothingLost'
  BY <1>0, <1>1, <1>2 DEF NothingLost
<1> QED  BY <1>3, <1>4, <1>5, <1>6, <1>7, <1>8

LEMMA LeaveKnown ==
  ASSUME HInv, NEW p \in Proc, Leave(p)
  PROVE  Known' /\ OnePlace' /\ NothingLost'
<1> USE DEF HInv, Known, Leave, RemoveWriteLock
<1>0. /\ stage[p] = "lock" /\ round[p] \in 1..Rounds
      /\ pc' = [pc EXCEPT ![p] = "idle"]
      /\ stage' = [stage EXCEPT ![p] = "idle"]
      /\ round' = [round EXCEPT ![p] = round[p] + 1]
      /\ wrote' = [wrote EXCEPT ![p] = FALSE]
      /\ files' = files /\ out' = out /\ temps' = temps /\ finished' = finished
      /\ exclusive' = exclusive
  BY RoundsAssumption DEF Waiting, Rounded, VisitTypes, Alive, Running
<1>1. VisitTypes'
  BY <1>0, RoundsAssumption DEF VisitTypes
<1>2. Waiting' /\ Rounded'
  BY <1>0 DEF Waiting, Rounded, Alive, IInv, LockInv, Base, TypeOK, VisitTypes
<1>3. TempsKnown'
  <2>1. ASSUME NEW t \in temps PROVE t.by \in Proc /\ t.nr \in Nat
    BY RoundsAssumption DEF VisitTypes, Fit
  <2> QED  BY <1>0, <2>1, RoundsAssumption DEF TempsKnown, VisitTypes
<1>4. OutKnown'
  <2>1. ASSUME NEW n \in files PROVE out[n].by \in Proc /\ out[n].nr \in Nat
    BY RoundsAssumption DEF OutKnown, Closed, Fit
  <2> QED  BY <1>0, <2>1, RoundsAssumption DEF OutKnown, VisitTypes
<1>5. OnePlace' /\ NothingLost'
  BY <1>0 DEF OnePlace, NothingLost
<1> QED  BY <1>1, <1>2, <1>3, <1>4, <1>5

-----------------------------------------------------------------------------
(* The invariant, and what follows from it.                                  *)

LEMMA HopsInductiveInit == HopsInit => HInv
<1> SUFFICES ASSUME HopsInit PROVE HInv
  OBVIOUS
<1> USE DEF HopsInit
<1>1. IInv
  BY InductiveInit
<1>2. files = {}
  BY DEF Init
<1>3. VisitTypes /\ Waiting /\ Rounded
  BY <1>2, RoundsAssumption DEF VisitTypes, Waiting, Rounded, Init
<1>4. TempsKnown /\ OutKnown
  BY <1>2 DEF TempsKnown, OutKnown
<1>5. OnePlace /\ NothingLost
  BY <1>2 DEF OnePlace, NothingLost
<1> QED  BY <1>1, <1>3, <1>4, <1>5 DEF HInv, Known

\* the steps that do not touch the fits
LEMMA LockSteps ==
  ASSUME HInv, NEW p \in Proc,
         TakeLock(p) \/ WaitForWriteLock(p) \/ NoRename(p)
  PROVE  HInv' /\ UNCHANGED visit /\ files' = files
         /\ exclusive' \in BOOLEAN /\ (exclusive' => exclusive)
<1> USE DEF HInv
<1>1. CASE TakeLock(p)
  <2>1. Handler(p) /\ UNCHANGED visit
    BY <1>1 DEF TakeLock
  <2>2. /\ files' = files /\ exclusive' \in BOOLEAN /\ (exclusive' => exclusive)
        /\ Alive(p) /\ pc[p] # "idle"
        /\ \A q \in Proc \ {p} : pc'[q] = pc[q]
    BY <2>1, HandlerLocal DEF IInv, LockInv, Base
  <2>3. stage[p] = "lock"
    BY <2>2 DEF Known, Waiting
  <2>4. \A q \in Proc : Alive(q)' /\ pc'[q] # "idle" => stage[q] = "lock"
    BY <2>2, <2>3 DEF Known, Waiting, Alive
  <2>5. IInv'
    BY <2>1, InductiveStep DEF Next
  <2> QED  BY <2>1, <2>2, <2>4, <2>5, KnownKept
<1>2. CASE WaitForWriteLock(p)
  <2>1. Wait(p) /\ UNCHANGED visit /\ stage[p] = "lock"
    BY <1>2 DEF WaitForWriteLock
  <2>2. files' = files /\ exclusive' = exclusive
    BY <2>1 DEF Wait
  <2>3. \A q \in Proc : Alive(q)' /\ pc'[q] # "idle" => stage[q] = "lock"
    BY <2>1 DEF Wait, Known, Waiting, Alive, IInv, LockInv, Base, TypeOK
  <2>4. IInv'
    BY <2>1, InductiveStep DEF Next, Caller
  <2> QED  BY <2>1, <2>2, <2>3, <2>4, KnownKept DEF IInv, LockInv, Base, TypeOK
<1>3. CASE NoRename(p)
  <2>1. files' = files /\ exclusive' = exclusive /\ UNCHANGED visit
    BY <1>3 DEF NoRename
  <2>2. \A q \in Proc : Alive(q)' /\ pc'[q] # "idle" => stage[q] = "lock"
    BY <1>3 DEF NoRename, Known, Waiting, Alive, Running, IInv, LockInv, Base, TypeOK
  <2>3. IInv'
    BY <1>3, NoRenameKeeps
  <2> QED  BY <2>1, <2>2, <2>3, KnownKept DEF IInv, LockInv, Base, TypeOK
<1> QED  BY <1>1, <1>2, <1>3

LEMMA EnvironmentSteps ==
  ASSUME HInv, Environment
  PROVE  HInv' /\ UNCHANGED visit /\ files' = files /\ exclusive' = exclusive
<1> USE DEF HInv
<1>1. UNCHANGED visit
  BY DEF Environment
<1>2. files' = files /\ exclusive' = exclusive
  BY DEF Environment, Tick, DropForeign, Signal, Kill, Vanish
<1>3. \A q \in Proc : pc'[q] = pc[q] \/ pc'[q] \in Gone
  BY DEF Environment, Tick, DropForeign, Signal, Kill, Vanish, Gone, IInv, LockInv, Base, TypeOK
<1>4. \A q \in Proc : Alive(q)' /\ pc'[q] # "idle" => stage[q] = "lock"
  BY <1>3 DEF Known, Waiting, Alive, Running, Gone
<1>5. IInv'
  BY InductiveStep DEF Environment, Next
<1> QED  BY <1>1, <1>2, <1>4, <1>5, KnownKept

\* the steps that write, rename and finish a fit
LEMMA FitSteps ==
  ASSUME HInv, NEW p \in Proc,
         OpenTemp(p) \/ OpenTempFails(p) \/ CloseTemp(p) \/ Rename(p) \/ Leave(p)
  PROVE  HInv'
<1> USE DEF HInv
<1>1. CASE OpenTemp(p) \/ OpenTempFails(p) \/ CloseTemp(p)
  <2>1. IInv'
    BY <1>1, InductiveStep DEF OpenTemp, OpenTempFails, CloseTemp
  <2> QED  BY <1>1, <2>1, OpenKnown, CloseKnown
<1>2. CASE Rename(p)
  <2>1. IInv'
    BY <1>2, InductiveStep DEF Rename, Next, Caller
  <2> QED  BY <1>2, <2>1, RenameKnown
<1>3. CASE Leave(p)
  <2>1. IInv'
    BY <1>3, InductiveStep, RemoveKeeps DEF Leave, Release, Next, Caller
  <2> QED  BY <1>3, <2>1, LeaveKnown
<1> QED  BY <1>1, <1>2, <1>3

LEMMA StutterSteps ==
  ASSUME HInv, UNCHANGED allvars
  PROVE  HInv'
<1>1. IInv'
  BY InductiveStep DEF HInv, allvars
<1>2. /\ UNCHANGED visit /\ files' = files /\ exclusive' = exclusive
      /\ \A q \in Proc : Alive(q)' /\ pc'[q] # "idle" => stage[q] = "lock"
  BY DEF HInv, Known, Waiting, Alive, allvars, vars
<1> QED  BY <1>1, <1>2, KnownKept DEF HInv

LEMMA HopsInductiveStep == HInv /\ [HopsNext]_allvars => HInv'
<1> SUFFICES ASSUME HInv, [HopsNext]_allvars PROVE HInv'
  OBVIOUS
<1>1. ASSUME NEW p \in Proc, Visit(p) \/ TakeLock(p) PROVE HInv'
  BY <1>1, LockSteps, FitSteps DEF Visit
<1>2. CASE Environment
  BY <1>2, EnvironmentSteps
<1>3. CASE UNCHANGED allvars
  BY <1>3, StutterSteps
<1> QED  BY <1>1, <1>2, <1>3 DEF HopsNext, AllDone

LEMMA HopsInductive == HopsSpec => []HInv
BY HopsInductiveInit, HopsInductiveStep, PTL DEF HopsSpec

(* Every variable has its type, and only closed fits have a number: what is   *)
(* renamed was written to its end (WriteDataObjects, rename).                 *)
THEOREM HopsTyped == HopsSpec => [](HopsTypeOK /\ out \in [files -> Closed])
<1>1. HInv => HopsTypeOK /\ out \in [files -> Closed]
  <2> SUFFICES ASSUME HInv PROVE HopsTypeOK /\ out \in [files -> Closed]
    OBVIOUS
  <2> USE DEF HInv, Known, VisitTypes
  <2>1. HopsTypeOK
    BY DEF HopsTypeOK, IInv, LockInv, Base, Closed
  <2>2. out \in [files -> Closed]
    BY DEF OutKnown
  <2> QED  BY <2>1, <2>2
<1> QED  BY <1>1, HopsInductive, PTL

(* What WriteLockProofs shows of the lock alone holds of it as Visit uses it, *)
(* which goes on after an error instead of leaving the program.               *)
THEOREM LockKept ==
  HopsSpec => [](/\ ExclusionUnlessOvertaken
                 /\ LiveLockKept
                 /\ NoResidue
                 /\ UniqueWhileExclusive)
<1>1. HInv => /\ ExclusionUnlessOvertaken /\ LiveLockKept
              /\ NoResidue /\ UniqueWhileExclusive
  BY ArbitrationSuffices, KeptSuffices, ResidueOf DEF HInv, IInv, LockInv
<1> QED  BY <1>1, HopsInductive, PTL

(* As long as the lock has been exclusive, every fit that was written to its  *)
(* end has its number or still its temporary name (rename).                   *)
THEOREM NoFitLost == HopsSpec => []NothingLost
BY HopsInductive, PTL DEF HInv

(* No fit has two names (rename, unique_name).                                *)
THEOREM FitInOnePlace == HopsSpec => []OnePlace
BY HopsInductive, PTL DEF HInv

(* A process that is back from Visit has no lock file left, whatever          *)
(* WaitForWriteLock returned (RemoveWriteLock).                               *)
THEOREM LockIsReturned == HopsSpec => []LockReturned
<1>1. HInv => LockReturned
  <2> SUFFICES ASSUME HInv, NEW p \in Proc, Alive(p), stage[p] = "idle"
               PROVE  mine[p] = NoLock /\ \A l \in dir \ {Foreign} : l.pid # p
    BY DEF LockReturned
  <2>1. pc[p] = "idle"
    BY DEF HInv, Known, Waiting
  <2>2. mine[p] = NoLock
    BY <2>1 DEF HInv, IInv, Forgotten, Holding
  <2>3. \A l \in dir \ {Foreign} : l.pid # p
    BY <2>1, ResidueOf DEF HInv, IInv, LockInv, NoResidue, Holding
  <2> QED  BY <2>2, <2>3
<1> QED  BY <1>1, HopsInductive, PTL

-----------------------------------------------------------------------------
(* The directory implements FringeStore.                                     *)

LEMMA StoreSteps ==
  HInv /\ HInv' /\ [HopsNext]_allvars => [Store!Next]_<<out, exclusive>>
<1> SUFFICES ASSUME HInv, HInv', [HopsNext]_allvars
             PROVE  Store!Next \/ UNCHANGED <<out, exclusive>>
  OBVIOUS
<1>1. ASSUME out' = out, exclusive' \in BOOLEAN, exclusive' => exclusive
      PROVE  Store!Clash \/ UNCHANGED <<out, exclusive>>
  BY <1>1 DEF Store!Clash, HInv, IInv, LockInv, Base, TypeOK
<1>2. ASSUME NEW p \in Proc, TakeLock(p) \/ WaitForWriteLock(p) \/ NoRename(p)
      PROVE  Store!Clash \/ UNCHANGED <<out, exclusive>>
  BY <1>1, <1>2, LockSteps DEF visit
<1>3. CASE Environment \/ UNCHANGED allvars
  BY <1>3, EnvironmentSteps DEF visit, vars, allvars
<1>4. ASSUME NEW p \in Proc,
             OpenTemp(p) \/ OpenTempFails(p) \/ CloseTemp(p) \/ Leave(p)
      PROVE  UNCHANGED <<out, exclusive>>
  BY <1>4 DEF OpenTemp, OpenTempFails, CloseTemp, Leave, RemoveWriteLock, vars
<1>5. ASSUME NEW p \in Proc, Rename(p) PROVE Store!Next
  <2>1. PICK t \in Temp(p) :
          /\ t \in temps /\ t \in Closed /\ t.by = p /\ t.nr = round[p]
          /\ stage[p] = "lock"
          /\ temps' = temps \ {t}
          /\ files' = files \cup {seqno[p]}
          /\ out' = [n \in files' |-> IF n = seqno[p] THEN t ELSE out[n]]
          /\ exclusive => seqno[p] \notin files
          /\ \A n \in files : out[n] # t
    BY <1>5, RenameMoves
  <2>2. DOMAIN out = files
    BY DEF HInv, Known, VisitTypes
  <2>3. pc[p] = "hold" /\ exclusive' = exclusive
    BY <1>5 DEF Rename, Write
  <2>4. seqno[p] \in {1} \cup {k + 1 : k \in DOMAIN out}
    <3>1. PICK n \in Nat : files = 1..n /\ seqno[p] \in 1..(n + 1)
      BY <2>3 DEF HInv, IInv, LockInv, Base, Numbered, NumberedTo
    <3>2. seqno[p] = 1 \/ (seqno[p] - 1 \in files /\ seqno[p] = (seqno[p] - 1) + 1)
      BY <3>1
    <3> QED  BY <2>2, <3>2
  <2>5. Store!Publish(t, seqno[p])
    BY <2>1, <2>2, <2>3 DEF Store!Publish
  <2> QED  BY <2>1, <2>4, <2>5 DEF Store!Next
<1> QED  BY <1>2, <1>3, <1>4, <1>5 DEF HopsNext, AllDone, Visit, Store!Next

(* The directory of fringe files is the abstract store: a file appears at     *)
(* once and closed, each fit under one number, and none replaces another      *)
(* while the lock has been exclusive, for any processes, fits and limits.     *)
THEOREM ImplementsStore == HopsSpec => IsFringeStore
<1>1. HopsInit => Store!Init
  BY DEF HopsInit, Init, Store!Init
<1> QED  BY <1>1, StoreSteps, HopsInductive, PTL DEF HopsSpec, IsFringeStore, Store!Spec

-----------------------------------------------------------------------------
(* Visit takes finitely many steps.                                          *)

\* what a process has before it in its visits: the visits, the parts of this one,
\* the calls of at_front, the steps within one, the entries of its scan
VisitsLeft(p) == Rounds + 1 - round[p]

PartsLeft(p) ==
  CASE stage[p] = "idle" -> 2
    [] stage[p] = "data" -> 1
    [] stage[p] = "lock" -> 0

Trying == {"idle", "asleep", "enter", "scan", "create", "commit", "rescan"}

AttemptsLeft(p) == IF pc[p] \in Trying THEN Timeout - checks[p] ELSE 0

StepsLeft(p) ==
  CASE pc[p] = "idle" -> 10
    [] pc[p] = "asleep" -> 9
    [] pc[p] = "enter" -> 8
    [] pc[p] = "scan" -> 7
    [] pc[p] = "create" -> 6
    [] pc[p] = "commit" -> 5
    [] pc[p] = "rescan" -> 4
    [] pc[p] = "claim" -> 3
    [] pc[p] = "hold" -> 2
    [] pc[p] \in {"written", "timedout", "error"} -> 1
    [] pc[p] \in Gone -> 0

EntriesLeft(p) == Cardinality(unread[p])

Toil(p) == <<VisitsLeft(p), PartsLeft(p), AttemptsLeft(p), StepsLeft(p), EntriesLeft(p)>>
Toils == [1..5 -> Nat]

Lighter == LexProductOrdering(OpToRel(<, Nat), Nat, 5)

\* another process creates its lock file while p scans: the scan may return it
Interrupted(p) ==
  /\ pc[p] \in Scanning
  /\ UNCHANGED <<VisitsLeft(p), PartsLeft(p), AttemptsLeft(p), StepsLeft(p)>>
  /\ EntriesLeft(p)' = EntriesLeft(p) + 1
  /\ \E q \in Proc \ {p} : pc[q] = "create" /\ pc'[q] = "commit"

VisitsShorten ==
  [][\A p \in Proc :
       /\ Visit(p) \/ TakeLock(p) => <<Toil(p)', Toil(p)>> \in Lighter
       /\ Alive(p)' => \/ Toil(p)' = Toil(p)
                       \/ <<Toil(p)', Toil(p)>> \in Lighter
                       \/ Interrupted(p)]_allvars

\* There is no infinite sequence of toils each lighter than the one before.
LEMMA NoEndlessToil == IsWellFoundedOn(Lighter, Toils)
BY NatLessThanWellFounded, WFLexProductOrdering DEF Lighter, Toils

\* the directory, and what is left of a scan of it, is finite
Finite == IsFiniteSet(dir) /\ \A p \in Proc : IsFiniteSet(unread[p])

\* at most one entry is new in the directory, and at most that one in a scan
LEMMA EntriesSteps ==
  ASSUME TypeOK, [HopsNext]_allvars
  PROVE  \E x : /\ dir' \subseteq dir \cup {x}
                /\ \A q \in Proc : \/ unread'[q] \subseteq unread[q] \cup {x}
                                   \/ unread'[q] \subseteq dir
<1> DEFINE Grows(x) == /\ dir' \subseteq dir \cup {x}
                       /\ \A q \in Proc : \/ unread'[q] \subseteq unread[q] \cup {x}
                                          \/ unread'[q] \subseteq dir
<1>1. ASSUME NEW p \in Proc, Visit(p) PROVE Grows(Foreign)
  BY <1>1 DEF Visit, OpenTemp, OpenTempFails, CloseTemp, WaitForWriteLock, Rename, NoRename,
     Leave, RemoveWriteLock, RemoveOwn, Wait, Write, vars
<1>2. ASSUME NEW p \in Proc, Scan(p) PROVE Grows(Foreign)
  <2>1. CASE OpenScan(p)
    BY <2>1 DEF OpenScan, TypeOK
  <2>2. CASE ScanUnparsable(p) \/ ScanDefers(p)
    BY <2>2 DEF ScanUnparsable, ScanDefers, Fail, Decide, Return, TypeOK
  <2>3. ASSUME NEW l \in unread[p], ScanStale(p, l) \/ ScanLive(p, l) \/ ScanVanished(p, l)
        PROVE  Grows(Foreign)
    BY <2>3 DEF ScanStale, ScanLive, ScanVanished, ScanEntry, TypeOK
  <2> QED
    BY <1>2, <2>1, <2>2, <2>3 DEF Scan
<1>3. ASSUME NEW p \in Proc, Rescan(p) PROVE Grows(Foreign)
  <2>1. CASE RescanUnparsable(p) \/ RescanWins(p)
    BY <2>1 DEF RescanUnparsable, RescanWins, RemoveOwn, Fail, Decide, Return, TypeOK
  <2>2. ASSUME NEW l \in unread[p], RescanPasses(p, l) PROVE Grows(Foreign)
    BY <2>2 DEF RescanPasses, TypeOK
  <2>3. ASSUME NEW l \in unread[p], RescanYields(p, l) PROVE Grows(Foreign)
    BY <2>3 DEF RescanYields, RemoveOwn, Decide, Return, TypeOK
  <2> QED
    BY <1>3, <2>1, <2>2, <2>3 DEF Rescan
<1>4. ASSUME NEW p \in Proc, Stamp(p) \/ Commit(p) \/ Wake(p) \/ Claim(p) PROVE Grows(Foreign)
  BY <1>4 DEF Stamp, Commit, Wake, Claim, TypeOK
<1>5. ASSUME NEW p \in Proc, CreateFails(p) \/ OpendirFails(p) PROVE Grows(Foreign)
  BY <1>5 DEF CreateFails, OpendirFails, Fail, Return, TypeOK
<1>6. ASSUME NEW p \in Proc, Create(p) PROVE Grows(cand[p])
  BY <1>6 DEF Create, TypeOK
<1>7. ASSUME NEW p \in Proc, Signal(p) \/ Kill(p) PROVE Grows(Foreign)
  BY <1>7 DEF Signal, Kill, Vanish, TypeOK
<1>8. CASE Tick \/ DropForeign \/ AllDone \/ UNCHANGED allvars
  BY <1>8 DEF Tick, DropForeign, AllDone, allvars, vars
<1> QED
  BY <1>1, <1>2, <1>3, <1>4, <1>5, <1>6, <1>7, <1>8
     DEF HopsNext, TakeLock, Handler, Environment

LEMMA FiniteStep == ASSUME TypeOK, Finite, [HopsNext]_allvars PROVE Finite'
<1>1. PICK x : /\ dir' \subseteq dir \cup {x}
               /\ \A q \in Proc : \/ unread'[q] \subseteq unread[q] \cup {x}
                                  \/ unread'[q] \subseteq dir
  BY EntriesSteps
<1>2. ASSUME NEW S, IsFiniteSet(S), NEW T, T \subseteq S \cup {x} PROVE IsFiniteSet(T)
  BY <1>2, FS_AddElement, FS_Subset
<1>3. IsFiniteSet(dir')
  BY <1>1, <1>2 DEF Finite
<1>4. ASSUME NEW q \in Proc PROVE IsFiniteSet(unread'[q])
  BY <1>1, <1>2 DEF Finite
<1> QED
  BY <1>3, <1>4 DEF Finite

ToilNumbers(p) ==
  /\ VisitsLeft(p) \in Nat /\ PartsLeft(p) \in Nat /\ AttemptsLeft(p) \in Nat
  /\ StepsLeft(p) \in Nat /\ EntriesLeft(p) \in Nat
  /\ Toil(p) \in Toils

LEMMA ToilTyped == HopsTypeOK /\ Finite => \A p \in Proc : ToilNumbers(p)
<1> SUFFICES ASSUME HopsTypeOK, Finite, NEW p \in Proc PROVE ToilNumbers(p)
  OBVIOUS
<1>1. /\ pc[p] \in PC /\ checks[p] \in 0..(Timeout - 1) /\ Timeout \in Nat
      /\ stage[p] \in {"idle", "data", "lock"} /\ round[p] \in 1..(Rounds + 1) /\ Rounds \in Nat
  BY ConstantsAssumption, RoundsAssumption DEF HopsTypeOK, TypeOK
<1>2. VisitsLeft(p) \in Nat /\ AttemptsLeft(p) \in Nat
  BY <1>1 DEF VisitsLeft, AttemptsLeft
<1>3. PartsLeft(p) \in Nat
  BY <1>1 DEF PartsLeft
<1>4. StepsLeft(p) \in Nat
  BY <1>1 DEF StepsLeft, PC, Running, Gone
<1>5. EntriesLeft(p) \in Nat
  BY FS_CardinalityType DEF EntriesLeft, Finite
<1>6. Toil(p) \in Toils
  BY <1>2, <1>3, <1>4, <1>5 DEF Toil, Toils
<1> QED
  BY <1>2, <1>3, <1>4, <1>5, <1>6 DEF ToilNumbers

LEMMA ToilTypedNext == HopsTypeOK' /\ Finite' => \A p \in Proc : ToilNumbers(p)'
<1>1. (HopsTypeOK /\ Finite => \A p \in Proc : ToilNumbers(p))'
  BY ToilTyped, PTL
<1> QED
  BY <1>1

LEMMA LighterFirst ==
  ASSUME NEW a \in Toils, NEW b \in Toils, NEW k \in 1..5,
         a[k] < b[k], \A j \in 1..(k - 1) : a[j] = b[j]
  PROVE  <<a, b>> \in Lighter
<1>1. <<a[k], b[k]>> \in OpToRel(<, Nat)
  BY DEF OpToRel, Toils
<1> QED
  BY <1>1 DEF Lighter, LexProductOrdering, Toils

\* one of the numbers gets less, and the weightier ones stay
Lessens(p) ==
  \/ VisitsLeft(p)' < VisitsLeft(p)
  \/ /\ VisitsLeft(p)' = VisitsLeft(p)
     /\ \/ PartsLeft(p)' < PartsLeft(p)
        \/ /\ PartsLeft(p)' = PartsLeft(p)
           /\ \/ AttemptsLeft(p)' < AttemptsLeft(p)
              \/ /\ AttemptsLeft(p)' = AttemptsLeft(p)
                 /\ \/ StepsLeft(p)' < StepsLeft(p)
                    \/ StepsLeft(p)' = StepsLeft(p) /\ EntriesLeft(p)' < EntriesLeft(p)

LEMMA ToilCompared ==
  ASSUME NEW p \in Proc, ToilNumbers(p), ToilNumbers(p)', Lessens(p)
  PROVE  <<Toil(p)', Toil(p)>> \in Lighter
<1> DEFINE a == Toil(p)'
           b == Toil(p)
<1>1. a \in Toils /\ b \in Toils
  BY DEF ToilNumbers
<1>2. /\ a[1] = VisitsLeft(p)' /\ a[2] = PartsLeft(p)' /\ a[3] = AttemptsLeft(p)'
      /\ a[4] = StepsLeft(p)' /\ a[5] = EntriesLeft(p)'
      /\ b[1] = VisitsLeft(p) /\ b[2] = PartsLeft(p) /\ b[3] = AttemptsLeft(p)
      /\ b[4] = StepsLeft(p) /\ b[5] = EntriesLeft(p)
  BY DEF Toil
<1> HIDE DEF a, b
<1>3. \/ a[1] < b[1]
      \/ a[1] = b[1] /\ a[2] < b[2]
      \/ a[1] = b[1] /\ a[2] = b[2] /\ a[3] < b[3]
      \/ a[1] = b[1] /\ a[2] = b[2] /\ a[3] = b[3] /\ a[4] < b[4]
      \/ a[1] = b[1] /\ a[2] = b[2] /\ a[3] = b[3] /\ a[4] = b[4] /\ a[5] < b[5]
  BY <1>2, Zenon DEF Lessens
<1>4. \E k \in 1..5 : a[k] < b[k] /\ \A j \in 1..(k - 1) : a[j] = b[j]
  BY <1>3
<1> QED
  BY <1>1, <1>4, LighterFirst DEF a, b

(* The steps of a process in Visit.                                           *)

\* an attempt that ends is counted, or was the last
LEMMA AttemptEnds ==
  ASSUME TypeOK, NEW p \in Proc, pc[p] \in Trying,
         Fail(p) \/ \E b \in BOOLEAN : Decide(p, b)
  PROVE  AttemptsLeft(p)' < AttemptsLeft(p)
<1>1. checks[p] \in 0..(Timeout - 1) /\ Timeout \in Nat \ {0}
  BY ConstantsAssumption DEF TypeOK
<1>2. AttemptsLeft(p) = Timeout - checks[p] /\ AttemptsLeft(p) > 0
  BY <1>1 DEF AttemptsLeft
<1>3. ASSUME NEW o \in {"claim", "timedout", "error"}, Return(p, o)
      PROVE  AttemptsLeft(p)' < AttemptsLeft(p)
  <2>1. pc'[p] = o
    BY <1>3 DEF Return, TypeOK
  <2>2. AttemptsLeft(p)' = 0
    BY <2>1 DEF AttemptsLeft, Trying
  <2> QED
    BY <1>2, <2>2
<1>4. CASE Fail(p)
  BY <1>3, <1>4 DEF Fail
<1>5. ASSUME NEW b \in BOOLEAN, Decide(p, b)
      PROVE  AttemptsLeft(p)' < AttemptsLeft(p)
  <2>1. CASE pc' = [pc EXCEPT ![p] = "asleep"] /\ checks' = [checks EXCEPT ![p] = @ + 1]
    <3>1. pc'[p] = "asleep" /\ checks'[p] = checks[p] + 1
      BY <2>1 DEF TypeOK
    <3>2. AttemptsLeft(p)' = Timeout - (checks[p] + 1)
      BY <3>1 DEF AttemptsLeft, Trying
    <3> QED
      BY <1>1, <1>2, <3>2
  <2> QED
    BY <1>3, <1>5, <2>1 DEF Decide
<1> QED
  BY <1>4, <1>5

\* a step from one place to the next within an attempt
LEMMA Onward ==
  ASSUME TypeOK, NEW p \in Proc, UNCHANGED visit, UNCHANGED checks,
         NEW to \in PC, pc' = [pc EXCEPT ![p] = to],
         \/ pc[p] = "idle" /\ to = "enter"
         \/ pc[p] = "asleep" /\ to = "enter"
         \/ pc[p] = "enter" /\ to = "scan"
         \/ pc[p] = "scan" /\ to = "create"
         \/ pc[p] = "create" /\ to = "commit"
         \/ pc[p] = "commit" /\ to = "rescan"
         \/ pc[p] = "claim" /\ to = "hold"
         \/ pc[p] = "hold" /\ to = "written"
  PROVE  Lessens(p)
<1>1. pc'[p] = to
  BY DEF TypeOK
<1>2. /\ VisitsLeft(p)' = VisitsLeft(p) /\ PartsLeft(p)' = PartsLeft(p)
  BY DEF visit, VisitsLeft, PartsLeft
<1>3. AttemptsLeft(p)' = AttemptsLeft(p)
  BY <1>1 DEF AttemptsLeft, Trying
<1>4. /\ pc[p] = "idle" => StepsLeft(p) = 10
      /\ pc[p] = "asleep" => StepsLeft(p) = 9
      /\ pc[p] = "enter" => StepsLeft(p) = 8
      /\ pc[p] = "scan" => StepsLeft(p) = 7
      /\ pc[p] = "create" => StepsLeft(p) = 6
      /\ pc[p] = "commit" => StepsLeft(p) = 5
      /\ pc[p] = "claim" => StepsLeft(p) = 3
      /\ pc[p] = "hold" => StepsLeft(p) = 2
  BY DEF StepsLeft, Gone
<1>5. /\ to = "enter" => StepsLeft(p)' = 8
      /\ to = "scan" => StepsLeft(p)' = 7
      /\ to = "create" => StepsLeft(p)' = 6
      /\ to = "commit" => StepsLeft(p)' = 5
      /\ to = "rescan" => StepsLeft(p)' = 4
      /\ to = "hold" => StepsLeft(p)' = 2
      /\ to = "written" => StepsLeft(p)' = 1
  BY <1>1 DEF StepsLeft, Gone
<1>6. StepsLeft(p)' < StepsLeft(p)
  BY <1>4, <1>5
<1> QED
  BY <1>2, <1>3, <1>6 DEF Lessens

\* an entry that was read
LEMMA EntryRead ==
  ASSUME TypeOK, Finite, NEW p \in Proc, NEW l \in unread[p], UNCHANGED visit,
         UNCHANGED <<pc, checks>>, unread' = [unread EXCEPT ![p] = @ \ {l}]
  PROVE  Lessens(p)
<1>1. /\ VisitsLeft(p)' = VisitsLeft(p) /\ PartsLeft(p)' = PartsLeft(p)
      /\ AttemptsLeft(p)' = AttemptsLeft(p) /\ StepsLeft(p)' = StepsLeft(p)
  BY DEF visit, VisitsLeft, PartsLeft, AttemptsLeft, StepsLeft
<1>2. unread'[p] = unread[p] \ {l} /\ IsFiniteSet(unread[p])
  BY DEF TypeOK, Finite
<1>3. Cardinality(unread[p] \ {l}) = Cardinality(unread[p]) - 1 /\ Cardinality(unread[p]) \in Nat
  BY <1>2, FS_RemoveElement, FS_CardinalityType
<1>4. EntriesLeft(p)' = Cardinality(unread[p]) - 1
  BY <1>2, <1>3 DEF EntriesLeft
<1>5. EntriesLeft(p)' < EntriesLeft(p)
  BY <1>3, <1>4 DEF EntriesLeft
<1> QED
  BY <1>1, <1>5 DEF Lessens

LEMMA LockShortens ==
  ASSUME TypeOK, Finite, NEW p \in Proc, TakeLock(p) \/ WaitForWriteLock(p)
  PROVE  Lessens(p)
<1>0. UNCHANGED visit
  BY DEF TakeLock, WaitForWriteLock
<1>1. ASSUME pc[p] \in Trying, Fail(p) \/ \E b \in BOOLEAN : Decide(p, b)
      PROVE  Lessens(p)
  <2>1. VisitsLeft(p)' = VisitsLeft(p) /\ PartsLeft(p)' = PartsLeft(p)
    BY <1>0 DEF visit, VisitsLeft, PartsLeft
  <2>2. AttemptsLeft(p)' < AttemptsLeft(p)
    BY <1>1, AttemptEnds
  <2> QED
    BY <2>1, <2>2 DEF Lessens
<1>2. CASE OpenScan(p) \/ Stamp(p) \/ Create(p) \/ Commit(p) \/ Wake(p) \/ Claim(p) \/ Wait(p)
  <2>1. checks' = checks
    BY <1>2 DEF OpenScan, Stamp, Create, Commit, Wake, Claim, Wait
  <2>2. \E to \in {"enter", "scan", "create", "commit", "rescan", "hold"} :
          /\ pc' = [pc EXCEPT ![p] = to]
          /\ \/ pc[p] = "idle" /\ to = "enter"
             \/ pc[p] = "asleep" /\ to = "enter"
             \/ pc[p] = "enter" /\ to = "scan"
             \/ pc[p] = "scan" /\ to = "create"
             \/ pc[p] = "create" /\ to = "commit"
             \/ pc[p] = "commit" /\ to = "rescan"
             \/ pc[p] = "claim" /\ to = "hold"
    BY <1>2 DEF OpenScan, Stamp, Create, Commit, Wake, Claim, Wait
  <2> QED
    BY <1>0, <2>1, <2>2, Onward DEF PC, Running
<1>3. CASE CreateFails(p) \/ OpendirFails(p) \/ ScanUnparsable(p) \/ RescanUnparsable(p)
  BY <1>1, <1>3 DEF CreateFails, OpendirFails, ScanUnparsable, RescanUnparsable, Trying
<1>4. CASE ScanDefers(p) \/ RescanWins(p)
  BY <1>1, <1>4 DEF ScanDefers, RescanWins, Trying
<1>5. ASSUME NEW l \in unread[p],
             ScanStale(p, l) \/ ScanLive(p, l) \/ ScanVanished(p, l) \/ RescanPasses(p, l)
      PROVE  Lessens(p)
  BY <1>0, <1>5, EntryRead DEF ScanStale, ScanLive, ScanVanished, ScanEntry, RescanPasses
<1>6. ASSUME NEW l \in unread[p], RescanYields(p, l) PROVE Lessens(p)
  BY <1>1, <1>6 DEF RescanYields, Trying
<1> QED
  BY <1>2, <1>3, <1>4, <1>5, <1>6 DEF TakeLock, WaitForWriteLock, Handler, Scan, Rescan

LEMMA OwnStepsShorten ==
  ASSUME HopsTypeOK, Finite, NEW p \in Proc, Visit(p) \/ TakeLock(p)
  PROVE  Lessens(p)
<1>0. TypeOK /\ stage \in [Proc -> {"idle", "data", "lock"}] /\ round \in [Proc -> 1..(Rounds + 1)]
  BY DEF HopsTypeOK
<1>1. CASE TakeLock(p) \/ WaitForWriteLock(p)
  BY <1>0, <1>1, LockShortens
<1>2. CASE OpenTemp(p) \/ OpenTempFails(p) \/ CloseTemp(p)
  <2>1. VisitsLeft(p)' = VisitsLeft(p)
    BY <1>2 DEF OpenTemp, OpenTempFails, CloseTemp, VisitsLeft
  <2>2. \/ stage[p] = "idle" /\ stage'[p] \in {"data", "lock"}
        \/ stage[p] = "data" /\ stage'[p] = "lock"
    BY <1>0, <1>2 DEF OpenTemp, OpenTempFails, CloseTemp
  <2>3. PartsLeft(p)' < PartsLeft(p)
    BY <2>2 DEF PartsLeft
  <2> QED
    BY <2>1, <2>3 DEF Lessens
<1>3. CASE Rename(p)
  <2>1. VisitsLeft(p)' = VisitsLeft(p) /\ PartsLeft(p)' = PartsLeft(p)
    BY <1>3 DEF Rename, VisitsLeft, PartsLeft
  <2>2. pc[p] = "hold" /\ pc'[p] = "written"
    BY <1>0, <1>3 DEF Rename, Write, TypeOK
  <2>3. AttemptsLeft(p)' = AttemptsLeft(p)
    BY <2>2 DEF AttemptsLeft, Trying
  <2>4. StepsLeft(p) = 2
    BY <2>2 DEF StepsLeft, Gone
  <2>5. StepsLeft(p)' = 1
    BY <2>2 DEF StepsLeft, Gone
  <2>6. StepsLeft(p)' < StepsLeft(p)
    BY <2>4, <2>5
  <2> QED
    BY <2>1, <2>3, <2>6 DEF Lessens
<1>4. CASE NoRename(p)
  BY <1>0, <1>4, Onward DEF NoRename, PC, Running
<1>5. CASE Leave(p)
  <2>1. round'[p] = round[p] + 1 /\ round[p] \in Nat
    BY <1>0, <1>5 DEF Leave
  <2>2. VisitsLeft(p)' = Rounds + 1 - (round[p] + 1)
    BY <2>1 DEF VisitsLeft
  <2>3. VisitsLeft(p)' < VisitsLeft(p)
    BY <2>1, <2>2, RoundsAssumption DEF VisitsLeft
  <2> QED
    BY <2>3 DEF Lessens
<1> QED
  BY <1>1, <1>2, <1>3, <1>4, <1>5 DEF Visit

(* What the others do is no business of a process, but for the entries that   *)
(* they create.                                                               *)
Apart(p) ==
  /\ round'[p] = round[p] /\ stage'[p] = stage[p]
  /\ pc'[p] = pc[p] /\ checks'[p] = checks[p]

LEMMA ToilKept ==
  ASSUME NEW p \in Proc, Apart(p), unread'[p] = unread[p]
  PROVE  Toil(p)' = Toil(p)
BY DEF Apart, Toil, VisitsLeft, PartsLeft, AttemptsLeft, StepsLeft, EntriesLeft

LEMMA EntryAdded ==
  ASSUME Finite, NEW p \in Proc, NEW q \in Proc \ {p}, Apart(p), pc[p] \in Scanning,
         pc[q] = "create", pc'[q] = "commit",
         NEW x, unread'[p] = unread[p] \cup {x}
  PROVE  Toil(p)' = Toil(p) \/ Interrupted(p)
<1>1. CASE x \in unread[p]
  <2>1. unread'[p] = unread[p]
    BY <1>1
  <2> QED
    BY <2>1, ToilKept
<1>2. CASE x \notin unread[p]
  <2>1. IsFiniteSet(unread[p])
    BY DEF Finite
  <2>2. Cardinality(unread[p] \cup {x}) = Cardinality(unread[p]) + 1
    BY <1>2, <2>1, FS_AddElement
  <2>3. EntriesLeft(p)' = EntriesLeft(p) + 1
    BY <2>2 DEF EntriesLeft
  <2>4. UNCHANGED <<VisitsLeft(p), PartsLeft(p), AttemptsLeft(p), StepsLeft(p)>>
    BY DEF Apart, VisitsLeft, PartsLeft, AttemptsLeft, StepsLeft
  <2> QED
    BY <2>3, <2>4 DEF Interrupted
<1> QED
  BY <1>1, <1>2

LEMMA OthersKeep ==
  ASSUME HopsTypeOK, Finite, NEW p \in Proc, NEW q \in Proc \ {p}, Visit(q) \/ TakeLock(q)
  PROVE  Toil(p)' = Toil(p) \/ Interrupted(p)
<1>0. TypeOK /\ stage \in [Proc -> {"idle", "data", "lock"}] /\ round \in [Proc -> 1..(Rounds + 1)]
  BY DEF HopsTypeOK
<1>1. CASE OpenTemp(q) \/ OpenTempFails(q) \/ CloseTemp(q)
  BY <1>0, <1>1, ToilKept DEF OpenTemp, OpenTempFails, CloseTemp, Apart, vars
<1>2. CASE WaitForWriteLock(q) \/ Rename(q) \/ NoRename(q) \/ Leave(q)
  <2>1. Apart(p) /\ unread'[p] = unread[p]
    BY <1>0, <1>2 DEF WaitForWriteLock, Wait, Rename, Write, NoRename, Leave, RemoveWriteLock,
       visit, TypeOK, Apart
  <2> QED
    BY <2>1, ToilKept
<1>3. CASE TakeLock(q)
  <2>1. round'[p] = round[p] /\ stage'[p] = stage[p]
    BY <1>3 DEF TakeLock, visit
  <2>2. ASSUME pc'[p] = pc[p], checks'[p] = checks[p], unread'[p] = unread[p]
        PROVE  Toil(p)' = Toil(p)
    BY <2>1, <2>2, ToilKept DEF Apart
  <2>3. ASSUME \/ Fail(q)
               \/ \E b \in BOOLEAN : Decide(q, b)
        PROVE  Toil(p)' = Toil(p)
    BY <1>0, <2>2, <2>3 DEF Fail, Decide, Return, TypeOK
  <2>4. CASE OpenScan(q) \/ Stamp(q) \/ Commit(q) \/ Wake(q) \/ Claim(q)
    <3>1. /\ pc' = [pc EXCEPT ![q] = pc'[q]] /\ checks' = checks
          /\ unread' = [unread EXCEPT ![q] = unread'[q]]
      BY <1>0, <2>4 DEF OpenScan, Stamp, Commit, Wake, Claim, TypeOK
    <3> QED
      BY <1>0, <2>2, <3>1 DEF TypeOK
  <2>5. CASE Create(q)
    <3>1. Apart(p)
      BY <1>0, <2>1, <2>5 DEF Create, TypeOK, Apart
    <3>2. CASE unread'[p] = unread[p]
      BY <3>1, <3>2, ToilKept
    <3>3. CASE unread'[p] # unread[p]
      <4>1. pc[p] \in Scanning /\ unread'[p] = unread[p] \cup {cand[q]}
        BY <2>5, <3>3 DEF Create
      <4>2. pc[q] = "create" /\ pc'[q] = "commit"
        BY <1>0, <2>5 DEF Create, TypeOK
      <4> QED
        BY <3>1, <4>1, <4>2, EntryAdded
    <3> QED
      BY <3>2, <3>3
  <2>6. CASE CreateFails(q) \/ OpendirFails(q) \/ ScanUnparsable(q) \/ RescanUnparsable(q)
    BY <2>3, <2>6 DEF CreateFails, OpendirFails, ScanUnparsable, RescanUnparsable
  <2>7. CASE ScanDefers(q) \/ RescanWins(q)
    BY <2>3, <2>7 DEF ScanDefers, RescanWins
  <2>8. ASSUME NEW l \in unread[q],
               ScanStale(q, l) \/ ScanLive(q, l) \/ ScanVanished(q, l) \/ RescanPasses(q, l)
        PROVE  Toil(p)' = Toil(p)
    BY <1>0, <2>2, <2>8
       DEF ScanStale, ScanLive, ScanVanished, ScanEntry, RescanPasses, TypeOK
  <2>9. ASSUME NEW l \in unread[q], RescanYields(q, l) PROVE Toil(p)' = Toil(p)
    BY <2>3, <2>9 DEF RescanYields
  <2> QED
    BY <1>3, <2>4, <2>5, <2>6, <2>7, <2>8, <2>9 DEF TakeLock, Handler, Scan, Rescan
<1> QED
  BY <1>1, <1>2, <1>3 DEF Visit

LEMMA EnvironmentKeeps ==
  ASSUME HopsTypeOK, NEW p \in Proc, Alive(p)', Environment
  PROVE  Toil(p)' = Toil(p)
<1>1. CASE Tick \/ DropForeign
  BY <1>1, ToilKept DEF Environment, visit, Tick, DropForeign, Apart
<1>2. ASSUME NEW q \in Proc, Signal(q) \/ Kill(q) PROVE Toil(p)' = Toil(p)
  <2>1. q # p
    BY <1>2 DEF Signal, Kill, Vanish, Alive, Running, HopsTypeOK, TypeOK
  <2>2. Apart(p) /\ unread'[p] = unread[p]
    BY <1>2, <2>1 DEF Signal, Kill, Vanish, Environment, visit, HopsTypeOK, TypeOK, Apart
  <2> QED
    BY <2>2, ToilKept
<1> QED
  BY <1>1, <1>2 DEF Environment

LEMMA ToilStep ==
  ASSUME HopsTypeOK, HopsTypeOK', Finite, Finite', HopsNext, NEW p \in Proc
  PROVE  /\ Visit(p) \/ TakeLock(p) => <<Toil(p)', Toil(p)>> \in Lighter
         /\ Alive(p)' => \/ Toil(p)' = Toil(p)
                         \/ <<Toil(p)', Toil(p)>> \in Lighter
                         \/ Interrupted(p)
<1>1. ToilNumbers(p) /\ ToilNumbers(p)'
  BY ToilTyped, ToilTypedNext
<1>2. ASSUME Visit(p) \/ TakeLock(p) PROVE <<Toil(p)', Toil(p)>> \in Lighter
  BY <1>1, <1>2, OwnStepsShorten, ToilCompared
<1>3. ASSUME NEW q \in Proc, Visit(q) \/ TakeLock(q), q # p
      PROVE  Toil(p)' = Toil(p) \/ Interrupted(p)
  BY <1>3, OthersKeep
<1>4. ASSUME Environment, Alive(p)' PROVE Toil(p)' = Toil(p)
  BY <1>4, EnvironmentKeeps
<1>5. ASSUME AllDone PROVE Toil(p)' = Toil(p)
  BY <1>5, ToilKept DEF AllDone, allvars, vars, visit, Apart
<1> QED
  BY <1>2, <1>3, <1>4, <1>5 DEF HopsNext

(* Every step that a process takes in Visit lessens its toil, and no other    *)
(* process, no failure and no tick of the clock adds to it, except that a     *)
(* scan in progress may return one more entry when another creates its lock   *)
(* file, which that one pays for with a step of its own: for any processes,   *)
(* clocks and limits only a process that is not scheduled, or a clock that    *)
(* stands still, can keep Visit from returning (wait_for_write_lock, at_front;*)
(* NoEndlessToil).                                                            *)
THEOREM OwnStepsCount ==
  HopsSpec => [](\A p \in Proc : Toil(p) \in Toils) /\ VisitsShorten
<1>1. HopsInit => Finite
  BY FS_EmptySet DEF HopsInit, Init, Finite
<1>2. HopsTypeOK /\ Finite /\ [HopsNext]_allvars => Finite'
  BY FiniteStep DEF HopsTypeOK
<1>3. HopsTypeOK /\ Finite => \A p \in Proc : Toil(p) \in Toils
  BY ToilTyped DEF ToilNumbers
<1>4. HopsTypeOK /\ HopsTypeOK' /\ Finite /\ Finite' /\ [HopsNext]_allvars =>
        [\A p \in Proc :
           /\ Visit(p) \/ TakeLock(p) => <<Toil(p)', Toil(p)>> \in Lighter
           /\ Alive(p)' => \/ Toil(p)' = Toil(p)
                           \/ <<Toil(p)', Toil(p)>> \in Lighter
                           \/ Interrupted(p)]_allvars
  BY ToilStep
<1>5. HopsSpec => []HopsTypeOK
  BY HopsTyped, PTL
<1> QED
  BY <1>1, <1>2, <1>3, <1>4, <1>5, PTL DEF HopsSpec, VisitsShorten
-----------------------------------------------------------------------------
(* MHO_MK4FringeExport::output.                                              *)

\* output returns with the lock on record: nothing in the directory changes, and
\* the process is no longer a holder
LEMMA ReturnKeeps ==
  ASSUME LockInv, NEW p \in Proc, ReturnWithoutRemoving(p)
  PROVE  LockInv'
<1> USE DEF ReturnWithoutRemoving, LockInv, Base
<1>1. TypeOK'
  BY DEF TypeOK, PC, Running
<1>2. Numbered'
  <2>1. PICK n \in Nat : NumberedTo(n)
    BY DEF Numbered
  <2>2. NumberedTo(n)'
    BY <2>1 DEF NumberedTo, TypeOK
  <2> QED  BY <2>2 DEF Numbered
<1>3. Owned' /\ Cleared'
  BY DEF Owned, Cleared, Holding, Alive, Running, TypeOK
<1>4. Calm
  BY CalmMove DEF Alive, Running, Holding, TypeOK
<1>5. Idle
  BY DEF Idle, Holder, Holding, TypeOK
<1> QED  BY <1>1, <1>2, <1>3, <1>4, <1>5, LockCalm

ExportTypes ==
  /\ left \in [Proc -> Nat]
  /\ writing \in [Proc -> BOOLEAN]
  /\ contents \in [files -> Content]

\* a process that has a file open is writing under the number it was given
Opened ==
  \A p \in Proc : Alive(p) /\ writing[p] => pc[p] = "written" /\ seqno[p] \in files

\* a file that a live process has begun and not ended is the one it has open
Begun ==
  \A n \in files :
    LET p == contents[n].by IN
    contents[n].state = "partial" /\ Alive(p) => writing[p] /\ seqno[p] = n

\* as long as the lock has been exclusive, nobody else has it open
Undisturbed ==
  exclusive =>
    \A p \in Proc : Alive(p) /\ writing[p]
      => contents[seqno[p]] = [by |-> p, state |-> "partial"]

FilesKnown == ExportTypes /\ Opened /\ Begun /\ Undisturbed

MInv == LockInv /\ FilesKnown

\* the files stay as they are, and no process that has one open moves on alive
LEMMA FilesKept ==
  ASSUME FilesKnown, left' \in [Proc -> Nat], writing' = writing, contents' = contents,
         files' = files, exclusive' => exclusive,
         \A q \in Proc : Alive(q)' =>
           /\ Alive(q)
           /\ writing[q] => pc'[q] = pc[q] /\ seqno'[q] = seqno[q]
  PROVE  FilesKnown'
<1> USE DEF FilesKnown
<1>1. ExportTypes' /\ Opened'
  BY DEF ExportTypes, Opened
<1>2. Begun'
  <2>1. \A n \in files : contents[n].by \in Proc
    BY DEF ExportTypes, Content
  <2> QED  BY <2>1 DEF Begun
<1>3. Undisturbed'
  BY DEF Undisturbed
<1> QED  BY <1>1, <1>2, <1>3

LEMMA MK4InductiveInit == MK4Init => MInv
<1> SUFFICES ASSUME MK4Init PROVE MInv
  OBVIOUS
<1>1. LockInv
  BY LockInit DEF MK4Init
<1>2. files = {}
  BY DEF MK4Init, Init
<1> QED  BY <1>1, <1>2, OutputsAssumption
         DEF MK4Init, MInv, FilesKnown, ExportTypes, Opened, Begun, Undisturbed

\* the steps that leave the files alone
LEMMA MK4LockSteps ==
  ASSUME MInv, NEW p \in Proc,
         MK4Wait(p) \/ MK4TakeLock(p) \/ ReturnWithoutRemoving(p) \/ OpenFringeFails(p)
           \/ RemoveLock(p)
  PROVE  MInv' /\ contents' = contents
<1> USE DEF MInv
\* what FilesKept needs of p: it has no file open
<1>1. ASSUME LockInv', writing' = writing, contents' = contents, left' \in [Proc -> Nat],
             files' = files, exclusive' => exclusive, Alive(p), pc[p] # "written" \/ ~writing[p],
             \A q \in Proc \ {p} : pc'[q] = pc[q] /\ seqno'[q] = seqno[q]
      PROVE  MInv'
  <2>1. ~writing[p]
    BY <1>1 DEF FilesKnown, Opened
  <2>2. \A q \in Proc : Alive(q)' => /\ Alive(q)
                                     /\ writing[q] => pc'[q] = pc[q] /\ seqno'[q] = seqno[q]
    BY <1>1, <2>1 DEF Alive
  <2> QED  BY <1>1, <2>2, FilesKept
<1>2. CASE MK4Wait(p)
  <2>1. LockInv'
    BY <1>2, LockStep DEF MK4Wait, Next, Caller
  <2>2. left' \in [Proc -> Nat]
    BY <1>2 DEF MK4Wait, FilesKnown, ExportTypes
  <2> QED  BY <1>1, <1>2, <2>1, <2>2
           DEF MK4Wait, Wait, Alive, Running, LockInv, Base, TypeOK
<1>3. CASE MK4TakeLock(p)
  <2>1. LockInv'
    BY <1>3, LockStep DEF MK4TakeLock, Next
  <2>2. /\ files' = files /\ (exclusive' => exclusive) /\ Alive(p) /\ pc[p] # "written"
        /\ \A q \in Proc \ {p} : pc'[q] = pc[q] /\ seqno'[q] = seqno[q]
    BY <1>3, HandlerLocal DEF MK4TakeLock, LockInv, Base
  <2>3. UNCHANGED <<left, writing, contents>>
    BY <1>3 DEF MK4TakeLock, export
  <2> QED  BY <1>1, <2>1, <2>2, <2>3 DEF FilesKnown, ExportTypes
<1>4. CASE ReturnWithoutRemoving(p)
  <2>1. LockInv'
    BY <1>4, ReturnKeeps
  <2> QED  BY <1>1, <1>4, <2>1 DEF ReturnWithoutRemoving, export, Alive, Running, LockInv,
              Base, TypeOK, FilesKnown, ExportTypes
<1>5. CASE OpenFringeFails(p)
  <2>1. LockInv'
    BY <1>5, HoldOnKeeps DEF OpenFringeFails
  <2> QED  BY <1>1, <1>5, <2>1 DEF OpenFringeFails, export, Alive, Running, LockInv,
              Base, TypeOK, FilesKnown, ExportTypes
<1>6. CASE RemoveLock(p)
  <2>1. LockInv'
    BY <1>6, LockStep DEF RemoveLock, Release, Next, Caller
  <2> QED  BY <1>1, <1>6, <2>1 DEF RemoveLock, RemoveWriteLock, export, Alive, Running,
              LockInv, Base, TypeOK, FilesKnown, ExportTypes
<1> QED  BY <1>2, <1>3, <1>4, <1>5, <1>6
         DEF MK4Wait, MK4TakeLock, ReturnWithoutRemoving, OpenFringeFails, RemoveLock, export

LEMMA MK4EnvironmentSteps ==
  ASSUME MInv, MK4Environment \/ UNCHANGED mk4vars
  PROVE  MInv' /\ contents' = contents
<1> USE DEF MInv
<1>1. LockInv'
  BY LockStep DEF MK4Environment, Next, mk4vars
<1>2. UNCHANGED <<left, writing, contents>> /\ files' = files /\ exclusive' = exclusive
  BY DEF MK4Environment, mk4vars, export, vars, Tick, DropForeign, Signal, Kill, Vanish
<1>3. \A q \in Proc : Alive(q)' => Alive(q) /\ pc'[q] = pc[q] /\ seqno'[q] = seqno[q]
  <2>1. CASE UNCHANGED mk4vars \/ Tick \/ DropForeign
    BY <2>1 DEF mk4vars, vars, Tick, DropForeign, Alive
  <2>2. ASSUME NEW p \in Proc, Signal(p) \/ Kill(p)
        PROVE  \A q \in Proc : Alive(q)' => Alive(q) /\ pc'[q] = pc[q] /\ seqno'[q] = seqno[q]
    BY <2>2 DEF Signal, Kill, Vanish, Alive, Running, LockInv, Base, TypeOK
  <2> QED  BY <2>1, <2>2 DEF MK4Environment
<1> QED  BY <1>1, <1>2, <1>3, FilesKept DEF FilesKnown, ExportTypes

\* fopen truncates: as long as the lock has been exclusive, there is nothing under
\* the number
LEMMA OpenFringeStep ==
  ASSUME MInv, NEW p \in Proc, OpenFringe(p)
  PROVE  /\ MInv'
         /\ exclusive' => \A n \in files : contents'[n] = contents[n]
<1> USE DEF MInv, OpenFringe, Write
<1>0. LockInv'
  BY LockStep DEF Next, Caller
<1> USE DEF LockInv, Base, TypeOK
<1>1. /\ pc[p] = "hold" /\ Alive(p) /\ Holder(p) /\ ~writing[p]
      /\ pc' = [pc EXCEPT ![p] = "written"] /\ seqno' = seqno /\ exclusive' = exclusive
      /\ files' = files \cup {seqno[p]}
  BY DEF Alive, Running, Holder, Holding, FilesKnown, Opened
<1>2. /\ contents'[seqno[p]] = [by |-> p, state |-> "partial"]
      /\ \A n \in files \ {seqno[p]} : contents'[n] = contents[n]
  BY <1>1
<1>3. ExportTypes'
  BY <1>1 DEF FilesKnown, ExportTypes, Content, FileState
<1>4. Opened'
  BY <1>1 DEF FilesKnown, ExportTypes, Opened, Alive
<1>5. Begun'
  BY <1>1, <1>2 DEF FilesKnown, ExportTypes, Content, Begun, Alive, Running
<1>6. Undisturbed'
  <2>1. ASSUME NEW q \in Proc, q # p, Alive(q)', writing'[q] PROVE ~exclusive
    <3>1. Alive(q) /\ writing[q]
      BY <1>1, <2>1 DEF Alive, FilesKnown, ExportTypes
    <3>2. Holder(q)
      BY <3>1 DEF FilesKnown, Opened, Holder, Holding
    <3> QED  BY <1>1, <2>1, <3>2 DEF OneHolder
  <2> QED  BY <1>1, <1>2, <2>1 DEF Undisturbed
<1>7. exclusive => seqno[p] \notin files
  BY <1>1 DEF UniqueWhileExclusive
<1> QED  BY <1>0, <1>1, <1>2, <1>3, <1>4, <1>5, <1>6, <1>7 DEF FilesKnown

\* what is closed is the file that the process has open; if it is not as the
\* process left it, the lock has not been exclusive
LEMMA CloseFringeStep ==
  ASSUME MInv, NEW p \in Proc, CloseFringe(p)
  PROVE  /\ MInv'
         /\ exclusive' => \A n \in files :
                            contents[n].state = "whole" => contents'[n] = contents[n]
<1> USE DEF MInv, CloseFringe, vars
<1>0. LockInv'
  BY LockStep
<1>1. /\ pc[p] = "written" /\ Alive(p) /\ Holder(p) /\ writing[p] /\ seqno[p] \in files
      /\ UNCHANGED <<pc, seqno, files, exclusive, left>>
  BY DEF Alive, Running, Holder, Holding, FilesKnown, Opened
<1>2. PICK s \in FileState \ {"partial"} :
        contents' = [contents EXCEPT ![seqno[p]].state = s]
  BY DEF FileState
<1>3. /\ contents'[seqno[p]].by = contents[seqno[p]].by
      /\ contents'[seqno[p]].state # "partial"
      /\ \A n \in files \ {seqno[p]} : contents'[n] = contents[n]
      /\ contents' \in [files -> Content]
  BY <1>1, <1>2 DEF FilesKnown, ExportTypes, Content
<1>4. ExportTypes' /\ Opened'
  BY <1>1, <1>3 DEF FilesKnown, ExportTypes, Opened, Alive
<1>5. Begun'
  BY <1>1, <1>3 DEF FilesKnown, ExportTypes, Content, Begun, Alive
<1>6. Undisturbed'
  <2>1. ASSUME NEW q \in Proc, Alive(q)', writing'[q] PROVE ~exclusive
    <3>1. q # p /\ Alive(q) /\ writing[q]
      BY <1>1, <2>1 DEF Alive, FilesKnown, ExportTypes
    <3>2. Holder(q)
      BY <3>1 DEF FilesKnown, Opened, Holder, Holding
    <3> QED  BY <1>1, <3>1, <3>2 DEF LockInv, OneHolder
  <2> QED  BY <1>1, <2>1 DEF Undisturbed
<1>7. exclusive => contents[seqno[p]].state = "partial"
  BY <1>1 DEF FilesKnown, Undisturbed
<1> QED  BY <1>0, <1>1, <1>3, <1>4, <1>5, <1>6, <1>7 DEF FilesKnown

LEMMA MK4InductiveStep ==
  MInv /\ [MK4Next]_mk4vars =>
    /\ MInv'
    /\ exclusive' => \A n \in files :
                       contents[n].state = "whole" => contents'[n] = contents[n]
<1> SUFFICES ASSUME MInv, [MK4Next]_mk4vars
             PROVE  /\ MInv'
                    /\ exclusive' => \A n \in files :
                         contents[n].state = "whole" => contents'[n] = contents[n]
  OBVIOUS
<1>1. CASE \E p \in Proc : OpenFringe(p) \/ CloseFringe(p)
  BY <1>1, OpenFringeStep, CloseFringeStep
<1>2. CASE ~\E p \in Proc : OpenFringe(p) \/ CloseFringe(p)
  <2>1. \/ MK4Environment \/ UNCHANGED mk4vars
        \/ \E p \in Proc : MK4Wait(p) \/ MK4TakeLock(p) \/ ReturnWithoutRemoving(p)
                           \/ OpenFringeFails(p) \/ RemoveLock(p)
    BY <1>2 DEF MK4Next, MK4Done, Output
  <2>2. MInv' /\ contents' = contents
    BY <2>1, MK4LockSteps, MK4EnvironmentSteps
  <2> QED  BY <2>2
<1> QED  BY <1>1, <1>2

LEMMA MK4Inductive == MK4Spec => []MInv
BY MK4InductiveInit, MK4InductiveStep, PTL DEF MK4Spec

(* Every variable has its type; every fringe file has contents, and of one    *)
(* process (output, write_mk4fringe).                                         *)
THEOREM MK4Typed == MK4Spec => []MK4TypeOK
<1>1. MInv => MK4TypeOK
  BY DEF MInv, FilesKnown, ExportTypes, MK4TypeOK, LockInv, Base
<1> QED  BY <1>1, MK4Inductive, PTL

(* The guarantees of the lock do not depend on its being given back: they     *)
(* hold for output, which returns with the lock on four paths.                *)
THEOREM MK4LockKept ==
  MK4Spec => [](ExclusionUnlessOvertaken /\ LiveLockKept /\ UniqueWhileExclusive)
<1>1. MInv => ExclusionUnlessOvertaken /\ LiveLockKept /\ UniqueWhileExclusive
  BY ArbitrationSuffices, KeptSuffices DEF MInv, LockInv
<1> QED  BY <1>1, MK4Inductive, PTL

(* A process that keeps its lock makes no second one while the first is       *)
(* there, however often it returns without removing it (output, at_front).    *)
THEOREM OneLockOnly == MK4Spec => []OneLockEach
<1>1. MInv => OneLockEach
  BY DEF MInv, LockInv, OneLock, OwnLock, OneLockEach
<1> QED  BY <1>1, MK4Inductive, PTL

(* A fringe file that a live process is still writing has the lock file of    *)
(* its writer beside it, or that file was old (output, remove_lockfile).      *)
THEOREM UnfinishedIsLocked == MK4Spec => []PartialIsLocked
<1>1. MInv => PartialIsLocked
  <2> SUFFICES ASSUME MInv, NEW n \in files, contents[n].state = "partial",
                      Alive(contents[n].by)
               PROVE  LET p == contents[n].by IN
                      /\ mine[p] # NoLock
                      /\ mine[p] \in dir \/ \E q \in Proc : Aged(q, mine[p])
    BY DEF PartialIsLocked
  <2> DEFINE p == contents[n].by
  <2>1. p \in Proc /\ pc[p] = "written"
    BY DEF MInv, FilesKnown, ExportTypes, Content, Begun, Opened
  <2>2. mine[p] # NoLock /\ HasLock(p)
    BY <2>1 DEF MInv, LockInv, Base, Owned, Holding, HasLock, OwnLock
  <2> QED  BY <2>1, <2>2 DEF MInv, LockInv, Kept
<1> QED  BY <1>1, MK4Inductive, PTL

(* As long as the lock has been exclusive, no fringe file that is complete is *)
(* written again, although the files are opened under their final names.      *)
THEOREM WholeFilesKept == MK4Spec => WholeKept
BY MK4Inductive, MK4InductiveStep, PTL DEF MK4Spec, WholeKept
=============================================================================
