--------------------------- MODULE WriteLockProofs ---------------------------
(* Proofs about WriteLock, for any processes, machines, clocks and limits. *)
EXTENDS WriteLock, FiniteSetTheorems, TLAPS

-----------------------------------------------------------------------------
(* Types.  That get_max_seq_number is defined needs the numbering of the     *)
(* files, and that a lock file has a name needs to know where a process has  *)
(* one: the three are proved together.                                       *)

\* The files are numbered 1..n, and a process that has a number was given one
\* of them or the next
NumberedTo(n) ==
  /\ files = 1..n
  /\ \A p \in Proc : pc[p] = "hold" => seqno[p] \in 1..(n + 1)

Numbered == \E n \in Nat : NumberedTo(n)

\* The lock a process has on record, or is about to record, is its own
Owned ==
  \A p \in Proc :
    /\ mine[p] # NoLock => mine[p].pid = p /\ Alive(p)
    /\ cand[p] # NoLock => cand[p].pid = p
    /\ pc[p] \in {"create", "commit"} => cand[p] # NoLock
    /\ pc[p] \in {"rescan"} \cup Holding => mine[p] # NoLock

Base == TypeOK /\ Numbered /\ Owned

\* The local variables that the end of an attempt touches
Local ==
  /\ pc \in [Proc -> PC]
  /\ checks \in [Proc -> 0..(Timeout - 1)]
  /\ unread \in [Proc -> SUBSET (Lock \cup {Foreign})]
  /\ alone \in [Proc -> BOOLEAN]
  /\ slept \in [Proc -> Nat]

LEMMA MaxOfInterval ==
  ASSUME NEW n \in Nat
  PROVE  MaxOf((1..n) \cup {0}) = n
<1> DEFINE S == (1..n) \cup {0}
<1>1. n \in S /\ \A k \in S : k \in Int /\ k <= n
  OBVIOUS
<1>2. PICK m \in S : m = MaxOf(S) /\ \A k \in S : k <= m
  BY <1>1 DEF MaxOf
<1>3. m = n
  BY <1>1, <1>2
<1> QED  BY <1>2, <1>3

LEMMA NextSeqIs ==
  ASSUME NEW n \in Nat, files = 1..n
  PROVE  NextSeq = n + 1
<1>1. files \cup {0} = (1..n) \cup {0}
  OBVIOUS
<1>2. MaxOf(files \cup {0}) = n
  BY <1>1, MaxOfInterval, Zenon
<1> QED  BY <1>2, Zenon DEF NextSeq

LEMMA ReturnLocal ==
  ASSUME TypeOK, NEW p \in Proc, NEW outcome \in PC, Return(p, outcome)
  PROVE  Local' /\ pc' = [pc EXCEPT ![p] = outcome]
<1>1. 0 \in 0..(Timeout - 1)
  BY ConstantsAssumption
<1> QED  BY <1>1 DEF TypeOK, Local, Return

LEMMA FailLocal ==
  ASSUME TypeOK, NEW p \in Proc, Fail(p)
  PROVE  /\ Local'
         /\ \E o \in {"timedout", "error"} : pc' = [pc EXCEPT ![p] = o]
<1>1. PICK o \in {"timedout", "error"} : Return(p, o)
  BY DEF Fail
<1>2. o \in PC
  BY DEF PC, Running
<1> QED  BY <1>1, <1>2, ReturnLocal

LEMMA DecideLocal ==
  ASSUME TypeOK, NEW p \in Proc, NEW b \in BOOLEAN, Decide(p, b)
  PROVE  /\ Local'
         /\ \E o \in {"timedout", IF b THEN "claim" ELSE "asleep"} :
              pc' = [pc EXCEPT ![p] = o]
<1>1. CASE checks[p] + 1 >= Timeout
  <2>1. Return(p, "timedout")
    BY <1>1 DEF Decide
  <2> QED  BY <2>1, ReturnLocal DEF PC, Running
<1>2. CASE ~(checks[p] + 1 >= Timeout) /\ b
  <2>1. Return(p, "claim")
    BY <1>2 DEF Decide
  <2> QED  BY <1>2, <2>1, ReturnLocal DEF PC, Running
<1>3. CASE ~(checks[p] + 1 >= Timeout) /\ ~b
  <2>1. checks[p] + 1 \in 0..(Timeout - 1)
    BY <1>3, ConstantsAssumption DEF TypeOK
  <2>2. /\ pc' = [pc EXCEPT ![p] = "asleep"]
        /\ checks' = [checks EXCEPT ![p] = checks[p] + 1]
        /\ slept' = [slept EXCEPT ![p] = clock]
        /\ unread' = [unread EXCEPT ![p] = {}]
        /\ alone' = [alone EXCEPT ![p] = TRUE]
    BY <1>3 DEF Decide
  <2>3. "asleep" \in PC
    BY DEF PC, Running
  <2> QED  BY <1>3, <2>1, <2>2, <2>3 DEF TypeOK, Local
<1> QED  BY <1>1, <1>2, <1>3

LEMMA TypeInit == Init => Base
<1> SUFFICES ASSUME Init PROVE Base
  OBVIOUS
<1> USE ConstantsAssumption
<1>1. TypeOK
  BY DEF Init, TypeOK, PC, Running
<1>2. Numbered
  <2>1. NumberedTo(0)
    BY DEF Init, NumberedTo
  <2> QED  BY <2>1 DEF Numbered
<1>3. Owned
  BY DEF Init, Owned, Holding
<1> QED  BY <1>1, <1>2, <1>3 DEF Base

LEMMA TypeStep == Base /\ [Next]_vars => TypeOK'
<1> SUFFICES ASSUME Base, [Next]_vars PROVE TypeOK'
  OBVIOUS
<1> USE ConstantsAssumption DEF Base
<1>1. NextSeq \in Nat
  <2>1. PICK n \in Nat : files = 1..n
    BY DEF Numbered, NumberedTo
  <2>2. NextSeq = n + 1
    BY <2>1, NextSeqIs
  <2> QED  BY <2>2
<1>2. ASSUME NEW p \in Proc PROVE Now(p) \in Nat
  BY DEF Now, TypeOK
<1>3. ASSUME Local', clock' = clock, NEW p \in Proc,
             dir' \subseteq dir, files' = files, seqno' = seqno,
             mine' = mine \/ mine' = [mine EXCEPT ![p] = NoLock],
             cand' = cand \/ cand' = [cand EXCEPT ![p] = NoLock],
             elder' = elder \/ elder' = [elder EXCEPT ![p] = {}],
             exclusive' \in BOOLEAN
      PROVE  TypeOK'
  BY <1>3 DEF TypeOK, Local
<1>4. CASE UNCHANGED vars
  BY <1>4 DEF TypeOK, vars
<1>5. CASE Tick
  BY <1>5 DEF TypeOK, Tick
<1>6. CASE DropForeign
  BY <1>6 DEF TypeOK, DropForeign
<1>7. ASSUME NEW p \in Proc, Scan(p) PROVE TypeOK'
  <2>1. CASE OpenScan(p)
    BY <2>1 DEF TypeOK, OpenScan, PC, Running
  <2>2. CASE ScanUnparsable(p)
    BY <1>3, <2>2, FailLocal DEF ScanUnparsable, TypeOK
  <2>3. CASE ScanDefers(p)
    BY <1>3, <2>3, DecideLocal DEF ScanDefers, TypeOK
  <2>4. ASSUME NEW l \in unread[p], ScanStale(p, l) PROVE TypeOK'
    BY <2>4 DEF TypeOK, ScanStale, ScanEntry
  <2>5. ASSUME NEW l \in unread[p], ScanLive(p, l) PROVE TypeOK'
    BY <2>5 DEF TypeOK, ScanLive, ScanEntry
  <2>6. ASSUME NEW l \in unread[p], ScanVanished(p, l) PROVE TypeOK'
    BY <2>6 DEF TypeOK, ScanVanished, ScanEntry
  <2> QED  BY <1>7, <2>1, <2>2, <2>3, <2>4, <2>5, <2>6 DEF Scan
<1>8. ASSUME NEW p \in Proc, Stamp(p) PROVE TypeOK'
  BY <1>2, <1>8 DEF TypeOK, Stamp, Lock, PC, Running
<1>9. ASSUME NEW p \in Proc, Create(p) PROVE TypeOK'
  <2>1. cand[p] \in Lock
    BY <1>9 DEF TypeOK, Owned, Create
  <2>2. dir' \subseteq Lock \cup {Foreign}
    BY <1>9, <2>1 DEF TypeOK, Create
  <2>3. unread' \in [Proc -> SUBSET (Lock \cup {Foreign})]
    BY <1>9, <2>1 DEF TypeOK, Create
  <2>4. elder' \in [Proc -> SUBSET (Lock \cup {Foreign})]
    BY <1>9, <2>1 DEF TypeOK, Create
  <2> QED  BY <1>9, <2>2, <2>3, <2>4 DEF TypeOK, Create, PC, Running
<1>10. ASSUME NEW p \in Proc, CreateFails(p) PROVE TypeOK'
  BY <1>3, <1>10, FailLocal DEF CreateFails, TypeOK
<1>11. ASSUME NEW p \in Proc, Commit(p) PROVE TypeOK'
  BY <1>11 DEF TypeOK, Commit, PC, Running
<1>12. ASSUME NEW p \in Proc, Rescan(p) PROVE TypeOK'
  <2>1. CASE RescanUnparsable(p)
    BY <1>3, <2>1, FailLocal DEF RescanUnparsable, RemoveOwn, TypeOK
  <2>2. CASE RescanWins(p)
    BY <1>3, <2>2, DecideLocal DEF RescanWins, TypeOK
  <2>3. ASSUME NEW l \in unread[p], RescanPasses(p, l) PROVE TypeOK'
    BY <2>3 DEF TypeOK, RescanPasses
  <2>4. ASSUME NEW l \in unread[p], RescanYields(p, l) PROVE TypeOK'
    BY <1>3, <2>4, DecideLocal DEF RescanYields, RemoveOwn, TypeOK
  <2> QED  BY <1>12, <2>1, <2>2, <2>3, <2>4 DEF Rescan
<1>13. ASSUME NEW p \in Proc, OpendirFails(p) PROVE TypeOK'
  BY <1>3, <1>13, FailLocal DEF OpendirFails, TypeOK
<1>14. ASSUME NEW p \in Proc, Wake(p) \/ Claim(p) PROVE TypeOK'
  <2>1. CASE Wake(p)
    BY <2>1 DEF TypeOK, Wake, PC, Running
  <2>2. CASE Claim(p)
    BY <1>1, <2>2 DEF TypeOK, Claim, PC, Running
  <2> QED  BY <1>14, <2>1, <2>2
<1>15. ASSUME NEW p \in Proc, Wait(p) \/ Write(p) \/ Release(p) PROVE TypeOK'
  <2>1. CASE Wait(p)
    BY <2>1 DEF TypeOK, Wait, PC, Running
  <2>2. CASE Write(p)
    BY <2>2 DEF TypeOK, Write, PC, Running
  <2>3. CASE Release(p)
    BY <2>3 DEF TypeOK, Release, RemoveWriteLock, RemoveOwn, PC, Running
  <2> QED  BY <1>15, <2>1, <2>2, <2>3
<1>16. ASSUME NEW p \in Proc, Exit(p) \/ Signal(p) \/ Kill(p) PROVE TypeOK'
  <2>1. PICK how \in Gone : Vanish(p, how) /\ dir' \subseteq dir
    BY <1>16 DEF Exit, Signal, Kill, Gone
  <2> QED  BY <2>1 DEF Vanish, TypeOK, PC
<1> QED  BY <1>4, <1>5, <1>6, <1>7, <1>8, <1>9, <1>10, <1>11, <1>12, <1>13,
            <1>14, <1>15, <1>16 DEF Next, Handler, Caller, Finished

LEMMA OwnedStep == Base /\ [Next]_vars => Owned'
<1> SUFFICES ASSUME Base, [Next]_vars PROVE Owned'
  OBVIOUS
<1> USE ConstantsAssumption DEF Base
\* p moves on, and nobody's lock changes
<1>1. ASSUME NEW p \in Proc, NEW o \in Running, Alive(p), pc' = [pc EXCEPT ![p] = o],
             mine' = mine, cand' = cand \/ cand' = [cand EXCEPT ![p] = NoLock],
             \/ o \notin {"create", "commit", "rescan"} \cup Holding
             \/ /\ pc[p] \in {"rescan"} \cup Holding
                /\ o \in {"rescan"} \cup Holding
      PROVE  Owned'
  BY <1>1 DEF TypeOK, Owned, Holding, Alive
\* p's lock is removed or forgotten
<1>2. ASSUME NEW p \in Proc, NEW o, pc' = [pc EXCEPT ![p] = o],
             mine' = [mine EXCEPT ![p] = NoLock],
             \/ cand' = cand
             \/ \E l \in {cand[p], NoLock} : cand' = [cand EXCEPT ![p] = l],
             o \notin {"create", "commit", "rescan"} \cup Holding
      PROVE  Owned'
  BY <1>2 DEF TypeOK, Owned, Holding, Alive
<1>3. CASE UNCHANGED vars \/ Tick \/ DropForeign
  BY <1>3 DEF Owned, vars, Tick, DropForeign, Alive
<1>4. ASSUME NEW p \in Proc, Scan(p) PROVE Owned'
  <2>1. CASE OpenScan(p)
    BY <1>1, <2>1 DEF OpenScan, Holding, Alive, Running
  <2>2. CASE ScanUnparsable(p)
    BY <1>1, <2>2, FailLocal DEF ScanUnparsable, Holding, Alive, Running
  <2>3. CASE ScanDefers(p)
    BY <1>1, <2>3, DecideLocal DEF ScanDefers, Holding, Alive, Running
  <2>4. ASSUME NEW l \in unread[p], ScanEntry(p, l) PROVE Owned'
    BY <2>4 DEF ScanEntry, Owned, Alive
  <2> QED  BY <1>4, <2>1, <2>2, <2>3, <2>4
           DEF Scan, ScanStale, ScanLive, ScanVanished
<1>5. ASSUME NEW p \in Proc, Stamp(p) PROVE Owned'
  <2>1. [pid |-> p, time |-> Now(p)] # NoLock
    BY <1>5, TypeStep DEF Stamp, TypeOK, Now, Lock
  <2> QED  BY <1>5, <2>1 DEF Stamp, TypeOK, Owned, Holding, Alive, Running
<1>6. ASSUME NEW p \in Proc, Create(p) PROVE Owned'
  BY <1>6 DEF Create, TypeOK, Owned, Holding, Alive, Running
<1>7. ASSUME NEW p \in Proc, CreateFails(p) PROVE Owned'
  BY <1>1, <1>7, FailLocal DEF CreateFails, Holding, Alive, Running
<1>8. ASSUME NEW p \in Proc, Commit(p) PROVE Owned'
  BY <1>8 DEF Commit, TypeOK, Owned, Holding, Alive, Running
<1>9. ASSUME NEW p \in Proc, Rescan(p) PROVE Owned'
  <2>1. CASE RescanUnparsable(p)
    BY <1>2, <2>1, FailLocal DEF RescanUnparsable, RemoveOwn, Holding
  <2>2. CASE RescanWins(p)
    <3>1. PICK o \in {"timedout", "claim"} : pc' = [pc EXCEPT ![p] = o]
      BY <2>2, DecideLocal DEF RescanWins
    <3>2. /\ o \in Running /\ Alive(p) /\ mine' = mine /\ cand' = cand
          /\ pc[p] \in {"rescan"} \cup Holding
          /\ \/ o \notin {"create", "commit", "rescan"} \cup Holding
             \/ o \in {"rescan"} \cup Holding
      BY <2>2, <3>1 DEF RescanWins, Holding, Alive, Running
    <3> QED  BY <1>1, <3>1, <3>2
  <2>3. ASSUME NEW l \in unread[p], RescanPasses(p, l) PROVE Owned'
    BY <2>3 DEF RescanPasses, Owned, Alive
  <2>4. ASSUME NEW l \in unread[p], RescanYields(p, l) PROVE Owned'
    BY <1>2, <2>4, DecideLocal DEF RescanYields, RemoveOwn, Holding
  <2> QED  BY <1>9, <2>1, <2>2, <2>3, <2>4 DEF Rescan
<1>10. ASSUME NEW p \in Proc, OpendirFails(p) PROVE Owned'
  <2>1. PICK o \in {"timedout", "error"} : pc' = [pc EXCEPT ![p] = o]
    BY <1>10, FailLocal DEF OpendirFails
  <2>2. CASE pc[p] = "enter"
    BY <1>1, <1>10, <2>1, <2>2 DEF OpendirFails, Holding, Alive, Running
  <2>3. CASE pc[p] = "commit"
    BY <1>2, <1>10, <2>1, <2>3 DEF OpendirFails, Holding
  <2> QED  BY <1>10, <2>2, <2>3 DEF OpendirFails
<1>11. ASSUME NEW p \in Proc, Wake(p) \/ Wait(p) \/ Claim(p) \/ Write(p)
       PROVE  Owned'
  BY <1>1, <1>11 DEF Wake, Wait, Claim, Write, Holding, Alive, Running
<1>12. ASSUME NEW p \in Proc, Release(p) PROVE Owned'
  BY <1>2, <1>12 DEF Release, RemoveWriteLock, RemoveOwn, Holding
<1>13. ASSUME NEW p \in Proc, Exit(p) \/ Signal(p) \/ Kill(p) PROVE Owned'
  <2>1. PICK how \in Gone : Vanish(p, how)
    BY <1>13 DEF Exit, Signal, Kill, Gone
  <2>2. \E l \in {cand[p], NoLock} : cand' = [cand EXCEPT ![p] = l]
    BY <2>1 DEF Vanish
  <2> QED  BY <1>2, <2>1, <2>2 DEF Vanish, Gone, Holding
<1> QED  BY <1>3, <1>4, <1>5, <1>6, <1>7, <1>8, <1>9, <1>10, <1>11, <1>12, <1>13
         DEF Next, Handler, Caller, Finished

LEMMA NumberedStep == Base /\ [Next]_vars => Numbered'
<1> SUFFICES ASSUME Base, [Next]_vars PROVE Numbered'
  OBVIOUS
<1> USE DEF Base
<1>1. PICK n \in Nat : NumberedTo(n)
  BY DEF Numbered
\* most steps write no file and give no number
<1>2. ASSUME files' = files, NEW p \in Proc, NEW o, o # "hold",
             \/ pc' = pc /\ seqno' = seqno
             \/ /\ pc' = [pc EXCEPT ![p] = o]
                /\ seqno' = seqno \/ seqno' = [seqno EXCEPT ![p] = 0]
      PROVE  Numbered'
  <2>1. NumberedTo(n)'
    BY <1>1, <1>2 DEF NumberedTo, TypeOK
  <2> QED  BY <2>1 DEF Numbered
<1>3. CASE UNCHANGED vars \/ Tick \/ DropForeign
  <2>1. NumberedTo(n)'
    BY <1>1, <1>3 DEF NumberedTo, vars, Tick, DropForeign
  <2> QED  BY <2>1 DEF Numbered
<1>4. ASSUME NEW p \in Proc, Scan(p) PROVE Numbered'
  <2>1. CASE OpenScan(p)
    BY <1>2, <2>1 DEF OpenScan
  <2>2. CASE ScanUnparsable(p)
    BY <1>2, <2>2, FailLocal DEF ScanUnparsable
  <2>3. CASE ScanDefers(p)
    BY <1>2, <2>3, DecideLocal DEF ScanDefers
  <2>4. ASSUME NEW l \in unread[p], ScanEntry(p, l) PROVE Numbered'
    BY <1>2, <2>4 DEF ScanEntry
  <2> QED  BY <1>4, <2>1, <2>2, <2>3, <2>4
           DEF Scan, ScanStale, ScanLive, ScanVanished
<1>5. ASSUME NEW p \in Proc, Stamp(p) \/ Create(p) \/ Commit(p) \/ Wake(p) \/ Wait(p)
      PROVE  Numbered'
  BY <1>2, <1>5 DEF Stamp, Create, Commit, Wake, Wait
<1>6. ASSUME NEW p \in Proc, CreateFails(p) \/ OpendirFails(p) PROVE Numbered'
  BY <1>2, <1>6, FailLocal DEF CreateFails, OpendirFails
<1>7. ASSUME NEW p \in Proc, Rescan(p) PROVE Numbered'
  <2>1. CASE RescanUnparsable(p)
    BY <1>2, <2>1, FailLocal DEF RescanUnparsable
  <2>2. CASE RescanWins(p)
    BY <1>2, <2>2, DecideLocal DEF RescanWins
  <2>3. ASSUME NEW l \in unread[p], RescanPasses(p, l) PROVE Numbered'
    BY <1>2, <2>3 DEF RescanPasses
  <2>4. ASSUME NEW l \in unread[p], RescanYields(p, l) PROVE Numbered'
    BY <1>2, <2>4, DecideLocal DEF RescanYields
  <2> QED  BY <1>7, <2>1, <2>2, <2>3, <2>4 DEF Rescan
<1>8. ASSUME NEW p \in Proc, Claim(p) PROVE Numbered'
  <2>1. NextSeq = n + 1
    BY <1>1, NextSeqIs DEF NumberedTo
  <2>2. NumberedTo(n)'
    BY <1>1, <1>8, <2>1 DEF NumberedTo, Claim, TypeOK
  <2> QED  BY <2>2 DEF Numbered
<1>9. ASSUME NEW p \in Proc, Write(p) PROVE Numbered'
  <2>1. seqno[p] \in 1..(n + 1) /\ files' = files \cup {seqno[p]}
    BY <1>1, <1>9 DEF NumberedTo, Write
  <2>2. CASE seqno[p] = n + 1
    <3>1. files' = 1..(n + 1)
      BY <1>1, <2>1, <2>2 DEF NumberedTo
    <3>2. NumberedTo(n + 1)'
      BY <1>1, <1>9, <3>1 DEF NumberedTo, Write, TypeOK
    <3> QED  BY <3>2 DEF Numbered
  <2>3. CASE seqno[p] # n + 1
    <3>1. files' = 1..n
      BY <1>1, <2>1, <2>3 DEF NumberedTo
    <3>2. NumberedTo(n)'
      BY <1>1, <1>9, <3>1 DEF NumberedTo, Write, TypeOK
    <3> QED  BY <3>2 DEF Numbered
  <2> QED  BY <2>2, <2>3
<1>10. ASSUME NEW p \in Proc, Release(p) PROVE Numbered'
  BY <1>2, <1>10 DEF Release, RemoveWriteLock
<1>11. ASSUME NEW p \in Proc, Exit(p) \/ Signal(p) \/ Kill(p) PROVE Numbered'
  BY <1>2, <1>11 DEF Exit, Signal, Kill, Vanish
<1> QED  BY <1>3, <1>4, <1>5, <1>6, <1>7, <1>8, <1>9, <1>10, <1>11
         DEF Next, Handler, Caller, Finished

-----------------------------------------------------------------------------
(* The steps, as far as the locks of the processes are concerned.            *)

\* the lock file a process is answerable for: the one it has just created, or
\* the one it has on record
OwnLock(p) == IF pc[p] = "commit" THEN cand[p] ELSE mine[p]

HasLock(p) == OwnLock(p) # NoLock

\* Every lock file of a live process is the one it has, and one that was struck
\* down by a signal has left at most the one it had not recorded
OneLock ==
  \A l \in dir \ {Foreign} :
    /\ Alive(l.pid) => l = OwnLock(l.pid)
    /\ pc[l.pid] = "signalled" => l = cand[l.pid]

\* In a calm step nobody gets a lock file, nor gets on with the one it has; a
\* lock file disappears with its owner's claim, or because it is old; and an
\* owner gives up its claim with the file, or is gone
Calm ==
  /\ clock' \in Nat /\ clock' >= clock
  /\ dir' \subseteq dir \cup {Foreign}
  /\ \A q \in Proc : HasLock(q)' =>
       /\ HasLock(q)
       /\ OwnLock(q)' = OwnLock(q)
       /\ mine'[q] = mine[q]
       /\ elder'[q] = elder[q]
       /\ pc'[q] = "rescan" => pc[q] = "rescan" /\ unread'[q] = unread[q]
       /\ Holder(q)' => Holder(q)
       /\ OwnLock(q) \in dir \ dir' => \E r \in Proc : Aged(r, OwnLock(q))
  /\ \A q \in Proc : HasLock(q) /\ ~HasLock(q)' =>
       \/ OwnLock(q) \notin dir'
       \/ pc'[q] \in {"killed", "exited"}
       \/ pc'[q] = "signalled" /\ cand'[q] = OwnLock(q)
  /\ \A q \in Proc : ~Alive(q) => pc'[q] = pc[q] /\ cand'[q] = cand[q]

LEMMA OwnLockOf ==
  ASSUME Base, NEW p \in Proc, HasLock(p)
  PROVE  OwnLock(p) \in Lock /\ OwnLock(p).pid = p /\ Alive(p)
BY DEF Base, TypeOK, Owned, HasLock, OwnLock, Alive, Running

\* p moves on and keeps the lock that it has, if any
LEMMA CalmMove ==
  ASSUME Base, NEW p \in Proc, NEW o, Alive(p), pc[p] # "commit",
         o \notin {"commit", "rescan"}, o \in Holding => pc[p] \in Holding,
         pc' = [pc EXCEPT ![p] = o],
         clock' = clock, dir' = dir, mine' = mine, elder' = elder,
         \A q \in Proc \ {p} : cand'[q] = cand[q] /\ unread'[q] = unread[q]
  PROVE  Calm
<1>1. clock \in Nat
  BY DEF Base, TypeOK
<1>2. ASSUME NEW q \in Proc
      PROVE  /\ HasLock(q)' = HasLock(q) /\ OwnLock(q)' = OwnLock(q)
             /\ pc'[q] = "rescan" => pc[q] = "rescan" /\ unread'[q] = unread[q]
             /\ Holder(q)' => Holder(q)
             /\ ~Alive(q) => pc'[q] = pc[q] /\ cand'[q] = cand[q]
  BY <1>2 DEF HasLock, OwnLock, Holder, Base, TypeOK
<1> QED  BY <1>1, <1>2 DEF Calm

\* p moves on and has no lock any more: it takes the file along, or is gone
LEMMA CalmLoss ==
  ASSUME Base, NEW p \in Proc, NEW o, Alive(p),
         o \notin {"commit", "rescan"} \cup Holding,
         pc' = [pc EXCEPT ![p] = o], clock' = clock, mine'[p] = NoLock,
         \A q \in Proc \ {p} : /\ mine'[q] = mine[q] /\ cand'[q] = cand[q]
                               /\ elder'[q] = elder[q] /\ unread'[q] = unread[q],
         \/ HasLock(p) /\ dir' = dir \ {OwnLock(p)}
         \/ ~HasLock(p) /\ dir' = dir
         \/ o \in {"killed", "exited"} /\ dir' = dir
         \/ o = "signalled" /\ cand'[p] = OwnLock(p) /\ dir' = dir
  PROVE  Calm
<1>1. clock \in Nat
  BY DEF Base, TypeOK
<1>2. pc'[p] = o /\ ~HasLock(p)' /\ ~Holder(p)'
  BY DEF HasLock, OwnLock, Holder, Base, TypeOK
<1>3. ASSUME NEW q \in Proc, q # p
      PROVE  /\ HasLock(q)' = HasLock(q) /\ OwnLock(q)' = OwnLock(q)
             /\ pc'[q] = pc[q] /\ Holder(q)' = Holder(q)
             /\ HasLock(q) => OwnLock(q) \notin dir \ dir'
  <2>1. pc'[q] = pc[q] /\ OwnLock(q)' = OwnLock(q)
    BY <1>3 DEF OwnLock, Base, TypeOK
  <2>2. HasLock(q) => OwnLock(q) \notin dir \ dir'
    BY <1>3, OwnLockOf
  <2> QED  BY <2>1, <2>2 DEF HasLock, Holder
<1> QED  BY <1>1, <1>2, <1>3 DEF Calm

LEMMA StepKinds ==
  ASSUME Base, OneLock, [Next]_vars
  PROVE  \/ Calm
         \/ \E p \in Proc : \/ Create(p) \/ Commit(p) \/ RescanWins(p)
                           \/ \E l \in unread[p] : RescanPasses(p, l)
<1> USE DEF Base
<1>0. clock \in Nat
  BY DEF TypeOK
<1>1. CASE UNCHANGED vars \/ Tick \/ DropForeign
  BY <1>0, <1>1 DEF Calm, HasLock, OwnLock, Holder, vars, Tick, DropForeign
<1>2. ASSUME NEW p \in Proc, Scan(p) PROVE Calm
  <2>1. CASE OpenScan(p)
    BY <2>1, CalmMove DEF OpenScan, Alive, Running, Holding, TypeOK
  <2>2. CASE ScanUnparsable(p)
    <3>1. PICK o \in {"timedout", "error"} : pc' = [pc EXCEPT ![p] = o]
      BY <2>2, FailLocal DEF ScanUnparsable
    <3> QED  BY <2>2, <3>1, CalmMove DEF ScanUnparsable, Fail, Return, Alive, Running,
                Holding, TypeOK
  <2>3. CASE ScanDefers(p)
    <3>1. PICK o \in {"timedout", "asleep"} : pc' = [pc EXCEPT ![p] = o]
      BY <2>3, DecideLocal DEF ScanDefers
    <3> QED  BY <2>3, <3>1, CalmMove DEF ScanDefers, Decide, Return, Alive, Running,
                Holding, TypeOK
  <2>4. ASSUME NEW l \in unread[p], ScanEntry(p, l)
        PROVE  /\ clock' = clock /\ mine' = mine /\ elder' = elder /\ pc' = pc /\ cand' = cand
               /\ \A q \in Proc : pc[q] = "rescan" => unread'[q] = unread[q]
    BY <2>4 DEF ScanEntry, TypeOK
  <2>5. ASSUME NEW l \in unread[p], ScanEntry(p, l), dir' = dir PROVE Calm
    BY <1>0, <2>4, <2>5 DEF Calm, HasLock, OwnLock, Holder
  <2>6. ASSUME NEW l \in unread[p], ScanStale(p, l) PROVE Calm
    <3>1. ASSUME NEW q \in Proc, HasLock(q), OwnLock(q) = l
          PROVE  Aged(p, l)
      BY <2>6, <3>1, OwnLockOf DEF ScanStale, CanSeemStale, ProbeDead
    <3>2. dir' = dir \ {l} /\ ScanEntry(p, l)
      BY <2>6 DEF ScanStale
    <3> QED  BY <1>0, <2>4, <3>1, <3>2 DEF Calm, HasLock, OwnLock, Holder
  <2> QED  BY <1>2, <2>1, <2>2, <2>3, <2>5, <2>6 DEF Scan, ScanLive, ScanVanished
<1>3. ASSUME NEW p \in Proc, Stamp(p) PROVE Calm
  BY <1>3, CalmMove DEF Stamp, Alive, Running, Holding, TypeOK
<1>4. ASSUME NEW p \in Proc, CreateFails(p) PROVE Calm
  <2>1. PICK o \in {"timedout", "error"} : pc' = [pc EXCEPT ![p] = o]
    BY <1>4, FailLocal DEF CreateFails
  <2> QED  BY <1>4, <2>1, CalmMove DEF CreateFails, Fail, Return, Alive, Running,
              Holding, TypeOK
<1>5. ASSUME NEW p \in Proc, RescanUnparsable(p) PROVE Calm
  <2>1. HasLock(p) /\ OwnLock(p) = mine[p] /\ Alive(p)
    BY <1>5 DEF RescanUnparsable, HasLock, OwnLock, Owned, Alive, Running
  <2>2. PICK o \in {"timedout", "error"} : pc' = [pc EXCEPT ![p] = o]
    BY <1>5, FailLocal DEF RescanUnparsable
  <2>3. \A q \in Proc \ {p} : unread'[q] = unread[q]
    BY <1>5 DEF RescanUnparsable, Fail, Return, TypeOK
  <2> QED  BY <1>5, <2>1, <2>2, <2>3, CalmLoss DEF RescanUnparsable, RemoveOwn,
              Holding, TypeOK
<1>6. ASSUME NEW p \in Proc, NEW l \in unread[p], RescanYields(p, l) PROVE Calm
  <2>1. HasLock(p) /\ OwnLock(p) = mine[p] /\ Alive(p)
    BY <1>6 DEF RescanYields, HasLock, OwnLock, Owned, Alive, Running
  <2>2. PICK o \in {"timedout", "asleep"} : pc' = [pc EXCEPT ![p] = o]
    BY <1>6, DecideLocal DEF RescanYields
  <2>3. \A q \in Proc \ {p} : unread'[q] = unread[q]
    BY <1>6 DEF RescanYields, Decide, Return, TypeOK
  <2> QED  BY <1>6, <2>1, <2>2, <2>3, CalmLoss DEF RescanYields, RemoveOwn,
              Holding, TypeOK
<1>7. ASSUME NEW p \in Proc, OpendirFails(p) PROVE Calm
  <2>1. PICK o \in {"timedout", "error"} : pc' = [pc EXCEPT ![p] = o]
    BY <1>7, FailLocal DEF OpendirFails
  <2>2. \A q \in Proc \ {p} : unread'[q] = unread[q]
    BY <1>7 DEF OpendirFails, Fail, Return, TypeOK
  <2>3. CASE pc[p] = "enter"
    BY <1>7, <2>1, <2>2, <2>3, CalmMove DEF OpendirFails, Alive, Running, Holding
  <2>4. CASE pc[p] = "commit"
    <3>1. HasLock(p) /\ OwnLock(p) = cand[p] /\ Alive(p)
      BY <2>4 DEF HasLock, OwnLock, Owned, Alive, Running
    <3> QED  BY <1>7, <2>1, <2>2, <2>4, <3>1, CalmLoss DEF OpendirFails, Holding, TypeOK
  <2> QED  BY <1>7, <2>3, <2>4 DEF OpendirFails
<1>8. ASSUME NEW p \in Proc, Wake(p) \/ Wait(p) \/ Claim(p) \/ Write(p) PROVE Calm
  BY <1>8, CalmMove DEF Wake, Wait, Claim, Write, Alive, Running, Holding
<1>9. ASSUME NEW p \in Proc, Release(p) PROVE Calm
  <2>1. HasLock(p) /\ OwnLock(p) = mine[p] /\ Alive(p)
    BY <1>9 DEF Release, HasLock, OwnLock, Owned, Holding, Alive, Running
  <2> QED  BY <1>9, <2>1, CalmLoss DEF Release, RemoveWriteLock, RemoveOwn,
              Holding, TypeOK
<1>10. ASSUME NEW p \in Proc, Exit(p) \/ Signal(p) \/ Kill(p) PROVE Calm
  <2>1. PICK how \in Gone : Vanish(p, how) /\ pc' = [pc EXCEPT ![p] = how]
    BY <1>10 DEF Exit, Signal, Kill, Gone, Vanish
  <2>2. how \notin {"commit", "rescan"} \cup Holding
    BY DEF Gone, Holding
  <2>3. /\ Alive(p) /\ clock' = clock /\ mine'[p] = NoLock
        /\ pc[p] = "commit" => cand'[p] = cand[p]
        /\ \A q \in Proc \ {p} : /\ mine'[q] = mine[q] /\ cand'[q] = cand[q]
                                 /\ elder'[q] = elder[q] /\ unread'[q] = unread[q]
    BY <2>1 DEF Vanish, TypeOK
  <2>4. pc'[p] = how
    BY <2>1 DEF TypeOK
  <2>5. CASE Exit(p) \/ Kill(p)
    <3>1. how \in {"killed", "exited"} /\ dir' = dir
      BY <2>4, <2>5 DEF Exit, Kill, Vanish, TypeOK
    <3> QED  BY <2>1, <2>2, <2>3, <3>1, CalmLoss
  <2>6. CASE Signal(p)
    <3>1. how = "signalled" /\ dir' = dir \ {mine[p]}
      BY <2>4, <2>6 DEF Signal, Vanish, TypeOK
    <3>2. CASE mine[p] = NoLock \/ mine[p] \notin dir
      <4>1. dir' = dir
        BY <3>1, <3>2, ConstantsAssumption DEF TypeOK, Lock
      <4>2. \/ ~HasLock(p)
            \/ pc[p] = "commit" /\ cand'[p] = OwnLock(p)
            \/ HasLock(p) /\ dir' = dir \ {OwnLock(p)}
        BY <2>3, <3>1 DEF HasLock, OwnLock
      <4> QED  BY <2>1, <2>2, <2>3, <3>1, <4>1, <4>2, CalmLoss
    <3>3. CASE mine[p] # NoLock /\ mine[p] \in dir
      <4>1. mine[p] # Foreign /\ mine[p].pid = p
        BY <3>3, ConstantsAssumption DEF TypeOK, Lock, Owned
      <4>2. mine[p] = OwnLock(p) /\ HasLock(p)
        BY <2>3, <3>3, <4>1 DEF OneLock, HasLock
      <4> QED  BY <2>1, <2>2, <2>3, <3>1, <4>2, CalmLoss
    <3> QED  BY <3>2, <3>3
  <2> QED  BY <1>10, <2>5, <2>6
<1> QED  BY <1>1, <1>2, <1>3, <1>4, <1>5, <1>6, <1>7, <1>8, <1>9, <1>10
         DEF Next, Handler, Caller, Finished, Rescan

-----------------------------------------------------------------------------
(* Each process has at most one lock file.                                   *)

\* A process that is about to create a lock file has none in the directory: the
\* first scan has returned the one on record, if it is still there
Cleared ==
  \A p \in Proc :
    /\ pc[p] = "scan" /\ alone[p] => mine[p] \notin dir \ unread[p]
    /\ pc[p] = "create" => mine[p] \notin dir

LEMMA ClearedStep == Base /\ Cleared /\ [Next]_vars => Cleared'
<1> SUFFICES ASSUME Base, Cleared, [Next]_vars PROVE Cleared'
  OBVIOUS
<1> USE DEF Base
\* p moves on to a place where it scans no more, or goes on scanning
<1>1. ASSUME NEW p \in Proc, NEW o, o \notin {"scan", "create"},
             pc' = [pc EXCEPT ![p] = o], dir' \subseteq dir,
             \A q \in Proc \ {p} : /\ mine'[q] = mine[q]
                                   /\ alone'[q] = alone[q] /\ unread'[q] = unread[q]
      PROVE  Cleared'
  BY <1>1 DEF Cleared, TypeOK
<1>2. CASE UNCHANGED vars \/ Tick \/ DropForeign
  BY <1>2, ConstantsAssumption DEF Cleared, vars, Tick, DropForeign, TypeOK, Lock
<1>3. ASSUME NEW p \in Proc, Scan(p) PROVE Cleared'
  <2>1. CASE OpenScan(p)
    BY <2>1 DEF OpenScan, Cleared, TypeOK
  <2>2. CASE ScanUnparsable(p)
    <3>1. PICK o \in {"timedout", "error"} : pc' = [pc EXCEPT ![p] = o]
      BY <2>2, FailLocal DEF ScanUnparsable
    <3> QED  BY <1>1, <2>2, <3>1 DEF ScanUnparsable, Fail, Return, TypeOK
  <2>3. CASE ScanDefers(p)
    <3>1. PICK o \in {"timedout", "asleep"} : pc' = [pc EXCEPT ![p] = o]
      BY <2>3, DecideLocal DEF ScanDefers
    <3> QED  BY <1>1, <2>3, <3>1 DEF ScanDefers, Decide, Return, TypeOK
  <2>4. ASSUME NEW l \in unread[p], ScanStale(p, l) \/ ScanLive(p, l) \/ ScanVanished(p, l)
        PROVE  Cleared'
    BY <2>4 DEF ScanStale, ScanLive, ScanVanished, ScanEntry, Cleared, TypeOK
  <2> QED  BY <1>3, <2>1, <2>2, <2>3, <2>4 DEF Scan
<1>4. ASSUME NEW p \in Proc, Stamp(p) PROVE Cleared'
  BY <1>4 DEF Stamp, Cleared, TypeOK
<1>5. ASSUME NEW p \in Proc, Create(p) PROVE Cleared'
  <2>1. cand[p] \in Lock /\ cand[p].pid = p
    BY <1>5 DEF Create, Owned, TypeOK
  <2>2. ASSUME NEW q \in Proc, q # p PROVE mine[q] # cand[p] /\ unread[q] \subseteq unread'[q]
    BY <1>5, <2>1, <2>2, ConstantsAssumption DEF Create, Owned, TypeOK, Lock
  <2> QED  BY <1>5, <2>1, <2>2 DEF Create, Cleared, TypeOK
<1>6. ASSUME NEW p \in Proc, CreateFails(p) \/ OpendirFails(p) PROVE Cleared'
  <2>1. PICK o \in {"timedout", "error"} : pc' = [pc EXCEPT ![p] = o]
    BY <1>6, FailLocal DEF CreateFails, OpendirFails
  <2> QED  BY <1>1, <1>6, <2>1 DEF CreateFails, OpendirFails, Fail, Return, TypeOK
<1>7. ASSUME NEW p \in Proc, Commit(p) \/ Wake(p) \/ Claim(p) \/ Wait(p) \/ Write(p) \/ Release(p)
      PROVE  Cleared'
  BY <1>1, <1>7 DEF Commit, Wake, Claim, Wait, Write, Release, RemoveWriteLock, RemoveOwn, TypeOK
<1>8. ASSUME NEW p \in Proc, Rescan(p) PROVE Cleared'
  <2>1. CASE RescanUnparsable(p)
    <3>1. PICK o \in {"timedout", "error"} : pc' = [pc EXCEPT ![p] = o]
      BY <2>1, FailLocal DEF RescanUnparsable
    <3> QED  BY <1>1, <2>1, <3>1 DEF RescanUnparsable, RemoveOwn, Fail, Return, TypeOK
  <2>2. CASE RescanWins(p)
    <3>1. PICK o \in {"timedout", "claim"} : pc' = [pc EXCEPT ![p] = o]
      BY <2>2, DecideLocal DEF RescanWins
    <3> QED  BY <1>1, <2>2, <3>1 DEF RescanWins, Decide, Return, TypeOK
  <2>3. ASSUME NEW l \in unread[p], RescanPasses(p, l) PROVE Cleared'
    BY <2>3 DEF RescanPasses, Cleared, TypeOK
  <2>4. ASSUME NEW l \in unread[p], RescanYields(p, l) PROVE Cleared'
    <3>1. PICK o \in {"timedout", "asleep"} : pc' = [pc EXCEPT ![p] = o]
      BY <2>4, DecideLocal DEF RescanYields
    <3> QED  BY <1>1, <2>4, <3>1 DEF RescanYields, RemoveOwn, Decide, Return, TypeOK
  <2> QED  BY <1>8, <2>1, <2>2, <2>3, <2>4 DEF Rescan
<1>9. ASSUME NEW p \in Proc, Exit(p) \/ Signal(p) \/ Kill(p) PROVE Cleared'
  <2>1. PICK how \in Gone : Vanish(p, how) /\ dir' \subseteq dir
    BY <1>9 DEF Exit, Signal, Kill, Gone
  <2> QED  BY <1>1, <2>1 DEF Vanish, Gone, TypeOK
<1> QED  BY <1>2, <1>3, <1>4, <1>5, <1>6, <1>7, <1>8, <1>9
         DEF Next, Handler, Caller, Finished

LEMMA OneLockCalm == Base /\ Base' /\ OneLock /\ Calm => OneLock'
<1> SUFFICES ASSUME Base, Base', OneLock, Calm, NEW l \in dir' \ {Foreign}
             PROVE  /\ Alive(l.pid)' => l = (OwnLock(l.pid))'
                    /\ pc'[l.pid] = "signalled" => l = cand'[l.pid]
  BY DEF OneLock
<1>1. l \in dir \ {Foreign} /\ l \in Lock /\ l # NoLock /\ l.pid \in Proc
  BY ConstantsAssumption DEF Calm, Base, TypeOK, Lock
<1>2. CASE Alive(l.pid)
  <2>1. l = OwnLock(l.pid) /\ HasLock(l.pid)
    BY <1>1, <1>2 DEF OneLock, HasLock
  <2>2. CASE HasLock(l.pid)'
    <3>1. l = (OwnLock(l.pid))' /\ Alive(l.pid)'
      BY <1>1, <2>1, <2>2 DEF Calm, Base, Owned, HasLock, OwnLock, Alive, Running
    <3> QED  BY <3>1 DEF Alive, Running
  <2>3. CASE ~HasLock(l.pid)'
    BY <1>1, <2>1, <2>3 DEF Calm, Alive, Running
  <2> QED  BY <2>2, <2>3
<1>3. CASE ~Alive(l.pid)
  BY <1>1, <1>3 DEF OneLock, Calm, Alive
<1> QED  BY <1>2, <1>3

LEMMA OneLockStep ==
  Base /\ Base' /\ OneLock /\ Cleared /\ [Next]_vars => OneLock'
<1> SUFFICES ASSUME Base, Base', OneLock, Cleared, [Next]_vars
             PROVE  OneLock'
  OBVIOUS
<1>1. CASE Calm
  BY <1>1, OneLockCalm
<1>2. ASSUME NEW p \in Proc, Create(p) PROVE OneLock'
  <2>1. cand[p] \in Lock /\ cand[p].pid = p /\ pc[p] = "create"
    BY <1>2 DEF Create, Base, Owned, TypeOK
  <2>2. ASSUME NEW l \in dir \ {Foreign} PROVE l.pid # p /\ l.pid \in Proc
    BY <1>2, <2>1, <2>2 DEF OneLock, Cleared, OwnLock, Alive, Running, Base, TypeOK, Lock
  <2> QED  BY <1>2, <2>1, <2>2 DEF Create, OneLock, OwnLock, Alive, Base, TypeOK
<1>3. ASSUME NEW p \in Proc, Commit(p) PROVE OneLock'
  BY <1>3 DEF Commit, OneLock, OwnLock, Alive, Running, Base, TypeOK, Lock
<1>4. ASSUME NEW p \in Proc, RescanWins(p) \/ \E l \in unread[p] : RescanPasses(p, l)
      PROVE  OneLock'
  <2>1. /\ pc[p] = "rescan" /\ dir' = dir /\ mine' = mine /\ cand' = cand
        /\ \E o \in {"rescan", "claim", "timedout"} : pc' = [pc EXCEPT ![p] = o]
    <3>1. CASE RescanWins(p)
      BY <3>1, DecideLocal DEF RescanWins, Base
    <3>2. CASE \E l \in unread[p] : RescanPasses(p, l)
      BY <3>2 DEF RescanPasses, Base, TypeOK
    <3> QED  BY <1>4, <3>1, <3>2
  <2> QED  BY <2>1 DEF OneLock, OwnLock, Alive, Running, Base, TypeOK, Lock
<1> QED  BY <1>1, <1>2, <1>3, <1>4, StepKinds

(***************************************************************************)
(* No live process loses a lock file that is not old.                      *)
(***************************************************************************)
Kept ==
  \A p \in Proc : HasLock(p) =>
    \A l \in {mine[p], OwnLock(p)} \ ({NoLock} \cup dir) : \E q \in Proc : Aged(q, l)

LEMMA AgedStays ==
  ASSUME Base, NEW l \in Lock, clock' \in Nat, clock' >= clock, \E q \in Proc : Aged(q, l)
  PROVE  (\E q \in Proc : Aged(q, l))'
<1>1. PICK q \in Proc : Aged(q, l)
  OBVIOUS
<1>2. /\ clock \in Nat /\ Skew[HostOf[q]] \in Nat /\ l.time \in Nat /\ StaleAge \in Nat
      /\ (clock + Skew[HostOf[q]]) - l.time > StaleAge
  BY <1>1, ConstantsAssumption DEF Base, TypeOK, Lock, Aged, Now
<1>3. (clock' + Skew[HostOf[q]]) - l.time > StaleAge
  BY <1>2
<1>4. Aged(q, l)'
  BY <1>3, Zenon DEF Aged, Now
<1> QED  BY <1>4

\* p has the locks it had, and those that are gone were old
LEMMA AgedKept ==
  ASSUME Base, OneLock, Kept, NEW p \in Proc, HasLock(p),
         clock' \in Nat, clock' >= clock,
         NEW l \in {mine[p], OwnLock(p)} \ {NoLock}, l \notin dir',
         OwnLock(p) \in dir \ dir' => \E q \in Proc : Aged(q, OwnLock(p))
  PROVE  (\E q \in Proc : Aged(q, l))'
<1>1. l \in Lock /\ l.pid = p /\ Alive(p) /\ l # Foreign
  BY OwnLockOf, ConstantsAssumption DEF Base, TypeOK, Owned, Lock
<1>2. CASE l \notin dir
  BY <1>1, <1>2, AgedStays DEF Kept
<1>3. CASE l \in dir
  <2>1. l = OwnLock(p)
    BY <1>1, <1>3 DEF OneLock
  <2> QED  BY <1>1, <1>3, <2>1, AgedStays
<1> QED  BY <1>2, <1>3

LEMMA KeptCalm == Base /\ OneLock /\ Kept /\ Calm => Kept'
<1> SUFFICES ASSUME Base, OneLock, Kept, Calm, NEW p \in Proc, HasLock(p)',
                    NEW l \in {mine'[p], OwnLock(p)'} \ ({NoLock} \cup dir')
             PROVE  (\E q \in Proc : Aged(q, l))'
  BY DEF Kept
<1> QED  BY AgedKept DEF Calm

LEMMA KeptStep == Base /\ OneLock /\ Kept /\ [Next]_vars => Kept'
<1> SUFFICES ASSUME Base, OneLock, Kept, [Next]_vars, NEW p \in Proc, HasLock(p)',
                    NEW l \in {mine'[p], OwnLock(p)'} \ ({NoLock} \cup dir')
             PROVE  (\E q \in Proc : Aged(q, l))'
  BY DEF Kept
<1>0. clock \in Nat
  BY DEF Base, TypeOK
<1>1. CASE Calm
  BY <1>1, KeptCalm DEF Kept
<1>2. ASSUME clock' = clock, dir \subseteq dir', HasLock(p),
             l \in {mine[p], OwnLock(p)}
      PROVE  (\E q \in Proc : Aged(q, l))'
  BY <1>0, <1>2, AgedKept
<1>3. ASSUME NEW r \in Proc, Create(r)
      PROVE  (\E q \in Proc : Aged(q, l))'
  <2>1. l \in {mine[p], OwnLock(p)} /\ HasLock(p)
    BY <1>3 DEF Create, HasLock, OwnLock, Base, TypeOK
  <2> QED  BY <1>2, <1>3, <2>1 DEF Create
<1>4. ASSUME NEW r \in Proc, Commit(r)
      PROVE  (\E q \in Proc : Aged(q, l))'
  BY <1>2, <1>4 DEF Commit, HasLock, OwnLock, Base, TypeOK
<1>5. ASSUME NEW r \in Proc,
             RescanWins(r) \/ \E e \in unread[r] : RescanPasses(r, e)
      PROVE  (\E q \in Proc : Aged(q, l))'
  <2>1. /\ pc[r] = "rescan"
        /\ \E o \in {"rescan", "claim", "timedout"} : pc' = [pc EXCEPT ![r] = o]
    <3>1. CASE RescanWins(r)
      BY <3>1, DecideLocal DEF RescanWins, Base
    <3>2. CASE \E e \in unread[r] : RescanPasses(r, e)
      BY <3>2 DEF RescanPasses, Base, TypeOK
    <3> QED  BY <1>5, <3>1, <3>2
  <2> QED  BY <1>2, <1>5, <2>1 DEF RescanWins, RescanPasses, HasLock, OwnLock, Base, TypeOK
<1> QED  BY <1>1, <1>3, <1>4, <1>5, StepKinds

LEMMA KeptSuffices == Base /\ Kept => LiveLockKept
<1> SUFFICES ASSUME Base, Kept, NEW p \in Proc, mine[p] # NoLock
             PROVE  HasLock(p)
  BY DEF LiveLockKept, Kept
<1> QED  BY DEF Base, Owned, HasLock, OwnLock

-----------------------------------------------------------------------------
(* Arbitration.                                                              *)

\* Of two locks one was there when the other was created ...
Ranked(q, r) ==
  HasLock(q) /\ HasLock(r) /\ {OwnLock(q), OwnLock(r)} \subseteq dir
    => OwnLock(r) \in elder[q] \/ OwnLock(q) \in elder[r]

\* ... and the younger one is seen by its owner's second scan, unless it has
\* the earlier stamp
Beats(q, r) ==
  HasLock(q) /\ HasLock(r) /\ OwnLock(r) \in dir \cap elder[q]
    => /\ pc[q] = "rescan" => \/ OwnLock(r) \in unread[q]
                              \/ HasPriority(mine[q], OwnLock(r))
       /\ Holder(q) => HasPriority(mine[q], OwnLock(r))

Arbitration == \A q, r \in Proc : q # r => Ranked(q, r) /\ Beats(q, r)

LEMMA ArbitrationCalm == Base /\ Arbitration /\ Calm => Arbitration'
<1> SUFFICES ASSUME Base, Arbitration, Calm, NEW q \in Proc, NEW r \in Proc,
                    q # r, HasLock(q)', HasLock(r)'
             PROVE  Ranked(q, r)' /\ Beats(q, r)'
  BY DEF Arbitration, Ranked, Beats
<1>0. Ranked(q, r) /\ Beats(q, r)
  BY DEF Arbitration
<1>1. Foreign \notin Lock
  BY ConstantsAssumption DEF Lock
<1>2. HasLock(q) /\ HasLock(r) /\ OwnLock(q)' = OwnLock(q) /\ OwnLock(r)' = OwnLock(r)
  BY DEF Calm
<1>3. OwnLock(q) # Foreign /\ OwnLock(r) # Foreign
  BY <1>1, <1>2, OwnLockOf
<1>4. /\ elder'[q] = elder[q] /\ elder'[r] = elder[r] /\ mine'[q] = mine[q]
      /\ pc'[q] = "rescan" => pc[q] = "rescan" /\ unread'[q] = unread[q]
      /\ Holder(q)' => Holder(q)
      /\ dir' \subseteq dir \cup {Foreign}
  BY DEF Calm
<1> QED  BY <1>0, <1>2, <1>3, <1>4 DEF Ranked, Beats, HasPriority

LEMMA ArbitrationStep == Base /\ OneLock /\ Arbitration /\ [Next]_vars => Arbitration'
<1> SUFFICES ASSUME Base, OneLock, Arbitration, [Next]_vars, NEW q \in Proc, NEW r \in Proc,
                    q # r, HasLock(q)', HasLock(r)'
             PROVE  Ranked(q, r)' /\ Beats(q, r)'
  BY DEF Arbitration, Ranked, Beats
<1>0. Ranked(q, r) /\ Beats(q, r)
  BY DEF Arbitration
<1>1. CASE Calm
  BY <1>1, ArbitrationCalm DEF Arbitration
<1>2. ASSUME NEW p \in Proc, Create(p) PROVE Ranked(q, r)' /\ Beats(q, r)'
  <2>1. OwnLock(p)' = cand[p] /\ cand[p] \in Lock /\ cand[p].pid = p
    BY <1>2 DEF Create, OwnLock, Base, TypeOK, Owned
  <2>2. ASSUME NEW x \in Proc, x # p, HasLock(x)'
        PROVE  /\ HasLock(x) /\ OwnLock(x)' = OwnLock(x) /\ OwnLock(x) # cand[p]
               /\ pc'[x] = pc[x] /\ elder'[x] = elder[x] \ {cand[p]}
               /\ mine'[x] = mine[x] /\ unread[x] \subseteq unread'[x]
    <3>1. HasLock(x) /\ OwnLock(x)' = OwnLock(x)
      BY <1>2, <2>2 DEF Create, HasLock, OwnLock, Base, TypeOK
    <3> QED  BY <1>2, <2>1, <2>2, <3>1, OwnLockOf DEF Create, Base, TypeOK
  <2>3. dir' = dir \cup {cand[p]} /\ elder'[p] = dir /\ pc'[p] = "commit"
    BY <1>2 DEF Create, Base, TypeOK
  <2>4. CASE p = q
    BY <2>1, <2>2, <2>3, <2>4 DEF Ranked, Beats, Holder, Holding
  <2>5. CASE p = r
    BY <2>1, <2>2, <2>3, <2>5 DEF Ranked, Beats
  <2>6. CASE p # q /\ p # r
    BY <1>0, <2>2, <2>3, <2>6 DEF Ranked, Beats, Holder, HasPriority
  <2> QED  BY <2>4, <2>5, <2>6
<1>3. ASSUME NEW p \in Proc, Commit(p) PROVE Ranked(q, r)' /\ Beats(q, r)'
  <2>1. ASSUME NEW x \in Proc, HasLock(x)'
        PROVE  /\ HasLock(x) /\ OwnLock(x)' = OwnLock(x)
               /\ x # p => pc'[x] = pc[x] /\ mine'[x] = mine[x] /\ unread'[x] = unread[x]
    BY <1>3, <2>1 DEF Commit, HasLock, OwnLock, Base, TypeOK, Owned
  <2>2. dir' = dir /\ elder' = elder
    BY <1>3 DEF Commit
  <2>3. CASE p = q
    <3>1. OwnLock(r) # cand[p]
      BY <1>3, <2>1, <2>3, OwnLockOf DEF Commit, Base, Owned
    <3>2. pc'[q] = "rescan" /\ unread'[q] = dir \ {cand[p]}
      BY <1>3, <2>3 DEF Commit, Base, TypeOK
    <3> QED  BY <1>0, <2>1, <2>2, <3>1, <3>2 DEF Ranked, Beats, Holder, Holding
  <2>4. CASE p # q
    BY <1>0, <2>1, <2>2, <2>4 DEF Ranked, Beats, Holder, HasPriority
  <2> QED  BY <2>3, <2>4
<1>4. ASSUME NEW p \in Proc, RescanWins(p) PROVE Ranked(q, r)' /\ Beats(q, r)'
  <2>1. PICK o \in {"claim", "timedout"} : pc' = [pc EXCEPT ![p] = o]
    BY <1>4, DecideLocal DEF RescanWins, Base
  <2>2. ASSUME NEW x \in Proc
        PROVE  /\ HasLock(x)' => HasLock(x) /\ OwnLock(x)' = OwnLock(x)
               /\ mine'[x] = mine[x]
               /\ x # p => pc'[x] = pc[x] /\ unread'[x] = unread[x]
    BY <1>4, <2>1 DEF RescanWins, Decide, Return, HasLock, OwnLock, Base, TypeOK,
       Owned, Holding
  <2>3. dir' = dir /\ elder' = elder
    BY <1>4 DEF RescanWins
  <2>4. CASE p = q
    <3>1. pc[q] = "rescan" /\ unread[q] = {} /\ pc'[q] # "rescan"
      BY <1>4, <2>1, <2>4 DEF RescanWins, Base, TypeOK
    <3> QED  BY <1>0, <2>2, <2>3, <3>1 DEF Ranked, Beats, HasPriority
  <2>5. CASE p # q
    BY <1>0, <2>2, <2>3, <2>5 DEF Ranked, Beats, Holder, HasPriority
  <2> QED  BY <2>4, <2>5
<1>5. ASSUME NEW p \in Proc, NEW l \in unread[p], RescanPasses(p, l)
      PROVE  Ranked(q, r)' /\ Beats(q, r)'
  <2>1. ASSUME NEW x \in Proc
        PROVE  HasLock(x)' = HasLock(x) /\ OwnLock(x)' = OwnLock(x) /\ Holder(x)' = Holder(x)
    BY <1>5 DEF RescanPasses, HasLock, OwnLock, Holder
  <2>2. dir' = dir /\ elder' = elder /\ mine' = mine /\ pc' = pc
    BY <1>5 DEF RescanPasses
  <2>3. CASE p = q
    <3>1. unread'[q] = unread[q] \ {l} /\ (l \notin dir \/ HasPriority(mine[q], l))
      BY <1>5, <2>3 DEF RescanPasses, Base, TypeOK
    <3> QED  BY <1>0, <2>1, <2>2, <3>1 DEF Ranked, Beats, HasPriority
  <2>4. CASE p # q
    <3>1. unread'[q] = unread[q]
      BY <1>5, <2>4 DEF RescanPasses, Base, TypeOK
    <3> QED  BY <1>0, <2>1, <2>2, <3>1 DEF Ranked, Beats, HasPriority
  <2> QED  BY <2>3, <2>4
<1> QED  BY <1>1, <1>2, <1>3, <1>4, <1>5, StepKinds

LEMMA ArbitrationSuffices == Base /\ Arbitration => ExclusionUnlessOvertaken
<1> SUFFICES ASSUME Base, Arbitration, NEW p \in Proc, NEW q \in Proc, p # q,
                    Holder(p), Holder(q), {mine[p], mine[q]} \subseteq dir
             PROVE  Overtook(p, q) \/ Overtook(q, p)
  BY DEF ExclusionUnlessOvertaken
<1>1. ASSUME NEW x \in Proc, Holder(x) PROVE HasLock(x) /\ OwnLock(x) = mine[x]
  BY <1>1 DEF Holder, Holding, HasLock, OwnLock, Base, Owned
<1>2. Ranked(p, q) /\ Beats(p, q) /\ Beats(q, p)
  BY DEF Arbitration
<1> QED  BY <1>1, <1>2 DEF Ranked, Beats, Overtook, HasPriority

-----------------------------------------------------------------------------
(* What is left in the directory.                                            *)

\* A process that gives its lock back has none on record unless it holds the
\* lock, is about to, or was timed out on its last attempt.  It depends on the
\* caller.
Forgotten ==
  \A p \in Proc : pc[p] \notin {"rescan", "timedout"} \cup Holding => mine[p] = NoLock

LEMMA ForgottenStep == Base /\ Forgotten /\ [Next]_vars => Forgotten'
<1> SUFFICES ASSUME Base, Forgotten, [Next]_vars PROVE Forgotten'
  OBVIOUS
<1> USE DEF Base
\* p moves on, and nobody's lock changes
<1>1. ASSUME NEW p \in Proc, NEW o, pc' = [pc EXCEPT ![p] = o], mine' = mine,
             \/ pc[p] \notin {"rescan", "timedout"} \cup Holding
             \/ o \in {"rescan", "timedout"} \cup Holding
      PROVE  Forgotten'
  BY <1>1 DEF TypeOK, Forgotten
\* p's lock is removed or forgotten
<1>2. ASSUME NEW p \in Proc, NEW o, pc' = [pc EXCEPT ![p] = o],
             mine' = [mine EXCEPT ![p] = NoLock]
      PROVE  Forgotten'
  BY <1>2 DEF TypeOK, Forgotten
<1>3. CASE UNCHANGED vars \/ Tick \/ DropForeign
  BY <1>3 DEF Forgotten, vars, Tick, DropForeign
<1>4. ASSUME NEW p \in Proc, Scan(p) PROVE Forgotten'
  <2>1. CASE OpenScan(p)
    BY <1>1, <2>1 DEF OpenScan, Holding
  <2>2. CASE ScanUnparsable(p)
    BY <1>1, <2>2, FailLocal DEF ScanUnparsable, Holding
  <2>3. CASE ScanDefers(p)
    BY <1>1, <2>3, DecideLocal DEF ScanDefers, Holding
  <2>4. ASSUME NEW l \in unread[p], ScanEntry(p, l) PROVE Forgotten'
    BY <2>4 DEF ScanEntry, Forgotten
  <2> QED  BY <1>4, <2>1, <2>2, <2>3, <2>4
           DEF Scan, ScanStale, ScanLive, ScanVanished
<1>5. ASSUME NEW p \in Proc,
             Stamp(p) \/ Create(p) \/ Wake(p) \/ Wait(p) \/ Claim(p) \/ Write(p)
      PROVE  Forgotten'
  BY <1>1, <1>5 DEF Stamp, Create, Wake, Wait, Claim, Write, Holding
<1>6. ASSUME NEW p \in Proc, Commit(p) PROVE Forgotten'
  BY <1>6 DEF Commit, TypeOK, Forgotten
<1>7. ASSUME NEW p \in Proc, CreateFails(p) PROVE Forgotten'
  BY <1>1, <1>7, FailLocal DEF CreateFails, Holding
<1>8. ASSUME NEW p \in Proc, OpendirFails(p) PROVE Forgotten'
  <2>1. PICK o \in {"timedout", "error"} : pc' = [pc EXCEPT ![p] = o]
    BY <1>8, FailLocal DEF OpendirFails
  <2> QED  BY <1>1, <1>2, <1>8, <2>1 DEF OpendirFails, Holding
<1>9. ASSUME NEW p \in Proc, Rescan(p) PROVE Forgotten'
  <2>1. CASE RescanUnparsable(p)
    BY <1>2, <2>1, FailLocal DEF RescanUnparsable, RemoveOwn
  <2>2. CASE RescanWins(p)
    BY <1>1, <2>2, DecideLocal DEF RescanWins, Holding
  <2>3. ASSUME NEW l \in unread[p], RescanPasses(p, l) PROVE Forgotten'
    BY <2>3 DEF RescanPasses, Forgotten
  <2>4. ASSUME NEW l \in unread[p], RescanYields(p, l) PROVE Forgotten'
    BY <1>2, <2>4, DecideLocal DEF RescanYields, RemoveOwn
  <2> QED  BY <1>9, <2>1, <2>2, <2>3, <2>4 DEF Rescan
<1>10. ASSUME NEW p \in Proc, Release(p) \/ Exit(p) \/ Signal(p) \/ Kill(p)
       PROVE  Forgotten'
  BY <1>2, <1>10 DEF Release, RemoveWriteLock, RemoveOwn, Exit, Signal, Kill, Vanish
<1> QED  BY <1>3, <1>4, <1>5, <1>6, <1>7, <1>8, <1>9, <1>10
         DEF Next, Handler, Caller, Finished

LEMMA ResidueOf == Base /\ OneLock /\ Forgotten => NoResidue
<1> SUFFICES ASSUME Base, OneLock, Forgotten, NEW l \in dir \ {Foreign}
             PROVE  /\ Alive(l.pid) =>
                         /\ l = IF pc[l.pid] = "commit" THEN cand[l.pid] ELSE mine[l.pid]
                         /\ pc[l.pid] \in {"commit", "rescan", "timedout"} \cup Holding
                    /\ pc[l.pid] = "signalled" => l = cand[l.pid]
  BY DEF NoResidue
<1>1. l # NoLock /\ l.pid \in Proc
  BY ConstantsAssumption DEF Base, TypeOK, Lock
<1> QED  BY <1>1 DEF OneLock, OwnLock, Forgotten

-----------------------------------------------------------------------------
(* What exclusion is good for: no number is given twice.                     *)

OneHolder == exclusive => \A p, q \in Proc : Holder(p) /\ Holder(q) => p = q

\* Nobody gets the lock, a number or a file
Idle ==
  /\ files' = files /\ exclusive' = exclusive
  /\ \A q \in Proc : /\ Holder(q)' => Holder(q)
                     /\ pc'[q] = "hold" => pc[q] = "hold" /\ seqno'[q] = seqno[q]

LEMMA HolderSteps ==
  ASSUME Base, [Next]_vars
  PROVE  Idle \/ \E p \in Proc : RescanWins(p) \/ Claim(p) \/ Write(p)
<1> USE DEF Base
<1>1. ASSUME NEW p \in Proc, NEW o, o \notin Holding, pc' = [pc EXCEPT ![p] = o],
             files' = files, exclusive' = exclusive,
             \A q \in Proc \ {p} : seqno'[q] = seqno[q]
      PROVE  Idle
  BY <1>1 DEF Idle, Holder, Holding, TypeOK
<1>2. ASSUME pc' = pc, files' = files, seqno' = seqno, exclusive' = exclusive
      PROVE  Idle
  BY <1>2 DEF Idle, Holder
<1>3. CASE UNCHANGED vars \/ Tick \/ DropForeign
  BY <1>2, <1>3 DEF vars, Tick, DropForeign
<1>4. ASSUME NEW p \in Proc, Scan(p) PROVE Idle
  <2>1. CASE OpenScan(p)
    BY <1>1, <2>1 DEF OpenScan, Holding
  <2>2. CASE ScanUnparsable(p)
    BY <1>1, <2>2, FailLocal DEF ScanUnparsable, Holding
  <2>3. CASE ScanDefers(p)
    BY <1>1, <2>3, DecideLocal DEF ScanDefers, Holding
  <2>4. ASSUME NEW l \in unread[p], ScanEntry(p, l) PROVE Idle
    BY <1>2, <2>4 DEF ScanEntry
  <2> QED  BY <1>4, <2>1, <2>2, <2>3, <2>4 DEF Scan, ScanStale, ScanLive, ScanVanished
<1>5. ASSUME NEW p \in Proc, Stamp(p) \/ Create(p) \/ Commit(p) \/ Wake(p) \/ Wait(p)
      PROVE  Idle
  BY <1>1, <1>5 DEF Stamp, Create, Commit, Wake, Wait, Holding
<1>6. ASSUME NEW p \in Proc,
             CreateFails(p) \/ OpendirFails(p) \/ RescanUnparsable(p)
      PROVE  Idle
  BY <1>1, <1>6, FailLocal DEF CreateFails, OpendirFails, RescanUnparsable, Holding
<1>7. ASSUME NEW p \in Proc, NEW l \in unread[p], RescanPasses(p, l) PROVE Idle
  BY <1>2, <1>7 DEF RescanPasses
<1>8. ASSUME NEW p \in Proc, NEW l \in unread[p], RescanYields(p, l) PROVE Idle
  BY <1>1, <1>8, DecideLocal DEF RescanYields, Holding
<1>9. ASSUME NEW p \in Proc, Release(p) PROVE Idle
  BY <1>1, <1>9 DEF Release, RemoveWriteLock, Holding, TypeOK
<1>10. ASSUME NEW p \in Proc, Exit(p) \/ Signal(p) \/ Kill(p) PROVE Idle
  <2>1. PICK how \in Gone : Vanish(p, how)
    BY <1>10 DEF Exit, Signal, Kill, Gone
  <2>2. how \notin Holding
    BY DEF Gone, Holding
  <2> QED  BY <1>1, <2>1, <2>2 DEF Vanish, TypeOK
<1> QED  BY <1>3, <1>4, <1>5, <1>6, <1>7, <1>8, <1>9, <1>10
         DEF Next, Handler, Caller, Finished, Rescan

LEMMA UniqueIdle ==
  OneHolder /\ UniqueWhileExclusive /\ Idle => OneHolder' /\ UniqueWhileExclusive'
<1> SUFFICES ASSUME OneHolder, UniqueWhileExclusive, Idle
             PROVE  OneHolder' /\ UniqueWhileExclusive'
  OBVIOUS
<1>1. OneHolder'
  BY Zenon DEF Idle, OneHolder
<1>2. UniqueWhileExclusive'
  BY Zenon DEF Idle, UniqueWhileExclusive
<1> QED  BY <1>1, <1>2

LEMMA UniqueStep ==
  Base /\ OneHolder /\ UniqueWhileExclusive /\ [Next]_vars
    => OneHolder' /\ UniqueWhileExclusive'
<1> SUFFICES ASSUME Base, OneHolder, UniqueWhileExclusive, [Next]_vars
             PROVE  OneHolder' /\ UniqueWhileExclusive'
  OBVIOUS
<1> USE DEF Base
<1>1. CASE Idle
  BY <1>1, UniqueIdle
<1>2. ASSUME NEW p \in Proc, RescanWins(p)
      PROVE  OneHolder' /\ UniqueWhileExclusive'
  <2>1. PICK o \in {"timedout", "claim"} : pc' = [pc EXCEPT ![p] = o]
    BY <1>2, DecideLocal DEF RescanWins
  <2>2. exclusive' => exclusive /\ \A q \in Proc : Holder(q) => o # "claim"
    BY <1>2, <2>1 DEF RescanWins, TypeOK
  <2> QED  BY <1>2, <2>1, <2>2
           DEF RescanWins, OneHolder, UniqueWhileExclusive, Holder, Holding, TypeOK
<1>3. ASSUME NEW p \in Proc, Claim(p)
      PROVE  OneHolder' /\ UniqueWhileExclusive'
  <2>1. NextSeq \notin files
    <3>1. PICK n \in Nat : files = 1..n
      BY DEF Numbered, NumberedTo
    <3> QED  BY <3>1, NextSeqIs
  <2> QED  BY <1>3, <2>1
           DEF Claim, OneHolder, UniqueWhileExclusive, Holder, Holding, TypeOK
<1>4. ASSUME NEW p \in Proc, Write(p)
      PROVE  OneHolder' /\ UniqueWhileExclusive'
  BY <1>4 DEF Write, OneHolder, UniqueWhileExclusive, Holder, Holding, TypeOK
<1> QED  BY <1>1, <1>2, <1>3, <1>4, HolderSteps

-----------------------------------------------------------------------------
(* Theorems                                                                  *)

\* What holds of the lock whoever calls it: the callers are Next of WriteLock,
\* Visit and output
LockInv ==
  /\ Base
  /\ OneLock
  /\ Cleared
  /\ Kept
  /\ Arbitration
  /\ OneHolder
  /\ UniqueWhileExclusive

IInv == LockInv /\ Forgotten

LEMMA LockInit == Init => LockInv
<1> SUFFICES ASSUME Init PROVE LockInv
  OBVIOUS
<1>1. Base
  BY TypeInit
<1>2. \A p \in Proc : ~HasLock(p) /\ ~Holder(p) /\ pc[p] = "idle"
  BY DEF Init, HasLock, OwnLock, Holder, Holding
<1> QED  BY <1>1, <1>2 DEF Init, LockInv, OneLock, Cleared, Kept, Arbitration, Ranked,
            Beats, OneHolder, UniqueWhileExclusive

LEMMA LockStep == LockInv /\ [Next]_vars => LockInv'
<1> SUFFICES ASSUME LockInv, [Next]_vars PROVE LockInv'
  OBVIOUS
<1>1. Base'
  BY TypeStep, OwnedStep, NumberedStep DEF LockInv, Base
<1>2. OneLock' /\ Cleared'
  BY <1>1, OneLockStep, ClearedStep DEF LockInv
<1>3. Kept' /\ Arbitration' /\ OneHolder' /\ UniqueWhileExclusive'
  BY KeptStep, ArbitrationStep, UniqueStep DEF LockInv
<1> QED  BY <1>1, <1>2, <1>3 DEF LockInv

\* a calm step of a caller, in which nobody gets the lock, a number or a file
LEMMA LockCalm == LockInv /\ Base' /\ Cleared' /\ Calm /\ Idle => LockInv'
BY OneLockCalm, KeptCalm, ArbitrationCalm, UniqueIdle DEF LockInv

\* a caller that has the lock goes on without a file
LEMMA HoldOnKeeps ==
  ASSUME LockInv, NEW p \in Proc, pc[p] = "hold", pc' = [pc EXCEPT ![p] = "written"],
         UNCHANGED <<clock, dir, files, mine, cand, unread, alone, checks, slept,
                     seqno, elder, exclusive>>
  PROVE  LockInv'
<1> USE DEF LockInv, Base
<1>1. TypeOK'
  BY DEF TypeOK, PC, Running
<1>2. Numbered'
  <2>1. PICK n \in Nat : NumberedTo(n)
    BY DEF Numbered
  <2>2. NumberedTo(n)'
    BY <2>1 DEF NumberedTo, TypeOK
  <2> QED  BY <2>2 DEF Numbered
<1>3. Owned' /\ Cleared'
  BY DEF Owned, Cleared, Holding, Alive, Running, TypeOK
<1>4. Calm
  BY CalmMove DEF Alive, Running, Holding, TypeOK
<1>5. Idle
  BY DEF Idle, Holder, Holding, TypeOK
<1> QED  BY <1>1, <1>2, <1>3, <1>4, <1>5, LockCalm

LEMMA InductiveInit == Init => IInv
BY LockInit DEF IInv, Init, Forgotten

LEMMA InductiveStep == IInv /\ [Next]_vars => IInv'
BY LockStep, ForgottenStep DEF IInv, LockInv

LEMMA Inductive == Spec => []IInv
BY InductiveInit, InductiveStep, PTL DEF Spec

(* Every variable has its type: what the runs check of TypeOK, for any        *)
(* processes, machines, clock skews and limits.                               *)
THEOREM TypeCorrect == Spec => []TypeOK
BY Inductive, PTL DEF IInv, LockInv, Base

(* Two processes hold the lock at once, both with their files in place, only  *)
(* if the younger file has the strictly earlier stamp (at_front,              *)
(* lock_has_priority): were stamps taken in the order in which the files      *)
(* appear, the lock would be exclusive.                                       *)
THEOREM Exclusion == Spec => []ExclusionUnlessOvertaken
<1>1. IInv => ExclusionUnlessOvertaken
  BY ArbitrationSuffices DEF IInv, LockInv
<1> QED  BY <1>1, Inductive, PTL

(* No live process loses its lock file before the file is older than          *)
(* LOCK_STALE_SEC by the clock of some machine (check_stale).                 *)
THEOREM LiveLocksKept == Spec => []LiveLockKept
<1>1. IInv => LiveLockKept
  BY KeptSuffices DEF IInv, LockInv
<1> QED  BY <1>1, Inductive, PTL

(* A process leaves no lock file behind unless it holds the lock, was timed   *)
(* out on its last attempt, or was struck down before it had the file on      *)
(* record (remove_lockfile, HandleSignal).                                    *)
THEOREM NothingLeftBehind == Spec => []NoResidue
<1>1. IInv => NoResidue
  BY ResidueOf DEF IInv, LockInv
<1> QED  BY <1>1, Inductive, PTL

(* The fringe files are numbered without a gap, whether or not the lock is    *)
(* exclusive (get_max_seq_number).                                            *)
THEOREM NumbersContiguous == Spec => []Contiguous
<1>1. Base => Contiguous
  <2> SUFFICES ASSUME NEW n \in Nat, files = 1..n PROVE Contiguous
    BY DEF Base, Numbered, NumberedTo
  <2>1. Cardinality(1..n) = n
    BY FS_Interval
  <2> QED  BY <2>1 DEF Contiguous
<1> QED  BY <1>1, Inductive, PTL DEF IInv, LockInv

(* As long as the lock has been exclusive no number is given twice, so that   *)
(* no process overwrites the fringe file of another (wait_for_write_lock).    *)
THEOREM NumbersUnique == Spec => []UniqueWhileExclusive
BY Inductive, PTL DEF IInv, LockInv
=============================================================================
