------------------------------ MODULE WriteLock ------------------------------
(***************************************************************************)
(* The write lock of MHO_LockFileHandler: processes that share an output   *)
(* directory take turns by means of lock files named                       *)
(*     pid.seq.sec.usec.host.lock                                          *)
(* A process scans the directory, backs off if it sees a live lock, else   *)
(* stamps a name with the time of day, creates the file, and scans again:  *)
(* it holds the lock unless it finds a file whose stamp is not later than  *)
(* its own.  A lock whose owner is dead (same host), or which is older     *)
(* than LOCK_STALE_SEC, is deleted by whoever scans it.                    *)
(*                                                                         *)
(* A directory scan is not atomic: readdir returns every entry that is     *)
(* there throughout the scan; one created or removed meanwhile it may or   *)
(* may not return.  unread[p] holds the entries p's scan has yet to        *)
(* return.                                                                 *)
(***************************************************************************)
EXTENDS Integers, FiniteSets

CONSTANTS
  Proc,        \* processes that write to the directory
  Host,        \* machines that mount it
  HostOf,      \* the machine each process runs on
  Skew,        \* how far each machine's clock is ahead of the model's
  StaleAge,    \* LOCK_STALE_SEC, in ticks
  Timeout,     \* LOCK_TIMEOUT, in calls of at_front
  MaxClock,    \* bound: ticks of the model's clock
  MaxSeq,      \* bound: no new wait starts once so many numbers are taken
  Foreign,     \* a file with ".lock" in its name that does not parse
  NoLock       \* an invalid lockfile_data

ASSUME ConstantsAssumption ==
  /\ HostOf \in [Proc -> Host]
  /\ Skew \in [Host -> Nat]
  /\ StaleAge \in Nat
  /\ Timeout \in Nat \ {0}
  /\ MaxClock \in Nat
  /\ MaxSeq \in Nat
  /\ Foreign \notin [pid : Proc, time : Nat]
  /\ NoLock \notin [pid : Proc, time : Nat]
  /\ NoLock # Foreign

VARIABLES
  clock,    \* real time
  dir,      \* the lock files in the directory
  files,    \* the sequence numbers of the fringe files in the directory
  pc,       \* where each process is
  mine,     \* fProcessLockFileData: the lock a process knows to be its own
  cand,     \* the name formatted by create_lockfile, until it is recorded
  unread,   \* the entries a process's directory scan has yet to return
  alone,    \* process_priority during the first scan: no live lock seen
  checks,   \* n_checks
  slept,    \* when the process last went to sleep
  seqno,    \* the sequence number returned by WaitForWriteLock (0: none)
  elder,    \* history: the lock files that have been there since before p
            \*   created its own
  exclusive \* history: so far no process got the lock while another held it

vars == <<clock, dir, files, pc, mine, cand, unread, alone, checks, slept,
          seqno, elder, exclusive>>

Lock == [pid : Proc, time : Nat]    \* what a name tells: the owner, its stamp

Running  == {"idle", "enter", "scan", "create", "commit", "rescan", "claim",
             "hold", "written", "asleep", "timedout", "error"}
Gone     == {"killed", "signalled", "exited"}
PC       == Running \cup Gone
Scanning == {"scan", "rescan"}
Holding  == {"claim", "hold", "written"}

Alive(p)  == pc[p] \in Running
Holder(p) == pc[p] \in Holding

Now(p) == clock + Skew[HostOf[p]]      \* gettimeofday on p's machine

MaxOf(S) == CHOOSE m \in S : \A n \in S : n <= m
\* mutant: the number last used
NextSeqRepeated == MaxOf(files \cup {0})
NextSeq == MaxOf(files \cup {0}) + 1  \* get_max_seq_number() + 1

TypeOK ==
  /\ clock \in Nat
  /\ dir \subseteq Lock \cup {Foreign}
  /\ files \subseteq Nat
  /\ pc \in [Proc -> PC]
  /\ mine \in [Proc -> Lock \cup {NoLock}]
  /\ cand \in [Proc -> Lock \cup {NoLock}]
  /\ unread \in [Proc -> SUBSET (Lock \cup {Foreign})]
  /\ alone \in [Proc -> BOOLEAN]
  /\ checks \in [Proc -> 0..(Timeout - 1)]
  /\ slept \in [Proc -> Nat]
  /\ seqno \in [Proc -> Nat]
  /\ elder \in [Proc -> SUBSET (Lock \cup {Foreign})]
  /\ exclusive \in BOOLEAN

Init ==
  /\ clock = 0
  /\ dir = {}
  /\ files = {}
  /\ pc = [p \in Proc |-> "idle"]
  /\ mine = [p \in Proc |-> NoLock]
  /\ cand = [p \in Proc |-> NoLock]
  /\ unread = [p \in Proc |-> {}]
  /\ alone = [p \in Proc |-> TRUE]
  /\ checks = [p \in Proc |-> 0]
  /\ slept = [p \in Proc |-> 0]
  /\ seqno = [p \in Proc |-> 0]
  /\ elder = [p \in Proc |-> {}]
  /\ exclusive = TRUE

-----------------------------------------------------------------------------
(* Steps shared by several actions *)

\* remove_lockfile: delete the recorded file, if any, and forget it
RemoveOwn(p) ==
  /\ dir' = dir \ {mine[p]}
  /\ mine' = [mine EXCEPT ![p] = NoLock]
  /\ elder' = [elder EXCEPT ![p] = {}]

\* WaitForWriteLock returns an error found by at_front, or gives up
Return(p, outcome) ==
  /\ pc' = [pc EXCEPT ![p] = outcome]
  /\ checks' = [checks EXCEPT ![p] = 0]
  /\ unread' = [unread EXCEPT ![p] = {}]
  /\ alone' = [alone EXCEPT ![p] = TRUE]
  /\ slept' = slept

\* an at_front that failed: n_checks counts it like any other call, and the
\* time-out is tested before the error is looked at
Fail(p) ==
  Return(p, IF checks[p] + 1 >= Timeout THEN "timedout" ELSE "error")

\* mutant: the attempts are not counted
DecideUncounted(p, priority) ==
  IF priority
  THEN Return(p, "claim")
  ELSE /\ pc' = [pc EXCEPT ![p] = "asleep"]
       /\ slept' = [slept EXCEPT ![p] = clock]
       /\ unread' = [unread EXCEPT ![p] = {}]
       /\ alone' = [alone EXCEPT ![p] = TRUE]
       /\ UNCHANGED checks

\* the tail of the loop in wait_for_write_lock, for the two answers that are
\* not errors
Decide(p, priority) ==
  IF checks[p] + 1 >= Timeout
  THEN Return(p, "timedout")
  ELSE IF priority
  THEN Return(p, "claim")
  ELSE /\ pc' = [pc EXCEPT ![p] = "asleep"]
       /\ checks' = [checks EXCEPT ![p] = @ + 1]
       /\ slept' = [slept EXCEPT ![p] = clock]
       /\ unread' = [unread EXCEPT ![p] = {}]
       /\ alone' = [alone EXCEPT ![p] = TRUE]

\* check_stale, as p judges lock l.  kill(pid, 0) tells ESRCH for a dead owner
\* on this host, unless its pid has been given to another process: then the
\* lock looks live until it is old.
\* mutant: without the backstop by age
NeverAged(p, l) == FALSE
Aged(p, l) == Now(p) - l.time > StaleAge
\* mutant: a pid of another host is probed on this one
ProbeDeadAnyHost(p, l) == HostOf[l.pid] # HostOf[p] \/ ~Alive(l.pid)
ProbeDead(p, l) == HostOf[l.pid] = HostOf[p] /\ ~Alive(l.pid)
CanSeemStale(p, l) == Aged(p, l) \/ ProbeDead(p, l)
CanSeemLive(p, l)  == ~Aged(p, l)

\* lock_has_priority: strictly earlier wins, a tie yields
\* mutant: the holder of an equal stamp goes on
HasPriorityOnTie(ours, other) == ours.time <= other.time
HasPriority(ours, other) == ours.time < other.time

-----------------------------------------------------------------------------
(* at_front, first scan *)

OpenScan(p) ==
  /\ pc[p] = "enter"
  /\ pc' = [pc EXCEPT ![p] = "scan"]
  /\ unread' = [unread EXCEPT ![p] = dir]
  /\ UNCHANGED <<clock, dir, files, mine, cand, alone, checks, slept, seqno,
                 elder, exclusive>>

\* readdir returns an entry; one that has been deleted in the meantime may
\* still be returned
ScanEntry(p, l) ==
  /\ pc[p] = "scan"
  /\ l \in unread[p]
  /\ unread' = [unread EXCEPT ![p] = @ \ {l}]
  /\ UNCHANGED <<clock, files, pc, mine, cand, checks, slept, seqno, elder,
                 exclusive>>

ScanStale(p, l) ==
  /\ ScanEntry(p, l)
  /\ l # Foreign
  /\ CanSeemStale(p, l)
  /\ dir' = dir \ {l}
  /\ UNCHANGED alone

\* mutant: the lock file of the process itself is passed over
ScanLiveSkipsOwn(p, l) ==
  /\ ScanEntry(p, l)
  /\ l # Foreign
  /\ CanSeemLive(p, l)
  /\ alone' = [alone EXCEPT ![p] = @ /\ l.pid = p]
  /\ UNCHANGED dir

ScanLive(p, l) ==
  /\ ScanEntry(p, l)
  /\ l # Foreign
  /\ CanSeemLive(p, l)
  /\ alone' = [alone EXCEPT ![p] = FALSE]
  /\ UNCHANGED dir

ScanVanished(p, l) ==
  /\ ScanEntry(p, l)
  /\ l \notin dir
  /\ UNCHANGED <<dir, alone>>

ScanUnparsable(p) ==
  /\ pc[p] = "scan"
  /\ Foreign \in unread[p]
  /\ Fail(p)
  /\ UNCHANGED <<clock, dir, files, mine, cand, seqno, elder, exclusive>>

ScanDefers(p) ==
  /\ pc[p] = "scan"
  /\ unread[p] = {}
  /\ ~alone[p]
  /\ Decide(p, FALSE)
  /\ UNCHANGED <<clock, dir, files, mine, cand, seqno, elder, exclusive>>

-----------------------------------------------------------------------------
(* create_lockfile: the stamp is read before the file is created, and the    *)
(* file is there before the process records that it owns it                  *)

Stamp(p) ==
  /\ pc[p] = "scan"
  /\ unread[p] = {}
  /\ alone[p]
  /\ cand' = [cand EXCEPT ![p] = [pid |-> p, time |-> Now(p)]]
  /\ pc' = [pc EXCEPT ![p] = "create"]
  /\ UNCHANGED <<clock, dir, files, mine, unread, alone, checks, slept,
                 seqno, elder, exclusive>>

\* a scan in progress may or may not return the new entry
Create(p) ==
  /\ pc[p] = "create"
  /\ dir' = dir \cup {cand[p]}
  /\ elder' = [q \in Proc |-> IF q = p THEN dir ELSE elder[q] \ {cand[p]}]
  /\ pc' = [pc EXCEPT ![p] = "commit"]
  /\ \E R \in SUBSET {q \in Proc : pc[q] \in Scanning} :
       unread' = [q \in Proc |-> IF q \in R THEN unread[q] \cup {cand[p]}
                                            ELSE unread[q]]
  /\ UNCHANGED <<clock, files, mine, cand, alone, checks, slept, seqno,
                 exclusive>>

CreateFails(p) ==
  /\ pc[p] = "create"
  /\ cand' = [cand EXCEPT ![p] = NoLock]
  /\ Fail(p)
  /\ UNCHANGED <<clock, dir, files, mine, seqno, elder, exclusive>>

\* the name is recorded for the signal handler, and the second scan opened
Commit(p) ==
  /\ pc[p] = "commit"
  /\ mine' = [mine EXCEPT ![p] = cand[p]]
  /\ cand' = [cand EXCEPT ![p] = NoLock]
  /\ pc' = [pc EXCEPT ![p] = "rescan"]
  /\ unread' = [unread EXCEPT ![p] = dir \ {cand[p]}]
  /\ UNCHANGED <<clock, dir, files, alone, checks, slept, seqno, elder,
                 exclusive>>

-----------------------------------------------------------------------------
(* at_front, second scan *)

RescanPasses(p, l) ==
  /\ pc[p] = "rescan"
  /\ l \in unread[p]
  /\ \/ l \notin dir
     \/ l # Foreign /\ HasPriority(mine[p], l)
  /\ unread' = [unread EXCEPT ![p] = @ \ {l}]
  /\ UNCHANGED <<clock, dir, files, pc, mine, cand, alone, checks, slept,
                 seqno, elder, exclusive>>

RescanYields(p, l) ==
  /\ pc[p] = "rescan"
  /\ l \in unread[p] \ {Foreign}
  /\ ~HasPriority(mine[p], l)
  /\ RemoveOwn(p)
  /\ Decide(p, FALSE)
  /\ UNCHANGED <<clock, files, cand, seqno, exclusive>>

\* mutant: the error path of the second scan forgets the lock just made
RescanUnparsableKeeps(p) ==
  /\ pc[p] = "rescan"
  /\ Foreign \in unread[p]
  /\ Fail(p)
  /\ UNCHANGED <<clock, dir, files, mine, cand, seqno, elder, exclusive>>

RescanUnparsable(p) ==
  /\ pc[p] = "rescan"
  /\ Foreign \in unread[p]
  /\ RemoveOwn(p)
  /\ Fail(p)
  /\ UNCHANGED <<clock, files, cand, seqno, exclusive>>

RescanWins(p) ==
  /\ pc[p] = "rescan"
  /\ unread[p] = {}
  /\ Decide(p, TRUE)
  /\ exclusive' = (exclusive /\ \A q \in Proc : Holder(q) => pc'[p] # "claim")
  /\ UNCHANGED <<clock, dir, files, mine, cand, seqno, elder>>

\* opendir fails: the first scan has nothing to clean up, the second removes
\* the lock file just made
OpendirFails(p) ==
  /\ \/ pc[p] = "enter" /\ UNCHANGED <<dir, mine, cand, elder>>
     \/ /\ pc[p] = "commit"
        /\ dir' = dir \ {cand[p]}
        /\ mine' = [mine EXCEPT ![p] = NoLock]
        /\ cand' = [cand EXCEPT ![p] = NoLock]
        /\ elder' = [elder EXCEPT ![p] = {}]
  /\ Fail(p)
  /\ UNCHANGED <<clock, files, seqno, exclusive>>

Wake(p) ==
  /\ pc[p] = "asleep"
  /\ clock > slept[p] \/ clock = MaxClock
  /\ pc' = [pc EXCEPT ![p] = "enter"]
  /\ slept' = [slept EXCEPT ![p] = 0]
  /\ UNCHANGED <<clock, dir, files, mine, cand, unread, alone, checks, seqno,
                 elder, exclusive>>

\* the lock is held: the directory is searched again for the next number
Claim(p) ==
  /\ pc[p] = "claim"
  /\ seqno' = [seqno EXCEPT ![p] = NextSeq]
  /\ pc' = [pc EXCEPT ![p] = "hold"]
  /\ UNCHANGED <<clock, dir, files, mine, cand, unread, alone, checks, slept,
                 elder, exclusive>>

-----------------------------------------------------------------------------
(* The caller: wait, write the file with the number obtained, remove the     *)
(* lock.  On an error it exits.                                              *)

Wait(p) ==
  /\ pc[p] = "idle"
  /\ NextSeq <= MaxSeq
  /\ pc' = [pc EXCEPT ![p] = "enter"]
  /\ UNCHANGED <<clock, dir, files, mine, cand, unread, alone, checks, slept,
                 seqno, elder, exclusive>>

Write(p) ==
  /\ pc[p] = "hold"
  /\ files' = files \cup {seqno[p]}
  /\ pc' = [pc EXCEPT ![p] = "written"]
  /\ UNCHANGED <<clock, dir, mine, cand, unread, alone, checks, slept, seqno,
                 elder, exclusive>>

RemoveWriteLock(p) ==
  /\ RemoveOwn(p)
  /\ pc' = [pc EXCEPT ![p] = "idle"]
  /\ seqno' = [seqno EXCEPT ![p] = 0]
  /\ UNCHANGED <<clock, files, cand, unread, alone, checks, slept, exclusive>>

Release(p) == pc[p] = "written" /\ RemoveWriteLock(p)

\* the memory of a process that is gone no longer matters; cand[p] is kept, as
\* it tells whether p was gone before it recorded its lock
Vanish(p, how) ==
  /\ Alive(p)
  /\ pc' = [pc EXCEPT ![p] = how]
  /\ mine' = [mine EXCEPT ![p] = NoLock]
  /\ cand' = [cand EXCEPT ![p] = IF pc[p] = "commit" THEN @ ELSE NoLock]
  /\ unread' = [unread EXCEPT ![p] = {}]
  /\ alone' = [alone EXCEPT ![p] = TRUE]
  /\ checks' = [checks EXCEPT ![p] = 0]
  /\ slept' = [slept EXCEPT ![p] = 0]
  /\ seqno' = [seqno EXCEPT ![p] = 0]
  /\ elder' = [elder EXCEPT ![p] = {}]
  /\ UNCHANGED <<clock, files, exclusive>>

Exit(p) ==
  /\ pc[p] \in {"timedout", "error"}
  /\ Vanish(p, "exited")
  /\ UNCHANGED dir

-----------------------------------------------------------------------------
(* The environment *)

\* HandleSignal unlinks the recorded lock file and calls _exit.  A lock that is
\* created but not yet recorded stays behind.
Signal(p) == Vanish(p, "signalled") /\ dir' = dir \ {mine[p]}

\* SIGKILL, or the machine goes down
Kill(p) == Vanish(p, "killed") /\ UNCHANGED dir

Tick ==
  /\ clock < MaxClock
  /\ clock' = clock + 1
  /\ UNCHANGED <<dir, files, pc, mine, cand, unread, alone, checks, slept,
                 seqno, elder, exclusive>>

\* someone puts a file there whose name merely contains ".lock"
DropForeign ==
  /\ Foreign \notin dir
  /\ dir' = dir \cup {Foreign}
  /\ UNCHANGED <<clock, files, pc, mine, cand, unread, alone, checks, slept,
                 seqno, elder, exclusive>>

Scan(p) ==
  \/ OpenScan(p) \/ ScanUnparsable(p) \/ ScanDefers(p)
  \/ \E l \in unread[p] : ScanStale(p, l) \/ ScanLive(p, l) \/ ScanVanished(p, l)

Rescan(p) ==
  \/ RescanUnparsable(p) \/ RescanWins(p)
  \/ \E l \in unread[p] : RescanPasses(p, l) \/ RescanYields(p, l)

Handler(p) ==
  \/ Scan(p) \/ Stamp(p) \/ Create(p) \/ CreateFails(p) \/ Commit(p)
  \/ Rescan(p) \/ OpendirFails(p) \/ Wake(p) \/ Claim(p)

Caller(p) == Wait(p) \/ Write(p) \/ Release(p) \/ Exit(p)

\* nothing is left to do: everyone is gone, or idle with the numbers used up
Finished ==
  /\ \A p \in Proc : pc[p] \in Gone \cup {"idle"}
  /\ UNCHANGED vars

Next ==
  \/ \E p \in Proc : Handler(p) \/ Caller(p) \/ Signal(p) \/ Kill(p)
  \/ Tick \/ DropForeign \/ Finished

Spec == Init /\ [][Next]_vars

-----------------------------------------------------------------------------
(* Properties *)

\* p got the lock although q's file was there before p's: its stamp is earlier
Overtook(p, q) == mine[q] \in elder[p] /\ mine[p].time < mine[q].time

(* Two processes hold the lock at once, both with their files in place, only  *)
(* if the one that created its file second had stamped its name strictly      *)
(* earlier (lock_has_priority): it was delayed between gettimeofday and       *)
(* fopen.  In particular two equal stamps never both win.                     *)
ExclusionUnlessOvertaken ==
  \A p, q \in Proc :
    p # q /\ Holder(p) /\ Holder(q) /\ {mine[p], mine[q]} \subseteq dir
      => Overtook(p, q) \/ Overtook(q, p)

(* No process loses its lock file while it is alive before the file is older  *)
(* than LOCK_STALE_SEC on some machine (check_stale, the removal in at_front).*)
LiveLockKept ==
  \A p \in Proc :
    Alive(p) /\ mine[p] # NoLock /\ mine[p] \notin dir
      => \E q \in Proc : Aged(q, mine[p])

(* Every lock file of a live process is the one it has on record, so that it  *)
(* can still remove it; a process that was refused, or found an error, has    *)
(* left none; and the signal handler leaves one only in the gap between       *)
(* fopen and the record in create_lockfile.                                   *)
NoResidue ==
  \A l \in dir \ {Foreign} :
    LET p == l.pid IN
    /\ Alive(p) =>
         /\ l = IF pc[p] = "commit" THEN cand[p] ELSE mine[p]
         /\ pc[p] \in {"commit", "rescan", "timedout"} \cup Holding
    /\ pc[p] = "signalled" => l = cand[p]

(* The numbers of the fringe files have no gap, whatever the arbitration does *)
(* (get_max_seq_number after the lock is obtained; run_lock_contention.sh).   *)
Contiguous == files = 1..Cardinality(files)

(* As long as no two processes have held the lock at once, the number a       *)
(* process was given is not on disk when it writes: no file is overwritten.   *)
UniqueWhileExclusive ==
  exclusive => \A p \in Proc : pc[p] = "hold" => seqno[p] \notin files

(* What the comment in lock_has_priority says: at most one process proceeds.  *)
MutualExclusion == \A p, q \in Proc : Holder(p) /\ Holder(q) => p = q

\* p starts to wait, everyone else is dead, and what they left will have aged
\* before the model's clock stops
WaitsBehindTheDead(p) ==
  /\ pc[p] = "enter" /\ checks[p] = 0
  /\ \A q \in Proc \ {p} : ~Alive(q)
  /\ \A l \in dir \ {Foreign} : l.time + StaleAge < MaxClock

(* A process that waits behind dead processes only, or behind a lock file it  *)
(* forgot to remove itself, is never timed out: the locks are reclaimed, at   *)
(* once or when they are old (check_stale), before it has made LOCK_TIMEOUT   *)
(* attempts.                                                                  *)
DeadLocksReclaimed ==
  \A p \in Proc :
    WaitsBehindTheDead(p)
      ~> Holder(p) \/ pc[p] \in {"error", "killed", "signalled"}
=============================================================================
