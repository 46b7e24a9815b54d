------------------------------ MODULE MK4Output ------------------------------
(***************************************************************************)
(* MHO_MK4FringeExport::output: a fringe file of the HOPS3 format is       *)
(* written in place, under its final name, with the lock held.  The paths  *)
(* that return before the file is written do not remove the lock: the      *)
(* process goes on to its next fit and waits behind its own lock file.     *)
(* WriteLock gives the steps of MHO_LockFileHandler; output takes the      *)
(* place of the caller of that module.                                     *)
(***************************************************************************)
EXTENDS WriteLock

CONSTANT Outputs      \* bound: how often each process calls output

ASSUME OutputsAssumption == Outputs \in [Proc -> Nat]

VARIABLES
  left,      \* calls of output a process has yet to make
  writing,   \* the process has its fringe file open
  contents   \* what is in the fringe file with each number, and whose it is

export  == <<left, writing, contents>>
mk4vars == <<vars, export>>

\* "cut": a write_record failed; "mixed": two processes had it open
FileState == {"partial", "whole", "cut", "mixed"}
Content   == [by : Proc, state : FileState]

MK4TypeOK ==
  /\ TypeOK
  /\ left \in [Proc -> Nat]
  /\ writing \in [Proc -> BOOLEAN]
  /\ contents \in [files -> Content]

MK4Init ==
  /\ Init
  /\ left = Outputs
  /\ writing = [p \in Proc |-> FALSE]
  /\ contents = <<>>

-----------------------------------------------------------------------------
(* output *)

MK4Wait(p) ==
  /\ left[p] > 0
  /\ Wait(p)
  /\ left' = [left EXCEPT ![p] = @ - 1]
  /\ UNCHANGED <<writing, contents>>

\* output returns with the lock on record, and in the directory: after
\* init_000, malloc, fill_221 or fill_222 failed, or without the lock
ReturnWithoutRemoving(p) ==
  /\ pc[p] \in {"hold", "timedout", "error"}
  /\ pc' = [pc EXCEPT ![p] = "idle"]
  /\ seqno' = [seqno EXCEPT ![p] = 0]
  /\ UNCHANGED <<clock, dir, files, mine, cand, unread, alone, checks, slept,
                 elder, exclusive>>
  /\ UNCHANGED export

\* write_mk4fringe: fopen truncates whatever has the name
OpenFringe(p) ==
  /\ Write(p)
  /\ writing' = [writing EXCEPT ![p] = TRUE]
  /\ contents' = [n \in files' |-> IF n = seqno[p]
                                   THEN [by |-> p, state |-> "partial"]
                                   ELSE contents[n]]
  /\ UNCHANGED left

\* mutant: the number is taken although there is no file
OpenFringeFailsTakesNumber(p) ==
  /\ Write(p)
  /\ UNCHANGED export

OpenFringeFails(p) ==
  /\ pc[p] = "hold"
  /\ pc' = [pc EXCEPT ![p] = "written"]
  /\ UNCHANGED <<clock, dir, files, mine, cand, unread, alone, checks, slept,
                 seqno, elder, exclusive>>
  /\ UNCHANGED export

\* all records are written, or one fails and the file is left as it is
CloseFringe(p) ==
  /\ pc[p] = "written"
  /\ writing[p]
  /\ writing' = [writing EXCEPT ![p] = FALSE]
  /\ \E s \in {"whole", "cut"} :
       contents' = [contents EXCEPT ![seqno[p]].state =
         IF contents[seqno[p]] = [by |-> p, state |-> "partial"] THEN s ELSE "mixed"]
  /\ UNCHANGED <<vars, left>>

\* mutant: the lock is removed before the file is closed
RemoveLockEarly(p) ==
  /\ pc[p] = "written"
  /\ RemoveWriteLock(p)
  /\ UNCHANGED export

RemoveLock(p) ==
  /\ pc[p] = "written"
  /\ ~writing[p]
  /\ RemoveWriteLock(p)
  /\ UNCHANGED export

-----------------------------------------------------------------------------
Output(p) ==
  \/ ReturnWithoutRemoving(p)
  \/ OpenFringe(p) \/ OpenFringeFails(p) \/ CloseFringe(p) \/ RemoveLock(p)

MK4TakeLock(p) == Handler(p) /\ UNCHANGED export

MK4Environment ==
  /\ Tick \/ DropForeign \/ \E p \in Proc : Signal(p) \/ Kill(p)
  /\ UNCHANGED export

MK4Done ==
  /\ \A p \in Proc : Alive(p) => pc[p] = "idle" /\ left[p] = 0
  /\ UNCHANGED mk4vars

MK4Next ==
  \/ \E p \in Proc : MK4Wait(p) \/ Output(p) \/ MK4TakeLock(p)
  \/ MK4Environment
  \/ MK4Done

MK4Spec == MK4Init /\ [][MK4Next]_mk4vars

\* Every live process is scheduled and time goes on; nothing obliges a process
\* to start a wait, to fail or to be killed
MK4Fairness ==
  /\ WF_mk4vars(Tick /\ UNCHANGED export)
  /\ \A p \in Proc : WF_mk4vars(MK4TakeLock(p)) /\ WF_mk4vars(Output(p))

MK4FairSpec == MK4Spec /\ MK4Fairness

-----------------------------------------------------------------------------
(* Properties *)

(* As long as the lock has been exclusive, a fringe file that is complete     *)
(* stays as it is, although it is written in place and opened to truncate.    *)
WholeKept ==
  [][exclusive' =>
       \A n \in files : contents[n].state = "whole" => contents'[n] = contents[n]
    ]_mk4vars

(* A file that is still being written has its writer's lock file beside it,   *)
(* so that whoever finds the lock removed finds the file complete: unless the *)
(* writer is gone, or its lock has aged.                                      *)
PartialIsLocked ==
  \A n \in files :
    LET p == contents[n].by IN
    contents[n].state = "partial" /\ Alive(p)
      => /\ mine[p] # NoLock
         /\ mine[p] \in dir \/ \E q \in Proc : Aged(q, mine[p])

(* However its calls return, a live process has at most one lock file, the    *)
(* one it has on record: it makes no second one while the first is there.     *)
OneLockEach ==
  \A l \in dir \ {Foreign} :
    LET p == l.pid IN
    Alive(p) => l = IF pc[p] = "commit" THEN cand[p] ELSE mine[p]
=============================================================================
