----------------------------- MODULE HopsOutput ------------------------------
(***************************************************************************)
(* MHO_HopsOutputVisitor::Visit: a fringe fit is written to a temporary    *)
(* file of its own without the lock; the file is renamed to the next       *)
(* number in the directory under the lock.  WriteLock gives the steps of   *)
(* MHO_LockFileHandler; the caller of that module is replaced by Visit.    *)
(***************************************************************************)
EXTENDS WriteLock

CONSTANT Rounds        \* bound: fits written by each process

ASSUME RoundsAssumption == Rounds \in Nat

VARIABLES
  stage,   \* where each process is in Visit
  round,   \* the fit it is writing
  wrote,   \* write_ok = 0: the result of WriteDataObjects
  temps,   \* the temporary files in the directory
  out,     \* the contents of the fringe file with each number
  finished \* history: the fits whose temporary file was closed

visit   == <<stage, round, wrote, temps, out, finished>>
allvars == <<vars, visit>>

\* a fit, as it is in a file: still being written, all written, or with a
\* write that failed
State == {"partial", "whole", "short"}
Fit   == [by : Proc, nr : 1..Rounds, state : State]

HopsTypeOK ==
  /\ TypeOK
  /\ stage \in [Proc -> {"idle", "data", "lock"}]
  /\ round \in [Proc -> 1..(Rounds + 1)]
  /\ wrote \in [Proc -> BOOLEAN]
  /\ temps \subseteq Fit
  /\ out \in [files -> Fit]
  /\ finished \subseteq Fit

HopsInit ==
  /\ Init
  /\ stage = [p \in Proc |-> "idle"]
  /\ round = [p \in Proc |-> 1]
  /\ wrote = [p \in Proc |-> FALSE]
  /\ temps = {}
  /\ out = <<>>
  /\ finished = {}

\* the temporary file of p's present fit, if it has one; its name is unique
Temp(p) == {t \in temps : t.by = p /\ t.nr = round[p]}

-----------------------------------------------------------------------------
(* WriteDataObjects *)

\* mutant: the lock is waited for with the file still open
OpenTempUnclosed(p) ==
  /\ Alive(p)
  /\ stage[p] = "idle"
  /\ round[p] <= Rounds
  /\ stage' = [stage EXCEPT ![p] = "lock"]
  /\ wrote' = [wrote EXCEPT ![p] = TRUE]
  /\ temps' = temps \cup {[by |-> p, nr |-> round[p], state |-> "partial"]}
  /\ UNCHANGED <<vars, round, out, finished>>

OpenTemp(p) ==
  /\ Alive(p)
  /\ stage[p] = "idle"
  /\ round[p] <= Rounds
  /\ stage' = [stage EXCEPT ![p] = "data"]
  /\ temps' = temps \cup {[by |-> p, nr |-> round[p], state |-> "partial"]}
  /\ UNCHANGED <<vars, round, wrote, out, finished>>

\* OpenToWrite fails: nothing is written, but the lock is waited for all the same
OpenTempFails(p) ==
  /\ Alive(p)
  /\ stage[p] = "idle"
  /\ round[p] <= Rounds
  /\ stage' = [stage EXCEPT ![p] = "lock"]
  /\ wrote' = [wrote EXCEPT ![p] = FALSE]
  /\ UNCHANGED <<vars, round, temps, out, finished>>

\* the results of Write are not looked at: 0 is returned also when one failed
CloseTemp(p) ==
  /\ Alive(p)
  /\ stage[p] = "data"
  /\ \E s \in {"whole", "short"} :
       LET t == [by |-> p, nr |-> round[p], state |-> s] IN
       /\ temps' = (temps \ Temp(p)) \cup {t}
       /\ finished' = finished \cup {t}
  /\ stage' = [stage EXCEPT ![p] = "lock"]
  /\ wrote' = [wrote EXCEPT ![p] = TRUE]
  /\ UNCHANGED <<vars, round, out>>

-----------------------------------------------------------------------------
(* Under the lock *)

WaitForWriteLock(p) ==
  /\ stage[p] = "lock"
  /\ Wait(p)
  /\ UNCHANGED visit

\* mutant: the file is copied and its temporary name stays
RenameCopies(p) ==
  /\ wrote[p]
  /\ Write(p)
  /\ \E t \in Temp(p) :
       out' = [n \in files' |-> IF n = seqno[p] THEN t ELSE out[n]]
  /\ UNCHANGED <<stage, round, wrote, temps, finished>>

\* mutant: the file is renamed to the last number in use
RenameOntoLast(p) ==
  /\ wrote[p]
  /\ pc[p] = "hold"
  /\ pc' = [pc EXCEPT ![p] = "written"]
  /\ LET n == IF files = {} THEN 1 ELSE MaxOf(files) IN
     /\ files' = files \cup {n}
     /\ \E t \in Temp(p) :
          /\ temps' = temps \ {t}
          /\ out' = [k \in files' |-> IF k = n THEN t ELSE out[k]]
  /\ UNCHANGED <<clock, dir, mine, cand, unread, alone, checks, slept, seqno,
                 elder, exclusive, stage, round, wrote, finished>>

\* the temporary file takes the number obtained, in place of any file that has it
Rename(p) ==
  /\ wrote[p]
  /\ Write(p)
  /\ \E t \in Temp(p) :
       /\ temps' = temps \ {t}
       /\ out' = [n \in files' |-> IF n = seqno[p] THEN t ELSE out[n]]
  /\ UNCHANGED <<stage, round, wrote, finished>>

\* there is nothing to rename, or rename fails, which is not looked at
NoRename(p) ==
  /\ pc[p] = "hold"
  /\ pc' = [pc EXCEPT ![p] = "written"]
  /\ UNCHANGED <<clock, dir, files, mine, cand, unread, alone, checks, slept,
                 seqno, elder, exclusive>>
  /\ UNCHANGED visit

\* mutant: the temporary file is removed on the way out, renamed or not
LeaveCleansTemp(p) ==
  /\ pc[p] \in {"written", "timedout", "error"}
  /\ RemoveWriteLock(p)
  /\ stage' = [stage EXCEPT ![p] = "idle"]
  /\ round' = [round EXCEPT ![p] = @ + 1]
  /\ wrote' = [wrote EXCEPT ![p] = FALSE]
  /\ temps' = temps \ Temp(p)
  /\ UNCHANGED <<out, finished>>

\* mutant: the lock is removed only if WaitForWriteLock succeeded
LeaveKeepsLock(p) ==
  /\ \/ pc[p] = "written" /\ RemoveWriteLock(p)
     \/ /\ pc[p] \in {"timedout", "error"}
        /\ pc' = [pc EXCEPT ![p] = "idle"]
        /\ UNCHANGED <<clock, dir, files, mine, cand, unread, alone, checks,
                       slept, seqno, elder, exclusive>>
  /\ stage' = [stage EXCEPT ![p] = "idle"]
  /\ round' = [round EXCEPT ![p] = @ + 1]
  /\ wrote' = [wrote EXCEPT ![p] = FALSE]
  /\ UNCHANGED <<temps, out, finished>>

\* mutant: after an error the visitor does not return
LeaveWhenWritten(p) ==
  /\ pc[p] = "written"
  /\ RemoveWriteLock(p)
  /\ stage' = [stage EXCEPT ![p] = "idle"]
  /\ round' = [round EXCEPT ![p] = @ + 1]
  /\ wrote' = [wrote EXCEPT ![p] = FALSE]
  /\ UNCHANGED <<temps, out, finished>>

\* RemoveWriteLock is called on every path, and Visit returns
Leave(p) ==
  /\ pc[p] \in {"written", "timedout", "error"}
  /\ RemoveWriteLock(p)
  /\ stage' = [stage EXCEPT ![p] = "idle"]
  /\ round' = [round EXCEPT ![p] = @ + 1]
  /\ wrote' = [wrote EXCEPT ![p] = FALSE]
  /\ UNCHANGED <<temps, out, finished>>

-----------------------------------------------------------------------------
Visit(p) ==
  \/ OpenTemp(p) \/ OpenTempFails(p) \/ CloseTemp(p)
  \/ WaitForWriteLock(p) \/ Rename(p) \/ NoRename(p) \/ Leave(p)

TakeLock(p) == Handler(p) /\ UNCHANGED visit

Environment ==
  /\ Tick \/ DropForeign \/ \E p \in Proc : Signal(p) \/ Kill(p)
  /\ UNCHANGED visit

AllDone ==
  /\ \A p \in Proc : Alive(p) => stage[p] = "idle" /\ round[p] > Rounds
  /\ UNCHANGED allvars

HopsNext ==
  \/ \E p \in Proc : Visit(p) \/ TakeLock(p)
  \/ Environment
  \/ AllDone

HopsSpec == HopsInit /\ [][HopsNext]_allvars

\* Every live process is scheduled and time goes on; nothing obliges a process
\* to start a visit, to fail or to be killed
HopsFairness ==
  /\ WF_allvars(Tick /\ UNCHANGED visit)
  /\ \A p \in Proc : /\ WF_allvars(TakeLock(p))
                     /\ WF_allvars(Visit(p))

HopsFairSpec == HopsSpec /\ HopsFairness

-----------------------------------------------------------------------------
(* Properties *)

(* As long as the lock has been exclusive, no fit that was written out is     *)
(* lost: it has its number, or still its temporary name.                      *)
NothingLost ==
  exclusive => \A t \in finished : t \in temps \/ \E n \in files : out[n] = t

(* A fit is in one place: it is not renamed twice, nor kept after it is.      *)
OnePlace ==
  /\ \A m, n \in files : out[m] = out[n] => m = n
  /\ \A n \in files : out[n] \notin temps

(* When Visit has returned, whatever happened in it, the process has no lock  *)
(* file in the directory, not even after a time-out on its last attempt.      *)
LockReturned ==
  \A p \in Proc :
    Alive(p) /\ stage[p] = "idle"
      => mine[p] = NoLock /\ \A l \in dir \ {Foreign} : l.pid # p

(* Visit returns.                                                             *)
VisitReturns ==
  \A p \in Proc : stage[p] = "lock" ~> stage[p] = "idle" \/ ~Alive(p)

\* fits that were written to their end
Closed == {fit \in Fit : fit.state # "partial"}

(* The directory is the store that FringeStore describes, failures of the     *)
(* writers, of their calls and of the lock included: only closed files get a  *)
(* number.                                                                    *)
Store == INSTANCE FringeStore WITH Fit <- Closed, store <- out, sound <- exclusive

IsFringeStore == Store!Spec
=============================================================================
