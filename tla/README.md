# TLA+ models of HOPS

HOPS (Haystack Observatory Postprocessing System) fits fringes to correlated
VLBI data. Its core is `fourfit4`: for every *pass* (one baseline, frequency
group and polarisation product of a scan) it loads data into a container store,
selects the control file statements that apply, calibrates, searches for the
fringe peak, and writes a fringe file into a directory that other processes, on
this and on other machines, write to at the same time.

This directory holds TLA+ modules for the parts of that program in which order,
failure and shared state matter, TLC configurations that check them on small
instances, and proofs, checked by TLAPS, that hold for every value of the
constants. Paths below are relative to `src/source/cpp_src/`.

## 1. The system

### Components

| component | state | operations | who it talks to |
|---|---|---|---|
| **Write lock**, `Utilities/MHO_LockFileHandler` | lock files `pid.seq.sec.usec.host.lock` in the output directory; per process the name it has on record | `WaitForWriteLock`, `RemoveWriteLock`, the signal handler | other processes, only through the directory |
| **HOPS4 output**, `MHO_HopsOutputVisitor` | temporary and final fringe files | `Visit`, `WriteDataObjects` | write lock; called by the pass |
| **Mark4 output**, `MHO_MK4FringeExport::output`, `c_src/dfio/write_mk4fringe` | fringe files written in place | `output` | write lock; called by the pass |
| **Scan discovery**, `MHO_FringeDataDiscovery`, `MHO_ScanDataStore` | the list of passes; what is in the directory of a pass | `determine_passes`, `split_passes`, `Initialize` | process 0 looks and sends the list to the others; the pass looks again |
| **Pass loop and fitters**, `fourfit4`, `MHO_FringePass`, basic, ionospheric and spectral line fitter | `/status/skipped`, `/status/is_finished`, the fitter, the visibility cache, the plug-ins of the process | `Initialize`, `Configure`, `Run` (`PreRun`, `Run`, `PostRun`, `Finalize`), output | MPI (deal, barrier), python operators (refits), store, search, outputs |
| **Container store**, `MHO_ContainerStore` | four tables: ids to objects, objects to ids, short names to ids, reserved names | `AddObject`, `SetShortName`, `RenameObject`, `DeleteObject`, `Clear` | filled by the pass (`MHO_ContainerFileInterface`, `MHO_FringeDataInitializer`), used by everything after |
| **Control conditions**, `MHO_ControlConditionEvaluator` | a stack and a list that is rewritten in place | `GetApplicableStatements`, `Evaluate`, `EvaluateBooleanOps` | decides which operators are built for a pass |
| **Coarse search**, `MHO_MBDelaySearch`, `MHO_MBDelaySearchOpenMP` | windows, maximum, bins and count, one maximum per thread | `Execute`, once per search and again for every refit | called by the fitters |
| **Operators**, `MHO_OperatorToolbox`, `MHO_OperatorBuilderManager` and the builders | operators by name and by category, what a builder keeps between statements | `AddOperator`, `BuildOperatorCategory`, `GetOperatorsByCategory`; run by the fitter | conditions to calibration |
| **Ionospheric search**, `MHO_IonosphericFringeFitter` | a grid in TEC, finer level by level; the rotation of the visibilities; the narrowed window | `rjc_ion_search`, `ion_search_smooth` | runs the coarse search many times |
| **Binary files**, `MHO_BinaryFileInterface`, `MHO_ContainerFileInterface` | stream, keys, byte offsets, index file | write, append, `ExtractFileObjectKeys`, `ExtractIndexFileObjectKeys`, `PopulateStoreFromFile` | fills the store |
| Python subprocess, unused parts of the MPI interface | request and response files, ranks | | plug-ins, pass loop |
| Parsers, converters, calibration operators, mathematics, tables, messages, tools, HOPS3 in C, scripts | | sequential transformations of data | |

`PROJECT.json` lists all of them, those without a model included, with the
reason.

### How they interact

```
 control file --> parser --> conditions --> builders --> toolbox (operators)
                                                           |
 scan directory --> passes --dealt by rank--> pass: store --> calibrate --> search --+
                                               ^                                     |
                                               +------- refit (python operator) -----+
                                                                                     |
                 output visitors <-- solved and not skipped <------------------------+
                       |
        temporary file / in place --> write lock --> numbered fringe file
```

Processes share only the output directory, the list of passes that process 0
broadcasts, and the MPI barrier at the end.
Within a process the parts share objects: the store, the parameter store (the
`/status` entries are the only channel by which a step tells later steps that
the pass is lost), the search object and the plug-in factory, both of which
outlive one use.

### What is hard, and what makes each part correct

- *Write lock.* There is no lock server. A process scans, stamps, creates a
  file, scans again, and each of these steps is a window for the others; clocks
  of machines differ, owners die, signals arrive between two statements.
  Correct: two holders only in one known circumstance, no live lock deleted
  before its age, no file left behind, unique and contiguous numbers.
- *Outputs.* Killed at any point, failing calls, lock not obtained. Correct:
  no half-written file under a final name, nothing lost, nothing twice, the
  lock given back.
- *Pass loop.* About twenty early returns write two flags that a loop tests.
  Correct: every pass fitted once by one process, output only of a solution
  that no step has rejected, calibration applied once, the loop ends.
- *Store.* Names and ids are added, renamed and deleted in several tables by
  callers that do not look at results. Correct: the tables agree, a name leads
  to the object of its role.
- *Conditions.* A list is rewritten while it is iterated. Correct: the value is
  the meaning of the condition, and there is a value.
- *Search.* Threads with maxima of their own, a merge, state kept between
  searches. Correct: the same answer as one loop over all points.
- *Ionospheric search.* The same visibilities are rotated and rotated back at
  every point, and a refit starts from what the last fit left. Correct: the
  peak is found where the grids can see it, the solution reported is the one the
  visibilities were rotated for, the narrowed window is the signal's.
- *Operators.* Names collide, builders are used again, priorities decide, a
  refit runs it all again. Correct: the operators asked for, bound to the
  stations of their own statement, each applied once and in order.
- *Binary files.* Two walks over the same bytes, by keys and by objects; files
  may be cut, of another version, or accompanied by an old index. Correct: what
  is loaded is a prefix of what was written, and reading ends.

The hazards this code is exposed to are listed, at their lines, in
`PROJECT.json`, each with the properties that cover it or the reason why none
does.

## 2. The modules

| module | models | state and actions |
|---|---|---|
| `WriteLock` | `MHO_LockFileHandler.cc`, caller as in the contention test | `dir`: lock files; `pc[p]`: place in `wait_for_write_lock`/`at_front`/`create_lockfile`; `unread[p]`: what the directory scan has yet to return; `Stamp`/create/record are separate steps. `Handler(p)` is the lock handler, `Signal`, `Kill`, `Tick`, `DropForeign` the environment |
| `WriteLockProofs` | | inductive invariant and theorems |
| `FringeStore` | abstract | what readers of the output directory may rely on |
| `HopsOutput` | `MHO_HopsOutputVisitor.cc` | extends `WriteLock`, its caller replaced by `Visit`: open, write, close the temporary file; wait; rename; return the lock. Every call may fail, every process may die between two steps |
| `MK4Output` | `MHO_MK4FringeExport.cc`, `write_mk4fringe.c` | extends `WriteLock`: in-place writing, returns that keep the lock |
| `OutputProofs` | | the two outputs, over the proofs of the lock |
| `ScanDiscovery` | `MHO_FringeDataDiscovery`, `MHO_ScanDataStore` | operators over a record of directories: `determine_passes` and what a pass finds when it looks again |
| `FringePass` | extends `ScanDiscovery`; `fourfit4.cc`, `MHO_FringePass.cc`, the fitters, the plug-in factory | one control state per step of `Run`; `skipped` and `finished` are the `/status` entries; one action per outcome of a step |
| `FringePassProofs` | | the dealing, the status of a pass, and what `determine_passes` puts into the list |
| `ContainerStore` | `MHO_ContainerStore` | the four tables as partial functions and a set; one action per operation; also the abstract specification for `PassStore` |
| `PassStore` | `MHO_FringeDataInitializer`, `MHO_BasicFringeFitter::Configure`, file interface | the calls by which a pass fills its store, object by object |
| `ConditionEvaluator` | `MHO_ControlConditionEvaluator.cc` | `Evaluate` token by token; the three loops of `EvaluateBooleanOps` iteration by iteration, with the iterator |
| `ConditionMeaning` | comments in that file | what a condition means, said of all its operands at once and without recursion, and which conditions the loops evaluate so (`Simple`) |
| `ConditionEvaluatorProofs` | | |
| `PeakSearch` | abstract | a request and its answer |
| `DelaySearch` | `MHO_MBDelaySearch.cc`, `MHO_MBDelaySearchOpenMP.cc` | `Execute`, one step per point and thread, barrier, merge thread by thread, `finalize_search`; which build it is is chosen at the start |
| `DelaySearchProofs` | | |
| `IonosphericSearch` | `MHO_IonosphericFringeFitter.cc` | one action per level and per point; the signal is a function of the TEC, and `applied` how far the visibilities are rotated |
| `IonosphericSearchProofs` | | |
| `OperatorToolbox` | `MHO_OperatorToolbox` | its tables; an operator is its place among all that were made |
| `FitOperators` | extends `OperatorToolbox`; `MHO_OperatorBuilderManager`, the builders, the fitters' use of the operators | `Program` is the order of building, running, caching and refreshing; one action per statement built and per operator run |
| `FitOperatorsProofs` | | |
| `BinaryFile` | `MHO_BinaryFileInterface`, `MHO_ContainerFileInterface`, streamers, keys | records at byte positions; writing with failures and lost ends, then both ways to find keys, then the reading of objects |
| `StoreProofs` | | the store, the pass that fills it, and the files it is filled from |
| `MC...` | | constants for TLC; in `MCConditionEvaluator` also a second, recursive meaning of a condition, with which that of `ConditionMeaning` is compared |

Composition: `ScanDiscovery` gives `FringePass` the passes and what is loaded
for them, `OperatorToolbox` is extended by `FitOperators`. `HopsOutput` and `MK4Output` are the write lock with its caller
replaced, so every interleaving of lock and output steps is there. `HopsOutput`
implements `FringeStore`, `PassStore` implements `ContainerStore`,
`DelaySearch` implements `PeakSearch`.

### Modelling decisions

- Directory scans return every entry that is there throughout; an entry created
  or removed during the scan may or may not be returned.
- A lock file's name is its owner and stamp; a name that does not parse is the
  model value `Foreign`. The host is a function of the process; a machine's
  clock is the model's clock plus `Skew`.
- Contents of a fringe file are *partial*, *whole*, *short* (a `Write` whose
  result is ignored failed), *cut* or *mixed*. No data are modelled.
- In `FringePass` numerical steps are reduced to their outcomes (peak or no
  peak, data or none, exception). A refit is what a python operator in
  `postfit` may ask for.
- In `ConditionEvaluator` a predicate is a token that is true or false. The
  iterator of a `std::list` that is advanced past `end()` is undefined
  behaviour; with libstdc++ and libc++ it arrives at the first element, and
  that outcome is modelled (`AfterErase`). Predicates cut off in the middle of
  their arguments are left out.
- In `DelaySearch` a bin is a triple (sbd, dr, mbd) numbered in the order of
  the loops; powers are natural numbers, NaN counting as 0 since the code's
  comparison rejects both. What is left in the bins and in
  the answer by a search without power is modelled as the code has it, and left
  open by `PeakSearch`. The number of threads delivered may be smaller than
  asked for; `schedule(static)` is any deal OpenMP permits, not only that of
  one compiler. Windows may differ from search to search, as the ionospheric
  fitter makes them.
- In `IonosphericSearch` a TEC is an integer, with 0.4 TECU four units; the
  amplitude falls off on both sides of the TEC sought, down to the noise. The
  smoothing kernel is approximated by one that has its maximum at the same place.
  Whether there is a cache (`caching`) is part of the setup: only with it does a
  refit begin with visibilities that are not rotated.
- In `FitOperators` an operator is a name, a category, a priority, the statement
  it was built for and the stations it is bound to. Operators of one priority
  come in any order, as `std::sort` may leave them.
- In `BinaryFile` sizes are in bytes of a model unit: a key has two, a version
  one. Objects are whole, empty or damaged after they are read.

## 3. The runs

Passing runs check all their properties; every property has a mutation of the
modelled code that violates it under the same configuration (the operators
marked `mutant`; `PROJECT.json` says which replaces what).

| run | states | shows |
|---|---|---|
| `write_lock_two` | 230,595 | Two processes on two machines whose clocks differ: exclusion except when overtaken, live locks kept, nothing left behind, numbers unique |
| `hops_output` | 128,069 | Two processes write fits, with failing writes, renames and locks, signals and kills; the directory implements `FringeStore`; `Visit` returns |
| `mk4_output` | 160,304 | Two processes write in place; unfinished files are locked, complete ones kept, a process held up by its own lock, or by dead processes, gets on |
| `fringe_pass` | 473,636 | Eight experiments and command lines, two processes: what is selected is dealt out once, fitted with any fitter and outcome and one refit, and what is written was solved; the job ends |
| `pass_store` | 3,460 | Every kind of baseline file, two stations or one with itself, every way in which loading may fall short; a pass implements `ContainerStore` |
| `conditions` | 77,790 | Control files of all conditions up to the bounds of `MCConditionEvaluator`, ill-formed ones included: values against `ConditionMeaning`, which gives each of these conditions the value that taking it apart gives it (`ReferencesAgree`), and termination |
| `delay_search` | 98,988 | Both builds implement `PeakSearch`: any sequence of searches, ties, empty windows, spectra without power |
| `ionospheric` | 115,810 | Both searches over grids of 1 to 13 points, signals on, between and beyond them, strong and weak, with a refit from the cache or without it |
| `fit_operators` | 418,548 | Control files of up to four statements around the default ones, a fit and a refit |
| `binary_file` | 809,720 | Files of up to three records, one lost end at any byte, any of four kinds of object, with and without an index |
| `write_lock_mutex` | | *violated*: two processes can hold the lock |
| `fringe_pass_skipped` | | *violated*: a pass marked skipped but not finished loops for ever |

The two violated runs state what a comment or header of the repository says;
the text and the code's line are in `PROJECT.json` under `findings`.

### Observations

What was met while the code was read and modelled, and how the properties deal
with it. None is a run of its own.

*Lock.* `MHO_LockFileHandler.cc:575-576` looks at `n_checks` alone: a lock won
on the last attempt is reported as `LOCK_TIMEOUT_ERROR`, with the file in place
(`NoResidue` names it). `LockReturned` holds all the same, because `Visit` calls
`RemoveWriteLock` on every path. `MHO_MK4FringeExport::output` does not: four
early returns leave the lock, which only its age removes (`OneLockEach`,
`DeadLocksReclaimed` say what still holds).

*HOPS4 output.* A fringe file whose `Write` failed is renamed into place like
any other (`MHO_HopsOutputVisitor.cc:182-193`; state *short*). `BinaryFile`
shows that a reader gets the whole objects before the cut, and that it ends.

*Discovery and MPI.* Of two `.cor` files of one baseline the same data are
fitted twice and the other never. With several root files discovery takes the
first one and `DetermineRootFile` the first file ending in `.json`, which need
not be a root file, with a message that says the last is used. The directory is
read again when a pass is begun. A comma in a path makes every process leave in
`split_passes`. Process 0 leaving in discovery, or any process before the
barrier, leaves the others waiting, as `std::exit` is called without
`MPI_Finalize`: what then happens is up to the launcher (`JobEnds` says that
nobody waits for ever unless a process exits or a pass is lost, skipped but not
finished, and that a process that has the passes comes to the barrier whatever
becomes of the others).

*Conditions.* The loop at `MHO_ControlConditionEvaluator.cc:356` steps over the
element after an erased second argument: `true or true and true and false` is
false, though the order NOT, AND, OR is announced at line 260. Line 162 puts the
tokens of a group back in the wrong order, so that a NOT in parentheses applies
to what stands before it, or to nothing (`( not true )` throws).
`ValuesAreMeanings` is about conditions without these (`Simple`).

*Search.* A search without positive power keeps the bins of the search before
and, if there was one, returns true (`MHO_MBDelaySearch.cc:156`), though the
header says that it does so "only when a valid peak was found"
(`MHO_MBDelaySearch.hh:209-213`). `DelaySearch` does what the code does.
`PeakSearch` promises nothing for such a search but that the maximum is 0
and that nothing is found before there was a first peak: `IsPeakSearch` says
that a peak is found when there is one and that it is the first maximum, not that
what is returned is a peak. The header's claim is thus not among the properties
shown; it does not hold.

*Ionospheric search.* The test for the upper edge compares `kmax` with
`ion_npts` (`MHO_IonosphericFringeFitter.cc:274`, 306, 624). The coarse grid
never reaches it; the medium and the smoothed grids may, in the interior, when
`ion_npts` is small, and the next grid is then put at the edge. `PeakFound` says
for which grids the peak is found. The window is narrowed to the delay of the
present point by the strength of the point before (`NarrowedToSignal` gives the
condition under which it is still the signal's), and without a window in the
control file a refit searches in the narrowed one. What `Finalize` reports is
the window before it was narrowed (`FullWindowKept`), as the comment at line 392
has it; the one at line 99 speaks of the windows that were used.

Both searches begin with `last_ion_diff = 0` (lines 145 and 495) and so take for
granted that the visibilities are not rotated. That is true of the first fit,
and of a refit that `Refresh` has given the visibilities back from the cache.
Without a cache (a python operator in `postfit`, none in `prefit`) a refit begins
with visibilities that are still rotated for the last point of the fit before.
The TEC reported is then off by that much, and so are those at which the
amplitudes are listed. `PeakFound`, `PointsReported` and `SolutionIsApplied` are
therefore about the first fit and refits from the cache (`Refreshed`), and
nothing is claimed of the others but `NarrowedToSignal`, which does not
depend on it. That such a refit also calibrates again is in `FringePass`
(`CalibratedOnce`).

*Operators.* `MHO_MultitonePhaseCorrection.cc:119-190` interpolates the phase
calibration in place and it is not cached, so a refit interpolates again,
although a comment in `MHO_BasicFringeFitter.cc:209` says all data are restored;
`AppliedInOrder` is about the visibilities. A statement that switches an operator
off does not remove an earlier one. Conditions that match neither station bind a
manual calibration to both, and an `adhoc_flag_file` to none. The cache is made
when there are operators both in `prefit` and in `postfit` at the time it is
asked for (`MHO_BasicFringeFitter.cc:212`); without it `Refresh` restores nothing.
`polproduct_sum` is built with the calibration and run in `prefit`.

*Binary files.* `MHO_ObjectStreamState<XStream>::SetUnknown`
(`MHO_FileStreamer.hh:205-245`) is specialised for `MHO_FileStreamer` only, and
objects are read from an `MHO_BinaryFileStreamer`: an object of an unknown
version is not skipped (`MHO_BinaryFileInterface.hh:442-453`) and what follows
is read out of step. `PrefixLoaded` is about what comes before it.

### Bounds, and why they suffice

| bound | where | reason |
|---|---|---|
| two processes | lock, outputs | the arbitration is pairwise; the proofs of `WriteLockProofs` and `OutputProofs` are for any number |
| `Timeout` 2 or 3 attempts | | first, last and (3) one in between |
| `StaleAge` 0 or 1, `MaxClock` 1 to 3 ticks | | locks that are fresh, just stale and stale on one machine only; stamps that are equal and in either order |
| `MaxSeq` | `WriteLock` | no new wait starts when so many numbers are taken; 9 where the number of fits bounds it already |
| `Rounds` 1 | `HopsOutput` | one fit of each process: the second process meets what the first, dead or alive, has left in the directory |
| `Outputs` 2 and 1 | `MK4Output` | the second call of a process meets the lock that its first call kept |
| up to 3 passes, 2 processes, `MaxAgain` 1 | `FringePass` | an uneven deal, a process with two passes, with none, one refit |
| the inputs of `MCFringePass` | | one or several scans, groups and products, wild cards, pairs, autocorrelations, two files of one baseline, files that do not match, a comma, nothing |
| 13 object addresses | `PassStore` | as many as a pass creates |
| conditions of `MCConditionEvaluator` | | every operator next to every other, two levels of groups, juxtaposition, unbalanced and unknown tokens |
| 3 slices of 2 points, 2 threads, powers 0..2, at most two positive | `DelaySearch` | threads with one, two, three and no slices; ties and maxima at any pair of places |
| 1, 2, 3, 5, 6, 7, 12, 13 points; 10 places and 4 heights of the signal; `MaxFits` 2 | `IonosphericSearch` | a single point, fewer and more points than the fine grid has, both edges; a signal seen from everywhere, from near only, or hardly at all; one refit, with a cache and, for some of the signals, without |
| the statements of `MCFitOperators`; `MaxFits` 2 | `FitOperators` | every kind of builder that behaves differently, twice, before and after the defaults, for one, both and no station of the baseline; one refit |
| `MaxRecords` 3, `MaxCuts` 1 | `BinaryFile` | a bad record first, in the middle and last; bytes lost once, anywhere, with records appended behind |

Clock, attempts and numbers are the only counters of the code; each is capped by
a bound in a guard or by the constant that the code itself has.

### Fairness

- `HopsFairSpec`, `MK4FairSpec`: weak fairness of every step of a live
  process's own program and of the clock. The operating system schedules live
  processes and `sleep` returns. Nothing obliges a process to start, to fail, to
  receive a signal or to die, or a foreign file to appear or go.
- `FringePass!FairSpec`: a process goes on unless it waits for the list of
  passes or at the barrier, which opens when all have come. Not fair: that a
  python operator stops asking for refits; it is bounded by `MaxAgain`, and the
  liveness is for that bound.
- `ConditionEvaluator!FairSpec`, `BinaryFile!FairSpec`: one sequential program
  runs on (in `BinaryFile`, the reader; no writer need write).
- The other runs check safety only and assume none.

Deadlock is checked in all runs: final states stutter through an action that
names them (`Finished`, `AllDone`, `Ended`).

## 4. The proofs

All are checked to the last leaf; the assumptions are those on the constants,
named in the module that declares them and evaluated by TLC in the runs.

**WriteLock** (any processes, hosts, clocks, `StaleAge`, `Timeout`). None of the
properties is inductive. `LockInv` is what holds whoever calls the lock:
`Base` (types; `Numbered`: the files are 1..n, and a number in use is one of
1..n+1; `Owned`: the lock a process has on record, or is about to record, is its
own); `OneLock` and `Cleared` (a process that is about to create a lock file has
none: its first scan has returned the one on record, if it is still there);
`Kept` (a lock of a process that has one is missing only if it has aged for some
process); `Arbitration` (of two locks one was in the directory before the
other's owner created it, and that owner either has still to read it in its
second scan or has priority over it); `OneHolder`; `UniqueWhileExclusive`.
`IInv` adds `Forgotten`, which depends on the caller: one that gives the lock
back has none on record. The step that matters is the last entry of the second
scan: whoever is there and has been there longer has a later stamp, or the
scanner yields. That leaves exactly `Overtook` for a second holder. Theorems:
`TypeCorrect`, `Exclusion`, `LiveLocksKept`, `NothingLeftBehind`,
`NumbersContiguous`, `NumbersUnique`.

**HopsOutput** (any processes, hosts, clocks, fits). `HInv` is `IInv` of
`WriteLock`, of which the lemma `InductiveStep` disposes for every step that is
also one of `WriteLock`; `NoRenameKeeps` and `RemoveKeeps` show it for the two
that are not (nothing renamed; the lock given back after an error). To it come
`VisitTypes`, `Waiting` (a process that has to do with the lock is in the part
of `Visit` that waits for it), `Rounded`, `TempsKnown` and `OutKnown` (of which
fit a temporary and a numbered file can be, and in which state), `OnePlace` and
`NothingLost`. The step that matters is `Rename`: the fit is closed because its
writer is past the data, it is nowhere else by `OnePlace`, and the number is
free by `UniqueWhileExclusive`. In `OutputProofs`. Theorems: `HopsTyped`, `LockKept` (the
guarantees of the lock, for this caller), `NoFitLost`, `FitInOnePlace`,
`LockIsReturned`, and `ImplementsStore`: `HopsSpec => IsFringeStore`.

`OwnStepsCount` is about the way of one process among the others: what it has
before it (`Toil`) is its visits, the parts of this one, its calls of `at_front`,
the steps within one and the entries of its scan, the weightiest first. Each of
its own steps lessens that. Of all that the others do, and that fails, one thing
only adds to it: a lock file created during its scan may be returned by it
(`Interrupted`), and the process that creates it has then fewer steps left
itself. That the numbers are there needs a directory that stays finite
(`Finite`).

**MK4Output** (any processes, hosts, clocks, outputs), in the same module.
`output` returns with the lock on four paths, so that `Forgotten` is false of
it; `LockInv` is not. To it comes `FilesKnown`: a live process that has a file
open writes under the number it was given (`Opened`), a file begun and not ended
by a live process is the one it has open (`Begun`), and nobody else has it open
as long as the lock has been exclusive (`Undisturbed`). Theorems: `MK4Typed`,
`MK4LockKept`, `OneLockOnly` (from `Cleared`), `UnfinishedIsLocked`, and the
action property `WholeFilesKept`.

**FringePass** (any processes, passes, refits, and any experiments whose passes
do not exceed `MaxPasses`). `IInv` is `TypeOK`; `PassStates`
(what `skipped`, `finished`, `solved` and `calibrated` tell at each step);
`Dealing` (process r has taken exactly the passes r, r+N, ... up to its own, and
ends past the last), which needs `Known`: whoever has a list has that of process
0, sent before, and it is what was determined. `EachPassOnce` then is arithmetic
modulo the number of processes.

`SelectedOnce` goes on to what the passes are. `determine_passes` is four loops
in each other; in the model they are `FlattenSeq` of sequences of sequences.
`FlattenOnce` says what such a loop keeps: what is in one of the parts once, and
in no other, is in the whole once; what is in none of them is not in it. It is
proved by induction on the length, for which `SetInduction` states induction for
a set (the theorem of the library takes a predicate, which the provers cannot
instantiate) and derives it from the well-foundedness of inclusion. Applied
from the inside out it gives `ProductsOnce`, `FilePasses`, `ScanPasses` and
`DeterminedOnce`. `MappedIs` says the same of the map in which the pass looks for
its file. The assumption `InputAssumption` is what the theorem needs of the
files: groups and products in the tags of a file are there once (they are made
from sets, `MHO_MK4ScanConverter.cc:159-180`, `MHO_DiFXBaselineProcessor.cc:765-768`),
and a pair of stations has five characters (`MHO_FringeDataDiscovery.cc:128-132`).

`EveryStepLeadsOn` compares what a process has before it before and after each
step: its phase, the passes, the refits and the steps of a pass (`Way`). One
step only does not shorten it: `PostRun` of a pass that was marked skipped and
not finished, which is the finding of `fringe_pass_skipped`. That there is no
other such pass is `LostOnly`, an invariant of its own.
Theorems: `Typed`, `DealtOut`, `SelectedOnce`, `SolvedOutput`, `Calibrated`,
`EveryStepLeadsOn`.

**ContainerStore, PassStore** (any objects, ids, names, files), in
`StoreProofs`. The tables are inductive together with their types.
`PassUsesStore` proves the refinement `PassSpec => StoreSpec`; what is proved of
the store (`LookupsAreOwned`, `ReservedNamesLead`) then holds in a pass without a
second proof (`PassTables`).

What the names lead to needs the order in which a pass fills the store, and two
invariants. `NamesInv`: what is still to come of the baseline file has ids of its
own (`ReadOnce`); until both single precision objects are gone an id is that of
one object with one name (`OneNameEach`), so that a deletion leaves no name
behind; and how far the replacement of each has come (`CastShape`,
`CastLedger`). `RolesInv`: which names may be there while a station file is read
(`FileNames`, `Arrivals`, `RolesFree`), to which file a role leads
(`RolesKept`), and that what was read of a file that was read whole is found
(`Complete`). They rest on `FileAssumption`, which is what the converters write:
one id for each object of a baseline file, at most one object of station data
and one of phase calibration in a station file
(`MHO_MK4ScanConverter.cc:186-229`, `MHO_DiFXScanProcessor.cc:722-725`).
Theorems: `NamesAlwaysResolve`, `CastIsFound`, `RolesAreKept`.

**BinaryFile** (any objects, sizes, versions, lost ends and records appended), in
`StoreProofs`. `FileInv`: the records follow each other and end no later than
their bytes (`Layout`); the index is complete or not there as long as nothing
failed (`IndexKept`); jumping from key to key is in step with the records as long
as these can be jumped over (`Extracting`, `FromIndex`); and reading is in step
with the keys as long as the records can be read (`Loading`). For `LoadMakesWay`,
`LoadInv` adds that the keys found lie in front of the place that is read next
(`KeysBehind`), so that each step, whatever it finds there, leaves fewer bytes
and keys (`ToRead`). Theorems: `FilesTyped`, `AllKeysFound`,
`ReadablePrefixLoaded`, `IndexIsComplete`, `LoadMakesWay`.

**ConditionEvaluator** (any finite conditions). `IInv` adds to the types and
`GroupsOnStack`: the open parentheses among the tokens read, minus the closed
ones, are those on the stack (`ReadSoFar`); what that says when a condition is
read to its end (`WholeRead`, `LastDone`, `EarlierBalanced`). Counting is by cardinality of
sets of positions, so that no recursion is needed.

`Meant` says that what the loops make of a condition is what it means. A list is
read as a disjunction of conjunctions of operands, with the NOTs in front of each,
in terms of the positions of operands, operators and gaps; the value of a group
takes the place of the group. `MInv` says of each state that the lists are
well-formed and that the value of the list under rewriting, with what is
outside of it on the stack, is that of the tokens read so far (`Left`). It is
kept because each erasure maps the positions of the shorter list onto those of
the longer one and takes to each other what binds there: one lemma for a NOT and
its operand, one for two operands and the operator between, each in parts for
operands, gaps and operators. Neither needs induction over the list. Not every
condition is `Simple`: a NOT in a group, and three operands joined by AND next to
an OR, are evaluated in another way than the comments say.

`EveryStepCounts`: what is left of the control file, of the condition, of the
stage, of the list, of the three loops and of the way through the list decreases
in the lexicographic order with every step, conditions that are ill-formed
included. Theorems: `Typed`, `Counted`, `BalancedOnly`, `Meant`,
`EveryStepCounts`.

**DelaySearch** (any threads, slices, points, spectra, windows). `IInv`: every
maximum kept, each thread's and the search's, is the first maximum of the bins
taken in so far, and its count their cardinality (`LocalMaxima`,
`GlobalMaximum`); the bins taken in by the search are those below `Done`, which
is 0, a serial index or the start of the next thread's run. Two lemmas carry
it: `AfterVisit` (one more bin) and `AfterMerge` (the run that follows; a tie
keeps the earlier bin). Theorems: `PeakFound` (the bins are those of the first
maximum, or, without power, those of the search before), and `Implements`: both
builds implement `PeakSearch`, which leaves open what a search without power
returns once there was a peak.

**IonosphericSearch** (any setups, noise, threshold, refits). `IInv`: `GridOK`
(the form of each grid), `RotationOK` (in the first fit and in refits from the
cache the visibilities are rotated by `last`, which is what the next point
takes back; in a refit without cache they are rotated by something else, of
which only the type is known), `WindowOK` (the window that is
asked for is known as long as it may have been narrowed), `StrengthOK` (the
strength remembered is that of the signal as the visibilities are rotated, which
need not be what the search takes the rotation for) and `NarrowedToSignal`. On it
rest two more invariants. `Gathered`: the array that is reported has the points
of the grids before this one, and the levels have no more points than are
counted; sorting it keeps them, and the points seen are those listed if
`Refreshed` (`PointsReported`). `Tracking`, again if `Refreshed`: as long as the
search has not been narrowed to noise, what was found at a point is the signal
there, and the peak is where the grid is (`Enclosed`); from one grid to the next
this is arithmetic about the distances of the points and the sides of the peak.
The proof of it found that the medium grid may have its two points next to the
peak in the noise, so that a further condition is now among those of `PeakFound`.
For the smoothed grid the maximum is that of sums over the coarse points, and
`PeakFound` is left to the runs. Theorems, for all fits: `Invariance`,
`Typed`, `Narrowed`, `Reported` (the window kept for the report is the one asked
for, in the first fit and whenever the control file has a window); for the first fit and refits from the cache: `Applied` (the solution
reported is the one the visibilities are rotated for), `AllPoints`,
`PlainPeakFound`.

**OperatorToolbox, FitOperators** (any stations, control files, refits). `IInv`:
types, `TablesAgree` of the toolbox, and how the operators that a builder has made but
not added (`PendingOK`), those added at each stage (`StageOK`, `MadeOK`), the
queue of the fitter (`QueueOK`), what was applied (`AppliedOK`) and what the cache
holds (`CachedOK`) hang together. `AskedInv` is about the way from the statements
to the operators: each statement that has had its turn has its operators, made in
one go (`BatchesOK`) and in the order of the statements (`InTurn`); what was added
is still there unless a later one has its name (`OwnedOK`); the file of a station
is that of the last statement for it (`FlagsOK`, `FlaggingOK`). A statement's
operators have names of their own because only some kinds of statement take a
name from the control file (`Statement`; `MHO_AdhocFlaggingBuilder.cc:24-26`,
`MHO_PythonOperatorBuilder.hh:58`). Theorems: `Tables`, `Own`, `Ordered`,
`Asked`, `FlagFiles`.

The type invariants of these modules are part of the inductive invariants and so
proved for all constants. `Contiguous`, `GroupsOnStack`, `OnlyBalancedValued`,
`FirstMaximum`, `FullWindowKept` and `TablesAgree` are proved and not in a run,
the properties of the runs being stronger or about more.

Only model-checked: liveness (`VisitReturns`, `DeadLocksReclaimed`,
`JobEnds`, `EvaluationEnds`, `LoadEnds`), which needs fairness and `ENABLED`.
What the program contributes to four of them is proved: each step lessens a
quantity for which there is no infinite descent (`OwnStepsCount`,
`EveryStepLeadsOn`, `EveryStepCounts`, `LoadMakesWay`; the lemmas `NoEndlessToil`,
`NoEndlessWay`, `NoEndlessEffort`; for `LoadMakesWay` it is a natural number).
What is left to the runs is that a process that is not done has a step to take,
and is scheduled. `DeadLocksReclaimed` depends on the clock and on the steps of
others as much as on the process that waits, and is not split so. Also left to
the runs is `PeakFound` for the search with smoothing. Every other property of
the runs is the statement of a theorem.

## 5. Not modelled

Numerical work (transforms, calibration, interpolation, smoothing), contents of
objects and files, parsing and formatting, file names taken apart, conversion
programs, plots, bindings, the HOPS3 programs: sequential data transformations,
where a unit test reaches what a model would. They are most of the repository,
and the reason why the models stand for a small share of its lines. Optional
builds for CUDA and OpenCL. The OpenMP variant of the ionospheric fitter, which
the build leaves out. Of the MPI interface what `fourfit4` does not use
(sequential sections, gathered messages, split groups). One operator is
executed once more for the plots (`dpar_corr`, `MHO_ComputePlotData.cc:426`),
after the fit, and is left out of `FitOperators`. `PROJECT.json` has each
component with its reason.

## 6. Plan

Done, in this order: write lock; outputs and their abstract store; pass loop;
container store and its use; conditions; coarse search; binary files;
ionospheric search; toolbox and operators; discovery and broadcast; proofs of the
outputs over those of the lock, of names and roles in a pass, of binary files, of
the operators asked for, of the selection of passes; of the value of a condition;
of the steps that bring a visit, a job, an evaluation and a load to its end.

Next:

1. Proofs: `PeakFound` with smoothing, for which the sums have to be compared
   point by point; a quantity for `DeadLocksReclaimed`, over all the processes
   that wait.
2. `PythonSubprocess`: request and response files, a child that fails or hangs.
3. `ConditionEvaluator` composed with `FitOperators`: the statements of a
   control file from their conditions to the order in which they are applied.
4. The conversions (`difx2hops`, `mark42hops`): which files make one scan.

## 7. Running

    tlc -workers 2 -config WriteLock_two.cfg MCWriteLock
    tlc -workers 2 -config HopsOutput.cfg MCHopsOutput
    tlc -workers 2 -config MK4Output.cfg MCMK4Output
    tlc -workers 2 -config FringePass.cfg MCFringePass
    tlc -workers 2 -config PassStore.cfg MCPassStore
    tlc -workers 2 -config ConditionEvaluator.cfg MCConditionEvaluator
    tlc -workers 2 -config DelaySearch.cfg MCDelaySearch
    tlc -workers 2 -config IonosphericSearch.cfg MCIonosphericSearch
    tlc -workers 2 -config FitOperators.cfg MCFitOperators
    tlc -workers 2 -config BinaryFile.cfg MCBinaryFile
    tlapm WriteLockProofs.tla        # and the other *Proofs modules

Each run takes less than three minutes, each of the proofs a few.
