------------------------------ MODULE FringePass ------------------------------
(***************************************************************************)
(* fourfit4: one of the MPI processes looks for the passes (one baseline   *)
(* and polarization product of a scan each) and sends the list to all; the *)
(* passes are dealt out; a process takes its passes through                *)
(* MHO_FringePass - Initialize, Configure, Run - with one of the three     *)
(* fringe fitters, and waits for the others at the end.  The steps of a    *)
(* pass talk to each other through two entries of the parameter store,     *)
(* /status/skipped and /status/is_finished, which any of them may set.     *)
(***************************************************************************)
EXTENDS ScanDiscovery

CONSTANTS
  Inputs,      \* a sequence of experiments, each with a command line
  Processes,   \* n_processes; the processes are 0..Processes-1
  MaxPasses,   \* bound: the size of pass_vector
  MaxAgain     \* bound: how often a python operator asks for another fit

\* what there is to fit, for each input
Determined ==
  [n \in DOMAIN Inputs |-> determine_passes(Inputs[n].experiment, Inputs[n].cmdline)]

ASSUME FringePassAssumption ==
  /\ \A n \in DOMAIN Inputs : Len(Determined[n]) \in 0..MaxPasses
  /\ Processes \in Nat \ {0}
  /\ MaxPasses \in Nat
  /\ MaxAgain \in Nat

\* a station has a code of two characters; the tags of a file are made from sets
ASSUME InputAssumption ==
  \A n \in DOMAIN Inputs :
    LET e == Inputs[n].experiment
    IN /\ e \in Experiment
       /\ Inputs[n].cmdline \in CommandLine
       /\ \A m \in Dirs(e) : \A f \in Range(Dir(e, m).cor) :
            /\ Len(f.code) = 2 => Len(f.pair) = 5
            /\ IsInjective(f.groups) /\ IsInjective(f.pols)

Rank == 0..(Processes - 1)
Pass == 0..(MaxPasses - 1)

VARIABLES
  input,      \* the number of the input
  passes,     \* pass_vector, of every process that has it
  sent,       \* the process with id 0 has come to the broadcast of the passes
  at,         \* what each process does next
  pass,       \* pass_index
  skipped,    \* /status/skipped
  finished,   \* /status/is_finished
  kind,       \* the fitter that ConstructFringeFitter builds
  python,     \* /config/plugins/activate_python: the control file has
              \*   python operators for this pass
  plugins,    \* what MHO_PluginVisitorFactory has built, once per process
  postfit,    \* there are operators in the category postfit
  caching,    \* fEnableCaching
  calibrated, \* how often vis was calibrated since it was read or refreshed
  solved,     \* calculate_fringe_solution_info was reached in this pass
  again,      \* fits a python operator has asked for in this pass
  takenBy     \* history: the processes that took each pass

status   == <<skipped, finished>>
fitter   == <<kind, python, postfit, caching, calibrated, solved, again>>
discovery == <<input, passes, sent>>
vars     == <<discovery, at, pass, status, fitter, plugins, takenBy>>

Kind == {"basic", "ionospheric", "spectral"}
Loop == {"test", "initialize", "prerun", "run", "postrun"}
Step == {"discover", "broadcast", "next", "init", "configure", "fitter"} \cup Loop
          \cup {"finalize", "output", "barrier", "done", "exited"}

TypeOK ==
  /\ input \in DOMAIN Inputs
  /\ Len(passes) \in 0..MaxPasses
  /\ sent \in BOOLEAN
  /\ at \in [Rank -> Step]
  /\ pass \in [Rank -> Nat]
  /\ skipped \in [Rank -> BOOLEAN]
  /\ finished \in [Rank -> BOOLEAN]
  /\ kind \in [Rank -> Kind]
  /\ python \in [Rank -> BOOLEAN]
  /\ plugins \in [Rank -> {"unbuilt", "none", "python"}]
  /\ postfit \in [Rank -> BOOLEAN]
  /\ caching \in [Rank -> BOOLEAN]
  /\ calibrated \in [Rank -> 0..2]
  /\ solved \in [Rank -> BOOLEAN]
  /\ again \in [Rank -> 0..MaxAgain]
  /\ takenBy \in [Pass -> SUBSET Rank]

Init ==
  /\ input \in DOMAIN Inputs
  /\ passes = <<>>
  /\ sent = FALSE
  /\ at = [r \in Rank |-> IF r = 0 THEN "discover" ELSE "broadcast"]
  /\ pass = [r \in Rank |-> r]
  /\ skipped = [r \in Rank |-> FALSE]
  /\ finished = [r \in Rank |-> FALSE]
  /\ kind = [r \in Rank |-> "basic"]
  /\ python = [r \in Rank |-> FALSE]
  /\ plugins = [r \in Rank |-> "unbuilt"]
  /\ postfit = [r \in Rank |-> FALSE]
  /\ caching = [r \in Rank |-> FALSE]
  /\ calibrated = [r \in Rank |-> 0]
  /\ solved = [r \in Rank |-> FALSE]
  /\ again = [r \in Rank |-> 0]
  /\ takenBy = [i \in Pass |-> {}]

experiment == Inputs[input].experiment
cmdline    == Inputs[input].cmdline

Goto(r, step) == at' = [at EXCEPT ![r] = step]

Status(r, skip, finish) ==
  /\ skipped' = [skipped EXCEPT ![r] = skip]
  /\ finished' = [finished EXCEPT ![r] = finish]

-----------------------------------------------------------------------------
(* main: the passes are determined by one process and sent to all *)

Discover ==
  /\ at[0] = "discover"
  /\ Goto(0, "broadcast")
  /\ passes' = Determined[input]
  /\ sent' = TRUE
  /\ UNCHANGED <<input, pass, status, fitter, plugins, takenBy>>

\* the conversion of mark4 data fails, or a directory or file cannot be read
DiscoveryExits ==
  /\ at[0] = "discover"
  /\ Goto(0, "exited")
  /\ UNCHANGED <<discovery, pass, status, fitter, plugins, takenBy>>

\* BroadcastString, which returns when the list has been sent, and split_passes
BroadcastString(r) ==
  /\ at[r] = "broadcast"
  /\ sent
  /\ Goto(r, IF Mismatched(experiment, passes) THEN "exited" ELSE "next")
  /\ UNCHANGED <<discovery, pass, status, fitter, plugins, takenBy>>

-----------------------------------------------------------------------------
(* The loop over the passes *)

\* the MHO_FringePass of an iteration is destroyed at its end, with its
\* parameter store and its fitter; the next one starts afresh
DestroyPass(r) ==
  /\ Status(r, FALSE, FALSE)
  /\ kind' = [kind EXCEPT ![r] = "basic"]
  /\ python' = [python EXCEPT ![r] = FALSE]
  /\ postfit' = [postfit EXCEPT ![r] = FALSE]
  /\ caching' = [caching EXCEPT ![r] = FALSE]
  /\ calibrated' = [calibrated EXCEPT ![r] = 0]
  /\ solved' = [solved EXCEPT ![r] = FALSE]
  /\ again' = [again EXCEPT ![r] = 0]

\* mutant: the passes are dealt out in blocks that overlap
ContinueNext(r) ==
  /\ Goto(r, "next")
  /\ pass' = [pass EXCEPT ![r] = @ + 1]
  /\ DestroyPass(r)

\* on to pass_index += n_processes
Continue(r) ==
  /\ Goto(r, "next")
  /\ pass' = [pass EXCEPT ![r] = @ + Processes]
  /\ DestroyPass(r)

TakePass(r) ==
  /\ at[r] = "next"
  /\ pass[r] < Len(passes)
  /\ Goto(r, "init")
  /\ takenBy' = [takenBy EXCEPT ![pass[r]] = @ \cup {r}]
  /\ UNCHANGED <<discovery, pass, status, fitter, plugins>>

\* mutant: a process without any pass does not come to the barrier
NoMorePassesLeaves(r) ==
  /\ at[r] = "next"
  /\ pass[r] >= Len(passes)
  /\ Goto(r, IF pass[r] = r THEN "done" ELSE "barrier")
  /\ UNCHANGED <<discovery, pass, status, fitter, plugins, takenBy>>

NoMorePasses(r) ==
  /\ at[r] = "next"
  /\ pass[r] >= Len(passes)
  /\ Goto(r, "barrier")
  /\ UNCHANGED <<discovery, pass, status, fitter, plugins, takenBy>>

\* GlobalBarrier: nobody passes it before everybody is there
GlobalBarrier ==
  /\ \A r \in Rank : at[r] = "barrier"
  /\ at' = [r \in Rank |-> "done"]
  /\ UNCHANGED <<discovery, pass, status, fitter, plugins, takenBy>>

\* std::exit for want of a python interpreter, or an exception thrown by
\* check_step_fatal: the process is gone
Exit(r) ==
  /\ at[r] \in {"configure", "prerun", "run"}
  /\ ~skipped[r]
  /\ Goto(r, "exited")
  /\ UNCHANGED <<discovery, pass, status, fitter, plugins, takenBy>>

-----------------------------------------------------------------------------
(* MHO_FringePass::Initialize and Configure *)

pass_info(r) == passes[pass[r] + 1]
input_directory(r) == Dir(experiment, pass_info(r).dir)

\* the scan directory is not valid, or does not have the baseline; it may have changed
\* since the passes were determined
InitializeFails(r) ==
  /\ at[r] = "init"
  /\ Continue(r)
  /\ UNCHANGED <<discovery, plugins, takenBy>>

Initialize(r) ==
  /\ at[r] = "init"
  /\ IsValid(input_directory(r))
  /\ IsBaselinePresent(input_directory(r), pass_info(r).baseline)
  /\ Goto(r, "configure")
  /\ Status(r, FALSE, FALSE)
  /\ UNCHANGED <<discovery, pass, fitter, plugins, takenBy>>

\* a skip statement applies, or the python control file could not be evaluated
ConfigureSkips(r) ==
  /\ at[r] = "configure"
  /\ Continue(r)
  /\ UNCHANGED <<discovery, plugins, takenBy>>

\* the visitors are collected right after: the plug-ins are built the first
\* time (in a build with the embedded interpreter), for the control statements
\* and the plot backend of that pass
Configure(r) ==
  /\ at[r] = "configure"
  /\ Status(r, FALSE, FALSE)
  /\ \E k \in Kind : kind' = [kind EXCEPT ![r] = k]
  /\ \E need, matplotlib \in BOOLEAN :
       /\ python' = [python EXCEPT ![r] = need]
       /\ IF plugins[r] # "unbuilt"
          THEN UNCHANGED plugins
          ELSE plugins' = [plugins EXCEPT ![r] =
                             IF need \/ matplotlib THEN "python" ELSE "none"]
  /\ Goto(r, "fitter")
  /\ UNCHANGED <<discovery, pass, postfit, caching, calibrated, solved, again, takenBy>>

-----------------------------------------------------------------------------
(* Configure of the fitter, the same in all three *)

\* the file has no visibilities, no weights or no station coordinates: the pass
\* is marked skipped, and not finished
NoData(r) ==
  /\ at[r] = "fitter"
  /\ Status(r, TRUE, FALSE)
  /\ Goto(r, "test")
  /\ UNCHANGED <<discovery, pass, fitter, plugins, takenBy>>

\* nothing to fit, or nothing left after the cuts
EmptyData(r) ==
  /\ at[r] = "fitter"
  /\ Status(r, TRUE, TRUE)
  /\ Goto(r, "test")
  /\ UNCHANGED <<discovery, pass, fitter, plugins, takenBy>>

\* the operators are built; only python operators are in postfit
FitterConfigure(r) ==
  /\ at[r] = "fitter"
  /\ \E inPrefit, inPostfit \in BOOLEAN :
       /\ inPostfit => python[r] /\ plugins[r] = "python"
       /\ postfit' = [postfit EXCEPT ![r] = inPostfit]
       /\ caching' = [caching EXCEPT ![r] = inPrefit /\ inPostfit]
  /\ Goto(r, "test")
  /\ UNCHANGED <<discovery, pass, status, kind, python, calibrated, solved, again, plugins,
                 takenBy>>

-----------------------------------------------------------------------------
(* MHO_FringePass::Run: while(!IsFinished()) { Initialize; PreRun; Run; PostRun } *)

IsFinished(r) ==
  /\ at[r] = "test"
  /\ Goto(r, IF finished[r] THEN "finalize" ELSE "initialize")
  /\ UNCHANGED <<discovery, pass, status, fitter, plugins, takenBy>>

\* mutant: the cached data are not copied back
InitializeWithoutRefresh(r) ==
  /\ at[r] = "initialize"
  /\ Goto(r, "prerun")
  /\ calibrated' = IF skipped[r] \/ calibrated[r] = 2
                   THEN calibrated
                   ELSE [calibrated EXCEPT ![r] = @ + 1]
  /\ UNCHANGED <<discovery, pass, status, kind, python, postfit, caching, solved, again, plugins,
                 takenBy>>

\* Refresh from the cache if there is one, then flagging and calibration
FitterInitialize(r) ==
  /\ at[r] = "initialize"
  /\ Goto(r, "prerun")
  /\ calibrated' =
       IF skipped[r] THEN calibrated
       ELSE [calibrated EXCEPT ![r] = IF caching[r] \/ @ = 0 THEN 1 ELSE 2]
  /\ UNCHANGED <<discovery, pass, status, kind, python, postfit, caching, solved, again, plugins,
                 takenBy>>

PreRun(r) ==
  /\ at[r] = "prerun"
  /\ Goto(r, "run")
  /\ UNCHANGED <<discovery, pass, status, fitter, plugins, takenBy>>

\* the spectral line fitter finds its data unfit after the prefit operators
PreRunSkips(r) ==
  /\ at[r] = "prerun"
  /\ kind[r] = "spectral" /\ ~skipped[r]
  /\ Goto(r, "run")
  /\ Status(r, TRUE, finished[r])
  /\ UNCHANGED <<discovery, pass, fitter, plugins, takenBy>>

RunsNothing(r) ==
  /\ at[r] = "run"
  /\ skipped[r] \/ finished[r]
  /\ Goto(r, "postrun")
  /\ UNCHANGED <<discovery, pass, status, fitter, plugins, takenBy>>

RunSolves(r) ==
  /\ at[r] = "run"
  /\ ~skipped[r] /\ ~finished[r]
  /\ Goto(r, "postrun")
  /\ Status(r, FALSE, TRUE)
  /\ solved' = [solved EXCEPT ![r] = TRUE]
  /\ UNCHANGED <<discovery, pass, kind, python, postfit, caching, calibrated, again, plugins,
                 takenBy>>

\* mutant: the pass is marked skipped only
NoPeakUnfinished(r) ==
  /\ at[r] = "run"
  /\ kind[r] # "ionospheric" /\ ~skipped[r] /\ ~finished[r]
  /\ Goto(r, "postrun")
  /\ Status(r, TRUE, FALSE)
  /\ UNCHANGED <<discovery, pass, fitter, plugins, takenBy>>

\* the coarse search locates no peak
NoPeak(r) ==
  /\ at[r] = "run"
  /\ kind[r] # "ionospheric" /\ ~skipped[r] /\ ~finished[r]
  /\ Goto(r, "postrun")
  /\ Status(r, TRUE, TRUE)
  /\ UNCHANGED <<discovery, pass, fitter, plugins, takenBy>>

\* one of the coarse searches of the ionospheric search locates no peak: it goes
\* on with the others, and the solution is calculated all the same
IonSearchFails(r) ==
  /\ at[r] = "run"
  /\ kind[r] = "ionospheric" /\ ~skipped[r] /\ ~finished[r]
  /\ Goto(r, "postrun")
  /\ Status(r, TRUE, TRUE)
  /\ solved' = [solved EXCEPT ![r] = TRUE]
  /\ UNCHANGED <<discovery, pass, kind, python, postfit, caching, calibrated, again, plugins,
                 takenBy>>

\* the same when the interpolator of the spectral line fitter fails
InterpolationFails(r) ==
  /\ at[r] = "run"
  /\ kind[r] = "spectral" /\ ~skipped[r] /\ ~finished[r]
  /\ Goto(r, "postrun")
  /\ Status(r, TRUE, TRUE)
  /\ solved' = [solved EXCEPT ![r] = TRUE]
  /\ UNCHANGED <<discovery, pass, kind, python, postfit, caching, calibrated, again, plugins,
                 takenBy>>

PostRun(r) ==
  /\ at[r] = "postrun"
  /\ Goto(r, "test")
  /\ UNCHANGED <<discovery, pass, status, fitter, plugins, takenBy>>

\* a python operator in postfit changes some operator and has the fit done again
PostRunAgain(r) ==
  /\ at[r] = "postrun"
  /\ ~skipped[r]
  /\ postfit[r] /\ again[r] < MaxAgain
  /\ again' = [again EXCEPT ![r] = @ + 1]
  /\ Status(r, FALSE, FALSE)
  /\ Goto(r, "test")
  /\ UNCHANGED <<discovery, pass, kind, python, postfit, caching, calibrated, solved, plugins,
                 takenBy>>

\* mutant: a skipped pass is handed to the visitors
FinalizeAll(r) ==
  /\ at[r] = "finalize"
  /\ Goto(r, "output")
  /\ UNCHANGED <<discovery, pass, status, fitter, plugins, takenBy>>

\* nothing is done for a skipped pass, and Run returns before the visitors
Finalize(r) ==
  /\ at[r] = "finalize"
  /\ IF skipped[r] THEN Continue(r)
                   ELSE Goto(r, "output") /\ UNCHANGED <<discovery, pass, status, fitter>>
  /\ UNCHANGED <<discovery, plugins, takenBy>>

Output(r) ==
  /\ at[r] = "output"
  /\ Continue(r)
  /\ UNCHANGED <<discovery, plugins, takenBy>>

-----------------------------------------------------------------------------
Drive(r) ==
  \/ r = 0 /\ Discover
  \/ BroadcastString(r)
  \/ TakePass(r) \/ NoMorePasses(r)
  \/ InitializeFails(r) \/ Initialize(r)
  \/ ConfigureSkips(r) \/ Configure(r)
  \/ NoData(r) \/ EmptyData(r) \/ FitterConfigure(r)
  \/ IsFinished(r) \/ FitterInitialize(r)
  \/ PreRun(r) \/ PreRunSkips(r)
  \/ RunsNothing(r) \/ RunSolves(r)
  \/ NoPeak(r) \/ IonSearchFails(r) \/ InterpolationFails(r)
  \/ PostRun(r) \/ PostRunAgain(r)
  \/ Finalize(r) \/ Output(r)

\* everyone is at the end, or waits in vain for a process that exited, at the barrier
\* or for the passes
Ended ==
  /\ \A r \in Rank : \/ at[r] \in {"barrier", "done", "exited"}
                     \/ at[r] = "broadcast" /\ ~sent
  /\ \E r \in Rank : at[r] \in {"done", "exited"}
  /\ UNCHANGED vars

Next ==
  \/ \E r \in Rank : Drive(r) \/ Exit(r)
  \/ DiscoveryExits
  \/ GlobalBarrier
  \/ Ended

Spec == Init /\ [][Next]_vars

\* a process runs as long as it is not waiting for others
FairSpec == Spec /\ (\A r \in Rank : WF_vars(Drive(r))) /\ WF_vars(GlobalBarrier)

-----------------------------------------------------------------------------
(* Properties *)

AllThrough == \A r \in Rank : at[r] \in {"barrier", "done"}

(* Each pass is taken by one process, and none is left out: when all have     *)
(* come to the barrier of main, every pass was taken exactly once, also if    *)
(* there are fewer passes than processes.                                     *)
EachPassOnce ==
  /\ \A i \in Pass : Cardinality(takenBy[i]) <= 1
  /\ AllThrough => \A i \in Pass : takenBy[i] # {} <=> i < Len(passes)

\* a baseline is asked for by a pattern for its code or by the pair of its stations
AskedFor(file) ==
  /\ cmdline.baseline \in {file.pair, file.code, <<"?", file.code[2]>>, <<file.code[1], "?">>,
                           <<"?", "?">>}
  /\ cmdline.exclude_autos => file.code[1] # file.code[2]

\* the data of file f in directory n, of a group and polarization product, are to be fitted
Wanted(n, f, group, pol) ==
  /\ Dir(experiment, n).root
  /\ experiment.top.root => n = 0
  /\ AskedFor(f)
  /\ cmdline.group \in {"?", group}
  /\ \/ cmdline.pol = pol
     \/ cmdline.pol = "??" /\ pol \in Range(f.pols)

(* In every scan each group and polarization product of each baseline that    *)
(* the command line selects is given to a process, once, and nothing else is: *)
(* if the directory has one file for the baseline, and the passes can be sent.*)
EachSelectionOnce ==
  AllThrough =>
    \A n \in Dirs(experiment) :
      LET d == Dir(experiment, n)
      IN \A k \in {k \in DOMAIN d.cor : Len(d.cor[k].code) = 2} :
           (\A j \in DOMAIN d.cor : d.cor[j].code = d.cor[k].code => j = k) =>
             \A g \in Range(d.cor[k].groups),
                p \in (Range(d.cor[k].pols) \cup {cmdline.pol}) \ {"??"} :
               Cardinality({i \in Pass :
                              /\ takenBy[i] # {}
                              /\ passes[i + 1].dir = n
                              /\ passes[i + 1].group = g /\ passes[i + 1].pol = p
                              /\ Mapped(d, passes[i + 1].baseline) = k})
                 = IF Wanted(n, d.cor[k], g, p) THEN 1 ELSE 0

(* The output visitors get a pass only with a solution, and only one that no  *)
(* step, however late, has marked skipped.                                    *)
OutputIsSolved ==
  \A r \in Rank : at[r] = "output" => solved[r] /\ finished[r] /\ ~skipped[r]

(* The data that are searched have been calibrated exactly once: in the first *)
(* fit of a pass, and in every later one if the cache is enabled.             *)
CalibratedOnce ==
  \A r \in Rank :
    at[r] = "run" /\ ~skipped[r] /\ (caching[r] \/ again[r] = 0) => calibrated[r] = 1

\* the pass is skipped but not finished, for want of data or of data fit for a line search
Lost(r) ==
  at[r] \in Loop /\ skipped[r] /\ ~finished[r] /\ (calibrated[r] = 0 \/ kind[r] = "spectral")

(* The job ends: if no process exits, and none has a pass that is lost, all   *)
(* come through the barrier, whatever the fits find and ask for; and one that *)
(* has the passes comes to the barrier whatever becomes of the others.        *)
JobEnds ==
  LET Sound(r) == at[r] # "exited" /\ ~Lost(r)
  IN /\ [](\A r \in Rank : Sound(r)) => <>(\A r \in Rank : at[r] = "done")
     /\ \A r \in Rank :
          []Sound(r) /\ <>sent => <>(at[r] \in {"barrier", "done"})

(* What the header says of Run: a skipped pass returns.                       *)
SkippedPassReturns ==
  \A r \in Rank :
    at[r] = "test" /\ skipped[r] ~> at[r] \notin Loop
=============================================================================
