---------------------------- MODULE ScanDiscovery ----------------------------
(***************************************************************************)
(* What there is to fit: MHO_FringeDataDiscovery looks through the         *)
(* directory of a scan, or through those of an experiment, for the passes  *)
(* that the command line selects; MHO_ScanDataStore looks through the      *)
(* directory of a pass again when the pass is begun.                       *)
(*                                                                         *)
(* A code is a sequence of characters, a pair of station codes a sequence  *)
(* of their characters with "-"; the files of a directory are in the order *)
(* in which it is read, which is any.                                      *)
(***************************************************************************)
EXTENDS Integers, FiniteSets, SequencesExt

\* a .cor file: the two parts of its name, and the sets in its tags; stations: the
\* directory has .sta files; comma: there is one in its path
File == [code : Seq(STRING), pair : Seq(STRING), groups : Seq(STRING), pols : Seq(STRING)]
Directory == [root : BOOLEAN, cor : Seq(File), stations : BOOLEAN, comma : BOOLEAN]

\* the directory given, and its subdirectories; their numbers start from 1, and its is 0
Experiment == [top : Directory, subs : Seq(Directory)]

Dirs(experiment) == 0..Len(experiment.subs)
Dir(experiment, n) == IF n = 0 THEN experiment.top ELSE experiment.subs[n]

CommandLine == [baseline : Seq(STRING), group : STRING, pol : STRING, exclude_autos : BOOLEAN]

\* a loop over s that keeps what is in A
Chosen(s, A) == FlattenSeq([k \in 1..Len(s) |-> IF s[k] \in A THEN <<s[k]>> ELSE <<>>])

\* determine_scans: the directory given if it has a root file, else those below
Scans(experiment) ==
  LET below == 1..Len(experiment.subs)
  IN IF experiment.top.root THEN <<0>>
     ELSE Chosen([n \in below |-> n], {n \in below : Dir(experiment, n).root})

\* mutant: one unknown character is enough
MatchesEither(baseline, file) ==
  IF Len(baseline) = 2 /\ Len(file.code) = 2
  THEN \E k \in 1..2 : baseline[k] \in {"?", file.code[k]}
  ELSE Len(baseline) = 5 /\ baseline = file.pair

\* a baseline is given by its code, with "?" for any character, or by its pair
Matches(baseline, file) ==
  IF Len(baseline) = 2 /\ Len(file.code) = 2
  THEN \A k \in 1..2 : baseline[k] \in {"?", file.code[k]}
  ELSE Len(baseline) = 5 /\ baseline = file.pair

Autocorrelation(file) == Len(file.code) > 1 /\ file.code[1] = file.code[2]

determine_baselines(dir, cmdline) ==
  Chosen(dir.cor, {f \in Range(dir.cor) : /\ Matches(cmdline.baseline, f)
                                         /\ ~(cmdline.exclude_autos /\ Autocorrelation(f))})

Groups(file, cmdline) ==
  Chosen(file.groups, {g \in Range(file.groups) : cmdline.group \in {"?", g}})

\* a polarization product asked for is fitted whether the file has it or not
PolProducts(file, cmdline) == IF cmdline.pol = "??" THEN file.pols ELSE <<cmdline.pol>>

\* determine_passes: over scans, baselines, frequency groups and polarization products
PassesOfFile(n, file, cmdline) ==
  LET groups == Groups(file, cmdline)
      pols   == PolProducts(file, cmdline)
  IN FlattenSeq([j \in 1..Len(groups) |->
       [k \in 1..Len(pols) |->
          [dir |-> n, baseline |-> file.code, group |-> groups[j], pol |-> pols[k]]]])

PassesOfScan(n, dir, cmdline) ==
  LET files == determine_baselines(dir, cmdline)
  IN FlattenSeq([k \in 1..Len(files) |-> PassesOfFile(n, files[k], cmdline)])

determine_passes(experiment, cmdline) ==
  LET scans == Scans(experiment)
  IN FlattenSeq([k \in 1..Len(scans) |->
       PassesOfScan(scans[k], Dir(experiment, scans[k]), cmdline)])

\* the five lists are joined by commas, and do not have one length when they are split
\* if there is one in a path
Mismatched(experiment, passes) ==
  \E k \in 1..Len(passes) : Dir(experiment, passes[k].dir).comma

-----------------------------------------------------------------------------
(* MHO_ScanDataStore *)

\* MapBaselines: of several files with one code it has the last
Mapped(dir, code) ==
  SelectLastInSeq(dir.cor, LAMBDA f : Len(f.code) = 2 /\ f.code = code)

IsValid(dir) ==
  /\ dir.root
  /\ \E k \in 1..Len(dir.cor) : Len(dir.cor[k].code) = 2
  /\ dir.stations

IsBaselinePresent(dir, code) == Mapped(dir, code) # 0
=============================================================================
