----------------------------- MODULE FitOperators ----------------------------
(***************************************************************************)
(* The operators of one pass: MHO_OperatorBuilderManager builds them, from *)
(* the statements of the control file that apply and a few defaults, into  *)
(* the toolbox, category by category; the fringe fitter runs those of a    *)
(* category in the order of their priorities, the first two categories     *)
(* while it is configured and the others in each fit, before which the     *)
(* visibilities are taken back from a cache.                               *)
(***************************************************************************)
EXTENDS OperatorToolbox, Functions

CONSTANTS
  Controls,    \* the statements that apply, with the data of the pass
  MaxFits      \* bound: fits of one pass

\* the statements of the control file, by the category the manager finds for them
LabelingKinds    == {"chan_ids", "swap_pol_labels", "sampler_labeler", "python_labeling"}
SelectionKinds   == {"coarse_selection", "min_weight"}
FlaggingKinds    == {"adhoc_flag_file", "dc_block", "notches", "passband", "notch_comb",
                     "python_flagging"}
ManualKinds      == {"pc_phases", "delay_offs", "pc_phase_offset", "pc_delay",
                     "station_delay"}
CalibrationKinds == ManualKinds \cup
                    {"ref_multitone_pcal", "rem_multitone_pcal", "lsb_offset", "adhoc_phase",
                     "mixed_pol_yshift90", "circ_field_rotation_corr", "dpar_corr",
                     "polproduct_sum", "python_calibration"}
PythonKinds == {"python_labeling", "python_flagging", "python_calibration", "python_prefit",
                "python_postfit", "python_finalize"}
Kind == LabelingKinds \cup SelectionKinds \cup FlaggingKinds \cup CalibrationKinds
          \cup PythonKinds

Stage(kind) ==
  CASE kind \in LabelingKinds    -> "labeling"
    [] kind \in SelectionKinds   -> "selection"
    [] kind \in FlaggingKinds    -> "flagging"
    [] kind \in CalibrationKinds -> "calibration"
    [] kind = "python_prefit"    -> "prefit"
    [] kind = "python_postfit"   -> "postfit"
    [] OTHER                     -> "finalize"

\* the category in which the operator is put
CategoryOf(kind) == IF kind = "polproduct_sum" THEN "prefit" ELSE Stage(kind)

\* hundred times the priority of the format
Priority(kind) ==
  CASE kind \in {"chan_ids", "swap_pol_labels"}         -> 10
    [] kind = "python_labeling"                         -> 20
    [] kind = "sampler_labeler"                         -> 90
    [] kind = "coarse_selection"                        -> 110
    [] kind = "python_flagging"                         -> 290
    [] kind \in {"ref_multitone_pcal", "rem_multitone_pcal"} -> 310
    [] kind = "lsb_offset"                              -> 340
    [] kind = "python_calibration"                      -> 390
    [] kind = "circ_field_rotation_corr"                -> 398
    [] kind = "dpar_corr"                               -> 399
    [] kind \in {"notches", "passband", "notch_comb"}   -> 450
    [] kind = "python_prefit"                           -> 790
    [] kind = "python_postfit"                          -> 890
    [] kind = "python_finalize"                         -> 990
    [] kind = "polproduct_sum"                          -> 999
    [] OTHER                                            -> 350

\* replace_duplicates of the builder
Replaces(kind) ==
  kind \in {"chan_ids", "sampler_labeler", "coarse_selection", "ref_multitone_pcal",
            "rem_multitone_pcal", "adhoc_phase", "mixed_pol_yshift90",
            "circ_field_rotation_corr", "dpar_corr", "polproduct_sum"}

\* the builders that bind the operator to the stations of the conditions
StationKinds == ManualKinds \cup {"swap_pol_labels", "lsb_offset"}

\* and all that look at the stations of the conditions
ConditionKinds == StationKinds \cup {"adhoc_flag_file"}

\* named: the stations of the conditions, those of other baselines included; on: there
\* is something to build; priority: an override, or 0; base: for some kinds what the
\* operator is called, which is then not the name of any that replaces another, nor
\* the one that the builder for flag files has chosen for its own
Statement ==
  {s \in [kind : Kind, base : STRING, named : SUBSET STRING, on : BOOLEAN, priority : Nat] :
     ~Replaces(s.kind) => ~Replaces(s.base) /\ s.base # "adhoc_flagging"}

\* pcal: the stations with phase calibration data
Control == [statements : Seq(Statement), pcal : SUBSET Station]

\* the first conjunct is true of all strings, but has to be told to the provers
ASSUME FitOperatorsAssumption ==
  /\ Kind \cup {"adhoc_flagging"} \subseteq STRING
  /\ Controls \subseteq Control
  /\ Station \subseteq STRING /\ IsFiniteSet(Station)
  /\ MaxFits \in Nat \ {0}

\* MHO_BasicFringeFitter: Configure, then the loop of a pass, then Finalize
Program ==
  << <<"build", "labeling">>, <<"run", "labeling">>,
     <<"build", "selection">>, <<"run", "selection">>,
     <<"build", "flagging">>, <<"build", "calibration">>, <<"build", "prefit">>,
     <<"build", "postfit">>, <<"build", "finalize">>,
     <<"cache", "">>,
     <<"refresh", "">>, <<"run", "flagging">>, <<"run", "calibration">>,
     <<"run", "prefit">>, <<"fit", "">>, <<"run", "postfit">>, <<"again", "">>,
     <<"run", "finalize">>, <<"end", "">> >>

RefreshLine == 11
FitLine     == 15

VARIABLES
  control,     \* the control statements of the pass
  line,        \* where in Program
  cursor,      \* the last statement looked at, or the loop over them not begun: 0
  pending,     \* operators a builder has constructed, not yet in the toolbox
  conditions,  \* fConditions of the builders that look at them
  flagFiles,   \* of the MHO_AdhocFlagging: the statement with the file of a station
  queue,       \* operators of the category still to be run
  running,     \* the queue of this line has been filled
  applied,     \* what was done to the visibilities and weights, since they were read
  caching,     \* fEnableCaching
  cached,      \* what had been done to those in the cache
  fits         \* fits begun

building == <<made, toolbox, cursor, pending, conditions, flagFiles>>
executing == <<queue, running, applied>>
vars == <<control, line, building, executing, caching, cached, fits>>

TypeOK ==
  /\ ToolboxTypeOK
  /\ control \in Control
  /\ line \in 1..Len(Program)
  /\ cursor \in 0..Len(control.statements)
  /\ pending \in Seq(1..Len(made))
  /\ conditions \in [ConditionKinds -> SUBSET STRING]
  /\ flagFiles \in [Station -> 0..Len(control.statements)]
  /\ queue \subseteq 1..Len(made)
  /\ running \in BOOLEAN
  /\ applied \in Seq(1..Len(made))
  /\ caching \in BOOLEAN
  /\ cached \in Seq(1..Len(made))
  /\ fits \in 1..MaxFits

-----------------------------------------------------------------------------
(* The builders *)

\* the suffixes of the names of the operators of a statement
Parts(kind) ==
  CASE kind \in {"chan_ids", "coarse_selection"} -> <<":vis", ":weight">>
    [] kind = "swap_pol_labels" ->
         <<":vis", ":weight">> \o [k \in 1..Cardinality(control.pcal) |-> ""]
    [] OTHER -> <<"">>

\* GetMatchingStationIdentifiers; without a match, and without a station, all of them
Matching(named) ==
  LET here == named \cap Station
  IN IF here = {} THEN Station ELSE here

\* the stations whose file an adhoc_flag_file statement sets
Covered(named) == IF named = {} THEN Station ELSE named \cap Station

\* a statement for python names the function, some others a polarization as well
BaseOf(s) ==
  IF s.kind = "adhoc_flag_file" THEN "adhoc_flagging"
  ELSE IF s.kind \in ManualKinds \cup PythonKinds THEN s.base
  ELSE s.kind

\* the operators the builder of s constructs, for conditions that name "named"
Constructed(s, i, named) ==
  [k \in 1..Len(Parts(s.kind)) |->
     [name |-> <<BaseOf(s), Parts(s.kind)[k]>>,
      category |-> CategoryOf(s.kind),
      priority |-> IF s.priority # 0 THEN s.priority ELSE Priority(s.kind),
      statement |-> i,
      stations |-> IF s.kind \in StationKinds THEN Matching(named) ELSE Station]]

\* an operator for flagging is there already, and is only told of another file
Updates(s) == s.kind = "adhoc_flag_file" /\ GetOperator(<<"adhoc_flagging", "">>) # 0

\* new operators, which are then added one after another
Construct(ops) ==
  /\ made' = made \o ops
  /\ pending' = [k \in 1..Len(ops) |-> Len(made) + k]

Default == [kind |-> "chan_ids", base |-> "chan_ids", named |-> {}, on |-> TRUE, priority |-> 0]

\* the category "default" has one builder
Init ==
  /\ control \in Controls
  /\ line = 1
  /\ made = Constructed(Default, 0, {})
  /\ pending = <<1, 2>>
  /\ names = <<>>
  /\ categories = {}
  /\ owned = {}
  /\ cursor = 0
  /\ conditions = [k \in ConditionKinds |-> {}]
  /\ flagFiles = [r \in Station |-> 0]
  /\ queue = {}
  /\ running = FALSE
  /\ applied = <<>>
  /\ caching = FALSE
  /\ cached = <<>>
  /\ fits = 1

KindOf(op) == IF made[op].statement = 0 THEN "chan_ids"
              ELSE control.statements[made[op].statement].kind

Add ==
  /\ pending # <<>>
  /\ AddOperator(Head(pending), Replaces(KindOf(Head(pending))))
  /\ pending' = Tail(pending)
  /\ UNCHANGED <<control, line, made, cursor, conditions, flagFiles, executing, caching,
                 cached, fits>>

At(what) == pending = <<>> /\ Program[line][1] = what
Advance == line' = line + 1

\* the statements of the category after the cursor
Remaining ==
  {i \in (cursor + 1)..Len(control.statements) :
     Stage(control.statements[i].kind) = Program[line][2]}

\* mutant: conditions that a statement does not have are not set
GivenStale(s) ==
  IF s.named = {} /\ s.kind \in ConditionKinds THEN conditions[s.kind] ELSE s.named

\* what the builder sees after SetConditions
Given(s) == s.named

\* mutant: the files are those of the statement the operator was made for
SetFlagFilesFirst(s, i, named) ==
  flagFiles' = [r \in Station |->
    IF s.on /\ s.kind = "adhoc_flag_file" /\ ~Updates(s) /\ r \in Covered(named)
    THEN i ELSE flagFiles[r]]

\* SetRefFlagFile and SetRemFlagFile
SetFlagFiles(s, i, named) ==
  flagFiles' = [r \in Station |->
    IF s.on /\ s.kind = "adhoc_flag_file" /\ r \in Covered(named)
    THEN i ELSE flagFiles[r]]

\* SetConditions, SetAttributes and Build, for the next statement of the category
Build ==
  /\ At("build")
  /\ \E i \in Remaining :
       LET s == control.statements[i]
       IN /\ \A j \in Remaining : i <= j
          /\ cursor' = i
          /\ conditions' = [k \in ConditionKinds |-> IF k = s.kind THEN Given(s) ELSE conditions[k]]
          /\ Construct(IF s.on /\ ~Updates(s) THEN Constructed(s, i, Given(s)) ELSE <<>>)
          /\ SetFlagFiles(s, i, Given(s))
  /\ UNCHANGED <<control, line, toolbox, executing, caching, cached, fits>>

EndBuild ==
  /\ At("build")
  /\ Remaining = {}
  /\ cursor' = 0
  /\ Advance
  /\ UNCHANGED <<control, made, toolbox, pending, conditions, flagFiles, executing, caching,
                 cached, fits>>

-----------------------------------------------------------------------------
(* The fitter *)

\* init_and_exec_operators takes the operators of the category
StartRun ==
  /\ At("run")
  /\ ~running
  /\ running' = TRUE
  /\ queue' = GetOperatorsByCategory(Program[line][2])
  /\ UNCHANGED <<control, line, building, applied, caching, cached, fits>>

\* mutant: in the order of the toolbox's table
ExecuteAny ==
  /\ At("run")
  /\ running
  /\ \E op \in queue :
       /\ queue' = queue \ {op}
       /\ applied' = Append(applied, op)
  /\ UNCHANGED <<control, line, building, running, caching, cached, fits>>

\* and runs them; std::sort leaves open which of two of one priority is first
Execute ==
  /\ At("run")
  /\ running
  /\ \E op \in queue :
       /\ \A other \in queue : made[op].priority <= made[other].priority
       /\ queue' = queue \ {op}
       /\ applied' = Append(applied, op)
  /\ UNCHANGED <<control, line, building, running, caching, cached, fits>>

EndRun ==
  /\ At("run")
  /\ running
  /\ queue = {}
  /\ running' = FALSE
  /\ Advance
  /\ UNCHANGED <<control, building, queue, applied, caching, cached, fits>>

\* visibilities and weights are kept if there may be another fit
Cache ==
  /\ At("cache")
  /\ caching' = (GetNOperatorsInCategory("prefit") > 0 /\ GetNOperatorsInCategory("postfit") > 0)
  /\ cached' = IF caching' THEN applied ELSE cached
  /\ Advance
  /\ UNCHANGED <<control, building, executing, fits>>

\* mutant: the cache is not looked at again
RefreshOnce ==
  /\ At("refresh")
  /\ applied' = IF caching /\ fits < 2 THEN cached ELSE applied
  /\ Advance
  /\ UNCHANGED <<control, building, queue, running, caching, cached, fits>>

Refresh ==
  /\ At("refresh")
  /\ applied' = IF caching THEN cached ELSE applied
  /\ Advance
  /\ UNCHANGED <<control, building, queue, running, caching, cached, fits>>

Fit ==
  /\ At("fit")
  /\ Advance
  /\ UNCHANGED <<control, building, executing, caching, cached, fits>>

Finished ==
  /\ At("again")
  /\ Advance
  /\ UNCHANGED <<control, building, executing, caching, cached, fits>>

\* an operator after the fit asks for another
FitAgain ==
  /\ At("again")
  /\ GetOperatorsByCategory("postfit") # {}
  /\ fits < MaxFits
  /\ fits' = fits + 1
  /\ line' = RefreshLine
  /\ UNCHANGED <<control, building, executing, caching, cached>>

End == At("end") /\ UNCHANGED vars

Next ==
  \/ Add \/ Build \/ EndBuild
  \/ StartRun \/ Execute \/ EndRun
  \/ Cache \/ Refresh \/ Fit \/ Finished \/ FitAgain
  \/ End

Spec == Init /\ [][Next]_vars

-----------------------------------------------------------------------------
(* Properties *)

Built == line > 9 /\ pending = <<>>

\* the statements from which an operator of this kind is built, 0 being the default
Asking(kind) ==
  {i \in DOMAIN control.statements :
     control.statements[i].kind = kind /\ control.statements[i].on}
   \cup (IF kind = "chan_ids" THEN {0} ELSE {})

(* When the operators have been built they are the ones the control file asks  *)
(* for: of a kind that may be there only once, that of the last statement that *)
(* builds one, the default giving way; of the others one for each statement;   *)
(* and one for all flag files.                                                 *)
AsAskedFor ==
  Built =>
    /\ \A kind \in Kind :
         {made[op].statement : op \in {o \in owned : KindOf(o) = kind}} =
           {i \in Asking(kind) :
              /\ Replaces(kind) => \A j \in Asking(kind) : j <= i
              /\ kind = "adhoc_flag_file" => \A j \in Asking(kind) : i <= j}
    /\ \A op \in owned :
         Cardinality({other \in owned : made[other].statement = made[op].statement})
           = Len(Parts(KindOf(op)))

(* An operator bound to stations is bound to those of the baseline that its    *)
(* own statement names, not to one that another statement of its kind named.   *)
OwnStations ==
  \A op \in owned :
    KindOf(op) \in StationKinds =>
      LET named == control.statements[made[op].statement].named
      IN IF named \cap Station = {} THEN made[op].stations = Station
         ELSE made[op].stations = named \cap Station

(* Each station is flagged by the file of the last statement that is for it.   *)
LastFlagFile ==
  Built =>
    \A r \in Station :
      LET for == {i \in DOMAIN control.statements :
                    /\ i \in Asking("adhoc_flag_file")
                    /\ control.statements[i].named = {} \/ r \in control.statements[i].named}
      IN IF for = {} THEN flagFiles[r] = 0
         ELSE flagFiles[r] \in for /\ \A i \in for : i <= flagFiles[r]

Order(category) ==
  CASE category = "labeling"    -> 1
    [] category = "selection"   -> 2
    [] category = "flagging"    -> 3
    [] category = "calibration" -> 4
    [] category = "prefit"      -> 5
    [] OTHER                    -> 6

\* an operator a is run before b, or may be
Before(a, b) ==
  \/ Order(a.category) < Order(b.category)
  \/ a.category = b.category /\ a.priority <= b.priority

(* A fit, the first or a further one, is given visibilities to which every     *)
(* operator of the toolbox that belongs before it was applied once, category   *)
(* by category and in the order of the priorities, and none that was replaced. *)
(* A further fit needs the cache for that, which is there only if there are    *)
(* operators in prefit.                                                        *)
AppliedInOrder ==
  At("fit") /\ (fits = 1 \/ caching) =>
    /\ Range(applied) = {op \in owned : made[op].category \notin {"postfit", "finalize"}}
    /\ IsInjective(applied)
    /\ \A i, j \in DOMAIN applied : i < j => Before(made[applied[i]], made[applied[j]])
=============================================================================
