------------------------- MODULE FitOperatorsProofs --------------------------
(***************************************************************************)
(* What holds of the operators of a pass for every control file, any data  *)
(* of the pass and any number of fits: how building, running and caching   *)
(* hang together (IInv), and that the operators are those that the control *)
(* file asks for, statement by statement (AskedInv).                       *)
(***************************************************************************)
EXTENDS FitOperators, FiniteSetTheorems, SequenceTheorems, TLAPS

-----------------------------------------------------------------------------
(* The inductive invariant *)

\* operators come into the toolbox in the order in which they were constructed
PendingOK ==
  /\ \A k \in 1..Len(pending) : pending[k] = Len(made) - Len(pending) + k
  /\ Len(pending) <= Len(made)
  /\ \A op \in owned : op <= Len(made) - Len(pending)

\* while they are built, they are for the category that is being built
StageOK ==
  pending # <<>> =>
    /\ Program[line][1] = "build"
    /\ \A k \in 1..Len(pending) : Stage(KindOf(pending[k])) = Program[line][2]

\* what an operator is, by the statement it was made for
MadeOK ==
  \A op \in 1..Len(made) :
    /\ made[op].statement \in 0..Len(control.statements)
    /\ made[op].category = CategoryOf(KindOf(op))
    /\ Replaces(KindOf(op)) => made[op].name[1] = KindOf(op)
    /\ ~Replaces(KindOf(op)) => ~Replaces(made[op].name[1])
    /\ KindOf(op) \in StationKinds =>
         made[op].stations = Matching(control.statements[made[op].statement].named)

\* the categories that have been run when a line begins
DoneAt(l) ==
  IF l < 3 THEN {}
  ELSE IF l < 5 THEN {"labeling"}
  ELSE IF l < 13 THEN {"labeling", "selection"}
  ELSE IF l = 13 THEN {"labeling", "selection", "flagging"}
  ELSE IF l = 14 THEN {"labeling", "selection", "flagging", "calibration"}
  ELSE {"labeling", "selection", "flagging", "calibration", "prefit"}

Members(cats) == {op \in owned : made[op].category \in cats}

\* a sequence of the operators in S, each once and in an order that is right
Arranged(a, S) ==
  /\ Range(a) = S
  /\ IsInjective(a)
  /\ \A i, j \in DOMAIN a : i < j => Before(made[a[i]], made[a[j]])

\* the operators of the category of the line that have been run
RunSoFar == IF running THEN Members({Program[line][2]}) \ queue ELSE {}

QueueOK ==
  /\ running => Program[line][1] = "run" /\ queue \subseteq Members({Program[line][2]})
  /\ running => pending = <<>>

AppliedOK ==
  line <= FitLine /\ (line = RefreshLine => fits = 1) /\ (fits = 1 \/ caching) =>
    /\ Arranged(applied, Members(DoneAt(line)) \cup RunSoFar)
    /\ running => \A op \in queue : \A i \in DOMAIN applied : Before(made[applied[i]], made[op])

CachedOK ==
  /\ caching => line >= RefreshLine
  /\ caching => Arranged(cached, Members({"labeling", "selection"}))
  /\ line < RefreshLine => fits = 1

IInv ==
  /\ TypeOK /\ TablesAgree
  /\ PendingOK /\ StageOK /\ MadeOK
  /\ QueueOK /\ AppliedOK /\ CachedOK

\* what the program does at a line
LEMMA ProgramLines ==
  /\ Len(Program) = 19
  /\ \A l \in 1..19 : Program[l][1] \in {"build", "run", "cache", "refresh", "fit", "again", "end"}
  /\ \A l \in 1..19 : Program[l][1] = "build" <=> l \in {1, 3, 5, 6, 7, 8, 9}
  /\ \A l \in 1..19 : Program[l][1] = "run" <=> l \in {2, 4, 12, 13, 14, 16, 18}
  /\ \A l \in 1..19 : Program[l][1] = "cache" <=> l = 10
  /\ \A l \in 1..19 : Program[l][1] = "refresh" <=> l = 11
  /\ \A l \in 1..19 : Program[l][1] = "fit" <=> l = 15
  /\ \A l \in 1..19 : Program[l][1] = "again" <=> l = 17
  /\ \A l \in 1..19 : Program[l][1] = "end" <=> l = 19
  /\ Program[1][2] = "labeling" /\ Program[2][2] = "labeling"
  /\ Program[3][2] = "selection" /\ Program[4][2] = "selection"
  /\ Program[5][2] = "flagging" /\ Program[6][2] = "calibration" /\ Program[7][2] = "prefit"
  /\ Program[8][2] = "postfit" /\ Program[9][2] = "finalize"
  /\ Program[12][2] = "flagging" /\ Program[13][2] = "calibration"
  /\ Program[14][2] = "prefit" /\ Program[16][2] = "postfit" /\ Program[18][2] = "finalize"
  <1>1. Len(Program) = 19
    BY DEF Program
  <1>2. /\ Program[1][1] = "build" /\ Program[1][2] = "labeling"
        /\ Program[2][1] = "run" /\ Program[2][2] = "labeling"
        /\ Program[3][1] = "build" /\ Program[3][2] = "selection"
        /\ Program[4][1] = "run" /\ Program[4][2] = "selection"
        /\ Program[5][1] = "build" /\ Program[5][2] = "flagging"
        /\ Program[6][1] = "build" /\ Program[6][2] = "calibration"
        /\ Program[7][1] = "build" /\ Program[7][2] = "prefit"
        /\ Program[8][1] = "build" /\ Program[8][2] = "postfit"
        /\ Program[9][1] = "build" /\ Program[9][2] = "finalize"
        /\ Program[10][1] = "cache" /\ Program[10][2] = ""
    BY DEF Program
  <1>3. /\ Program[11][1] = "refresh" /\ Program[11][2] = ""
        /\ Program[12][1] = "run" /\ Program[12][2] = "flagging"
        /\ Program[13][1] = "run" /\ Program[13][2] = "calibration"
        /\ Program[14][1] = "run" /\ Program[14][2] = "prefit"
        /\ Program[15][1] = "fit" /\ Program[15][2] = ""
        /\ Program[16][1] = "run" /\ Program[16][2] = "postfit"
        /\ Program[17][1] = "again" /\ Program[17][2] = ""
        /\ Program[18][1] = "run" /\ Program[18][2] = "finalize"
        /\ Program[19][1] = "end" /\ Program[19][2] = ""
    BY DEF Program
  <1>4. ASSUME NEW l \in 1..19
        PROVE  /\ Program[l][1] \in {"build", "run", "cache", "refresh", "fit", "again", "end"}
               /\ Program[l][1] = "build" <=> l \in {1, 3, 5, 6, 7, 8, 9}
               /\ Program[l][1] = "run" <=> l \in {2, 4, 12, 13, 14, 16, 18}
               /\ Program[l][1] = "cache" <=> l = 10
               /\ Program[l][1] = "refresh" <=> l = 11
               /\ Program[l][1] = "fit" <=> l = 15
               /\ Program[l][1] = "again" <=> l = 17
               /\ Program[l][1] = "end" <=> l = 19
    <2> DEFINE what(m) == Program[m][1]
    <2>1. /\ what(1) = "build" /\ what(2) = "run" /\ what(3) = "build" /\ what(4) = "run"
          /\ what(5) = "build" /\ what(6) = "build" /\ what(7) = "build"
          /\ what(8) = "build" /\ what(9) = "build" /\ what(10) = "cache"
      BY <1>2
    <2>2. /\ what(11) = "refresh" /\ what(12) = "run" /\ what(13) = "run"
          /\ what(14) = "run" /\ what(15) = "fit" /\ what(16) = "run"
          /\ what(17) = "again" /\ what(18) = "run" /\ what(19) = "end"
      BY <1>3
    <2> HIDE DEF what
    <2>3. l \in 1..10 \/ l \in 11..19
      OBVIOUS
    <2>4. CASE l \in 1..10
      <3>1. l \in {1, 2, 3, 4, 5, 6, 7, 8, 9, 10}
        BY <2>4
      <3>2. /\ what(l) \in {"build", "run", "cache"}
            /\ what(l) = "build" <=> l \in {1, 3, 5, 6, 7, 8, 9}
            /\ what(l) = "run" <=> l \in {2, 4}
            /\ what(l) = "cache" <=> l = 10
        BY <2>1, <3>1
      <3> QED
        BY <2>4, <3>2 DEF what
    <2>5. CASE l \in 11..19
      <3>1. l \in {11, 12, 13, 14, 15, 16, 17, 18, 19}
        BY <2>5
      <3>2. /\ what(l) \in {"refresh", "run", "fit", "again", "end"}
            /\ what(l) = "run" <=> l \in {12, 13, 14, 16, 18}
            /\ what(l) = "refresh" <=> l = 11
            /\ what(l) = "fit" <=> l = 15
            /\ what(l) = "again" <=> l = 17
            /\ what(l) = "end" <=> l = 19
        BY <2>2, <3>1
      <3> QED
        BY <2>5, <3>2 DEF what
    <2> QED
      BY <2>3, <2>4, <2>5
  <1>5. /\ \A l \in 1..19 : Program[l][1] \in {"build", "run", "cache", "refresh", "fit", "again", "end"}
        /\ \A l \in 1..19 : Program[l][1] = "build" <=> l \in {1, 3, 5, 6, 7, 8, 9}
        /\ \A l \in 1..19 : Program[l][1] = "run" <=> l \in {2, 4, 12, 13, 14, 16, 18}
        /\ \A l \in 1..19 : Program[l][1] = "cache" <=> l = 10
        /\ \A l \in 1..19 : Program[l][1] = "refresh" <=> l = 11
        /\ \A l \in 1..19 : Program[l][1] = "fit" <=> l = 15
        /\ \A l \in 1..19 : Program[l][1] = "again" <=> l = 17
        /\ \A l \in 1..19 : Program[l][1] = "end" <=> l = 19
    BY <1>4, Zenon
  <1> QED
    BY <1>1, <1>2, <1>3, <1>5, Zenon

\* the lines that occur once
LEMMA LineIs ==
  ASSUME TypeOK
  PROVE  /\ line \in 1..19
         /\ Program[line][1] = "cache" <=> line = 10
         /\ Program[line][1] = "refresh" <=> line = 11
         /\ Program[line][1] = "fit" <=> line = 15
         /\ Program[line][1] = "again" <=> line = 17
  <1>1. line \in 1..19
    <2>1. Len(Program) = 19 /\ line \in 1..Len(Program)
      BY ProgramLines DEF TypeOK
    <2> QED
      BY <2>1
  <1> QED
    BY <1>1, ProgramLines, Zenon

\* the stages and categories there are
LEMMA KindFacts ==
  ASSUME NEW k
  PROVE  /\ CategoryOf(k) \in Category
         /\ Stage(k) \in Category
         /\ Priority(k) \in Nat
         /\ CategoryOf(k) = Stage(k) \/ (Stage(k) = "calibration" /\ CategoryOf(k) = "prefit")
  <1>1. Stage(k) \in Category
    BY DEF Stage, Category
  <1>2. Priority(k) \in Nat
    BY DEF Priority
  <1>3. k = "polproduct_sum" => Stage(k) = "calibration"
    BY DEF Stage, CalibrationKinds, LabelingKinds, SelectionKinds, FlaggingKinds, ManualKinds
  <1> QED
    BY <1>1, <1>2, <1>3 DEF CategoryOf, Category

\* the parts of the names
LEMMA PartsType ==
  ASSUME NEW k, control \in Control
  PROVE  Parts(k) \in Seq(Suffix)
  <1>1. Cardinality(control.pcal) \in Nat
    BY FS_CardinalityType, FS_Subset, FitOperatorsAssumption DEF Control
  <1>s. "" \in Suffix /\ ":vis" \in Suffix /\ ":weight" \in Suffix
    BY DEF Suffix
  <1> DEFINE blanks == [i \in 1..Cardinality(control.pcal) |-> ""]
  <1>2. blanks \in Seq(Suffix)
    <2>1. blanks \in [1..Cardinality(control.pcal) -> Suffix]
      BY <1>s
    <2> QED
      BY <1>1, <2>1, SeqDef
  <1>3. <<":vis", ":weight">> \in Seq(Suffix) /\ <<"">> \in Seq(Suffix)
    <2>1. \A a, b : a \in Suffix /\ b \in Suffix => <<a, b>> \in Seq(Suffix)
      OBVIOUS
    <2>2. \A a : a \in Suffix => <<a>> \in Seq(Suffix)
      OBVIOUS
    <2>3. <<":vis", ":weight">> \in Seq(Suffix)
      BY <1>s, <2>1, Zenon
    <2>4. <<"">> \in Seq(Suffix)
      BY <1>s, <2>2, Zenon
    <2> QED
      BY <2>3, <2>4
  <1>4. <<":vis", ":weight">> \o blanks \in Seq(Suffix)
    BY <1>2, <1>3, ConcatProperties
  <1> QED
    BY <1>3, <1>4 DEF Parts

-----------------------------------------------------------------------------
(* What is constructed *)

\* what a statement's operator is called
LEMMA BaseFacts ==
  ASSUME NEW s \in Statement
  PROVE  /\ BaseOf(s) \in STRING
         /\ Replaces(s.kind) => BaseOf(s) = s.kind
         /\ ~Replaces(s.kind) => ~Replaces(BaseOf(s))
  <1>1. s.kind \in Kind /\ s.base \in STRING /\ (~Replaces(s.kind) => ~Replaces(s.base))
    BY DEF Statement
  <1>2. /\ \A k \in Kind : k \in STRING
        /\ "adhoc_flagging" \in STRING
    BY FitOperatorsAssumption
  <1>3. ~Replaces("adhoc_flagging") /\ ~Replaces("adhoc_flag_file")
    BY DEF Replaces
  <1>4. Replaces(s.kind) => s.kind \notin ManualKinds \cup PythonKinds
    BY DEF Replaces, ManualKinds, PythonKinds
  <1>5. CASE s.kind = "adhoc_flag_file"
    BY <1>2, <1>3, <1>5 DEF BaseOf
  <1>6. CASE s.kind # "adhoc_flag_file"
    <2>1. CASE s.kind \in ManualKinds \cup PythonKinds
      <3>1. BaseOf(s) = s.base /\ ~Replaces(s.kind)
        BY <1>4, <1>6, <2>1 DEF BaseOf
      <3> QED
        BY <1>1, <3>1
    <2>2. CASE s.kind \notin ManualKinds \cup PythonKinds
      <3>1. BaseOf(s) = s.kind
        BY <1>6, <2>2 DEF BaseOf
      <3> QED
        BY <1>1, <1>2, <3>1
    <2> QED
      BY <2>1, <2>2
  <1> QED
    BY <1>5, <1>6

\* the operators of a statement
LEMMA ConstructedFacts ==
  ASSUME control \in Control, NEW s \in Statement, NEW i \in Nat, NEW named
  PROVE  /\ Constructed(s, i, named) \in Seq(Operator)
         /\ \A k \in 1..Len(Constructed(s, i, named)) :
              LET op == Constructed(s, i, named)[k]
              IN /\ op.statement = i
                 /\ op.category = CategoryOf(s.kind)
                 /\ op.name[1] = BaseOf(s)
                 /\ s.kind \in StationKinds => op.stations = Matching(named)
  <1> DEFINE parts == Parts(s.kind)
             C == Constructed(s, i, named)
             made1(k) == [name |-> <<BaseOf(s), parts[k]>>,
                         category |-> CategoryOf(s.kind),
                         priority |-> IF s.priority # 0 THEN s.priority ELSE Priority(s.kind),
                         statement |-> i,
                         stations |-> IF s.kind \in StationKinds THEN Matching(named)
                                      ELSE Station]
  <1>1. parts \in Seq(Suffix)
    BY PartsType
  <1>2. C = [k \in 1..Len(parts) |-> made1(k)]
    BY DEF Constructed
  <1>3. ASSUME NEW k \in 1..Len(parts)
        PROVE  made1(k) \in Operator
    <2>1. <<BaseOf(s), parts[k]>> \in Name
      BY <1>1, BaseFacts DEF Name
    <2>2. CategoryOf(s.kind) \in Category
      BY KindFacts
    <2>3. (IF s.priority # 0 THEN s.priority ELSE Priority(s.kind)) \in Nat
      BY KindFacts DEF Statement
    <2>4. Matching(named) \subseteq Station
      BY DEF Matching
    <2> QED
      BY <2>1, <2>2, <2>3, <2>4 DEF Operator
  <1>4. Len(parts) \in Nat
    BY <1>1
  <1> HIDE DEF parts, C, made1
  <1>5. C \in [1..Len(parts) -> Operator]
    BY <1>2, <1>3
  <1>6. C \in Seq(Operator)
    BY <1>4, <1>5, SeqDef
  <1>7. Len(C) = Len(parts)
    BY <1>4, <1>2, <1>6
  <1> QED
    BY <1>2, <1>6, <1>7 DEF C, made1

\* the default
LEMMA DefaultFacts ==
  /\ Default \in Statement
  /\ Default.kind = "chan_ids" /\ Parts("chan_ids") = <<":vis", ":weight">>
  /\ Stage("chan_ids") = "labeling" /\ Replaces("chan_ids")
  /\ "chan_ids" \notin StationKinds
  <1>1. Replaces("chan_ids")
    BY DEF Replaces
  <1>2. "chan_ids" \in Kind
    BY DEF Kind, LabelingKinds
  <1>3. "chan_ids" \in STRING
    BY <1>2, FitOperatorsAssumption
  <1>4. Default \in Statement
    BY <1>1, <1>2, <1>3 DEF Default, Statement
  <1>5. Parts("chan_ids") = <<":vis", ":weight">>
    BY DEF Parts
  <1>6. "chan_ids" \notin StationKinds
    BY DEF StationKinds, ManualKinds
  <1>7. Stage("chan_ids") = "labeling"
    BY DEF Stage, CalibrationKinds, LabelingKinds, SelectionKinds, FlaggingKinds, ManualKinds
  <1> QED
    BY <1>1, <1>4, <1>5, <1>6, <1>7 DEF Default

THEOREM InitIInv == Init => IInv
  <1> SUFFICES ASSUME Init PROVE IInv
    OBVIOUS
  <1> USE DEF Init
  <1>1. control \in Control
    BY FitOperatorsAssumption
  <1>2. control.statements \in Seq(Statement)
    BY <1>1 DEF Control
  <1>3. /\ made \in Seq(Operator)
        /\ \A k \in 1..Len(made) :
              /\ made[k].statement = 0 /\ made[k].category = CategoryOf("chan_ids")
              /\ made[k].name[1] = BaseOf(Default)
    BY <1>1, ConstructedFacts, DefaultFacts
  <1>4. Len(made) = 2
    BY DefaultFacts DEF Constructed
  <1>o. owned = {} /\ queue = {} /\ running = FALSE
    OBVIOUS
  <1>p. pending \in Seq(1..2) /\ Len(pending) = 2 /\ pending[1] = 1 /\ pending[2] = 2
    OBVIOUS
  <1>5. BaseOf(Default) = "chan_ids"
    BY BaseFacts, DefaultFacts
  <1>6. \A k \in 1..Len(made) : KindOf(k) = "chan_ids"
    BY <1>3 DEF KindOf
  <1>7. ToolboxTypeOK
    BY <1>3 DEF ToolboxTypeOK
  <1>8. line = 1 /\ 1 \in 1..Len(Program) /\ Program[1][1] = "build" /\ Program[1][2] = "labeling"
    BY ProgramLines
  <1>9. TypeOK
    <2>1. fits \in 1..MaxFits
      BY FitOperatorsAssumption
    <2>2. conditions \in [ConditionKinds -> SUBSET STRING]
      OBVIOUS
    <2>3. flagFiles \in [Station -> 0..Len(control.statements)]
      BY <1>2
    <2>4. /\ cursor = 0 /\ applied = <<>> /\ cached = <<>> /\ caching = FALSE
          /\ Len(control.statements) \in Nat
      BY <1>2
    <2> HIDE DEF Init
    <2>5. applied \in Seq(1..Len(made)) /\ cached \in Seq(1..Len(made))
      BY <2>4
    <2>6. pending \in Seq(1..Len(made)) /\ queue \subseteq 1..Len(made)
      BY <1>4, <1>o, <1>p
    <2>7. cursor \in 0..Len(control.statements) /\ line \in 1..Len(Program)
      BY <1>8, <2>4
    <2>8. running \in BOOLEAN /\ caching \in BOOLEAN
      BY <1>o, <2>4, Zenon
    <2> QED
      BY <1>1, <1>7, <2>5, <2>6, <2>7, <2>8, <2>1, <2>2, <2>3, FitOperatorsAssumption DEF TypeOK
  <1>10. TablesAgree
    BY DEF TablesAgree
  <1>11. PendingOK
    <2> HIDE DEF Init
    <2>1. \A k \in 1..2 : pending[k] = 2 - 2 + k
      BY <1>p
    <2> QED
      BY <1>4, <1>o, <1>p, <2>1 DEF PendingOK
  <1>12. StageOK
    <2>1. \A k \in 1..2 : pending[k] \in 1..2
      BY <1>p
    <2> QED
      BY <1>4, <1>p, <1>6, <1>8, <2>1, DefaultFacts DEF StageOK
  <1>13. MadeOK
    BY <1>2, <1>3, <1>5, <1>6, DefaultFacts DEF MadeOK
  <1>14. QueueOK /\ CachedOK
    BY DEF QueueOK, CachedOK, RefreshLine
  <1>15. AppliedOK
    BY DEF AppliedOK, DoneAt, Members, RunSoFar, Arranged, Range, IsInjective
  <1> QED
    BY <1>9, <1>10, <1>11, <1>12, <1>13, <1>14, <1>15 DEF IInv

-----------------------------------------------------------------------------
(* The steps of the builders *)

\* what holds of the operators still holds when others are constructed, or none
LEMMA Kept ==
  ASSUME IInv, control' = control, UNCHANGED toolbox,
         made' \in Seq(Operator), Len(made) <= Len(made'),
         \A op \in 1..Len(made) : made'[op] = made[op]
  PROVE  /\ ToolboxTypeOK' /\ TablesAgree'
         /\ \A cats : {op \in owned' : made'[op].category \in cats} = Members(cats)
         /\ owned \subseteq 1..Len(made)
         /\ 1..Len(made) \subseteq 1..Len(made')
         /\ Seq(1..Len(made)) \subseteq Seq(1..Len(made'))
  <1>1. ToolboxTypeOK /\ TablesAgree
    BY DEF IInv, TypeOK
  <1>2. owned' = owned /\ names' = names /\ categories' = categories
    BY DEF toolbox
  <1>3. owned \subseteq 1..Len(made) /\ Len(made) \in Nat /\ Len(made') \in Nat
    BY <1>1 DEF ToolboxTypeOK
  <1>4. 1..Len(made) \subseteq 1..Len(made')
    BY <1>3
  <1>5. ToolboxTypeOK'
    BY <1>1, <1>2, <1>4 DEF ToolboxTypeOK
  <1>6. \A op \in owned : made'[op] = made[op]
    BY <1>3
  <1>7. TablesAgree'
    <2>1. categories = {<<made'[op].category, op>> : op \in owned}
      BY <1>1, <1>6 DEF TablesAgree
    <2>2. \A n \in DOMAIN names : names[n] \in owned /\ made'[names[n]].name = n
      BY <1>1, <1>6 DEF TablesAgree
    <2>3. \A op \in owned : made'[op].name \in DOMAIN names /\ op <= names[made'[op].name]
      BY <1>1, <1>6 DEF TablesAgree
    <2> QED
      BY <1>2, <2>1, <2>2, <2>3 DEF TablesAgree
  <1>8. \A cats : {op \in owned' : made'[op].category \in cats} = Members(cats)
    BY <1>2, <1>6 DEF Members
  <1>9. Seq(1..Len(made)) \subseteq Seq(1..Len(made'))
    BY <1>4, SeqMonotonic
  <1> QED
    BY <1>3, <1>4, <1>5, <1>7, <1>8, <1>9

\* the categories that have been run are not among those being built
LEMMA BuildingFacts ==
  ASSUME line \in 1..Len(Program), Program[line][1] = "build", NEW k,
         Stage(k) = Program[line][2]
  PROVE  line < 10 /\ CategoryOf(k) \notin DoneAt(line)
  <1>1. line \in {1, 3, 5, 6, 7, 8, 9}
    BY ProgramLines
  <1>2. CategoryOf(k) = Stage(k) \/ (Stage(k) = "calibration" /\ CategoryOf(k) = "prefit")
    BY KindFacts
  <1>3. CASE line = 1
    BY <1>3 DEF DoneAt
  <1>4. CASE line = 3
    BY <1>2, <1>4, ProgramLines DEF DoneAt
  <1>5. CASE line \in {5, 6, 7, 8, 9}
    <2>1. DoneAt(line) = {"labeling", "selection"}
      BY <1>5 DEF DoneAt
    <2>2. Program[line][2] \in {"flagging", "calibration", "prefit", "postfit", "finalize"}
      BY <1>5, ProgramLines
    <2> QED
      BY <1>2, <1>5, <2>1, <2>2
  <1> QED
    BY <1>1, <1>3, <1>4, <1>5

LEMMA AddStep == IInv /\ Add => IInv'
  <1> SUFFICES ASSUME IInv, Add PROVE IInv'
    OBVIOUS
  <1> DEFINE op == Head(pending)
             name == made[op].name
             gone == Replaced(name, Replaces(KindOf(op)))
  <1>1. /\ TypeOK /\ ToolboxTypeOK /\ TablesAgree /\ PendingOK /\ StageOK /\ MadeOK
        /\ QueueOK /\ AppliedOK /\ CachedOK
    BY DEF IInv, TypeOK
  <1>2. /\ pending # <<>> /\ pending' = Tail(pending)
        /\ names' = [n \in DOMAIN names \cup {name} |-> IF n = name THEN op ELSE names[n]]
        /\ categories' = {e \in categories : e[2] \notin gone} \cup {<<made[op].category, op>>}
        /\ owned' = (owned \ gone) \cup {op}
    BY DEF Add, AddOperator, Enter
  <1>3. /\ control' = control /\ line' = line /\ made' = made /\ cursor' = cursor
        /\ conditions' = conditions /\ flagFiles' = flagFiles /\ queue' = queue
        /\ running' = running /\ applied' = applied /\ caching' = caching
        /\ cached' = cached /\ fits' = fits
    BY DEF Add, executing
  <1>4. /\ op \in 1..Len(made) /\ op = pending[1] /\ Len(pending) \in Nat \ {0}
        /\ op = Len(made) - Len(pending) + 1
        /\ \A o \in owned : o < op /\ o \in 1..Len(made)
    <2>1. pending \in Seq(1..Len(made)) /\ made \in Seq(Operator) /\ owned \subseteq 1..Len(made)
      BY <1>1 DEF TypeOK, ToolboxTypeOK
    <2>2. op \in 1..Len(made) /\ op = pending[1] /\ Len(pending) \in Nat \ {0}
      BY <1>2, <2>1
    <2>3. op = Len(made) - Len(pending) + 1
      BY <1>1, <2>2 DEF PendingOK
    <2>4. \A o \in owned : o <= Len(made) - Len(pending)
      BY <1>1 DEF PendingOK
    <2>5. Len(made) \in Nat
      BY <2>1
    <2> HIDE DEF op
    <2> QED
      BY <2>1, <2>2, <2>3, <2>4, <2>5
  <1>5. made[op] \in Operator /\ name \in Name /\ made[op].category \in Category
    <2>1. made \in Seq(Operator)
      BY <1>1 DEF ToolboxTypeOK
    <2> HIDE DEF op
    <2>2. made[op] \in Operator
      BY <1>4, <2>1
    <2> QED
      BY <2>2 DEF Operator
  <1>6. gone \subseteq owned /\ \A o \in gone : made[o].name = name
    BY <1>1 DEF Replaced, TablesAgree
  <1> HIDE DEF op, name
  <1>7. ToolboxTypeOK'
    <2>1. DOMAIN names' \subseteq Name /\ \A n \in DOMAIN names' : names'[n] \in 1..Len(made)
      BY <1>1, <1>2, <1>4, <1>5 DEF ToolboxTypeOK
    <2>2. categories' \subseteq Category \X (1..Len(made))
      BY <1>1, <1>2, <1>4, <1>5 DEF ToolboxTypeOK
    <2>3. owned' \subseteq 1..Len(made)
      BY <1>1, <1>2, <1>4 DEF ToolboxTypeOK
    <2> QED
      BY <1>1, <1>3, <2>1, <2>2, <2>3 DEF ToolboxTypeOK
  <1>8. TablesAgree'
    <2>1. categories' = {<<made[o].category, o>> : o \in owned'}
      <3>1. categories = {<<made[o].category, o>> : o \in owned}
        BY <1>1 DEF TablesAgree
      <3> HIDE DEF gone
      <3>2. ASSUME NEW e \in categories'
            PROVE  e \in {<<made[o].category, o>> : o \in owned'}
        BY <1>2, <3>1
      <3>3. ASSUME NEW o \in owned'
            PROVE  <<made[o].category, o>> \in categories'
        BY <1>2, <3>1
      <3> QED
        BY <3>2, <3>3
    <2>2. ASSUME NEW n \in DOMAIN names'
          PROVE  names'[n] \in owned' /\ made[names'[n]].name = n
      <3>1. CASE n = name
        BY <1>2, <3>1 DEF name
      <3>2. CASE n # name
        <4>1. n \in DOMAIN names /\ names'[n] = names[n]
          BY <1>2, <3>2
        <4>2. names[n] \in owned /\ made[names[n]].name = n
          BY <1>1, <4>1 DEF TablesAgree
        <4>3. names[n] \notin gone
          BY <1>6, <3>2, <4>2
        <4> QED
          BY <1>2, <4>1, <4>2, <4>3
      <3> QED
        BY <3>1, <3>2
    <2>3. ASSUME NEW o \in owned'
          PROVE  made[o].name \in DOMAIN names' /\ o <= names'[made[o].name]
      <3>1. CASE o = op
        BY <1>2, <1>4, <3>1 DEF name
      <3>2. CASE o # op
        <4>1. o \in owned /\ made[o].name \in DOMAIN names /\ o <= names[made[o].name]
          BY <1>1, <1>2, <3>2 DEF TablesAgree
        <4>2. o < op
          BY <1>4, <4>1
        <4>3. names'[made[o].name] = IF made[o].name = name THEN op ELSE names[made[o].name]
          BY <1>2, <4>1
        <4> QED
          BY <1>2, <1>4, <4>1, <4>2, <4>3
      <3> QED
        BY <3>1, <3>2
    <2> QED
      BY <1>3, <2>1, <2>2, <2>3 DEF TablesAgree
  <1>9. /\ pending' \in Seq(1..Len(made)) /\ Len(pending') = Len(pending) - 1
        /\ \A k \in 1..Len(pending') : pending'[k] = pending[k + 1]
    BY <1>1, <1>2 DEF TypeOK
  <1>10. TypeOK'
    BY <1>1, <1>3, <1>7, <1>9 DEF TypeOK
  <1>11. PendingOK'
    <2>1. Len(made) \in Nat /\ Len(pending) <= Len(made)
      BY <1>1 DEF PendingOK, ToolboxTypeOK
    <2>2. ASSUME NEW k \in 1..Len(pending')
          PROVE  pending'[k] = Len(made) - Len(pending') + k
      <3>1. k + 1 \in 1..Len(pending)
        BY <1>4, <1>9
      <3>2. pending[k + 1] = Len(made) - Len(pending) + (k + 1)
        BY <1>1, <3>1 DEF PendingOK
      <3> QED
        BY <1>4, <1>9, <2>1, <3>2
    <2>3. ASSUME NEW o \in owned'
          PROVE  o <= Len(made) - Len(pending')
      <3>1. o <= op /\ o \in Int
        BY <1>2, <1>4
      <3> QED
        BY <1>4, <1>9, <2>1, <3>1
    <2> QED
      BY <1>3, <1>4, <1>9, <2>1, <2>2, <2>3 DEF PendingOK
  <1>12. Program[line][1] = "build" /\ Stage(KindOf(op)) = Program[line][2]
    <2>1. op = pending[1] /\ 1 \in 1..Len(pending)
      BY <1>4
    <2> QED
      BY <1>1, <1>2, <2>1 DEF StageOK
  <1>13. StageOK'
    <2>1. \A k \in 1..Len(pending) : Stage(KindOf(pending[k])) = Program[line][2]
      BY <1>1, <1>2 DEF StageOK
    <2>2. \A k \in 1..Len(pending') : k + 1 \in 1..Len(pending)
      BY <1>4, <1>9
    <2>3. \A k \in 1..Len(pending') : Stage(KindOf(pending'[k])) = Program[line][2]
      BY <1>9, <2>1, <2>2
    <2> QED
      BY <1>3, <1>12, <2>3 DEF StageOK, KindOf
  <1>14. MadeOK'
    BY <1>1, <1>3 DEF MadeOK, KindOf
  <1>15. running = FALSE /\ caching = FALSE /\ line < 10
    BY <1>1, <1>2, <1>12, BuildingFacts DEF QueueOK, CachedOK, TypeOK, RefreshLine
  <1>16. QueueOK' /\ CachedOK'
    BY <1>1, <1>3, <1>15 DEF QueueOK, CachedOK
  <1>17. AppliedOK'
    <2>1. made[op].category \notin DoneAt(line)
      BY <1>1, <1>4, <1>12, BuildingFacts DEF MadeOK, TypeOK
    <2>2. ASSUME NEW o \in gone
          PROVE  made[o].category \notin DoneAt(line)
      <3>1. Replaces(KindOf(op)) /\ o \in owned /\ made[o].name = made[op].name
        BY <1>6 DEF Replaced, name
      <3>2. made[o].name[1] = KindOf(op)
        BY <1>1, <1>4, <3>1 DEF MadeOK
      <3>3. KindOf(o) = KindOf(op)
        BY <1>1, <1>4, <3>1, <3>2 DEF MadeOK
      <3> QED
        BY <1>1, <1>4, <3>1, <3>3, <2>1 DEF MadeOK
    <2>3. {o \in owned' : made[o].category \in DoneAt(line)} = Members(DoneAt(line))
      <3> HIDE DEF gone
      <3> QED
        BY <1>2, <1>6, <2>1, <2>2 DEF Members
    <2>4. (fits = 1 \/ caching) => Arranged(applied, Members(DoneAt(line)))
      <3>1. Members(DoneAt(line)) \cup RunSoFar = Members(DoneAt(line))
        BY <1>15 DEF RunSoFar
      <3>2. line <= FitLine /\ line # RefreshLine
        BY <1>1, <1>15, ProgramLines DEF TypeOK, FitLine, RefreshLine
      <3> QED
        BY <1>1, <3>1, <3>2 DEF AppliedOK
    <2> QED
      BY <1>3, <1>15, <2>3, <2>4 DEF AppliedOK, RunSoFar, Members, Arranged
  <1> QED
    BY <1>8, <1>10, <1>11, <1>13, <1>14, <1>16, <1>17 DEF IInv

LEMMA BuildStep == IInv /\ Build => IInv'
  <1> SUFFICES ASSUME IInv, Build PROVE IInv'
    OBVIOUS
  <1>1. /\ TypeOK /\ ToolboxTypeOK /\ TablesAgree /\ PendingOK /\ StageOK /\ MadeOK
        /\ QueueOK /\ AppliedOK /\ CachedOK
    BY DEF IInv, TypeOK
  <1>2. PICK i \in Remaining :
          LET s == control.statements[i]
          IN /\ cursor' = i
             /\ conditions' = [k \in ConditionKinds |-> IF k = s.kind THEN Given(s) ELSE conditions[k]]
             /\ Construct(IF s.on /\ ~Updates(s) THEN Constructed(s, i, Given(s)) ELSE <<>>)
             /\ SetFlagFiles(s, i, Given(s))
    BY DEF Build
  <1> DEFINE s == control.statements[i]
             ops == IF s.on /\ ~Updates(s) THEN Constructed(s, i, Given(s)) ELSE <<>>
  <1>3. /\ control' = control /\ line' = line /\ UNCHANGED toolbox /\ owned' = owned
        /\ queue' = queue /\ running' = running /\ applied' = applied /\ caching' = caching
        /\ cached' = cached /\ fits' = fits
        /\ pending = <<>> /\ Program[line][1] = "build"
    BY DEF Build, executing, At, toolbox
  <1>4. /\ i \in 1..Len(control.statements) /\ s \in Statement
        /\ Stage(s.kind) = Program[line][2] /\ s.named \subseteq STRING
    BY <1>1, SMTT(30) DEF Remaining, TypeOK, Control, Statement
  <1>5. /\ ops \in Seq(Operator)
        /\ \A k \in 1..Len(ops) :
             /\ ops[k].statement = i
             /\ ops[k].category = CategoryOf(s.kind)
             /\ ops[k].name[1] = BaseOf(s)
             /\ s.kind \in StationKinds => ops[k].stations = Matching(s.named)
    <2>1. CASE s.on /\ ~Updates(s)
      <3>1. ops = Constructed(s, i, s.named)
        BY <2>1 DEF Given
      <3>2. control \in Control /\ i \in Nat
        BY <1>1, <1>4 DEF TypeOK
      <3> HIDE DEF ops, s
      <3>3. /\ Constructed(s, i, s.named) \in Seq(Operator)
            /\ \A k \in 1..Len(Constructed(s, i, s.named)) :
                 /\ Constructed(s, i, s.named)[k].statement = i
                 /\ Constructed(s, i, s.named)[k].category = CategoryOf(s.kind)
                 /\ Constructed(s, i, s.named)[k].name[1] = BaseOf(s)
                 /\ s.kind \in StationKinds => Constructed(s, i, s.named)[k].stations = Matching(s.named)
        BY <1>4, <3>2, ConstructedFacts
      <3> QED
        BY <3>1, <3>3
    <2>2. CASE ~(s.on /\ ~Updates(s))
      <3>1. ops = <<>>
        BY <2>2
      <3> HIDE DEF ops
      <3> QED
        BY <3>1
    <2> QED
      BY <2>1, <2>2
  <1>6. made' = made \o ops /\ pending' = [k \in 1..Len(ops) |-> Len(made) + k]
    BY <1>2 DEF Construct
  <1>7. /\ flagFiles' = [r \in Station |-> IF s.on /\ s.kind = "adhoc_flag_file" /\ r \in Covered(s.named)
                                          THEN i ELSE flagFiles[r]]
        /\ conditions' = [k \in ConditionKinds |-> IF k = s.kind THEN s.named ELSE conditions[k]]
        /\ cursor' = i
    BY <1>2 DEF SetFlagFiles, Given
  <1> HIDE DEF ops, s
  <1>8. made \in Seq(Operator) /\ Len(made) \in Nat /\ Len(ops) \in Nat
    BY <1>1, <1>5 DEF ToolboxTypeOK
  <1>9. /\ made' \in Seq(Operator) /\ Len(made') = Len(made) + Len(ops)
        /\ \A o \in 1..Len(made) : made'[o] = made[o]
        /\ \A k \in 1..Len(ops) : made'[Len(made) + k] = ops[k]
    <2>1. made' \in Seq(Operator) /\ Len(made') = Len(made) + Len(ops)
      BY <1>5, <1>6, <1>8, ConcatProperties
    <2>2. \A o \in 1..Len(made') :
            (made \o ops)[o] = IF o <= Len(made) THEN made[o] ELSE ops[o - Len(made)]
      BY <1>5, <1>6, <1>8, <2>1, ConcatProperties
    <2>3. ASSUME NEW o \in 1..Len(made)
          PROVE  made'[o] = made[o]
      BY <1>6, <1>8, <2>1, <2>2
    <2>4. ASSUME NEW k \in 1..Len(ops)
          PROVE  made'[Len(made) + k] = ops[k]
      <3>1. Len(made) + k \in 1..Len(made') /\ ~(Len(made) + k <= Len(made))
        BY <1>8, <2>1
      <3>2. (Len(made) + k) - Len(made) = k
        BY <1>8
      <3> QED
        BY <1>6, <2>2, <3>1, <3>2
    <2> QED
      BY <2>1, <2>3, <2>4
  <1>10. Len(made) <= Len(made') /\ Len(made') \in Nat
    BY <1>8, <1>9
  <1>11. /\ ToolboxTypeOK' /\ TablesAgree'
         /\ {o \in owned' : made'[o].category \in DoneAt(line)} = Members(DoneAt(line))
         /\ owned \subseteq 1..Len(made)
         /\ 1..Len(made) \subseteq 1..Len(made')
         /\ Seq(1..Len(made)) \subseteq Seq(1..Len(made'))
    BY <1>3, <1>9, <1>10, Kept
  <1>12. /\ Len(pending') = Len(ops)
         /\ \A k \in 1..Len(pending') : pending'[k] = Len(made) + k
         /\ pending' \in Seq(1..Len(made'))
    <2>1. pending' \in [1..Len(ops) -> 1..Len(made')]
      <3>1. \A k \in 1..Len(ops) : Len(made) + k \in 1..Len(made')
        BY <1>8, <1>9
      <3> QED
        BY <1>6, <3>1
    <2>2. pending' \in Seq(1..Len(made'))
      BY <1>8, <2>1, SeqDef
    <2> QED
      BY <1>6, <1>8, <2>2
  <1>13. TypeOK'
    <2>1. conditions' \in [ConditionKinds -> SUBSET STRING]
      BY <1>1, <1>4, <1>7 DEF TypeOK
    <2>2. flagFiles' \in [Station -> 0..Len(control.statements)]
      <3>1. i \in 0..Len(control.statements)
        BY <1>4
      <3> QED
        BY <1>1, <1>7, <3>1 DEF TypeOK
    <2>3. cursor' \in 0..Len(control.statements)
      BY <1>4, <1>7
    <2>4. queue' \subseteq 1..Len(made') /\ applied' \in Seq(1..Len(made')) /\ cached' \in Seq(1..Len(made'))
      BY <1>1, <1>3, <1>11 DEF TypeOK
    <2> QED
      BY <1>1, <1>3, <1>11, <1>12, <2>1, <2>2, <2>3, <2>4 DEF TypeOK
  <1>14. PendingOK'
    <2>1. \A o \in owned : o <= Len(made) - 0
      BY <1>1, <1>3 DEF PendingOK
    <2>2. \A o \in owned : o <= Len(made') - Len(pending')
      BY <1>8, <1>9, <1>11, <1>12, <2>1
    <2>3. \A k \in 1..Len(pending') : pending'[k] = Len(made') - Len(pending') + k
      BY <1>8, <1>9, <1>12
    <2> QED
      BY <1>3, <1>8, <1>9, <1>12, <2>2, <2>3 DEF PendingOK
  <1> DEFINE kindOf(o) == IF made'[o].statement = 0 THEN "chan_ids"
                          ELSE control.statements[made'[o].statement].kind
  <1>15. \A o \in 1..Len(made) : kindOf(o) = KindOf(o)
    BY <1>9 DEF KindOf
  <1>16. ASSUME NEW k \in 1..Len(ops)
         PROVE  kindOf(Len(made) + k) = s.kind
    <2>1. made'[Len(made) + k].statement = i /\ i # 0
      BY <1>4, <1>5, <1>9
    <2> QED
      BY <2>1 DEF s
  <1>17. StageOK'
    <2>1. ASSUME NEW k \in 1..Len(pending')
          PROVE  Stage(kindOf(pending'[k])) = Program[line][2]
      <3> HIDE DEF kindOf
      <3> QED
        BY <1>4, <1>12, <1>16
    <2> QED
      BY <1>3, <2>1 DEF StageOK, KindOf
  <1>18. MadeOK'
    <2> HIDE DEF kindOf
    <2>1. ASSUME NEW o \in 1..Len(made)
          PROVE  /\ made'[o].statement \in 0..Len(control.statements)
                 /\ made'[o].category = CategoryOf(kindOf(o))
                 /\ Replaces(kindOf(o)) => made'[o].name[1] = kindOf(o)
                 /\ ~Replaces(kindOf(o)) => ~Replaces(made'[o].name[1])
                 /\ kindOf(o) \in StationKinds =>
                      made'[o].stations = Matching(control.statements[made'[o].statement].named)
      BY <1>1, <1>9, <1>15 DEF MadeOK
    <2>2. ASSUME NEW k \in 1..Len(ops), NEW o, o = Len(made) + k
          PROVE  /\ made'[o].statement \in 0..Len(control.statements)
                 /\ made'[o].category = CategoryOf(kindOf(o))
                 /\ Replaces(kindOf(o)) => made'[o].name[1] = kindOf(o)
                 /\ ~Replaces(kindOf(o)) => ~Replaces(made'[o].name[1])
                 /\ kindOf(o) \in StationKinds =>
                      made'[o].stations = Matching(control.statements[made'[o].statement].named)
      <3>1. kindOf(o) = s.kind
        BY <1>16, <2>2
      <3>2. made'[o] = ops[k] /\ i \in 0..Len(control.statements)
        BY <1>4, <1>9, <2>2
      <3>3. made'[o].statement = i /\ made'[o].category = CategoryOf(s.kind)
            /\ made'[o].name[1] = BaseOf(s)
            /\ (s.kind \in StationKinds => made'[o].stations = Matching(s.named))
        BY <1>5, <3>2
      <3> QED
        BY <1>4, <3>1, <3>2, <3>3, BaseFacts DEF s
    <2>3. ASSUME NEW o \in 1..Len(made')
          PROVE  o \in 1..Len(made) \/ \E k \in 1..Len(ops) : o = Len(made) + k
      <3>1. CASE o <= Len(made)
        BY <1>8, <3>1
      <3>2. CASE ~(o <= Len(made))
        <4>1. o - Len(made) \in 1..Len(ops) /\ o = Len(made) + (o - Len(made))
          BY <1>8, <1>9, <3>2
        <4> QED
          BY <4>1
      <3> QED
        BY <3>1, <3>2
    <2>4. \A o \in 1..Len(made') :
            /\ made'[o].statement \in 0..Len(control.statements)
            /\ made'[o].category = CategoryOf(kindOf(o))
            /\ Replaces(kindOf(o)) => made'[o].name[1] = kindOf(o)
            /\ ~Replaces(kindOf(o)) => ~Replaces(made'[o].name[1])
            /\ kindOf(o) \in StationKinds =>
                 made'[o].stations = Matching(control.statements[made'[o].statement].named)
      <3> HIDE DEF kindOf
      <3> QED
        BY <2>1, <2>2, <2>3
    <2> USE DEF kindOf
    <2> QED
      BY <1>3, <2>4 DEF MadeOK, KindOf
  <1>19. running = FALSE /\ caching = FALSE /\ line < 10
    BY <1>1, <1>3, <1>4, BuildingFacts DEF QueueOK, CachedOK, TypeOK, RefreshLine
  <1>20. QueueOK' /\ CachedOK'
    BY <1>1, <1>3, <1>19 DEF QueueOK, CachedOK
  <1>21. AppliedOK'
    <2>1. (fits = 1 \/ caching) => Arranged(applied, Members(DoneAt(line)))
      <3>1. Members(DoneAt(line)) \cup RunSoFar = Members(DoneAt(line))
        BY <1>19 DEF RunSoFar
      <3>2. line <= FitLine /\ line # RefreshLine
        BY <1>1, <1>19, ProgramLines DEF TypeOK, FitLine, RefreshLine
      <3> QED
        BY <1>1, <3>1, <3>2 DEF AppliedOK
    <2>2. \A j \in DOMAIN applied : made'[applied[j]] = made[applied[j]]
      <3>1. applied \in Seq(1..Len(made))
        BY <1>1 DEF TypeOK
      <3>2. \A j \in DOMAIN applied : applied[j] \in 1..Len(made)
        BY <3>1
      <3> QED
        BY <1>9, <3>2
    <2> QED
      BY <1>3, <1>11, <1>19, <2>1, <2>2 DEF AppliedOK, RunSoFar, Members, Arranged
  <1> QED
    BY <1>11, <1>13, <1>14, <1>17, <1>18, <1>20, <1>21 DEF IInv

\* steps that construct nothing and leave the toolbox
LEMMA Still ==
  ASSUME IInv, control' = control, UNCHANGED building,
         line' \in 1..Len(Program), queue' \subseteq 1..Len(made), running' \in BOOLEAN,
         applied' \in Seq(1..Len(made)), caching' \in BOOLEAN,
         cached' \in Seq(1..Len(made)), fits' \in 1..MaxFits
  PROVE  /\ TypeOK' /\ TablesAgree' /\ PendingOK' /\ MadeOK'
         /\ made' = made /\ owned' = owned /\ pending' = pending
  <1>1. /\ made' = made /\ UNCHANGED toolbox /\ cursor' = cursor /\ pending' = pending
        /\ conditions' = conditions /\ flagFiles' = flagFiles
        /\ owned' = owned
    BY DEF building, toolbox
  <1>2. TypeOK /\ ToolboxTypeOK /\ PendingOK /\ MadeOK
    BY DEF IInv, TypeOK
  <1>3. made \in Seq(Operator) /\ Len(made) <= Len(made)
    BY <1>2 DEF ToolboxTypeOK
  <1>4. ToolboxTypeOK' /\ TablesAgree'
    BY <1>1, <1>3, Kept
  <1>5. TypeOK'
    BY <1>1, <1>2, <1>4 DEF TypeOK
  <1>6. PendingOK' /\ MadeOK'
    BY <1>1, <1>2 DEF PendingOK, MadeOK, KindOf
  <1> QED
    BY <1>1, <1>4, <1>5, <1>6

LEMMA EndBuildStep == IInv /\ EndBuild => IInv'
  <1> SUFFICES ASSUME IInv, EndBuild PROVE IInv'
    OBVIOUS
  <1>1. /\ TypeOK /\ PendingOK /\ StageOK /\ QueueOK /\ AppliedOK /\ CachedOK
    BY DEF IInv
  <1>2. /\ control' = control /\ made' = made /\ UNCHANGED toolbox /\ owned' = owned
        /\ pending' = pending /\ conditions' = conditions /\ flagFiles' = flagFiles
        /\ queue' = queue /\ running' = running /\ applied' = applied /\ caching' = caching
        /\ cached' = cached /\ fits' = fits /\ cursor' = 0 /\ line' = line + 1
        /\ pending = <<>> /\ Program[line][1] = "build"
    BY DEF EndBuild, executing, At, toolbox, Advance
  <1>3. line \in {1, 3, 5, 6, 7, 8, 9}
    BY <1>1, <1>2, ProgramLines DEF TypeOK
  <1>4. line' \in 1..Len(Program) /\ line' < 11 /\ line < 11
    BY <1>2, <1>3, ProgramLines, SMTT(30)
  <1>5. DoneAt(line + 1) = DoneAt(line)
    BY <1>3 DEF DoneAt
  <1>6. running = FALSE /\ caching = FALSE
    BY <1>1, <1>2, <1>3, <1>4 DEF QueueOK, CachedOK, RefreshLine
  <1>7. ToolboxTypeOK' /\ TablesAgree'
    <2>1. made \in Seq(Operator) /\ Len(made) <= Len(made)
      BY <1>1 DEF TypeOK, ToolboxTypeOK
    <2> QED
      BY <1>2, <2>1, Kept
  <1>8. TypeOK'
    <2>1. cursor' \in 0..Len(control.statements)
      BY <1>1, <1>2 DEF TypeOK
    <2> QED
      BY <1>1, <1>2, <1>4, <1>7, <2>1 DEF TypeOK
  <1>9. PendingOK' /\ MadeOK'
    BY <1>1, <1>2 DEF PendingOK, MadeOK, KindOf, IInv
  <1>10. StageOK' /\ QueueOK' /\ CachedOK'
    BY <1>1, <1>2, <1>4, <1>6 DEF StageOK, QueueOK, CachedOK, RefreshLine
  <1>11. AppliedOK'
    <2>1. (fits = 1 \/ caching) => Arranged(applied, Members(DoneAt(line)))
      <3>1. Members(DoneAt(line)) \cup RunSoFar = Members(DoneAt(line))
        BY <1>6 DEF RunSoFar
      <3>2. line <= FitLine /\ line # RefreshLine
        BY <1>3 DEF FitLine, RefreshLine
      <3> QED
        BY <1>1, <3>1, <3>2 DEF AppliedOK
    <2> QED
      BY <1>2, <1>5, <1>6, <2>1 DEF AppliedOK, RunSoFar, Members, Arranged
  <1> QED
    BY <1>7, <1>8, <1>9, <1>10, <1>11 DEF IInv

-----------------------------------------------------------------------------
(* The steps of the fitter *)

\* the lines before the fit that run a category: what has been run before is of others,
\* which come before it
LEMMA RunFacts ==
  ASSUME line \in 1..Len(Program), Program[line][1] = "run", line <= FitLine
  PROVE  /\ line \in {2, 4, 12, 13, 14}
         /\ Program[line][2] \notin DoneAt(line)
         /\ DoneAt(line + 1) = DoneAt(line) \cup {Program[line][2]}
         /\ \A c \in DoneAt(line) : Order(c) < Order(Program[line][2])
  <1>1. line \in {2, 4, 12, 13, 14}
    BY ProgramLines DEF FitLine
  <1>2. CASE line = 2
    BY <1>2, ProgramLines DEF DoneAt
  <1>3. CASE line = 4
    BY <1>3, ProgramLines DEF DoneAt, Order
  <1>4. CASE line = 12
    BY <1>4, ProgramLines DEF DoneAt, Order
  <1>5. CASE line = 13
    BY <1>5, ProgramLines DEF DoneAt, Order
  <1>6. CASE line = 14
    BY <1>6, ProgramLines DEF DoneAt, Order
  <1> QED
    BY <1>1, <1>2, <1>3, <1>4, <1>5, <1>6

LEMMA StartRunStep == IInv /\ StartRun => IInv'
  <1> SUFFICES ASSUME IInv, StartRun PROVE IInv'
    OBVIOUS
  <1>1. TypeOK /\ ToolboxTypeOK /\ TablesAgree /\ QueueOK /\ AppliedOK /\ CachedOK
    BY DEF IInv, TypeOK
  <1>2. /\ control' = control /\ line' = line /\ UNCHANGED building /\ running' = TRUE
        /\ applied' = applied /\ caching' = caching /\ cached' = cached /\ fits' = fits
        /\ queue' = GetOperatorsByCategory(Program[line][2])
        /\ pending = <<>> /\ Program[line][1] = "run" /\ running = FALSE
    BY <1>1 DEF StartRun, At, TypeOK
  <1>3. queue' = Members({Program[line][2]})
    <2> DEFINE cat == Program[line][2]
    <2>1. categories = {<<made[op].category, op>> : op \in owned}
      BY <1>1 DEF TablesAgree
    <2> HIDE DEF cat
    <2>2. ASSUME NEW o \in GetOperatorsByCategory(cat)
          PROVE  o \in Members({cat})
      BY <2>1 DEF GetOperatorsByCategory, Members
    <2>3. ASSUME NEW o \in Members({cat})
          PROVE  o \in GetOperatorsByCategory(cat)
      <3>1. <<cat, o>> \in categories
        BY <2>1 DEF Members
      <3> QED
        BY <3>1 DEF GetOperatorsByCategory
    <2>4. GetOperatorsByCategory(cat) = Members({cat})
      BY <2>2, <2>3
    <2> QED
      BY <1>2, <2>4 DEF cat
  <1>4. queue' \subseteq owned /\ owned \subseteq 1..Len(made)
    BY <1>1, <1>3 DEF Members, ToolboxTypeOK
  <1>5. /\ TypeOK' /\ TablesAgree' /\ PendingOK' /\ MadeOK'
        /\ made' = made /\ owned' = owned /\ pending' = pending
    <2>1. queue' \subseteq 1..Len(made) /\ line' \in 1..Len(Program) /\ running' \in BOOLEAN
      BY <1>1, <1>2, <1>4 DEF TypeOK
    <2> QED
      BY <1>1, <1>2, <2>1, Still DEF TypeOK
  <1>6. StageOK' /\ QueueOK' /\ CachedOK'
    BY <1>1, <1>2, <1>3, <1>5 DEF StageOK, QueueOK, CachedOK, Members, Arranged
  <1>7. AppliedOK'
    <2> SUFFICES ASSUME line <= FitLine, line = RefreshLine => fits = 1, fits = 1 \/ caching
                 PROVE  /\ Arranged(applied, Members(DoneAt(line)) \cup RunSoFar')
                        /\ \A op \in queue' : \A i \in DOMAIN applied :
                             Before(made[applied[i]], made[op])
      BY <1>2, <1>5 DEF AppliedOK, Members, Arranged
    <2>1. Arranged(applied, Members(DoneAt(line)))
      <3>1. Members(DoneAt(line)) \cup RunSoFar = Members(DoneAt(line))
        BY <1>2 DEF RunSoFar
      <3> QED
        BY <1>1, <3>1 DEF AppliedOK
    <2>2. Members(DoneAt(line)) \cup RunSoFar' = Members(DoneAt(line))
      BY <1>2, <1>3, <1>5 DEF RunSoFar, Members
    <2>3. ASSUME NEW op \in queue', NEW i \in DOMAIN applied
          PROVE  Before(made[applied[i]], made[op])
      <3>1. made[op].category = Program[line][2]
        BY <1>3 DEF Members
      <3>2. made[applied[i]].category \in DoneAt(line)
        BY <2>1 DEF Arranged, Range, Members
      <3>3. Order(made[applied[i]].category) < Order(made[op].category)
        BY <1>1, <1>2, <3>1, <3>2, RunFacts DEF TypeOK
      <3> QED
        BY <3>3 DEF Before
    <2> QED
      BY <2>1, <2>2, <2>3
  <1> QED
    BY <1>5, <1>6, <1>7 DEF IInv

LEMMA ExecuteStep == IInv /\ Execute => IInv'
  <1> SUFFICES ASSUME IInv, Execute PROVE IInv'
    OBVIOUS
  <1>1. TypeOK /\ ToolboxTypeOK /\ QueueOK /\ AppliedOK /\ CachedOK
    BY DEF IInv, TypeOK
  <1>2. /\ control' = control /\ line' = line /\ UNCHANGED building /\ running' = running
        /\ caching' = caching /\ cached' = cached /\ fits' = fits
        /\ pending = <<>> /\ Program[line][1] = "run" /\ running
    BY DEF Execute, At
  <1>3. PICK op \in queue :
          /\ \A other \in queue : made[op].priority <= made[other].priority
          /\ queue' = queue \ {op}
          /\ applied' = Append(applied, op)
    BY DEF Execute
  <1>4. op \in 1..Len(made) /\ applied \in Seq(1..Len(made)) /\ queue \subseteq Members({Program[line][2]})
    BY <1>1, <1>2 DEF TypeOK, QueueOK
  <1>5. /\ TypeOK' /\ TablesAgree' /\ PendingOK' /\ MadeOK'
        /\ made' = made /\ owned' = owned /\ pending' = pending
    <2>1. queue' \subseteq 1..Len(made) /\ applied' \in Seq(1..Len(made))
      BY <1>1, <1>3, <1>4 DEF TypeOK
    <2>2. line' \in 1..Len(Program) /\ running' \in BOOLEAN /\ caching' \in BOOLEAN
          /\ cached' \in Seq(1..Len(made)) /\ fits' \in 1..MaxFits
      BY <1>1, <1>2 DEF TypeOK
    <2> QED
      BY <1>2, <2>1, <2>2, Still
  <1>6. StageOK' /\ QueueOK' /\ CachedOK'
    BY <1>1, <1>2, <1>3, <1>5 DEF StageOK, QueueOK, CachedOK, Members, Arranged
  <1>7. AppliedOK'
    <2> DEFINE done == Members(DoneAt(line)) \cup RunSoFar
    <2> SUFFICES ASSUME line <= FitLine, line = RefreshLine => fits = 1, fits = 1 \/ caching
                 PROVE  /\ Arranged(applied', Members(DoneAt(line)) \cup RunSoFar')
                        /\ \A o \in queue' : \A i \in DOMAIN applied' :
                             Before(made[applied'[i]], made[o])
      BY <1>2, <1>5 DEF AppliedOK, Members, Arranged
    <2>1. /\ Arranged(applied, done)
          /\ \A o \in queue : \A i \in DOMAIN applied : Before(made[applied[i]], made[o])
      BY <1>1, <1>2 DEF AppliedOK
    <2>2. op \notin done
      <3>1. made[op].category = Program[line][2]
        BY <1>4 DEF Members
      <3>2. op \notin Members(DoneAt(line))
        BY <1>1, <1>2, <3>1, RunFacts DEF Members, TypeOK
      <3> QED
        BY <1>2, <3>2 DEF RunSoFar
    <2>3. Members(DoneAt(line)) \cup RunSoFar' = done \cup {op}
      <3>1. RunSoFar' = Members({Program[line][2]}) \ queue'
        BY <1>2, <1>5 DEF RunSoFar, Members
      <3>2. RunSoFar = Members({Program[line][2]}) \ queue
        BY <1>2 DEF RunSoFar
      <3>3. op \in Members({Program[line][2]})
        BY <1>4
      <3> QED
        BY <1>3, <3>1, <3>2, <3>3
    <2>4. /\ DOMAIN applied = 1..Len(applied) /\ Len(applied) \in Nat
          /\ DOMAIN applied' = 1..(Len(applied) + 1)
          /\ \A i \in DOMAIN applied : applied'[i] = applied[i]
          /\ applied'[Len(applied) + 1] = op
      BY <1>3, <1>4
    <2> HIDE DEF done
    <2>5. Range(applied') = done \cup {op}
      <3>1. Range(applied) = done
        BY <2>1 DEF Arranged
      <3>2. ASSUME NEW i \in DOMAIN applied'
            PROVE  applied'[i] \in done \cup {op}
        <4>1. CASE i = Len(applied) + 1
          BY <2>4, <4>1
        <4>2. CASE i # Len(applied) + 1
          <5>1. i \in DOMAIN applied
            BY <2>4, <4>2
          <5> QED
            BY <2>4, <3>1, <5>1 DEF Range
        <4> QED
          BY <4>1, <4>2
      <3>3. ASSUME NEW o \in done \cup {op}
            PROVE  \E i \in DOMAIN applied' : applied'[i] = o
        <4>1. CASE o = op
          <5>1. Len(applied) + 1 \in DOMAIN applied'
            BY <2>4
          <5> QED
            BY <2>4, <4>1, <5>1
        <4>2. CASE o \in done
          <5>1. PICK i \in DOMAIN applied : applied[i] = o
            BY <3>1, <4>2 DEF Range
          <5>2. i \in DOMAIN applied'
            BY <2>4
          <5> QED
            BY <2>4, <5>1, <5>2
        <4> QED
          BY <4>1, <4>2
      <3> QED
        BY <3>2, <3>3 DEF Range
    <2>6. \A i \in DOMAIN applied : applied[i] # op
      BY <2>1, <2>2 DEF Arranged, Range
    <2>7. IsInjective(applied')
      <3>1. ASSUME NEW i \in DOMAIN applied', NEW j \in DOMAIN applied',
                   applied'[i] = applied'[j]
            PROVE  i = j
        <4>1. i \in DOMAIN applied \/ i = Len(applied) + 1
          BY <2>4
        <4>2. j \in DOMAIN applied \/ j = Len(applied) + 1
          BY <2>4
        <4>3. CASE i \in DOMAIN applied /\ j \in DOMAIN applied
          BY <2>1, <2>4, <3>1, <4>3 DEF Arranged, IsInjective
        <4>4. CASE i = Len(applied) + 1 \/ j = Len(applied) + 1
          BY <2>4, <2>6, <3>1, <4>1, <4>2, <4>4
        <4> QED
          BY <4>1, <4>2, <4>3, <4>4
      <3> QED
        BY <3>1 DEF IsInjective
    <2>8. ASSUME NEW i \in DOMAIN applied', NEW j \in DOMAIN applied', i < j
          PROVE  Before(made[applied'[i]], made[applied'[j]])
      <3>1. i \in DOMAIN applied
        BY <2>4, <2>8
      <3>2. CASE j \in DOMAIN applied
        BY <2>1, <2>4, <2>8, <3>1, <3>2 DEF Arranged
      <3>3. CASE j \notin DOMAIN applied
        <4>1. j = Len(applied) + 1
          BY <2>4, <3>3
        <4> QED
          BY <2>1, <2>4, <3>1, <4>1
      <3> QED
        BY <3>2, <3>3
    <2>9. ASSUME NEW o \in queue', NEW i \in DOMAIN applied'
          PROVE  Before(made[applied'[i]], made[o])
      <3>1. o \in queue
        BY <1>3
      <3>2. CASE i \in DOMAIN applied
        BY <2>1, <2>4, <3>1, <3>2
      <3>3. CASE i \notin DOMAIN applied
        <4>1. applied'[i] = op
          BY <2>4, <3>3
        <4>2. made[op].category = made[o].category
          BY <1>4, <3>1 DEF Members
        <4> QED
          BY <1>3, <3>1, <4>1, <4>2 DEF Before
      <3> QED
        BY <3>2, <3>3
    <2> QED
      BY <2>3, <2>5, <2>7, <2>8, <2>9 DEF Arranged
  <1> QED
    BY <1>5, <1>6, <1>7 DEF IInv

LEMMA EndRunStep == IInv /\ EndRun => IInv'
  <1> SUFFICES ASSUME IInv, EndRun PROVE IInv'
    OBVIOUS
  <1>1. TypeOK /\ ToolboxTypeOK /\ QueueOK /\ AppliedOK /\ CachedOK
    BY DEF IInv, TypeOK
  <1>2. /\ control' = control /\ line' = line + 1 /\ UNCHANGED building /\ running' = FALSE
        /\ queue' = queue /\ queue = {} /\ applied' = applied
        /\ caching' = caching /\ cached' = cached /\ fits' = fits
        /\ pending = <<>> /\ Program[line][1] = "run" /\ running
    BY DEF EndRun, At, Advance
  <1>3. line \in {2, 4, 12, 13, 14, 16, 18}
    BY <1>1, <1>2, ProgramLines DEF TypeOK
  <1>4. /\ TypeOK' /\ TablesAgree' /\ PendingOK' /\ MadeOK'
        /\ made' = made /\ owned' = owned /\ pending' = pending
    <2>1. line' \in 1..Len(Program)
      BY <1>2, <1>3, ProgramLines
    <2> QED
      BY <1>1, <1>2, <2>1, Still DEF TypeOK
  <1>5. StageOK' /\ QueueOK'
    BY <1>1, <1>2, <1>4 DEF StageOK, QueueOK
  <1>6. CachedOK'
    BY <1>1, <1>2, <1>3, <1>4 DEF CachedOK, Members, Arranged, RefreshLine
  <1>7. AppliedOK'
    <2> SUFFICES ASSUME line + 1 <= FitLine, fits = 1 \/ caching
                 PROVE  Arranged(applied, Members(DoneAt(line + 1)))
      <3>1. Members(DoneAt(line + 1)) \cup {} = Members(DoneAt(line + 1))
        OBVIOUS
      <3> QED
        BY <1>2, <1>4, <3>1 DEF AppliedOK, Members, Arranged, RunSoFar
    <2>1. line <= FitLine /\ line # RefreshLine
      BY <1>3 DEF FitLine, RefreshLine
    <2>2. Arranged(applied, Members(DoneAt(line)) \cup RunSoFar)
      BY <1>1, <2>1 DEF AppliedOK
    <2>3. RunSoFar = Members({Program[line][2]})
      BY <1>2 DEF RunSoFar
    <2>4. DoneAt(line + 1) = DoneAt(line) \cup {Program[line][2]}
      BY <1>1, <1>2, <2>1, RunFacts DEF TypeOK
    <2>5. Members(DoneAt(line + 1)) = Members(DoneAt(line)) \cup RunSoFar
      BY <2>3, <2>4 DEF Members
    <2> QED
      BY <2>2, <2>5
  <1> QED
    BY <1>4, <1>5, <1>6, <1>7 DEF IInv

LEMMA CacheStep == IInv /\ Cache => IInv'
  <1> SUFFICES ASSUME IInv, Cache PROVE IInv'
    OBVIOUS
  <1>1. TypeOK /\ ToolboxTypeOK /\ QueueOK /\ AppliedOK /\ CachedOK
    BY DEF IInv, TypeOK
  <1>2. /\ control' = control /\ line' = line + 1 /\ UNCHANGED building
        /\ running' = running /\ queue' = queue /\ applied' = applied /\ fits' = fits
        /\ cached' = (IF caching' THEN applied ELSE cached)
        /\ pending = <<>> /\ Program[line][1] = "cache"
    BY DEF Cache, At, Advance, executing
  <1>3. caching' \in BOOLEAN
    BY Zenon DEF Cache
  <1>4. line = 10 /\ running = FALSE
    <2>1. line = 10
      BY <1>1, <1>2, LineIs
    <2>2. running = FALSE
      BY <1>1, <1>2 DEF TypeOK, QueueOK
    <2> QED
      BY <2>1, <2>2
  <1>5. /\ TypeOK' /\ TablesAgree' /\ PendingOK' /\ MadeOK'
        /\ made' = made /\ owned' = owned /\ pending' = pending
    <2>1. line' \in 1..Len(Program)
      BY <1>2, <1>4, ProgramLines
    <2>2. cached' \in Seq(1..Len(made))
      BY <1>1, <1>2 DEF TypeOK
    <2> QED
      BY <1>1, <1>2, <1>3, <2>1, <2>2, Still DEF TypeOK
  <1>6. StageOK' /\ QueueOK'
    BY <1>1, <1>2, <1>4, <1>5 DEF StageOK, QueueOK
  <1>7. fits = 1 /\ Arranged(applied, Members({"labeling", "selection"}))
    <2>1. fits = 1
      BY <1>1, <1>4 DEF CachedOK, RefreshLine
    <2>2. Arranged(applied, Members(DoneAt(line)) \cup RunSoFar)
      BY <1>1, <1>4, <2>1 DEF AppliedOK, FitLine, RefreshLine
    <2>3. DoneAt(line) = {"labeling", "selection"}
      BY <1>4 DEF DoneAt
    <2>4. Members(DoneAt(line)) \cup RunSoFar = Members({"labeling", "selection"})
      BY <1>4, <2>3 DEF RunSoFar
    <2> QED
      BY <2>1, <2>2, <2>4
  <1>8. CachedOK'
    BY <1>2, <1>4, <1>5, <1>7 DEF CachedOK, Members, Arranged, RefreshLine
  <1>9. AppliedOK'
    <2>1. DoneAt(11) = {"labeling", "selection"} /\ line' = 11
      BY <1>2, <1>4 DEF DoneAt
    <2>2. Members({"labeling", "selection"}) \cup {} = Members({"labeling", "selection"})
      OBVIOUS
    <2> QED
      BY <1>2, <1>4, <1>5, <1>7, <2>1, <2>2 DEF AppliedOK, Members, Arranged, RunSoFar
  <1> QED
    BY <1>5, <1>6, <1>8, <1>9 DEF IInv

LEMMA RefreshStep == IInv /\ Refresh => IInv'
  <1> SUFFICES ASSUME IInv, Refresh PROVE IInv'
    OBVIOUS
  <1>1. TypeOK /\ ToolboxTypeOK /\ QueueOK /\ AppliedOK /\ CachedOK
    BY DEF IInv, TypeOK
  <1>2. /\ control' = control /\ line' = line + 1 /\ UNCHANGED building
        /\ running' = running /\ queue' = queue /\ caching' = caching /\ fits' = fits
        /\ cached' = cached /\ applied' = (IF caching THEN cached ELSE applied)
        /\ pending = <<>> /\ Program[line][1] = "refresh"
    BY DEF Refresh, At, Advance
  <1>3. line = 11 /\ running = FALSE
    <2>1. line = 11
      BY <1>1, <1>2, LineIs
    <2>2. running = FALSE
      BY <1>1, <1>2 DEF TypeOK, QueueOK
    <2> QED
      BY <2>1, <2>2
  <1>4. /\ TypeOK' /\ TablesAgree' /\ PendingOK' /\ MadeOK'
        /\ made' = made /\ owned' = owned /\ pending' = pending
    <2>1. line' \in 1..Len(Program)
      BY <1>2, <1>3, ProgramLines
    <2>2. applied' \in Seq(1..Len(made))
      BY <1>1, <1>2 DEF TypeOK
    <2> QED
      BY <1>1, <1>2, <2>1, <2>2, Still DEF TypeOK
  <1>5. StageOK' /\ QueueOK'
    BY <1>1, <1>2, <1>3, <1>4 DEF StageOK, QueueOK
  <1>6. CachedOK'
    BY <1>1, <1>2, <1>3, <1>4 DEF CachedOK, Members, Arranged, RefreshLine
  <1>7. fits = 1 \/ caching => Arranged(applied', Members({"labeling", "selection"}))
    <2>1. CASE caching
      BY <1>1, <1>2, <2>1 DEF CachedOK
    <2>2. CASE ~caching /\ fits = 1
      <3>1. Arranged(applied, Members(DoneAt(line)) \cup RunSoFar)
        BY <1>1, <1>3, <2>2 DEF AppliedOK, FitLine
      <3>2. DoneAt(line) = {"labeling", "selection"}
        BY <1>3 DEF DoneAt
      <3>3. Members(DoneAt(line)) \cup RunSoFar = Members({"labeling", "selection"})
        BY <1>3, <3>2 DEF RunSoFar
      <3> QED
        BY <1>2, <2>2, <3>1, <3>3
    <2> QED
      BY <2>1, <2>2
  <1>8. AppliedOK'
    <2>1. DoneAt(12) = {"labeling", "selection"} /\ line' = 12
      BY <1>2, <1>3 DEF DoneAt
    <2>2. Members({"labeling", "selection"}) \cup {} = Members({"labeling", "selection"})
      OBVIOUS
    <2> QED
      BY <1>2, <1>3, <1>4, <1>7, <2>1, <2>2 DEF AppliedOK, Members, Arranged, RunSoFar
  <1> QED
    BY <1>4, <1>5, <1>6, <1>8 DEF IInv

\* the steps of the fit itself, after which the order of what is applied no longer counts
LEMMA FitStep == IInv /\ (Fit \/ Finished \/ FitAgain) => IInv'
  <1> SUFFICES ASSUME IInv, Fit \/ Finished \/ FitAgain PROVE IInv'
    OBVIOUS
  <1>1. TypeOK /\ ToolboxTypeOK /\ QueueOK /\ AppliedOK /\ CachedOK
    BY DEF IInv, TypeOK
  <1>2. /\ control' = control /\ UNCHANGED building /\ applied' = applied
        /\ running' = running /\ queue' = queue /\ caching' = caching /\ cached' = cached
        /\ pending = <<>>
    BY DEF Fit, Finished, FitAgain, At, executing
  <1>3. /\ fits' \in 1..MaxFits
        /\ \/ line = 15 /\ line' = 16
           \/ line = 17 /\ line' = 18
           \/ line = 17 /\ line' = 11 /\ fits' # 1
    <2>1. CASE Fit
      <3>1. Program[line][1] = "fit" /\ fits' = fits /\ line' = line + 1
        BY <2>1 DEF Fit, At, Advance
      <3>2. fits \in 1..MaxFits /\ line = 15
        BY <1>1, <3>1, LineIs DEF TypeOK
      <3> QED
        BY <3>1, <3>2
    <2>2. CASE Finished
      <3>1. Program[line][1] = "again" /\ fits' = fits /\ line' = line + 1
        BY <2>2 DEF Finished, At, Advance
      <3>2. fits \in 1..MaxFits /\ line = 17
        BY <1>1, <3>1, LineIs DEF TypeOK
      <3> QED
        BY <3>1, <3>2
    <2>3. CASE FitAgain
      <3>1. Program[line][1] = "again" /\ fits < MaxFits /\ fits' = fits + 1 /\ line' = 11
        BY <2>3 DEF FitAgain, At, RefreshLine
      <3>2. fits \in 1..MaxFits /\ MaxFits \in Nat /\ line = 17
        BY <1>1, <3>1, LineIs, FitOperatorsAssumption DEF TypeOK
      <3> QED
        BY <3>1, <3>2
    <2> QED
      BY <2>1, <2>2, <2>3
  <1>4. running = FALSE
    BY <1>1, <1>3, ProgramLines DEF QueueOK, TypeOK
  <1>5. /\ TypeOK' /\ TablesAgree' /\ PendingOK' /\ MadeOK'
        /\ made' = made /\ owned' = owned /\ pending' = pending
    <2>1. line' \in 1..Len(Program)
      BY <1>3, ProgramLines
    <2> QED
      BY <1>1, <1>2, <1>3, <2>1, Still DEF TypeOK
  <1>6. StageOK' /\ QueueOK'
    BY <1>2, <1>4, <1>5 DEF StageOK, QueueOK
  <1>7. CachedOK'
    BY <1>1, <1>2, <1>3, <1>5 DEF CachedOK, Members, Arranged, RefreshLine
  <1>8. AppliedOK'
    BY <1>3 DEF AppliedOK, FitLine, RefreshLine
  <1> QED
    BY <1>5, <1>6, <1>7, <1>8 DEF IInv

LEMMA StutterStep == IInv /\ UNCHANGED vars => IInv'
  <1> SUFFICES ASSUME IInv, UNCHANGED vars PROVE IInv'
    OBVIOUS
  <1>1. /\ control' = control /\ line' = line /\ UNCHANGED building /\ queue' = queue
        /\ running' = running /\ applied' = applied /\ caching' = caching
        /\ cached' = cached /\ fits' = fits
    BY DEF vars, executing
  <1>2. TypeOK /\ StageOK /\ QueueOK /\ AppliedOK /\ CachedOK
    BY DEF IInv
  <1>3. /\ TypeOK' /\ TablesAgree' /\ PendingOK' /\ MadeOK'
        /\ made' = made /\ owned' = owned /\ pending' = pending
    BY <1>1, <1>2, Still DEF TypeOK
  <1>4. StageOK' /\ QueueOK' /\ CachedOK' /\ AppliedOK'
    BY <1>1, <1>2, <1>3
    DEF StageOK, QueueOK, CachedOK, AppliedOK, KindOf, Members, Arranged, RunSoFar
  <1> QED
    BY <1>3, <1>4 DEF IInv

-----------------------------------------------------------------------------
(* The theorems *)

(* The inductive invariant holds throughout a pass, whatever the control file  *)
(* says, the data have and the number of fits is.                              *)
THEOREM Invariance == Spec => []IInv
  <1>1. IInv /\ [Next]_vars => IInv'
    BY AddStep, BuildStep, EndBuildStep, StartRunStep, ExecuteStep, EndRunStep, CacheStep,
       RefreshStep, FitStep, StutterStep DEF Next, End
  <1> QED
    BY InitIInv, <1>1, PTL DEF Spec

(* The tables of the toolbox (MHO_OperatorToolbox) agree: what a name or a     *)
(* category leads to is owned, and what is owned is found, whatever replaced   *)
(* what.                                                                       *)
THEOREM Tables == Spec => [](TypeOK /\ TablesAgree)
  <1>1. IInv => TypeOK /\ TablesAgree
    BY DEF IInv
  <1> QED
    BY Invariance, <1>1, PTL

(* An operator bound to stations is bound to those its own statement names,    *)
(* though one builder serves all the statements of a kind.                     *)
THEOREM Own == Spec => []OwnStations
  <1>1. IInv => OwnStations
    <2> SUFFICES ASSUME IInv, NEW op \in owned, KindOf(op) \in StationKinds
                 PROVE  LET named == control.statements[made[op].statement].named
                        IN IF named \cap Station = {} THEN made[op].stations = Station
                           ELSE made[op].stations = named \cap Station
      BY DEF OwnStations
    <2>1. op \in 1..Len(made)
      BY DEF IInv, TypeOK, ToolboxTypeOK
    <2>2. made[op].stations = Matching(control.statements[made[op].statement].named)
      BY <2>1 DEF IInv, MadeOK
    <2> QED
      BY <2>2 DEF Matching
  <1> QED
    BY Invariance, <1>1, PTL

(* A fit, the first or a further one, gets visibilities to which every         *)
(* operator that belongs before it was applied once and in order.              *)
THEOREM Ordered == Spec => []AppliedInOrder
  <1>1. IInv => AppliedInOrder
    <2> SUFFICES ASSUME IInv, At("fit"), fits = 1 \/ caching
                 PROVE  /\ Range(applied) = {op \in owned : made[op].category \notin {"postfit", "finalize"}}
                        /\ IsInjective(applied)
                        /\ \A i, j \in DOMAIN applied : i < j => Before(made[applied[i]], made[applied[j]])
      BY DEF AppliedInOrder
    <2>1. TypeOK /\ ToolboxTypeOK /\ QueueOK /\ AppliedOK
      BY DEF IInv, TypeOK
    <2>2. line = 15 /\ running = FALSE
      <3>1. line = 15
        BY <2>1, LineIs DEF At
      <3>2. running = FALSE
        BY <2>1 DEF At, TypeOK, QueueOK
      <3> QED
        BY <3>1, <3>2
    <2>3. Arranged(applied, Members(DoneAt(line)) \cup RunSoFar)
      BY <2>1, <2>2 DEF AppliedOK, FitLine, RefreshLine
    <2>4. DoneAt(line) = {"labeling", "selection", "flagging", "calibration", "prefit"}
      BY <2>2 DEF DoneAt
    <2>5. \A op \in owned : made[op].category \in Category
      <3>1. made \in Seq(Operator) /\ owned \subseteq 1..Len(made)
        BY <2>1 DEF ToolboxTypeOK
      <3>2. \A op \in owned : made[op] \in Operator
        BY <3>1
      <3> QED
        BY <3>2 DEF Operator
    <2>6. Members(DoneAt(line)) \cup RunSoFar = {op \in owned : made[op].category \notin {"postfit", "finalize"}}
      BY <2>2, <2>4, <2>5 DEF Members, RunSoFar, Category
    <2> QED
      BY <2>3, <2>6 DEF Arranged
  <1> QED
    BY Invariance, <1>1, PTL

-----------------------------------------------------------------------------
(* What the control file asks for *)

\* the line that builds a category
BuildLine(stage) ==
  CASE stage = "labeling"    -> 1
    [] stage = "selection"   -> 3
    [] stage = "flagging"    -> 5
    [] stage = "calibration" -> 6
    [] stage = "prefit"      -> 7
    [] stage = "postfit"     -> 8
    [] OTHER                 -> 9

\* the statement has had its turn
LookedAt(i) ==
  LET l == BuildLine(Stage(control.statements[i].kind))
  IN line > l \/ (line = l /\ i <= cursor)

CursorOK == Program[line][1] # "build" => cursor = 0

StatementOf(i) == IF i = 0 THEN Default ELSE control.statements[i]

MadeFor(i) == {op \in 1..Len(made) : made[op].statement = i}

\* operators are made for the default, and for a statement that asks for one, except
\* for further flag files
Makes(i) ==
  i = 0 \/ /\ LookedAt(i)
           /\ control.statements[i].on
           /\ control.statements[i].kind = "adhoc_flag_file"
                => \A j \in Asking("adhoc_flag_file") : i <= j

\* the operators of statement i come after the first b, one for each of its parts
Batch(i, b) ==
  LET s == StatementOf(i)
  IN /\ MadeFor(i) = (b + 1)..(b + Len(Parts(s.kind)))
     /\ \A k \in 1..Len(Parts(s.kind)) : made[b + k].name = <<BaseOf(s), Parts(s.kind)[k]>>

(* Each statement that has had its turn has its operators, made in one go.     *)
BatchesOK ==
  \A i \in 0..Len(control.statements) :
    IF Makes(i) THEN \E b \in 0..Len(made) : Batch(i, b) ELSE MadeFor(i) = {}

(* Operators of one kind are made in the order of their statements.            *)
InTurn ==
  \A a, b \in 1..Len(made) :
    a <= b /\ KindOf(a) = KindOf(b) => made[a].statement <= made[b].statement

(* What was added is still there, or there is a later one under its name; of   *)
(* those that replace others only the last one is there.                       *)
OwnedOK ==
  /\ \A op \in 1..(Len(made) - Len(pending)) :
       IF Replaces(KindOf(op))
       THEN made[op].name \in DOMAIN names /\ op <= names[made[op].name]
       ELSE op \in owned
  /\ \A op \in owned : Replaces(KindOf(op)) => names[made[op].name] = op

\* the statements with a file for station r that have had their turn
FilesFor(r) ==
  {i \in DOMAIN control.statements :
     /\ i \in Asking("adhoc_flag_file") /\ LookedAt(i)
     /\ control.statements[i].named = {} \/ r \in control.statements[i].named}

FlagsOK ==
  \A r \in Station :
    /\ flagFiles[r] \in FilesFor(r) \cup {0}
    /\ \A i \in FilesFor(r) : i <= flagFiles[r]

(* There is an operator for flagging from the first flag file on.              *)
FlaggingOK ==
  \A i \in DOMAIN control.statements :
    i \in Asking("adhoc_flag_file") /\ LookedAt(i) =>
      \E op \in 1..Len(made) : KindOf(op) = "adhoc_flag_file"

AskedInv ==
  /\ CursorOK
  /\ FlaggingOK
  /\ BatchesOK
  /\ InTurn
  /\ OwnedOK
  /\ FlagsOK

\* the line that builds a category is the one that names it
LEMMA BuildLines ==
  ASSUME NEW c \in Category
  PROVE  /\ BuildLine(c) \in {1, 3, 5, 6, 7, 8, 9}
         /\ \A l \in 1..19 : Program[l][1] = "build" => (Program[l][2] = c <=> l = BuildLine(c))
  <1>1. BuildLine(c) \in {1, 3, 5, 6, 7, 8, 9}
    BY DEF BuildLine
  <1>2. ASSUME NEW l \in 1..19, Program[l][1] = "build"
        PROVE  Program[l][2] = c <=> l = BuildLine(c)
    <2>1. l \in {1, 3, 5, 6, 7, 8, 9}
      BY <1>2, ProgramLines
    <2> QED
      BY <2>1, ProgramLines DEF BuildLine, Category
  <1> QED
    BY <1>1, <1>2

\* a statement and its line
LEMMA StatementLine ==
  ASSUME IInv, NEW i \in 1..Len(control.statements)
  PROVE  /\ control.statements[i] \in Statement
         /\ BuildLine(Stage(control.statements[i].kind)) \in {1, 3, 5, 6, 7, 8, 9}
         /\ Program[line][1] = "build" =>
              (Stage(control.statements[i].kind) = Program[line][2]
                 <=> line = BuildLine(Stage(control.statements[i].kind)))
         /\ line \in 1..19 /\ cursor \in Nat /\ i \in Nat \ {0}
  <1>1. control.statements \in Seq(Statement) /\ line \in 1..19
    BY ProgramLines DEF IInv, TypeOK, Control
  <1>2. control.statements[i] \in Statement /\ i \in Nat \ {0}
    BY <1>1
  <1>3. cursor \in Nat
    BY <1>1 DEF IInv, TypeOK
  <1>4. Stage(control.statements[i].kind) \in Category
    BY KindFacts
  <1> QED
    BY <1>1, <1>2, <1>3, <1>4, BuildLines

\* no statement has its turn when none is built
LEMMA LookedStays ==
  ASSUME IInv, CursorOK, control' = control, NEW i \in 1..Len(control.statements),
         \/ UNCHANGED <<line, cursor>>
         \/ Program[line][1] # "build" /\ cursor' = cursor /\ line' = line + 1
         \/ Program[line][1] = "build" /\ Remaining = {} /\ cursor' = 0 /\ line' = line + 1
         \/ line > 9 /\ line' > 9 /\ line' \in Nat
  PROVE  LookedAt(i)' <=> LookedAt(i)
  <1> DEFINE l == BuildLine(Stage(control.statements[i].kind))
  <1>1. /\ l \in {1, 3, 5, 6, 7, 8, 9} /\ line \in 1..19 /\ cursor \in Nat /\ i \in Nat \ {0}
        /\ Program[line][1] = "build" =>
             (Stage(control.statements[i].kind) = Program[line][2] <=> line = l)
    BY StatementLine
  <1>2. Program[line][1] # "build" => line # l
    <2>1. line \in 1..19 /\ l \in {1, 3, 5, 6, 7, 8, 9}
      BY <1>1
    <2>2. Program[line][1] = "build" <=> line \in {1, 3, 5, 6, 7, 8, 9}
      BY <2>1, ProgramLines
    <2> HIDE DEF l
    <2> QED
      BY <2>1, <2>2
  <1>3. Remaining = {} /\ Program[line][1] = "build" /\ line = l => i <= cursor
    BY <1>1 DEF Remaining
  <1>4. /\ LookedAt(i) <=> line > l \/ (line = l /\ i <= cursor)
        /\ LookedAt(i)' <=> line' > l \/ (line' = l /\ i <= cursor')
    BY DEF LookedAt
  <1>5. l \in Nat /\ l >= 1 /\ l <= 9
    BY <1>1
  <1> HIDE DEF l
  <1>6. CASE UNCHANGED <<line, cursor>>
    BY <1>4, <1>6
  <1>7. CASE Program[line][1] # "build" /\ cursor' = cursor /\ line' = line + 1
    <2>1. cursor = 0 /\ cursor' = 0 /\ line # l
      BY <1>2, <1>7 DEF CursorOK
    <2> QED
      BY <1>1, <1>4, <1>5, <1>7, <2>1
  <1>8. CASE Program[line][1] = "build" /\ Remaining = {} /\ cursor' = 0 /\ line' = line + 1
    <2>1. line = l => i <= cursor
      BY <1>3, <1>8
    <2> QED
      BY <1>1, <1>4, <1>5, <1>8, <2>1
  <1>9. CASE line > 9 /\ line' > 9 /\ line' \in Nat
    <2>1. line > l /\ line' > l
      <3>1. line \in Nat
        BY <1>1
      <3> QED
        BY <1>5, <1>9, <3>1
    <2> QED
      BY <1>4, <2>1
  <1> QED
    BY <1>6, <1>7, <1>8, <1>9

\* a builder is called for the next statement of its category
LEMMA LookedBuild ==
  ASSUME IInv, control' = control, line' = line, Program[line][1] = "build",
         NEW n \in Remaining, \A j \in Remaining : n <= j, cursor' = n
  PROVE  /\ n \in 1..Len(control.statements) /\ ~LookedAt(n)
         /\ \A i \in 1..Len(control.statements) : LookedAt(i)' <=> LookedAt(i) \/ i = n
         /\ \A i \in 1..Len(control.statements) :
              Stage(control.statements[i].kind) = Program[line][2] /\ LookedAt(i) => i < n
         /\ \A i \in 1..Len(control.statements) :
              Stage(control.statements[i].kind) = Program[line][2] /\ i < n => LookedAt(i)
  <1>1. n \in 1..Len(control.statements) /\ n > cursor
    BY DEF Remaining, IInv, TypeOK
  <1>2. Stage(control.statements[n].kind) = Program[line][2]
    BY DEF Remaining
  <1>3. ASSUME NEW i \in 1..Len(control.statements)
        PROVE  /\ i = n => ~LookedAt(i)
               /\ LookedAt(i)' <=> LookedAt(i) \/ i = n
               /\ Stage(control.statements[i].kind) = Program[line][2] /\ LookedAt(i) => i < n
               /\ Stage(control.statements[i].kind) = Program[line][2] /\ i < n => LookedAt(i)
    <2> DEFINE l == BuildLine(Stage(control.statements[i].kind))
    <2>1. /\ l \in {1, 3, 5, 6, 7, 8, 9} /\ line \in 1..19 /\ cursor \in Nat /\ i \in Nat \ {0}
          /\ Stage(control.statements[i].kind) = Program[line][2] <=> line = l
      BY StatementLine
    <2>2. line = l /\ i > cursor => n <= i
      BY <2>1 DEF Remaining
    <2>3. /\ LookedAt(i) <=> line > l \/ (line = l /\ i <= cursor)
          /\ LookedAt(i)' <=> line > l \/ (line = l /\ i <= n)
      BY DEF LookedAt
    <2>4. i = n => line = l
      BY <1>2, <2>1
    <2> HIDE DEF l
    <2> QED
      BY <1>1, <2>1, <2>2, <2>3, <2>4
  <1> QED
    BY <1>1, <1>3

\* the parts of the names are distinct where operators replace others
LEMMA PartsFacts ==
  ASSUME NEW k, control \in Control
  PROVE  /\ Len(Parts(k)) \in Nat \ {0}
         /\ Replaces(k) => \A i, j \in 1..Len(Parts(k)) : Parts(k)[i] = Parts(k)[j] => i = j
  <1>1. CASE k \in {"chan_ids", "coarse_selection"}
    <2>1. Parts(k) = <<":vis", ":weight">>
      BY <1>1 DEF Parts
    <2> QED
      BY <2>1
  <1>2. CASE k = "swap_pol_labels"
    <2> DEFINE blanks == [i \in 1..Cardinality(control.pcal) |-> ""]
    <2>1. Parts(k) = <<":vis", ":weight">> \o blanks /\ ~Replaces(k)
      BY <1>2 DEF Parts, Replaces
    <2>2. Cardinality(control.pcal) \in Nat
      BY FS_CardinalityType, FS_Subset, FitOperatorsAssumption DEF Control
    <2>3. blanks \in Seq({"", ":vis", ":weight"})
      <3>1. blanks \in [1..Cardinality(control.pcal) -> {"", ":vis", ":weight"}]
        OBVIOUS
      <3> HIDE DEF blanks
      <3> QED
        BY <2>2, <3>1, SeqDef
    <2> HIDE DEF blanks
    <2>4. Len(blanks) \in Nat
      BY <2>3, LenProperties, Zenon
    <2>5. Len(Parts(k)) = 2 + Len(blanks)
      <3>1. <<":vis", ":weight">> \in Seq({"", ":vis", ":weight"}) /\ Len(<<":vis", ":weight">>) = 2
        OBVIOUS
      <3>2. Len(<<":vis", ":weight">> \o blanks) = 2 + Len(blanks)
        BY <2>3, <3>1, ConcatProperties
      <3> QED
        BY <2>1, <3>2, Zenon
    <2> QED
      BY <2>1, <2>4, <2>5
  <1>3. CASE k \notin {"chan_ids", "coarse_selection", "swap_pol_labels"}
    <2>1. Parts(k) = <<"">>
      BY <1>3 DEF Parts
    <2>2. Len(Parts(k)) = 1
      <3>1. Len(<<"">>) = 1
        OBVIOUS
      <3> QED
        BY <2>1, <3>1, Zenon
    <2>3. \A i, j \in 1..1 : i = j
      OBVIOUS
    <2> QED
      BY <2>2, <2>3
  <1> QED
    BY <1>1, <1>2, <1>3

\* what the batches say of an operator
LEMMA MadeFacts ==
  ASSUME IInv, BatchesOK, NEW op \in 1..Len(made)
  PROVE  /\ made[op].statement \in 0..Len(control.statements)
         /\ Makes(made[op].statement)
         /\ StatementOf(made[op].statement) \in Statement
         /\ KindOf(op) = StatementOf(made[op].statement).kind
         /\ made[op].name[1] = BaseOf(StatementOf(made[op].statement))
         /\ KindOf(op) = "adhoc_flag_file" <=> made[op].name[1] = "adhoc_flagging"
         /\ KindOf(op) = "adhoc_flag_file" => made[op].name = <<"adhoc_flagging", "">>
  <1>1. made[op].statement \in 0..Len(control.statements)
    BY DEF IInv, MadeOK
  <1>2. PICK i \in 0..Len(control.statements) : i = made[op].statement
    BY <1>1
  <1>3. op \in MadeFor(i)
    BY <1>2 DEF MadeFor
  <1>4. Makes(i)
    BY <1>3 DEF BatchesOK
  <1>5. PICK b \in 0..Len(made) : Batch(i, b)
    BY <1>4 DEF BatchesOK
  <1>6. PICK s : s = StatementOf(i) /\ s \in Statement
    <2>1. control.statements \in Seq(Statement)
      BY DEF IInv, TypeOK, Control
    <2> QED
      BY <2>1, DefaultFacts DEF StatementOf
  <1>7. KindOf(op) = s.kind
    BY <1>2, <1>6 DEF KindOf, StatementOf, Default
  <1>8. PICK k \in 1..Len(Parts(s.kind)) : op = b + k
    <2>1. op \in (b + 1)..(b + Len(Parts(s.kind)))
      BY <1>3, <1>5, <1>6 DEF Batch
    <2>2. Len(Parts(s.kind)) \in Nat
      BY PartsFacts DEF IInv, TypeOK
    <2>3. op - b \in 1..Len(Parts(s.kind)) /\ op = b + (op - b)
      BY <2>1, <2>2
    <2> QED
      BY <2>3
  <1>9. made[op].name = <<BaseOf(s), Parts(s.kind)[k]>>
    BY <1>5, <1>6, <1>8 DEF Batch
  <1>10. s.kind = "adhoc_flag_file" => BaseOf(s) = "adhoc_flagging" /\ Parts(s.kind) = <<"">>
    BY DEF BaseOf, Parts
  <1>11. s.kind # "adhoc_flag_file" => BaseOf(s) # "adhoc_flagging"
    <2>1. SUFFICES ASSUME s.kind # "adhoc_flag_file" PROVE BaseOf(s) # "adhoc_flagging"
      OBVIOUS
    <2>2. CASE s.kind \in ManualKinds \cup PythonKinds
      <3>1. BaseOf(s) = s.base /\ ~Replaces(s.kind)
        BY <2>1, <2>2 DEF BaseOf, Replaces, ManualKinds, PythonKinds
      <3>2. s.base # "adhoc_flagging"
        BY <1>6, <3>1 DEF Statement
      <3> QED
        BY <3>1, <3>2
    <2>3. CASE s.kind \notin ManualKinds \cup PythonKinds
      <3>1. BaseOf(s) = s.kind
        BY <2>1, <2>3 DEF BaseOf
      <3>2. "adhoc_flagging" \notin Kind
        BY DEF Kind, LabelingKinds, SelectionKinds, FlaggingKinds, CalibrationKinds,
           ManualKinds, PythonKinds
      <3>3. s.kind \in Kind
        BY <1>6 DEF Statement
      <3> QED
        BY <3>1, <3>2, <3>3
    <2> QED
      BY <2>2, <2>3
  <1>12. s.kind = "adhoc_flag_file" => Parts(s.kind)[k] = ""
    <2>1. SUFFICES ASSUME s.kind = "adhoc_flag_file" PROVE Parts(s.kind)[k] = ""
      OBVIOUS
    <2>2. Parts(s.kind) = <<"">>
      BY <1>10, <2>1
    <2>3. Len(<<"">>) = 1 /\ <<"">>[1] = ""
      OBVIOUS
    <2>4. k \in 1..1
      BY <1>8, <2>2, <2>3, Zenon
    <2>5. k = 1
      BY <2>4
    <2> QED
      BY <2>2, <2>3, <2>5, Zenon
  <1>13. s.kind = "adhoc_flag_file" => made[op].name = <<"adhoc_flagging", "">>
    BY <1>9, <1>10, <1>12
  <1>14. made[op].name[1] = BaseOf(s)
    BY <1>9
  <1> HIDE DEF BaseOf
  <1> QED
    BY <1>2, <1>4, <1>6, <1>7, <1>10, <1>11, <1>13, <1>14

LEMMA AskedInit == Init => AskedInv
  <1> SUFFICES ASSUME Init PROVE AskedInv
    OBVIOUS
  <1>1. IInv
    BY InitIInv
  <1>2. /\ line = 1 /\ cursor = 0 /\ pending = <<1, 2>> /\ owned = {}
        /\ made = Constructed(Default, 0, {}) /\ flagFiles = [r \in Station |-> 0]
    BY DEF Init
  <1>3. ASSUME NEW i \in 1..Len(control.statements)
        PROVE  ~LookedAt(i)
    <2>1. /\ BuildLine(Stage(control.statements[i].kind)) \in {1, 3, 5, 6, 7, 8, 9}
          /\ i \in Nat \ {0}
      BY <1>1, StatementLine
    <2> QED
      BY <1>2, <2>1 DEF LookedAt
  <1>4. DOMAIN control.statements = 1..Len(control.statements) /\ Len(control.statements) \in Nat
    BY <1>1 DEF IInv, TypeOK, Control
  <1>5. /\ Len(made) = 2 /\ \A k \in 1..2 : made[k].statement = 0
        /\ \A k \in 1..2 : made[k].name = <<BaseOf(Default), Parts("chan_ids")[k]>>
    <2>1. Parts("chan_ids") = <<":vis", ":weight">> /\ Default.kind = "chan_ids"
      BY DefaultFacts
    <2>2. Len(<<":vis", ":weight">>) = 2
      OBVIOUS
    <2>3. Len(Parts("chan_ids")) = 2
      BY <2>1, <2>2, Zenon
    <2> QED
      BY <1>2, <2>1, <2>3 DEF Constructed
  <1>6. MadeFor(0) = 1..2 /\ \A i \in 1..Len(control.statements) : MadeFor(i) = {}
    BY <1>5 DEF MadeFor
  <1>7. BatchesOK
    <2>1. Len(Parts("chan_ids")) = 2
      <3>1. Len(<<":vis", ":weight">>) = 2
        OBVIOUS
      <3> QED
        BY <3>1, DefaultFacts, Zenon
    <2>2. Batch(0, 0)
      <3>1. StatementOf(0) = Default /\ Default.kind = "chan_ids"
        BY DefaultFacts DEF StatementOf
      <3>2. \A k \in 1..2 : 0 + k = k
        OBVIOUS
      <3>3. MadeFor(0) = (0 + 1)..(0 + 2)
        BY <1>6
      <3> QED
        BY <1>5, <2>1, <3>1, <3>2, <3>3 DEF Batch
    <2>3. Makes(0) /\ \A i \in 1..Len(control.statements) : ~Makes(i)
      BY <1>3 DEF Makes
    <2>4. 0 \in 0..Len(made) /\ \A i \in 0..Len(control.statements) : i = 0 \/ i \in 1..Len(control.statements)
      BY <1>4, <1>5
    <2> QED
      BY <1>6, <2>2, <2>3, <2>4 DEF BatchesOK
  <1>8. InTurn
    BY <1>5 DEF InTurn
  <1>9. OwnedOK
    <2>1. Len(pending) = 2
      BY <1>2
    <2>2. 1..(Len(made) - Len(pending)) = {}
      BY <1>5, <2>1
    <2> QED
      BY <1>2, <2>2 DEF OwnedOK
  <1>10. FlagsOK
    BY <1>2, <1>3, <1>4 DEF FlagsOK, FilesFor
  <1>11. FlaggingOK
    BY <1>3, <1>4 DEF FlaggingOK
  <1>12. CursorOK
    BY <1>2 DEF CursorOK
  <1> QED
    BY <1>7, <1>8, <1>9, <1>10, <1>11, <1>12 DEF AskedInv

LEMMA BatchStays ==
  ASSUME control' = control, made' = made, NEW i
  PROVE  /\ MadeFor(i)' = MadeFor(i)
         /\ \A b : Batch(i, b)' <=> Batch(i, b)
  BY DEF MadeFor, Batch, StatementOf, Parts

\* no builder is called
LEMMA AskedStays ==
  ASSUME IInv, AskedInv, CursorOK', UNCHANGED <<control, made, toolbox, pending, flagFiles>>,
         \A i \in 1..Len(control.statements) : LookedAt(i)' <=> LookedAt(i)
  PROVE  AskedInv'
  <1>1. DOMAIN control.statements = 1..Len(control.statements) /\ Len(control.statements) \in Nat
    BY DEF IInv, TypeOK, Control
  <1>2. /\ control' = control /\ made' = made /\ pending' = pending /\ flagFiles' = flagFiles
        /\ names' = names /\ owned' = owned
    BY DEF toolbox
  <1>3. \A i \in 0..Len(control.statements) : Makes(i)' <=> Makes(i)
    <2>1. \A i \in 0..Len(control.statements) : i = 0 \/ i \in 1..Len(control.statements)
      BY <1>1
    <2> QED
      BY <1>2, <2>1 DEF Makes, Asking
  <1>4. BatchesOK'
    BY <1>2, <1>3, BatchStays DEF AskedInv, BatchesOK
  <1>5. InTurn' /\ OwnedOK'
    BY <1>2 DEF AskedInv, InTurn, OwnedOK, KindOf
  <1>6. FlagsOK'
    BY <1>1, <1>2 DEF AskedInv, FlagsOK, FilesFor, Asking
  <1>7. FlaggingOK'
    BY <1>1, <1>2 DEF AskedInv, FlaggingOK, Asking, KindOf
  <1> QED
    BY <1>4, <1>5, <1>6, <1>7 DEF AskedInv

LEMMA AskedAdd == IInv /\ AskedInv /\ Add => AskedInv'
  <1> SUFFICES ASSUME IInv, AskedInv, Add PROVE AskedInv'
    OBVIOUS
  <1> DEFINE op == Head(pending)
             name == made[op].name
             gone == Replaced(name, Replaces(KindOf(op)))
  <1>1. TypeOK /\ ToolboxTypeOK /\ TablesAgree /\ PendingOK /\ MadeOK
    BY DEF IInv, TypeOK
  <1>2. /\ pending # <<>> /\ pending' = Tail(pending)
        /\ names' = [n \in DOMAIN names \cup {name} |-> IF n = name THEN op ELSE names[n]]
        /\ owned' = (owned \ gone) \cup {op}
    BY DEF Add, AddOperator, Enter
  <1>3. /\ control' = control /\ line' = line /\ made' = made /\ cursor' = cursor
        /\ flagFiles' = flagFiles
    BY DEF Add
  <1>4. /\ op \in 1..Len(made) /\ Len(made) \in Nat
        /\ Len(made) - Len(pending) \in Nat /\ op = Len(made) - Len(pending) + 1
        /\ Len(made) - Len(pending') = op
    <2>1. pending \in Seq(1..Len(made)) /\ made \in Seq(Operator) /\ owned \subseteq 1..Len(made)
      BY <1>1 DEF TypeOK, ToolboxTypeOK
    <2>2. op \in 1..Len(made) /\ op = pending[1] /\ Len(pending) \in Nat \ {0}
      BY <1>2, <2>1
    <2>3. op = Len(made) - Len(pending) + 1 /\ Len(pending) <= Len(made)
      BY <1>1, <2>2 DEF PendingOK
    <2>4. Len(pending') = Len(pending) - 1 /\ Len(made) \in Nat
      BY <1>2, <2>1
    <2> HIDE DEF op
    <2> QED
      BY <2>2, <2>3, <2>4
  <1> HIDE DEF op
  <1>5. \A o \in 1..Len(made) : KindOf(o)' = KindOf(o)
    BY <1>3 DEF KindOf
  <1>6. ASSUME NEW o \in 1..Len(made), made[o].name = name
        PROVE  /\ Replaces(KindOf(o)) <=> Replaces(KindOf(op))
               /\ o # op /\ names[name] = o /\ Replaces(KindOf(o)) /\ name \in DOMAIN names => o \in gone
    <2>1. Replaces(KindOf(o)) <=> Replaces(name[1])
      BY <1>1, <1>6 DEF MadeOK
    <2>2. Replaces(KindOf(op)) <=> Replaces(name[1])
      BY <1>1, <1>4 DEF MadeOK
    <2> QED
      BY <2>1, <2>2 DEF Replaced
  <1>7. \A o \in gone : o \in owned /\ made[o].name = name /\ Replaces(KindOf(op))
    BY <1>1 DEF Replaced, TablesAgree
  <1> HIDE DEF name, gone
  <1>8. ASSUME NEW o \in 1..(Len(made) - Len(pending'))
        PROVE  IF Replaces(KindOf(o))
               THEN made[o].name \in DOMAIN names' /\ o <= names'[made[o].name]
               ELSE o \in owned'
    <2>1. o \in 1..Len(made) /\ (o = op \/ o \in 1..(Len(made) - Len(pending)))
      BY <1>4
    <2>2. CASE o = op
      BY <1>2, <1>4, <2>2 DEF name
    <2>3. CASE o # op
      <3>1. IF Replaces(KindOf(o))
            THEN made[o].name \in DOMAIN names /\ o <= names[made[o].name]
            ELSE o \in owned
        BY <2>1, <2>3 DEF AskedInv, OwnedOK
      <3>2. CASE Replaces(KindOf(o))
        BY <1>2, <1>4, <2>1, <3>1, <3>2
      <3>3. CASE ~Replaces(KindOf(o))
        BY <1>2, <1>6, <1>7, <2>1, <3>1, <3>3
      <3> QED
        BY <3>2, <3>3
    <2> QED
      BY <2>2, <2>3
  <1>9. ASSUME NEW o \in owned', Replaces(KindOf(o))
        PROVE  o \in 1..Len(made) /\ names'[made[o].name] = o
    <2>1. CASE o = op
      BY <1>2, <1>4, <2>1 DEF name
    <2>2. CASE o # op
      <3>1. o \in owned /\ o \notin gone /\ o \in 1..Len(made)
        BY <1>1, <1>2, <1>9, <2>2 DEF ToolboxTypeOK
      <3>2. names[made[o].name] = o /\ made[o].name \in DOMAIN names
        BY <1>1, <1>9, <3>1 DEF AskedInv, OwnedOK, TablesAgree
      <3>3. made[o].name # name
        BY <1>6, <1>9, <2>2, <3>1, <3>2
      <3> QED
        BY <1>2, <3>1, <3>2, <3>3
    <2> QED
      BY <2>1, <2>2
  <1>10. OwnedOK'
    <2>1. owned' \subseteq 1..Len(made)
      BY <1>1, <1>2, <1>4 DEF ToolboxTypeOK
    <2>2. \A o \in 1..(Len(made) - Len(pending')) : o \in 1..Len(made)
      BY <1>4
    <2> QED
      BY <1>3, <1>5, <1>8, <1>9, <2>1, <2>2 DEF OwnedOK
  <1>11. /\ CursorOK' /\ InTurn'
    BY <1>3 DEF AskedInv, CursorOK, InTurn, KindOf
  <1>12. BatchesOK'
    <2>1. \A i \in 0..Len(control.statements) : Makes(i)' <=> Makes(i)
      BY <1>3 DEF Makes, LookedAt, Asking
    <2> QED
      BY <1>3, <2>1, BatchStays DEF AskedInv, BatchesOK
  <1>13. FlagsOK' /\ FlaggingOK'
    BY <1>3 DEF AskedInv, FlagsOK, FilesFor, FlaggingOK, LookedAt, Asking, KindOf
  <1> QED
    BY <1>10, <1>11, <1>12, <1>13 DEF AskedInv

LEMMA AskedBuild == IInv /\ AskedInv /\ Build => AskedInv'
  <1> SUFFICES ASSUME IInv, AskedInv, Build PROVE AskedInv'
    OBVIOUS
  <1>1. /\ TypeOK /\ ToolboxTypeOK /\ TablesAgree /\ MadeOK
        /\ BatchesOK /\ InTurn /\ OwnedOK /\ FlagsOK /\ FlaggingOK
    BY DEF IInv, TypeOK, AskedInv
  <1>2. PICK n \in Remaining :
          LET s == control.statements[n]
          IN /\ \A j \in Remaining : n <= j
             /\ cursor' = n
             /\ Construct(IF s.on /\ ~Updates(s) THEN Constructed(s, n, Given(s)) ELSE <<>>)
             /\ SetFlagFiles(s, n, Given(s))
    BY DEF Build
  <1>3. /\ control' = control /\ line' = line /\ names' = names /\ owned' = owned
        /\ pending = <<>> /\ Program[line][1] = "build"
    BY DEF Build, At, toolbox
  <1>4. /\ n \in 1..Len(control.statements) /\ ~LookedAt(n)
        /\ \A i \in 1..Len(control.statements) : LookedAt(i)' <=> LookedAt(i) \/ i = n
        /\ \A i \in 1..Len(control.statements) :
             Stage(control.statements[i].kind) = Program[line][2] /\ LookedAt(i) => i < n
        /\ \A i \in 1..Len(control.statements) :
             Stage(control.statements[i].kind) = Program[line][2] /\ i < n => LookedAt(i)
    BY <1>2, <1>3, LookedBuild
  <1>5. PICK s : s = control.statements[n] /\ s \in Statement /\ Stage(s.kind) = Program[line][2]
    BY <1>2, <1>4, StatementLine DEF Remaining
  <1>6. PICK ops : /\ ops = IF s.on /\ ~Updates(s) THEN Constructed(s, n, s.named) ELSE <<>>
                   /\ Construct(ops)
    BY <1>2, <1>5 DEF Given
  <1>7. /\ DOMAIN control.statements = 1..Len(control.statements)
        /\ Len(control.statements) \in Nat /\ n \in Nat \ {0}
        /\ made \in Seq(Operator) /\ Len(made) \in Nat
    BY <1>1, <1>4 DEF TypeOK, Control, ToolboxTypeOK
  <1>8. /\ Len(Parts(s.kind)) \in Nat \ {0}
        /\ ops \in Seq(Operator) /\ Len(ops) \in Nat
        /\ s.on /\ ~Updates(s) =>
             /\ Len(ops) = Len(Parts(s.kind))
             /\ \A k \in 1..Len(ops) : ops[k].name = <<BaseOf(s), Parts(s.kind)[k]>>
        /\ ~(s.on /\ ~Updates(s)) => Len(ops) = 0
        /\ \A k \in 1..Len(ops) : ops[k].statement = n
    <2>1. Len(Parts(s.kind)) \in Nat \ {0}
      BY <1>1, PartsFacts DEF TypeOK
    <2>2. CASE s.on /\ ~Updates(s)
      <3>1. ops = Constructed(s, n, s.named)
        BY <1>6, <2>2
      <3>2. ops \in Seq(Operator) /\ \A k \in 1..Len(ops) : ops[k].statement = n
        BY <1>1, <1>5, <1>7, <3>1, ConstructedFacts, SMTT(30) DEF TypeOK
      <3>3. /\ Len(ops) = Len(Parts(s.kind))
            /\ \A k \in 1..Len(ops) : ops[k].name = <<BaseOf(s), Parts(s.kind)[k]>>
        BY <2>1, <3>1 DEF Constructed
      <3> QED
        BY <2>1, <2>2, <3>2, <3>3
    <2>3. CASE ~(s.on /\ ~Updates(s))
      <3>1. ops = <<>>
        BY <1>6, <2>3
      <3> QED
        BY <2>1, <2>3, <3>1
    <2> QED
      BY <2>2, <2>3
  <1>9. /\ made' = made \o ops /\ pending' = [k \in 1..Len(ops) |-> Len(made) + k]
        /\ Len(pending') = Len(ops)
    BY <1>6, <1>8 DEF Construct
  <1>10. /\ Len(made') = Len(made) + Len(ops)
         /\ \A o \in 1..Len(made) : made'[o] = made[o]
         /\ \A k \in 1..Len(ops) : made'[Len(made) + k] = ops[k]
    <2>1. /\ Len(made') = Len(made) + Len(ops)
          /\ \A o \in 1..(Len(made) + Len(ops)) :
               made'[o] = IF o <= Len(made) THEN made[o] ELSE ops[o - Len(made)]
      BY <1>7, <1>8, <1>9, ConcatProperties
    <2>2. \A o \in 1..Len(made) : o \in 1..(Len(made) + Len(ops)) /\ o <= Len(made)
      BY <1>7, <1>8
    <2>3. \A k \in 1..Len(ops) : /\ Len(made) + k \in 1..(Len(made) + Len(ops))
                                 /\ ~(Len(made) + k <= Len(made))
                                 /\ (Len(made) + k) - Len(made) = k
      BY <1>7, <1>8
    <2> QED
      BY <2>1, <2>2, <2>3
  <1>11. ASSUME NEW o \in 1..Len(made')
         PROVE  \/ o \in 1..Len(made)
                \/ o > Len(made) /\ made'[o].statement = n
    <2>1. o \in 1..Len(made) \/ \E k \in 1..Len(ops) : o = Len(made) + k
      <3>1. o \in 1..Len(made) \/ (o - Len(made) \in 1..Len(ops) /\ o = Len(made) + (o - Len(made)))
        BY <1>7, <1>8, <1>10
      <3> QED
        BY <3>1
    <2>2. ASSUME NEW k \in 1..Len(ops), o = Len(made) + k
          PROVE  o > Len(made) /\ made'[o].statement = n
      <3>1. made'[o] = ops[k] /\ ops[k].statement = n
        BY <1>8, <1>10, <2>2
      <3>2. o > Len(made)
        BY <1>7, <1>8, <2>2
      <3> QED
        BY <3>1, <3>2
    <2> QED
      BY <2>1, <2>2
  <1>12. \A o \in 1..Len(made) : KindOf(o)' = KindOf(o)
    BY <1>3, <1>10 DEF KindOf
  <1>13. \A o \in 1..Len(made') : made'[o].statement = n => KindOf(o)' = s.kind
    BY <1>3, <1>5, <1>7 DEF KindOf
  <1>14. MadeFor(n) = {}
    <2>1. ~Makes(n)
      BY <1>4, <1>7 DEF Makes
    <2> QED
      BY <1>1, <1>4, <1>7, <2>1 DEF BatchesOK
  <1>15. ASSUME s.kind = "adhoc_flag_file", s.on
         PROVE  Updates(s) <=> \E i \in Asking("adhoc_flag_file") : i < n
    <2>1. ASSUME Updates(s)
          PROVE  \E i \in Asking("adhoc_flag_file") : i < n
      <3>1. <<"adhoc_flagging", "">> \in DOMAIN names
        BY <2>1 DEF Updates, GetOperator
      <3>2. PICK o \in 1..Len(made) : o = names[<<"adhoc_flagging", "">>]
        BY <1>1, <3>1 DEF ToolboxTypeOK
      <3>3. made[o].name = <<"adhoc_flagging", "">>
        BY <1>1, <3>1, <3>2 DEF TablesAgree
      <3>4. PICK i \in 0..Len(control.statements) : i = made[o].statement /\ Makes(i)
        BY <1>1, MadeFacts
      <3>5. KindOf(o) = "adhoc_flag_file"
        <4>1. made[o].name[1] = "adhoc_flagging"
          <5>1. <<"adhoc_flagging", "">>[1] = "adhoc_flagging"
            OBVIOUS
          <5> QED
            BY <3>3, <5>1, Zenon
        <4>2. KindOf(o) = "adhoc_flag_file" <=> made[o].name[1] = "adhoc_flagging"
          BY <1>1, MadeFacts
        <4> QED
          BY <4>1, <4>2
      <3>6. i # 0 /\ control.statements[i].kind = "adhoc_flag_file"
        BY <3>4, <3>5 DEF KindOf
      <3>7. LookedAt(i) /\ control.statements[i].on /\ i \in 1..Len(control.statements)
        BY <1>7, <3>4, <3>6 DEF Makes
      <3>8. i < n /\ i \in Asking("adhoc_flag_file")
        BY <1>4, <1>5, <1>7, <1>15, <3>6, <3>7 DEF Asking
      <3> QED
        BY <3>8
    <2>2. ASSUME NEW i \in Asking("adhoc_flag_file"), i < n
          PROVE  Updates(s)
      <3>1. i \in 1..Len(control.statements) /\ control.statements[i].kind = "adhoc_flag_file"
        BY <1>7 DEF Asking
      <3>2. LookedAt(i)
        BY <1>4, <1>5, <1>15, <2>2, <3>1
      <3>3. PICK o \in 1..Len(made) : KindOf(o) = "adhoc_flag_file"
        BY <1>1, <1>7, <3>1, <3>2 DEF FlaggingOK
      <3>4. made[o].name = <<"adhoc_flagging", "">>
        BY <1>1, <3>3, MadeFacts
      <3>5. o \in owned
        <4>1. o \in 1..(Len(made) - Len(pending))
          BY <1>3, <1>7
        <4> QED
          BY <1>1, <3>3, <4>1 DEF OwnedOK, Replaces
      <3>6. <<"adhoc_flagging", "">> \in DOMAIN names
        BY <1>1, <3>4, <3>5 DEF TablesAgree
      <3>7. names[<<"adhoc_flagging", "">>] # 0
        <4>1. PICK p : p = names[<<"adhoc_flagging", "">>] /\ p \in 1..Len(made)
          BY <1>1, <3>6, Zenon DEF ToolboxTypeOK
        <4>2. \A m \in 1..Len(made) : m # 0
          BY <1>7
        <4> QED
          BY <4>1, <4>2, Zenon
      <3> QED
        BY <1>15, <3>6, <3>7 DEF Updates, GetOperator
    <2> QED
      BY <2>1, <2>2
  <1>16. \A k : Asking(k)' = Asking(k)
    BY <1>3 DEF Asking
  <1>17. /\ \A i \in 0..Len(control.statements) : i # n => (Makes(i)' <=> Makes(i))
         /\ Makes(n)' <=> s.on /\ ~Updates(s)
    <2>1. \A i \in 0..Len(control.statements) : i = 0 \/ i \in 1..Len(control.statements)
      BY <1>7
    <2>2. \A i \in 0..Len(control.statements) : i # n => (Makes(i)' <=> Makes(i))
      BY <1>3, <1>4, <1>16, <2>1 DEF Makes
    <2>3. Makes(n)' <=> s.on /\ (s.kind = "adhoc_flag_file" =>
                                   \A j \in Asking("adhoc_flag_file") : n <= j)
      BY <1>3, <1>4, <1>5, <1>7, <1>16 DEF Makes
    <2>4. \A j \in Asking("adhoc_flag_file") : n <= j <=> ~(j < n)
      <3>1. \A j \in Asking("adhoc_flag_file") : j \in Nat
        BY <1>7 DEF Asking
      <3> QED
        BY <1>7, <3>1
    <2>5. s.kind # "adhoc_flag_file" => ~Updates(s)
      BY DEF Updates
    <2>6. s.on => (Updates(s) <=> s.kind = "adhoc_flag_file" /\ \E j \in Asking("adhoc_flag_file") : j < n)
      BY <1>15, <2>5
    <2> QED
      BY <2>2, <2>3, <2>4, <2>6
  <1>18. BatchesOK'
    <2>1. ASSUME NEW i \in 0..Len(control.statements), i # n
          PROVE  IF Makes(i)' THEN \E b \in 0..Len(made') : Batch(i, b)' ELSE MadeFor(i)' = {}
      <3>1. MadeFor(i)' = MadeFor(i)
        <4>1. \A o \in 1..Len(made) : o \in 1..Len(made')
          BY <1>7, <1>8, <1>10
        <4> QED
          BY <1>10, <1>11, <2>1, <4>1 DEF MadeFor
      <3>2. CASE Makes(i)
        <4>1. PICK b \in 0..Len(made) : Batch(i, b)
          BY <1>1, <3>2 DEF BatchesOK
        <4>2. b \in 0..Len(made')
          BY <1>7, <1>8, <1>10
        <4>3. PICK t : t = StatementOf(i) /\ t = StatementOf(i)'
          BY <1>3 DEF StatementOf
        <4>4. PICK p : p = Parts(t.kind) /\ p = Parts(t.kind)'
          BY <1>3 DEF Parts
        <4>5. MadeFor(i) = (b + 1)..(b + Len(p)) /\ \A k \in 1..Len(p) : made[b + k].name = <<BaseOf(t), p[k]>>
          BY <4>1, <4>3, <4>4 DEF Batch
        <4>6. Len(p) \in Nat
          BY <1>1, <4>4, PartsFacts DEF TypeOK
        <4>7. \A k \in 1..Len(p) : b + k \in 1..Len(made)
          <5>1. \A k \in 1..Len(p) : b + k \in (b + 1)..(b + Len(p))
            BY <4>6
          <5> QED
            BY <4>5, <5>1 DEF MadeFor
        <4>8. Batch(i, b)'
          BY <1>10, <3>1, <4>3, <4>4, <4>5, <4>7 DEF Batch
        <4> QED
          BY <1>17, <2>1, <3>2, <4>2, <4>8
      <3>3. CASE ~Makes(i)
        BY <1>1, <1>17, <2>1, <3>1, <3>3 DEF BatchesOK
      <3> QED
        BY <3>2, <3>3
    <2>2. IF Makes(n)' THEN \E b \in 0..Len(made') : Batch(n, b)' ELSE MadeFor(n)' = {}
      <3>1. MadeFor(n)' = (Len(made) + 1)..(Len(made) + Len(ops))
        <4>1. \A o \in 1..Len(made) : made[o].statement # n
          BY <1>14 DEF MadeFor
        <4>2. ASSUME NEW o \in 1..Len(made'), made'[o].statement = n
              PROVE  o \in (Len(made) + 1)..(Len(made) + Len(ops))
          <5>1. o \notin 1..Len(made)
            BY <1>10, <4>1, <4>2
          <5> QED
            BY <1>7, <1>8, <1>10, <5>1
        <4>3. ASSUME NEW o \in (Len(made) + 1)..(Len(made) + Len(ops))
              PROVE  o \in 1..Len(made') /\ made'[o].statement = n
          <5>1. o - Len(made) \in 1..Len(ops) /\ o = Len(made) + (o - Len(made))
            BY <1>7, <1>8
          <5>2. PICK k \in 1..Len(ops) : o = Len(made) + k
            BY <5>1
          <5>3. made'[o] = ops[k] /\ ops[k].statement = n
            BY <1>8, <1>10, <5>2
          <5>4. o \in 1..Len(made')
            BY <1>7, <1>8, <1>10
          <5> QED
            BY <5>3, <5>4
        <4> QED
          BY <4>2, <4>3 DEF MadeFor
      <3>2. CASE s.on /\ ~Updates(s)
        <4>1. PICK b : b = Len(made)
          OBVIOUS
        <4>2. Len(ops) = Len(Parts(s.kind)) /\ Parts(s.kind)' = Parts(s.kind)
          BY <1>3, <1>8, <3>2 DEF Parts
        <4>3. StatementOf(n)' = s
          BY <1>3, <1>5, <1>7 DEF StatementOf
        <4>4. MadeFor(n)' = (b + 1)..(b + Len(Parts(s.kind)))
          BY <3>1, <4>1, <4>2
        <4>5. \A k \in 1..Len(Parts(s.kind)) : made'[b + k].name = <<BaseOf(s), Parts(s.kind)[k]>>
          BY <1>8, <1>10, <3>2, <4>1, <4>2
        <4>6. Batch(n, b)'
          BY <4>2, <4>3, <4>4, <4>5 DEF Batch
        <4>7. b \in 0..Len(made')
          BY <1>7, <1>8, <1>10, <4>1
        <4> QED
          BY <1>17, <3>2, <4>6, <4>7
      <3>3. CASE ~(s.on /\ ~Updates(s))
        <4>1. (Len(made) + 1)..(Len(made) + Len(ops)) = {}
          BY <1>7, <1>8, <3>3
        <4> QED
          BY <1>17, <3>1, <3>3, <4>1
      <3> QED
        BY <3>2, <3>3
    <2> QED
      BY <1>3, <2>1, <2>2 DEF BatchesOK
  <1>19. InTurn'
    <2>1. SUFFICES ASSUME NEW a \in 1..Len(made'), NEW b \in 1..Len(made'), a <= b,
                          KindOf(a)' = KindOf(b)'
                   PROVE  made'[a].statement <= made'[b].statement
      BY DEF InTurn
    <2>2. CASE b \in 1..Len(made)
      <3>1. a \in 1..Len(made)
        BY <1>7, <1>11, <2>1, <2>2
      <3> QED
        BY <1>1, <1>10, <1>12, <2>1, <2>2, <3>1 DEF InTurn
    <2>3. CASE b \notin 1..Len(made) /\ a \notin 1..Len(made)
      BY <1>7, <1>11, <2>3
    <2>4. CASE b \notin 1..Len(made) /\ a \in 1..Len(made)
      <3>1. made'[b].statement = n /\ KindOf(a) = s.kind
        BY <1>11, <1>12, <1>13, <2>1, <2>4
      <3>2. PICK i \in 0..Len(control.statements) : i = made[a].statement /\ Makes(i)
        BY <1>1, <2>4, MadeFacts
      <3>3. i # 0 => i \in 1..Len(control.statements) /\ control.statements[i].kind = s.kind /\ LookedAt(i)
        BY <1>7, <3>1, <3>2 DEF KindOf, Makes
      <3>4. i <= n
        BY <1>4, <1>5, <1>7, <3>2, <3>3
      <3> QED
        BY <1>10, <2>4, <3>1, <3>2, <3>4
    <2> QED
      BY <2>2, <2>3, <2>4
  <1>20. OwnedOK'
    <2>1. Len(made') - Len(pending') = Len(made) /\ Len(made) - Len(pending) = Len(made)
      BY <1>3, <1>7, <1>8, <1>9, <1>10
    <2>2. owned \subseteq 1..Len(made)
      BY <1>1 DEF ToolboxTypeOK
    <2> QED
      BY <1>1, <1>3, <1>10, <1>12, <2>1, <2>2 DEF OwnedOK
  <1>21. /\ flagFiles \in [Station -> 0..Len(control.statements)]
         /\ flagFiles' = [r \in Station |-> IF s.on /\ s.kind = "adhoc_flag_file" /\ r \in Covered(s.named)
                                           THEN n ELSE flagFiles[r]]
    BY <1>1, <1>2, <1>5 DEF SetFlagFiles, Given, TypeOK
  <1>22. FlagsOK'
    <2>1. ASSUME NEW r \in Station
          PROVE  /\ flagFiles'[r] \in FilesFor(r)' \cup {0}
                 /\ \A i \in FilesFor(r)' : i <= flagFiles'[r]
      <3> DEFINE sets == s.on /\ s.kind = "adhoc_flag_file" /\ r \in Covered(s.named)
      <3>1. sets <=> n \in Asking("adhoc_flag_file") /\ (s.named = {} \/ r \in s.named)
        <4>1. r \in Covered(s.named) <=> s.named = {} \/ r \in s.named
          BY <2>1 DEF Covered
        <4>2. n \in Asking("adhoc_flag_file") <=> s.kind = "adhoc_flag_file" /\ s.on
          <5>1. "adhoc_flag_file" # "chan_ids"
            OBVIOUS
          <5> QED
            BY <1>4, <1>5, <1>7, <5>1, Zenon DEF Asking
        <4> QED
          BY <4>1, <4>2, Zenon
      <3>2. FilesFor(r)' = FilesFor(r) \cup (IF sets THEN {n} ELSE {})
        BY <1>3, <1>4, <1>5, <1>7, <1>16, <3>1 DEF FilesFor
      <3>3. \A i \in FilesFor(r) : i \in Nat /\ (s.kind = "adhoc_flag_file" => i < n)
        BY <1>4, <1>5, <1>7 DEF FilesFor, Asking
      <3>4. flagFiles[r] \in FilesFor(r) \cup {0} /\ \A i \in FilesFor(r) : i <= flagFiles[r]
        BY <1>1 DEF FlagsOK
      <3>5. flagFiles'[r] = IF sets THEN n ELSE flagFiles[r]
        BY <1>21
      <3>6. sets => s.kind = "adhoc_flag_file"
        OBVIOUS
      <3> HIDE DEF sets
      <3>7. CASE sets
        BY <1>7, <3>2, <3>3, <3>5, <3>6, <3>7
      <3>8. CASE ~sets
        BY <3>2, <3>4, <3>5, <3>8
      <3> QED
        BY <3>7, <3>8
    <2> QED
      BY <2>1 DEF FlagsOK
  <1>23. FlaggingOK'
    <2>1. SUFFICES ASSUME NEW i \in 1..Len(control.statements), i \in Asking("adhoc_flag_file"),
                          LookedAt(i)'
                   PROVE  \E o \in 1..Len(made') : KindOf(o)' = "adhoc_flag_file"
      BY <1>3, <1>7, <1>16 DEF FlaggingOK
    <2>2. ASSUME NEW o \in 1..Len(made), KindOf(o) = "adhoc_flag_file"
          PROVE  o \in 1..Len(made') /\ KindOf(o)' = "adhoc_flag_file"
      BY <1>7, <1>8, <1>10, <1>12, <2>2
    <2>3. CASE LookedAt(i)
      <3>1. PICK o \in 1..Len(made) : KindOf(o) = "adhoc_flag_file"
        BY <1>1, <1>7, <2>1, <2>3 DEF FlaggingOK
      <3> QED
        BY <2>2, <3>1
    <2>4. CASE i = n
      <3>1. s.on /\ s.kind = "adhoc_flag_file"
        BY <1>5, <2>1, <2>4 DEF Asking
      <3>2. CASE Updates(s)
        <4>1. PICK j \in Asking("adhoc_flag_file") : j < n
          BY <1>15, <3>1, <3>2
        <4>2. j \in 1..Len(control.statements) /\ control.statements[j].kind = "adhoc_flag_file"
          BY <1>7 DEF Asking
        <4>3. LookedAt(j)
          BY <1>4, <1>5, <3>1, <4>1, <4>2
        <4>4. PICK o \in 1..Len(made) : KindOf(o) = "adhoc_flag_file"
          BY <1>1, <1>7, <4>2, <4>3 DEF FlaggingOK
        <4> QED
          BY <2>2, <4>4
      <3>3. CASE ~Updates(s)
        <4>1. 1 \in 1..Len(ops) /\ Len(made) + 1 \in 1..Len(made')
          BY <1>7, <1>8, <1>10, <3>1, <3>3
        <4>2. made'[Len(made) + 1].statement = n
          BY <1>8, <1>10, <4>1
        <4> QED
          BY <1>13, <3>1, <4>1, <4>2
      <3> QED
        BY <3>2, <3>3
    <2> QED
      BY <1>4, <2>1, <2>3, <2>4
  <1>24. CursorOK'
    BY <1>3 DEF CursorOK
  <1> QED
    BY <1>18, <1>19, <1>20, <1>22, <1>23, <1>24 DEF AskedInv

LEMMA AskedOther ==
  ASSUME IInv, AskedInv,
         EndBuild \/ StartRun \/ Execute \/ EndRun \/ Cache \/ Refresh \/ Fit \/ Finished
           \/ FitAgain \/ UNCHANGED vars
  PROVE  AskedInv'
  <1>1. line \in 1..19 /\ CursorOK /\ CachedOK
    BY ProgramLines DEF IInv, TypeOK, AskedInv
  <1>2. UNCHANGED <<control, made, toolbox, pending, flagFiles>>
    BY Zenon DEF EndBuild, StartRun, Execute, EndRun, Cache, Refresh, Fit, Finished, FitAgain,
       vars, building
  <1>3. \/ UNCHANGED <<line, cursor>>
        \/ Program[line][1] # "build" /\ cursor' = cursor /\ line' = line + 1
        \/ Program[line][1] = "build" /\ Remaining = {} /\ cursor' = 0 /\ line' = line + 1
        \/ line > 9 /\ line' = 11 /\ cursor' = cursor /\ Program[line][1] # "build"
    <2>1. CASE EndBuild
      BY <2>1 DEF EndBuild, At, Advance
    <2>2. CASE StartRun \/ Execute \/ UNCHANGED vars
      BY <2>2, Zenon DEF StartRun, Execute, vars, building
    <2>3. CASE EndRun
      BY <2>3 DEF EndRun, At, Advance, building
    <2>4. CASE Cache
      BY <2>4 DEF Cache, At, Advance, building
    <2>5. CASE Refresh
      BY <2>5 DEF Refresh, At, Advance, building
    <2>6. CASE Fit
      BY <2>6 DEF Fit, At, Advance, building
    <2>7. CASE Finished
      BY <2>7 DEF Finished, At, Advance, building
    <2>8. CASE FitAgain
      <3>1. Program[line][1] = "again" /\ cursor' = cursor /\ line' = 11
        BY <2>8 DEF FitAgain, At, RefreshLine, building
      <3>2. line = 17
        BY <1>1, <3>1, ProgramLines
      <3> QED
        BY <3>1, <3>2
    <2> QED
      BY <2>1, <2>2, <2>3, <2>4, <2>5, <2>6, <2>7, <2>8
  <1>4. CursorOK'
    <2>1. CASE UNCHANGED <<line, cursor>>
      BY <1>1, <2>1 DEF CursorOK
    <2>2. CASE cursor' = 0
      BY <2>2 DEF CursorOK
    <2>3. CASE Program[line][1] # "build" /\ cursor' = cursor
      BY <1>1, <2>3 DEF CursorOK
    <2> QED
      BY <1>3, <2>1, <2>2, <2>3
  <1>5. control' = control
    BY <1>2
  <1>6. \A i \in 1..Len(control.statements) : LookedAt(i)' <=> LookedAt(i)
    <2> TAKE i \in 1..Len(control.statements)
    <2>1. CASE line > 9 /\ line' = 11
      <3>1. line > 9 /\ line' > 9 /\ line' \in Nat
        BY <2>1
      <3> QED
        BY <1>1, <1>5, <3>1, LookedStays
    <2>2. CASE ~(line > 9 /\ line' = 11)
      BY <1>1, <1>3, <1>5, <2>2, LookedStays
    <2> QED
      BY <2>1, <2>2
  <1> QED
    BY <1>2, <1>4, <1>6, AskedStays

(* What the control file asks for is made, statement by statement, throughout. *)
THEOREM AskedThroughout == Spec => []AskedInv
  <1>1. IInv /\ AskedInv /\ [Next]_vars => AskedInv'
    BY AskedAdd, AskedBuild, AskedOther DEF Next, End
  <1> QED
    BY AskedInit, Invariance, <1>1, PTL DEF Spec

\* once all is built every statement has had its turn
LEMMA AllLookedAt ==
  ASSUME IInv, line > 9, NEW i \in 1..Len(control.statements)
  PROVE  LookedAt(i)
  <1>1. BuildLine(Stage(control.statements[i].kind)) \in {1, 3, 5, 6, 7, 8, 9} /\ line \in 1..19
    BY StatementLine
  <1> QED
    BY <1>1 DEF LookedAt

(* Each station is flagged by the file of the last statement that is for it    *)
(* (MHO_AdhocFlaggingBuilder, MHO_AdhocFlagging), whichever statement had the  *)
(* operator made.                                                              *)
THEOREM FlagFiles == Spec => []LastFlagFile
  <1>1. IInv /\ AskedInv => LastFlagFile
    <2> SUFFICES ASSUME IInv, AskedInv, Built, NEW r \in Station
                 PROVE  LET for == {i \in DOMAIN control.statements :
                                      /\ i \in Asking("adhoc_flag_file")
                                      /\ control.statements[i].named = {} \/ r \in control.statements[i].named}
                        IN IF for = {} THEN flagFiles[r] = 0
                           ELSE flagFiles[r] \in for /\ \A i \in for : i <= flagFiles[r]
      BY DEF LastFlagFile
    <2>1. DOMAIN control.statements = 1..Len(control.statements)
      BY DEF IInv, TypeOK, Control
    <2>2. \A i \in DOMAIN control.statements : LookedAt(i)
      BY <2>1, AllLookedAt DEF Built
    <2>3. FilesFor(r) = {i \in DOMAIN control.statements :
                           /\ i \in Asking("adhoc_flag_file")
                           /\ control.statements[i].named = {} \/ r \in control.statements[i].named}
      BY <2>2 DEF FilesFor
    <2>4. flagFiles[r] \in FilesFor(r) \cup {0} /\ \A i \in FilesFor(r) : i <= flagFiles[r]
      BY DEF AskedInv, FlagsOK
    <2>5. \A i \in FilesFor(r) : i \in Nat /\ i > 0
      BY <2>1 DEF FilesFor
    <2>6. FilesFor(r) # {} => flagFiles[r] \in FilesFor(r)
      BY <2>4, <2>5
    <2> QED
      BY <2>3, <2>4, <2>6
  <1> QED
    BY AskedThroughout, Invariance, <1>1, PTL

\* a statement that has had its turn, by what it asks for
LEMMA MakesAsked ==
  ASSUME IInv, line > 9, NEW i \in 0..Len(control.statements)
  PROVE  /\ StatementOf(i) \in Statement
         /\ \A kind : i \in Asking(kind) => StatementOf(i).kind = kind
         /\ Makes(i) => i \in Asking(StatementOf(i).kind)
         /\ Makes(i) /\ StatementOf(i).kind = "adhoc_flag_file"
              => \A j \in Asking("adhoc_flag_file") : i <= j
         /\ i \in Asking(StatementOf(i).kind)
            /\ (StatementOf(i).kind = "adhoc_flag_file"
                  => \A j \in Asking("adhoc_flag_file") : i <= j) => Makes(i)
  <1>1. control.statements \in Seq(Statement) /\ DOMAIN control.statements = 1..Len(control.statements)
    BY DEF IInv, TypeOK, Control
  <1>2. CASE i = 0
    <2>1. StatementOf(i) = Default /\ Default \in Statement /\ Default.kind = "chan_ids"
      BY <1>2, DefaultFacts DEF StatementOf
    <2>2. 0 \notin DOMAIN control.statements
      BY <1>1
    <2>3. \A kind : 0 \in Asking(kind) <=> kind = "chan_ids"
      BY <2>2 DEF Asking
    <2>4. Makes(i)
      BY <1>2 DEF Makes
    <2>5. "chan_ids" # "adhoc_flag_file"
      OBVIOUS
    <2> HIDE DEF Default
    <2> QED
      BY <1>2, <2>1, <2>3, <2>4, <2>5
  <1>3. CASE i # 0
    <2>1. i \in 1..Len(control.statements) /\ LookedAt(i)
      BY <1>1, <1>3, AllLookedAt
    <2>2. PICK s : s = StatementOf(i) /\ s = control.statements[i] /\ s \in Statement
      BY <1>1, <1>3, <2>1 DEF StatementOf
    <2>3. \A kind : i \in Asking(kind) <=> s.kind = kind /\ s.on
      BY <1>1, <1>3, <2>1, <2>2, Zenon DEF Asking
    <2>4. Makes(i) <=> s.on /\ (s.kind = "adhoc_flag_file"
                                  => \A j \in Asking("adhoc_flag_file") : i <= j)
      BY <1>3, <2>1, <2>2, Zenon DEF Makes
    <2> QED
      BY <2>2, <2>3, <2>4, Zenon
  <1> QED
    BY <1>2, <1>3, Zenon

\* of those that replace others there is none for a statement after that of one that stays
LEMMA LastStays ==
  ASSUME IInv, AskedInv, Built, NEW op \in owned, Replaces(KindOf(op)),
         NEW j \in Asking(KindOf(op))
  PROVE  j <= made[op].statement
  <1>1. /\ TypeOK /\ ToolboxTypeOK /\ MadeOK /\ BatchesOK /\ InTurn /\ OwnedOK
        /\ line > 9 /\ pending = <<>> /\ op \in 1..Len(made)
        /\ Len(made) \in Nat
    <2>1. TypeOK /\ ToolboxTypeOK /\ MadeOK /\ BatchesOK /\ InTurn /\ OwnedOK
      BY DEF IInv, AskedInv, TypeOK
    <2>2. line > 9 /\ pending = <<>>
      BY DEF Built
    <2>3. op \in 1..Len(made) /\ Len(made) \in Nat
      BY <2>1 DEF ToolboxTypeOK
    <2> QED
      BY <2>1, <2>2, <2>3
  <1>2. j \in 0..Len(control.statements)
    BY <1>1 DEF TypeOK, Control, Asking
  <1>3. PICK i \in 0..Len(control.statements) :
          /\ i = made[op].statement /\ Makes(i) /\ StatementOf(i) \in Statement
          /\ KindOf(op) = StatementOf(i).kind
    BY <1>1, MadeFacts
  <1>4. PICK kind : kind = KindOf(op)
    OBVIOUS
  <1>5. PICK b \in 0..Len(made) : Batch(i, b)
    BY <1>1, <1>3 DEF BatchesOK
  <1>6. StatementOf(j) \in Statement /\ StatementOf(j).kind = kind /\ Makes(j)
    <2>1. StatementOf(j) \in Statement /\ StatementOf(j).kind = kind
      BY <1>1, <1>2, <1>4, MakesAsked
    <2>2. kind # "adhoc_flag_file"
      BY <1>4 DEF Replaces
    <2> QED
      BY <1>1, <1>2, <1>4, <2>1, <2>2, MakesAsked
  <1>7. PICK c \in 0..Len(made) : Batch(j, c)
    BY <1>1, <1>2, <1>6 DEF BatchesOK
  <1>8. Len(Parts(kind)) \in Nat \ {0}
    BY <1>1, PartsFacts DEF TypeOK
  <1>9. PICK k \in 1..Len(Parts(kind)) : op = b + k
    <2>1. op \in (b + 1)..(b + Len(Parts(kind)))
      BY <1>1, <1>3, <1>4, <1>5 DEF Batch, MadeFor
    <2>2. op - b \in 1..Len(Parts(kind)) /\ op = b + (op - b)
      BY <1>8, <2>1
    <2> QED
      BY <2>2
  <1>10. made[op].name = <<kind, Parts(kind)[k]>>
    <2>1. BaseOf(StatementOf(i)) = kind
      BY <1>3, <1>4, BaseFacts
    <2> QED
      BY <1>3, <1>4, <1>5, <1>9, <2>1 DEF Batch
  <1>11. PICK o : o = c + k /\ o \in 1..Len(made) /\ made[o].statement = j
    <2>1. c + k \in (c + 1)..(c + Len(Parts(kind)))
      BY <1>8
    <2>2. c + k \in MadeFor(j)
      BY <1>6, <1>7, <2>1 DEF Batch
    <2> QED
      BY <2>2 DEF MadeFor
  <1>12. made[o].name = made[op].name
    <2>1. BaseOf(StatementOf(j)) = kind
      BY <1>4, <1>6, BaseFacts
    <2> QED
      BY <1>6, <1>7, <1>10, <1>11, <2>1 DEF Batch
  <1>13. KindOf(o) = kind
    BY <1>1, <1>6, <1>11, MadeFacts
  <1>14. o <= names[made[o].name]
    <2>1. o \in 1..(Len(made) - Len(pending))
      BY <1>1, <1>11
    <2> QED
      BY <1>1, <1>4, <1>13, <2>1 DEF OwnedOK
  <1>15. names[made[op].name] = op
    BY <1>1 DEF OwnedOK
  <1> QED
    BY <1>1, <1>4, <1>11, <1>12, <1>13, <1>14, <1>15 DEF InTurn

\* an operator of the last statement of its kind stays
LEMMA LastIsThere ==
  ASSUME IInv, AskedInv, Built, NEW op \in 1..Len(made),
         Replaces(KindOf(op)) => \A j \in Asking(KindOf(op)) : j <= made[op].statement
  PROVE  op \in owned
  <1>1. /\ TypeOK /\ ToolboxTypeOK /\ TablesAgree /\ MadeOK /\ BatchesOK /\ InTurn /\ OwnedOK
        /\ line > 9 /\ pending = <<>> /\ Len(made) \in Nat
    BY DEF IInv, AskedInv, TypeOK, ToolboxTypeOK, Built
  <1>2. op \in 1..(Len(made) - Len(pending))
    BY <1>1
  <1>3. CASE ~Replaces(KindOf(op))
    BY <1>1, <1>2, <1>3 DEF OwnedOK
  <1>4. CASE Replaces(KindOf(op))
    <2>1. made[op].name \in DOMAIN names /\ op <= names[made[op].name]
      BY <1>1, <1>2, <1>4 DEF OwnedOK
    <2>2. PICK o : o = names[made[op].name] /\ o \in owned /\ made[o].name = made[op].name
      BY <1>1, <2>1 DEF TablesAgree
    <2>3. o \in 1..Len(made) /\ op <= o
      BY <1>1, <2>1, <2>2 DEF ToolboxTypeOK
    <2>4. PICK kind : kind = KindOf(op) /\ KindOf(o) = kind
      <3>1. made[op].name[1] = KindOf(op)
        BY <1>1, <1>4 DEF MadeOK
      <3>2. Replaces(made[o].name[1])
        BY <1>4, <2>2, <3>1
      <3>3. made[o].name[1] = KindOf(o)
        BY <1>1, <2>3, <3>2 DEF MadeOK
      <3> QED
        BY <2>2, <3>1, <3>3
    <2>5. PICK i \in 0..Len(control.statements) :
            /\ i = made[op].statement /\ Makes(i) /\ StatementOf(i) \in Statement
            /\ kind = StatementOf(i).kind
      BY <1>1, <2>4, MadeFacts
    <2>6. PICK j \in 0..Len(control.statements) :
            /\ j = made[o].statement /\ Makes(j) /\ kind = StatementOf(j).kind
      BY <1>1, <2>3, <2>4, MadeFacts
    <2>7. j = i
      <3>1. i <= j
        BY <1>1, <2>3, <2>4, <2>5, <2>6 DEF InTurn
      <3>2. j \in Asking(kind)
        BY <1>1, <2>6, MakesAsked
      <3>3. j <= i
        BY <1>4, <2>4, <2>5, <3>2
      <3> QED
        BY <3>1, <3>3
    <2>8. PICK b \in 0..Len(made) : Batch(i, b)
      BY <1>1, <2>5 DEF BatchesOK
    <2>9. Len(Parts(kind)) \in Nat \ {0}
      BY <1>1, PartsFacts DEF TypeOK
    <2>10. \A p \in MadeFor(i) : \E k \in 1..Len(Parts(kind)) : p = b + k
      <3>1. \A p \in (b + 1)..(b + Len(Parts(kind))) :
              p - b \in 1..Len(Parts(kind)) /\ p = b + (p - b)
        BY <2>9
      <3>2. MadeFor(i) = (b + 1)..(b + Len(Parts(kind)))
        BY <2>5, <2>8 DEF Batch
      <3> QED
        BY <3>1, <3>2
    <2>11. op \in MadeFor(i) /\ o \in MadeFor(i)
      BY <2>3, <2>5, <2>6, <2>7 DEF MadeFor
    <2>12. PICK k, m \in 1..Len(Parts(kind)) : op = b + k /\ o = b + m
      BY <2>10, <2>11
    <2>13. /\ made[op].name = <<BaseOf(StatementOf(i)), Parts(kind)[k]>>
           /\ made[o].name = <<BaseOf(StatementOf(i)), Parts(kind)[m]>>
      BY <2>5, <2>8, <2>12 DEF Batch
    <2>14. Parts(kind)[k] = Parts(kind)[m]
      BY <2>2, <2>13
    <2>15. k = m
      BY <1>1, <1>4, <2>4, <2>14, PartsFacts DEF TypeOK
    <2> QED
      BY <2>2, <2>12, <2>15
  <1> QED
    BY <1>3, <1>4

(* The operators of a pass are those the control file asks for: of a kind that *)
(* is there only once (replace_duplicates of its builder) that of the last     *)
(* statement, with all its parts; of the others one for each statement.        *)
THEOREM Asked == Spec => []AsAskedFor
  <1>1. IInv /\ AskedInv => AsAskedFor
    <2> SUFFICES ASSUME IInv, AskedInv, Built PROVE AsAskedFor
      BY DEF AsAskedFor
    <2>1. /\ TypeOK /\ ToolboxTypeOK /\ BatchesOK /\ line > 9 /\ Len(made) \in Nat
          /\ owned \subseteq 1..Len(made)
      BY DEF IInv, AskedInv, TypeOK, ToolboxTypeOK, Built
    <2>2. ASSUME NEW op \in owned
          PROVE  /\ made[op].statement \in 0..Len(control.statements)
                 /\ made[op].statement \in Asking(KindOf(op))
                 /\ Replaces(KindOf(op)) => \A j \in Asking(KindOf(op)) : j <= made[op].statement
                 /\ KindOf(op) = "adhoc_flag_file"
                      => \A j \in Asking(KindOf(op)) : made[op].statement <= j
      <3>1. PICK i \in 0..Len(control.statements) :
              i = made[op].statement /\ Makes(i) /\ KindOf(op) = StatementOf(i).kind
        BY <2>1, MadeFacts
      <3>2. /\ i \in Asking(KindOf(op))
            /\ KindOf(op) = "adhoc_flag_file" => \A j \in Asking("adhoc_flag_file") : i <= j
        BY <2>1, <3>1, MakesAsked
      <3>3. Replaces(KindOf(op)) => \A j \in Asking(KindOf(op)) : j <= made[op].statement
        BY LastStays
      <3> QED
        BY <3>1, <3>2, <3>3
    <2>3. ASSUME NEW kind, NEW i \in Asking(kind),
                 Replaces(kind) => \A j \in Asking(kind) : j <= i,
                 kind = "adhoc_flag_file" => \A j \in Asking(kind) : i <= j
          PROVE  \E op \in owned : KindOf(op) = kind /\ made[op].statement = i
      <3>1. i \in 0..Len(control.statements)
        BY <2>1 DEF TypeOK, Control, Asking
      <3>2. StatementOf(i).kind = kind /\ Makes(i)
        BY <2>1, <2>3, <3>1, MakesAsked
      <3>3. PICK b \in 0..Len(made) : Batch(i, b)
        BY <2>1, <3>1, <3>2 DEF BatchesOK
      <3>4. Len(Parts(kind)) \in Nat \ {0}
        BY <2>1, PartsFacts DEF TypeOK
      <3>5. b + 1 \in (b + 1)..(b + Len(Parts(kind)))
        BY <3>4
      <3>6. PICK op : op = b + 1 /\ op \in 1..Len(made) /\ made[op].statement = i
        BY <3>2, <3>3, <3>5 DEF Batch, MadeFor
      <3>7. KindOf(op) = kind
        BY <2>1, <3>2, <3>6, MadeFacts
      <3>8. op \in owned
        BY <2>3, <3>6, <3>7, LastIsThere
      <3> QED
        BY <3>6, <3>7, <3>8
    <2>4. ASSUME NEW kind \in Kind
          PROVE  {made[op].statement : op \in {o \in owned : KindOf(o) = kind}} =
                   {i \in Asking(kind) :
                      /\ Replaces(kind) => \A j \in Asking(kind) : j <= i
                      /\ kind = "adhoc_flag_file" => \A j \in Asking(kind) : i <= j}
      BY <2>2, <2>3
    <2>5. ASSUME NEW op \in owned
          PROVE  Cardinality({other \in owned : made[other].statement = made[op].statement})
                   = Len(Parts(KindOf(op)))
      <3>1. PICK i \in 0..Len(control.statements) :
              i = made[op].statement /\ Makes(i) /\ KindOf(op) = StatementOf(i).kind
        BY <2>1, MadeFacts
      <3>2. ASSUME NEW other \in MadeFor(i)
            PROVE  other \in owned
        <4>1. other \in 1..Len(made) /\ made[other].statement = i
          BY DEF MadeFor
        <4>2. KindOf(other) = KindOf(op)
          BY <3>1, <4>1 DEF KindOf
        <4> QED
          BY <2>2, <3>1, <4>1, <4>2, LastIsThere
      <3>3. {other \in owned : made[other].statement = made[op].statement} = MadeFor(i)
        BY <2>1, <3>1, <3>2 DEF MadeFor
      <3>4. PICK b \in 0..Len(made) : Batch(i, b)
        BY <2>1, <3>1 DEF BatchesOK
      <3>5. PICK n : n = Len(Parts(KindOf(op))) /\ n \in Nat \ {0}
        BY <2>1, PartsFacts DEF TypeOK
      <3>6. MadeFor(i) = (b + 1)..(b + n)
        BY <3>1, <3>4, <3>5 DEF Batch
      <3>7. Cardinality((b + 1)..(b + n)) = n
        <4>1. b + 1 \in Int /\ b + n \in Int /\ ~(b + 1 > b + n) /\ (b + n) - (b + 1) + 1 = n
          BY <3>5
        <4> QED
          BY <4>1, FS_Interval
      <3> QED
        BY <3>3, <3>5, <3>6, <3>7
    <2> QED
      BY <2>4, <2>5 DEF AsAskedFor
  <1> QED
    BY AskedThroughout, Invariance, <1>1, PTL
=============================================================================
