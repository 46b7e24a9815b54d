--------------------------- MODULE OperatorToolbox ---------------------------
(***************************************************************************)
(* MHO_OperatorToolbox: it owns the operators of a pass and hands them out *)
(* by name and by category.  An operator is a number, its place in "made", *)
(* the sequence of all operators that have been constructed.               *)
(***************************************************************************)
EXTENDS Integers, Sequences, FiniteSets

CONSTANT
  Station      \* the stations of the baseline

\* the name of an operator, in its two parts
Suffix == {"", ":vis", ":weight"}
Name == STRING \X Suffix

Category == {"labeling", "selection", "flagging", "calibration", "prefit",
             "postfit", "finalize"}

\* statement is the control statement it was built for, 0 for the default
Operator == [name : Name, category : Category, priority : Nat, statement : Nat,
             stations : SUBSET Station]

VARIABLES
  made,        \* the operators constructed so far
  names,       \* fNameToOperatorMap
  categories,  \* fCategoryToOperatorMap: pairs of a category and an operator
  owned        \* fOperators

toolbox == <<names, categories, owned>>

ToolboxTypeOK ==
  /\ made \in Seq(Operator)
  /\ DOMAIN names \subseteq Name
  /\ \A n \in DOMAIN names : names[n] \in 1..Len(made)
  /\ categories \subseteq Category \X (1..Len(made))
  /\ owned \subseteq 1..Len(made)

ToolboxInit ==
  /\ made = <<>>
  /\ names = <<>>
  /\ categories = {}
  /\ owned = {}

\* what RemoveOperator takes out: the operator the name leads to
Replaced(name, replace) ==
  IF replace /\ name \in DOMAIN names THEN {names[name]} ELSE {}

\* the name now leads to the new operator
Enter(name, op) ==
  names' = [n \in DOMAIN names \cup {name} |-> IF n = name THEN op ELSE names[n]]

\* mutant: the entry in its category stays
AddOperatorDangling(op, replace) ==
  LET name == made[op].name
      gone == Replaced(name, replace)
  IN /\ Enter(name, op)
     /\ categories' = categories \cup {<<made[op].category, op>>}
     /\ owned' = (owned \ gone) \cup {op}

\* mutant: an operator is never replaced
AddOperatorBeside(op, replace) ==
  /\ Enter(made[op].name, op)
  /\ categories' = categories \cup {<<made[op].category, op>>}
  /\ owned' = owned \cup {op}

AddOperator(op, replace) ==
  LET name == made[op].name
      gone == Replaced(name, replace)
  IN /\ Enter(name, op)
     /\ categories' = {e \in categories : e[2] \notin gone} \cup {<<made[op].category, op>>}
     /\ owned' = (owned \ gone) \cup {op}

GetOperator(name) == IF name \in DOMAIN names THEN names[name] ELSE 0

GetOperatorsByCategory(category) == {e[2] : e \in {c \in categories : c[1] = category}}

GetNOperatorsInCategory(category) == Cardinality({e \in categories : e[1] = category})

(* The three tables are of one mind, whatever was replaced: every operator     *)
(* owned is in its category, once, and nothing else is in any; no name leads   *)
(* to an operator that was destroyed; and a name leads to the operator added   *)
(* last under it.                                                              *)
TablesAgree ==
  /\ categories = {<<made[op].category, op>> : op \in owned}
  /\ \A n \in DOMAIN names : names[n] \in owned /\ made[names[n]].name = n
  /\ \A op \in owned : made[op].name \in DOMAIN names /\ op <= names[made[op].name]
=============================================================================
