------------------------ MODULE ConditionEvaluator ------------------------
(* The choice of the control file blocks that apply to a pass               *)
(* (MHO_ControlConditionEvaluator::GetApplicableStatements): the condition  *)
(* of each block is read token by token onto a stack, a closing parenthesis *)
(* replaces its group by the group's value, and the loops of                *)
(* EvaluateBooleanOps rewrite a list of operands and operators in place     *)
(* until no operator is left.                                               *)
(*                                                                          *)
(* A token stands for what one call of ProcessToken consumes: "true" and    *)
(* "false" also for a predicate (station, baseline, source, f_group, scan)  *)
(* with its arguments, "error" for anything ProcessToken does not know.     *)
EXTENDS Naturals, Sequences, FiniteSets

CONSTANTS
    Condition,      \* the conditions (lists of tokens) a block may have
    Control         \* the control files: non-empty lists of conditions

Value == {"true", "false"}
Operator == {"not", "and", "or"}
Token == Value \cup Operator \cup {"(", ")", "error"}

ASSUME ControlAssumption ==
    /\ Condition \subseteq Seq(Token)
    /\ Control \subseteq Seq(Condition) \ {<<>>}

VARIABLES
    control,        \* the blocks of the control file
    at,             \* the block whose condition is evaluated
    applicable,     \* the blocks found to apply so far
    next,           \* Evaluate's `it': the next token of the condition
    stack,          \* Evaluate's eval_stack, its top at the end
    paren,          \* Evaluate's paren_count
    loop,           \* where control is: reading tokens, in one of the three
                    \* loops of EvaluateBooleanOps, finished, or thrown out
    states,         \* the list EvaluateBooleanOps rewrites
    pos,            \* the position in it of that loop's iterator
    worked,         \* not_count || and_count || or_count
    grouped         \* the list is a group, not the whole condition

vars == <<control, at, applicable, next, stack, paren,
          loop, states, pos, worked, grouped>>

tokens == control[at]

Init ==
    /\ control \in Control
    /\ at = 1
    /\ applicable = {}
    /\ next = 1
    /\ stack = <<>>
    /\ paren = 0
    /\ loop = "read"
    /\ states = <<>>
    /\ pos = 1
    /\ worked = FALSE
    /\ grouped = FALSE

----------------------------------------------------------------------------
(* Evaluate: one action for a turn of its token loop.                       *)

\* HOPS_THROW: nothing between here and main catches it for one condition.
Throw ==
    /\ loop' = "thrown"
    /\ UNCHANGED <<control, at, applicable, next, stack, paren,
                   states, pos, worked, grouped>>

\* A call of EvaluateBooleanOps.
Reduce(list, group) ==
    /\ states' = list
    /\ grouped' = group
    /\ loop' = "not"
    /\ pos' = 1
    /\ worked' = FALSE

Reading == loop = "read" /\ next <= Len(tokens)

PushToken ==
    /\ Reading
    /\ tokens[next] \notin {")", "error"}
    /\ stack' = Append(stack, tokens[next])
    /\ paren' = IF tokens[next] = "(" THEN paren + 1 ELSE paren
    /\ next' = next + 1
    /\ UNCHANGED <<control, at, applicable, loop, states, pos, worked, grouped>>

BadToken ==
    /\ Reading
    /\ tokens[next] = "error"
    /\ Throw

UnmatchedClose ==
    /\ Reading
    /\ tokens[next] = ")"
    /\ paren = 0
    /\ Throw

\* The group is popped from the top, each element put behind the one before.
Backwards(s) == [i \in 1..Len(s) |-> s[Len(s) + 1 - i]]

\* Everything above the open parenthesis at o leaves the stack, and it too.
CloseGroup ==
    /\ Reading
    /\ tokens[next] = ")"
    /\ paren # 0
    /\ \E o \in 1..Len(stack) :
        /\ stack[o] = "("
        /\ \A i \in o + 1..Len(stack) : stack[i] # "("
        /\ stack' = SubSeq(stack, 1, o - 1)
        /\ Reduce(Backwards(SubSeq(stack, o + 1, Len(stack))), TRUE)
    /\ paren' = paren - 1
    /\ next' = next + 1
    /\ UNCHANGED <<control, at, applicable>>

AllRead == loop = "read" /\ next > Len(tokens)

UnmatchedOpen ==
    /\ AllRead
    /\ paren # 0
    /\ Throw

\* Here the stack is emptied with push_front: the order is kept.
Finish ==
    /\ AllRead
    /\ paren = 0
    /\ stack' = <<>>
    /\ Reduce(stack, FALSE)
    /\ UNCHANGED <<control, at, applicable, next, paren>>

----------------------------------------------------------------------------
(* EvaluateBooleanOps: one action for a turn of one of its loops.           *)

InLoop(l) == loop = l /\ pos <= Len(states)
EndOf(l) == loop = l /\ pos > Len(states)

Evaluating == <<control, at, applicable, next, stack, paren, grouped>>

Negation(v) ==
    CASE v = "true" -> "false"
      [] v = "false" -> "true"
      [] OTHER -> v

\* mutant: each NOT is applied to the element after it
LastOfRunEach(n) == n = pos

\* A run of NOTs is erased and applied to whatever comes after it.
LastOfRun(n) ==
    /\ n \in pos..Len(states)
    /\ \A i \in pos..n : states[i] = "not"
    /\ n < Len(states) => states[n + 1] # "not"

Negate(n) ==
    LET odd == (n - pos) % 2 = 0
        argument == states[n + 1]
    IN  SubSeq(states, 1, pos - 1)
        \o <<IF odd THEN Negation(argument) ELSE argument>>
        \o SubSeq(states, n + 2, Len(states))

ApplyNot ==
    /\ InLoop("not")
    /\ \E n \in pos..Len(states) :
        /\ LastOfRun(n)
        /\ n < Len(states)
        /\ states' = Negate(n)
    /\ pos' = pos + 1
    /\ worked' = TRUE
    /\ UNCHANGED <<loop, Evaluating>>

NotWithoutArgument ==
    /\ InLoop("not")
    /\ LastOfRun(Len(states))
    /\ Throw

\* The values the two binary loops put in place of their first argument.
Conjunction(a, b) == IF a = "true" /\ b = "true" THEN "true" ELSE "false"
Disjunction(a, b) == IF a = "false" /\ b = "false" THEN "false" ELSE "true"
Combined(op, a, b) == IF op = "and" THEN Conjunction(a, b) ELSE Disjunction(a, b)

HasArguments(p) == p # 1 /\ p # Len(states)

\* The operator and its second argument are erased; what followed them is at
\* p then, and the loop's it++ steps over it.  When nothing followed, it++
\* increments end(), which in the std::list of libstdc++ and of libc++ is
\* the link to begin().
Shortened(p, v) == SubSeq(states, 1, p - 2) \o <<v>> \o SubSeq(states, p + 2, Len(states))
AfterErase(p) == IF p + 1 = Len(states) THEN 1 ELSE p + 1

ApplyBinary(op) ==
    /\ InLoop(op)
    /\ states[pos] = op
    /\ HasArguments(pos)
    /\ states' = Shortened(pos, Combined(op, states[pos - 1], states[pos + 1]))
    /\ pos' = AfterErase(pos)
    /\ worked' = TRUE
    /\ UNCHANGED <<loop, Evaluating>>

BinaryWithoutArgument(op) ==
    /\ InLoop(op)
    /\ states[pos] = op
    /\ ~HasArguments(pos)
    /\ Throw

StepOver ==
    /\ loop \in Operator
    /\ InLoop(loop)
    /\ states[pos] # loop
    /\ pos' = pos + 1
    /\ UNCHANGED <<loop, states, worked, Evaluating>>

\* mutant: the counts are not set back to 0
NextLoopNoReset ==
    /\ \/ EndOf("not") /\ loop' = "and"
       \/ EndOf("and") /\ loop' = "or"
       \/ EndOf("or") /\ worked /\ loop' = "not"
    /\ pos' = 1
    /\ UNCHANGED <<states, worked, Evaluating>>

\* NOT, then AND, then OR, and again as long as one of them did something.
NextLoop ==
    /\ \/ EndOf("not") /\ loop' = "and" /\ worked' = worked
       \/ EndOf("and") /\ loop' = "or" /\ worked' = worked
       \/ EndOf("or") /\ worked /\ loop' = "not" /\ worked' = FALSE
    /\ pos' = 1
    /\ UNCHANGED <<states, Evaluating>>

Reduced == EndOf("or") /\ ~worked

NothingLeft ==
    /\ Reduced
    /\ states = <<>>
    /\ Throw

\* What is left over without an operator is taken as joined by AND.
Result == IF \E i \in 1..Len(states) : states[i] = "false" THEN "false" ELSE "true"

GroupValue ==
    /\ Reduced
    /\ states # <<>>
    /\ grouped
    /\ stack' = Append(stack, Result)
    /\ loop' = "read"
    /\ UNCHANGED <<control, at, applicable, next, paren, states, pos, worked, grouped>>

----------------------------------------------------------------------------
(* GetApplicableStatements: the value of a condition ends its turn.         *)

ConditionValue ==
    /\ Reduced
    /\ states # <<>>
    /\ ~grouped
    /\ applicable' = IF Result = "true" THEN applicable \cup {at} ELSE applicable
    /\ IF at = Len(control)
       THEN /\ loop' = "done"
            /\ UNCHANGED <<at, next>>
       ELSE /\ loop' = "read"
            /\ at' = at + 1
            /\ next' = 1
    /\ UNCHANGED <<control, stack, paren, states, pos, worked, grouped>>

Stopped ==
    /\ loop \in {"done", "thrown"}
    /\ UNCHANGED vars

ReadStep == PushToken \/ BadToken \/ UnmatchedClose \/ CloseGroup \/ UnmatchedOpen \/ Finish
NotStep == ApplyNot \/ NotWithoutArgument
BinaryStep == \E op \in {"and", "or"} : ApplyBinary(op) \/ BinaryWithoutArgument(op)
ReturnStep == NothingLeft \/ GroupValue \/ ConditionValue

Next == ReadStep \/ NotStep \/ BinaryStep \/ StepOver \/ NextLoop \/ ReturnStep \/ Stopped

Spec == Init /\ [][Next]_vars
FairSpec == Spec /\ WF_vars(Next)

----------------------------------------------------------------------------
(* Properties.                                                              *)

\* The condition at n has got its value.
Valued(n) == n < at \/ (n = at /\ loop = "done")

\* The types of the state; the stack and the list under rewriting hold
\* neither a closing parenthesis nor an unknown token, and the list no
\* parenthesis at all.
ConditionTypeOK ==
    /\ control \in Seq(Seq(Token))
    /\ at \in 1..Len(control)
    /\ applicable \subseteq 1..at
    /\ next \in 1..Len(tokens) + 1
    /\ stack \in Seq(Value \cup Operator \cup {"("})
    /\ paren \in Nat
    /\ loop \in {"read", "done", "thrown"} \cup Operator
    /\ states \in Seq(Value \cup Operator)
    /\ pos \in 1..Len(states) + 1
    /\ worked \in BOOLEAN
    /\ grouped \in BOOLEAN

\* paren_count counts the groups that are open: a closing parenthesis is
\* matched with one on the stack, and top() is never called on an empty
\* stack (l.160, l.165).
Opened == {i \in 1..Len(stack) : stack[i] = "("}
GroupsOnStack == paren = Cardinality(Opened)

\* A block is only ever used or left out by a condition whose parentheses
\* match and whose tokens are all known; any other ends in the exception.
Occurrences(t, n, s) == Cardinality({i \in 1..n : s[i] = t})
Balanced(s) ==
    /\ \A n \in 1..Len(s) : Occurrences(")", n, s) <= Occurrences("(", n, s)
    /\ Occurrences(")", Len(s), s) = Occurrences("(", Len(s), s)
OnlyBalancedValued ==
    \A n \in 1..Len(control) : Valued(n) =>
        /\ Balanced(control[n])
        /\ \A i \in 1..Len(control[n]) : control[n][i] # "error"

\* The rewriting always comes to an end, although its loops erase under
\* their iterators and start over as long as they find work.
EvaluationEnds == <>(loop \in {"done", "thrown"})
============================================================================
