-------------------------- MODULE ConditionMeaning --------------------------
(* What a condition means, and that the evaluator finds it.  "order of      *)
(* precedence is NOT, then AND, then OR"                                    *)
(* (MHO_ControlConditionEvaluator.cc:260), and operands that merely follow  *)
(* one another are joined by AND last (l.402).  The meaning of a list       *)
(* without parentheses is said of the operands at once, without taking it   *)
(* apart; a group means what its value does in its place.                   *)
EXTENDS ConditionEvaluator

----------------------------------------------------------------------------
(* A list without parentheses.                                              *)

Operands(s) == {i \in 1..Len(s) : s[i] \in Value}

\* an operand that another one follows, or a negated one
Gaps(s) == {m \in 1..Len(s) - 1 : s[m] \in Value /\ s[m + 1] \in Value \cup {"not"}}
At(op, s) == {m \in 1..Len(s) : s[m] = op}

Between(m, i, j) == (i <= m /\ m < j) \/ (j <= m /\ m < i)
Crossed(S, i, j) == \E m \in S : Between(m, i, j)

\* the NOTs before the operand at i begin at k
NotsFrom(k, s, i) ==
    /\ \A m \in k..i - 1 : s[m] = "not"
    /\ k = 1 \/ s[k - 1] # "not"

Truth(s, i) == \E k \in 1..i : NotsFrom(k, s, i) /\ (s[i] = "true" <=> (i - k) % 2 = 0)

\* OR binds what no gap is between, AND what neither a gap nor an OR is between
Holds(s) ==
    \A i \in Operands(s) : \E j \in Operands(s) :
        /\ ~Crossed(Gaps(s), i, j)
        /\ \A k \in Operands(s) : Crossed(Gaps(s) \cup At("or", s), j, k) \/ Truth(s, k)

ValueOf(s) == IF Holds(s) THEN "true" ELSE "false"

WellFormed(s) ==
    /\ s # <<>>
    /\ \A i \in 1..Len(s) :
        /\ s[i] \in Value \cup Operator
        /\ s[i] \in Operator => i < Len(s) /\ s[i + 1] \in Value \cup {"not"}
        /\ s[i] \in {"and", "or"} => i > 1 /\ s[i - 1] \in Value

\* The loop over the ANDs steps over the one after each it applies, and the loop
\* over the ORs does not wait for it: three operands joined by AND next to an OR
\* may get another value.
Chained(s) == \E i, j \in At("and", s) : i < j /\ ~Crossed(At("or", s), i, j)
Straight(s) == WellFormed(s) /\ (Chained(s) => At("or", s) = {})

----------------------------------------------------------------------------
(* A condition.                                                             *)

Innermost(s) == {o \in At("(", s) : \A i \in o + 1..Len(s) : s[i] # "("}
Inside(s, o) == SubSeq(s, o + 1, Len(s))

\* what a token leaves of the tokens before it: a group is its value
Taken(s, t) ==
    IF t = ")" /\ Innermost(s) # {}
    THEN LET o == CHOOSE p \in Innermost(s) : TRUE
         IN  Append(SubSeq(s, 1, o - 1), ValueOf(Inside(s, o)))
    ELSE Append(s, t)

\* what is left of the first n tokens
Left(c) ==
    LET left[n \in 0..Len(c)] == IF n = 0 THEN <<>> ELSE Taken(left[n - 1], c[n])
    IN  left

Whole(c) == Left(c)[Len(c)]

\* Every group, and what is left in the end, is a list of known tokens that means
\* something and that the loops do not take apart in another way; no group has a
\* NOT in it, which would be applied after the group was reversed.
Simple(c) ==
    /\ \A n \in 1..Len(c) : c[n] # "error"
    /\ \A n \in 1..Len(c) : c[n] = ")" =>
        \E o \in Innermost(Left(c)[n - 1]) :
            /\ Straight(Inside(Left(c)[n - 1], o))
            /\ At("not", Inside(Left(c)[n - 1], o)) = {}
    /\ Straight(Whole(c))

----------------------------------------------------------------------------
\* A simple condition has exactly the value it means, whatever the loops erase and
\* in whatever order: a block is used iff its condition is true, and such a
\* condition never raises the exception.
ValuesAreMeanings ==
    \A n \in 1..Len(control) : Simple(control[n]) =>
        /\ Valued(n) => (n \in applicable <=> Holds(Whole(control[n])))
        /\ n = at => loop # "thrown"
============================================================================
