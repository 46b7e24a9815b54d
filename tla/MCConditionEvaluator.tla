----------------------- MODULE MCConditionEvaluator -----------------------
(* Instances of ConditionEvaluator, and the meaning of a condition taken    *)
(* apart step by step, against which ConditionMeaning is compared.          *)
EXTENDS ConditionMeaning

Atoms == {<<"true">>, <<"false">>}
Joined(l, op, r) == l \o <<op>> \o r
Group(s) == <<"(">> \o s \o <<")">>

----------------------------------------------------------------------------
(* The reference.  "order of precedence is NOT, then AND, then OR" (l.260), *)
(* and operands that merely follow one another are joined last (l.402).     *)

Depth(s, n) == Occurrences("(", n, s) - Occurrences(")", n - 1, s)
TopLevel(s) == {i \in 1..Len(s) : Depth(s, i) = 0}

EndsOperand(t) == t \in Value \cup {")"}
StartsOperand(t) == t \in Value \cup {"not", "("}

\* The last token of a group that is directly inside the condition counts as
\* top level for the token after it.
Juxtaposed(s) ==
    {i \in 1..Len(s) - 1 : /\ EndsOperand(s[i])
                           /\ StartsOperand(s[i + 1])
                           /\ Occurrences("(", i, s) = Occurrences(")", i, s)}
OperatorsAt(op, s) == {i \in TopLevel(s) : s[i] = op}

Least(S) == CHOOSE i \in S : \A j \in S : i <= j
LeftOf(i, s) == SubSeq(s, 1, i - 1)
RightOf(i, s) == SubSeq(s, i + 1, Len(s))

Known(v) == v \in Value

RECURSIVE Meaning(_)
Meaning(s) ==
    LET both(f(_, _), l, r) ==
            IF Known(Meaning(l)) /\ Known(Meaning(r)) THEN f(Meaning(l), Meaning(r)) ELSE "malformed"
        split(f(_, _), S) == LET i == Least(S) IN both(f, LeftOf(i, s), RightOf(i, s))
    IN  CASE s = <<>> -> "malformed"
          [] s # <<>> /\ Juxtaposed(s) # {} ->
                LET i == Least(Juxtaposed(s))
                IN  both(Conjunction, LeftOf(i + 1, s), RightOf(i, s))
          [] s # <<>> /\ Juxtaposed(s) = {} /\ OperatorsAt("or", s) # {} ->
                split(Disjunction, OperatorsAt("or", s))
          [] s # <<>> /\ Juxtaposed(s) = {} /\ OperatorsAt("or", s) = {}
                      /\ OperatorsAt("and", s) # {} ->
                split(Conjunction, OperatorsAt("and", s))
          [] OTHER ->
                CASE Head(s) = "not" -> IF Known(Meaning(Tail(s)))
                                        THEN Negation(Meaning(Tail(s)))
                                        ELSE "malformed"
                  [] Len(s) = 1 /\ s[1] \in Value -> s[1]
                  [] Len(s) > 2 /\ s[1] = "(" /\ s[Len(s)] = ")" ->
                        Meaning(SubSeq(s, 2, Len(s) - 1))
                  [] OTHER -> "malformed"

----------------------------------------------------------------------------
(* What the evaluator gets right: no NOT inside a group, and at one level   *)
(* no three operands joined by AND next to an OR.                           *)

NegatedInGroup(s) == \E i \in 1..Len(s) : s[i] = "not" /\ Depth(s, i) > 0
NextAbove(i, s) ==
    {j \in i + 1..Len(s) : /\ s[j] \in {"and", "or"}
                           /\ Depth(s, j) = Depth(s, i)
                           /\ \A k \in i..j : Depth(s, k) >= Depth(s, i)}
AndChain(s) ==
    \E i \in 1..Len(s) :
        /\ s[i] = "and"
        /\ NextAbove(i, s) # {}
        /\ s[Least(NextAbove(i, s))] = "and"
Mixed(s) == \E i \in 1..Len(s) : s[i] = "or"
Plain(s) == ~NegatedInGroup(s) /\ ~(AndChain(s) /\ Mixed(s))

----------------------------------------------------------------------------
\* Every list of up to four tokens.
AllShort == UNION {[1..n -> Token] : n \in 0..4}

Binary(A, B) == {Joined(l, op, r) : l \in A, op \in {"and", "or"}, r \in B}
Negated == {<<"not">> \o a : a \in Atoms} \cup {<<"not", "not">> \o a : a \in Atoms}
Pairs == Binary(Atoms, Atoms)
Groups == {Group(s) : s \in Pairs \cup Atoms}

\* Well-formed conditions with groups, negations and up to four operands.
Nested ==
    Binary(Groups, Atoms \cup Negated)
    \cup Binary(Negated, Groups)
    \cup {<<"not">> \o g : g \in Groups}
    \cup {Group(s) : s \in Binary(Groups, Atoms)}
    \cup {l \o r : l \in Atoms \cup Negated, r \in Groups}

\* Chains of four operands, and negations, to be put in a group.
Chains == Binary(Pairs, Pairs)
InnerNegations == Negated \cup Binary(Atoms, Negated) \cup Binary(Negated, Atoms)

Blocks == Nested \cup Chains \cup InnerNegations \cup {Group(c) : c \in InnerNegations}
MCCondition == AllShort \cup Blocks

\* A control file of one block, or of one that applies to every pass and
\* another.
MCControl ==
    {<<c>> : c \in MCCondition} \cup {<<a, c>> : a \in Atoms, c \in Nested}

----------------------------------------------------------------------------
\* Whatever means something when it is taken apart, and has neither a NOT in a
\* group nor such a chain, is simple, and means the same.
MeaningOf == [c \in MCCondition |-> Meaning(c)]
PlainOnes == {c \in MCCondition : Plain(c) /\ Known(MeaningOf[c])}

ASSUME ReferencesAgree ==
    /\ \A c \in PlainOnes : Simple(c)
    /\ \A c \in MCCondition : Simple(c) => ValueOf(Whole(c)) = MeaningOf[c]
============================================================================
