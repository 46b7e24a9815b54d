--------------------- MODULE ConditionEvaluatorProofs ---------------------
(* Proofs about ConditionEvaluator, for conditions of any length and any    *)
(* control file.                                                            *)
EXTENDS ConditionMeaning, TLAPS, FiniteSetTheorems, WellFoundedInduction

Listed == Value \cup Operator
Stacked == Listed \cup {"("}

----------------------------------------------------------------------------
(* Lists.                                                                   *)

LEMMA Concatenation ==
    ASSUME NEW S, NEW a \in Seq(S), NEW v \in S, NEW b \in Seq(S)
    PROVE  /\ a \o <<v>> \o b \in Seq(S)
           /\ Len(a \o <<v>> \o b) = Len(a) + 1 + Len(b)
<1>1. <<v>> \in Seq(S) /\ Len(<<v>>) = 1
  OBVIOUS
<1>2. <<v>> \o b \in Seq(S) /\ Len(<<v>> \o b) = 1 + Len(b)
  BY <1>1
<1>. QED
  BY <1>1, <1>2

LEMMA Parts ==
    ASSUME NEW S, NEW s \in Seq(S), NEW m \in 1..Len(s) + 1, NEW n \in 0..Len(s), m <= n + 1
    PROVE  /\ SubSeq(s, m, n) \in Seq(S)
           /\ Len(SubSeq(s, m, n)) = n + 1 - m
           /\ \A i \in 1..n + 1 - m : SubSeq(s, m, n)[i] = s[m + i - 1]
OBVIOUS

LEMMA Retyped ==
    ASSUME NEW S, NEW T, NEW s \in Seq(S), \A i \in 1..Len(s) : s[i] \in T
    PROVE  s \in Seq(T)
OBVIOUS

LEMMA Reversal ==
    ASSUME NEW S, NEW s \in Seq(S)
    PROVE  Backwards(s) \in Seq(S) /\ Len(Backwards(s)) = Len(s)
<1>1. Backwards(s) \in [1..Len(s) -> S]
  BY DEF Backwards
<1>. QED
  BY <1>1

\* The values that take the place of an operator and its arguments.
LEMMA NegationTyped == ASSUME NEW v \in Listed PROVE Negation(v) \in Listed
BY DEF Negation, Listed, Value, Operator

LEMMA NegateTyped ==
    ASSUME states \in Seq(Listed), pos \in 1..Len(states),
           NEW n \in pos..Len(states), n < Len(states)
    PROVE  Negate(n) \in Seq(Listed) /\ Len(Negate(n)) = Len(states) - (n + 1 - pos)
<1> DEFINE v == IF (n - pos) % 2 = 0 THEN Negation(states[n + 1]) ELSE states[n + 1]
           a == SubSeq(states, 1, pos - 1)
           b == SubSeq(states, n + 2, Len(states))
<1>1. states[n + 1] \in Listed
  OBVIOUS
<1>2. v \in Listed
  BY <1>1, NegationTyped
<1>3. a \in Seq(Listed) /\ Len(a) = pos - 1
  BY Parts
<1>4. b \in Seq(Listed) /\ Len(b) = Len(states) - (n + 1)
  <2>1. n + 2 \in 1..Len(states) + 1 /\ n + 2 <= Len(states) + 1
    OBVIOUS
  <2>. QED
    BY <2>1, Parts
<1>5. Negate(n) = a \o <<v>> \o b
  BY DEF Negate
<1> HIDE DEF v, a, b
<1>6. /\ a \o <<v>> \o b \in Seq(Listed)
      /\ Len(a \o <<v>> \o b) = Len(a) + 1 + Len(b)
  BY <1>2, <1>3, <1>4, Concatenation
<1>7. (pos - 1) + 1 + (Len(states) - (n + 1)) = Len(states) - (n + 1 - pos)
  OBVIOUS
<1>. QED
  BY <1>3, <1>4, <1>5, <1>6, <1>7

LEMMA ShortenedTyped ==
    ASSUME states \in Seq(Listed), NEW p \in 1..Len(states), HasArguments(p), NEW v \in Listed
    PROVE  Shortened(p, v) \in Seq(Listed) /\ Len(Shortened(p, v)) = Len(states) - 2
<1> DEFINE a == SubSeq(states, 1, p - 2)
           b == SubSeq(states, p + 2, Len(states))
<1>0. p > 1 /\ p < Len(states)
  BY DEF HasArguments
<1>1. a \in Seq(Listed) /\ Len(a) = p - 2
  BY <1>0, Parts
<1>2. b \in Seq(Listed) /\ Len(b) = Len(states) - (p + 1)
  <2>1. p + 2 \in 1..Len(states) + 1 /\ p + 2 <= Len(states) + 1
    BY <1>0
  <2>. QED
    BY <2>1, Parts
<1>3. Shortened(p, v) = a \o <<v>> \o b
  BY DEF Shortened
<1> HIDE DEF a, b
<1>4. /\ a \o <<v>> \o b \in Seq(Listed)
      /\ Len(a \o <<v>> \o b) = Len(a) + 1 + Len(b)
  BY <1>1, <1>2, Concatenation
<1>5. (p - 2) + 1 + (Len(states) - (p + 1)) = Len(states) - 2
  OBVIOUS
<1>. QED
  BY <1>1, <1>2, <1>3, <1>4, <1>5

LEMMA CombinedTyped == ASSUME NEW op, NEW a, NEW b PROVE Combined(op, a, b) \in Listed
BY DEF Combined, Conjunction, Disjunction, Listed, Value

LEMMA ResultTyped == Result \in Stacked
BY DEF Result, Stacked, Listed, Value

----------------------------------------------------------------------------
(* Types.                                                                   *)

LEMMA Tokens == ASSUME ConditionTypeOK PROVE tokens \in Seq(Token) /\ Len(tokens) \in Nat
BY DEF ConditionTypeOK, tokens

LEMMA OneStep ==
    ASSUME Next
    PROVE  \/ PushToken \/ CloseGroup \/ Finish \/ ApplyNot
           \/ \E op \in {"and", "or"} : ApplyBinary(op)
           \/ StepOver \/ NextLoop \/ GroupValue \/ ConditionValue
           \/ Throw
           \/ UNCHANGED vars
BY DEF Next, ReadStep, NotStep, BinaryStep, ReturnStep, BadToken, UnmatchedClose,
       UnmatchedOpen, NotWithoutArgument, BinaryWithoutArgument, NothingLeft, Stopped

\* What CloseGroup takes off the stack.
LEMMA GroupTaken ==
    ASSUME ConditionTypeOK, CloseGroup
    PROVE  \E o \in 1..Len(stack) :
              /\ stack[o] = "("
              /\ \A i \in o + 1..Len(stack) : stack[i] # "("
              /\ stack' = SubSeq(stack, 1, o - 1)
              /\ states' \in Seq(Listed)
<1>1. PICK o \in 1..Len(stack) :
        /\ stack[o] = "("
        /\ \A i \in o + 1..Len(stack) : stack[i] # "("
        /\ stack' = SubSeq(stack, 1, o - 1)
        /\ states' = Backwards(SubSeq(stack, o + 1, Len(stack)))
  BY DEF CloseGroup, Reduce
<1> DEFINE above == SubSeq(stack, o + 1, Len(stack))
<1>2. stack \in Seq(Stacked) /\ o + 1 \in 1..Len(stack) + 1 /\ o + 1 <= Len(stack) + 1
  BY DEF ConditionTypeOK, Stacked, Listed
<1>3. /\ above \in Seq(Stacked)
      /\ Len(above) = Len(stack) - o
      /\ \A i \in 1..Len(stack) - o : above[i] = stack[o + i]
  <2>1. /\ above \in Seq(Stacked)
        /\ Len(above) = Len(stack) + 1 - (o + 1)
        /\ \A i \in 1..Len(stack) + 1 - (o + 1) : above[i] = stack[(o + 1) + i - 1]
    BY <1>2, Parts
  <2>. QED
    BY <1>2, <2>1
<1>4. \A i \in 1..Len(above) : above[i] \in Listed
  <2>1. TAKE i \in 1..Len(above)
  <2>2. above[i] = stack[o + i] /\ o + i \in o + 1..Len(stack)
    BY <1>2, <1>3
  <2>3. above[i] # "(" /\ above[i] \in Stacked
    BY <1>1, <1>2, <1>3, <2>2
  <2>. QED
    BY <2>3 DEF Stacked
<1> HIDE DEF above
<1>5. above \in Seq(Listed)
  BY <1>3, <1>4, Retyped
<1>6. states' \in Seq(Listed)
  BY <1>1, <1>5, Reversal DEF above
<1>. QED
  BY <1>1, <1>6

LEMMA OpenedFinite ==
    ASSUME ConditionTypeOK
    PROVE  IsFiniteSet(Opened) /\ Cardinality(Opened) \in Nat
<1>1. Len(stack) \in Nat /\ Opened \subseteq 1..Len(stack)
  BY DEF ConditionTypeOK, Opened
<1>2. IsFiniteSet(1..Len(stack))
  BY <1>1, FS_Interval
<1>3. IsFiniteSet(Opened)
  BY <1>1, <1>2, FS_Subset
<1>. QED
  BY <1>3, FS_CardinalityType

LEMMA NoneOpened ==
    ASSUME ConditionTypeOK, GroupsOnStack, paren = 0
    PROVE  stack \in Seq(Listed)
<1>1. Opened = {}
  BY OpenedFinite, FS_EmptySet DEF GroupsOnStack
<1>2. stack \in Seq(Stacked)
  BY DEF ConditionTypeOK, Stacked, Listed
<1>3. \A i \in 1..Len(stack) : stack[i] \in Listed
  BY <1>1, <1>2 DEF Opened, Stacked
<1>. QED
  BY <1>2, <1>3, Retyped

LEMMA Typing == ASSUME ConditionTypeOK, GroupsOnStack, [Next]_vars PROVE ConditionTypeOK'
<1>0. /\ control \in Seq(Seq(Token))
      /\ at \in 1..Len(control)
      /\ tokens \in Seq(Token)
      /\ applicable \subseteq 1..at
      /\ next \in 1..Len(tokens) + 1
      /\ stack \in Seq(Stacked)
      /\ paren \in Nat
      /\ loop \in {"read", "done", "thrown"} \cup Operator
      /\ states \in Seq(Listed)
      /\ pos \in 1..Len(states) + 1
      /\ worked \in BOOLEAN
      /\ grouped \in BOOLEAN
  BY Tokens DEF ConditionTypeOK, Stacked, Listed
<1> DEFINE Typed == /\ control' \in Seq(Seq(Token))
                    /\ at' \in 1..Len(control')
                    /\ applicable' \subseteq 1..at'
                    /\ next' \in 1..Len(tokens') + 1
                    /\ stack' \in Seq(Stacked)
                    /\ paren' \in Nat
                    /\ loop' \in {"read", "done", "thrown"} \cup Operator
                    /\ states' \in Seq(Listed)
                    /\ pos' \in 1..Len(states') + 1
                    /\ worked' \in BOOLEAN
                    /\ grouped' \in BOOLEAN
<1>1. SUFFICES Typed
  BY DEF ConditionTypeOK, Stacked, Listed
<1>2. ASSUME PushToken PROVE Typed
  <2>1. tokens[next] \in Stacked
    BY <1>0, <1>2 DEF PushToken, Reading, Token, Stacked, Listed
  <2>. QED
    BY <1>0, <1>2, <2>1, SMTT(30) DEF PushToken, Reading, tokens
<1>3. ASSUME CloseGroup PROVE Typed
  <2>1. stack' \in Seq(Stacked) /\ states' \in Seq(Listed)
    <3>1. PICK o \in 1..Len(stack) : stack' = SubSeq(stack, 1, o - 1) /\ states' \in Seq(Listed)
      BY <1>3, GroupTaken
    <3>. QED
      BY <1>0, <3>1, Parts
  <2>2. /\ paren' = paren - 1 /\ paren # 0
        /\ next' = next + 1 /\ next <= Len(tokens)
        /\ loop' = "not" /\ pos' = 1 /\ worked' = FALSE /\ grouped' = TRUE
        /\ UNCHANGED <<control, at, applicable>>
    BY <1>3 DEF CloseGroup, Reduce, Reading
  <2>3. 1 \in 1..Len(states') + 1
    BY <2>1
  <2>4. next' \in 1..Len(tokens') + 1
    BY <1>0, <2>2 DEF tokens
  <2>5. paren' \in Nat
    BY <1>0, <2>2
  <2>6. control' \in Seq(Seq(Token)) /\ at' \in 1..Len(control') /\ applicable' \subseteq 1..at'
    BY <1>0, <2>2
  <2>. QED
    BY <2>1, <2>2, <2>3, <2>4, <2>5, <2>6 DEF Operator
<1>4. ASSUME Finish PROVE Typed
  <2>1. stack' \in Seq(Stacked) /\ states' \in Seq(Listed)
    BY <1>4, NoneOpened DEF Finish, Reduce
  <2>2. 1 \in 1..Len(states') + 1
    BY <2>1
  <2>3. /\ loop' = "not" /\ pos' = 1 /\ worked' = FALSE /\ grouped' = FALSE
        /\ UNCHANGED <<control, at, applicable, next, paren>>
    BY <1>4 DEF Finish, Reduce
  <2>4. next' \in 1..Len(tokens') + 1
    BY <1>0, <2>3 DEF tokens
  <2>. QED
    BY <1>0, <2>1, <2>2, <2>3, <2>4 DEF Operator
<1>5. ASSUME ApplyNot PROVE Typed
  <2>1. PICK n \in pos..Len(states) : n < Len(states) /\ states' = Negate(n)
    BY <1>5 DEF ApplyNot
  <2>2. pos \in 1..Len(states)
    BY <1>0, <1>5 DEF ApplyNot, InLoop
  <2>3. states' \in Seq(Listed) /\ Len(states') = Len(states) - (n + 1 - pos)
    BY <1>0, <2>1, <2>2, NegateTyped
  <2>4. pos' \in 1..Len(states') + 1
    BY <1>0, <1>5, <2>1, <2>2, <2>3 DEF ApplyNot
  <2>. QED
    BY <1>0, <1>5, <2>3, <2>4 DEF ApplyNot, Evaluating, tokens
<1>6. ASSUME NEW op \in {"and", "or"}, ApplyBinary(op) PROVE Typed
  <2>1. pos \in 1..Len(states) /\ pos # 1 /\ pos # Len(states)
    BY <1>0, <1>6 DEF ApplyBinary, InLoop, HasArguments
  <2>2. states' \in Seq(Listed) /\ Len(states') = Len(states) - 2
    BY <1>0, <1>6, <2>1, CombinedTyped, ShortenedTyped DEF ApplyBinary
  <2>3. pos' \in 1..Len(states') + 1
    BY <1>0, <1>6, <2>1, <2>2, SMTT(30) DEF ApplyBinary, AfterErase
  <2>. QED
    BY <1>0, <1>6, <2>2, <2>3 DEF ApplyBinary, Evaluating, tokens
<1>7. ASSUME StepOver PROVE Typed
  <2>1. pos' \in 1..Len(states) + 1
    BY <1>0, <1>7 DEF StepOver, InLoop
  <2>. QED
    BY <1>0, <1>7, <2>1 DEF StepOver, Evaluating, tokens
<1>8. ASSUME NextLoop PROVE Typed
  <2>1. loop' \in Operator /\ worked' \in BOOLEAN /\ pos' = 1
    BY <1>0, <1>8 DEF NextLoop, Operator
  <2>. QED
    BY <1>0, <1>8, <2>1 DEF NextLoop, Evaluating, tokens
<1>9. ASSUME GroupValue PROVE Typed
  <2>1. stack' \in Seq(Stacked)
    BY <1>0, <1>9, ResultTyped DEF GroupValue
  <2>. QED
    BY <1>0, <1>9, <2>1 DEF GroupValue, tokens
<1>10. ASSUME ConditionValue PROVE Typed
  <2>1. applicable' \subseteq 1..at
    BY <1>0, <1>10 DEF ConditionValue
  <2>2. CASE at = Len(control)
    BY <1>0, <1>10, <2>1, <2>2 DEF ConditionValue, tokens
  <2>3. CASE at # Len(control)
    <3>1. at' = at + 1 /\ at' \in 1..Len(control) /\ next' = 1
      BY <1>0, <1>10, <2>3 DEF ConditionValue
    <3>2. Len(tokens') \in Nat
      BY <1>0, <1>10, <3>1 DEF ConditionValue, tokens
    <3>3. applicable' \subseteq 1..at'
      BY <1>0, <2>1, <3>1
    <3>. QED
      BY <1>0, <1>10, <2>3, <3>1, <3>2, <3>3 DEF ConditionValue
  <2>. QED
    BY <2>2, <2>3
<1>11. ASSUME Throw PROVE Typed
  BY <1>0, <1>11 DEF Throw, tokens
<1>12. ASSUME UNCHANGED vars PROVE Typed
  BY <1>0, <1>12 DEF vars, tokens
<1>. QED
  BY <1>2, <1>3, <1>4, <1>5, <1>6, <1>7, <1>8, <1>9, <1>10, <1>11, <1>12, OneStep

----------------------------------------------------------------------------
(* The count of open groups.                                                *)

LEMMA PushCounted ==
    ASSUME ConditionTypeOK, NEW t \in Stacked, stack' = Append(stack, t)
    PROVE  Cardinality(Opened') = IF t = "(" THEN Cardinality(Opened) + 1 ELSE Cardinality(Opened)
<1>1. stack \in Seq(Stacked)
  BY DEF ConditionTypeOK, Stacked, Listed
<1>2. /\ Len(stack') = Len(stack) + 1
      /\ \A i \in 1..Len(stack) : stack'[i] = stack[i]
      /\ stack'[Len(stack) + 1] = t
  BY <1>1
<1>3. Opened' = IF t = "(" THEN Opened \cup {Len(stack) + 1} ELSE Opened
  BY <1>1, <1>2 DEF Opened
<1>4. Len(stack) + 1 \notin Opened
  BY <1>1 DEF Opened
<1>. QED
  BY <1>3, <1>4, OpenedFinite, FS_AddElement

LEMMA CloseCounted ==
    ASSUME ConditionTypeOK, NEW o \in 1..Len(stack), stack[o] = "(",
           \A i \in o + 1..Len(stack) : stack[i] # "(",
           stack' = SubSeq(stack, 1, o - 1)
    PROVE  Cardinality(Opened') = Cardinality(Opened) - 1
<1>1. stack \in Seq(Stacked)
  BY DEF ConditionTypeOK, Stacked, Listed
<1>2. Len(stack') = o - 1 /\ \A i \in 1..o - 1 : stack'[i] = stack[i]
  BY <1>1
<1>3. Opened' = Opened \ {o}
  <2>1. \A i \in Opened : i # o => i \in 1..o - 1
    BY <1>1 DEF Opened
  <2>2. Opened' = {i \in 1..o - 1 : stack[i] = "("}
    BY <1>2 DEF Opened
  <2>. QED
    BY <1>1, <2>1, <2>2 DEF Opened
<1>4. o \in Opened
  BY DEF Opened
<1>. QED
  BY <1>3, <1>4, OpenedFinite, FS_RemoveElement

LEMMA Counting == ASSUME ConditionTypeOK, GroupsOnStack, [Next]_vars PROVE GroupsOnStack'
<1>0. stack \in Seq(Stacked) /\ paren \in Nat
  BY DEF ConditionTypeOK, Stacked, Listed
<1>1. ASSUME UNCHANGED <<stack, paren>> PROVE GroupsOnStack'
  BY <1>1 DEF GroupsOnStack, Opened
<1>2. ASSUME PushToken PROVE GroupsOnStack'
  <2>1. tokens[next] \in Stacked
    BY <1>2, Tokens DEF ConditionTypeOK, PushToken, Reading, Token, Stacked, Listed
  <2>2. stack' = Append(stack, tokens[next])
    BY <1>2 DEF PushToken
  <2>3. paren' = IF tokens[next] = "(" THEN paren + 1 ELSE paren
    BY <1>2 DEF PushToken
  <2>4. Cardinality(Opened') = IF tokens[next] = "(" THEN Cardinality(Opened) + 1 ELSE Cardinality(Opened)
    BY <2>1, <2>2, PushCounted
  <2>. QED
    BY <2>3, <2>4 DEF GroupsOnStack
<1>3. ASSUME CloseGroup PROVE GroupsOnStack'
  <2>1. PICK o \in 1..Len(stack) :
          /\ stack[o] = "("
          /\ \A i \in o + 1..Len(stack) : stack[i] # "("
          /\ stack' = SubSeq(stack, 1, o - 1)
    BY <1>3, GroupTaken
  <2>2. Cardinality(Opened') = Cardinality(Opened) - 1
    BY <2>1, CloseCounted
  <2>3. paren' = paren - 1
    BY <1>3 DEF CloseGroup
  <2>. QED
    BY <2>2, <2>3 DEF GroupsOnStack
<1>4. ASSUME Finish PROVE GroupsOnStack'
  <2>1. Opened' = {} /\ paren' = 0
    BY <1>4 DEF Finish, Opened
  <2>. QED
    BY <2>1, FS_EmptySet DEF GroupsOnStack
<1>5. ASSUME GroupValue PROVE GroupsOnStack'
  <2>1. stack' = Append(stack, Result) /\ paren' = paren
    BY <1>5 DEF GroupValue
  <2>2. Result # "("
    BY DEF Result
  <2>3. Cardinality(Opened') = Cardinality(Opened)
    BY <2>1, <2>2, ResultTyped, PushCounted
  <2>. QED
    BY <2>1, <2>3 DEF GroupsOnStack
<1>6. ASSUME \/ ApplyNot \/ StepOver \/ NextLoop \/ ConditionValue \/ Throw \/ UNCHANGED vars
             \/ \E op \in {"and", "or"} : ApplyBinary(op)
      PROVE  GroupsOnStack'
  <2>1. UNCHANGED <<stack, paren>>
    BY <1>6 DEF ApplyNot, StepOver, NextLoop, ConditionValue, Throw, ApplyBinary, Evaluating, vars
  <2>. QED
    BY <1>1, <2>1
<1>. QED
  BY <1>2, <1>3, <1>4, <1>5, <1>6, OneStep

----------------------------------------------------------------------------
(* Balanced conditions.                                                     *)

\* The first n tokens of s are known, close nothing that is not open, and
\* leave d groups open.
BalancedUpTo(s, n, d) ==
    /\ d + Occurrences(")", n, s) = Occurrences("(", n, s)
    /\ \A i \in 1..n : Occurrences(")", i, s) <= Occurrences("(", i, s) /\ s[i] # "error"

ReadSoFar == BalancedUpTo(tokens, next - 1, paren)
WholeRead == (loop \in Operator /\ ~grouped) \/ loop = "done" => paren = 0 /\ next = Len(tokens) + 1
LastDone == loop = "done" => at = Len(control)
EarlierBalanced == \A n \in 1..at - 1 : BalancedUpTo(control[n], Len(control[n]), 0)

IInv ==
    /\ ConditionTypeOK
    /\ GroupsOnStack
    /\ ReadSoFar
    /\ WholeRead
    /\ LastDone
    /\ EarlierBalanced

LEMMA OccurrencesNat ==
    ASSUME NEW s, NEW t, NEW n \in Nat
    PROVE  IsFiniteSet({i \in 1..n : s[i] = t}) /\ Occurrences(t, n, s) \in Nat
<1>1. IsFiniteSet(1..n)
  BY FS_Interval
<1>2. IsFiniteSet({i \in 1..n : s[i] = t})
  BY <1>1, FS_Subset
<1>. QED
  BY <1>2, FS_CardinalityType DEF Occurrences

LEMMA OccurrencesZero == ASSUME NEW s, NEW t PROVE Occurrences(t, 0, s) = 0
<1>1. {i \in 1..0 : s[i] = t} = {}
  OBVIOUS
<1>. QED
  BY <1>1, FS_EmptySet DEF Occurrences

LEMMA OccurrencesStep ==
    ASSUME NEW s, NEW t, NEW n \in Nat
    PROVE  Occurrences(t, n + 1, s) =
             IF s[n + 1] = t THEN Occurrences(t, n, s) + 1 ELSE Occurrences(t, n, s)
<1> DEFINE I == {i \in 1..n : s[i] = t}
           J == {i \in 1..n + 1 : s[i] = t}
<1>1. J = IF s[n + 1] = t THEN I \cup {n + 1} ELSE I
  OBVIOUS
<1>2. n + 1 \notin I
  OBVIOUS
<1>3. IsFiniteSet(I)
  BY OccurrencesNat
<1>4. Occurrences(t, n + 1, s) = Cardinality(J) /\ Occurrences(t, n, s) = Cardinality(I)
  BY DEF Occurrences
<1> HIDE DEF I, J
<1>5. Cardinality(I \cup {n + 1}) = Cardinality(I) + 1
  BY <1>2, <1>3, FS_AddElement
<1>. QED
  BY <1>1, <1>4, <1>5

LEMMA BalancedStart == ASSUME NEW s PROVE BalancedUpTo(s, 0, 0)
BY OccurrencesZero DEF BalancedUpTo

\* One more token, which opens a group, closes one that is open, or neither.
LEMMA BalancedStep ==
    ASSUME NEW s, NEW n \in Nat, NEW d \in Nat, BalancedUpTo(s, n, d), s[n + 1] # "error",
           NEW e \in Nat,
           \/ s[n + 1] = "(" /\ e = d + 1
           \/ s[n + 1] = ")" /\ d # 0 /\ e = d - 1
           \/ s[n + 1] \notin {"(", ")"} /\ e = d
    PROVE  BalancedUpTo(s, n + 1, e)
<1> DEFINE open(i) == Occurrences("(", i, s)
           close(i) == Occurrences(")", i, s)
<1>1. open(n) \in Nat /\ close(n) \in Nat
  BY OccurrencesNat
<1>2. /\ open(n + 1) = IF s[n + 1] = "(" THEN open(n) + 1 ELSE open(n)
      /\ close(n + 1) = IF s[n + 1] = ")" THEN close(n) + 1 ELSE close(n)
  BY OccurrencesStep
<1>3. /\ d + close(n) = open(n)
      /\ \A i \in 1..n : close(i) <= open(i) /\ s[i] # "error"
  BY DEF BalancedUpTo
<1> HIDE DEF open, close
<1>4. e + close(n + 1) = open(n + 1) /\ close(n + 1) <= open(n + 1)
  BY <1>1, <1>2, <1>3
<1>5. \A i \in 1..n + 1 : close(i) <= open(i) /\ s[i] # "error"
  BY <1>3, <1>4
<1>. QED
  BY <1>4, <1>5 DEF BalancedUpTo, open, close

LEMMA InitHolds == Init => IInv
<1>. SUFFICES ASSUME Init PROVE IInv
  OBVIOUS
<1>1. control \in Seq(Condition) /\ Len(control) > 0
  BY ControlAssumption DEF Init
<1>2. control \in Seq(Seq(Token))
  <2>1. \A i \in 1..Len(control) : control[i] \in Seq(Token)
    BY <1>1, ControlAssumption
  <2>. QED
    BY <1>1, <2>1, Retyped
<1>3. tokens \in Seq(Token)
  BY <1>1, <1>2 DEF Init, tokens
<1>4. ConditionTypeOK
  <2>1. stack \in Seq(Value \cup Operator \cup {"("}) /\ states \in Seq(Value \cup Operator)
    BY DEF Init
  <2>2. pos \in 1..Len(states) + 1 /\ next \in 1..Len(tokens) + 1
    BY <1>3 DEF Init
  <2>3. at \in 1..Len(control) /\ applicable \subseteq 1..at
    BY <1>1 DEF Init
  <2>4. paren \in Nat /\ loop \in {"read", "done", "thrown"} \cup Operator
        /\ worked \in BOOLEAN /\ grouped \in BOOLEAN
    BY DEF Init
  <2>. QED
    BY <1>2, <2>1, <2>2, <2>3, <2>4 DEF ConditionTypeOK
<1>5. GroupsOnStack
  <2>1. Opened = {} /\ paren = 0
    BY DEF Init, Opened
  <2>. QED
    BY <2>1, FS_EmptySet DEF GroupsOnStack
<1>6. ReadSoFar
  BY BalancedStart DEF Init, ReadSoFar
<1>7. WholeRead /\ LastDone /\ EarlierBalanced
  BY DEF Init, WholeRead, LastDone, EarlierBalanced, Operator
<1>. QED
  BY <1>4, <1>5, <1>6, <1>7 DEF IInv

LEMMA ReadingStep == ASSUME IInv, [Next]_vars PROVE ReadSoFar'
<1>0. /\ ConditionTypeOK
      /\ tokens \in Seq(Token)
      /\ next \in Nat \ {0}
      /\ paren \in Nat
  BY Tokens DEF IInv, ConditionTypeOK
<1>1. ASSUME UNCHANGED <<control, at, next, paren>> PROVE ReadSoFar'
  BY <1>1 DEF IInv, ReadSoFar, tokens
<1>2. ASSUME next' = next + 1, UNCHANGED <<control, at>>, tokens[next] # "error", paren' \in Nat,
             \/ tokens[next] = "(" /\ paren' = paren + 1
             \/ tokens[next] = ")" /\ paren # 0 /\ paren' = paren - 1
             \/ tokens[next] \notin {"(", ")"} /\ paren' = paren
      PROVE  ReadSoFar'
  <2>1. BalancedUpTo(tokens, next - 1, paren) /\ next - 1 \in Nat /\ (next - 1) + 1 = next
    BY <1>0 DEF IInv, ReadSoFar
  <2>2. BalancedUpTo(tokens, (next - 1) + 1, paren')
    BY <1>0, <1>2, <2>1, BalancedStep
  <2>3. tokens' = tokens /\ next' - 1 = next
    BY <1>0, <1>2 DEF tokens
  <2>. QED
    BY <2>1, <2>2, <2>3 DEF ReadSoFar
<1>3. ASSUME PushToken PROVE ReadSoFar'
  <2>1. /\ next' = next + 1
        /\ UNCHANGED <<control, at>>
        /\ tokens[next] \notin {")", "error"}
        /\ paren' = IF tokens[next] = "(" THEN paren + 1 ELSE paren
    BY <1>3 DEF PushToken
  <2>. QED
    BY <1>0, <1>2, <2>1
<1>4. ASSUME CloseGroup PROVE ReadSoFar'
  <2>1. /\ next' = next + 1
        /\ UNCHANGED <<control, at>>
        /\ tokens[next] = ")" /\ paren # 0 /\ paren' = paren - 1
    BY <1>4 DEF CloseGroup
  <2>. QED
    BY <1>0, <1>2, <2>1
<1>5. ASSUME ConditionValue PROVE ReadSoFar'
  <2>1. paren' = paren /\ paren = 0
    BY <1>5 DEF ConditionValue, Reduced, EndOf, IInv, WholeRead, Operator
  <2>2. CASE at = Len(control)
    BY <1>1, <1>5, <2>2 DEF ConditionValue
  <2>3. CASE at # Len(control)
    <3>1. next' = 1
      BY <1>5, <2>3 DEF ConditionValue
    <3>. QED
      BY <2>1, <3>1, BalancedStart DEF ReadSoFar
  <2>. QED
    BY <2>2, <2>3
<1>6. ASSUME \/ Finish \/ ApplyNot \/ StepOver \/ NextLoop \/ GroupValue \/ Throw \/ UNCHANGED vars
             \/ \E op \in {"and", "or"} : ApplyBinary(op)
      PROVE  ReadSoFar'
  <2>1. UNCHANGED <<control, at, next, paren>>
    BY <1>6 DEF Finish, ApplyNot, StepOver, NextLoop, GroupValue, Throw, ApplyBinary, Evaluating, vars
  <2>. QED
    BY <1>1, <2>1
<1>. QED
  BY <1>3, <1>4, <1>5, <1>6, OneStep

LEMMA WholeStep == ASSUME IInv, [Next]_vars PROVE WholeRead' /\ LastDone'
<1> DEFINE Goal == WholeRead' /\ LastDone'
<1>1. SUFFICES Goal
  OBVIOUS
<1>2. ASSUME PushToken \/ GroupValue PROVE Goal
  <2>1. loop' = "read"
    BY <1>2 DEF PushToken, Reading, GroupValue
  <2>. QED
    BY <2>1 DEF WholeRead, LastDone, Operator
<1>3. ASSUME CloseGroup PROVE Goal
  BY <1>3 DEF CloseGroup, Reduce, WholeRead, LastDone
<1>4. ASSUME Finish PROVE Goal
  <2>0. next \in 1..Len(tokens) + 1 /\ Len(tokens) \in Nat
    BY Tokens DEF IInv, ConditionTypeOK
  <2>1. paren' = 0 /\ next' = next /\ next = Len(tokens) + 1 /\ tokens' = tokens /\ loop' = "not"
    BY <1>4, <2>0 DEF Finish, AllRead, Reduce, tokens
  <2>. QED
    BY <2>1 DEF WholeRead, LastDone
<1>5. ASSUME \/ ApplyNot \/ StepOver \/ NextLoop \/ \E op \in {"and", "or"} : ApplyBinary(op)
      PROVE  Goal
  <2>1. UNCHANGED Evaluating /\ loop \in Operator /\ loop' \in Operator
    BY <1>5 DEF ApplyNot, StepOver, NextLoop, ApplyBinary, InLoop, EndOf, Operator
  <2>. QED
    BY <2>1 DEF Evaluating, IInv, WholeRead, LastDone, tokens, Operator
<1>6. ASSUME ConditionValue PROVE Goal
  <2>1. paren = 0 /\ next = Len(tokens) + 1 /\ paren' = paren /\ control' = control
    BY <1>6 DEF ConditionValue, Reduced, EndOf, IInv, WholeRead, Operator
  <2>2. CASE at = Len(control)
    <3>1. at' = at /\ next' = next
      BY <1>6, <2>2 DEF ConditionValue
    <3>. QED
      BY <2>1, <2>2, <3>1 DEF WholeRead, LastDone, tokens
  <2>3. CASE at # Len(control)
    <3>1. loop' = "read"
      BY <1>6, <2>3 DEF ConditionValue
    <3>. QED
      BY <3>1 DEF WholeRead, LastDone, Operator
  <2>. QED
    BY <2>2, <2>3
<1>7. ASSUME Throw PROVE Goal
  BY <1>7 DEF Throw, WholeRead, LastDone, Operator
<1>8. ASSUME UNCHANGED vars PROVE Goal
  BY <1>8 DEF vars, IInv, WholeRead, LastDone, tokens
<1>. QED
  BY <1>2, <1>3, <1>4, <1>5, <1>6, <1>7, <1>8, OneStep

LEMMA EarlierStep == ASSUME IInv, [Next]_vars PROVE EarlierBalanced'
<1>1. ASSUME ConditionValue, at # Len(control) PROVE EarlierBalanced'
  <2>1. at' = at + 1 /\ control' = control /\ at \in Nat
    BY <1>1 DEF ConditionValue, IInv, ConditionTypeOK
  <2>2. paren = 0 /\ next - 1 = Len(tokens)
    BY <1>1, Tokens DEF ConditionValue, Reduced, EndOf, IInv, WholeRead, Operator
  <2>3. BalancedUpTo(control[at], Len(control[at]), 0)
    BY <2>2 DEF IInv, ReadSoFar, tokens
  <2>4. \A n \in 1..at - 1 : BalancedUpTo(control[n], Len(control[n]), 0)
    BY DEF IInv, EarlierBalanced
  <2>5. \A n \in 1..at : BalancedUpTo(control[n], Len(control[n]), 0)
    BY <2>1, <2>3, <2>4
  <2>. QED
    BY <2>1, <2>5 DEF EarlierBalanced
<1>2. ASSUME UNCHANGED <<control, at>> PROVE EarlierBalanced'
  BY <1>2 DEF IInv, EarlierBalanced
<1>3. \/ ConditionValue /\ at # Len(control)
      \/ UNCHANGED <<control, at>>
  BY OneStep DEF PushToken, CloseGroup, Finish, ApplyNot, ApplyBinary, StepOver, NextLoop,
                 GroupValue, ConditionValue, Throw, Evaluating, vars
<1>. QED
  BY <1>1, <1>2, <1>3

\* The invariant holds throughout.
THEOREM Invariance == Spec => []IInv
<1>1. IInv /\ [Next]_vars => IInv'
  BY Typing, Counting, ReadingStep, WholeStep, EarlierStep DEF IInv
<1>. QED
  BY InitHolds, <1>1, PTL DEF Spec

\* The state is well typed: EvaluateBooleanOps is only ever given operands and
\* operators, and no iterator leaves its list.
THEOREM Typed == Spec => []ConditionTypeOK
<1>1. IInv => ConditionTypeOK
  BY DEF IInv
<1>. QED
  BY Invariance, <1>1, PTL

\* paren_count is the number of open parentheses on the stack, whatever the
\* condition: the stack is never read when it is empty.
THEOREM Counted == Spec => []GroupsOnStack
<1>1. IInv => GroupsOnStack
  BY DEF IInv
<1>. QED
  BY Invariance, <1>1, PTL

\* A condition gets a value only if its parentheses match and its tokens are
\* known.
THEOREM BalancedOnly == Spec => []OnlyBalancedValued
<1>1. IInv => OnlyBalancedValued
  <2>. SUFFICES ASSUME IInv, NEW n \in 1..Len(control), Valued(n)
                PROVE  /\ Balanced(control[n])
                       /\ \A i \in 1..Len(control[n]) : control[n][i] # "error"
    BY DEF OnlyBalancedValued
  <2>1. BalancedUpTo(control[n], Len(control[n]), 0)
    <3>1. CASE n < at
      <4>1. n \in 1..at - 1
        BY <3>1 DEF IInv, ConditionTypeOK
      <4>. QED
        BY <4>1 DEF IInv, EarlierBalanced
    <3>2. CASE n = at /\ loop = "done"
      BY <3>2, Tokens DEF IInv, WholeRead, ReadSoFar, tokens
    <3>. QED
      BY <3>1, <3>2 DEF Valued
  <2>2. Len(control[n]) \in Nat
    BY DEF IInv, ConditionTypeOK
  <2>3. /\ Occurrences(")", Len(control[n]), control[n]) \in Nat
        /\ Occurrences("(", Len(control[n]), control[n]) \in Nat
    BY <2>2, OccurrencesNat
  <2>. QED
    BY <2>1, <2>3 DEF BalancedUpTo, Balanced
<1>. QED
  BY Invariance, <1>1, PTL
----------------------------------------------------------------------------
(* The meaning of a list, when the list is rewritten.                       *)

\* Two positions are separated in one list as two others are in another, when what
\* may separate them corresponds.
LEMMA CrossingKept ==
    ASSUME NEW G, NEW H, NEW f, NEW i, NEW j, NEW k, NEW l,
           \A m \in H : f[m] \in G,
           \A g \in G : \E m \in H : f[m] = g,
           \A m \in H : Between(f[m], i, j) <=> Between(m, k, l)
    PROVE  Crossed(G, i, j) <=> Crossed(H, k, l)
BY Zenon DEF Crossed

\* The operands of s become those of t by h: one may come of several, which no gap
\* and no OR separates; it is true if these all are.
Conjoins(s, t, h) ==
    /\ \A i \in Operands(s) : h[i] \in Operands(t)
    /\ \A k \in Operands(t) : \E i \in Operands(s) : h[i] = k
    /\ \A i, j \in Operands(s) :
        /\ Crossed(Gaps(s), i, j) <=> Crossed(Gaps(t), h[i], h[j])
        /\ Crossed(Gaps(s) \cup At("or", s), i, j) <=> Crossed(Gaps(t) \cup At("or", t), h[i], h[j])
    /\ \A k \in Operands(t) :
        Truth(t, k) <=> \A i \in Operands(s) : h[i] = k => Truth(s, i)

LEMMA Conjoined == ASSUME NEW s, NEW t, NEW h, Conjoins(s, t, h) PROVE Holds(s) <=> Holds(t)
<1>0. /\ \A i \in Operands(s) : h[i] \in Operands(t)
      /\ \A k \in Operands(t) : \E i \in Operands(s) : h[i] = k
      /\ \A k \in Operands(t) :
           Truth(t, k) <=> \A i \in Operands(s) : h[i] = k => Truth(s, i)
  BY DEF Conjoins
<1> DEFINE apart(i, j) == Crossed(Gaps(s), i, j)
           apartT(i, j) == Crossed(Gaps(t), i, j)
           parted(i, j) == Crossed(Gaps(s) \cup At("or", s), i, j)
           partedT(i, j) == Crossed(Gaps(t) \cup At("or", t), i, j)
           good(j) == \A k \in Operands(s) : parted(j, k) \/ Truth(s, k)
           goodT(j) == \A k \in Operands(t) : partedT(j, k) \/ Truth(t, k)
<1>1. /\ Holds(s) <=> \A i \in Operands(s) : \E j \in Operands(s) : ~apart(i, j) /\ good(j)
      /\ Holds(t) <=> \A i \in Operands(t) : \E j \in Operands(t) : ~apartT(i, j) /\ goodT(j)
  BY Zenon DEF Holds
<1>2. \A i, j \in Operands(s) : /\ apart(i, j) <=> apartT(h[i], h[j])
                                /\ parted(i, j) <=> partedT(h[i], h[j])
  BY DEF Conjoins
<1> HIDE DEF apart, apartT, parted, partedT
<1>3. ASSUME NEW j \in Operands(s) PROVE good(j) <=> goodT(h[j])
  <2>1. ASSUME good(j), NEW k \in Operands(t) PROVE partedT(h[j], k) \/ Truth(t, k)
    <3>1. CASE \E i \in Operands(s) : h[i] = k /\ ~Truth(s, i)
      <4>1. PICK i \in Operands(s) : h[i] = k /\ ~Truth(s, i)
        BY <3>1
      <4>2. parted(j, i)
        BY <2>1, <4>1, Zenon
      <4>. QED
        BY <1>2, <4>1, <4>2, Zenon
    <3>2. CASE \A i \in Operands(s) : h[i] = k => Truth(s, i)
      BY <1>0, <3>2, Zenon
    <3>. QED
      BY <3>1, <3>2, Zenon
  <2>2. ASSUME goodT(h[j]), NEW i \in Operands(s) PROVE parted(j, i) \/ Truth(s, i)
    <3>1. h[i] \in Operands(t)
      BY <1>0
    <3>2. CASE partedT(h[j], h[i])
      BY <1>2, <3>2, Zenon
    <3>3. CASE Truth(t, h[i])
      BY <1>0, <3>1, <3>3, Zenon
    <3>. QED
      BY <2>2, <3>1, <3>2, <3>3, Zenon
  <2>. QED
    BY <2>1, <2>2, Zenon
<1> HIDE DEF good, goodT
<1>4. ASSUME Holds(s) PROVE Holds(t)
  <2> SUFFICES ASSUME NEW k \in Operands(t)
               PROVE  \E l \in Operands(t) : ~apartT(k, l) /\ goodT(l)
    BY <1>1, Zenon
  <2>1. PICK i \in Operands(s) : h[i] = k
    BY <1>0
  <2>2. PICK j \in Operands(s) : ~apart(i, j) /\ good(j)
    BY <1>1, <1>4, Zenon
  <2>3. h[j] \in Operands(t) /\ ~apartT(k, h[j]) /\ goodT(h[j])
    BY <1>0, <1>2, <1>3, <2>1, <2>2, Zenon
  <2>. QED
    BY <2>3
<1>5. ASSUME Holds(t) PROVE Holds(s)
  <2> SUFFICES ASSUME NEW i \in Operands(s)
               PROVE  \E j \in Operands(s) : ~apart(i, j) /\ good(j)
    BY <1>1, Zenon
  <2>1. PICK k \in Operands(t) : ~apartT(h[i], k) /\ goodT(k)
    BY <1>0, <1>1, <1>5, Zenon
  <2>2. PICK j \in Operands(s) : h[j] = k
    BY <1>0, <2>1, Zenon
  <2>3. ~apart(i, j) /\ good(j)
    BY <1>0, <1>2, <1>3, <2>1, <2>2, Zenon
  <2>. QED
    BY <2>3
<1>. QED
  BY <1>4, <1>5

\* The same when all operands are separated by gaps and ORs only: one operand is
\* then true if one of those is that it comes of.
Disjoins(s, t, h) ==
    /\ \A i \in Operands(s) : h[i] \in Operands(t)
    /\ \A k \in Operands(t) : \E i \in Operands(s) : h[i] = k
    /\ \A i, j \in Operands(s) :
        /\ Crossed(Gaps(s), i, j) <=> Crossed(Gaps(t), h[i], h[j])
        /\ Crossed(Gaps(s) \cup At("or", s), i, j) <=> i # j
    /\ \A i, j \in Operands(t) : Crossed(Gaps(t) \cup At("or", t), i, j) <=> i # j
    /\ \A k \in Operands(t) :
        Truth(t, k) <=> \E i \in Operands(s) : h[i] = k /\ Truth(s, i)

LEMMA Disjoined == ASSUME NEW s, NEW t, NEW h, Disjoins(s, t, h) PROVE Holds(s) <=> Holds(t)
<1>1. /\ \A i \in Operands(s) : h[i] \in Operands(t)
      /\ \A k \in Operands(t) : \E i \in Operands(s) : h[i] = k
      /\ \A k \in Operands(t) :
           Truth(t, k) <=> \E i \in Operands(s) : h[i] = k /\ Truth(s, i)
  BY DEF Disjoins
<1> DEFINE apart(i, j) == Crossed(Gaps(s), i, j)
           apartT(i, j) == Crossed(Gaps(t), i, j)
           parted(i, j) == Crossed(Gaps(s) \cup At("or", s), i, j)
           partedT(i, j) == Crossed(Gaps(t) \cup At("or", t), i, j)
<1>0. /\ Holds(s) <=> \A i \in Operands(s) : \E j \in Operands(s) :
                        ~apart(i, j) /\ \A k \in Operands(s) : parted(j, k) \/ Truth(s, k)
      /\ Holds(t) <=> \A i \in Operands(t) : \E j \in Operands(t) :
                        ~apartT(i, j) /\ \A k \in Operands(t) : partedT(j, k) \/ Truth(t, k)
  BY Zenon DEF Holds
<1>2. \A i, j \in Operands(s) : apart(i, j) <=> apartT(h[i], h[j])
  BY DEF Disjoins
<1>3. /\ \A i, j \in Operands(s) : parted(i, j) <=> i # j
      /\ \A i, j \in Operands(t) : partedT(i, j) <=> i # j
  BY DEF Disjoins
<1> HIDE DEF apart, apartT, parted, partedT
<1>4. /\ \A j \in Operands(s) : (\A k \in Operands(s) : parted(j, k) \/ Truth(s, k)) <=> Truth(s, j)
      /\ \A j \in Operands(t) : (\A k \in Operands(t) : partedT(j, k) \/ Truth(t, k)) <=> Truth(t, j)
  BY <1>3, Zenon
<1>5. /\ Holds(s) <=> \A i \in Operands(s) : \E j \in Operands(s) : ~apart(i, j) /\ Truth(s, j)
      /\ Holds(t) <=> \A i \in Operands(t) : \E j \in Operands(t) : ~apartT(i, j) /\ Truth(t, j)
  BY <1>0, <1>4, Zenon
<1>6. ASSUME Holds(s) PROVE Holds(t)
  <2> SUFFICES ASSUME NEW k \in Operands(t)
               PROVE  \E l \in Operands(t) : ~apartT(k, l) /\ Truth(t, l)
    BY <1>5, Zenon
  <2>1. PICK i \in Operands(s) : h[i] = k
    BY <1>1
  <2>2. PICK j \in Operands(s) : ~apart(i, j) /\ Truth(s, j)
    BY <1>5, <1>6, Zenon
  <2>3. h[j] \in Operands(t) /\ ~apartT(k, h[j]) /\ Truth(t, h[j])
    BY <1>1, <1>2, <2>1, <2>2, Zenon
  <2>. QED
    BY <2>3
<1>7. ASSUME Holds(t) PROVE Holds(s)
  <2> SUFFICES ASSUME NEW i \in Operands(s)
               PROVE  \E j \in Operands(s) : ~apart(i, j) /\ Truth(s, j)
    BY <1>5, Zenon
  <2>1. PICK k \in Operands(t) : ~apartT(h[i], k) /\ Truth(t, k)
    BY <1>1, <1>5, <1>7, Zenon
  <2>2. PICK j \in Operands(s) : h[j] = k /\ Truth(s, j)
    BY <1>1, <2>1, Zenon
  <2>3. ~apart(i, j)
    BY <1>1, <1>2, <2>1, <2>2, Zenon
  <2>. QED
    BY <2>2, <2>3
<1>. QED
  BY <1>6, <1>7

\* What an operand means depends on the NOTs before it only.
LEMMA TruthCarried ==
    ASSUME NEW s, NEW t, NEW a \in Nat, NEW b \in Nat, NEW l \in Nat \ {0},
           \A m \in 1..l : s[a + m] = t[b + m],
           a = 0 \/ s[a] # "not", b = 0 \/ t[b] # "not",
           Truth(s, a + l)
    PROVE  Truth(t, b + l)
<1>1. PICK k \in 1..a + l : /\ NotsFrom(k, s, a + l)
                            /\ s[a + l] = "true" <=> ((a + l) - k) % 2 = 0
  BY DEF Truth
<1>2. k >= a + 1
  BY <1>1 DEF NotsFrom
<1> DEFINE e == b + (k - a)
<1>3. e \in 1..b + l /\ (b + l) - e = (a + l) - k
  BY <1>2
<1>4. t[b + l] = s[a + l]
  OBVIOUS
<1>5. ASSUME NEW m \in e..(b + l) - 1 PROVE t[m] = "not"
  <2>1. m - b \in 1..l /\ b + (m - b) = m /\ a + (m - b) \in k..(a + l) - 1
    BY <1>2, <1>3
  <2>2. s[a + (m - b)] = t[m]
    BY <2>1
  <2>. QED
    BY <1>1, <2>1, <2>2 DEF NotsFrom
<1>6. e = 1 \/ t[e - 1] # "not"
  <2>1. CASE k = a + 1
    BY <2>1
  <2>2. CASE k > a + 1
    <3>1. (k - 1) - a \in 1..l /\ a + ((k - 1) - a) = k - 1 /\ b + ((k - 1) - a) = e - 1
      BY <1>2, <2>2
    <3>2. s[k - 1] = t[e - 1]
      BY <3>1
    <3>. QED
      BY <1>1, <2>2, <3>2 DEF NotsFrom
  <2>. QED
    BY <1>2, <2>1, <2>2
<1>7. NotsFrom(e, t, b + l)
  BY <1>5, <1>6 DEF NotsFrom
<1>8. t[b + l] = "true" <=> ((b + l) - e) % 2 = 0
  BY <1>1, <1>3, <1>4
<1> HIDE DEF e
<1>. QED
  BY <1>3, <1>7, <1>8 DEF Truth

LEMMA TruthKept ==
    ASSUME NEW s, NEW t, NEW a \in Nat, NEW b \in Nat, NEW l \in Nat \ {0},
           \A m \in 1..l : s[a + m] = t[b + m],
           a = 0 \/ s[a] # "not", b = 0 \/ t[b] # "not"
    PROVE  Truth(s, a + l) <=> Truth(t, b + l)
<1>1. Truth(s, a + l) => Truth(t, b + l)
  BY TruthCarried
<1>2. \A m \in 1..l : t[b + m] = s[a + m]
  OBVIOUS
<1>3. Truth(t, b + l) => Truth(s, a + l)
  BY <1>2, TruthCarried
<1>. QED
  BY <1>1, <1>3

\* The NOTs before an operand are the whole run of them.
LEMMA TruthOfRun ==
    ASSUME NEW s, NEW i \in Nat \ {0}, NEW k \in 1..i, NotsFrom(k, s, i)
    PROVE  Truth(s, i) <=> (s[i] = "true" <=> (i - k) % 2 = 0)
<1>1. ASSUME NEW e \in 1..i, NotsFrom(e, s, i) PROVE e = k
  <2>1. CASE e < k
    <3>1. k - 1 \in e..i - 1 /\ k # 1
      BY <2>1
    <3>. QED
      BY <1>1, <3>1 DEF NotsFrom
  <2>2. CASE k < e
    <3>1. e - 1 \in k..i - 1 /\ e # 1
      BY <2>2
    <3>. QED
      BY <1>1, <3>1 DEF NotsFrom
  <2>. QED
    BY <2>1, <2>2
<1>. QED
  BY <1>1 DEF Truth

\* An operand that has no NOT before it.
LEMMA TruthAlone ==
    ASSUME NEW s, NEW i \in Nat \ {0}, i = 1 \/ s[i - 1] # "not"
    PROVE  Truth(s, i) <=> s[i] = "true"
<1>1. NotsFrom(i, s, i) /\ i \in 1..i
  BY DEF NotsFrom
<1>2. (i - i) % 2 = 0
  OBVIOUS
<1>. QED
  BY <1>1, <1>2, TruthOfRun

----------------------------------------------------------------------------
(* The meaning of a list with few operators.                               *)

\* Without a NOT and an AND, a gap or an OR is between any two operands.
LEMMA AllParted ==
    ASSUME NEW s, Len(s) \in Nat, WellFormed(s), At("not", s) = {}, At("and", s) = {},
           NEW i \in Operands(s), NEW j \in Operands(s)
    PROVE  Crossed(Gaps(s) \cup At("or", s), i, j) <=> i # j
<1>1. ASSUME NEW k \in Operands(s), NEW l \in Operands(s), k < l
      PROVE  \E m \in Gaps(s) \cup At("or", s) : k <= m /\ m < l
  <2>1. k \in 1..Len(s) /\ l \in 1..Len(s) /\ k + 1 \in 1..Len(s) /\ s[k] \in Value /\ s[l] \in Value
    BY <1>1 DEF Operands
  <2>2. s[k + 1] \in Value \cup {"or"}
    BY <2>1 DEF WellFormed, At, Operator
  <2>3. CASE s[k + 1] \in Value
    BY <1>1, <2>1, <2>3 DEF Gaps
  <2>4. CASE s[k + 1] = "or"
    <3>1. k + 1 \in At("or", s) /\ k + 1 # l
      BY <2>1, <2>4 DEF At, Value
    <3>. QED
      BY <1>1, <2>1, <3>1
  <2>. QED
    BY <2>2, <2>3, <2>4
<1>2. i \in Nat /\ j \in Nat
  BY DEF Operands
<1>3. ASSUME i # j PROVE Crossed(Gaps(s) \cup At("or", s), i, j)
  BY <1>1, <1>2, <1>3 DEF Crossed, Between
<1>4. ~Crossed(Gaps(s) \cup At("or", s), i, i)
  BY <1>2 DEF Crossed, Between, Gaps, At
<1>. QED
  BY <1>3, <1>4

\* With no operator left, a list means that all its operands are true.
LEMMA NothingButValues ==
    ASSUME NEW s, Len(s) \in Nat, WellFormed(s), \A op \in Operator : At(op, s) = {}
    PROVE  Holds(s) <=> \A i \in 1..Len(s) : s[i] # "false"
<1>1. At("not", s) = {} /\ At("and", s) = {} /\ At("or", s) = {}
  BY DEF Operator
<1>2. \A i, j \in Operands(s) : Crossed(Gaps(s) \cup At("or", s), i, j) <=> i # j
  BY <1>1, AllParted
<1>3. \A i, j \in Operands(s) : Crossed(Gaps(s), i, j) <=> i # j
  <2>1. Gaps(s) \cup At("or", s) = Gaps(s)
    BY <1>1
  <2>. QED
    BY <1>2, <2>1
<1>4. Holds(s) <=> \A i \in Operands(s) : Truth(s, i)
  <2> DEFINE apart(i, j) == Crossed(Gaps(s), i, j)
             parted(i, j) == Crossed(Gaps(s) \cup At("or", s), i, j)
  <2>1. Holds(s) <=> \A i \in Operands(s) : \E j \in Operands(s) :
                        ~apart(i, j) /\ \A k \in Operands(s) : parted(j, k) \/ Truth(s, k)
    BY DEF Holds
  <2>2. \A i, j \in Operands(s) : (parted(i, j) <=> i # j) /\ (apart(i, j) <=> i # j)
    BY <1>2, <1>3
  <2> HIDE DEF apart, parted
  <2>. QED
    BY <2>1, <2>2, Zenon
<1>5. \A i \in 1..Len(s) : s[i] \in Value
  BY <1>1 DEF WellFormed, At, Operator
<1>6. Operands(s) = 1..Len(s)
  BY <1>5 DEF Operands
<1>7. ASSUME NEW i \in 1..Len(s) PROVE Truth(s, i) <=> s[i] # "false"
  <2>1. i = 1 \/ s[i - 1] # "not"
    BY <1>5 DEF Value
  <2>2. Truth(s, i) <=> s[i] = "true"
    BY <2>1, TruthAlone
  <2>. QED
    BY <1>5, <2>2 DEF Value
<1>. QED
  BY <1>4, <1>6, <1>7

----------------------------------------------------------------------------
(* A binary operator is erased with its arguments.                         *)

\* t is s with the operator at p and its arguments replaced by a value.
Erased(s, p, t) ==
    /\ p \in 1..Len(s)
    /\ s[p] \in {"and", "or"}
    /\ Len(t) = Len(s) - 2
    /\ \A i \in 1..p - 2 : t[i] = s[i]
    /\ t[p - 1] \in Value
    /\ \A i \in p..Len(t) : t[i] = s[i + 2]

\* Where an operand of s goes, and where a gap or an operator of t comes from.
Onto(p, x) == IF x < p THEN x ELSE x - 2
From(p, m) == IF m < p - 1 THEN m ELSE m + 2

\* A well-formed list stays one.
LEMMA ErasedForm ==
    ASSUME NEW s, Len(s) \in Nat, WellFormed(s), At("not", s) = {}, NEW p, NEW t, Erased(s, p, t)
    PROVE  /\ p \in 2..Len(s) - 1 /\ s[p - 1] \in Value /\ s[p + 1] \in Value
           /\ Len(t) \in Nat /\ WellFormed(t) /\ At("not", t) = {}
<1>1. p \in Nat /\ p > 1 /\ p < Len(s) /\ s[p - 1] \in Value /\ s[p + 1] \in Value
  BY SMTT(30) DEF Erased, WellFormed, Operator, At
<1>2. Len(t) \in Nat /\ Len(t) >= p - 1 /\ t # <<>>
  BY <1>1 DEF Erased
<1>3. ASSUME NEW i \in 1..Len(t)
      PROVE  /\ t[i] \in Value \cup {"and", "or"}
             /\ t[i] \in Operator => i < Len(t) /\ t[i + 1] \in Value \cup {"not"}
             /\ t[i] \in {"and", "or"} => i > 1 /\ t[i - 1] \in Value
  <2>1. CASE i < p - 1
    <3>1. i \in 1..Len(s) /\ t[i] = s[i] /\ i < Len(t)
      BY <1>1, <1>2, <2>1 DEF Erased
    <3>2. t[i + 1] \in Value \/ t[i + 1] = s[i + 1]
      BY <1>1, <2>1 DEF Erased
    <3>3. t[i] \in {"and", "or"} => i > 1 /\ s[i - 1] \in Value /\ t[i - 1] = s[i - 1]
      BY <1>1, <2>1, <3>1 DEF Erased, WellFormed
    <3>. QED
      BY <3>1, <3>2, <3>3 DEF WellFormed, At, Operator
  <2>2. CASE i = p - 1
    BY <2>2 DEF Erased, Value, Operator
  <2>3. CASE i > p - 1
    <3>1. i + 2 \in 1..Len(s) /\ t[i] = s[i + 2]
      BY <1>1, <2>3 DEF Erased
    <3>2. i < Len(t) => t[i + 1] = s[(i + 2) + 1]
      BY <1>1, <2>3 DEF Erased
    <3>3. t[i - 1] \in Value \/ t[i - 1] = s[(i + 2) - 1]
      <4>1. CASE i = p
        BY <4>1 DEF Erased
      <4>2. CASE i > p
        BY <1>1, <2>3, <4>2 DEF Erased
      <4>. QED
        BY <1>1, <2>3, <4>1, <4>2
    <3>4. (i + 2 < Len(s)) <=> (i < Len(t))
      BY DEF Erased
    <3>5. s[i + 2] \in Value \cup {"and", "or"}
      BY <3>1 DEF WellFormed, At, Operator
    <3>6. s[i + 2] \in Operator => i + 2 < Len(s) /\ s[(i + 2) + 1] \in Value \cup {"not"}
      BY <3>1 DEF WellFormed
    <3>7. s[i + 2] \in {"and", "or"} => s[(i + 2) - 1] \in Value
      BY <3>1 DEF WellFormed
    <3>. QED
      BY <1>1, <2>3, <3>1, <3>2, <3>3, <3>4, <3>5, <3>6, <3>7
  <2>. QED
    BY <1>1, <2>1, <2>2, <2>3
<1>4. WellFormed(t)
  BY <1>2, <1>3 DEF WellFormed, Operator
<1>5. At("not", t) = {}
  BY <1>3 DEF At, Value
<1>. QED
  BY <1>1, <1>2, <1>4, <1>5

\* The operands of s become those of t.
LEMMA ErasedOperands ==
    ASSUME NEW s, Len(s) \in Nat, WellFormed(s), At("not", s) = {}, NEW p, NEW t, Erased(s, p, t)
    PROVE  /\ \A i \in Operands(s) : Onto(p, i) \in Operands(t)
           /\ \A k \in Operands(t) : \E i \in Operands(s) : Onto(p, i) = k
           /\ \A i \in Operands(s) : i # p
<1>1. /\ p \in 2..Len(s) - 1 /\ s[p - 1] \in Value /\ s[p + 1] \in Value
      /\ Len(t) \in Nat
  BY ErasedForm
<1>2. ASSUME NEW i \in Operands(s) PROVE Onto(p, i) \in Operands(t) /\ i # p
  <2>1. i \in 1..Len(s) /\ s[i] \in Value
    BY DEF Operands
  <2>2. i # p
    BY <2>1 DEF Erased, Value
  <2>3. CASE i < p - 1
    BY <1>1, <2>1, <2>3 DEF Operands, Onto, Erased
  <2>4. CASE i = p - 1 \/ i = p + 1
    BY <1>1, <2>4 DEF Operands, Onto, Erased
  <2>5. CASE i > p + 1
    <3>1. i - 2 \in p..Len(t) /\ (i - 2) + 2 = i
      BY <1>1, <2>1, <2>5 DEF Erased
    <3>2. t[i - 2] = s[i]
      BY <3>1 DEF Erased
    <3>. QED
      BY <1>1, <2>1, <2>5, <3>1, <3>2 DEF Operands, Onto
  <2>. QED
    BY <1>1, <2>1, <2>2, <2>3, <2>4, <2>5
<1>3. ASSUME NEW k \in Operands(t) PROVE \E i \in Operands(s) : Onto(p, i) = k
  <2>1. k \in 1..Len(t) /\ t[k] \in Value
    BY DEF Operands
  <2>2. CASE k < p - 1
    <3>1. k \in Operands(s) /\ Onto(p, k) = k
      BY <1>1, <2>1, <2>2 DEF Operands, Onto, Erased
    <3>. QED
      BY <3>1
  <2>3. CASE k = p - 1
    <3>1. k \in Operands(s) /\ Onto(p, k) = k
      BY <1>1, <2>1, <2>3 DEF Operands, Onto, Erased
    <3>. QED
      BY <3>1
  <2>4. CASE k > p - 1
    <3>1. k + 2 \in Operands(s) /\ Onto(p, k + 2) = k
      BY <1>1, <2>1, <2>4 DEF Operands, Onto, Erased
    <3>. QED
      BY <3>1
  <2>. QED
    BY <1>1, <2>1, <2>2, <2>3, <2>4
<1>. QED
  BY <1>2, <1>3

\* What is between two operands stays between them.
LEMMA ErasedBetween ==
    ASSUME NEW p \in Nat, NEW m \in Nat, NEW i \in Nat, NEW j \in Nat, i # p, j # p
    PROVE  Between(From(p, m), i, j) <=> Between(m, Onto(p, i), Onto(p, j))
BY DEF Between, From, Onto

\* The gaps of s are those of t.
LEMMA ErasedGaps ==
    ASSUME NEW s, Len(s) \in Nat, WellFormed(s), At("not", s) = {}, NEW p, NEW t, Erased(s, p, t)
    PROVE  /\ \A m \in Gaps(t) : From(p, m) \in Gaps(s)
           /\ \A g \in Gaps(s) : \E m \in Gaps(t) : From(p, m) = g
<1>1. /\ p \in 2..Len(s) - 1 /\ s[p - 1] \in Value /\ s[p + 1] \in Value
      /\ Len(t) \in Nat
  BY ErasedForm
<1>2. ASSUME NEW m \in Gaps(t) PROVE From(p, m) \in Gaps(s)
  <2>1. m \in 1..Len(t) - 1 /\ t[m] \in Value /\ t[m + 1] \in Value \cup {"not"}
    BY DEF Gaps
  <2>2. CASE m < p - 1
    <3>1. t[m] = s[m] /\ (m + 1 = p - 1 \/ t[m + 1] = s[m + 1]) /\ From(p, m) = m
      BY <1>1, <2>1, <2>2 DEF Erased, From
    <3>. QED
      BY <1>1, <2>1, <2>2, <3>1 DEF Gaps
  <2>3. CASE m >= p - 1
    <3>1. t[m + 1] = s[(m + 2) + 1] /\ (m + 2 = p + 1 \/ t[m] = s[m + 2]) /\ From(p, m) = m + 2
      BY <1>1, <2>1, <2>3 DEF Erased, From
    <3>2. m + 2 \in 1..Len(s) - 1
      BY <1>1, <2>1, <2>3 DEF Erased
    <3>. QED
      BY <1>1, <2>1, <2>3, <3>1, <3>2 DEF Gaps
  <2>. QED
    BY <1>1, <2>1, <2>2, <2>3
<1>3. ASSUME NEW g \in Gaps(s) PROVE \E m \in Gaps(t) : From(p, m) = g
  <2>1. g \in 1..Len(s) - 1 /\ s[g] \in Value /\ s[g + 1] \in Value \cup {"not"}
    BY DEF Gaps
  <2>2. g # p /\ g # p - 1
    BY <1>1, <2>1 DEF Erased, Value
  <2>3. CASE g < p - 1
    <3>1. t[g] = s[g] /\ (g + 1 = p - 1 \/ t[g + 1] = s[g + 1]) /\ From(p, g) = g /\ g \in 1..Len(t) - 1
      BY <1>1, <2>1, <2>3 DEF Erased, From
    <3>2. g \in Gaps(t)
      BY <1>1, <2>1, <2>3, <3>1 DEF Gaps, Erased
    <3>. QED
      BY <3>1, <3>2
  <2>4. CASE g > p
    <3>1. g - 2 \in 1..Len(t) - 1 /\ From(p, g - 2) = g /\ g - 2 >= p - 1
      BY <1>1, <2>1, <2>4 DEF Erased, From
    <3>2. t[(g - 2) + 1] = s[((g - 2) + 1) + 2] /\ ((g - 2) + 1) + 2 = g + 1
      BY <1>1, <2>1, <3>1 DEF Erased
    <3>3. g - 2 = p - 1 \/ t[g - 2] = s[(g - 2) + 2]
      BY <1>1, <2>1, <3>1 DEF Erased
    <3>4. t[g - 2] \in Value
      BY <2>1, <3>3 DEF Erased
    <3>5. g - 2 \in Gaps(t)
      BY <2>1, <3>1, <3>2, <3>4 DEF Gaps
    <3>. QED
      BY <3>1, <3>5
  <2>. QED
    BY <1>1, <2>1, <2>2, <2>3, <2>4
<1>. QED
  BY <1>2, <1>3

\* The operators of another kind stay, each at its place.
LEMMA ErasedOthers ==
    ASSUME NEW s, Len(s) \in Nat, WellFormed(s), At("not", s) = {}, NEW p, NEW t, Erased(s, p, t),
           NEW op \in {"and", "or"}
    PROVE  /\ \A m \in At(op, t) : From(p, m) \in At(op, s)
           /\ \A g \in At(op, s) : g # p => \E m \in At(op, t) : From(p, m) = g
<1>1. /\ p \in 2..Len(s) - 1 /\ s[p - 1] \in Value /\ s[p + 1] \in Value
      /\ Len(t) \in Nat
  BY ErasedForm
<1>2. ASSUME NEW m \in At(op, t) PROVE From(p, m) \in At(op, s)
  <2>1. m \in 1..Len(t) /\ t[m] = op /\ m # p - 1
    BY DEF At, Erased, Value
  <2>. QED
    BY <1>1, <2>1 DEF At, Erased, From
<1>3. ASSUME NEW g \in At(op, s), g # p PROVE \E m \in At(op, t) : From(p, m) = g
  <2>1. g \in 1..Len(s) /\ s[g] = op /\ g # p - 1 /\ g # p + 1
    BY <1>1 DEF At, Value
  <2>2. CASE g < p - 1
    <3>1. g \in At(op, t) /\ From(p, g) = g
      BY <1>1, <2>1, <2>2 DEF At, Erased, From
    <3>. QED
      BY <3>1
  <2>3. CASE g > p + 1
    <3>1. g - 2 \in p..Len(t) /\ (g - 2) + 2 = g
      BY <1>1, <2>1, <2>3 DEF Erased
    <3>2. t[g - 2] = op
      BY <2>1, <3>1 DEF Erased
    <3>3. g - 2 \in At(op, t) /\ From(p, g - 2) = g
      BY <1>1, <3>1, <3>2 DEF At, From
    <3>. QED
      BY <3>3
  <2>. QED
    BY <1>1, <1>3, <2>1, <2>2, <2>3
<1>. QED
  BY <1>2, <1>3

\* In a list without NOTs an operand is what it says.
LEMMA ErasedTruth ==
    ASSUME NEW s, Len(s) \in Nat, WellFormed(s), At("not", s) = {}, NEW i \in Operands(s)
    PROVE  Truth(s, i) <=> s[i] = "true"
<1>1. i \in 1..Len(s)
  BY DEF Operands
<1>2. i = 1 \/ s[i - 1] # "not"
  BY <1>1 DEF At
<1>. QED
  BY <1>1, <1>2, TruthAlone

\* The sets of gaps, and of gaps and ORs when it is an AND that is erased, part
\* the same operands before and after.
LEMMA ErasedCrossed ==
    ASSUME NEW s, Len(s) \in Nat, WellFormed(s), At("not", s) = {}, NEW p, NEW t, Erased(s, p, t),
           NEW i \in Operands(s), NEW j \in Operands(s)
    PROVE  /\ Crossed(Gaps(s), i, j) <=> Crossed(Gaps(t), Onto(p, i), Onto(p, j))
           /\ s[p] = "and" =>
                (Crossed(Gaps(s) \cup At("or", s), i, j)
                   <=> Crossed(Gaps(t) \cup At("or", t), Onto(p, i), Onto(p, j)))
<1>1. p \in Nat /\ i \in Nat /\ j \in Nat /\ i # p /\ j # p
  BY ErasedForm, ErasedOperands DEF Operands
<1>2. Gaps(t) \subseteq Nat /\ At("or", t) \subseteq Nat
  BY DEF Gaps, At
<1> DEFINE H == Gaps(t) \cup At("or", t)
           f == [m \in H |-> From(p, m)]
<1>3. \A m \in H : f[m] = From(p, m)
  OBVIOUS
<1>4. \A m \in H : Between(f[m], i, j) <=> Between(m, Onto(p, i), Onto(p, j))
  <2>1. \A m \in H : m \in Nat
    BY <1>2
  <2>. QED
    BY <1>1, <1>3, <2>1, ErasedBetween
<1> HIDE DEF f
<1>5. /\ \A m \in Gaps(t) : f[m] \in Gaps(s)
      /\ \A g \in Gaps(s) : \E m \in Gaps(t) : f[m] = g
  BY <1>3, ErasedGaps
<1>6. Crossed(Gaps(s), i, j) <=> Crossed(Gaps(t), Onto(p, i), Onto(p, j))
  BY <1>4, <1>5, CrossingKept
<1>7. ASSUME s[p] = "and"
      PROVE  /\ \A m \in H : f[m] \in Gaps(s) \cup At("or", s)
             /\ \A g \in Gaps(s) \cup At("or", s) : \E m \in H : f[m] = g
  <2>1. /\ \A m \in At("or", t) : f[m] \in At("or", s)
        /\ \A g \in At("or", s) : \E m \in At("or", t) : f[m] = g
    <3>1. \A g \in At("or", s) : g # p
      BY <1>7 DEF At
    <3>. QED
      BY <1>3, <3>1, ErasedOthers
  <2>. QED
    BY <1>5, <2>1
<1> HIDE DEF H
<1>8. ASSUME s[p] = "and"
      PROVE  Crossed(Gaps(s) \cup At("or", s), i, j) <=> Crossed(H, Onto(p, i), Onto(p, j))
  BY <1>4, <1>7, <1>8, CrossingKept
<1>. QED
  BY <1>6, <1>8 DEF H

\* An AND is replaced by the conjunction of its arguments.
LEMMA AndErased ==
    ASSUME NEW s, Len(s) \in Nat, WellFormed(s), At("not", s) = {}, NEW p, NEW t, Erased(s, p, t),
           s[p] = "and", t[p - 1] = Conjunction(s[p - 1], s[p + 1])
    PROVE  Holds(s) <=> Holds(t)
<1>1. /\ p \in 2..Len(s) - 1 /\ s[p - 1] \in Value /\ s[p + 1] \in Value
      /\ Len(t) \in Nat /\ WellFormed(t) /\ At("not", t) = {}
  BY ErasedForm
<1> DEFINE h == [i \in Operands(s) |-> Onto(p, i)]
<1>2. \A i \in Operands(s) : h[i] = Onto(p, i)
  OBVIOUS
<1> HIDE DEF h
<1>3. ASSUME NEW k \in Operands(t)
      PROVE  Truth(t, k) <=> \A i \in Operands(s) : h[i] = k => Truth(s, i)
  <2>1. /\ Truth(t, k) <=> t[k] = "true"
        /\ \A i \in Operands(s) : Truth(s, i) <=> s[i] = "true"
    BY <1>1, ErasedTruth
  <2>2. k \in 1..Len(t) /\ t[k] \in Value
    BY DEF Operands
  <2>3. p - 1 \in Operands(s) /\ p + 1 \in Operands(s)
    BY <1>1 DEF Operands
  <2>4. CASE k = p - 1
    <3>1. \A i \in Operands(s) : h[i] = k <=> i = p - 1 \/ i = p + 1
      <4>1. \A i \in Operands(s) : i \in Nat /\ i # p
        BY ErasedOperands DEF Operands
      <4>. QED
        BY <1>1, <1>2, <2>4, <4>1 DEF Onto
    <3>2. t[k] = "true" <=> s[p - 1] = "true" /\ s[p + 1] = "true"
      BY <2>4 DEF Conjunction
    <3>. QED
      BY <2>1, <2>3, <3>1, <3>2, Zenon
  <2>5. CASE k # p - 1
    <3> DEFINE e == IF k < p THEN k ELSE k + 2
    <3>1. \A i \in Operands(s) : h[i] = k <=> i = e
      <4>1. \A i \in Operands(s) : i \in Nat /\ i # p
        BY ErasedOperands DEF Operands
      <4>. QED
        BY <1>1, <1>2, <2>2, <2>5, <4>1, SMTT(30) DEF Onto
    <3>2. t[k] = s[e] /\ e \in Operands(s)
      BY <1>1, <2>2, <2>5 DEF Erased, Operands
    <3> HIDE DEF e
    <3>. QED
      BY <2>1, <3>1, <3>2, Zenon
  <2>. QED
    BY <2>4, <2>5
<1>4. /\ \A i \in Operands(s) : h[i] \in Operands(t)
      /\ \A k \in Operands(t) : \E i \in Operands(s) : h[i] = k
  BY <1>2, ErasedOperands
<1>5. \A i, j \in Operands(s) :
        /\ Crossed(Gaps(s), i, j) <=> Crossed(Gaps(t), h[i], h[j])
        /\ Crossed(Gaps(s) \cup At("or", s), i, j) <=> Crossed(Gaps(t) \cup At("or", t), h[i], h[j])
  <2>1. TAKE i, j \in Operands(s)
  <2>2. h[i] = Onto(p, i) /\ h[j] = Onto(p, j)
    BY <1>2
  <2>3. /\ Crossed(Gaps(s), i, j) <=> Crossed(Gaps(t), Onto(p, i), Onto(p, j))
        /\ Crossed(Gaps(s) \cup At("or", s), i, j)
             <=> Crossed(Gaps(t) \cup At("or", t), Onto(p, i), Onto(p, j))
    BY ErasedCrossed
  <2>. QED
    BY <2>2, <2>3
<1>6. Conjoins(s, t, h)
  BY <1>3, <1>4, <1>5 DEF Conjoins
<1>. QED
  BY <1>6, Conjoined

\* An OR is replaced by the disjunction of its arguments, when no AND is left.
LEMMA OrErased ==
    ASSUME NEW s, Len(s) \in Nat, WellFormed(s), At("not", s) = {}, NEW p, NEW t, Erased(s, p, t),
           At("and", s) = {}, s[p] = "or", t[p - 1] = Disjunction(s[p - 1], s[p + 1])
    PROVE  Holds(s) <=> Holds(t)
<1>1. /\ p \in 2..Len(s) - 1 /\ s[p - 1] \in Value /\ s[p + 1] \in Value
      /\ Len(t) \in Nat /\ WellFormed(t) /\ At("not", t) = {}
  BY ErasedForm
<1>2. At("and", t) = {}
  BY ErasedOthers
<1> DEFINE h == [i \in Operands(s) |-> Onto(p, i)]
<1>3. \A i \in Operands(s) : h[i] = Onto(p, i)
  OBVIOUS
<1> HIDE DEF h
<1>4. ASSUME NEW k \in Operands(t)
      PROVE  Truth(t, k) <=> \E i \in Operands(s) : h[i] = k /\ Truth(s, i)
  <2>1. /\ Truth(t, k) <=> t[k] = "true"
        /\ \A i \in Operands(s) : Truth(s, i) <=> s[i] = "true"
    BY <1>1, ErasedTruth
  <2>2. k \in 1..Len(t) /\ t[k] \in Value
    BY DEF Operands
  <2>3. p - 1 \in Operands(s) /\ p + 1 \in Operands(s)
    BY <1>1 DEF Operands
  <2>4. CASE k = p - 1
    <3>1. \A i \in Operands(s) : h[i] = k <=> i = p - 1 \/ i = p + 1
      <4>1. \A i \in Operands(s) : i \in Nat /\ i # p
        BY ErasedOperands DEF Operands
      <4>. QED
        BY <1>1, <1>3, <2>4, <4>1 DEF Onto
    <3>2. t[k] = "true" <=> s[p - 1] = "true" \/ s[p + 1] = "true"
      BY <1>1, <2>4 DEF Disjunction, Value
    <3>. QED
      BY <2>1, <2>3, <3>1, <3>2, Zenon
  <2>5. CASE k # p - 1
    <3> DEFINE e == IF k < p THEN k ELSE k + 2
    <3>1. \A i \in Operands(s) : h[i] = k <=> i = e
      <4>1. \A i \in Operands(s) : i \in Nat /\ i # p
        BY ErasedOperands DEF Operands
      <4>. QED
        BY <1>1, <1>3, <2>2, <2>5, <4>1, SMTT(30) DEF Onto
    <3>2. t[k] = s[e] /\ e \in Operands(s)
      BY <1>1, <2>2, <2>5 DEF Erased, Operands
    <3> HIDE DEF e
    <3>. QED
      BY <2>1, <3>1, <3>2, Zenon
  <2>. QED
    BY <2>4, <2>5
<1>5. /\ \A i \in Operands(s) : h[i] \in Operands(t)
      /\ \A k \in Operands(t) : \E i \in Operands(s) : h[i] = k
  BY <1>3, ErasedOperands
<1>6. \A i, j \in Operands(s) : Crossed(Gaps(s), i, j) <=> Crossed(Gaps(t), h[i], h[j])
  <2>1. TAKE i, j \in Operands(s)
  <2>2. h[i] = Onto(p, i) /\ h[j] = Onto(p, j)
    BY <1>3
  <2>3. Crossed(Gaps(s), i, j) <=> Crossed(Gaps(t), Onto(p, i), Onto(p, j))
    BY ErasedCrossed
  <2>. QED
    BY <2>2, <2>3
<1>7. /\ \A i, j \in Operands(s) : Crossed(Gaps(s) \cup At("or", s), i, j) <=> i # j
      /\ \A i, j \in Operands(t) : Crossed(Gaps(t) \cup At("or", t), i, j) <=> i # j
  BY <1>1, <1>2, AllParted
<1>8. Disjoins(s, t, h)
  BY <1>4, <1>5, <1>6, <1>7 DEF Disjoins
<1>. QED
  BY <1>8, Disjoined

----------------------------------------------------------------------------
(* Chains.                                                                  *)

NoneUpTo(op, s, n) == \A i \in 1..n : s[i] # op

\* A chain of ANDs in the list that is left was one before.
LEMMA ChainKept ==
    ASSUME NEW s, NEW t, NEW f, Len(s) \in Nat,
           \A i \in At("and", t) : f[i] \in At("and", s),
           \A i, j \in At("and", t) : i # j => f[i] # f[j],
           \A g \in At("or", s) : \E m \in At("or", t) : f[m] = g,
           \A i, j \in At("and", t), m \in At("or", t) :
               Between(f[m], f[i], f[j]) => Between(m, i, j),
           Len(t) \in Nat, Chained(t)
    PROVE  Chained(s)
<1>1. PICK i \in At("and", t), j \in At("and", t) : i < j /\ ~Crossed(At("or", t), i, j)
  BY DEF Chained
<1>2. i # j
  BY <1>1 DEF At
<1>3. f[i] \in At("and", s) /\ f[j] \in At("and", s) /\ f[i] # f[j]
  BY <1>2
<1>4. ASSUME NEW g \in At("or", s) PROVE ~Between(g, f[i], f[j])
  <2>1. PICK m \in At("or", t) : f[m] = g
    OBVIOUS
  <2>2. ~Between(m, i, j)
    BY <1>1, Zenon DEF Crossed
  <2>. QED
    BY <2>1, <2>2, Zenon
<1>5. ~Crossed(At("or", s), f[i], f[j])
  BY <1>4 DEF Crossed
<1>6. ~Crossed(At("or", s), f[j], f[i])
  BY <1>4 DEF Crossed, Between
<1>7. f[i] \in Nat /\ f[j] \in Nat
  BY <1>3 DEF At
<1>8. f[i] < f[j] \/ f[j] < f[i]
  BY <1>3, <1>7
<1>. QED
  BY <1>3, <1>5, <1>6, <1>8, Zenon DEF Chained

\* An AND that is erased makes no chain where there was none.
LEMMA AndErasedStraight ==
    ASSUME NEW s, Len(s) \in Nat, Straight(s), At("not", s) = {}, NEW p, NEW t, Erased(s, p, t),
           s[p] = "and"
    PROVE  Straight(t) /\ (At("or", s) = {} => At("or", t) = {})
<1>1. WellFormed(s)
  BY DEF Straight
<1>2. p \in Nat /\ Len(t) \in Nat /\ WellFormed(t)
  BY <1>1, ErasedForm
<1> DEFINE H == At("and", t) \cup At("or", t)
           f == [m \in H |-> From(p, m)]
<1>3. \A m \in H : m \in Nat /\ f[m] = From(p, m) /\ f[m] \in Nat
  BY <1>2 DEF At, From
<1> HIDE DEF H, f
<1>4. ASSUME NEW m \in H, NEW i \in H
      PROVE  (m < i <=> f[m] < f[i]) /\ (m = i <=> f[m] = f[i])
  <2>1. m \in Nat /\ i \in Nat /\ f[m] = From(p, m) /\ f[i] = From(p, i)
    BY <1>3
  <2>. QED
    BY <1>2, <2>1 DEF From
<1>5. At("and", t) \subseteq H /\ At("or", t) \subseteq H
  BY DEF H
<1>6. \A i \in At("and", t) : f[i] \in At("and", s)
  BY <1>1, <1>3, <1>5, ErasedOthers
<1>7. /\ \A m \in At("or", t) : f[m] \in At("or", s)
      /\ \A g \in At("or", s) : \E m \in At("or", t) : f[m] = g
  <2>1. \A g \in At("or", s) : g # p
    BY DEF At
  <2>. QED
    BY <1>1, <1>3, <1>5, <2>1, ErasedOthers
<1>8. \A i, j \in At("and", t) : i # j => f[i] # f[j]
  BY <1>4, <1>5
<1>9. ASSUME NEW i \in At("and", t), NEW j \in At("and", t), NEW m \in At("or", t)
      PROVE  Between(f[m], f[i], f[j]) => Between(m, i, j)
  <2>1. /\ m < i <=> f[m] < f[i]
        /\ m < j <=> f[m] < f[j]
        /\ i < m <=> f[i] < f[m]
        /\ j < m <=> f[j] < f[m]
        /\ m = i <=> f[m] = f[i]
        /\ m = j <=> f[m] = f[j]
    BY <1>4, <1>5
  <2>2. /\ m \in Nat /\ i \in Nat /\ j \in Nat
        /\ f[m] \in Nat /\ f[i] \in Nat /\ f[j] \in Nat
    BY <1>3, <1>5
  <2>. QED
    BY <2>1, <2>2 DEF Between
<1>10. Chained(t) => Chained(s)
  BY <1>2, <1>6, <1>7, <1>8, <1>9, ChainKept
<1>11. At("or", s) = {} => At("or", t) = {}
  BY <1>7
<1>. QED
  BY <1>2, <1>10, <1>11 DEF Straight

\* Nor does an OR, when there is no AND.
LEMMA OrErasedStraight ==
    ASSUME NEW s, Len(s) \in Nat, Straight(s), At("not", s) = {}, NEW p, NEW t, Erased(s, p, t),
           s[p] = "or", At("and", s) = {}
    PROVE  Straight(t) /\ At("and", t) = {}
<1>1. WellFormed(s) /\ WellFormed(t)
  BY ErasedForm DEF Straight
<1>2. At("and", t) = {}
  BY <1>1, ErasedOthers
<1>. QED
  BY <1>1, <1>2 DEF Straight, Chained

\* The one after an AND that is erased is stepped over; in a list with an OR it is
\* not an AND.
LEMMA AndsErased ==
    ASSUME NEW s, Len(s) \in Nat, Straight(s), At("not", s) = {}, NEW p, NEW t, Erased(s, p, t),
           s[p] = "and", At("or", s) # {}, NoneUpTo("and", s, p - 1), p <= Len(t)
    PROVE  NoneUpTo("and", t, p)
<1>1. /\ WellFormed(s)
      /\ p \in 2..Len(s) - 1 /\ s[p - 1] \in Value /\ s[p + 1] \in Value
  BY ErasedForm DEF Straight
<1>2. p + 2 \in 1..Len(s) /\ t[p] = s[p + 2]
  BY <1>1 DEF Erased
<1>3. s[p + 2] # "and"
  <2>1. SUFFICES ASSUME s[p + 2] = "and" PROVE FALSE
    OBVIOUS
  <2>2. p \in At("and", s) /\ p + 2 \in At("and", s)
    BY <1>1, <1>2, <2>1 DEF At
  <2>3. ~Crossed(At("or", s), p, p + 2)
    <3>1. \A m \in At("or", s) : m \in Nat /\ m # p /\ m # p + 1
      BY <1>1 DEF At, Value
    <3>. QED
      BY <1>1, <3>1 DEF Crossed, Between
  <2>4. Chained(s)
    BY <1>1, <2>2, <2>3 DEF Chained
  <2>. QED
    BY <2>4 DEF Straight
<1>4. ASSUME NEW i \in 1..p PROVE t[i] # "and"
  <2>1. CASE i < p - 1
    BY <1>1, <2>1 DEF Erased, NoneUpTo
  <2>2. CASE i = p - 1
    BY <2>2 DEF Erased, Value
  <2>3. CASE i = p
    BY <1>2, <1>3, <2>3
  <2>. QED
    BY <1>1, <2>1, <2>2, <2>3
<1>. QED
  BY <1>4 DEF NoneUpTo

----------------------------------------------------------------------------
(* NOTs are erased and applied to what comes after them.                    *)

\* t is s with the NOTs from p to n applied to the value after them.
Negated(s, p, n, t) ==
    /\ p \in 1..Len(s)
    /\ n \in p..Len(s) - 1
    /\ \A m \in p..n : s[m] = "not"
    /\ s[n + 1] \in Value
    /\ NoneUpTo("not", s, p - 1)
    /\ Len(t) = Len(s) - (n + 1 - p)
    /\ \A i \in 1..p - 1 : t[i] = s[i]
    /\ t[p] = IF (n - p) % 2 = 0 THEN Negation(s[n + 1]) ELSE s[n + 1]
    /\ \A i \in p + 1..Len(t) : t[i] = s[i + (n + 1 - p)]

OntoNegated(p, d, x) == IF x < p THEN x ELSE x - d
FromNegated(p, d, m) == IF m < p THEN m ELSE m + d

\* A well-formed list stays one, and what has been passed has no NOT.
LEMMA NegatedForm ==
    ASSUME NEW s, Len(s) \in Nat, WellFormed(s), NEW p, NEW n, NEW t, Negated(s, p, n, t)
    PROVE  /\ p \in Nat \ {0} /\ n \in Nat /\ Len(t) \in Nat /\ p <= Len(t)
           /\ t[p] \in Value /\ WellFormed(t) /\ NoneUpTo("not", t, p)
<1> DEFINE d == n + 1 - p
<1>1. /\ p \in Nat /\ p >= 1 /\ n \in Nat /\ n >= p /\ n < Len(s) /\ d \in Nat /\ d >= 1
      /\ Len(t) = Len(s) - d /\ Len(t) \in Nat /\ p <= Len(t) /\ p + d = n + 1
  BY DEF Negated
<1>2. /\ \A i \in 1..p - 1 : t[i] = s[i]
      /\ \A i \in p + 1..Len(t) : t[i] = s[i + d]
  BY DEF Negated
<1>3. t[p] \in Value
  BY DEF Negated, Negation, Value
<1> HIDE DEF d
<1>4. ASSUME NEW i \in 1..Len(t)
      PROVE  /\ t[i] \in Value \cup Operator
             /\ t[i] \in Operator => i < Len(t) /\ t[i + 1] \in Value \cup {"not"}
             /\ t[i] \in {"and", "or"} => i > 1 /\ t[i - 1] \in Value
  <2>1. CASE i < p
    <3>1. i \in 1..Len(s) /\ t[i] = s[i] /\ i < Len(t)
      BY <1>1, <1>2, <2>1
    <3>2. t[i + 1] \in Value \/ t[i + 1] = s[i + 1]
      BY <1>1, <1>2, <1>3, <2>1
    <3>3. i > 1 => t[i - 1] = s[i - 1]
      BY <1>1, <1>2, <2>1
    <3>. QED
      BY <3>1, <3>2, <3>3 DEF WellFormed
  <2>2. CASE i = p
    BY <1>3, <2>2 DEF Value, Operator
  <2>3. CASE i > p
    <3>1. i + d \in 1..Len(s) /\ t[i] = s[i + d]
      BY <1>1, <1>2, <2>3
    <3>2. i < Len(t) => t[i + 1] = s[(i + d) + 1]
      BY <1>1, <1>2, <2>3
    <3>3. t[i - 1] \in Value \/ t[i - 1] = s[(i + d) - 1]
      <4>1. CASE i = p + 1
        BY <1>1, <1>3, <4>1
      <4>2. CASE i > p + 1
        <5>1. i - 1 \in p + 1..Len(t) /\ (i - 1) + d = (i + d) - 1
          BY <1>1, <4>2
        <5>. QED
          BY <1>2, <5>1
      <4>. QED
        BY <1>1, <2>3, <4>1, <4>2
    <3>4. (i + d < Len(s)) <=> (i < Len(t))
      BY <1>1
    <3>5. /\ s[i + d] \in Value \cup Operator
          /\ s[i + d] \in Operator => i + d < Len(s) /\ s[(i + d) + 1] \in Value \cup {"not"}
          /\ s[i + d] \in {"and", "or"} => s[(i + d) - 1] \in Value
      BY <3>1 DEF WellFormed
    <3>. QED
      BY <1>1, <2>3, <3>1, <3>2, <3>3, <3>4, <3>5, SMTT(30)
  <2>. QED
    BY <1>1, <2>1, <2>2, <2>3
<1>5. WellFormed(t)
  <2>1. t # <<>>
    BY <1>1
  <2>. QED
    BY <1>4, <2>1 DEF WellFormed
<1>6. NoneUpTo("not", t, p)
  BY <1>1, <1>2, <1>3 DEF NoneUpTo, Negated, Value
<1>. QED
  BY <1>1, <1>3, <1>5, <1>6

\* Negated, with the length of the run of NOTs for its end.
LEMMA NegatedParts ==
    ASSUME NEW s, Len(s) \in Nat, NEW p, NEW n, NEW t, Negated(s, p, n, t), NEW d, d = n + 1 - p
    PROVE  /\ p \in Nat /\ p >= 1 /\ n \in Nat /\ d \in Nat /\ d >= 1 /\ p + d = n + 1
           /\ p + d <= Len(s) /\ Len(t) = Len(s) - d /\ Len(t) \in Nat
           /\ \A i \in 1..p - 1 : t[i] = s[i]
           /\ t[p] \in Value /\ s[p + d] \in Value
           /\ \A i \in p + 1..Len(t) : t[i] = s[i + d]
           /\ \A m \in p..p + d - 1 : s[m] = "not"
<1>1. /\ p \in Nat /\ p >= 1 /\ n \in Nat /\ d \in Nat /\ d >= 1 /\ p + d = n + 1
      /\ p + d <= Len(s) /\ Len(t) = Len(s) - d
  BY DEF Negated
<1>2. Len(t) \in Nat
  BY <1>1
<1>3. t[p] \in Value
  BY DEF Negated, Negation, Value
<1>4. s[p + d] \in Value /\ \A m \in p..p + d - 1 : s[m] = "not"
  BY <1>1 DEF Negated
<1>5. /\ \A i \in 1..p - 1 : t[i] = s[i]
      /\ \A i \in p + 1..Len(t) : t[i] = s[i + d]
  BY DEF Negated
<1>. QED
  BY <1>1, <1>2, <1>3, <1>4, <1>5

\* The operands, the gaps and the operators correspond ...
LEMMA NegatedOperands ==
    ASSUME NEW s, Len(s) \in Nat, NEW p, NEW n, NEW t, Negated(s, p, n, t), NEW d, d = n + 1 - p
    PROVE  /\ \A i \in Operands(s) : i \notin p..p + d - 1 /\ OntoNegated(p, d, i) \in Operands(t)
           /\ \A k \in Operands(t) : \E i \in Operands(s) : OntoNegated(p, d, i) = k
<1>1. /\ p \in Nat /\ p >= 1 /\ d \in Nat /\ d >= 1
      /\ p + d <= Len(s) /\ Len(t) = Len(s) - d /\ Len(t) \in Nat
      /\ t[p] \in Value /\ s[p + d] \in Value
  BY NegatedParts
<1>2. /\ \A i \in 1..p - 1 : t[i] = s[i]
      /\ \A i \in p + 1..Len(t) : t[i] = s[i + d]
      /\ \A m \in p..p + d - 1 : s[m] = "not"
  BY NegatedParts, SMTT(30)
<1>3. ASSUME NEW i \in Operands(s) PROVE i \notin p..p + d - 1 /\ OntoNegated(p, d, i) \in Operands(t)
  <2>1. i \in 1..Len(s) /\ s[i] \in Value
    BY DEF Operands
  <2>2. i \notin p..p + d - 1
    BY <1>2, <2>1 DEF Value
  <2>3. CASE i < p
    BY <1>1, <1>2, <2>1, <2>3 DEF Operands, OntoNegated
  <2>4. CASE i = p + d
    <3>1. OntoNegated(p, d, i) = p
      BY <1>1, <2>4 DEF OntoNegated
    <3>. QED
      BY <1>1, <2>2, <3>1 DEF Operands
  <2>5. CASE i > p + d
    <3>1. i - d \in p + 1..Len(t) /\ (i - d) + d = i /\ OntoNegated(p, d, i) = i - d
      BY <1>1, <2>1, <2>5 DEF OntoNegated
    <3>2. t[i - d] = s[i]
      BY <1>2, <3>1
    <3>3. i - d \in 1..Len(t)
      BY <1>1, <3>1
    <3>. QED
      BY <2>1, <2>2, <3>1, <3>2, <3>3 DEF Operands
  <2>6. i < p \/ i = p + d \/ i > p + d
    <3>1. i \in Nat /\ p \in Nat /\ d \in Nat
      BY <1>1, <2>1
    <3>2. i >= p => i > p + d - 1
      BY <2>2, <3>1
    <3>. QED
      BY <3>1, <3>2
  <2>. QED
    BY <2>2, <2>3, <2>4, <2>5, <2>6, Zenon
<1>4. ASSUME NEW k \in Operands(t) PROVE \E i \in Operands(s) : OntoNegated(p, d, i) = k
  <2>1. k \in 1..Len(t) /\ t[k] \in Value
    BY DEF Operands
  <2>2. CASE k < p
    <3>1. k \in Operands(s) /\ OntoNegated(p, d, k) = k
      BY <1>1, <1>2, <2>1, <2>2 DEF Operands, OntoNegated
    <3>. QED
      BY <3>1
  <2>3. CASE k >= p
    <3>1. k + d \in 1..Len(s) /\ OntoNegated(p, d, k + d) = k
      BY <1>1, <2>1, <2>3 DEF OntoNegated
    <3>2. s[k + d] \in Value
      BY <1>1, <1>2, <2>1, <2>3
    <3>3. k + d \in Operands(s)
      BY <3>1, <3>2 DEF Operands
    <3>. QED
      BY <3>1, <3>3
  <2>. QED
    BY <1>1, <2>1, <2>2, <2>3
<1>. QED
  BY <1>3, <1>4

LEMMA NegatedBetween ==
    ASSUME NEW p \in Nat, NEW d \in Nat, NEW m \in Nat, NEW i \in Nat, NEW j \in Nat,
           i \notin p..p + d - 1, j \notin p..p + d - 1
    PROVE  Between(FromNegated(p, d, m), i, j) <=> Between(m, OntoNegated(p, d, i), OntoNegated(p, d, j))
BY DEF Between, FromNegated, OntoNegated

LEMMA NegatedGaps ==
    ASSUME NEW s, Len(s) \in Nat, NEW p, NEW n, NEW t, Negated(s, p, n, t), NEW d, d = n + 1 - p
    PROVE  /\ \A m \in Gaps(t) : FromNegated(p, d, m) \in Gaps(s)
           /\ \A g \in Gaps(s) : \E m \in Gaps(t) : FromNegated(p, d, m) = g
<1>1. /\ p \in Nat /\ p >= 1 /\ d \in Nat /\ d >= 1
      /\ p + d <= Len(s) /\ Len(t) = Len(s) - d /\ Len(t) \in Nat
      /\ t[p] \in Value /\ s[p + d] \in Value
  BY NegatedParts
<1>2. /\ \A i \in 1..p - 1 : t[i] = s[i]
      /\ \A i \in p + 1..Len(t) : t[i] = s[i + d]
      /\ \A m \in p..p + d - 1 : s[m] = "not"
  BY NegatedParts, SMTT(30)
<1>3. ASSUME NEW m \in Gaps(t) PROVE FromNegated(p, d, m) \in Gaps(s)
  <2>1. m \in 1..Len(t) - 1 /\ t[m] \in Value /\ t[m + 1] \in Value \cup {"not"}
    BY DEF Gaps
  <2>2. CASE m < p
    <3>1. t[m] = s[m] /\ FromNegated(p, d, m) = m /\ m \in 1..Len(s) - 1
      BY <1>1, <1>2, <2>1, <2>2 DEF FromNegated
    <3>2. s[m + 1] = t[m + 1] \/ s[m + 1] = "not"
      BY <1>1, <1>2, <2>1, <2>2, SMTT(30)
    <3>. QED
      BY <2>1, <3>1, <3>2 DEF Gaps
  <2>3. CASE m >= p
    <3>0. FromNegated(p, d, m) = m + d
      BY <2>1, <2>3, <1>1 DEF FromNegated
    <3>1. (m + 1) \in p + 1..Len(t) /\ (m + 1) + d = (m + d) + 1 /\ m + d \in 1..Len(s) - 1
      <4>1. m \in Nat /\ m >= 1 /\ m <= Len(t) - 1
        BY <1>1, <2>1
      <4>2. p \in Nat /\ d \in Nat /\ Len(t) = Len(s) - d
        BY <1>1
      <4>. QED
        BY <2>3, <4>1, <4>2, SMTT(30)
    <3>2. t[m + 1] = s[(m + d) + 1]
      BY <1>2, <3>1
    <3>3. s[m + d] \in Value
      <4>1. CASE m = p
        BY <1>1, <4>1
      <4>2. CASE m > p
        <5>1. m \in p + 1..Len(t)
          BY <1>1, <2>1, <4>2
        <5>2. t[m] = s[m + d]
          BY <1>2, <5>1
        <5>. QED
          BY <2>1, <5>2
      <4>. QED
        BY <1>1, <2>1, <2>3, <4>1, <4>2
    <3>. QED
      BY <2>1, <3>0, <3>1, <3>2, <3>3 DEF Gaps
  <2>. QED
    BY <1>1, <2>1, <2>2, <2>3
<1>4. ASSUME NEW g \in Gaps(s) PROVE \E m \in Gaps(t) : FromNegated(p, d, m) = g
  <2>1. g \in 1..Len(s) - 1 /\ s[g] \in Value /\ s[g + 1] \in Value \cup {"not"}
    BY DEF Gaps
  <2>2. g \notin p..p + d - 1
    BY <1>2, <2>1 DEF Value
  <2>3. CASE g < p
    <3>1. t[g] = s[g] /\ FromNegated(p, d, g) = g /\ g \in 1..Len(t) - 1
      BY <1>1, <1>2, <2>1, <2>3 DEF FromNegated
    <3>2. t[g + 1] = s[g + 1] \/ t[g + 1] \in Value
      BY <1>1, <1>2, <2>1, <2>3
    <3>3. g \in Gaps(t)
      BY <2>1, <3>1, <3>2 DEF Gaps
    <3>. QED
      BY <3>1, <3>3
  <2>4. CASE g >= p + d
    <3> DEFINE e == g - d
    <3>1. e \in Nat /\ e >= p /\ e + d = g
      BY <1>1, <2>1, <2>4, SMTT(30)
    <3>2. e <= Len(t) - 1
      <4>1. g <= Len(s) - 1
        BY <2>1
      <4>. QED
        BY <1>1, <2>1, <4>1
    <3> HIDE DEF e
    <3>3. e \in 1..Len(t) - 1 /\ e + 1 \in p + 1..Len(t) /\ (e + 1) + d = g + 1
      BY <1>1, <3>1, <3>2, SMTT(30)
    <3>4. FromNegated(p, d, e) = g
      BY <1>1, <3>1, SMTT(30) DEF FromNegated
    <3>5. t[e + 1] = s[g + 1]
      BY <1>2, <3>3
    <3>6. t[e] \in Value
      <4>1. CASE e = p
        BY <1>1, <4>1
      <4>2. CASE e > p
        <5>1. e \in p + 1..Len(t)
          BY <1>1, <3>3, <4>2
        <5>. QED
          BY <1>2, <2>1, <3>1, <5>1
      <4>. QED
        BY <1>1, <3>1, <4>1, <4>2
    <3>7. e \in Gaps(t)
      BY <2>1, <3>3, <3>5, <3>6 DEF Gaps
    <3>. QED
      BY <3>4, <3>7
  <2>. QED
    BY <1>1, <2>1, <2>2, <2>3, <2>4
<1>. QED
  BY <1>3, <1>4

LEMMA NegatedOthers ==
    ASSUME NEW s, Len(s) \in Nat, NEW p, NEW n, NEW t, Negated(s, p, n, t), NEW d, d = n + 1 - p,
           NEW op \in {"and", "or"}
    PROVE  /\ \A m \in At(op, t) : FromNegated(p, d, m) \in At(op, s)
           /\ \A g \in At(op, s) : \E m \in At(op, t) : FromNegated(p, d, m) = g
<1>1. /\ p \in Nat /\ p >= 1 /\ d \in Nat /\ d >= 1
      /\ p + d <= Len(s) /\ Len(t) = Len(s) - d /\ Len(t) \in Nat
      /\ t[p] \in Value /\ s[p + d] \in Value
  BY NegatedParts
<1>2. /\ \A i \in 1..p - 1 : t[i] = s[i]
      /\ \A i \in p + 1..Len(t) : t[i] = s[i + d]
      /\ \A m \in p..p + d - 1 : s[m] = "not"
  BY NegatedParts, SMTT(30)
<1>3. ASSUME NEW m \in At(op, t) PROVE FromNegated(p, d, m) \in At(op, s)
  <2>1. m \in 1..Len(t) /\ t[m] = op /\ m # p
    BY <1>1 DEF At, Value
  <2>2. CASE m < p
    BY <1>1, <1>2, <2>1, <2>2 DEF At, FromNegated
  <2>3. CASE m > p
    <3>1. m \in p + 1..Len(t) /\ m + d \in 1..Len(s) /\ FromNegated(p, d, m) = m + d
      BY <1>1, <2>1, <2>3 DEF FromNegated
    <3>. QED
      BY <1>2, <2>1, <3>1 DEF At
  <2>. QED
    BY <1>1, <2>1, <2>2, <2>3
<1>4. ASSUME NEW g \in At(op, s) PROVE \E m \in At(op, t) : FromNegated(p, d, m) = g
  <2>1. g \in 1..Len(s) /\ s[g] = op /\ g # p + d
    BY <1>1 DEF At, Value
  <2>2. g \notin p..p + d - 1
    BY <1>2, <2>1
  <2>3. CASE g < p
    <3>1. g \in At(op, t) /\ FromNegated(p, d, g) = g
      BY <1>1, <1>2, <2>1, <2>3 DEF At, FromNegated
    <3>. QED
      BY <3>1
  <2>4. CASE g > p + d
    <3>1. g - d \in p + 1..Len(t) /\ (g - d) + d = g /\ FromNegated(p, d, g - d) = g
      BY <1>1, <2>1, <2>4 DEF FromNegated
    <3>2. t[g - d] = s[g] /\ g - d \in 1..Len(t)
      <4>1. t[g - d] = s[(g - d) + d]
        BY <1>2, <3>1, SMTT(30)
      <4>2. p \in Nat
        BY <1>1
      <4>. QED
        BY <3>1, <4>1, <4>2
    <3>3. g - d \in At(op, t)
      BY <2>1, <3>2 DEF At
    <3>. QED
      BY <3>1, <3>3
  <2>5. g < p \/ g > p + d
    BY <1>1, <2>1, <2>2, SMTT(30)
  <2>. QED
    BY <2>3, <2>4, <2>5
<1>. QED
  BY <1>3, <1>4

\* ... and each operand is as true as it was.
LEMMA NegatedTruth ==
    ASSUME NEW s, Len(s) \in Nat, NEW p, NEW n, NEW t, Negated(s, p, n, t), NEW d, d = n + 1 - p,
           NEW i \in Operands(s)
    PROVE  Truth(s, i) <=> Truth(t, OntoNegated(p, d, i))
<1>1. /\ p \in Nat /\ p >= 1 /\ n \in Nat /\ d \in Nat /\ d >= 1 /\ p + d = n + 1
      /\ p + d <= Len(s) /\ Len(t) = Len(s) - d /\ Len(t) \in Nat
      /\ t[p] \in Value /\ s[p + d] \in Value
  BY NegatedParts
<1>2. /\ \A m \in 1..p - 1 : t[m] = s[m]
      /\ \A m \in p + 1..Len(t) : t[m] = s[m + d]
      /\ \A m \in p..p + d - 1 : s[m] = "not"
      /\ \A m \in 1..p - 1 : s[m] # "not"
  BY NegatedParts DEF Negated, NoneUpTo
<1>3. i \in 1..Len(s) /\ i \notin p..p + d - 1
  BY NegatedOperands DEF Operands
<1>4. CASE i < p
  <2>1. OntoNegated(p, d, i) = i /\ i \in Nat \ {0} /\ 0 + i = i
    BY <1>3, <1>4 DEF OntoNegated
  <2>2. ASSUME NEW m \in 1..i PROVE s[0 + m] = t[0 + m]
    <3>1. m \in 1..p - 1 /\ 0 + m = m
      BY <1>1, <1>3, <1>4
    <3>. QED
      BY <1>2, <3>1
  <2>3. Truth(s, 0 + i) <=> Truth(t, 0 + i)
    BY <2>1, <2>2, TruthKept
  <2>. QED
    BY <2>1, <2>3
<1>5. CASE i = p + d
  <2>1. OntoNegated(p, d, i) = p
    BY <1>1, <1>5 DEF OntoNegated
  <2>2. NotsFrom(p, s, i)
    BY <1>1, <1>2, <1>5 DEF NotsFrom
  <2>3. i - p = d /\ p \in 1..i /\ i \in Nat \ {0}
    BY <1>1, <1>5
  <2>4. Truth(s, i) <=> (s[i] = "true" <=> (i - p) % 2 = 0)
    BY <2>2, <2>3, TruthOfRun
  <2>5. p = 1 \/ t[p - 1] # "not"
    BY <1>1, <1>2
  <2>6. Truth(t, p) <=> t[p] = "true"
    BY <1>1, <2>5, TruthAlone
  <2>7. t[p] = IF (n - p) % 2 = 0 THEN Negation(s[i]) ELSE s[i]
    BY <1>1, <1>5 DEF Negated
  <2>8. d % 2 = 0 <=> (n - p) % 2 # 0
    BY <1>1
  <2>9. s[i] \in Value
    BY <1>1, <1>5
  <2>10. Negation(s[i]) = "true" <=> s[i] # "true"
    BY <2>9 DEF Negation, Value
  <2>. QED
    BY <2>1, <2>3, <2>4, <2>6, <2>7, <2>8, <2>10
<1>6. CASE i > p + d
  <2> DEFINE l == i - (p + d)
             a == p + d
  <2>1. l \in Nat \ {0} /\ a + l = i /\ p + l = OntoNegated(p, d, i)
    BY <1>1, <1>3, <1>6 DEF OntoNegated
  <2>2. ASSUME NEW m \in 1..l PROVE s[a + m] = t[p + m]
    <3>1. p + m \in p + 1..Len(t) /\ (p + m) + d = a + m
      BY <1>1, <1>3, <1>6
    <3>. QED
      BY <1>2, <3>1
  <2>3. s[a] # "not" /\ t[p] # "not"
    BY <1>1 DEF Value
  <2>4. a \in Nat /\ p \in Nat
    BY <1>1
  <2> HIDE DEF l, a
  <2>5. Truth(s, a + l) <=> Truth(t, p + l)
    BY <2>1, <2>2, <2>3, <2>4, TruthKept
  <2>. QED
    BY <2>1, <2>5
<1>. QED
  BY <1>1, <1>3, <1>4, <1>5, <1>6

\* NOTs are applied to the value after them.
LEMMA NotApplied ==
    ASSUME NEW s, Len(s) \in Nat, NEW p, NEW n, NEW t, Negated(s, p, n, t)
    PROVE  Holds(s) <=> Holds(t)
<1> DEFINE d == n + 1 - p
<1>1. p \in Nat /\ d \in Nat
  BY NegatedParts
<1>2. d = n + 1 - p
  OBVIOUS
<1> HIDE DEF d
<1> DEFINE H == Gaps(t) \cup At("or", t)
           f == [m \in H |-> FromNegated(p, d, m)]
           h == [i \in Operands(s) |-> OntoNegated(p, d, i)]
<1>3. /\ \A i \in Operands(s) : i \notin p..p + d - 1 /\ OntoNegated(p, d, i) \in Operands(t)
      /\ \A k \in Operands(t) : \E i \in Operands(s) : OntoNegated(p, d, i) = k
  BY <1>2, NegatedOperands
<1>4. /\ \A m \in H : f[m] = FromNegated(p, d, m)
      /\ \A i \in Operands(s) : h[i] = OntoNegated(p, d, i)
  OBVIOUS
<1> HIDE DEF f, h
<1>5. /\ \A m \in Gaps(t) : f[m] \in Gaps(s)
      /\ \A g \in Gaps(s) : \E m \in Gaps(t) : f[m] = g
  BY <1>2, <1>4, NegatedGaps
<1>6. /\ \A m \in At("or", t) : f[m] \in At("or", s)
      /\ \A g \in At("or", s) : \E m \in At("or", t) : f[m] = g
  BY <1>2, <1>4, NegatedOthers
<1>7. /\ \A m \in H : f[m] \in Gaps(s) \cup At("or", s)
      /\ \A g \in Gaps(s) \cup At("or", s) : \E m \in H : f[m] = g
  BY <1>5, <1>6
<1>8. ASSUME NEW i \in Operands(s), NEW j \in Operands(s)
      PROVE  /\ Crossed(Gaps(s), i, j) <=> Crossed(Gaps(t), h[i], h[j])
             /\ Crossed(Gaps(s) \cup At("or", s), i, j)
                  <=> Crossed(Gaps(t) \cup At("or", t), h[i], h[j])
  <2>1. i \in Nat /\ j \in Nat /\ i \notin p..p + d - 1 /\ j \notin p..p + d - 1
    BY <1>3 DEF Operands
  <2>2. h[i] = OntoNegated(p, d, i) /\ h[j] = OntoNegated(p, d, j)
    BY <1>4
  <2>3. \A m \in H : Between(f[m], i, j) <=> Between(m, h[i], h[j])
    <3>1. TAKE m \in H
    <3>2. m \in Nat /\ f[m] = FromNegated(p, d, m)
      BY <1>4 DEF Gaps, At
    <3>3. Between(FromNegated(p, d, m), i, j) <=> Between(m, OntoNegated(p, d, i), OntoNegated(p, d, j))
      BY <1>1, <2>1, <3>2, NegatedBetween
    <3>. QED
      BY <2>2, <3>2, <3>3
  <2>4. Crossed(Gaps(s), i, j) <=> Crossed(Gaps(t), h[i], h[j])
    BY <1>5, <2>3, CrossingKept
  <2> HIDE DEF H
  <2>5. Crossed(Gaps(s) \cup At("or", s), i, j) <=> Crossed(H, h[i], h[j])
    BY <1>7, <2>3, CrossingKept
  <2>. QED
    BY <2>4, <2>5 DEF H
<1>9. ASSUME NEW k \in Operands(t)
      PROVE  Truth(t, k) <=> \A i \in Operands(s) : h[i] = k => Truth(s, i)
  <2>1. \A i \in Operands(s) : Truth(s, i) <=> Truth(t, h[i])
    <3>1. TAKE i \in Operands(s)
    <3>2. Truth(s, i) <=> Truth(t, OntoNegated(p, d, i))
      BY <1>2, NegatedTruth
    <3>. QED
      BY <1>4, <3>2
  <2>2. PICK i \in Operands(s) : h[i] = k
    BY <1>3, <1>4
  <2>. QED
    BY <2>1, <2>2, Zenon
<1>10. /\ \A i \in Operands(s) : h[i] \in Operands(t)
       /\ \A k \in Operands(t) : \E i \in Operands(s) : h[i] = k
  BY <1>3, <1>4
<1> HIDE DEF H
<1>11. Conjoins(s, t, h)
  BY <1>8, <1>9, <1>10 DEF Conjoins
<1>. QED
  BY <1>11, Conjoined

\* NOTs that are applied make no chain.
LEMMA NotAppliedStraight ==
    ASSUME NEW s, Len(s) \in Nat, Straight(s), NEW p, NEW n, NEW t, Negated(s, p, n, t)
    PROVE  Straight(t)
<1>1. WellFormed(s)
  BY DEF Straight
<1> DEFINE d == n + 1 - p
<1>2. p \in Nat /\ d \in Nat /\ Len(t) \in Nat /\ WellFormed(t)
  BY <1>1, NegatedParts, NegatedForm
<1>3. d = n + 1 - p
  OBVIOUS
<1> HIDE DEF d
<1> DEFINE H == At("and", t) \cup At("or", t)
           f == [m \in H |-> FromNegated(p, d, m)]
<1>4. \A m \in H : m \in Nat /\ f[m] = FromNegated(p, d, m) /\ f[m] \in Nat
  BY <1>2 DEF At, FromNegated
<1> HIDE DEF f
<1>5. At("and", t) \subseteq H /\ At("or", t) \subseteq H
  BY DEF H
<1> HIDE DEF H
<1>6. ASSUME NEW m \in H, NEW i \in H
      PROVE  (m < i <=> f[m] < f[i]) /\ (m = i <=> f[m] = f[i])
  <2>1. m \in Nat /\ i \in Nat /\ f[m] = FromNegated(p, d, m) /\ f[i] = FromNegated(p, d, i)
    BY <1>4
  <2>. QED
    BY <1>2, <2>1 DEF FromNegated
<1>7. /\ \A i \in At("and", t) : f[i] \in At("and", s)
      /\ \A m \in At("or", t) : f[m] \in At("or", s)
      /\ \A g \in At("or", s) : \E m \in At("or", t) : f[m] = g
  BY <1>3, <1>4, <1>5, NegatedOthers
<1>8. \A i, j \in At("and", t) : i # j => f[i] # f[j]
  BY <1>5, <1>6
<1>9. ASSUME NEW i \in At("and", t), NEW j \in At("and", t), NEW m \in At("or", t)
      PROVE  Between(f[m], f[i], f[j]) => Between(m, i, j)
  <2>1. /\ m < i <=> f[m] < f[i]
        /\ m < j <=> f[m] < f[j]
        /\ i < m <=> f[i] < f[m]
        /\ j < m <=> f[j] < f[m]
        /\ m = i <=> f[m] = f[i]
        /\ m = j <=> f[m] = f[j]
    BY <1>5, <1>6
  <2>2. /\ m \in Nat /\ i \in Nat /\ j \in Nat
        /\ f[m] \in Nat /\ f[i] \in Nat /\ f[j] \in Nat
    BY <1>4, <1>5
  <2>. QED
    BY <2>1, <2>2 DEF Between
<1>10. Chained(t) => Chained(s)
  BY <1>2, <1>7, <1>8, <1>9, ChainKept
<1>11. At("or", s) = {} => At("or", t) = {}
  BY <1>7
<1>. QED
  BY <1>2, <1>10, <1>11 DEF Straight

----------------------------------------------------------------------------
(* A group is taken off the stack backwards.                                *)

\* A group without a NOT means the same read backwards.
Opposite(s, t) == Len(t) = Len(s) /\ \A i \in 1..Len(s) : t[i] = s[Len(s) + 1 - i]

\* Read backwards, a well-formed list without NOTs is one.
LEMMA OppositeForm ==
    ASSUME NEW s, Len(s) \in Nat \ {0}, WellFormed(s), At("not", s) = {}, NEW t, Opposite(s, t)
    PROVE  WellFormed(t) /\ At("not", t) = {} /\ Opposite(t, s)
<1> DEFINE L == Len(s)
<1>1. /\ L \in Nat /\ Len(t) = L
      /\ \A i \in 1..L : t[i] = s[L + 1 - i]
  BY DEF Opposite
<1>2. \A i \in 1..L :
        /\ s[i] \in Value \cup {"and", "or"}
        /\ s[i] \in {"and", "or"} => /\ i > 1 /\ i < L
                                     /\ s[i - 1] \in Value /\ s[i + 1] \in Value
  <2>1. TAKE i \in 1..L
  <2>2. s[i] \in Value \cup {"and", "or"}
    BY DEF WellFormed, At, Operator
  <2>3. ASSUME s[i] \in {"and", "or"}
        PROVE  i > 1 /\ i < L /\ s[i - 1] \in Value /\ s[i + 1] \in Value
    <3>1. i > 1 /\ s[i - 1] \in Value /\ i < L /\ s[i + 1] \in Value \cup {"not"}
      BY <2>3 DEF WellFormed, Operator
    <3>2. s[i + 1] # "not"
      BY <3>1 DEF At
    <3>. QED
      BY <3>1, <3>2
  <2>. QED
    BY <2>2, <2>3
<1>4. L > 0
  OBVIOUS
<1> HIDE DEF L
<1>5. \A i \in 1..L : s[i] = t[L + 1 - i]
  <2>1. TAKE i \in 1..L
  <2>2. L + 1 - i \in 1..L /\ L + 1 - (L + 1 - i) = i
    BY <1>1
  <2>. QED
    BY <1>1, <2>2
<1>6. ASSUME NEW i \in 1..L
      PROVE  /\ t[i] \in Value \cup {"and", "or"}
             /\ t[i] \in {"and", "or"} => /\ i > 1 /\ i < L
                                          /\ t[i - 1] \in Value /\ t[i + 1] \in Value
  <2> DEFINE e == L + 1 - i
  <2>1. e \in 1..L /\ t[i] = s[e]
    BY <1>1
  <2>2. i > 1 => t[i - 1] = s[e + 1]
    <3>1. ASSUME i > 1 PROVE i - 1 \in 1..L /\ L + 1 - (i - 1) = e + 1
      BY <1>1, <3>1
    <3>. QED
      BY <1>1, <3>1
  <2>3. i < L => t[i + 1] = s[e - 1]
    <3>1. ASSUME i < L PROVE i + 1 \in 1..L /\ L + 1 - (i + 1) = e - 1
      BY <1>1, <3>1
    <3>. QED
      BY <1>1, <3>1
  <2>4. (e > 1 <=> i < L) /\ (e < L <=> i > 1)
    BY <1>1
  <2> HIDE DEF e
  <2>. QED
    BY <1>2, <2>1, <2>2, <2>3, <2>4
<1>7. t # <<>>
  BY <1>1, <1>4
<1>8. WellFormed(t)
  BY <1>1, <1>6, <1>7 DEF WellFormed, Operator, Value
<1>9. At("not", t) = {}
  BY <1>1, <1>6 DEF At, Value
<1>. QED
  BY <1>1, <1>5, <1>8, <1>9 DEF Opposite, L

LEMMA OppositeBetween ==
    ASSUME NEW L \in Nat, NEW m \in 1..L, NEW i \in 1..L, NEW j \in 1..L
    PROVE  /\ Between(L - m, i, j) <=> Between(m, L + 1 - i, L + 1 - j)
           /\ m # L + 1 - i /\ m # L + 1 - j =>
                (Between(L + 1 - m, i, j) <=> Between(m, L + 1 - i, L + 1 - j))
BY DEF Between

LEMMA OppositeGaps ==
    ASSUME NEW s, Len(s) \in Nat \ {0}, WellFormed(s), At("not", s) = {}, NEW t, Opposite(s, t),
           NEW m \in Gaps(t)
    PROVE  Len(s) - m \in Gaps(s)
<1> DEFINE L == Len(s)
<1>1. /\ L \in Nat /\ Len(t) = L
      /\ \A i \in 1..L : t[i] = s[L + 1 - i]
  BY DEF Opposite
<1>2. m \in 1..L - 1 /\ t[m] \in Value /\ t[m + 1] \in Value
  <2>1. m \in 1..L - 1 /\ t[m] \in Value /\ t[m + 1] \in Value \cup {"not"}
    BY <1>1 DEF Gaps
  <2>2. At("not", t) = {}
    BY OppositeForm
  <2>. QED
    BY <1>1, <2>1, <2>2 DEF At
<1> HIDE DEF L
<1>3. m \in 1..L /\ m + 1 \in 1..L /\ L + 1 - m = (L - m) + 1 /\ L + 1 - (m + 1) = L - m
      /\ L - m \in 1..L - 1
  BY <1>1, <1>2
<1>4. t[m] = s[(L - m) + 1] /\ t[m + 1] = s[L - m]
  BY <1>1, <1>3
<1>. QED
  BY <1>2, <1>3, <1>4 DEF Gaps, L

\* A group read backwards means the same.
LEMMA OppositeHolds ==
    ASSUME NEW s, Len(s) \in Nat \ {0}, WellFormed(s), At("not", s) = {}, NEW t, Opposite(s, t)
    PROVE  Holds(s) <=> Holds(t)
<1> DEFINE L == Len(s)
           H == Gaps(t) \cup At("or", t)
           f == [m \in H |-> IF t[m] = "or" THEN L + 1 - m ELSE L - m]
           h == [i \in Operands(s) |-> L + 1 - i]
<1>1. /\ L \in Nat /\ Len(t) = L
      /\ \A i \in 1..L : t[i] = s[L + 1 - i]
      /\ \A i \in 1..L : s[i] = t[L + 1 - i]
      /\ WellFormed(t) /\ At("not", t) = {} /\ Opposite(t, s)
  BY OppositeForm DEF Opposite
<1>2. /\ Operands(s) \subseteq 1..L /\ Operands(t) \subseteq 1..L
      /\ Gaps(s) \subseteq 1..L /\ Gaps(t) \subseteq 1..L
      /\ At("or", s) \subseteq 1..L /\ At("or", t) \subseteq 1..L
  BY <1>1 DEF Operands, Gaps, At
<1>3. \A i \in Operands(s) : h[i] = L + 1 - i
  OBVIOUS
<1>4. /\ \A m \in Gaps(t) : f[m] = L - m
      /\ \A m \in At("or", t) : f[m] = L + 1 - m
  BY DEF Gaps, At, Value
<1>5. /\ \A m \in Gaps(t) : L - m \in Gaps(s)
      /\ \A m \in Gaps(s) : L - m \in Gaps(t)
  BY <1>1, OppositeGaps
<1>6. /\ \A m \in At("or", t) : L + 1 - m \in At("or", s)
      /\ \A m \in At("or", s) : L + 1 - m \in At("or", t)
  BY <1>1 DEF At
<1>7. /\ \A i \in Operands(s) : L + 1 - i \in Operands(t)
      /\ \A i \in Operands(t) : L + 1 - i \in Operands(s)
  BY <1>1 DEF Operands
<1> HIDE DEF L, H, f, h
<1>8. /\ \A m \in Gaps(t) : f[m] \in Gaps(s)
      /\ \A g \in Gaps(s) : \E m \in Gaps(t) : f[m] = g
  <2>1. \A g \in Gaps(s) : L - g \in Gaps(t) /\ L - (L - g) = g
    BY <1>1, <1>2, <1>5
  <2>. QED
    BY <1>4, <1>5, <2>1
<1>9. /\ \A m \in At("or", t) : f[m] \in At("or", s)
      /\ \A g \in At("or", s) : \E m \in At("or", t) : f[m] = g
  <2>1. \A g \in At("or", s) : L + 1 - g \in At("or", t) /\ L + 1 - (L + 1 - g) = g
    BY <1>1, <1>2, <1>6
  <2>. QED
    BY <1>4, <1>6, <2>1
<1>10. /\ \A m \in H : f[m] \in Gaps(s) \cup At("or", s)
       /\ \A g \in Gaps(s) \cup At("or", s) : \E m \in H : f[m] = g
  BY <1>8, <1>9 DEF H
<1>11. ASSUME NEW i \in Operands(s), NEW j \in Operands(s)
       PROVE  /\ Crossed(Gaps(s), i, j) <=> Crossed(Gaps(t), h[i], h[j])
              /\ Crossed(Gaps(s) \cup At("or", s), i, j)
                   <=> Crossed(Gaps(t) \cup At("or", t), h[i], h[j])
  <2>1. i \in 1..L /\ j \in 1..L /\ h[i] = L + 1 - i /\ h[j] = L + 1 - j
    BY <1>2, <1>3
  <2>2. ASSUME NEW m \in Gaps(t) PROVE Between(f[m], i, j) <=> Between(m, h[i], h[j])
    <3>1. m \in 1..L /\ f[m] = L - m
      BY <1>2, <1>4
    <3>2. Between(L - m, i, j) <=> Between(m, L + 1 - i, L + 1 - j)
      BY <1>1, <2>1, <3>1, OppositeBetween
    <3>. QED
      BY <2>1, <3>1, <3>2
  <2>3. ASSUME NEW m \in At("or", t) PROVE Between(f[m], i, j) <=> Between(m, h[i], h[j])
    <3>1. m \in 1..L /\ f[m] = L + 1 - m
      BY <1>2, <1>4
    <3>2. m # L + 1 - i /\ m # L + 1 - j
      BY <1>7 DEF Operands, At, Value
    <3>3. Between(L + 1 - m, i, j) <=> Between(m, L + 1 - i, L + 1 - j)
      BY <1>1, <2>1, <3>1, <3>2, OppositeBetween
    <3>. QED
      BY <2>1, <3>1, <3>3
  <2>4. Crossed(Gaps(s), i, j) <=> Crossed(Gaps(t), h[i], h[j])
    BY <1>8, <2>2, CrossingKept
  <2>5. \A m \in H : Between(f[m], i, j) <=> Between(m, h[i], h[j])
    BY <2>2, <2>3 DEF H
  <2>6. Crossed(Gaps(s) \cup At("or", s), i, j) <=> Crossed(H, h[i], h[j])
    BY <1>10, <2>5, CrossingKept
  <2>. QED
    BY <2>4, <2>6 DEF H
<1>12. ASSUME NEW k \in Operands(t)
       PROVE  Truth(t, k) <=> \A i \in Operands(s) : h[i] = k => Truth(s, i)
  <2> DEFINE e == L + 1 - k
  <2>1. k \in 1..L /\ e \in 1..L /\ e \in Operands(s) /\ t[k] = s[e]
    BY <1>1, <1>2, <1>7
  <2>2. \A i \in Operands(s) : h[i] = k <=> i = e
    <3>1. \A i \in Operands(s) : i \in 1..L
      BY <1>2
    <3>. QED
      BY <1>1, <1>3, <2>1, <3>1
  <2>3. Truth(t, k) <=> t[k] = "true"
    BY <1>1, ErasedTruth
  <2> HIDE DEF e
  <2>4. Truth(s, e) <=> s[e] = "true"
    BY <2>1, ErasedTruth
  <2>. QED
    BY <2>1, <2>2, <2>3, <2>4, Zenon
<1>13. /\ \A i \in Operands(s) : h[i] \in Operands(t)
       /\ \A k \in Operands(t) : \E i \in Operands(s) : h[i] = k
  <2>1. \A k \in Operands(t) : L + 1 - k \in Operands(s) /\ L + 1 - (L + 1 - k) = k
    BY <1>1, <1>2, <1>7
  <2>. QED
    BY <1>3, <1>7, <2>1
<1>14. Conjoins(s, t, h)
  BY <1>11, <1>12, <1>13 DEF Conjoins
<1>. QED
  BY <1>14, Conjoined

\* Reading backwards makes no chain.
LEMMA OppositeStraight ==
    ASSUME NEW s, Len(s) \in Nat \ {0}, Straight(s), At("not", s) = {}, NEW t, Opposite(s, t)
    PROVE  Straight(t)
<1> DEFINE L == Len(s)
           H == At("and", t) \cup At("or", t)
           f == [m \in H |-> L + 1 - m]
<1>1. WellFormed(s)
  BY DEF Straight
<1>2. /\ L \in Nat /\ Len(t) = L
      /\ \A i \in 1..L : t[i] = s[L + 1 - i]
      /\ \A i \in 1..L : s[i] = t[L + 1 - i]
      /\ WellFormed(t)
  BY <1>1, OppositeForm DEF Opposite
<1>3. \A m \in H : m \in 1..L /\ f[m] = L + 1 - m
  BY <1>2 DEF At
<1>4. \A op \in {"and", "or"} :
        /\ \A m \in At(op, t) : L + 1 - m \in At(op, s)
        /\ \A m \in At(op, s) : L + 1 - m \in At(op, t)
  BY <1>2 DEF At
<1> HIDE DEF L, f
<1>5. At("and", t) \subseteq H /\ At("or", t) \subseteq H
  OBVIOUS
<1> HIDE DEF H
<1>6. /\ \A i \in At("and", t) : f[i] \in At("and", s)
      /\ \A m \in At("or", t) : f[m] \in At("or", s)
  BY <1>3, <1>4, <1>5
<1>7. \A g \in At("or", s) : \E m \in At("or", t) : f[m] = g
  <2>1. TAKE g \in At("or", s)
  <2>2. g \in 1..L /\ L + 1 - g \in At("or", t)
    BY <1>4 DEF At, L
  <2>3. f[L + 1 - g] = L + 1 - (L + 1 - g)
    BY <1>3, <1>5, <2>2
  <2>4. f[L + 1 - g] = g
    BY <1>2, <2>2, <2>3
  <2>. QED
    BY <2>2, <2>4
<1>8. \A i, j \in At("and", t) : i # j => f[i] # f[j]
  <2>1. TAKE i, j \in At("and", t)
  <2>2. i \in 1..L /\ j \in 1..L /\ f[i] = L + 1 - i /\ f[j] = L + 1 - j
    BY <1>3, <1>5
  <2>. QED
    BY <1>2, <2>2
<1>9. ASSUME NEW i \in At("and", t), NEW j \in At("and", t), NEW m \in At("or", t)
      PROVE  Between(f[m], f[i], f[j]) => Between(m, i, j)
  <2>1. /\ i \in 1..L /\ j \in 1..L /\ m \in 1..L
        /\ f[i] = L + 1 - i /\ f[j] = L + 1 - j /\ f[m] = L + 1 - m
    BY <1>3, <1>5
  <2>2. m # i /\ m # j
    BY DEF At
  <2>. QED
    BY <1>2, <2>1, <2>2 DEF Between
<1>10. Chained(t) => Chained(s)
  BY <1>2, <1>6, <1>7, <1>8, <1>9, ChainKept DEF L
<1>11. At("or", s) = {} => At("or", t) = {}
  BY <1>6
<1>. QED
  BY <1>2, <1>10, <1>11 DEF Straight

\* Induction over the numbers for a set, from the well-founded order on finite sets.
LEMMA SetInduction ==
  ASSUME NEW S, 0 \in S, \A n \in Nat : n \in S => n + 1 \in S
  PROVE  Nat \subseteq S
<1> SUFFICES ASSUME NEW m \in Nat, m \notin S PROVE FALSE
  OBVIOUS
<1> DEFINE T == {0..n : n \in Nat \ S}
           R == StrictSubsetOrdering(Nat)
<1>1. T # {}
  OBVIOUS
<1>2. T \subseteq FiniteSubsetsOf(Nat)
  <2> SUFFICES ASSUME NEW n \in Nat PROVE 0..n \in FiniteSubsetsOf(Nat)
    OBVIOUS
  <2>1. IsFiniteSet(0..n)
    BY FS_Interval
  <2>2. 0..n \subseteq Nat
    OBVIOUS
  <2> QED
    BY <2>1, <2>2 DEF FiniteSubsetsOf
<1>3. IsWellFoundedOn(R, FiniteSubsetsOf(Nat))
  BY FS_StrictSubsetOrderingWellFounded
<1>4. PICK x \in T : \A y \in T : ~(<<y, x>> \in R)
  <2> HIDE DEF T, R
  <2> QED
    BY <1>1, <1>2, <1>3, WFMin, Zenon
<1>5. PICK k \in Nat \ S : x = 0..k
  OBVIOUS
<1>6. k # 0
  OBVIOUS
<1>7. k - 1 \in Nat
  BY <1>6
<1>8. k - 1 \in S
  <2> SUFFICES ASSUME k - 1 \notin S PROVE FALSE
    OBVIOUS
  <2>1. 0..(k - 1) \in T
    BY <1>7
  <2>2. 0..(k - 1) \subseteq 0..k /\ 0..(k - 1) # 0..k /\ 0..k \subseteq Nat
    <3>1. k \in 0..k /\ ~(k \in 0..(k - 1))
      BY <1>7
    <3> QED
      BY <3>1
  <2>3. <<0..(k - 1), 0..k>> \in R
    BY <2>2 DEF StrictSubsetOrdering
  <2> QED
    BY <1>4, <1>5, <2>1, <2>3
<1>9. (k - 1) + 1 \in S
  BY <1>7, <1>8
<1> QED
  BY <1>7, <1>9

----------------------------------------------------------------------------
(* What the operators of the machine do to the list.                        *)

With(a, v, b) == a \o <<v>> \o b

LEMMA Elements ==
    ASSUME NEW S, NEW a \in Seq(S), NEW v \in S, NEW b \in Seq(S)
    PROVE  /\ \A i \in 1..Len(a) : With(a, v, b)[i] = a[i]
           /\ With(a, v, b)[Len(a) + 1] = v
           /\ \A i \in 1..Len(b) : With(a, v, b)[Len(a) + 1 + i] = b[i]
<1>1. <<v>> \in Seq(S) /\ Len(<<v>>) = 1 /\ <<v>>[1] = v
  OBVIOUS
<1> DEFINE c == <<v>> \o b
<1>2. c \in Seq(S) /\ Len(c) = 1 + Len(b) /\ c[1] = v /\ \A i \in 1..Len(b) : c[1 + i] = b[i]
  BY <1>1
<1>3. With(a, v, b) = a \o c
  BY <1>1 DEF With
<1> HIDE DEF c
<1>4. /\ \A i \in 1..Len(a) : (a \o c)[i] = a[i]
      /\ \A i \in 1..Len(c) : (a \o c)[Len(a) + i] = c[i]
  BY <1>2
<1>5. (a \o c)[Len(a) + 1] = v
  BY <1>2, <1>4
<1>6. ASSUME NEW i \in 1..Len(b) PROVE (a \o c)[Len(a) + 1 + i] = b[i]
  <2>1. 1 + i \in 1..Len(c) /\ Len(a) + (1 + i) = Len(a) + 1 + i
    BY <1>2
  <2>. QED
    BY <1>2, <1>4, <2>1
<1>. QED
  BY <1>3, <1>4, <1>5, <1>6

\* The list with what is between m and n replaced by v.
Spliced(s, m, v, n) == With(SubSeq(s, 1, m), v, SubSeq(s, n, Len(s)))

LEMMA Replaced ==
    ASSUME NEW S, NEW s \in Seq(S), NEW m \in 0..Len(s), NEW n \in 1..Len(s) + 1, NEW v \in S
    PROVE  /\ \A i \in 1..m : Spliced(s, m, v, n)[i] = s[i]
           /\ Spliced(s, m, v, n)[m + 1] = v
           /\ \A i \in m + 2..Len(s) + m + 2 - n :
                Spliced(s, m, v, n)[i] = s[i + (n - (m + 2))]
<1> DEFINE front == SubSeq(s, 1, m)
           back == SubSeq(s, n, Len(s))
           r == Spliced(s, m, v, n)
<1>1. front \in Seq(S) /\ Len(front) = m /\ \A i \in 1..m : front[i] = s[i]
  OBVIOUS
<1>2. back \in Seq(S) /\ Len(back) = Len(s) + 1 - n /\ \A i \in 1..Len(s) + 1 - n : back[i] = s[n + i - 1]
  OBVIOUS
<1> HIDE DEF front, back
<1>4. /\ \A i \in 1..Len(front) : r[i] = front[i]
      /\ r[Len(front) + 1] = v
      /\ \A i \in 1..Len(back) : r[Len(front) + 1 + i] = back[i]
  <2>1. r = With(front, v, back)
    BY DEF Spliced, front, back
  <2>2. /\ \A i \in 1..Len(front) : With(front, v, back)[i] = front[i]
        /\ With(front, v, back)[Len(front) + 1] = v
        /\ \A i \in 1..Len(back) : With(front, v, back)[Len(front) + 1 + i] = back[i]
    <3>1. front \in Seq(S) /\ back \in Seq(S)
      BY <1>1, <1>2
    <3>. QED
      BY <3>1, Elements
  <2> HIDE DEF r
  <2>. QED
    BY <2>1, <2>2
<1> HIDE DEF r
<1>5. ASSUME NEW i \in m + 2..Len(s) + m + 2 - n PROVE r[i] = s[i + (n - (m + 2))]
  <2> DEFINE e == i - (m + 1)
  <2>1. e \in 1..Len(s) + 1 - n /\ m + 1 + e = i /\ n + e - 1 = i + (n - (m + 2))
    OBVIOUS
  <2> HIDE DEF e
  <2>2. r[m + 1 + e] = back[e] /\ back[e] = s[n + e - 1]
    BY <1>1, <1>2, <1>4, <2>1
  <2>. QED
    BY <2>1, <2>2
<1>. QED
  BY <1>1, <1>4, <1>5 DEF r

\* What ApplyBinary and ApplyNot do to the list.
LEMMA ShortenedErased ==
    ASSUME states \in Seq(Listed), NEW p \in 1..Len(states), HasArguments(p),
           states[p] \in {"and", "or"}, NEW v \in Value
    PROVE  Erased(states, p, Shortened(p, v)) /\ Shortened(p, v)[p - 1] = v
<1> DEFINE t == Shortened(p, v)
<1>1. /\ p > 1 /\ p < Len(states) /\ v \in Listed
      /\ p - 2 \in 0..Len(states) /\ p + 2 \in 1..Len(states) + 1
  BY DEF HasArguments, Listed
<1>2. Len(t) = Len(states) - 2
  BY <1>1, ShortenedTyped
<1>3. t = Spliced(states, p - 2, v, p + 2)
  BY DEF Shortened, Spliced, With
<1> HIDE DEF t
<1>4. /\ \A i \in 1..p - 2 : t[i] = states[i]
      /\ t[(p - 2) + 1] = v
      /\ \A i \in (p - 2) + 2..Len(states) + (p - 2) + 2 - (p + 2) :
           t[i] = states[i + ((p + 2) - ((p - 2) + 2))]
  <2> DEFINE m == p - 2
             n == p + 2
  <2>1. m \in 0..Len(states) /\ n \in 1..Len(states) + 1 /\ t = Spliced(states, m, v, n)
    BY <1>1, <1>3
  <2> HIDE DEF m, n
  <2>2. /\ \A i \in 1..m : t[i] = states[i]
        /\ t[m + 1] = v
        /\ \A i \in m + 2..Len(states) + m + 2 - n : t[i] = states[i + (n - (m + 2))]
    BY <1>1, <2>1, Replaced, SMTT(30)
  <2>. QED
    BY <2>2 DEF m, n
<1>5. t[p - 1] = v
  BY <1>1, <1>4
<1>6. ASSUME NEW i \in p..Len(t) PROVE t[i] = states[i + 2]
  <2>1. /\ i \in (p - 2) + 2..Len(states) + (p - 2) + 2 - (p + 2)
        /\ i + ((p + 2) - ((p - 2) + 2)) = i + 2
    BY <1>1, <1>2
  <2>. QED
    BY <1>4, <2>1
<1>7. Erased(states, p, t)
  BY <1>1, <1>2, <1>4, <1>5, <1>6 DEF Erased
<1>. QED
  BY <1>5, <1>7 DEF t

LEMMA NegateNegated ==
    ASSUME states \in Seq(Listed), WellFormed(states), pos \in 1..Len(states),
           NEW n \in pos..Len(states), LastOfRun(n), NoneUpTo("not", states, pos - 1)
    PROVE  n < Len(states) /\ Negated(states, pos, n, Negate(n))
<1> DEFINE v == IF (n - pos) % 2 = 0 THEN Negation(states[n + 1]) ELSE states[n + 1]
           t == Negate(n)
<1>1. \A m \in pos..n : states[m] = "not"
  BY DEF LastOfRun
<1>2. n < Len(states) /\ states[n + 1] \in Value
  <2>1. states[n] = "not" /\ n \in 1..Len(states)
    BY <1>1
  <2>2. n < Len(states) /\ states[n + 1] \in Value \cup {"not"}
    BY <2>1 DEF WellFormed, Operator
  <2>. QED
    BY <2>2 DEF LastOfRun
<1>3. v \in Listed
  BY <1>2, NegationTyped DEF Listed
<1>4. t = Spliced(states, pos - 1, v, n + 2)
  BY DEF Negate, Spliced, With
<1>5. Len(t) = Len(states) - (n + 1 - pos)
  BY <1>2, NegateTyped
<1>6. v = IF (n - pos) % 2 = 0 THEN Negation(states[n + 1]) ELSE states[n + 1]
  OBVIOUS
<1>7. pos - 1 \in 0..Len(states) /\ n + 2 \in 1..Len(states) + 1
  BY <1>2
<1> HIDE DEF v, t
<1>8. /\ \A i \in 1..pos - 1 : t[i] = states[i]
      /\ t[(pos - 1) + 1] = v
      /\ \A i \in (pos - 1) + 2..Len(states) + (pos - 1) + 2 - (n + 2) :
           t[i] = states[i + ((n + 2) - ((pos - 1) + 2))]
  <2> DEFINE m == pos - 1
             l == n + 2
  <2>1. m \in 0..Len(states) /\ l \in 1..Len(states) + 1 /\ t = Spliced(states, m, v, l)
    BY <1>4, <1>7
  <2> HIDE DEF m, l
  <2>2. /\ \A i \in 1..m : t[i] = states[i]
        /\ t[m + 1] = v
        /\ \A i \in m + 2..Len(states) + m + 2 - l : t[i] = states[i + (l - (m + 2))]
    BY <1>3, <2>1, Replaced
  <2>. QED
    BY <2>2 DEF m, l
<1>9. t[pos] = v
  BY <1>8
<1>10. ASSUME NEW i \in pos + 1..Len(t) PROVE t[i] = states[i + (n + 1 - pos)]
  <2>1. /\ i \in (pos - 1) + 2..Len(states) + (pos - 1) + 2 - (n + 2)
        /\ i + ((n + 2) - ((pos - 1) + 2)) = i + (n + 1 - pos)
    BY <1>2, <1>5
  <2>. QED
    BY <1>8, <2>1
<1>11. Negated(states, pos, n, t)
  BY <1>1, <1>2, <1>5, <1>6, <1>8, <1>9, <1>10 DEF Negated
<1>. QED
  BY <1>2, <1>11 DEF t

LEMMA BackwardsOpposite ==
    ASSUME NEW S, NEW s \in Seq(S)
    PROVE  Opposite(s, Backwards(s))
BY Reversal DEF Opposite, Backwards

\* What is left without an operator has the value that Result gives it.
LEMMA ResultIsValue ==
    ASSUME states \in Seq(Listed), WellFormed(states), \A op \in Operator : At(op, states) = {}
    PROVE  Result = ValueOf(states)
<1>1. Holds(states) <=> \A i \in 1..Len(states) : states[i] # "false"
  BY NothingButValues
<1>. QED
  BY <1>1 DEF Result, ValueOf

----------------------------------------------------------------------------
(* The condition that is left of a token list, token by token.              *)

LeftUpTo(n, c, left) == [k \in 0..n |-> IF k = 0 THEN <<>> ELSE Taken(left[k - 1], c[k])]

\* The recursive function that Left takes its values from exists ...
LEMMA LeftExists == ASSUME NEW c, NEW l \in Nat PROVE \E left : left = LeftUpTo(l, c, left)
<1> DEFINE S == {n \in Nat : \E left : left = LeftUpTo(n, c, left)}
<1>1. 0 \in S
  <2> DEFINE left == [k \in 0..0 |-> <<>>]
  <2>1. left = LeftUpTo(0, c, left)
    BY DEF LeftUpTo
  <2> HIDE DEF left
  <2>. QED
    BY <2>1
<1>2. ASSUME NEW n \in Nat, n \in S PROVE n + 1 \in S
  <2>1. PICK left : left = LeftUpTo(n, c, left)
    BY <1>2
  <2> DEFINE longer == LeftUpTo(n + 1, c, left)
  <2>2. \A k \in 0..n : longer[k] = left[k]
    <3>1. \A k \in 0..n : left[k] = IF k = 0 THEN <<>> ELSE Taken(left[k - 1], c[k])
      BY <2>1, Zenon DEF LeftUpTo
    <3>2. \A k \in 0..n : longer[k] = IF k = 0 THEN <<>> ELSE Taken(left[k - 1], c[k])
      BY DEF LeftUpTo
    <3>. QED
      BY <3>1, <3>2
  <2>3. \A k \in 0..n + 1 : k # 0 => longer[k - 1] = left[k - 1]
    BY <2>2
  <2>4. longer = LeftUpTo(n + 1, c, longer)
    <3>1. ASSUME NEW k \in 0..n + 1
          PROVE  (IF k = 0 THEN <<>> ELSE Taken(left[k - 1], c[k]))
                   = (IF k = 0 THEN <<>> ELSE Taken(longer[k - 1], c[k]))
      BY <2>3
    <3> HIDE DEF longer
    <3>2. LeftUpTo(n + 1, c, left) = LeftUpTo(n + 1, c, longer)
      BY <3>1, Zenon DEF LeftUpTo
    <3>. QED
      BY <3>2 DEF longer
  <2> HIDE DEF longer
  <2>. QED
    BY <2>4
<1> HIDE DEF S
<1>3. l \in S
  BY <1>1, <1>2, SetInduction
<1>. QED
  BY <1>3 DEF S

\* ... so Left takes one token at a time.
LEMMA LeftSteps ==
    ASSUME NEW c, Len(c) \in Nat
    PROVE  /\ Left(c)[0] = <<>>
           /\ \A n \in 1..Len(c) : Left(c)[n] = Taken(Left(c)[n - 1], c[n])
<1>1. Left(c) = CHOOSE left :
                  left = [n \in 0..Len(c) |-> IF n = 0 THEN <<>> ELSE Taken(left[n - 1], c[n])]
  BY DEF Left
<1>2. \E left : left = [n \in 0..Len(c) |-> IF n = 0 THEN <<>> ELSE Taken(left[n - 1], c[n])]
  BY LeftExists DEF LeftUpTo
<1> DEFINE left == Left(c)
<1>3. left = [n \in 0..Len(c) |-> IF n = 0 THEN <<>> ELSE Taken(left[n - 1], c[n])]
  BY <1>1, <1>2
<1> HIDE DEF left
<1>4. left[0] = <<>> /\ \A n \in 1..Len(c) : left[n] = Taken(left[n - 1], c[n])
  BY <1>3
<1>. QED
  BY <1>4 DEF left

\* A group is taken off at its only open parenthesis.
LEMMA TakenGroup ==
    ASSUME NEW s, Len(s) \in Nat, NEW o \in Innermost(s)
    PROVE  Taken(s, ")") = Append(SubSeq(s, 1, o - 1), ValueOf(Inside(s, o)))
<1>1. \A p \in Innermost(s) : p = o
  <2>1. TAKE p \in Innermost(s)
  <2>2. /\ p \in 1..Len(s) /\ s[p] = "(" /\ \A i \in p + 1..Len(s) : s[i] # "("
        /\ o \in 1..Len(s) /\ s[o] = "(" /\ \A i \in o + 1..Len(s) : s[i] # "("
    BY DEF Innermost, At
  <2>. QED
    BY <2>2
<1>2. (CHOOSE p \in Innermost(s) : TRUE) = o
  BY <1>1
<1>. QED
  BY <1>2 DEF Taken

----------------------------------------------------------------------------
(* The stages of the loops.                                                 *)

\* Where the loops are in a list that means what its condition means.
Staged ==
    /\ IF loop = "not" THEN NoneUpTo("not", states, pos - 1) ELSE At("not", states) = {}
    /\ loop = "and" => At("or", states) = {} \/ NoneUpTo("and", states, pos - 1)
    /\ loop = "or" => At("or", states) = {} \/ At("and", states) = {}
    /\ loop = "and" /\ ~worked => NoneUpTo("and", states, pos - 1)
    /\ loop = "or" /\ ~worked => At("and", states) = {} /\ NoneUpTo("or", states, pos - 1)

LEMMA NoneAtAll ==
    ASSUME NEW op, NEW s, NEW n, Len(s) \in Nat, n = Len(s) + 1, NoneUpTo(op, s, n - 1)
    PROVE  At(op, s) = {}
BY DEF NoneUpTo, At

LEMMA NoneYet == ASSUME NEW op, NEW s, NEW n, n = 1 PROVE NoneUpTo(op, s, n - 1)
BY DEF NoneUpTo

\* What a turn of a loop needs and gives.
ListAt == states \in Seq(Listed) /\ pos \in 1..Len(states) + 1 /\ Straight(states) /\ Staged

\* The loop over the NOTs keeps what the list means.
LEMMA NotStage ==
    ASSUME ListAt, ApplyNot
    PROVE  Straight(states') /\ Staged' /\ (Holds(states) <=> Holds(states'))
<1>1. PICK n \in pos..Len(states) : LastOfRun(n) /\ states' = Negate(n)
  BY DEF ApplyNot
<1>2. /\ loop = "not" /\ loop' = "not" /\ pos' = pos + 1 /\ pos <= Len(states)
      /\ states \in Seq(Listed) /\ pos \in 1..Len(states) /\ Len(states) \in Nat
      /\ WellFormed(states) /\ Straight(states)
  BY DEF ListAt, ApplyNot, InLoop, Straight
<1>3. NoneUpTo("not", states, pos - 1)
  BY <1>2 DEF ListAt, Staged
<1>4. Negated(states, pos, n, states')
  BY <1>1, <1>2, <1>3, NegateNegated
<1>5. Straight(states') /\ (Holds(states) <=> Holds(states'))
  BY <1>2, <1>4, NotApplied, NotAppliedStraight
<1>6. NoneUpTo("not", states', pos)
  BY <1>2, <1>4, NegatedForm
<1>7. pos' - 1 = pos
  BY <1>2
<1>. QED
  BY <1>2, <1>5, <1>6, <1>7 DEF Staged

LEMMA BinaryErased ==
    ASSUME ListAt, NEW op \in {"and", "or"}, ApplyBinary(op)
    PROVE  /\ loop = op /\ states[pos] = op /\ Erased(states, pos, states')
           /\ pos \in 2..Len(states) - 1 /\ At("not", states) = {}
           /\ states'[pos - 1] = Combined(op, states[pos - 1], states[pos + 1])
           /\ Len(states') = Len(states) - 2
<1>1. /\ loop = op /\ states[pos] = op /\ HasArguments(pos) /\ pos \in 1..Len(states)
      /\ states' = Shortened(pos, Combined(op, states[pos - 1], states[pos + 1]))
      /\ states \in Seq(Listed)
  BY DEF ListAt, ApplyBinary, InLoop
<1>2. Combined(op, states[pos - 1], states[pos + 1]) \in Value
  BY DEF Combined, Conjunction, Disjunction, Value
<1>3. /\ Erased(states, pos, states')
      /\ states'[pos - 1] = Combined(op, states[pos - 1], states[pos + 1])
  BY <1>1, <1>2, ShortenedErased
<1>4. pos \in 2..Len(states) - 1
  BY <1>1 DEF HasArguments
<1>5. At("not", states) = {}
  BY <1>1 DEF ListAt, Staged
<1>6. Len(states') = Len(states) - 2
  BY <1>3 DEF Erased
<1>. QED
  BY <1>1, <1>3, <1>4, <1>5, <1>6

\* So do the loops over the ANDs and the ORs.
LEMMA BinaryStage ==
    ASSUME ListAt, NEW op \in {"and", "or"}, ApplyBinary(op)
    PROVE  Straight(states') /\ Staged' /\ (Holds(states) <=> Holds(states'))
<1>1. /\ loop = op /\ loop' = op /\ worked' = TRUE /\ pos' = AfterErase(pos)
      /\ states[pos] = op /\ Erased(states, pos, states')
      /\ pos \in 2..Len(states) - 1 /\ At("not", states) = {}
      /\ states'[pos - 1] = Combined(op, states[pos - 1], states[pos + 1])
      /\ Len(states') = Len(states) - 2
  BY BinaryErased DEF ApplyBinary
<1>2. Len(states) \in Nat /\ Straight(states) /\ WellFormed(states)
  BY DEF ListAt, Straight
<1>3. At("not", states') = {}
  BY <1>1, <1>2, ErasedForm
<1>4. CASE op = "and"
  <2>1. states'[pos - 1] = Conjunction(states[pos - 1], states[pos + 1])
    BY <1>1, <1>4 DEF Combined
  <2>2. Holds(states) <=> Holds(states')
    BY <1>1, <1>2, <1>4, <2>1, AndErased
  <2>3. Straight(states') /\ (At("or", states) = {} => At("or", states') = {})
    BY <1>1, <1>2, <1>4, AndErasedStraight
  <2>4. ASSUME At("or", states) # {} PROVE NoneUpTo("and", states', pos' - 1)
    <3>1. NoneUpTo("and", states, pos - 1)
      BY <1>1, <1>4, <2>4 DEF ListAt, Staged
    <3>2. CASE pos + 1 = Len(states)
      BY <1>1, <3>2, NoneYet DEF AfterErase
    <3>3. CASE pos + 1 # Len(states)
      <4>1. pos' - 1 = pos /\ pos <= Len(states')
        BY <1>1, <1>2, <3>3 DEF AfterErase
      <4>2. NoneUpTo("and", states', pos)
        BY <1>1, <1>2, <1>4, <2>4, <3>1, <4>1, AndsErased
      <4>. QED
        BY <4>1, <4>2
    <3>. QED
      BY <3>2, <3>3
  <2>5. Staged'
    BY <1>1, <1>3, <1>4, <2>3, <2>4 DEF Staged
  <2>. QED
    BY <2>2, <2>3, <2>5
<1>5. CASE op = "or"
  <2>1. states'[pos - 1] = Disjunction(states[pos - 1], states[pos + 1])
    BY <1>1, <1>5 DEF Combined
  <2>2. At("or", states) # {}
    <3>1. pos \in At("or", states)
      BY <1>1, <1>2, <1>5 DEF At
    <3>. QED
      BY <3>1
  <2>3. At("and", states) = {}
    BY <1>1, <1>5, <2>2 DEF ListAt, Staged
  <2>4. Holds(states) <=> Holds(states')
    BY <1>1, <1>2, <1>5, <2>1, <2>3, OrErased
  <2>5. Straight(states') /\ At("and", states') = {}
    BY <1>1, <1>2, <1>5, <2>3, OrErasedStraight
  <2>6. Staged'
    BY <1>1, <1>3, <1>5, <2>5 DEF Staged
  <2>. QED
    BY <2>4, <2>5, <2>6
<1>. QED
  BY <1>4, <1>5

LEMMA SteppedStage == ASSUME ListAt, StepOver PROVE Staged' /\ states' = states
<1>1. /\ loop \in Operator /\ pos <= Len(states) /\ states[pos] # loop
      /\ pos' = pos + 1 /\ loop' = loop /\ states' = states /\ worked' = worked
  BY DEF StepOver, InLoop
<1>2. pos \in Nat /\ pos' - 1 = pos
  BY <1>1 DEF ListAt
<1>3. \A op \in Operator : op = loop /\ NoneUpTo(op, states, pos - 1) => NoneUpTo(op, states, pos)
  BY <1>1, <1>2 DEF NoneUpTo
<1>. QED
  BY <1>1, <1>2, <1>3 DEF ListAt, Staged, Operator

LEMMA NextStage == ASSUME ListAt, NextLoop PROVE Staged' /\ states' = states
<1>1. states' = states /\ pos' = 1 /\ pos > Len(states)
  BY DEF NextLoop, EndOf
<1>2. pos = Len(states) + 1 /\ Len(states) \in Nat
  BY <1>1 DEF ListAt
<1>3. \A op \in Operator : NoneUpTo(op, states, pos - 1) => At(op, states) = {}
  BY <1>2, NoneAtAll
<1>4. \A op \in Operator : NoneUpTo(op, states', pos' - 1)
  BY <1>1, NoneYet
<1>5. CASE loop = "not" /\ loop' = "and"
  BY <1>1, <1>3, <1>4, <1>5 DEF ListAt, Staged, Operator
<1>6. CASE loop = "and" /\ loop' = "or" /\ worked' = worked
  BY <1>1, <1>3, <1>4, <1>6 DEF ListAt, Staged, Operator
<1>7. CASE loop' = "not"
  BY <1>1, <1>4, <1>7 DEF Staged, Operator
<1>. QED
  BY <1>5, <1>6, <1>7 DEF NextLoop, EndOf

\* Any turn of a loop.
LEMMA LoopStage ==
    ASSUME ListAt, \/ ApplyNot \/ StepOver \/ NextLoop
                   \/ \E op \in {"and", "or"} : ApplyBinary(op)
    PROVE  Straight(states') /\ Staged' /\ ValueOf(states') = ValueOf(states)
<1>1. ASSUME StepOver \/ NextLoop
      PROVE  Straight(states') /\ Staged' /\ ValueOf(states') = ValueOf(states)
  <2>1. Staged' /\ states' = states
    BY <1>1, SteppedStage, NextStage
  <2>. QED
    BY <2>1 DEF ListAt
<1>2. ASSUME ApplyNot \/ \E op \in {"and", "or"} : ApplyBinary(op)
      PROVE  Straight(states') /\ Staged' /\ ValueOf(states') = ValueOf(states)
  <2>1. Straight(states') /\ Staged' /\ (Holds(states) <=> Holds(states'))
    BY <1>2, NotStage, BinaryStage
  <2>. QED
    BY <2>1 DEF ValueOf
<1>. QED
  BY <1>1, <1>2

\* At the end no operator is left.
LEMMA LastStage ==
    ASSUME ListAt, Reduced
    PROVE  Result = ValueOf(states)
<1>1. loop = "or" /\ ~worked /\ pos = Len(states) + 1 /\ Len(states) \in Nat
  BY DEF ListAt, Reduced, EndOf
<1>2. At("not", states) = {} /\ At("and", states) = {} /\ At("or", states) = {}
  BY <1>1, NoneAtAll DEF ListAt, Staged
<1>. QED
  BY <1>2, ResultIsValue DEF ListAt, Straight, Operator

----------------------------------------------------------------------------
(* The meaning that is carried through the steps.                           *)

\* What is on the stack, and in the list, is what is left of the tokens read.
Carried ==
    IF grouped
    THEN Append(stack, ValueOf(states)) = Left(tokens)[next - 1]
    ELSE ValueOf(states) = ValueOf(Whole(tokens))

ReadKept == Simple(tokens) /\ loop = "read" => stack = Left(tokens)[next - 1]
ListKept == Simple(tokens) /\ loop \in Operator => Straight(states) /\ Staged /\ Carried
NeverThrown == Simple(tokens) => loop # "thrown"
StackEmptied == loop \in Operator /\ ~grouped => stack = <<>>
UsedValued == \A n \in applicable : Valued(n)
ValuedRight ==
    \A n \in 1..Len(control) : Simple(control[n]) /\ Valued(n) =>
        (n \in applicable <=> Holds(Whole(control[n])))

MInv ==
    /\ IInv
    /\ ReadKept
    /\ ListKept
    /\ NeverThrown
    /\ StackEmptied
    /\ UsedValued
    /\ ValuedRight

\* The types, as the steps use them.
LEMMA MTypes ==
    ASSUME MInv
    PROVE  /\ ConditionTypeOK /\ GroupsOnStack
           /\ tokens \in Seq(Token) /\ Len(tokens) \in Nat
           /\ next \in 1..Len(tokens) + 1
           /\ stack \in Seq(Stacked) /\ states \in Seq(Listed) /\ pos \in 1..Len(states) + 1
           /\ Len(stack) \in Nat /\ Len(states) \in Nat
           /\ at \in 1..Len(control) /\ Len(control) \in Nat
BY Tokens DEF MInv, IInv, ConditionTypeOK, Listed, Stacked

LEMMA ListGiven == ASSUME MInv, Simple(tokens), loop \in Operator PROVE ListAt
BY MTypes DEF MInv, ListKept, ListAt

\* A group of a simple condition, when it is closed.
LEMMA GroupKept ==
    ASSUME MInv, Simple(tokens), loop = "read", next <= Len(tokens), tokens[next] = ")"
    PROVE  \E o \in Innermost(stack) :
             /\ Straight(Inside(stack, o))
             /\ At("not", Inside(stack, o)) = {}
             /\ Left(tokens)[next] = Append(SubSeq(stack, 1, o - 1), ValueOf(Inside(stack, o)))
<1>1. next \in 1..Len(tokens) /\ Len(tokens) \in Nat /\ Len(stack) \in Nat
  BY MTypes
<1>2. stack = Left(tokens)[next - 1]
  BY DEF MInv, ReadKept
<1>3. PICK o \in Innermost(stack) :
        Straight(Inside(stack, o)) /\ At("not", Inside(stack, o)) = {}
  BY <1>1, <1>2 DEF Simple
<1>4. Left(tokens)[next] = Taken(Left(tokens)[next - 1], tokens[next])
  BY <1>1, LeftSteps
<1>5. Taken(stack, ")") = Append(SubSeq(stack, 1, o - 1), ValueOf(Inside(stack, o)))
  BY <1>1, TakenGroup
<1>6. Left(tokens)[next] = Taken(stack, ")")
  BY <1>2, <1>4
<1>. QED
  BY <1>3, <1>5, <1>6

\* A simple condition raises no exception.
LEMMA NothingThrown ==
    ASSUME MInv, Simple(tokens),
           \/ BadToken \/ UnmatchedClose \/ UnmatchedOpen
           \/ NotWithoutArgument \/ NothingLeft
           \/ \E op \in {"and", "or"} : BinaryWithoutArgument(op)
    PROVE  FALSE
<1>1. CASE BadToken
  <2>1. next \in 1..Len(tokens) /\ tokens[next] = "error"
    BY <1>1, MTypes DEF BadToken, Reading
  <2>. QED
    BY <2>1 DEF Simple
<1>2. ASSUME NEW o \in 1..Len(stack), stack[o] = "(", paren = 0 PROVE FALSE
  <2>1. stack \in Seq(Listed)
    BY <1>2, MTypes, NoneOpened
  <2>2. stack[o] \in Listed
    BY <2>1
  <2>. QED
    BY <1>2, <2>2 DEF Listed, Value, Operator
<1>3. CASE UnmatchedClose
  <2>1. loop = "read" /\ next <= Len(tokens) /\ tokens[next] = ")" /\ paren = 0
    BY <1>3 DEF UnmatchedClose, Reading
  <2>2. PICK o \in Innermost(stack) : TRUE
    BY <2>1, GroupKept
  <2>3. o \in 1..Len(stack) /\ stack[o] = "("
    BY <2>2 DEF Innermost, At
  <2>. QED
    BY <1>2, <2>1, <2>3
<1>4. CASE UnmatchedOpen
  <2>1. loop = "read" /\ next - 1 = Len(tokens) /\ paren # 0
    BY <1>4, MTypes DEF UnmatchedOpen, AllRead
  <2>2. stack = Whole(tokens)
    BY <2>1 DEF MInv, ReadKept, Whole
  <2>3. WellFormed(stack)
    BY <2>2 DEF Simple, Straight
  <2>4. \A i \in 1..Len(stack) : stack[i] # "("
    BY <2>3 DEF WellFormed, Value, Operator
  <2>5. Opened = {}
    BY <2>4 DEF Opened
  <2>6. paren = 0
    BY <2>5, MTypes, FS_EmptySet DEF GroupsOnStack
  <2>. QED
    BY <2>1, <2>6
<1>5. ASSUME loop \in Operator
      PROVE  states \in Seq(Listed) /\ Len(states) \in Nat /\ pos \in 1..Len(states) + 1
             /\ WellFormed(states) /\ Straight(states)
  BY <1>5, ListGiven DEF ListAt, Straight
<1>6. CASE NotWithoutArgument
  <2>1. loop = "not" /\ pos <= Len(states) /\ LastOfRun(Len(states))
    BY <1>6 DEF NotWithoutArgument, InLoop
  <2>2. Len(states) \in 1..Len(states) /\ states[Len(states)] = "not"
    BY <1>5, <2>1 DEF LastOfRun, Operator
  <2>. QED
    BY <1>5, <2>1, <2>2 DEF WellFormed, Operator
<1>7. ASSUME NEW op \in {"and", "or"}, BinaryWithoutArgument(op) PROVE FALSE
  <2>1. loop = op /\ pos <= Len(states) /\ states[pos] = op /\ ~HasArguments(pos)
    BY <1>7 DEF BinaryWithoutArgument, InLoop
  <2>2. pos \in 1..Len(states)
    BY <1>5, <2>1 DEF Operator
  <2>3. pos > 1 /\ pos < Len(states)
    BY <1>5, <2>1, <2>2 DEF WellFormed, Operator
  <2>. QED
    BY <2>1, <2>3 DEF HasArguments
<1>8. CASE NothingLeft
  <2>1. loop \in Operator /\ states = <<>>
    BY <1>8 DEF NothingLeft, Reduced, EndOf, Operator
  <2>. QED
    BY <1>5, <2>1 DEF WellFormed
<1>. QED
  BY <1>1, <1>3, <1>4, <1>6, <1>7, <1>8

Evaluated ==
    \/ ApplyNot \/ StepOver \/ NextLoop
    \/ \E op \in {"and", "or"} : ApplyBinary(op)

LEMMA Thrown ==
    ASSUME Next
    PROVE  \/ PushToken \/ CloseGroup \/ Finish \/ GroupValue \/ ConditionValue
           \/ Evaluated \/ UNCHANGED vars
           \/ /\ Throw
              /\ \/ BadToken \/ UnmatchedClose \/ UnmatchedOpen
                 \/ NotWithoutArgument \/ NothingLeft
                 \/ \E op \in {"and", "or"} : BinaryWithoutArgument(op)
BY DEF Next, ReadStep, NotStep, BinaryStep, ReturnStep, BadToken, UnmatchedClose,
       UnmatchedOpen, NotWithoutArgument, BinaryWithoutArgument, NothingLeft, Stopped, Evaluated

LEMMA EvaluatedFrame ==
    ASSUME Evaluated
    PROVE  /\ loop \in Operator /\ loop' \in Operator
           /\ UNCHANGED <<control, at, applicable, next, stack, paren, grouped>>
           /\ tokens' = tokens
BY DEF Evaluated, ApplyNot, StepOver, NextLoop, ApplyBinary, InLoop, EndOf, Evaluating, Operator, tokens

\* The step that pushes a token, and the one that pushes a group's value.
LEMMA ReadKeptStep == ASSUME MInv, [Next]_vars PROVE ReadKept'
<1>1. ASSUME PushToken PROVE ReadKept'
  <2>1. /\ loop = "read" /\ next \in 1..Len(tokens) /\ tokens[next] # ")"
        /\ stack' = Append(stack, tokens[next]) /\ next' = next + 1 /\ tokens' = tokens
    BY <1>1, MTypes DEF PushToken, Reading, tokens
  <2>2. ASSUME Simple(tokens) PROVE stack' = Left(tokens)[next]
    <3>1. stack = Left(tokens)[next - 1]
      BY <2>1, <2>2 DEF MInv, ReadKept
    <3>2. Left(tokens)[next] = Taken(Left(tokens)[next - 1], tokens[next])
      BY <2>1, MTypes, LeftSteps
    <3>. QED
      BY <2>1, <3>1, <3>2 DEF Taken
  <2>3. next' - 1 = next
    BY <2>1
  <2>. QED
    BY <2>1, <2>2, <2>3 DEF ReadKept
<1>2. ASSUME GroupValue PROVE ReadKept'
  <2>1. /\ Reduced /\ grouped /\ loop \in Operator
        /\ stack' = Append(stack, Result) /\ UNCHANGED <<next, control, at>> /\ tokens' = tokens
    BY <1>2 DEF GroupValue, Reduced, EndOf, Operator, tokens
  <2>2. ASSUME Simple(tokens) PROVE stack' = Left(tokens)[next - 1]
    <3>1. Result = ValueOf(states)
      BY <2>1, <2>2, ListGiven, LastStage
    <3>. QED
      BY <2>1, <2>2, <3>1 DEF MInv, ListKept, Carried
  <2>. QED
    BY <2>1, <2>2 DEF ReadKept
<1>3. ASSUME ConditionValue PROVE ReadKept'
  <2>1. CASE at = Len(control)
    BY <1>3, <2>1 DEF ConditionValue, ReadKept
  <2>2. CASE at # Len(control)
    <3>1. at' = at + 1 /\ next' = 1 /\ control' = control /\ stack' = stack
      BY <1>3, <2>2 DEF ConditionValue
    <3>2. stack = <<>>
      BY <1>3 DEF ConditionValue, Reduced, EndOf, MInv, StackEmptied, Operator
    <3>3. Len(tokens') \in Nat
      <4>1. control \in Seq(Seq(Token)) /\ at + 1 \in 1..Len(control)
        BY <2>2, MTypes, SMTT(30) DEF ConditionTypeOK
      <4>. QED
        BY <3>1, <4>1 DEF tokens
    <3>4. Left(tokens')[next' - 1] = <<>>
      BY <3>1, <3>3, LeftSteps
    <3>. QED
      BY <3>1, <3>2, <3>4 DEF ReadKept
  <2>. QED
    BY <2>1, <2>2
<1>4. ASSUME UNCHANGED vars PROVE ReadKept'
  BY <1>4 DEF vars, MInv, ReadKept, tokens
<1>5. ASSUME loop' # "read" PROVE ReadKept'
  BY <1>5 DEF ReadKept
<1>6. CloseGroup \/ Finish \/ Evaluated \/ Throw => loop' # "read"
  BY EvaluatedFrame DEF CloseGroup, Finish, Reduce, Throw, Operator
<1>. QED
  BY <1>1, <1>2, <1>3, <1>4, <1>5, <1>6, Thrown

\* A group is evaluated with its own meaning.
LEMMA CloseKept == ASSUME MInv, CloseGroup PROVE ListKept'
<1>1. PICK o \in 1..Len(stack) :
        /\ stack[o] = "("
        /\ \A i \in o + 1..Len(stack) : stack[i] # "("
        /\ stack' = SubSeq(stack, 1, o - 1)
        /\ states' = Backwards(SubSeq(stack, o + 1, Len(stack)))
  BY DEF CloseGroup, Reduce
<1>2. /\ loop = "read" /\ next \in 1..Len(tokens) /\ tokens[next] = ")"
      /\ loop' = "not" /\ pos' = 1 /\ worked' = FALSE /\ grouped' = TRUE
      /\ next' = next + 1 /\ tokens' = tokens /\ next' - 1 = next
  BY MTypes DEF CloseGroup, Reading, Reduce, tokens
<1>3. SUFFICES ASSUME Simple(tokens) PROVE Straight(states') /\ Staged' /\ Carried'
  BY <1>2 DEF ListKept
<1>4. PICK p \in Innermost(stack) :
        /\ Straight(Inside(stack, p))
        /\ At("not", Inside(stack, p)) = {}
        /\ Left(tokens)[next] = Append(SubSeq(stack, 1, p - 1), ValueOf(Inside(stack, p)))
  <2>1. loop = "read" /\ next <= Len(tokens) /\ tokens[next] = ")"
    BY <1>2, MTypes
  <2>. QED
    BY <1>3, <2>1, GroupKept, Zenon
<1>5. p = o
  <2>1. /\ p \in 1..Len(stack) /\ stack[p] = "(" /\ \A i \in p + 1..Len(stack) : stack[i] # "("
    BY <1>4 DEF Innermost, At
  <2>. QED
    BY <1>1, <2>1, MTypes
<1> DEFINE s == Inside(stack, o)
<1>6. s \in Seq(Stacked) /\ states' = Backwards(s)
  BY <1>1, MTypes DEF Inside
<1>7. Straight(s) /\ WellFormed(s) /\ At("not", s) = {} /\ s # <<>>
  BY <1>4, <1>5 DEF Straight, WellFormed
<1> HIDE DEF s
<1>8. Len(s) \in Nat \ {0} /\ Opposite(s, states')
  BY <1>6, <1>7, BackwardsOpposite
<1>9. Straight(states') /\ (Holds(s) <=> Holds(states'))
  BY <1>7, <1>8, OppositeHolds, OppositeStraight
<1>10. Staged'
  BY <1>2, NoneYet DEF Staged
<1>11. Append(stack', ValueOf(states')) = Left(tokens)[next]
  <2>1. ValueOf(states') = ValueOf(s)
    BY <1>9 DEF ValueOf
  <2>2. Left(tokens)[next] = Append(SubSeq(stack, 1, o - 1), ValueOf(s))
    BY <1>4, <1>5 DEF s
  <2>. QED
    BY <1>1, <2>1, <2>2
<1>. QED
  BY <1>2, <1>9, <1>10, <1>11 DEF Carried

\* The list goes on meaning what its condition, or its group, means.
LEMMA ListKeptStep == ASSUME MInv, [Next]_vars PROVE ListKept'
<1>1. ASSUME Finish PROVE ListKept'
  <2>1. /\ loop = "read" /\ next - 1 = Len(tokens) /\ states' = stack /\ grouped' = FALSE
        /\ loop' = "not" /\ pos' = 1 /\ worked' = FALSE /\ tokens' = tokens
    BY <1>1, MTypes DEF Finish, AllRead, Reduce, tokens
  <2>2. ASSUME Simple(tokens) PROVE states' = Whole(tokens) /\ Straight(states')
    BY <2>1, <2>2 DEF MInv, ReadKept, Whole, Simple
  <2>3. Staged'
    BY <2>1, NoneYet DEF Staged
  <2>. QED
    BY <2>1, <2>2, <2>3 DEF ListKept, Carried
<1>2. ASSUME Evaluated PROVE ListKept'
  <2>1. SUFFICES ASSUME Simple(tokens) PROVE Straight(states') /\ Staged' /\ Carried'
    BY <1>2, EvaluatedFrame DEF ListKept
  <2>2. Straight(states') /\ Staged' /\ ValueOf(states') = ValueOf(states)
    BY <1>2, <2>1, EvaluatedFrame, ListGiven, LoopStage DEF Evaluated
  <2>3. Carried
    BY <1>2, <2>1, EvaluatedFrame DEF MInv, ListKept
  <2>. QED
    BY <1>2, <2>2, <2>3, EvaluatedFrame DEF Carried
<1>3. ASSUME UNCHANGED vars PROVE ListKept'
  BY <1>3 DEF vars, MInv, ListKept, Staged, Carried, tokens
<1>4. ASSUME loop' \notin Operator PROVE ListKept'
  BY <1>4 DEF ListKept
<1>5. PushToken \/ GroupValue \/ ConditionValue \/ Throw => loop' \notin Operator
  BY DEF PushToken, Reading, GroupValue, ConditionValue, Throw, Operator
<1>. QED
  BY <1>1, <1>2, <1>3, <1>4, <1>5, CloseKept, Thrown

\* A simple condition is never thrown out.
LEMMA ThrownStep == ASSUME MInv, [Next]_vars PROVE NeverThrown'
<1>1. ASSUME loop' # "thrown" PROVE NeverThrown'
  BY <1>1 DEF NeverThrown
<1>2. PushToken \/ CloseGroup \/ Finish \/ GroupValue \/ ConditionValue \/ Evaluated
        => loop' # "thrown"
  BY EvaluatedFrame DEF PushToken, Reading, CloseGroup, Finish, Reduce, GroupValue,
                        ConditionValue, Operator
<1>3. ASSUME UNCHANGED vars PROVE NeverThrown'
  BY <1>3 DEF vars, MInv, NeverThrown, tokens
<1>4. ASSUME Throw,
             \/ BadToken \/ UnmatchedClose \/ UnmatchedOpen
             \/ NotWithoutArgument \/ NothingLeft
             \/ \E op \in {"and", "or"} : BinaryWithoutArgument(op)
      PROVE  NeverThrown'
  <2>1. tokens' = tokens
    BY <1>4 DEF Throw, tokens
  <2>2. ~Simple(tokens)
    BY <1>4, NothingThrown
  <2>. QED
    BY <2>1, <2>2 DEF NeverThrown
<1>. QED
  BY <1>1, <1>2, <1>3, <1>4, Thrown

\* The stack is empty while the whole condition is evaluated.
LEMMA EmptiedStep == ASSUME MInv, [Next]_vars PROVE StackEmptied'
<1>1. ASSUME loop' \notin Operator \/ grouped' PROVE StackEmptied'
  BY <1>1 DEF StackEmptied
<1>2. PushToken \/ GroupValue \/ ConditionValue \/ Throw => loop' \notin Operator
  BY DEF PushToken, Reading, GroupValue, ConditionValue, Throw, Operator
<1>3. CloseGroup => grouped'
  BY DEF CloseGroup, Reduce
<1>4. Finish => StackEmptied'
  BY DEF Finish, StackEmptied
<1>5. Evaluated => StackEmptied'
  BY EvaluatedFrame DEF MInv, StackEmptied
<1>6. UNCHANGED vars => StackEmptied'
  BY DEF vars, MInv, StackEmptied
<1>. QED
  BY <1>1, <1>2, <1>3, <1>4, <1>5, <1>6, Thrown

\* A condition that has its value keeps it.
LEMMA ValuesKept ==
    ASSUME MInv, UNCHANGED <<control, at, applicable>>, loop' = "done" <=> loop = "done"
    PROVE  UsedValued' /\ ValuedRight'
<1>1. \A n : Valued(n)' <=> Valued(n)
  BY DEF Valued
<1>. QED
  BY <1>1 DEF MInv, UsedValued, ValuedRight

\* The values that have been found are right.
LEMMA ValuesStep == ASSUME MInv, [Next]_vars PROVE UsedValued' /\ ValuedRight'
<1>1. ASSUME ConditionValue PROVE UsedValued' /\ ValuedRight'
  <2>1. /\ Reduced /\ loop \in Operator /\ loop # "done" /\ control' = control
        /\ applicable' = IF Result = "true" THEN applicable \cup {at} ELSE applicable
        /\ ~grouped
    BY <1>1 DEF ConditionValue, Reduced, EndOf, Operator
  <2>2. at \in 1..Len(control) /\ Len(control) \in Nat /\ applicable \subseteq 1..at
    BY MTypes DEF ConditionTypeOK
  <2>3. \A n \in 1..Len(control) : Valued(n)' <=> Valued(n) \/ n = at
    <3>1. CASE at = Len(control)
      <4>1. at' = at /\ loop' = "done"
        BY <1>1, <3>1 DEF ConditionValue
      <4>. QED
        BY <2>1, <4>1 DEF Valued
    <3>2. CASE at # Len(control)
      <4>1. at' = at + 1 /\ loop' = "read"
        BY <1>1, <3>2 DEF ConditionValue
      <4>. QED
        BY <2>1, <2>2, <4>1 DEF Valued
    <3>. QED
      BY <3>1, <3>2
  <2>4. ~Valued(at) /\ at \notin applicable
    <3>1. ~Valued(at)
      BY <2>1, <2>2 DEF Valued
    <3>. QED
      BY <3>1 DEF MInv, UsedValued
  <2>5. ASSUME Simple(control[at]) PROVE at \in applicable' <=> Holds(Whole(control[at]))
    <3>1. Simple(tokens)
      BY <2>5 DEF tokens
    <3>2. Result = ValueOf(states)
      BY <2>1, <3>1, ListGiven, LastStage
    <3>3. ValueOf(states) = ValueOf(Whole(tokens))
      BY <2>1, <3>1 DEF MInv, ListKept, Carried
    <3>4. at \in applicable' <=> Result = "true"
      BY <2>1, <2>4
    <3>5. Result = "true" <=> Holds(Whole(tokens))
      BY <3>2, <3>3 DEF ValueOf
    <3>. QED
      BY <3>4, <3>5 DEF tokens
  <2>6. \A n : n # at => (n \in applicable' <=> n \in applicable)
    BY <2>1
  <2>7. ValuedRight'
    <3>1. SUFFICES ASSUME NEW n \in 1..Len(control), Simple(control[n]), Valued(n)'
                   PROVE  n \in applicable' <=> Holds(Whole(control[n]))
      BY <2>1 DEF ValuedRight
    <3>2. CASE n = at
      BY <2>5, <3>1, <3>2
    <3>3. CASE n # at
      <4>1. Valued(n)
        BY <2>3, <3>1, <3>3
      <4>2. n \in applicable <=> Holds(Whole(control[n]))
        BY <3>1, <4>1 DEF MInv, ValuedRight
      <4>. QED
        BY <2>6, <3>3, <4>2
    <3>. QED
      BY <3>2, <3>3
  <2>8. UsedValued'
    <3>1. \A n \in applicable' : n = at \/ n \in applicable
      BY <2>1
    <3>2. \A n \in applicable : n \in 1..Len(control) /\ Valued(n)
      BY <2>2 DEF MInv, UsedValued
    <3>3. \A n \in applicable' : Valued(n)'
      BY <2>2, <2>3, <3>1, <3>2
    <3>. QED
      BY <3>3 DEF UsedValued
  <2>. QED
    BY <2>7, <2>8
<1>2. PushToken \/ CloseGroup \/ Finish \/ GroupValue \/ Evaluated \/ UNCHANGED vars
        => UNCHANGED <<control, at, applicable>> /\ (loop' = "done" <=> loop = "done")
  BY EvaluatedFrame DEF PushToken, Reading, CloseGroup, Finish, AllRead, Reduce, GroupValue, Reduced,
                        EndOf, Operator, vars
<1>3. ASSUME Throw,
             \/ BadToken \/ UnmatchedClose \/ UnmatchedOpen
             \/ NotWithoutArgument \/ NothingLeft
             \/ \E op \in {"and", "or"} : BinaryWithoutArgument(op)
      PROVE  UNCHANGED <<control, at, applicable>> /\ (loop' = "done" <=> loop = "done")
  <2>1. loop # "done"
    BY <1>3 DEF BadToken, UnmatchedClose, UnmatchedOpen, Reading, AllRead, NotWithoutArgument,
                NothingLeft, Reduced, EndOf, InLoop, BinaryWithoutArgument
  <2>. QED
    BY <1>3, <2>1 DEF Throw
<1>. QED
  BY <1>1, <1>2, <1>3, ValuesKept, Thrown

LEMMA MStart == Init => MInv
<1>. SUFFICES ASSUME Init PROVE MInv
  OBVIOUS
<1>1. IInv
  BY InitHolds
<1>2. Len(tokens) \in Nat
  BY <1>1, Tokens DEF IInv
<1>3. ReadKept
  BY <1>2, LeftSteps DEF Init, ReadKept
<1>4. ListKept /\ NeverThrown /\ StackEmptied /\ UsedValued
  BY DEF Init, ListKept, NeverThrown, StackEmptied, UsedValued, Operator
<1>5. ValuedRight
  <2>1. at = 1 /\ loop = "read"
    BY DEF Init
  <2>2. \A n \in 1..Len(control) : ~Valued(n)
    <3>1. Len(control) \in Nat
      BY <1>1 DEF IInv, ConditionTypeOK
    <3>. QED
      BY <2>1, <3>1 DEF Valued
  <2>. QED
    BY <2>2 DEF ValuedRight
<1>. QED
  BY <1>1, <1>3, <1>4, <1>5 DEF MInv

\* A simple condition of any length is used iff it means true, in any control file,
\* and it never raises the exception: the loops that erase under their iterators,
\* the wrap to the first element and the reversal of the groups do not show.
THEOREM Meant == Spec => []ValuesAreMeanings
<1>1. MInv /\ [Next]_vars => MInv'
  <2>1. ASSUME MInv, [Next]_vars PROVE IInv'
    BY <2>1, Typing, Counting, ReadingStep, WholeStep, EarlierStep DEF MInv, IInv
  <2>. QED
    BY <2>1, ReadKeptStep, ListKeptStep, ThrownStep, EmptiedStep, ValuesStep DEF MInv
<1>2. MInv => ValuesAreMeanings
  BY DEF MInv, NeverThrown, ValuedRight, ValuesAreMeanings, tokens
<1>. QED
  BY MStart, <1>1, <1>2, PTL DEF Spec
----------------------------------------------------------------------------
(* The evaluation comes to an end.  Of EvaluationEnds this is what the      *)
(* program itself must bring: that its loops, which erase under their       *)
(* iterators and start over as long as they find work, always have less     *)
(* left to do.                                                              *)

\* a group is reduced between two tokens, the whole condition after the last one
Stage ==
    CASE loop \in Operator /\ grouped -> 3
      [] loop = "read" -> 2
      [] loop \in Operator /\ ~grouped -> 1
      [] loop \in {"done", "thrown"} -> 0

\* the loops to go until it is looked whether one of them did something
LoopsLeft == CASE loop = "not" -> 2 [] loop = "and" -> 1 [] loop \notin {"not", "and"} -> 0
LoopsToGo == IF worked THEN LoopsLeft + 3 ELSE LoopsLeft

BlocksLeft == Len(control) - at
TokensLeft == Len(tokens) + 1 - next
ListLeft == Len(states) + 1 - pos

\* what is left to do, the weightiest first
Effort == <<BlocksLeft, TokensLeft, Stage, Len(states), LoopsToGo, ListLeft>>
Efforts == [1..6 -> Nat]

Less == LexProductOrdering(OpToRel(<, Nat), Nat, 6)

EffortShrinks == [][(<<Effort', Effort>> \in Less)]_vars

\* There is no infinite sequence of efforts each less than the one before.
LEMMA NoEndlessEffort == IsWellFoundedOn(Less, Efforts)
BY NatLessThanWellFounded, WFLexProductOrdering DEF Less, Efforts

LEMMA LowerFirst ==
    ASSUME NEW a \in Efforts, NEW b \in Efforts, NEW k \in 1..6,
           a[k] < b[k], \A j \in 1..k - 1 : a[j] = b[j]
    PROVE  <<a, b>> \in Less
<1>1. <<a[k], b[k]>> \in OpToRel(<, Nat)
  BY DEF OpToRel, Efforts
<1>. QED
  BY <1>1 DEF Less, LexProductOrdering, Efforts

EffortNumbers ==
    /\ BlocksLeft \in Nat /\ TokensLeft \in Nat /\ Stage \in Nat
    /\ Len(states) \in Nat /\ LoopsToGo \in Nat /\ ListLeft \in Nat
    /\ Effort \in Efforts

LEMMA EffortTyped == ConditionTypeOK => EffortNumbers
<1> SUFFICES ASSUME ConditionTypeOK PROVE EffortNumbers
  OBVIOUS
<1>1. BlocksLeft \in Nat
  BY DEF ConditionTypeOK, BlocksLeft
<1>2. TokensLeft \in Nat
  <2>1. next \in 1..Len(tokens) + 1
    BY DEF ConditionTypeOK
  <2>. QED
    BY <2>1, Tokens DEF TokensLeft
<1>3. Stage \in Nat
  BY DEF ConditionTypeOK, Stage
<1>4. LoopsToGo \in Nat
  BY DEF ConditionTypeOK, LoopsToGo, LoopsLeft
<1>5. Len(states) \in Nat /\ ListLeft \in Nat
  BY DEF ConditionTypeOK, ListLeft
<1>. QED
  BY <1>1, <1>2, <1>3, <1>4, <1>5 DEF EffortNumbers, Effort, Efforts

LEMMA EffortTypedNext == ConditionTypeOK' => EffortNumbers'
BY EffortTyped, PTL

LEMMA EffortCompared ==
    ASSUME EffortNumbers, EffortNumbers',
           \/ BlocksLeft' < BlocksLeft
           \/ /\ BlocksLeft' = BlocksLeft
              /\ TokensLeft' < TokensLeft
           \/ /\ BlocksLeft' = BlocksLeft /\ TokensLeft' = TokensLeft
              /\ Stage' < Stage
           \/ /\ BlocksLeft' = BlocksLeft /\ TokensLeft' = TokensLeft /\ Stage' = Stage
              /\ \/ Len(states') < Len(states)
                 \/ Len(states') = Len(states) /\ LoopsToGo' < LoopsToGo
                 \/ Len(states') = Len(states) /\ LoopsToGo' = LoopsToGo /\ ListLeft' < ListLeft
    PROVE  <<Effort', Effort>> \in Less
<1> DEFINE a == Effort'
           b == Effort
<1>1. a \in Efforts /\ b \in Efforts
  BY DEF EffortNumbers
<1>2. /\ a[1] = BlocksLeft' /\ a[2] = TokensLeft' /\ a[3] = Stage'
      /\ a[4] = Len(states') /\ a[5] = LoopsToGo' /\ a[6] = ListLeft'
      /\ b[1] = BlocksLeft /\ b[2] = TokensLeft /\ b[3] = Stage
      /\ b[4] = Len(states) /\ b[5] = LoopsToGo /\ b[6] = ListLeft
  BY DEF Effort
<1> HIDE DEF a, b
<1>3. \/ a[1] < b[1]
      \/ a[1] = b[1] /\ a[2] < b[2]
      \/ a[1] = b[1] /\ a[2] = b[2] /\ a[3] < b[3]
      \/ a[1] = b[1] /\ a[2] = b[2] /\ a[3] = b[3] /\ a[4] < b[4]
      \/ a[1] = b[1] /\ a[2] = b[2] /\ a[3] = b[3] /\ a[4] = b[4] /\ a[5] < b[5]
      \/ a[1] = b[1] /\ a[2] = b[2] /\ a[3] = b[3] /\ a[4] = b[4] /\ a[5] = b[5] /\ a[6] < b[6]
  BY <1>2, Zenon
<1>4. \E k \in 1..6 : a[k] < b[k] /\ \A j \in 1..k - 1 : a[j] = b[j]
  BY <1>3
<1>. QED
  BY <1>1, <1>4, LowerFirst DEF a, b

\* A turn of one of the three loops erases something, or leaves it for the next
\* one, or goes on in the list; only what has been erased brings another round.
LEMMA LoopsShrink ==
    ASSUME ConditionTypeOK,
           ApplyNot \/ (\E op \in {"and", "or"} : ApplyBinary(op)) \/ StepOver \/ NextLoop
    PROVE  /\ BlocksLeft' = BlocksLeft /\ TokensLeft' = TokensLeft /\ Stage' = Stage
           /\ \/ Len(states') < Len(states)
              \/ Len(states') = Len(states) /\ LoopsToGo' < LoopsToGo
              \/ Len(states') = Len(states) /\ LoopsToGo' = LoopsToGo /\ ListLeft' < ListLeft
<1>1. /\ UNCHANGED <<control, at, next, grouped>>
      /\ loop \in Operator /\ loop' \in Operator
  BY DEF ApplyNot, ApplyBinary, StepOver, NextLoop, Evaluating, InLoop, EndOf, Operator
<1>2. BlocksLeft' = BlocksLeft /\ TokensLeft' = TokensLeft /\ Stage' = Stage
  BY <1>1 DEF BlocksLeft, TokensLeft, tokens, Stage, Operator
<1>3. states \in Seq(Listed) /\ Len(states) \in Nat /\ pos \in Nat /\ worked \in BOOLEAN
  BY DEF ConditionTypeOK, Listed
<1>4. CASE ApplyNot
  <2>1. PICK n \in pos..Len(states) : n < Len(states) /\ states' = Negate(n)
    BY <1>4 DEF ApplyNot
  <2>2. pos \in 1..Len(states)
    BY <1>4 DEF ApplyNot, InLoop, ConditionTypeOK
  <2>3. Len(Negate(n)) = Len(states) - (n + 1 - pos)
    BY <1>3, <2>1, <2>2, NegateTyped
  <2>4. Len(states) - (n + 1 - pos) < Len(states)
    BY <1>3, <2>1, <2>2
  <2>. QED
    BY <1>2, <2>1, <2>3, <2>4
<1>5. ASSUME NEW op \in {"and", "or"}, ApplyBinary(op) PROVE Len(states') < Len(states)
  <2>1. /\ pos \in 1..Len(states) /\ HasArguments(pos)
        /\ states' = Shortened(pos, Combined(op, states[pos - 1], states[pos + 1]))
    BY <1>5 DEF ApplyBinary, InLoop, ConditionTypeOK
  <2>2. Len(states') = Len(states) - 2
    BY <1>3, <2>1, CombinedTyped, ShortenedTyped
  <2>. QED
    BY <1>3, <2>2
<1>6. CASE StepOver
  <2>1. UNCHANGED <<states, worked, loop>> /\ pos' = pos + 1
    BY <1>6 DEF StepOver
  <2>2. LoopsToGo' = LoopsToGo /\ ListLeft' = Len(states) + 1 - (pos + 1)
    BY <2>1 DEF LoopsToGo, LoopsLeft, ListLeft
  <2>3. Len(states) + 1 - (pos + 1) < Len(states) + 1 - pos
    BY <1>3
  <2>. QED
    BY <1>2, <2>1, <2>2, <2>3 DEF ListLeft
<1>7. CASE NextLoop
  <2>1. states' = states
    BY <1>7 DEF NextLoop
  <2>2. LoopsToGo' < LoopsToGo
    BY <1>3, <1>7 DEF NextLoop, EndOf, LoopsToGo, LoopsLeft
  <2>. QED
    BY <1>2, <2>1, <2>2
<1>8. CASE \E op \in {"and", "or"} : ApplyBinary(op)
  <2>1. PICK op \in {"and", "or"} : ApplyBinary(op)
    BY <1>8
  <2>2. Len(states') < Len(states)
    BY <1>5, <2>1
  <2>. QED
    BY <1>2, <2>2
<1>. QED
  BY <1>4, <1>6, <1>7, <1>8, ZenonT(30)

LEMMA EvaluationShrinks ==
    ASSUME ConditionTypeOK, ConditionTypeOK', Next
    PROVE  <<Effort', Effort>> \in Less \/ UNCHANGED vars
<1>1. EffortNumbers /\ EffortNumbers'
  BY EffortTyped, EffortTypedNext, Zenon
<1>2. control \in Seq(Seq(Token)) /\ at \in Nat /\ next \in Nat /\ Len(tokens) \in Nat
  BY Tokens DEF ConditionTypeOK
<1>3. CASE PushToken \/ CloseGroup
  <2>1. UNCHANGED <<control, at>> /\ next' = next + 1
    BY <1>3 DEF PushToken, CloseGroup
  <2>2. BlocksLeft' = BlocksLeft /\ TokensLeft' = Len(tokens) + 1 - (next + 1)
    BY <2>1 DEF BlocksLeft, TokensLeft, tokens
  <2>3. Len(tokens) + 1 - (next + 1) < TokensLeft
    BY <1>2 DEF TokensLeft
  <2>. QED
    BY <1>1, <2>2, <2>3, EffortCompared
<1>4. CASE Finish
  <2>1. UNCHANGED <<control, at, next>> /\ loop = "read" /\ loop' = "not" /\ grouped' = FALSE
    BY <1>4 DEF Finish, AllRead, Reduce
  <2>2. BlocksLeft' = BlocksLeft /\ TokensLeft' = TokensLeft /\ Stage' = 1 /\ Stage = 2
    BY <2>1 DEF BlocksLeft, TokensLeft, tokens, Stage, Operator
  <2>. QED
    BY <1>1, <2>2, EffortCompared
<1>5. CASE GroupValue
  <2>1. UNCHANGED <<control, at, next>> /\ loop = "or" /\ grouped /\ loop' = "read"
    BY <1>5 DEF GroupValue, Reduced, EndOf
  <2>2. BlocksLeft' = BlocksLeft /\ TokensLeft' = TokensLeft /\ Stage' = 2 /\ Stage = 3
    BY <2>1 DEF BlocksLeft, TokensLeft, tokens, Stage, Operator
  <2>. QED
    BY <1>1, <2>2, EffortCompared
<1>6. CASE ConditionValue
  <2>1. loop = "or" /\ ~grouped /\ control' = control
    BY <1>6 DEF ConditionValue, Reduced, EndOf
  <2>2. CASE at = Len(control)
    <3>1. UNCHANGED <<control, at, next>> /\ loop' = "done"
      BY <1>6, <2>2 DEF ConditionValue
    <3>2. BlocksLeft' = BlocksLeft /\ TokensLeft' = TokensLeft /\ Stage' = 0 /\ Stage = 1
      BY <2>1, <3>1 DEF BlocksLeft, TokensLeft, tokens, Stage, Operator
    <3>. QED
      BY <1>1, <3>2, EffortCompared
  <2>3. CASE at # Len(control)
    <3>1. control' = control /\ at' = at + 1
      BY <1>6, <2>3 DEF ConditionValue
    <3>2. BlocksLeft' = Len(control) - (at + 1)
      BY <3>1 DEF BlocksLeft
    <3>3. Len(control) - (at + 1) < BlocksLeft
      BY <1>2 DEF BlocksLeft
    <3>. QED
      BY <1>1, <3>2, <3>3, EffortCompared
  <2>. QED
    BY <2>2, <2>3
<1>7. CASE \/ BadToken \/ UnmatchedClose \/ UnmatchedOpen \/ NotWithoutArgument \/ NothingLeft
           \/ \E op \in {"and", "or"} : BinaryWithoutArgument(op)
  <2>1. UNCHANGED <<control, at, next>> /\ loop' = "thrown"
    BY <1>7 DEF BadToken, UnmatchedClose, UnmatchedOpen, NotWithoutArgument, NothingLeft,
         BinaryWithoutArgument, Throw
  <2>2. loop \in {"read"} \cup Operator
    BY <1>7 DEF BadToken, UnmatchedClose, UnmatchedOpen, NotWithoutArgument, NothingLeft,
         BinaryWithoutArgument, Reading, AllRead, InLoop, Reduced, EndOf, Operator
  <2>3. BlocksLeft' = BlocksLeft /\ TokensLeft' = TokensLeft /\ Stage' = 0
    BY <2>1 DEF BlocksLeft, TokensLeft, tokens, Stage, Operator
  <2>4. 0 < Stage
    <3>1. grouped \in BOOLEAN
      BY DEF ConditionTypeOK
    <3>. QED
      BY <2>2, <3>1 DEF Stage, Operator
  <2>. QED
    BY <1>1, <2>3, <2>4, EffortCompared
<1>8. CASE ApplyNot \/ (\E op \in {"and", "or"} : ApplyBinary(op)) \/ StepOver \/ NextLoop
  BY <1>1, <1>8, LoopsShrink, EffortCompared
<1>9. CASE Stopped
  BY <1>9 DEF Stopped
<1>. QED
  BY <1>3, <1>4, <1>5, <1>6, <1>7, <1>8, <1>9
     DEF Next, ReadStep, NotStep, BinaryStep, ReturnStep

\* With every step there is less left to do, for conditions of any length, well
\* formed or not: the evaluation takes finitely many steps (NoEndlessEffort).
THEOREM EveryStepCounts == Spec => [](Effort \in Efforts) /\ EffortShrinks
<1>1. ConditionTypeOK => Effort \in Efforts
  BY EffortTyped DEF EffortNumbers
<1>2. ConditionTypeOK /\ ConditionTypeOK' /\ [Next]_vars => [(<<Effort', Effort>> \in Less)]_vars
  BY EvaluationShrinks
<1>. QED
  BY <1>1, <1>2, Typed, PTL DEF Spec, EffortShrinks
============================================================================
