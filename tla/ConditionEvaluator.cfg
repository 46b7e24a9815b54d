SPECIFICATION FairSpec
CONSTANTS
  Condition <- MCCondition
  Control <- MCControl
INVARIANTS
  ValuesAreMeanings
PROPERTIES
  EvaluationEnds
