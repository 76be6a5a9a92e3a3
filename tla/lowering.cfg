SPECIFICATION Spec
CONSTANTS
  A = A
  B = B
  C = C
  Inner = Inner
  Null = Null
  F = F
  G = G
  NoField = NoField
  Values = {A, B, C, Inner, Null}
  Unlowerable = {Null}
  Anchored = {Inner}
  FieldOf <- MCFieldOf
  Conditions <- MCConditions
  MaxAlternatives = 4
  MaxPredicates = 3
  MaxChildRules = 3
  MaxDepth = 4
  MaxHeight = 5
  MaxPatternSize = 2
  MaxFields = 2
  MaxXmlSize = 5
INVARIANTS
  TypeOK
  NormalizationExact
  RulesExact
  SupportedNeverRejected
CHECK_DEADLOCK FALSE
