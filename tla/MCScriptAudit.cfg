SPECIFICATION FairSpec
CONSTANTS
  Requests = {r1, r2, r3}
  MaxFaults = 1
INVARIANTS
  TrailIsTruthful
  AnswerNamesRow
  MissingRowHasCause
PROPERTIES
  RequestEnds
