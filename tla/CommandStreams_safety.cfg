SPECIFICATION Spec
CONSTANTS
  Requests = {r1, r2}
  ReadCount = 2
  StreamMaxLength = 2
  MaxLives = 2
  MaxFaults = 2
SYMMETRY Symmetry
INVARIANTS
  TypeOK
  OwnAnswer
  NoMissedAnswer
  InOrderPerLife
  AnswersInRunOrder
