SPECIFICATION FairSpec
CONSTANTS
  Requests = {r1, r2}
  ReadCount = 2
  StreamMaxLength = 2
  MaxLives = 1
  MaxFaults = 0
PROPERTY
  EveryCommandReceived
