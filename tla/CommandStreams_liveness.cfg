SPECIFICATION FairSpec
CONSTANTS
  Requests = {r1, r2}
  ReadCount = 2
  StreamMaxLength = 2
  MaxLives = 2
  MaxFaults = 1
PROPERTIES
  ImplementsRPC
  CallsEnd
  ReceivedIsExecuted
