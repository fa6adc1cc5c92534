SPECIFICATION FairSpec
CONSTANTS
  Calls = {c1, c2}
  ContainerCalls = {c2}
  Prompt = FALSE
  MaxLives = 2
  MaxFaults = 2
INVARIANTS
  TypeOK
  OwnAnswer
  AtMostOnce
  NoLostReply
PROPERTIES
  ImplementsRPC
  CallsEnd
