SPECIFICATION FairSpec
CONSTANTS
  Calls = {c1}
  ContainerCalls = {}
  Prompt = TRUE
  MaxLives = 1
  MaxFaults = 0
PROPERTY
  FallbackServes
