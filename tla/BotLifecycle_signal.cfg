\* One signal is enough: it is handled, and the process goes on.
SPECIFICATION FairSpec
CONSTANTS
  MaxUpdates = 1
  Buffer = 1
  MaxSignals = 2
  MaxLives = 1
PROPERTY SignalEndsProcess
CHECK_DEADLOCK FALSE
