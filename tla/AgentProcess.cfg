\* Two pieces of work, commands or rounds of the collector, in two lives: the
\* second life executes the commands again.  With every bound used up nothing
\* is left to do.
SPECIFICATION FairSpec
CONSTANTS
  Commands = {1, 2}
  MaxRelease = 2
  CounterValues = 4
  MaxTraffic = 2
  MaxResets = 1
  MaxWork = 2
  MaxLives = 2
INVARIANTS
  TypeOK
  AloneInstallsVerified
  BrokenHasBackup
  SpeedIsTraffic
PROPERTY
  ComesBack
CHECK_DEADLOCK FALSE
