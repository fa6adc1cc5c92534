\* Two lives, two signals, three updates, a channel of two.  The
\* bot may end for good, and with every bound used up nothing is left to do.
SPECIFICATION FairSpec
CONSTANTS
  MaxUpdates = 3
  Buffer = 2
  MaxSignals = 2
  MaxLives = 2
INVARIANT TypeOK
INVARIANT NoGap
INVARIANT ClosedOnlyWhenIdle
INVARIANT PanicsOnlyAfterStop
PROPERTY StopEnds
PROPERTY UpdatesHandled
CHECK_DEADLOCK FALSE
