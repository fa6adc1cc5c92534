SPECIFICATION FairSpec
CONSTANTS
  Users = {u1, u2}
  Keys = {k1, k2}
  Instances = {b1, b2}
  Ids = {s1, s2, s3}
INVARIANTS
  TypeOK
  Consistent
  OnlyGeneratedKeys
  OnlyLinklessRemovalsDeadlock
PROPERTIES
  OthersKeepTheirs
  AloneLeavesNoOrphan
  AloneConnects
  TransactionsEnd
  ImplementsRegistry
