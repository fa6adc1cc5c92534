SPECIFICATION Spec
CONSTANTS
  Users = {u1, u2}
  Servers = {s1, s2}
  MaxMessages = 1
  MaxPresses = 1
SYMMETRY Symmetry
INVARIANTS
  TypeOK
  OwnServersOnly
  UnchangedListHits
PROPERTIES
  OthersKeepMyNumbers
  ImplementsRegistry
