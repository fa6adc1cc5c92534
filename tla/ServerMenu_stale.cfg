SPECIFICATION Spec
CONSTANTS
  Users = {u1}
  Servers = {s1, s2}
  MaxMessages = 1
  MaxPresses = 2
INVARIANT
  ButtonHitsItsServer
