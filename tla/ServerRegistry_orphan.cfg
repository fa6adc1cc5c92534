SPECIFICATION Spec
CONSTANTS
  Users = {u1, u2}
  Keys = {k1}
  Instances = {b1, b2}
  Ids = {s1, s2, s3}
INVARIANT
  NoOrphan
