SPECIFICATION MCFairSpec
CONSTANTS
  None = None
  Sessions = {s1}
  Installs = {i1, i2}
  Dests = {d1, d2}
  First = d1
  Ops = {o1, o2}
  Kinds = {"create", "touch", "delete"}
  MaxMoves = 2
  MaxRetries = 1
  MaxFaults = 1
INVARIANTS
  Consistent
  WritesStay
PROPERTY
  Heals
