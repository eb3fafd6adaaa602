SPECIFICATION MCFairSpec
CONSTANTS
  a = a
  b = b
  s = s
  t = t
  q1 = q1
  q2 = q2
  q3 = q3
  r1 = r1
  r2 = r2
  l1 = l1
  l2 = l2
  None = None
  Installs = {a, b}
  Hosted <- MCHosted
  Sessions = {s, t}
  Requests = {q1, q2, q3}
  Kinds = {"open", "agent", "enable", "disable", "delete", "close", "shutdown"}
  Relays = {r1, r2}
  Listeners = {l1, l2}
  MaxMoves = 2
  MaxFaults = 1
INVARIANTS
  Consistent
  RoutesSound
PROPERTY
  GateReleased
CHECK_DEADLOCK FALSE
