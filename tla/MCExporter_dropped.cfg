CONSTANTS
  s1 = s1
  s2 = s2
  c1 = c1
  c2 = c2
  None = None
  Sessions = {s1, s2}
  Claims = {c1, c2}
  Disturbances <- AllDisturbances
  MaxChanges = 3
SPECIFICATION Spec
INVARIANT OneUsbredirect
CHECK_DEADLOCK FALSE
