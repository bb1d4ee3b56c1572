CONSTANTS
  s1 = s1
  s2 = s2
  s3 = s3
  c1 = c1
  c2 = c2
  None = None
  Sessions = {s1, s2, s3}
  Claims = {c1, c2}
  Disturbances <- AllDisturbances
  MaxChanges = 3

SPECIFICATION FairSpec
INVARIANTS TypeOK OneSession OthersCancelled
PROPERTIES CancelledEnds Settles
CHECK_DEADLOCK FALSE
