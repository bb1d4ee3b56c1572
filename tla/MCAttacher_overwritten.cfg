CONSTANTS
  n1 = n1
  n2 = n2
  s1 = s1
  s2 = s2
  s3 = s3
  b1 = b1
  None = None
  Nodes = {n1, n2}
  Sessions = {s1, s2, s3}
  Bindings = {b1}
  Weight <- Restarting
  MaxChanges = 1
SPECIFICATION Spec
PROPERTIES NeverOverwritten
CHECK_DEADLOCK FALSE
