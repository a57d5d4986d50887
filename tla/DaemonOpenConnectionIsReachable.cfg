SPECIFICATION Spec
CONSTANTS
  Request = {r1, r2}
  Session = {s1, s2, s3}
  MaxDrops = 1
  Job = {}
  Kind = {"call"}
  Nil = Nil
INVARIANT OpenConnectionIsReachable
CHECK_DEADLOCK FALSE
