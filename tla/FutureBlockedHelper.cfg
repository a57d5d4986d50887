SPECIFICATION Spec
CONSTANTS
  Value = {v1}
  Getter = {}
  Awaiter = {a1}
  Nil = Nil
  Timeout = Timeout
INVARIANT SendsOnlyToAReceiver
CHECK_DEADLOCK FALSE
