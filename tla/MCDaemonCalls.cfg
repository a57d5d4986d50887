\* Two requests and three sessions: sharing, retry and reuse of a slot.
SPECIFICATION FairSpec
CONSTANTS
  Request = {r1, r2}
  Session = {s1, s2, s3}
  MaxDrops = 1
  Job = {}
  Kind = {"call"}
  Nil = Nil
INVARIANTS
  TypeOK
  ReplyMatchesCall
  NoWaiterOnDeadSession
  PendingFutureHasMaker
  SlotIsChannel
  RunsAtMostOnce
PROPERTY
  CallsAreAnswered
CHECK_DEADLOCK FALSE
