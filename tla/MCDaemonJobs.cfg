\* Two requests for one job, on one connection: both may ask for it, or one
\* peek at it.
SPECIFICATION FairSpec
CONSTANTS
  Request = {r1, r2}
  Session = {s1}
  MaxDrops = 1
  Job = {j1}
  Kind = {"await_job", "peek_job"}
  Nil = Nil
INVARIANT
  ReachedJobIsOver
PROPERTY
  AwaitedJobsAreAnswered
CHECK_DEADLOCK FALSE
