\* Two getters, and two awaiters, so that one may end the other's helper; two
\* consumers, so that a woken one can find the queue emptied again; four items,
\* so that the queue empties and fills twice.
SPECIFICATION PartsSpec
CONSTANTS
  Value = {v1, v2}
  Getter = {g1, g2}
  Awaiter = {a1, a2}
  Nil = Nil
  Timeout = Timeout
  Element = {x, y}
  Consumer = {c1, c2}
  Empty = Empty
  MaxItems = 4
INVARIANTS
  TypeOK
  NoSleeperOnceReached
  PanicsOnlyWhenShared
  QueueIsTyped
  ListIsWhole
  NoSleeperWhileNonEmpty
PROPERTIES
  ImplementsPromise
  GetReturns
  AwaitReturns
  ImplementsFifo
  ElementsAreTaken
\* Everyone has returned, or everyone is blocked in Take after MaxItems
\* additions, and nobody is obliged to call again.
CHECK_DEADLOCK FALSE
