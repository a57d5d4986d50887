SPECIFICATION PartsSpec
CONSTANTS
  Client = {c1, c2}
  Daemon = {1, 2, 3}
  Calls = 1
  Retries = 2
  MaxStops = 1
  StaleFile = {TRUE, FALSE}
  Prompt = FALSE
  Command = {c1, c2}
  Name = {a, b}
  Url = {u}
  Key = {k1, k2}
  Unset = Unset
  FirstFile = {"absent", "object", "null", "unreadable"}
  MaxActive = 1
INVARIANTS
  CallRunsAtMostOnce
  EndsAfterItsJobs
  StoredPairsWereTried
PROPERTIES
  
  ImplementsHostTable
CHECK_DEADLOCK FALSE
