SPECIFICATION PartsSpec
CONSTANTS
  v1 = v1  v2 = v2  v3 = v3  v4 = v4  c1 = c1  c2 = c2  n1 = n1  n2 = n2  n3 = n3
  Volume <- Volumes
  Asked <- TwoAsked
  MaxTries = 4
  MaxScans = 3
  Target <- Three
  Elsewhere <- Second
  Receptions = 3
  User <- Users
  NameOf <- Names
  Several <- ArgsOfTwo
  Singles <- ArgsOfOne
  MaxActive = 2
  None = None
  CanFail = TRUE
INVARIANTS
  WaitedForDevices
  ReportedOnce
  
  FailureLeavesNothing
  SingleCreateIsWhole
PROPERTIES
  OthersAreLeftAlone
CHECK_DEADLOCK FALSE
