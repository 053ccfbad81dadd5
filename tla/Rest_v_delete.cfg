CONSTANTS
  p = p
  pKind = "ApplicationOnboarding"
  Obj <- One
  Name <- One
  Kind <- MCKind
  Refs <- NoRefs
  HostName <- OwnName
  Answers = {}
  Faults = {}
  Failing = {}
  AtOnce <- Together
  Network = {}
  MaxLate = 0
SPECIFICATION RestFairSpec
PROPERTY DeletionReachesHost
