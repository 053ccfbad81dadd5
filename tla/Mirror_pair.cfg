CONSTANTS
  p = p
  q = q
  pKind = "AvailabilityZone"
  qKind = "ApplicationDeployment"
  Alone = {"ApplicationOnboarding", "ConsumptionMonitoring"}
  Obj <- MCObj
  Name <- MCObj
  Kind <- MCKind
  Refs <- QRefersToP
  HostName <- OwnName
  Answers = {"READY"}
  Faults = {"crash", "patch"}
  Failing <- Alone
  AtOnce <- PairOrOne
SPECIFICATION Spec
INVARIANTS
  TypeOK
  NoOrphanCopy
  ReadyHasCopy
  MirrorInv
  ReadyInv
PROPERTIES
  DeleteStartsClean
  KeepsPromise
