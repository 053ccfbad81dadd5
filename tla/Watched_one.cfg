CONSTANTS
  x = x
  name = name
  kx = "ConsumptionMonitoring"
  Obj <- OneChild
  Name <- OneChild
  Key <- Keys
  Kind <- MCKind
  Refs <- NoRefs
  HostName <- OwnCopyName
  LocalName <- OneKey
  Answers = {"READY", "FAILED"}
  Faults = {"federation", "recreate", "crash"}
  Failing <- OneChild
  AtOnce <- Together
SPECIFICATION WatchFairSpec
INVARIANTS
  WatchTypeOK
  WatcherOwned
  NoOrphanCopy
PROPERTIES
  WatcherLasts
  SeenAnswerComesBack
  DeletionCompletes
