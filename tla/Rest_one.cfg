CONSTANTS
  p = p
  pKind = "Image"
  Obj <- One
  Name <- One
  Kind <- MCKind
  Refs <- NoRefs
  HostName <- OwnName
  Answers = {"READY", "FAILED"}
  Faults = {"crash", "patch", "federation"}
  Failing = {}
  AtOnce <- Together
  Network = {"refuse", "lost", "POST", "callback"}
  MaxLate = 1
SPECIFICATION RestSpec
INVARIANTS
  RestTypeOK
  KeptOrStray
  ReadyOverRest
  RestInv
