CONSTANTS
  p = p
  pKind = "ApplicationOnboarding"
  Obj <- One
  Name <- One
  Kind <- MCKind
  Refs <- NoRefs
  HostName <- OwnName
  Answers = {"READY", "FAILED"}
  Faults = {}
  Failing = {}
  AtOnce <- Together
  Network = {"refuse", "lost"}
  MaxLate = 0
SPECIFICATION RestFairSpec
PROPERTIES
  AnswerReaches
  RestDeletionCompletes
