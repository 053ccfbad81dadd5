CONSTANTS
  p = p
  q = q
  pKind = "Image"
  qKind = "Artefact"
  Alone = {}
  Obj <- MCObj
  Name <- MCObj
  Kind <- MCKind
  Refs <- QRefersToP
  HostName <- OwnName
  Answers = {"READY"}
  Faults = {}
  Failing = {}
  AtOnce <- PairOrOne
SPECIFICATION FairSpec
PROPERTY EveryChildMirrored
