CONSTANTS
  p = p
  q = q
  pKind = "Image"
  qKind = "Artefact"
  Alone = {}
  Obj <- MCObj
  Name <- MCObj
  Kind <- MCKind
  Refs <- QRefersToP
  HostName <- OwnName
  Answers = {}
  Faults = {"federation"}
  Failing = {}
  AtOnce <- PairOrOne
SPECIFICATION RetrySpec
PROPERTY DeletionCompletes
