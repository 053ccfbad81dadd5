CONSTANTS
  f1 = f1
  f2 = f2
  o1 = o1
  o2 = o2
  Op <- OneOp
  Fed <- TwoFeds
  OpOf <- SameOp
  Parents <- F1Only
  Faults = {"fails"}
SPECIFICATION FairSpec
INVARIANTS
  PolicyTypeOK
  SetIsListed
PROPERTIES
  GetsAdmitted
  DeletedChildGoes
CHECK_DEADLOCK FALSE
