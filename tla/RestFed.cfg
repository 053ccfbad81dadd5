CONSTANTS
  MaxLag = 1
  Events = {"delete", "renew", "ask", "others", "refuse", "lost", "crash", "patch", "policy"}
SPECIFICATION FairSpec
INVARIANTS
  TypeOK
  Backed
  RestFedInv
PROPERTIES
  NeverBack
  Established
  RemovalCompletes
CHECK_DEADLOCK FALSE
