CONSTANTS
  InitialDate = 1
  Lead = 1
  Term = 2
  Horizon = 5
  MaxLag = 1
  Zones = {}
  Extensions = {}
  Events = {"renew", "policy"}
SPECIFICATION FairSpec
INVARIANTS
  FedInv
PROPERTIES
  UnlockedByDate
  ArmedGetsLocked
  Established
CHECK_DEADLOCK FALSE
