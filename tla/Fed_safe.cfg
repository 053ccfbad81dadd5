CONSTANTS
  InitialDate = 1
  Lead = 1
  Term = 2
  Horizon = 5
  MaxLag = 1
  Zones = {1}
  Extensions = {5}
  Events = {"delete", "restart", "remote", "late"}
SPECIFICATION Spec
INVARIANTS
  TypeOK
  FedInv
  GuestBacked
  LockedInTime
PROPERTIES
  StaysArmed
  UnlockedByDate
CHECK_DEADLOCK FALSE
