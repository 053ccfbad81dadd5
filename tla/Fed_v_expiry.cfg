CONSTANTS
  InitialDate = 1
  Lead = 1
  Term = 2
  Horizon = 5
  MaxLag = 1
  Zones = {}
  Extensions = {}
  Events = {}
SPECIFICATION FairSpec
PROPERTIES
  EveryFederationExpires
CHECK_DEADLOCK FALSE
