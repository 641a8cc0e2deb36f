SPECIFICATION FairSpec
CONSTANTS
  Requests <- RejectedToo
  Tickets = {0}
  Commands = {"Apply", "Revert", "Disarm", "Reset"}
  Events = {"generic"}
  MaxDiscoveries = 2
  MaxRepairs = 2
  Throws = TRUE
  MaxInputs = 2
  MaxEpoch = 2
PROPERTIES
  
  IntentHonoured
  RevertServed
\* The helper may stop, and its clients may fall silent.
CHECK_DEADLOCK FALSE
