SPECIFICATION Spec
CONSTANTS
  Requests <- MixedRequests
  Tickets = {0}
  Commands = {"Apply", "Reactivate", "Revert", "Disarm", "Reset", "Stop"}
  Events = {}
  MaxDiscoveries = 2
  MaxRepairs = 2
  Throws = FALSE
  MaxInputs = 2
  MaxEpoch = 3
INVARIANTS
  OneIntent
  SettlementAlone
PROPERTIES
  
  ExitClean
\* The helper may stop, and its clients may fall silent.
CHECK_DEADLOCK FALSE
