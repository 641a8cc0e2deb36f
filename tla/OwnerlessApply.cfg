SPECIFICATION Spec
CONSTANTS
  Requests <- VirtualOnly
  Tickets = {0}
  Commands = {"Apply", "Disarm"}
  Events = {}
  MaxDiscoveries = 2
  MaxRepairs = 2
  Throws = FALSE
  MaxInputs = 2
  MaxEpoch = 2
INVARIANTS
  OwnedInProgress
\* The helper may stop, and its clients may fall silent.
CHECK_DEADLOCK FALSE
