SPECIFICATION Spec
CONSTANTS
  Requests <- ExclusiveOnly
  Tickets = {1, 2}
  Commands = {"Apply", "Revert", "Disarm", "Reset", "Park", "RefreshRate", "Snapshot"}
  Events = {"identity"}
  MaxDiscoveries = 2
  MaxRepairs = 2
  Throws = FALSE
  MaxInputs = 3
  MaxEpoch = 2
INVARIANTS
  TypeOK
  FenceMatchesDispatcher
  DeferredHasOwner
  HeartbeatLive
  TicketTruthful
  OneLiveCheck
  HeldHasReset
  LeaseKept
  HonestAnswer
  RetryArmed
\* The helper may stop, and its clients may fall silent.
CHECK_DEADLOCK FALSE
