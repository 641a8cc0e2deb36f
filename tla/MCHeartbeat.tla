----------------------------- MODULE MCHeartbeat -----------------------------
EXTENDS Heartbeat
==============================================================================
