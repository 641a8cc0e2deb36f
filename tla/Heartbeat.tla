------------------------------ MODULE Heartbeat ------------------------------
(***************************************************************************)
(* HeartbeatMonitor of the display helper                                  *)
(* (src/src/platform/windows/display_helper_v2/runtime_support.h) and the  *)
(* callers that drive it: the pipe thread (arm on connect, record_ping on  *)
(* every Ping frame, disarm on disconnect), the state machine              *)
(* (record_liveness_ping on a recovery-status poll) and the main loop,     *)
(* which polls check_timeout.  Every method holds the monitor's mutex, so  *)
(* each one is an atomic step.  The clock is an integer; one unit stands   *)
(* for any fixed slice of real time.                                       *)
(***************************************************************************)
EXTENDS Integers

CONSTANTS
    OptionalWindow,   \* optional_window_: no verdict this soon after arm()
    MissWindow,       \* miss_window_: silence that counts as a missed ping
    RecoveryWindow,   \* recovery_window_: silence tolerated after a miss
    MaxTime           \* bound on the clock

ASSUME WindowsAssumption ==
    /\ OptionalWindow \in Nat
    /\ MissWindow \in Nat
    /\ RecoveryWindow \in Nat
    /\ MaxTime \in Nat

\* an absent std::optional
None == -1

VARIABLES
    now,              \* IClock::now()
    armed,            \* armed_
    lastPing,         \* last_ping_
    optionalUntil,    \* optional_until_
    recoveryDeadline, \* recovery_deadline_
    lastContact,      \* auxiliary: when arm() or record_ping() last ran
    silence           \* auxiliary: the silence behind the last timeout, or None

vars == <<now, armed, lastPing, optionalUntil, recoveryDeadline, lastContact, silence>>

Init ==
    /\ now = 0
    /\ armed = FALSE
    /\ lastPing = 0
    /\ optionalUntil = 0
    /\ recoveryDeadline = None
    /\ lastContact = 0
    /\ silence = None

Advance ==
    /\ now < MaxTime
    /\ now' = now + 1
    /\ UNCHANGED <<armed, lastPing, optionalUntil, recoveryDeadline, lastContact, silence>>

Arm ==
    /\ armed' = TRUE
    /\ lastPing' = now
    /\ optionalUntil' = now + OptionalWindow
    /\ recoveryDeadline' = None
    /\ lastContact' = now
    /\ UNCHANGED <<now, silence>>

Disarm ==
    /\ armed' = FALSE
    /\ optionalUntil' = 0
    /\ recoveryDeadline' = None
    /\ UNCHANGED <<now, lastPing, lastContact, silence>>

\* mutant: the deadline is not cleared
RecordPingKeepingDeadline ==
    /\ armed
    /\ lastPing' = now
    /\ lastContact' = now
    /\ UNCHANGED <<now, armed, optionalUntil, recoveryDeadline, silence>>

RecordPing ==
    /\ armed
    /\ lastPing' = now
    /\ recoveryDeadline' = None
    /\ lastContact' = now
    /\ UNCHANGED <<now, armed, optionalUntil, silence>>

RecordLivenessPing ==
    /\ armed
    /\ lastPing' = now
    /\ UNCHANGED <<now, armed, optionalUntil, recoveryDeadline, lastContact, silence>>

NoteMiss ==
    /\ armed
    /\ now >= optionalUntil
    /\ recoveryDeadline = None
    /\ now - lastPing >= MissWindow
    /\ recoveryDeadline' = now + RecoveryWindow
    /\ UNCHANGED <<now, armed, lastPing, optionalUntil, lastContact, silence>>

TimeOut ==
    /\ armed
    /\ now >= optionalUntil
    /\ recoveryDeadline # None
    /\ now >= recoveryDeadline
    /\ armed' = FALSE
    /\ optionalUntil' = 0
    /\ recoveryDeadline' = None
    /\ silence' = now - lastContact
    /\ UNCHANGED <<now, lastPing, lastContact>>

Next == Advance \/ Arm \/ Disarm \/ RecordPing \/ RecordLivenessPing \/ NoteMiss \/ TimeOut

Spec == Init /\ [][Next]_vars

TypeOK ==
    /\ now \in 0..MaxTime
    /\ armed \in BOOLEAN
    /\ lastPing \in Nat
    /\ optionalUntil \in Nat
    /\ recoveryDeadline \in Nat \cup {None}
    /\ lastContact \in Nat
    /\ silence \in Nat \cup {None}
    /\ recoveryDeadline # None => armed

\* check_timeout() reports a dead client only after a full miss window and a
\* full recovery window without a record_ping() or an arm(), however the
\* polls, liveness pings and reconnects interleave.
NoEarlyTimeout == silence # None => silence >= MissWindow + RecoveryWindow
==============================================================================
