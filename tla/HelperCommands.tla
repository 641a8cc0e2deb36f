---------------------------- MODULE HelperCommands ----------------------------
(***************************************************************************)
(* The command handlers of StateMachine: APPLY, the autonomous identity    *)
(* repair, REVERT, DISARM, RESET, REFRESH_RATE, snapshots and recovery     *)
(* status.  A handler that cannot run now waits in "deferred"; the drain   *)
(* loop runs the same handler later, so every handler is an action over    *)
(* the command c and the queue "rest" it leaves behind.                    *)
(***************************************************************************)
EXTENDS HelperState

(* APPLY: handle_apply_command *)

\* mutant: the settlement goes on beside its replacement
ApplyQueuedSettling(c) ==
  /\ ~Free
  /\ ticket' = NoTicket
  /\ retry' = [retry EXCEPT !.event = NoEvent, !.known = FALSE]
  /\ lease' = [lease EXCEPT !.explicit = FALSE]
  /\ deferred' = Enqueue(deferred, c)
  /\ UNCHANGED <<state, gen, worker, session, settle, reset, identity, frame, tasks,
                 timers, link, world, replies>>
\* The request must wait: the older recovery intent is superseded now, the
\* running mutation is not cancelled.
ApplyQueued(c) ==
  /\ ~Free
  /\ ticket' = NoTicket
  /\ retry' = [retry EXCEPT !.event = NoEvent, !.known = FALSE]
  /\ lease' = [lease EXCEPT !.explicit = FALSE]
  /\ settle' = NoSettle
  /\ deferred' = Enqueue(deferred, c)
  /\ UNCHANGED <<state, gen, worker, session, reset, identity, frame, tasks,
                 timers, link, world, replies>>

\* The new transaction replaces the current one.
ApplyBegins(c, rest) ==
  LET ok == Accepted(c.request) IN
  /\ Free
  /\ Cancel
  /\ ticket' = NoTicket
  /\ settle' = NoSettle
  /\ retry' = [Disarmed(retry) EXCEPT !.event = NoEvent, !.known = FALSE]
  /\ lease' = [lease EXCEPT !.explicit = FALSE, !.attempted = FALSE,
                            !.heartbeat = TRUE,
                            !.onDisconnect = IF ok THEN c.request.restore ELSE @]
  /\ session' = [request |-> c.request, preTopology |-> FALSE, epoch |-> c.epoch,
                 verified |-> FALSE, applySent |-> ~ok, verificationSent |-> FALSE,
                 reapply |-> ok, hdrTried |-> FALSE,
                 leaseBefore |-> lease.armed \/ lease.changesPending,
                 recent |-> ok \/ session.recent,
                 reactivating |-> session.reactivating]
  /\ reset' = [reset EXCEPT !.completion = NoneHeld]
  /\ identity' = [discoveries |-> MaxDiscoveries, repairs |-> MaxRepairs,
                  baseline |-> c.request.layout = "virtual",
                  inFlight |-> FALSE, expected |-> FALSE]
  /\ deferred' = rest
  /\ replies' = IF ok THEN NoReplies ELSE [NoReplies EXCEPT !.apply = "Failed"]
  /\ UNCHANGED <<frame, timers, link>>

\* A missing session baseline is captured before the first mutation; the
\* capture may fail.
ApplyStarted(c, rest) ==
  /\ Accepted(c.request)
  /\ ApplyBegins(c, rest)
  /\ state' = "InProgress"
  /\ DispatchApply("full")
  /\ \E captured \in BOOLEAN : world' = [world EXCEPT !.tiers = @ \/ captured]

ApplyRejected(c, rest) ==
  /\ ~Accepted(c.request)
  /\ ApplyBegins(c, rest)
  /\ state' = "Waiting"
  /\ UNCHANGED <<worker, tasks, world>>

\* reactivation_of: repair the verified session's virtual target in place.  A
\* request that is not admitted is answered Retryable and changes nothing.
ApplyReactivation ==
  /\ state = "VirtualDisplayMonitoring" /\ session.verified /\ lease.armed
  /\ ~lease.explicit /\ Free /\ deferred = <<>>
  /\ HasVirtualLayout(session.request)
  /\ session.epoch = link.epoch
  /\ session' = [session EXCEPT !.reactivating = TRUE]
  /\ UNCHANGED gen
  /\ DispatchApply("reactivation")
  /\ UNCHANGED <<state, deferred, lease, settle, reset, identity, retry, ticket,
                 frame, timers, link, world, replies>>

----------------------------------------------------------------------------
(* Autonomous repair: handle_virtual_display_repair_intent *)

\* Re-apply the current request to a virtual display that came back under a
\* new identity.  The client's results and verified status are kept.
ReapplyIdentity(allowance) ==
  /\ identity' = [allowance EXCEPT !.repairs = @ - 1]
  /\ session' = [session EXCEPT
                   !.preTopology = @ /\ ~(session.verified /\ IsExclusive(session.request)),
                   !.reapply = TRUE]
  /\ state' = "InProgress"
  /\ DispatchApply("full")

\* The identity is observed again at dispatch: here it still differs from the
\* request's (DrainDropsRepair is the other case).
RepairStarted(rest) ==
  /\ HasVirtualLayout(session.request) /\ identity.repairs > 0
  /\ UNCHANGED gen
  /\ ReapplyIdentity(identity)
  /\ reset' = [reset EXCEPT !.completion = NoneHeld]
  /\ deferred' = rest
  /\ UNCHANGED <<lease, settle, retry, ticket, frame, timers, link, world, replies>>

----------------------------------------------------------------------------
(* REVERT: handle_revert_command *)

\* policy::restart for a repeated ticket, policy::begin otherwise
RevertTicket(c) ==
  IF c.ticket # 0 /\ ticket.ticket = c.ticket /\ ticket.epoch = c.epoch
  THEN [ticket EXCEPT !.gen = gen, !.status = "active", !.parked = FALSE]
  ELSE [ticket |-> c.ticket, gen |-> gen, epoch |-> c.epoch,
        status |-> IF c.ticket = 0 THEN "unknown" ELSE "active", parked |-> FALSE]

\* A client's REVERT latches the explicit intent and ends a settlement, even
\* when the command has to wait.
RevertLease(c) == [lease EXCEPT !.explicit = @ \/ ~c.disconnect]
RevertSettle(c) == IF c.disconnect THEN settle ELSE NoSettle

\* A second disconnect joins the recovery that already runs.
RevertJoined(c, rest) ==
  /\ c.disconnect /\ RecoveryInProgress
  /\ ticket' = RevertTicket(c)
  /\ deferred' = rest
  /\ UNCHANGED <<state, gen, worker, session, lease, settle, reset, identity, retry,
                 frame, tasks, timers, link, world, replies>>

RevertQueued(c) ==
  /\ ~(c.disconnect /\ RecoveryInProgress) /\ ~Free
  /\ ticket' = RevertTicket(c)
  /\ lease' = RevertLease(c)
  /\ settle' = RevertSettle(c)
  /\ IF WorkerActive THEN Cancel ELSE UNCHANGED gen
  /\ deferred' = Enqueue(deferred, c)
  /\ UNCHANGED <<state, worker, session, reset, identity, retry, frame, tasks,
                 timers, link, world, replies>>

RevertRuns(c) == ~(c.disconnect /\ RecoveryInProgress) /\ Free
\* mutant: the policy is not consulted
OptOutForgotten(c) == FALSE
RevertOptedOut(c) == c.disconnect /\ ~lease.explicit /\ ~lease.onDisconnect

\* clear_recovery_state(true)
Cleared(l) == [l EXCEPT !.armed = FALSE, !.changesPending = FALSE, !.explicit = FALSE,
                        !.attempted = FALSE, !.heartbeat = FALSE, !.taskCreated = FALSE]
\* mutant: supersede() is not called
ClearKeepsTicket ==
  /\ retry' = NoRetry /\ lease' = Cleared(lease) /\ settle' = NoSettle
  /\ identity' = NoIdentity /\ UNCHANGED ticket
ClearRecoveryState ==
  /\ ticket' = NoTicket
  /\ retry' = NoRetry
  /\ lease' = Cleared(lease)
  /\ settle' = NoSettle
  /\ identity' = NoIdentity
WorldCleared == [world EXCEPT !.task = FALSE, !.owed = FALSE]

\* restore_on_disconnect is off: the disconnected session keeps its desktop.
RevertDeclined(c, rest) ==
  /\ RevertRuns(c) /\ RevertOptedOut(c)
  /\ Cancel
  /\ ClearRecoveryState
  /\ session' = [session EXCEPT !.recent = FALSE, !.reapply = FALSE]
  /\ reset' = [reset EXCEPT !.completion = NoneHeld]
  /\ state' = "Waiting"
  /\ world' = WorldCleared
  /\ deferred' = rest
  /\ UNCHANGED <<worker, frame, tasks, timers, link, replies>>

\* No snapshot of any tier: the helper has nothing to restore and exits.
RevertNothing(c, rest) ==
  /\ RevertRuns(c) /\ ~RevertOptedOut(c) /\ ~world.tiers
  /\ Cancel
  /\ ClearRecoveryState
  /\ session' = [session EXCEPT !.recent = FALSE]
  /\ reset' = [reset EXCEPT !.completion = NoneHeld]
  /\ ExitProcess(0, WorldCleared)
  /\ deferred' = rest
  /\ UNCHANGED <<state, worker, frame, tasks, timers, replies>>

RevertStarted(c, rest) ==
  /\ RevertRuns(c) /\ ~RevertOptedOut(c) /\ world.tiers
  /\ Cancel
  /\ ticket' = Started(RevertTicket(c))
  /\ lease' = [RevertLease(c) EXCEPT !.armed = TRUE, !.changesPending = TRUE,
                                     !.heartbeat = FALSE]
  /\ settle' = RevertSettle(c)
  /\ session' = [session EXCEPT !.reapply = FALSE]
  /\ reset' = [reset EXCEPT !.completion = NoneHeld, !.recovery = "none"]
  /\ identity' = [identity EXCEPT !.baseline = FALSE, !.inFlight = FALSE,
                                  !.expected = FALSE]
  /\ retry' = StartRetry(ArmRetry(retry))
  /\ StartRecovery
  /\ deferred' = rest
  /\ UNCHANGED <<frame, timers, link, world, replies>>

----------------------------------------------------------------------------
(* DISARM: handle_disarm_command *)

\* An unconfirmed restore attempt is not cancelled by an unforced DISARM.
DisarmIgnored(c) == ~c.force /\ RestorePending /\ lease.attempted

DisarmDropped(c, rest) ==
  /\ DisarmIgnored(c)
  /\ ticket' = NoTicket
  /\ deferred' = rest
  /\ UNCHANGED <<state, gen, worker, session, lease, settle, reset, identity, retry,
                 frame, tasks, timers, link, world, replies>>

DisarmQueued(c) ==
  /\ ~DisarmIgnored(c) /\ ~Free
  /\ ticket' = NoTicket
  /\ lease' = [lease EXCEPT !.explicit = FALSE]
  /\ settle' = NoSettle
  /\ IF reset.pending THEN UNCHANGED <<gen, retry>>
     ELSE /\ Cancel
          /\ retry' = Disarmed(retry)
  /\ deferred' = Enqueue(deferred, c)
  /\ UNCHANGED <<state, worker, session, reset, identity, frame, tasks, timers, link,
                 world, replies>>

\* A cancelled mutation that may have touched the desktop keeps its guard.
DisarmStarted(c, rest) ==
  /\ ~DisarmIgnored(c) /\ Free
  /\ Cancel
  /\ IF lease.unconfirmed
     THEN /\ ticket' = NoTicket
          /\ lease' = [lease EXCEPT !.explicit = FALSE]
          /\ settle' = NoSettle
          /\ identity' = [identity EXCEPT !.baseline = FALSE, !.inFlight = FALSE,
                                          !.expected = FALSE]
          /\ UNCHANGED <<retry, world>>
     ELSE /\ ClearRecoveryState
          /\ world' = WorldCleared
  /\ session' = [session EXCEPT !.verified = FALSE, !.applySent = FALSE,
                   !.verificationSent = FALSE, !.recent = FALSE, !.reapply = FALSE]
  /\ reset' = [reset EXCEPT !.completion = NoneHeld]
  /\ state' = "Waiting"
  /\ deferred' = rest
  /\ UNCHANGED <<worker, frame, tasks, timers, link, replies>>

----------------------------------------------------------------------------
(* RESET: handle_reset_command *)

ResetQueued(c) ==
  /\ ~Free
  /\ ticket' = NoTicket
  /\ deferred' = Enqueue(deferred, c)
  /\ UNCHANGED <<state, gen, worker, session, lease, settle, reset, identity, retry,
                 frame, tasks, timers, link, world, replies>>

\* defer_transient_disconnect_settlement_for_staged_reset: a delayed check is
\* cancelled without consuming its slot and resumes after the barrier.
SettleDeferred ==
  IF ~settle.requested THEN settle
  ELSE [settle EXCEPT
          !.pending = FALSE, !.finalPending = FALSE, !.deferredByReset = TRUE,
          !.deferredFinal = @ \/ (settle.pending /\ settle.finalPending),
          !.next = IF settle.pending /\ ~settle.finalPending /\ @ > 0
                   THEN @ - 1 ELSE @]
DeferSettlement ==
  /\ settle' = SettleDeferred
  /\ IF settle.requested /\ settle.pending THEN Cancel ELSE UNCHANGED gen

ResetStarted(c, rest) ==
  /\ Free
  /\ ticket' = NoTicket
  /\ DeferSettlement
  /\ reset' = BeginReset(reset)
  /\ tasks' = Append(tasks, Task("Reset", "none"))
  /\ deferred' = rest
  /\ UNCHANGED <<state, worker, session, lease, identity, retry, frame, timers, link,
                 world, replies>>

----------------------------------------------------------------------------
(* The remaining commands *)

\* mutant: no test of the fence
RefreshRateUnfenced ==
  /\ UNCHANGED gen
  /\ worker' = [kind |-> "RefreshRate", gen |-> gen']
  /\ tasks' = Append(tasks, Task("RefreshRate", "none"))
  /\ UNCHANGED <<state, deferred, session, lease, settle, reset, identity, retry,
                 ticket, frame, timers, link, world, replies>>
\* handle_refresh_rate_command for a device of the active request; any other
\* request is answered false and changes nothing.
RefreshRateStarted ==
  /\ ~ApplyInFlight /\ ~RestorePending
  /\ UNCHANGED gen
  /\ worker' = [kind |-> "RefreshRate", gen |-> gen']
  /\ tasks' = Append(tasks, Task("RefreshRate", "none"))
  /\ UNCHANGED <<state, deferred, session, lease, settle, reset, identity, retry,
                 ticket, frame, timers, link, world, replies>>

\* handle_snapshot_current and handle_export_golden: a baseline is captured
\* only while the display is not changing; the capture may fail.
SnapshotTaken ==
  /\ ~ApplyInFlight /\ ~RestorePending
  /\ world' = [world EXCEPT !.tiers = TRUE]
  /\ UNCHANGED <<state, gen, worker, deferred, session, lease, settle, reset, identity,
                 retry, ticket, frame, tasks, timers, link, replies>>

\* handle_recovery_status_command with park: only the controller that owns the
\* ticket stops the retries of a failed recovery, and only while nothing runs.
Park ==
  /\ ticket.ticket # 0 /\ ticket.status = "failed"
  /\ ticket.gen = gen /\ ticket.epoch = link.epoch
  /\ Free /\ deferred = <<>> /\ state = "EventLoop"
  /\ ticket' = [ticket EXCEPT !.parked = TRUE]
  /\ retry' = [Disarmed(retry) EXCEPT !.event = NoEvent]
  /\ UNCHANGED <<state, gen, worker, deferred, session, lease, settle, reset, identity,
                 frame, tasks, timers, link, world, replies>>

----------------------------------------------------------------------------
(* Ingress and drain *)

\* One message of the live connection.  A REVERT in the mailbox, the client's
\* or the one run_v2_helper queued at the previous disconnect, is ahead of it.
Deliver(cmd) ==
  /\ Idle /\ Connected /\ mail = <<>>
  /\ cmd \in Commands /\ inputs < MaxInputs
  /\ inputs' = inputs + 1

HandleApply(c, rest) ==
  ApplyQueued(c) \/ ApplyStarted(c, rest) \/ ApplyRejected(c, rest)
HandleRevert(c, rest) ==
  \/ RevertJoined(c, rest) \/ RevertQueued(c)
  \/ RevertDeclined(c, rest) \/ RevertNothing(c, rest) \/ RevertStarted(c, rest)
HandleDisarm(c, rest) ==
  DisarmDropped(c, rest) \/ DisarmQueued(c) \/ DisarmStarted(c, rest)
HandleReset(c, rest) == ResetQueued(c) \/ ResetStarted(c, rest)

ClientApply ==
  /\ Deliver("Apply")
  /\ \E r \in Requests :
       HandleApply([Intent("Apply", link.epoch) EXCEPT !.request = r], deferred)
  /\ UNCHANGED mail
ClientReactivate == Deliver("Reactivate") /\ ApplyReactivation /\ UNCHANGED mail

\* The pipe thread notes the connection a restore was requested on and queues
\* the command.
ClientRevert ==
  /\ Deliver("Revert")
  /\ link' = [link EXCEPT !.origin = link.epoch]
  /\ \E t \in Tickets : mail' = <<[Intent("Revert", link.epoch) EXCEPT !.ticket = t]>>
  /\ UNCHANGED <<state, gen, worker, deferred, session, lease, settle, reset, identity,
                 retry, ticket, frame, tasks, timers, world, replies>>
RevertDelivered ==
  /\ Idle /\ mail # <<>> /\ ~StaleEpoch(Head(mail).epoch)
  /\ HandleRevert(Head(mail), deferred)
  /\ mail' = Tail(mail)
  /\ UNCHANGED inputs
RevertStale ==
  /\ Idle /\ mail # <<>> /\ StaleEpoch(Head(mail).epoch)
  /\ mail' = Tail(mail)
  /\ UNCHANGED <<state, gen, worker, deferred, session, lease, settle, reset, identity,
                 retry, ticket, frame, tasks, timers, link, world, replies, inputs>>
ClientDisarm ==
  /\ Deliver("Disarm")
  /\ \E f \in BOOLEAN :
       HandleDisarm([Intent("Disarm", link.epoch) EXCEPT !.force = f], deferred)
  /\ UNCHANGED mail
ClientReset ==
  /\ Deliver("Reset")
  /\ HandleReset(Intent("Reset", link.epoch), deferred)
  /\ UNCHANGED mail
ClientRefreshRate == Deliver("RefreshRate") /\ RefreshRateStarted /\ UNCHANGED mail
ClientSnapshot == Deliver("Snapshot") /\ SnapshotTaken /\ UNCHANGED mail
ClientPark == Deliver("Park") /\ Park /\ UNCHANGED mail

\* drain_deferred_mutation_commands: one iteration of its loop.
Draining == Running /\ frame.at \in DrainPoints /\ Free /\ deferred # <<>>
\* mutant: the drain stops after its first command
DrainGivesUp == Running /\ frame.at \in DrainPoints
DrainedOut == Running /\ frame.at \in DrainPoints /\ ~(Free /\ deferred # <<>>)

DrainDropsStale ==
  /\ Draining /\ StaleEpoch(Head(deferred).epoch)
  /\ deferred' = Tail(deferred)
  /\ UNCHANGED <<state, gen, worker, session, lease, settle, reset, identity, retry,
                 ticket, frame, tasks, timers, link, mail, world, replies, inputs>>

\* A queued repair whose allowance is gone or whose identity is healthy again.
DrainDropsRepair ==
  /\ Draining /\ Head(deferred).cmd = "Repair" /\ ~StaleEpoch(Head(deferred).epoch)
  /\ deferred' = Tail(deferred)
  /\ UNCHANGED <<state, gen, worker, session, lease, settle, reset, identity, retry,
                 ticket, frame, tasks, timers, link, mail, world, replies, inputs>>

DrainRuns ==
  /\ Draining /\ ~StaleEpoch(Head(deferred).epoch)
  /\ LET c == Head(deferred)
         rest == Tail(deferred)
     IN \/ c.cmd = "Apply" /\ HandleApply(c, rest)
        \/ c.cmd = "Repair" /\ RepairStarted(rest)
        \/ c.cmd = "Revert" /\ HandleRevert(c, rest)
        \/ c.cmd = "Disarm" /\ HandleDisarm(c, rest)
        \/ c.cmd = "Reset" /\ HandleReset(c, rest)
  /\ UNCHANGED <<mail, inputs>>

Drain == DrainDropsStale \/ DrainDropsRepair \/ DrainRuns
=============================================================================
