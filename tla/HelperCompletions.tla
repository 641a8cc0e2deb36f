-------------------------- MODULE HelperCompletions --------------------------
(***************************************************************************)
(* The dispatcher's worker and timer threads, and the StateMachine's       *)
(* handlers of their completions.  The worker runs its tasks in order and  *)
(* their completions arrive in that order; the step that handles a         *)
(* completion removes the task.  A handler that calls the drain loop       *)
(* continues in a later step, at the point "frame" names.                  *)
(***************************************************************************)
EXTENDS HelperCommands

Front == Head(tasks)
HasTask(op) == Running /\ tasks # <<>> /\ Front.op = op
Live(t) == t.gen = gen
Completes(op) == Idle /\ HasTask(op)
fsmVars == <<state, gen, worker, deferred, session, settle, reset, identity, retry,
             ticket, frame, timers, link, mail, replies, inputs>>

----------------------------------------------------------------------------
(* The worker thread *)

FrontPhase(p, armed) == tasks' = [tasks EXCEPT ![1].phase = p, ![1].armed = armed]

\* arm_durable_recovery_boundary: the restore task is registered, once and
\* best effort, before the first mutation of a full APPLY.
WorkerGuards ==
  /\ HasTask("Apply") /\ Front.mode = "full" /\ Front.phase = "queued"
  /\ Live(Front)
  /\ \E armed \in BOOLEAN :
       /\ FrontPhase("guarded", armed)
       /\ world' = [world EXCEPT !.task = @ \/ armed]
  /\ UNCHANGED <<fsmVars, lease>>

\* The first change of the desktop.  A rollback does not look at its token.
WorkerTouches ==
  /\ HasTask("Apply")
  /\ \/ Front.mode = "full" /\ Front.phase = "guarded" /\ Live(Front)
     \/ Front.mode \in {"repair", "reactivation"} /\ Front.phase = "queued" /\ Live(Front)
     \/ Front.mode = "rollback" /\ Front.phase = "queued"
  /\ FrontPhase("touched", Front.armed)
  /\ world' = [world EXCEPT !.owed = TRUE]
  /\ UNCHANGED <<fsmVars, lease>>

\* RecoveryOperation::run tests its token once, then marks the attempt.
RecoveryEnters ==
  /\ HasTask("Recovery") /\ Front.phase = "queued" /\ Live(Front)
  /\ FrontPhase("entered", FALSE)
  /\ UNCHANGED <<fsmVars, lease, world>>
RecoveryTouches ==
  /\ HasTask("Recovery") /\ Front.phase = "entered"
  /\ FrontPhase("touched", FALSE)
  /\ lease' = [lease EXCEPT !.attempted = TRUE]
  /\ world' = [world EXCEPT !.owed = TRUE]
  /\ UNCHANGED fsmVars

\* dispatch_verification_after: a delayed check whose token is cancelled while
\* it waits ends without a completion.
TimerFires ==
  /\ Running /\ timers # <<>>
  /\ tasks' = IF Live(Head(timers)) THEN Append(tasks, Head(timers)) ELSE tasks
  /\ timers' = Tail(timers)
  /\ UNCHANGED <<state, gen, worker, deferred, session, lease, settle, reset, identity,
                 retry, ticket, frame, link, mail, world, replies, inputs>>

Worker == WorkerGuards \/ WorkerTouches \/ RecoveryEnters \/ RecoveryTouches \/ TimerFires

\* What ApplyOperation::run reports, by the point it reached.  Every failure
\* the handlers do not tell apart is "Fatal"; the status of a cancelled task
\* is not read.
ApplyStatuses(t) ==
  CASE ~Live(t) -> {"Fatal"}
    [] session.request.hdr /\ t.mode \in {"full", "repair"} -> Statuses
    [] OTHER -> {"Ok", "Fatal"}
ApplyOutcomes(t) ==
  LET early == [NoCompletion EXCEPT !.rollback = t.mode = "rollback",
                                    !.topology = session.preTopology]
      guarded == [early EXCEPT !.attempted = TRUE, !.armed = t.armed,
                    !.topology = @ \/ IsExclusive(session.request)]
      full == [guarded EXCEPT !.changed = TRUE]
      other == [early EXCEPT !.changed = TRUE, !.attempted = t.mode = "repair",
                             !.staged = t.mode = "repair"]
  IN CASE t.phase = "queued" -> IF t.mode = "rollback" THEN {} ELSE {early}
       [] t.phase = "guarded" -> {guarded}
       [] t.phase = "touched" /\ t.mode = "full" ->
            {full} \cup {[full EXCEPT !.staged = TRUE, !.status = st] : st \in ApplyStatuses(t)}
       [] OTHER -> {[other EXCEPT !.status = st] : st \in ApplyStatuses(t)}

\* enqueue_operation: an exception is reported as a default ApplyOutcome.
Outcomes(t) == ApplyOutcomes(t) \cup (IF Throws THEN {NoCompletion} ELSE {})

----------------------------------------------------------------------------
(* handle_apply_completed *)

\* reset_uncommitted_staged_state_if_needed applies
Uncommitted(l) == l.staged /\ ~session.leaseBefore /\ ~l.armed /\ ~l.unconfirmed

\* The cancelled task still tells whether Windows was touched.
StaleApplyCompleted ==
  /\ Completes("Apply") /\ ~Live(Front)
  /\ UNCHANGED gen
  /\ \E d \in Outcomes(Front) :
     LET staged == [lease EXCEPT !.staged = @ \/ d.staged,
                                 !.taskCreated = @ \/ d.armed]
         drop == ~d.changed /\ Uncommitted(staged)
         creates == d.changed /\ ~staged.taskCreated /\ ~d.attempted
     IN
     /\ \E created \in IF creates THEN BOOLEAN ELSE {FALSE} :
          /\ lease' = IF d.changed
                      THEN [Activated(staged) EXCEPT !.taskCreated = @ \/ created,
                              !.unconfirmed = TRUE, !.heartbeat = TRUE]
                      ELSE [staged EXCEPT !.taskCreated = @ /\ ~drop]
          /\ world' = [world EXCEPT !.task = IF drop /\ staged.taskCreated THEN FALSE
                                             ELSE @ \/ created]
     /\ reset' = IF drop THEN BeginReset(reset) ELSE reset
     /\ tasks' = IF drop /\ ~reset.pending
                 THEN Append(Tail(tasks), Task("Reset", "none")) ELSE Tail(tasks)
  /\ worker' = NoWorker
  /\ session' = [session EXCEPT !.reactivating = FALSE]
  /\ frame' = DrainThen("return")
  /\ UNCHANGED <<state, deferred, settle, identity, retry, ticket, timers, link, mail,
                 replies, inputs>>

\* A reactivation answers its own request and leaves the session's alone.
ReactivationCompleted ==
  /\ Completes("Apply") /\ Live(Front) /\ session.reactivating
  /\ Outcomes(Front) # {}
  /\ worker' = NoWorker
  /\ tasks' = Tail(tasks)
  /\ session' = [session EXCEPT !.reactivating = FALSE]
  /\ frame' = DrainThen("return")
  /\ UNCHANGED <<state, gen, deferred, lease, settle, reset, identity, retry, ticket,
                 timers, link, mail, world, replies, inputs>>

ApplyCompleted ==
  /\ Completes("Apply") /\ Live(Front) /\ ~session.reactivating
  /\ \E d \in Outcomes(Front) :
       /\ frame' = [IdleFrame EXCEPT !.at = "finish", !.done = d]
       /\ lease' = [lease EXCEPT !.staged = @ \/ d.staged]
  /\ worker' = NoWorker
  /\ tasks' = Tail(tasks)
  /\ UNCHANGED <<state, gen, deferred, session, settle, reset, identity, retry, ticket,
                 timers, link, mail, world, replies, inputs>>

----------------------------------------------------------------------------
(* finish_apply_completed *)

At(point) == Running /\ frame.at = point
After(point) == DrainedOut /\ frame.at = point

\* The recovery lease follows the mutation; a queued APPLY or identity repair
\* of the live connection suppresses the obsolete result.
Finish ==
  /\ At("finish")
  /\ LET d == frame.done
         mutated == d.status = "Ok" \/ d.changed
         guarded == [lease EXCEPT !.taskCreated = @ \/ d.armed]
         creates == mutated /\ ~guarded.taskCreated /\ ~d.attempted
         next == CASE d.rollback -> "rolledBack"
                   [] ~d.rollback /\ HasDeferredApply -> "superseded"
                   [] OTHER -> "decide"
     IN
     /\ frame' = [frame EXCEPT !.at = next, !.baseline = identity.inFlight]
     /\ session' = [session EXCEPT !.preTopology =
                      @ \/ (IsExclusive(session.request) /\ d.topology)]
     /\ settle' = IF d.rollback /\ settle.requested /\ d.topology
                  THEN [settle EXCEPT !.topology = TRUE, !.rollback = TRUE] ELSE settle
     /\ \E created \in IF creates THEN BOOLEAN ELSE {FALSE} :
          /\ lease' = IF mutated
                      THEN [Activated(guarded) EXCEPT !.taskCreated = @ \/ created]
                      ELSE guarded
          /\ world' = [world EXCEPT !.task = @ \/ created]
     /\ reset' = IF next = "superseded"
                 THEN [reset EXCEPT !.completion = [held |-> TRUE, done |-> d]] ELSE reset
  /\ identity' = [identity EXCEPT !.inFlight = FALSE]
  /\ UNCHANGED <<state, gen, worker, deferred, retry, ticket, tasks, timers, link, mail,
                 replies, inputs>>

\* mutant: the verification result is not sent
FailedReplyOnly ==
  /\ replies' = Report(replies, "apply", FALSE, session.applySent)
  /\ session' = [session EXCEPT !.applySent = TRUE]
\* Both results of the failed request, each at most once
FailedReplies ==
  /\ replies' = Report(Report(replies, "apply", FALSE, session.applySent),
                       "verification", FALSE, session.verificationSent)
  /\ session' = [session EXCEPT !.applySent = TRUE, !.verificationSent = TRUE]

\* mutant: the heartbeat is always disarmed
HeartbeatDropped(l) == FALSE
\* The heartbeat is disarmed unless a recovery lease still needs it.
HeartbeatNeeded(l) == l.heartbeat /\ l.armed

RolledBack ==
  /\ At("rolledBack")
  /\ FailedReplies
  /\ lease' = [lease EXCEPT !.heartbeat = HeartbeatNeeded(lease)]
  /\ state' = IF session.verified THEN SteadyState ELSE "Waiting"
  /\ frame' = DrainThen("rollback")
  /\ UNCHANGED <<gen, worker, deferred, settle, reset, identity, retry, ticket, tasks,
                 timers, link, mail, world, inputs>>

----------------------------------------------------------------------------
(* dispatch_next_transient_disconnect_verification, from the settlement x and
   the task queue "queue" *)

MaxChecks == 2   \* kDelays.size()

HeldByReset(x) == reset.pending /\ x.requested
ExactTopology(x) == x.topology /\ (x.rollback \/ IsExclusive(session.request))

\* It returns false: both delayed checks are used and no exact topology is
\* known.  The settlement ends.
CheckRefused(x) == /\ ~HeldByReset(x) /\ ~x.pending
                   /\ x.next >= MaxChecks /\ ~ExactTopology(x)

\* dispatch_transient_disconnect_final_verification
FinalCheck(x, queue) ==
  /\ settle' = [x EXCEPT !.pending = TRUE, !.finalPending = TRUE]
  /\ state' = "Verification"
  /\ tasks' = Append(queue, Task("Verification", "TransientDisconnectFinal"))
  /\ UNCHANGED timers

\* It returns true: a check is deferred, pending or dispatched.
CheckWaits(x, queue) ==
  /\ HeldByReset(x) \/ x.pending
  /\ settle' = [x EXCEPT !.deferredByReset = @ \/ HeldByReset(x)]
  /\ tasks' = queue
  /\ UNCHANGED <<state, timers>>
\* mutant: the index is not compared with the delays
CheckUnbounded(x, queue) ==
  /\ ~HeldByReset(x) /\ ~x.pending
  /\ settle' = [x EXCEPT !.next = @ + 1, !.pending = TRUE]
  /\ state' = "Verification"
  /\ timers' = Append(timers, Task("Verification", "TransientDisconnect"))
  /\ tasks' = queue
CheckDelayed(x, queue) ==
  /\ ~HeldByReset(x) /\ ~x.pending /\ x.next < MaxChecks
  /\ settle' = [x EXCEPT !.next = @ + 1, !.pending = TRUE]
  /\ state' = "Verification"
  /\ timers' = Append(timers, Task("Verification", "TransientDisconnect"))
  /\ tasks' = queue
CheckFinal(x, queue) ==
  /\ ~HeldByReset(x) /\ ~x.pending /\ x.next >= MaxChecks /\ ExactTopology(x)
  /\ FinalCheck(x, queue)
NextCheck(x, queue) ==
  CheckWaits(x, queue) \/ CheckDelayed(x, queue) \/ CheckFinal(x, queue)

\* mutant: the running verification is not cancelled
PrepareOnly == UNCHANGED gen
\* prepare_transient_disconnect_settlement
PrepareCancel == gen' = IF session.verified /\ state = "Verification" THEN gen + 1 ELSE gen

----------------------------------------------------------------------------
(* finish_apply_completed, after its drain calls *)

\* Nothing is left to do after the drain.
AfterReturn ==
  /\ After("return")
  /\ frame' = Returned
  /\ UNCHANGED <<state, gen, worker, deferred, session, lease, settle, reset, identity,
                 retry, ticket, tasks, timers, link, mail, world, replies, inputs>>

\* A disconnect may have claimed the settlement while the rollback ran.  It is
\* then new: no final check of it has been deferred.
SettlesNow == settle.requested /\ ~WorkerActive
AfterRollback ==
  /\ After("rollback")
  /\ frame' = Returned
  /\ \/ /\ ~SettlesNow
        /\ UNCHANGED <<gen, settle, state, session, tasks, timers>>
     \/ /\ SettlesNow /\ reset.pending
        /\ settle' = [settle EXCEPT !.deferredByReset = TRUE]
        /\ UNCHANGED <<gen, state, session, tasks, timers>>
     \/ /\ SettlesNow /\ ~reset.pending
        /\ PrepareCancel
        /\ session' = [session EXCEPT !.reapply = FALSE]
        /\ CheckDelayed(settle, tasks)
  /\ UNCHANGED <<worker, deferred, lease, reset, identity, retry, ticket, link, mail,
                 world, replies, inputs>>

\* The replacement started, or RESET is ahead of it; otherwise the completion
\* still owns the transaction.
AfterSuperseded ==
  /\ After("superseded")
  /\ IF Free
     THEN /\ frame' = [frame EXCEPT !.at = "decide"]
          /\ reset' = [reset EXCEPT !.completion = NoneHeld]
     ELSE /\ frame' = Returned
          /\ UNCHANGED reset
  /\ UNCHANGED <<state, gen, worker, deferred, session, lease, settle, identity, retry,
                 ticket, tasks, timers, link, mail, world, replies, inputs>>

Failed == frame.done.status # "Ok"

DecideBaselineFailed ==
  /\ At("decide") /\ Failed /\ frame.baseline
  /\ identity' = [identity EXCEPT !.expected = FALSE]
  /\ state' = SteadyState
  /\ frame' = DrainThen("return")
  /\ UNCHANGED <<gen, worker, deferred, session, lease, settle, reset, retry, ticket,
                 tasks, timers, link, mail, world, replies, inputs>>
DecideVerify ==
  /\ At("decide") /\ ~Failed /\ ~settle.repair
  /\ state' = "Verification"
  /\ UNCHANGED gen
  /\ tasks' = Append(tasks, Task("Verification",
                 IF frame.baseline THEN "BaselineTopologyRepair" ELSE "Initial"))
  /\ frame' = DrainThen("return")
  /\ UNCHANGED <<worker, deferred, session, lease, settle, reset, identity, retry,
                 ticket, timers, link, mail, world, replies, inputs>>
DecideSettling ==
  /\ At("decide")
  /\ \/ ~Failed /\ settle.repair /\ frame' = DrainThen("repairOk")
     \/ Failed /\ ~frame.baseline /\ settle.requested /\ frame' = DrainThen("failed")
  /\ settle' = [settle EXCEPT !.repair = FALSE]
  /\ UNCHANGED <<state, gen, worker, deferred, session, lease, reset, identity, retry,
                 ticket, tasks, timers, link, mail, world, replies, inputs>>
DecideFailed ==
  /\ At("decide") /\ Failed /\ ~frame.baseline /\ ~settle.requested
  /\ frame' = [frame EXCEPT !.at = "conclude"]
  /\ UNCHANGED <<state, gen, worker, deferred, session, lease, settle, reset, identity,
                 retry, ticket, tasks, timers, link, mail, world, replies, inputs>>

\* After a repair of the settlement, or a failed APPLY under it: the next
\* delayed check, unless something else owns the display by now.
AfterSettling ==
  /\ After("repairOk") \/ After("failed")
  /\ frame' = Returned
  /\ \/ /\ ~SettlesNow
        /\ UNCHANGED <<gen, settle, state, tasks, timers>>
     \/ /\ SettlesNow /\ reset.pending
        /\ DeferSettlement
        /\ UNCHANGED <<state, tasks, timers>>
     \/ /\ SettlesNow /\ ~reset.pending
        /\ UNCHANGED gen
        /\ NextCheck(settle, tasks)
  /\ UNCHANGED <<worker, deferred, session, lease, reset, identity, retry, ticket, link,
                 mail, world, replies, inputs>>
\* The last repair has no further check: a successful one keeps the session.
\* (An Exclusive request always has its exact topology, so the settlement's
\* recovery branches behind a refused check are never taken.)
AfterLastRepair ==
  /\ After("repairOk") /\ SettlesNow /\ ~reset.pending /\ CheckRefused(settle)
  /\ settle' = NoSettle
  /\ session' = [session EXCEPT !.verified = TRUE]
  /\ lease' = [Activated(lease) EXCEPT !.unconfirmed = FALSE]
  /\ state' = SteadyState
  /\ frame' = DrainThen("return")
  /\ UNCHANGED <<gen, worker, deferred, reset, identity, retry, ticket, tasks, timers,
                 link, mail, world, replies, inputs>>
AfterLastFailure ==
  /\ After("failed") /\ SettlesNow /\ ~reset.pending /\ CheckRefused(settle)
  /\ settle' = NoSettle
  /\ frame' = [frame EXCEPT !.at = "conclude"]
  /\ UNCHANGED <<state, gen, worker, deferred, session, lease, reset, identity, retry,
                 ticket, tasks, timers, link, mail, world, replies, inputs>>

\* One SettingsManager-only effective-SDR fallback per APPLY
HdrFallback ==
  /\ ~session.hdrTried /\ HasVirtualLayout(session.request) /\ session.request.hdr
  /\ frame.done.status = "HdrStateFailed"
ConcludeHdr ==
  /\ At("conclude") /\ HdrFallback
  /\ session' = [session EXCEPT !.hdrTried = TRUE, !.request.hdr = FALSE]
  /\ state' = "InProgress"
  /\ UNCHANGED gen
  /\ DispatchApply("repair")
  /\ frame' = Returned
  /\ UNCHANGED <<deferred, lease, settle, reset, identity, retry, ticket, timers, link,
                 mail, world, replies, inputs>>
ConcludeFailed ==
  /\ At("conclude") /\ ~HdrFallback
  /\ FailedReplies
  /\ LET drop == ~frame.done.changed /\ Uncommitted(lease) IN
     /\ lease' = [lease EXCEPT !.heartbeat = HeartbeatNeeded(lease),
                               !.taskCreated = @ /\ ~drop]
     /\ world' = [world EXCEPT !.task = @ /\ ~(drop /\ lease.taskCreated)]
     /\ reset' = IF drop THEN BeginReset(reset) ELSE reset
     /\ UNCHANGED gen
     /\ tasks' = IF drop /\ ~reset.pending THEN Append(tasks, Task("Reset", "none"))
                 ELSE tasks
  /\ state' = IF session.verified THEN SteadyState ELSE "Waiting"
  /\ frame' = DrainThen("return")
  /\ UNCHANGED <<worker, deferred, settle, identity, retry, ticket, timers, link, mail,
                 inputs>>

FinishApply ==
  \/ Finish \/ RolledBack \/ AfterReturn \/ AfterRollback \/ AfterSuperseded
  \/ DecideBaselineFailed \/ DecideVerify \/ DecideSettling \/ DecideFailed
  \/ AfterSettling \/ AfterLastRepair \/ AfterLastFailure
  \/ ConcludeHdr \/ ConcludeFailed

----------------------------------------------------------------------------
(* handle_verification_completed *)

IsTransient(t) == t.mode \in {"TransientDisconnect", "TransientDisconnectFinal"}
\* mutant: the purpose is not tested
SupersededAny(t) == ~(settle.requested /\ settle.pending)
Superseded(t) == IsTransient(t) /\ ~(settle.requested /\ settle.pending)

VerificationIgnored ==
  /\ Completes("Verification") /\ (~Live(Front) \/ Superseded(Front))
  /\ tasks' = Tail(tasks)
  /\ UNCHANGED <<state, gen, worker, deferred, session, lease, settle, reset, identity,
                 retry, ticket, frame, timers, link, mail, world, replies, inputs>>

Verified(modes) ==
  /\ Completes("Verification") /\ Live(Front) /\ ~Superseded(Front)
  /\ Front.mode \in modes
  /\ UNCHANGED <<deferred, ticket, frame, link, mail, world, inputs>>

\* A check of the settlement that succeeds ends it and keeps the session.
SettlementHolds ==
  /\ Verified({"TransientDisconnect", "TransientDisconnectFinal"})
  /\ settle' = NoSettle
  /\ session' = [session EXCEPT !.verified = TRUE]
  /\ lease' = IF session.verified THEN lease
              ELSE [Activated(lease) EXCEPT !.unconfirmed = FALSE]
  /\ state' = SteadyState
  /\ tasks' = Tail(tasks)
  /\ UNCHANGED <<gen, worker, reset, identity, retry, timers, replies>>

\* The final exact check fails: start_recovery if there is anything to recover
SettlementLost ==
  /\ Verified({"TransientDisconnectFinal"})
  /\ settle' = NoSettle
  /\ session' = [session EXCEPT !.verified = FALSE]
  /\ UNCHANGED gen
  /\ IF lease.armed
     THEN /\ state' = "Recovery"
          /\ worker' = [kind |-> "Recovery", gen |-> gen']
          /\ tasks' = Append(Tail(tasks), Task("Recovery", "none"))
          /\ retry' = StartRetry(retry)
          /\ reset' = [reset EXCEPT !.recovery = "none"]
     ELSE /\ state' = "Waiting"
          /\ tasks' = Tail(tasks)
          /\ UNCHANGED <<worker, retry, reset>>
  /\ UNCHANGED <<lease, identity, timers, replies>>

CheckDone == [settle EXCEPT !.pending = FALSE, !.finalPending = FALSE]

\* A delayed check that fails: the rolled-back topology is checked again, any
\* other session is repaired first.
SettlementRechecks ==
  /\ Verified({"TransientDisconnect"}) /\ settle.rollback
  /\ UNCHANGED gen
  /\ NextCheck(CheckDone, Tail(tasks))
  /\ UNCHANGED <<session, lease, worker, reset, identity, retry, replies>>
SettlementRepairs ==
  /\ Verified({"TransientDisconnect"}) /\ ~settle.rollback
  /\ Cancel
  /\ settle' = [CheckDone EXCEPT !.repair = TRUE]
  /\ state' = "InProgress"
  /\ worker' = [kind |-> "Apply", gen |-> gen']
  /\ tasks' = Append(Tail(tasks), Task("Apply", "repair"))
  /\ UNCHANGED <<session, lease, reset, identity, retry, timers, replies>>

Baseline == {"BaselineTopologyReturn", "BaselineTopologyRepair"}
BaselineVerified ==
  /\ Verified(Baseline)
  /\ identity' = [identity EXCEPT !.expected = FALSE]
  /\ state' = SteadyState
  /\ tasks' = Tail(tasks)
  /\ UNCHANGED <<gen, worker, session, lease, settle, reset, retry, timers, replies>>

\* The request's own check succeeds: its results are published once.
InitialVerified ==
  /\ Verified({"Initial"})
  /\ LET initial == ~session.verificationSent IN
     /\ session' = IF initial
                   THEN [session EXCEPT !.verified = TRUE, !.applySent = TRUE,
                                        !.verificationSent = TRUE]
                   ELSE session
     /\ lease' = IF initial
                 THEN [Activated(lease) EXCEPT !.unconfirmed = FALSE,
                         !.heartbeat = @ \/ ~settle.requested]
                 ELSE lease
     /\ replies' = IF initial
                   THEN Report(Report(replies, "apply", TRUE, session.applySent),
                               "verification", TRUE, FALSE)
                   ELSE replies
  /\ UNCHANGED gen
  /\ \/ settle.requested /\ NextCheck(settle, Tail(tasks))
     \/ /\ settle.requested => CheckRefused(settle)
        /\ settle' = IF settle.requested THEN NoSettle ELSE settle
        /\ state' = SteadyState
        /\ tasks' = Tail(tasks)
        /\ UNCHANGED timers
  /\ UNCHANGED <<worker, reset, identity, retry>>

\* It fails while a settlement waits: the settlement goes on.
FailedUnderSettlement ==
  /\ Verified({"Initial"} \cup Baseline) /\ settle.requested
  /\ UNCHANGED gen
  /\ \/ NextCheck(settle, Tail(tasks))
     \/ /\ CheckRefused(settle)
        /\ settle' = NoSettle
        /\ state' = IF session.verified THEN SteadyState ELSE "Waiting"
        /\ tasks' = Tail(tasks)
        /\ UNCHANGED timers
  /\ UNCHANGED <<worker, session, lease, reset, identity, retry, replies>>

FailedVerification(mode) ==
  /\ Verified({mode}) /\ ~settle.requested
  /\ UNCHANGED <<gen, settle, reset, retry, timers>>

\* The admitted baseline topology is applied once.
BaselineRepairStarted ==
  /\ FailedVerification("BaselineTopologyReturn")
  /\ session' = [session EXCEPT !.reapply = FALSE]
  /\ identity' = [identity EXCEPT !.inFlight = TRUE]
  /\ state' = "InProgress"
  /\ worker' = [kind |-> "Apply", gen |-> gen']
  /\ tasks' = Append(Tail(tasks), Task("Apply", "full"))
  /\ UNCHANGED <<lease, replies>>
BaselineRepairFailed ==
  /\ FailedVerification("BaselineTopologyRepair")
  /\ identity' = [identity EXCEPT !.expected = FALSE]
  /\ state' = SteadyState
  /\ tasks' = Tail(tasks)
  /\ UNCHANGED <<worker, session, lease, replies>>

\* dispatch_next_verification_reapply, then the Exclusive rollback
InitialRetried ==
  /\ FailedVerification("Initial")
  /\ session.reapply \/ (IsExclusive(session.request) /\ session.preTopology)
  /\ session' = [session EXCEPT !.reapply = FALSE]
  /\ state' = "InProgress"
  /\ worker' = [kind |-> "Apply", gen |-> gen']
  /\ tasks' = Append(Tail(tasks), Task("Apply",
                 IF session.reapply THEN "repair" ELSE "rollback"))
  /\ UNCHANGED <<lease, identity, replies>>
InitialFailed ==
  /\ FailedVerification("Initial")
  /\ ~session.reapply /\ ~(IsExclusive(session.request) /\ session.preTopology)
  /\ tasks' = Tail(tasks)
  /\ IF session.verified
     THEN /\ state' = SteadyState
          /\ UNCHANGED <<session, replies>>
     ELSE /\ state' = "Waiting"
          /\ FailedReplies
  /\ UNCHANGED <<worker, lease, identity>>

VerificationCompleted ==
  \/ VerificationIgnored \/ SettlementHolds \/ SettlementLost \/ SettlementRechecks
  \/ SettlementRepairs \/ BaselineVerified \/ InitialVerified \/ FailedUnderSettlement
  \/ BaselineRepairStarted \/ BaselineRepairFailed \/ InitialRetried \/ InitialFailed

----------------------------------------------------------------------------
(* handle_reset_completed *)

ResetCompleted ==
  /\ Completes("Reset")
  /\ tasks' = Tail(tasks)
  /\ \E ok \in BOOLEAN :
       /\ lease' = [lease EXCEPT !.staged = @ /\ ~ok]
       /\ IF reset.exitAfter /\ ~ok
          THEN \* the next helper gets a fresh SettingsManager
               /\ reset' = [reset EXCEPT !.pending = FALSE, !.exitAfter = FALSE]
               /\ world' = [world EXCEPT !.running = FALSE]
               /\ UNCHANGED frame
          ELSE /\ reset' = [reset EXCEPT !.pending = FALSE,
                                         !.exitAfter = @ /\ ~HasDeferredFollowup]
               /\ frame' = DrainThen("resetDone")
               /\ UNCHANGED world
  /\ UNCHANGED <<state, gen, worker, deferred, session, settle, identity, retry, ticket,
                 timers, link, mail, replies, inputs>>

\* mutant: the held completion is not looked at
CompletionForgotten ==
  /\ After("resetDone")
  /\ frame' = [IdleFrame EXCEPT !.at = "resetTail"]
  /\ UNCHANGED <<state, gen, worker, deferred, session, lease, settle, reset, identity,
                 retry, ticket, tasks, timers, link, mail, world, replies, inputs>>
\* A held completion finishes when its replacement did not start.
AfterReset ==
  /\ After("resetDone")
  /\ IF Free /\ reset.completion.held
     THEN /\ frame' = [IdleFrame EXCEPT !.at = "finish", !.caller = "reset",
                                        !.done = reset.completion.done]
          /\ reset' = [reset EXCEPT !.completion = NoneHeld]
     ELSE /\ frame' = [IdleFrame EXCEPT !.at = "resetTail"]
          /\ UNCHANGED reset
  /\ UNCHANGED <<state, gen, worker, deferred, session, lease, settle, identity, retry,
                 ticket, tasks, timers, link, mail, world, replies, inputs>>

ExitsAfterReset == reset.exitAfter /\ ~reset.pending
ResetExits ==
  /\ At("resetTail") /\ ExitsAfterReset
  /\ reset' = [reset EXCEPT !.exitAfter = FALSE]
  /\ frame' = IdleFrame
  /\ ExitProcess(0, world)
  /\ UNCHANGED <<state, gen, worker, deferred, session, lease, settle, identity, retry,
                 ticket, tasks, timers, mail, replies, inputs>>

\* resume_transient_disconnect_settlement_after_staged_reset; the result of
\* the next check's dispatch is not looked at.
Resumed == [settle EXCEPT !.deferredByReset = FALSE]
ResumesSettlement ==
  /\ settle.deferredByReset /\ SettlesNow
  /\ session.verified \/ state # "Verification"
ResetResumes ==
  /\ At("resetTail") /\ ~ExitsAfterReset
  /\ frame' = IdleFrame
  /\ \/ /\ reset.pending
        /\ UNCHANGED <<gen, settle, state, session, tasks, timers>>
     \/ /\ ~reset.pending /\ ~ResumesSettlement
        /\ settle' = Resumed
        /\ UNCHANGED <<gen, state, session, tasks, timers>>
     \/ /\ ~reset.pending /\ ResumesSettlement /\ settle.deferredFinal
        /\ UNCHANGED <<gen, session>>
        /\ FinalCheck([Resumed EXCEPT !.deferredFinal = FALSE], tasks)
     \/ /\ ~reset.pending /\ ResumesSettlement /\ ~settle.deferredFinal
        /\ IF settle.pending THEN UNCHANGED <<gen, session>>
           ELSE /\ PrepareCancel
                /\ session' = [session EXCEPT !.reapply = FALSE]
        /\ \/ NextCheck(Resumed, tasks)
           \/ /\ CheckRefused(Resumed)
              /\ settle' = NoSettle
              /\ UNCHANGED <<state, tasks, timers>>
  /\ UNCHANGED <<worker, deferred, lease, reset, identity, retry, ticket, link, mail,
                 world, replies, inputs>>

----------------------------------------------------------------------------
(* handle_refresh_rate_completed *)

\* A refresh-rate change that finishes under a settlement gives it its next
\* check; the request it names is the current one.
RefreshRateCompleted ==
  /\ Completes("RefreshRate")
  /\ worker' = NoWorker
  /\ frame' = DrainThen("return")
  /\ IF Live(Front) /\ settle.requested
     THEN /\ PrepareCancel
          /\ session' = [session EXCEPT !.reapply = FALSE]
          /\ CheckDelayed(settle, Tail(tasks))
     ELSE /\ tasks' = Tail(tasks)
          /\ UNCHANGED <<gen, session, settle, state, timers>>
  /\ UNCHANGED <<deferred, lease, reset, identity, retry, ticket, link, mail, world,
                 replies, inputs>>

----------------------------------------------------------------------------
(* handle_recovery_completed and handle_recovery_validation_completed *)

\* retain_recovery_after_cancelled_recovery
Retained(l) == [l EXCEPT !.armed = TRUE, !.changesPending = TRUE, !.unconfirmed = TRUE,
                         !.heartbeat = TRUE]

\* recovery_status_policy_.publish: only the attempt's own generation
Published(t, status) == IF t.ticket # 0 /\ t.gen = Front.gen
                        THEN [t EXCEPT !.status = status] ELSE t

\* A cancelled attempt: whether it entered the display stack decides whether
\* the lease stays.  An exception loses that fact.
RecoveryCancelled ==
  /\ Completes("Recovery") /\ ~Live(Front) /\ Front.phase # "entered"
  /\ worker' = NoWorker
  /\ tasks' = Tail(tasks)
  /\ \E lost \in IF Throws THEN BOOLEAN ELSE {FALSE} :
       lease' = IF Front.phase = "touched" /\ ~lost THEN Retained(lease)
                ELSE [lease EXCEPT !.attempted = FALSE]
  /\ frame' = DrainThen("return")
  /\ UNCHANGED <<state, gen, deferred, session, settle, reset, identity, retry, ticket,
                 timers, link, mail, world, replies, inputs>>
RecoverySucceeded ==
  /\ Completes("Recovery") /\ Live(Front) /\ Front.phase = "touched"
  /\ \E ok \in {"ok", "failed"} : reset' = [reset EXCEPT !.recovery = ok]
  /\ state' = "RecoveryValidation"
  /\ UNCHANGED gen
  /\ worker' = [worker EXCEPT !.gen = gen']
  /\ tasks' = Append(Tail(tasks), Task("Validation", "none"))
  /\ UNCHANGED <<deferred, session, lease, settle, identity, retry, ticket, frame, timers,
                 link, mail, world, replies, inputs>>
RecoveryFailed ==
  /\ Completes("Recovery") /\ Live(Front)
  /\ Front.phase = "touched" \/ Throws
  /\ ticket' = Published(ticket, IF Front.phase = "touched" THEN "failed" ELSE "unknown")
  /\ worker' = NoWorker
  /\ tasks' = Tail(tasks)
  /\ retry' = [retry EXCEPT !.quiet = TRUE]
  /\ state' = "EventLoop"
  /\ frame' = DrainThen("return")
  /\ UNCHANGED <<gen, deferred, session, lease, settle, reset, identity, timers, link,
                 mail, world, replies, inputs>>

ValidationCancelled ==
  /\ Completes("Validation") /\ ~Live(Front)
  /\ worker' = NoWorker
  /\ tasks' = Tail(tasks)
  /\ lease' = Retained(lease)
  /\ frame' = DrainThen("return")
  /\ UNCHANGED <<state, gen, deferred, session, settle, reset, identity, retry, ticket,
                 timers, link, mail, world, replies, inputs>>
ValidationFailed ==
  /\ Completes("Validation") /\ Live(Front)
  /\ ticket' = Published(ticket, "failed")
  /\ worker' = NoWorker
  /\ tasks' = Tail(tasks)
  /\ retry' = [retry EXCEPT !.quiet = TRUE]
  /\ state' = "EventLoop"
  /\ frame' = DrainThen("return")
  /\ UNCHANGED <<gen, deferred, session, lease, settle, reset, identity, timers, link,
                 mail, world, replies, inputs>>

\* The desktop is restored: the lease ends, and staged state that recovery
\* could not clear is reset before anything else runs.
ValidationSucceeded ==
  /\ Completes("Validation") /\ Live(Front)
  /\ UNCHANGED gen
  /\ LET resets == lease.staged /\ reset.recovery = "failed" IN
     /\ lease' = [armed |-> FALSE, changesPending |-> FALSE, explicit |-> lease.explicit,
                  taskCreated |-> FALSE, unconfirmed |-> FALSE, staged |-> resets,
                  onDisconnect |-> lease.onDisconnect, attempted |-> FALSE,
                  heartbeat |-> FALSE]
     /\ reset' = [reset EXCEPT !.pending = @ \/ resets,
                     !.exitAfter = reset.pending \/ resets \/ HasDeferredReset,
                     !.stray = FALSE]
     /\ tasks' = IF resets /\ ~reset.pending
                 THEN Append(Tail(tasks), Task("Reset", "none")) ELSE Tail(tasks)
     /\ frame' = DrainThen(IF HasDeferredFollowup /\ ~resets THEN "restoredFollowup"
                           ELSE "restored")
  /\ ticket' = Published(ticket, "restored")
  /\ retry' = [Disarmed(retry) EXCEPT !.quiet = FALSE, !.event = NoEvent, !.known = FALSE]
  /\ worker' = NoWorker
  /\ state' = "Waiting"
  /\ world' = [world EXCEPT !.task = FALSE, !.owed = FALSE]
  /\ UNCHANGED <<deferred, session, settle, identity, timers, link, mail, replies, inputs>>

\* The automatic exit, unless a newer transaction or RESET owns what follows.
\* When the drain dropped the waiting RESET as stale, the exit is left without
\* the completion it waits for.
AfterRestored ==
  /\ After("restored")
  /\ frame' = IdleFrame
  /\ IF reset.exitAfter THEN UNCHANGED <<link, world>> ELSE ExitProcess(0, world)
  /\ reset' = [reset EXCEPT !.stray = reset.exitAfter /\ ~reset.pending]
  /\ UNCHANGED <<state, gen, worker, deferred, session, lease, settle, identity,
                 retry, ticket, tasks, timers, mail, replies, inputs>>
AfterRestoredFollowup ==
  /\ After("restoredFollowup")
  /\ frame' = IdleFrame
  /\ reset' = [reset EXCEPT !.exitAfter = FALSE]
  /\ UNCHANGED <<state, gen, worker, deferred, session, lease, settle, identity, retry,
                 ticket, tasks, timers, link, mail, world, replies, inputs>>

MutationCompleted ==
  \/ StaleApplyCompleted \/ ReactivationCompleted \/ ApplyCompleted
  \/ ResetCompleted \/ RefreshRateCompleted \/ RecoveryCancelled
  \/ RecoverySucceeded \/ RecoveryFailed \/ ValidationCancelled
  \/ ValidationFailed \/ ValidationSucceeded
Continue ==
  \/ FinishApply \/ AfterReset \/ ResetExits \/ ResetResumes
  \/ AfterRestored \/ AfterRestoredFollowup
Complete == MutationCompleted \/ VerificationCompleted
=============================================================================
