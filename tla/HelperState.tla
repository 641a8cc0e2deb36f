----------------------------- MODULE HelperState -----------------------------
(***************************************************************************)
(* The state of the display helper process (engine v2): the StateMachine   *)
(* object, the dispatcher's worker and timer queues, the IPC connection    *)
(* and the part of Windows they change.  The handlers that act on this     *)
(* state are in HelperCommands, HelperCompletions and HelperEvents; the    *)
(* specification and its properties are in DisplayHelper.                  *)
(*                                                                         *)
(* A message is handled in the step that delivers it: the mailbox only     *)
(* delays a message, and a message delayed past the retirement of its      *)
(* connection or generation is dropped by its handler's first test.        *)
(***************************************************************************)
EXTENDS Naturals, Sequences

CONSTANTS
  Requests,        \* APPLY requests a client may send
  Tickets,         \* restore tickets a REVERT may carry; 0 is "no ticket"
  Commands,        \* the commands the clients of this instance send
  Events,          \* the display notifications of this instance
  MaxDiscoveries,  \* kMaxVirtualIdentityDiscoveriesPerSession
  MaxRepairs,      \* kMaxVirtualIdentityRepairsPerSession
  Throws,          \* whether a display operation may throw
  MaxInputs,       \* bound: commands and display events per behaviour
  MaxEpoch         \* bound: connections are numbered up to MaxEpoch

VARIABLES
  state,     \* state_
  gen,       \* CancellationSource's generation
  worker,    \* active_mutation_worker_
  deferred,  \* deferred_mutation_commands_
  session,   \* current_request_ and the flags of its transaction
  lease,     \* what keeps the changed desktop recoverable
  settle,    \* the transient_disconnect_* flags
  reset,     \* the staged-state RESET barrier; "stray" is auxiliary: the exit
             \* waits for no RESET
  identity,  \* bounded virtual-identity and baseline-topology repairs
  retry,     \* scheduler_, the feedback quiet period and the deferred event
  ticket,    \* recovery_status_policy_
  frame,     \* where the running handler stands when it calls the drain loop
  tasks,     \* AsyncDispatcher::tasks_, executed and completed in order
  timers,    \* AsyncDispatcher::timer_tasks_
  link,      \* the IPC connection seen by run_v2_helper
  mail,      \* a REVERT waiting in the mailbox ahead of later commands
  world,     \* Windows: restore task, snapshots, whether a restore is owed;
             \* and whether the process runs
  replies,   \* auxiliary: the results published for the current request
  inputs     \* auxiliary: inputs taken so far

vars == <<state, gen, worker, deferred, session, lease, settle, reset, identity,
          retry, ticket, frame, tasks, timers, link, mail, world, replies,
          inputs>>

----------------------------------------------------------------------------
(* Requests, tasks and completions *)

Layouts == {"none", "physical", "virtual", "exclusive", "badExclusive"}
Request == [layout : Layouts, restore : BOOLEAN, hdr : BOOLEAN]
NoRequest == [layout |-> "none", restore |-> FALSE, hdr |-> FALSE]

\* What the instances must give: requests and tickets of the right shape.
ASSUME ConstantsAssumption ==
  /\ Requests \subseteq Request /\ Tickets \subseteq Nat
  /\ MaxDiscoveries \in Nat /\ MaxRepairs \in Nat
  /\ MaxInputs \in Nat /\ MaxEpoch \in Nat

HasConfiguration(r) == r.layout # "none"
HasVirtualLayout(r) == r.layout \in {"virtual", "exclusive", "badExclusive"}
IsExclusive(r) == r.layout \in {"exclusive", "badExclusive"}

\* ensure_exclusive_topology: only an Exclusive request with a target identity
\* gets its singleton topology; "badExclusive" has no target identity.
HasTopology(r) == r.layout = "exclusive"
Accepted(r) == HasConfiguration(r) /\ r.layout # "badExclusive"

States == {"Waiting", "InProgress", "Verification", "VirtualDisplayMonitoring",
           "Recovery", "RecoveryValidation", "EventLoop"}

WorkerKinds == {"Apply", "RefreshRate", "Recovery"}
NoWorker == [kind |-> "none", gen |-> 0]

\* A task of the dispatcher.  "mode" is the lane of an APPLY or the purpose of
\* a verification; "phase" is how far its operation has run.
Modes == {"full", "repair", "rollback", "reactivation", "none", "Initial",
          "TransientDisconnect", "TransientDisconnectFinal",
          "BaselineTopologyReturn", "BaselineTopologyRepair"}
Phases == {"queued", "entered", "guarded", "touched"}
Task(op, mode) ==
  [op |-> op, mode |-> mode, gen |-> gen', phase |-> "queued", armed |-> FALSE]
IsMutation(t) == t.op \in {"Apply", "RefreshRate", "Recovery", "Validation"}

\* The handlers tell apart success, a failed HDR change and every other
\* failure.  No backend returns NeedsVirtualDisplayReset.
Statuses == {"Ok", "HdrStateFailed", "Fatal"}
Completion == [status : Statuses, changed : BOOLEAN, armed : BOOLEAN,
               attempted : BOOLEAN, staged : BOOLEAN, rollback : BOOLEAN,
               topology : BOOLEAN]
NoCompletion == [status |-> "Fatal", changed |-> FALSE, armed |-> FALSE,
                 attempted |-> FALSE, staged |-> FALSE, rollback |-> FALSE,
                 topology |-> FALSE]
NoneHeld == [held |-> FALSE, done |-> NoCompletion]

\* One shape for every command that can wait behind the mutation fence.
Intents == {"Apply", "Repair", "Revert", "Disarm", "Reset"}
Intent(cmd, epoch) ==
  [cmd |-> cmd, epoch |-> epoch, request |-> NoRequest, ticket |-> 0,
   disconnect |-> FALSE, force |-> FALSE]

NoSettle == [requested |-> FALSE, pending |-> FALSE, repair |-> FALSE,
             deferredByReset |-> FALSE, deferredFinal |-> FALSE,
             finalPending |-> FALSE, next |-> 0, topology |-> FALSE,
             rollback |-> FALSE]
NoTicket == [ticket |-> 0, gen |-> 0, epoch |-> 0, status |-> "unknown",
             parked |-> FALSE]
NoEvent == [held |-> FALSE, gen |-> 0, epoch |-> 0]
NoRetry == [armed |-> FALSE, open |-> FALSE, reported |-> FALSE, quiet |-> FALSE,
            event |-> NoEvent, known |-> FALSE]
NoIdentity == [discoveries |-> 0, repairs |-> 0, baseline |-> FALSE, inFlight |-> FALSE,
               expected |-> FALSE]
NoReplies == [apply |-> "none", verification |-> "none", repeated |-> FALSE]

\* The points at which a handler calls drain_deferred_mutation_commands, or
\* continues after it; "idle" is the main loop between two messages.
DrainPoints == {"return", "rollback", "superseded", "repairOk", "failed",
                "resetDone", "restored", "restoredFollowup"}
FramePoints == DrainPoints \cup
  {"idle", "finish", "rolledBack", "decide", "conclude", "resetTail"}
IdleFrame == [at |-> "idle", caller |-> "message", done |-> NoCompletion,
              baseline |-> FALSE]

----------------------------------------------------------------------------
(* Predicates of the StateMachine *)

WorkerActive == worker # NoWorker
Free == ~WorkerActive /\ ~reset.pending
RestorePending == state \in {"Recovery", "RecoveryValidation", "EventLoop"}
RecoveryInProgress == state \in {"Recovery", "RecoveryValidation"}
ApplyInFlight == WorkerActive \/ state \in {"InProgress", "Verification"}
RequiresDisconnectRecovery ==
  lease.armed \/ lease.changesPending \/ ApplyInFlight \/ RestorePending

\* is_stale_connection: epoch 0 belongs to the helper itself.
StaleEpoch(e) == e # 0 /\ e # link.epoch
Connected == link.conn = "live"

Running == world.running
Idle == Running /\ frame.at = "idle"

\* has_deferred_apply_intent
HasDeferredApply ==
  \E i \in DOMAIN deferred :
    deferred[i].cmd \in {"Apply", "Repair"} /\ ~StaleEpoch(deferred[i].epoch)
\* mutant: the waiting follow-up is not looked for
FollowupMissed == FALSE
HasDeferredFollowup == \E i \in DOMAIN deferred : deferred[i].cmd # "Reset"
HasDeferredReset == \E i \in DOMAIN deferred : deferred[i].cmd = "Reset"

\* enqueue_deferred_mutation_command: an autonomous repair never displaces a
\* waiting client command; a client command displaces every waiting intent
\* except RESET.  At most one such intent waits (OneIntent): it is "older".
Erase(queue, i) == SubSeq(queue, 1, i - 1) \o SubSeq(queue, i + 1, Len(queue))
\* mutant: a plain queue keeps every waiting command
EnqueueFifo(queue, c) == Append(queue, c)
Enqueue(queue, c) ==
  LET waiting == {i \in DOMAIN queue : queue[i].cmd # "Reset"}
      older == CHOOSE i \in waiting : TRUE
  IN CASE c.cmd = "Reset" \/ waiting = {} -> Append(queue, c)
       [] c.cmd = "Repair" /\ waiting # {} /\ queue[older].cmd # "Repair" -> queue
       [] OTHER -> Append(Erase(queue, older), c)

----------------------------------------------------------------------------
(* Updates shared by the handlers *)

\* system_.cancel_operations
Cancel == gen' = gen + 1

\* mutant: the policy is applied but nothing is armed
ActivatedUnarmed(l) == [l EXCEPT !.onDisconnect = session.request.restore]
\* activate_recovery_lease, with apply_recovery_policy_from_current_request
Activated(l) == [l EXCEPT !.armed = TRUE, !.changesPending = TRUE,
                          !.onDisconnect = session.request.restore]

\* enter_steady_state
SteadyState == IF HasVirtualLayout(session.request)
               THEN "VirtualDisplayMonitoring" ELSE "Waiting"

\* send_apply_result and send_verification_result: at most one of each until
\* the flags are cleared.  "repeated" records a second result for one request.
Report(r, result, ok, sent) ==
  IF sent THEN r
  ELSE [r EXCEPT ![result] = IF ok THEN "Ok" ELSE "Failed",
                 !.repeated = @ \/ r[result] # "none"]

\* dispatch_apply_worker
DispatchApply(mode) ==
  /\ worker' = [kind |-> "Apply", gen |-> gen']
  /\ tasks' = Append(tasks, Task("Apply", mode))

\* start_recovery; the caller fixes lease', retry' and gen'.
Started(t) == IF t.ticket = 0 THEN t
              ELSE [t EXCEPT !.gen = gen', !.status = "active", !.parked = FALSE]
StartRecovery ==
  /\ state' = "Recovery"
  /\ worker' = [kind |-> "Recovery", gen |-> gen']
  /\ tasks' = Append(tasks, Task("Recovery", "none"))
\* mutant: the scheduler is left as it was
NeverArmed(r) == r
ArmRetry(r) == [r EXCEPT !.armed = TRUE, !.open = TRUE, !.reported = FALSE]
Disarmed(r) == [r EXCEPT !.armed = FALSE, !.open = FALSE, !.reported = FALSE]
StartRetry(r) == [r EXCEPT !.event = NoEvent, !.known = TRUE]

\* begin_staged_state_reset
BeginReset(r) == [r EXCEPT !.pending = TRUE]

\* The frame to continue with when finish_apply_completed returns.
Returned == IF frame.caller = "reset" THEN [IdleFrame EXCEPT !.at = "resetTail"]
            ELSE IdleFrame
DrainThen(point) == [frame EXCEPT !.at = point]

\* set_exit_callback: a restore is not the end of a helper that serves a newer
\* connection.  client_connected is cleared only when the main loop notices
\* that the pipe is gone.
StaysAlive(code) == /\ code = 0 /\ link.origin # 0
                    /\ link.epoch > link.origin /\ link.conn \in {"live", "broken"}
ExitProcess(code, w) ==
  IF StaysAlive(code)
  THEN /\ link' = [link EXCEPT !.origin = 0]
       /\ world' = w
  ELSE /\ world' = [w EXCEPT !.running = FALSE]
       /\ UNCHANGED link

\* A helper starts idle, or (restore mode, at boot) with its own REVERT queued
\* and no client.
Init ==
  /\ state = "Waiting"
  /\ gen = 1
  /\ worker = NoWorker
  /\ deferred = <<>>
  /\ session = [request |-> NoRequest, preTopology |-> FALSE, epoch |-> 0,
                verified |-> FALSE, applySent |-> FALSE, verificationSent |-> FALSE,
                reapply |-> FALSE, hdrTried |-> FALSE, leaseBefore |-> FALSE,
                recent |-> FALSE, reactivating |-> FALSE]
  /\ lease = [armed |-> FALSE, changesPending |-> FALSE, explicit |-> FALSE,
              taskCreated |-> FALSE, unconfirmed |-> FALSE, staged |-> FALSE,
              onDisconnect |-> TRUE, attempted |-> FALSE, heartbeat |-> FALSE]
  /\ settle = NoSettle
  /\ reset = [pending |-> FALSE, exitAfter |-> FALSE, recovery |-> "none",
              completion |-> NoneHeld, stray |-> FALSE]
  /\ identity = NoIdentity
  /\ retry = NoRetry
  /\ ticket = NoTicket
  /\ frame = IdleFrame
  /\ tasks = <<>>
  /\ timers = <<>>
  /\ mail \in {<<>>, <<Intent("Revert", 0)>>}
  /\ link = [epoch |-> 0, conn |-> IF mail = <<>> THEN "none" ELSE "boot", origin |-> 0]
  /\ world \in [task : {FALSE}, owed : {FALSE}, tiers : BOOLEAN, running : {TRUE}]
  /\ replies = NoReplies
  /\ inputs = 0
=============================================================================
