---------------------------- MODULE DisplayHelper ----------------------------
(***************************************************************************)
(* The display helper process (engine v2): its specification, what must    *)
(* hold of it at every moment, what a step of it may never do, and what    *)
(* must eventually happen.                                                 *)
(***************************************************************************)
EXTENDS HelperEvents

Client ==
  \/ ClientApply \/ ClientReactivate \/ ClientRevert \/ ClientDisarm \/ ClientReset
  \/ ClientRefreshRate \/ ClientSnapshot \/ ClientPark
Mailbox == RevertDelivered \/ RevertStale

Next ==
  \/ Client \/ Mailbox \/ Drain \/ Complete \/ Continue \/ Worker
  \/ DisplayEvent \/ Tick \/ Time \/ Connection

Spec == Init /\ [][Next]_vars

\* The worker and timer threads keep running, the main loop keeps taking the
\* next message and finishes the handler it is in, and it notices a broken
\* pipe.  Nothing is assumed of clients, displays or time.
Fairness ==
  /\ WF_vars(Mailbox) /\ WF_vars(Drain) /\ WF_vars(Complete) /\ WF_vars(Continue)
  /\ WF_vars(Worker)
  /\ WF_vars(DisconnectSettles \/ DisconnectReverts \/ DisconnectIdle)
FairSpec == Spec /\ Fairness

----------------------------------------------------------------------------
Epochs == 0..(MaxEpoch + 1)
TaskType ==
  [op : {"Apply", "Verification", "Reset", "RefreshRate", "Recovery", "Validation"},
   mode : Modes, gen : Nat, phase : Phases, armed : BOOLEAN]
IntentType ==
  [cmd : Intents, epoch : Epochs, request : Request, ticket : Tickets \cup {0},
   disconnect : BOOLEAN, force : BOOLEAN]
SessionType ==
  [request : Request, preTopology : BOOLEAN, epoch : Epochs, verified : BOOLEAN,
   applySent : BOOLEAN, verificationSent : BOOLEAN, reapply : BOOLEAN, hdrTried : BOOLEAN,
   leaseBefore : BOOLEAN, recent : BOOLEAN, reactivating : BOOLEAN]
LeaseType ==
  [armed : BOOLEAN, changesPending : BOOLEAN, explicit : BOOLEAN, taskCreated : BOOLEAN,
   unconfirmed : BOOLEAN, staged : BOOLEAN, onDisconnect : BOOLEAN, attempted : BOOLEAN,
   heartbeat : BOOLEAN]
SettleType ==
  [requested : BOOLEAN, pending : BOOLEAN, repair : BOOLEAN, deferredByReset : BOOLEAN,
   deferredFinal : BOOLEAN, finalPending : BOOLEAN, next : 0..MaxChecks,
   topology : BOOLEAN, rollback : BOOLEAN]
ResetType ==
  [pending : BOOLEAN, exitAfter : BOOLEAN, recovery : {"none", "ok", "failed"},
   completion : [held : BOOLEAN, done : Completion], stray : BOOLEAN]
IdentityType ==
  [discoveries : 0..MaxDiscoveries, repairs : 0..MaxRepairs, baseline : BOOLEAN,
   inFlight : BOOLEAN, expected : BOOLEAN]
RetryType ==
  [armed : BOOLEAN, open : BOOLEAN, reported : BOOLEAN, quiet : BOOLEAN,
   event : [held : BOOLEAN, gen : Nat, epoch : Epochs], known : BOOLEAN]
TicketType ==
  [ticket : Tickets \cup {0}, gen : Nat, epoch : Epochs,
   status : {"unknown", "active", "failed", "restored"}, parked : BOOLEAN]
FrameType ==
  [at : FramePoints, caller : {"message", "reset"}, done : Completion, baseline : BOOLEAN]
LinkType ==
  [epoch : Epochs, conn : {"none", "boot", "live", "broken"}, origin : Epochs]
WorldType == [task : BOOLEAN, owed : BOOLEAN, tiers : BOOLEAN, running : BOOLEAN]
Result == {"none", "Ok", "Failed"}
RepliesType == [apply : Result, verification : Result, repeated : BOOLEAN]

\* The shape of every variable.  Three parts of it are bounds of the code: the
\* settlement never goes past its two delayed checks, and the discoveries and
\* autonomous repairs of one APPLY never go below zero.
TypeOK ==
  /\ state \in States
  /\ gen \in Nat
  /\ worker \in [kind : WorkerKinds \cup {"none"}, gen : Nat]
  /\ deferred \in Seq(IntentType)
  /\ session \in SessionType /\ lease \in LeaseType /\ settle \in SettleType
  /\ reset \in ResetType /\ identity \in IdentityType /\ retry \in RetryType
  /\ ticket \in TicketType /\ frame \in FrameType
  /\ tasks \in Seq(TaskType) /\ timers \in Seq(TaskType)
  /\ link \in LinkType
  /\ mail \in Seq(IntentType)
  /\ world \in WorldType /\ replies \in RepliesType
  /\ inputs \in 0..MaxInputs

----------------------------------------------------------------------------
(* The mutation fence *)

Mutations(q) == {i \in DOMAIN q : IsMutation(q[i])}
KindOf(t) == IF t.op = "Validation" THEN "Recovery" ELSE t.op

\* At most one display mutation is in the dispatcher, and the fence
\* (active_mutation_worker_) names exactly that one: no handler, timer or
\* display event dispatches a second mutation beside it, and no completion
\* releases the fence of another mutation.
FenceMatchesDispatcher ==
  /\ WorkerActive <=> Mutations(tasks) # {}
  /\ \A i, j \in Mutations(tasks) : i = j
  /\ \A i \in Mutations(tasks) : worker = [kind |-> KindOf(tasks[i]), gen |-> tasks[i].gen]

\* A verification whose token is not cancelled is the only one, and the state
\* machine is in Verification: its completion finds the transaction it belongs
\* to, and can start the repair it decides on.
LiveIn(q) == {i \in DOMAIN q : q[i].op = "Verification" /\ q[i].gen = gen}
OneLiveCheck ==
  /\ LiveIn(tasks) # {} \/ LiveIn(timers) # {} => state = "Verification"
  /\ LiveIn(tasks) = {} \/ LiveIn(timers) = {}
  /\ \A i, j \in LiveIn(tasks) : i = j
  /\ \A i, j \in LiveIn(timers) : i = j

\* A command waits in deferred_mutation_commands_ only while a mutation or a
\* RESET is in flight, so that some completion will drain it.
DeferredHasOwner == Idle /\ deferred # <<>> => WorkerActive \/ reset.pending

\* A completion that RESET holds back (deferred_apply_completion_) has that
\* RESET in flight, or a replacement, to release or supersede it.
HeldHasReset == Idle /\ reset.completion.held => reset.pending \/ WorkerActive

\* Behind the fence waits at most one APPLY, REVERT, DISARM or identity repair:
\* the newest one.  RESET requests are kept in order beside it.
OneIntent ==
  \A i, j \in DOMAIN deferred :
    deferred[i].cmd # "Reset" /\ deferred[j].cmd # "Reset" => i = j

----------------------------------------------------------------------------
(* Protection of the user's desktop *)

\* Between two messages, a desktop that a mutation may have changed, and that
\* nobody has restored or waived, is protected: the recovery lease is armed, or
\* the mutation that changed it is still to report.  With no mutation in
\* flight, the helper's belief about the durable restore task is what Windows
\* has: the task is neither forgotten nor leaked.
LeaseKept ==
  /\ Idle /\ world.owed => lease.armed \/ WorkerActive
  /\ Idle /\ ~WorkerActive => (world.task <=> lease.taskCreated)

\* A verified session that its client still holds has a heartbeat: the helper
\* would notice that the client hangs.
HeartbeatLive ==
  /\ Idle /\ Connected /\ session.verified /\ session.epoch = link.epoch
  /\ lease.armed /\ ~RestorePending
  => lease.heartbeat

\* What the helper tells the owner of a restore ticket is true: "restored" when
\* nothing is left to restore, "failed" while the lease is armed and the
\* recovery waits for its next attempt or runs it.  A parked ticket never
\* outlives the failed recovery its controller parked: otherwise every later
\* session would ignore its display events.
TicketTruthful ==
  /\ Idle /\ ticket.ticket # 0 =>
       /\ ticket.status = "restored" => ~world.owed /\ ~lease.armed
       /\ ticket.status = "failed" => lease.armed /\ (state = "EventLoop" \/ WorkerActive)
  /\ Idle /\ ticket.parked =>
       ticket.status = "failed" /\ state = "EventLoop" /\ lease.armed /\ ~WorkerActive

\* A connected owner that is told its restore failed has the retry schedule
\* armed, so that the tick or a display event starts the next attempt, unless
\* it parked the ticket.  (A recovery nobody holds a ticket for may wait in
\* EventLoop unarmed: start_recovery does not arm the schedule, and a DISARM
\* ignored after a park leaves it off.)
RetryArmed ==
  /\ Idle /\ ticket.ticket # 0 /\ ticket.status = "failed" /\ ticket.epoch = link.epoch
  => retry.armed \/ ticket.parked

----------------------------------------------------------------------------
(* Ownership of a transaction *)

\* Someone will act: a mutation or RESET in flight, a broken pipe the main loop
\* has yet to notice, or a REVERT in the mailbox.
Attended == WorkerActive \/ reset.pending \/ link.conn = "broken" \/ mail # <<>>

\* An APPLY that is in progress is owned by something that will end it.
OwnedInProgress == Idle /\ state = "InProgress" => Attended

\* While a recent disconnect is being settled (transient_disconnect_requested_),
\* no APPLY or identity repair of a live connection waits behind the fence: the
\* settlement and the session's replacement never compete for the display.
SettlementAlone == settle.requested => ~HasDeferredApply

----------------------------------------------------------------------------
(* Answers *)

\* An APPLY that was accepted gets at most one result and one verification
\* result, whatever repairs, fallbacks, settlements and replacements follow, and
\* the two agree: a client that was told its APPLY failed is never told that the
\* display is verified, nor the reverse.
HonestAnswer ==
  Accepted(session.request) =>
    /\ ~replies.repeated
    /\ ~(replies.apply = "Failed" /\ replies.verification = "Ok")
    /\ ~(replies.apply = "Ok" /\ replies.verification = "Failed")

----------------------------------------------------------------------------
(* What a step may never do *)

\* The completion of a RESET takes the exit that a restore left to another one:
\* that RESET was dropped with its connection, and exit_after_staged_state_reset_
\* stayed behind.
StrayExit ==
  /\ reset.exitAfter /\ reset.stray
  /\ HasTask("Reset") \/ frame.at = "resetTail"

\* The helper ends on its own account only when no restore is owed, no APPLY or
\* recovery runs and no APPLY of the live client waits.  STOP ends it anyway,
\* and so does a RESET that fails after a restore, whose queued commands go with
\* it; a stray exit is the exception.
ExitClean ==
  [][Running /\ ~Running' =>
       \/ Stop \/ StrayExit
       \/ /\ ~world'.owed /\ worker'.kind \notin {"Apply", "Recovery"}
          /\ HasTask("Reset") \/ ~HasDeferredApply]_vars

\* No recovery begins on behalf of a session that opted out of the restore on
\* disconnect, unless a client asked for it: a failed APPLY, a settlement or a
\* reconnect does not bring an older session's policy back.  (A retry continues
\* the recovery that began.)
NoUnwantedRestore ==
  [][worker'.kind = "Recovery" /\ ~WorkerActive /\ ~RestorePending
       => lease'.explicit \/ lease'.onDisconnect]_vars

\* The helper does not exit under a client that did not ask for the restore.
ServesNewerClient ==
  [][Running /\ ~Running' /\ Connected
       => Stop \/ HasTask("Reset") \/ link.origin = link.epoch]_vars

----------------------------------------------------------------------------
(* What must happen *)

\* A connected client whose APPLY has begun gets its verification result, or
\* replaces the APPLY, or disconnects.
Awaiting == /\ Running /\ Connected /\ session.epoch = link.epoch
            /\ state \in {"InProgress", "Verification"}
            /\ replies.verification = "none"
AnswerArrives == Awaiting ~> ~Awaiting

\* A command that waits behind the fence is handled or dropped as stale.
IntentHonoured == (Running /\ deferred # <<>>) ~> (~Running \/ deferred = <<>>)

\* A client that asked for a restore and stays connected gets it, or a failed
\* attempt that is retried in EventLoop.
RevertServed ==
  (Running /\ Connected /\ lease.explicit /\ world.owed)
  ~> (~Running \/ ~Connected \/ ~world.owed \/ ~lease.explicit \/ state = "EventLoop")
=============================================================================
