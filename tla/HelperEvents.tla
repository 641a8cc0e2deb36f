---------------------------- MODULE HelperEvents ----------------------------
(***************************************************************************)
(* What reaches the StateMachine without a client: display notifications,  *)
(* the timer tick, the passage of time, and the connection itself.         *)
(***************************************************************************)
EXTENDS HelperCompletions

(* handle_display_event *)

\* A debounced notification of the current generation and connection; a parked
\* ticket only counts it.
Notified(e) ==
  /\ Idle /\ e \in Events /\ inputs < MaxInputs /\ ~ticket.parked
  /\ inputs' = inputs + 1
  /\ UNCHANGED <<mail, link, world, replies>>

SessionStates == {"VirtualDisplayMonitoring", "InProgress", "Verification"}

\* A physical baseline monitor came back: one read-only check of the enlarged
\* topology is admitted per APPLY.
BaselineReturned ==
  /\ \E e \in Events : Notified(e)
  /\ state = "VirtualDisplayMonitoring" /\ identity.baseline /\ Free
  /\ identity' = [identity EXCEPT !.baseline = FALSE, !.expected = TRUE]
  /\ session' = [session EXCEPT !.reapply = FALSE]
  /\ state' = "Verification"
  /\ UNCHANGED gen
  /\ tasks' = Append(tasks, Task("Verification", "BaselineTopologyReturn"))
  /\ UNCHANGED <<worker, deferred, lease, settle, reset, retry, ticket, frame, timers>>

\* An identity event uses up a discovery; the driver may report no identity or
\* the request's own.
IdentityEvent ==
  /\ Notified("identity")
  /\ state \in SessionStates /\ HasVirtualLayout(session.request)
  /\ identity.repairs > 0 /\ identity.discoveries > 0
Discovered == [identity EXCEPT !.discoveries = @ - 1]
IdentityUnchanged ==
  /\ IdentityEvent
  /\ identity' = Discovered
  /\ UNCHANGED <<state, gen, worker, deferred, session, lease, settle, reset, retry,
                 ticket, frame, tasks, timers>>
IdentityQueued ==
  /\ IdentityEvent /\ ~Free
  /\ identity' = Discovered
  /\ deferred' = Enqueue(deferred, Intent("Repair", session.epoch))
  /\ UNCHANGED <<state, gen, worker, session, lease, settle, reset, retry, ticket, frame,
                 tasks, timers>>
IdentityReplaced ==
  /\ IdentityEvent /\ Free
  /\ Cancel
  /\ ReapplyIdentity(Discovered)
  /\ UNCHANGED <<deferred, lease, settle, reset, retry, ticket, frame, timers>>

\* Outside a virtual session the event is evidence for a failed recovery: it is
\* kept while the worker, its feedback or the open window still owns the retry.
RecoveryEvent ==
  /\ \E e \in Events : Notified(e)
  /\ lease.armed
  /\ UNCHANGED <<deferred, session, lease, settle, identity, frame, timers>>
EventKept ==
  /\ RecoveryEvent
  /\ \/ RecoveryInProgress
     \/ state = "EventLoop" /\ (retry.quiet \/ (retry.armed /\ retry.open))
  /\ retry' = [retry EXCEPT !.event = [held |-> TRUE, gen |-> gen, epoch |-> link.epoch]]
  /\ UNCHANGED <<state, gen, worker, reset, ticket, tasks>>

\* start_recovery from the event loop
RestartRecovery ==
  /\ UNCHANGED gen
  /\ StartRecovery
  /\ reset' = [reset EXCEPT !.recovery = "none"]
  /\ ticket' = Started(ticket)
EventReopens ==
  /\ RecoveryEvent
  /\ state = "EventLoop" /\ ~retry.quiet /\ retry.armed /\ ~retry.open
  /\ RestartRecovery
  /\ retry' = StartRetry([retry EXCEPT !.open = TRUE, !.reported = FALSE])

----------------------------------------------------------------------------
(* handle_tick *)

Ticks ==
  /\ Idle /\ state = "EventLoop" /\ lease.armed /\ ~ticket.parked
  /\ UNCHANGED <<deferred, session, lease, settle, identity, frame, timers, link, mail,
                 world, replies, inputs>>
Reconciles == retry.event.held /\ Free /\ ~(retry.armed /\ retry.open) /\ ~retry.quiet

\* The kept event proved a returned baseline monitor: one new bounded window.
TickReconciles ==
  /\ Ticks /\ Reconciles
  /\ retry.event.gen = gen /\ ~StaleEpoch(retry.event.epoch) /\ retry.known
  /\ RestartRecovery
  /\ retry' = StartRetry([retry EXCEPT !.open = retry.armed, !.reported = FALSE])
\* It proved nothing; the rest of the tick reports the exhausted window.
TickDiscards ==
  /\ Ticks /\ Reconciles
  /\ retry' = [retry EXCEPT !.event = NoEvent, !.reported = @ \/ retry.armed]
  /\ UNCHANGED <<state, gen, worker, reset, ticket, tasks>>
TickExpires ==
  /\ Ticks /\ ~Reconciles
  /\ retry.armed /\ ~retry.open /\ ~retry.reported
  /\ retry' = [retry EXCEPT !.reported = TRUE]
  /\ UNCHANGED <<state, gen, worker, reset, ticket, tasks>>
\* The backoff is over inside the open window.
TickRetries ==
  /\ Ticks /\ retry.armed /\ retry.open
  /\ RestartRecovery
  /\ retry' = StartRetry(retry)

----------------------------------------------------------------------------
(* Time *)

notTime == <<state, gen, worker, deferred, lease, settle, reset, identity, ticket, frame,
             tasks, timers, link, mail, world, replies, inputs>>

\* The recovery window closes
WindowCloses ==
  /\ Running /\ retry.armed /\ retry.open
  /\ retry' = [retry EXCEPT !.open = FALSE]
  /\ UNCHANGED <<notTime, session>>
\* the feedback quiet period ends
QuietEnds ==
  /\ Running /\ retry.quiet
  /\ retry' = [retry EXCEPT !.quiet = FALSE]
  /\ UNCHANGED <<notTime, session>>
\* five seconds have passed since the last APPLY.
GraceEnds ==
  /\ Running /\ session.recent
  /\ session' = [session EXCEPT !.recent = FALSE]
  /\ UNCHANGED <<notTime, retry>>

----------------------------------------------------------------------------
(* The connection: run_v2_helper *)

Connect ==
  /\ Idle /\ link.conn = "none" /\ link.epoch < MaxEpoch
  /\ link' = [link EXCEPT !.epoch = @ + 1, !.conn = "live"]
  /\ lease' = [lease EXCEPT !.heartbeat = TRUE]
  /\ UNCHANGED <<state, gen, worker, deferred, session, settle, reset, identity, retry,
                 ticket, frame, tasks, timers, mail, world, replies, inputs>>

\* retire_connection_epoch: the pipe thread does it at any moment.
Retire ==
  /\ Running /\ link.conn = "live"
  /\ link' = [link EXCEPT !.epoch = @ + 1, !.conn = "broken"]
  /\ UNCHANGED <<state, gen, worker, deferred, session, lease, settle, reset, identity,
                 retry, ticket, frame, tasks, timers, mail, world, replies, inputs>>

\* STOP
Stop ==
  /\ Running /\ Connected /\ "Stop" \in Commands
  /\ Cancel
  /\ world' = [world EXCEPT !.running = FALSE]
  /\ UNCHANGED <<state, worker, deferred, session, lease, settle, reset, identity, retry,
                 ticket, frame, tasks, timers, link, mail, replies, inputs>>

\* should_defer_disconnect_recovery and the other condition of
\* begin_transient_disconnect_settlement
Settles == /\ ~lease.explicit /\ lease.onDisconnect /\ session.recent
           /\ HasConfiguration(session.request)
Claimed == [settle EXCEPT !.requested = TRUE, !.topology = HasTopology(session.request)]

\* The main loop sees the broken pipe: the client's queued messages go.
Disconnects ==
  /\ Idle /\ link.conn = "broken"
  /\ lease' = [lease EXCEPT !.heartbeat = FALSE]
  /\ UNCHANGED <<worker, deferred, reset, identity, retry, ticket, frame, world, replies,
                 inputs>>
RetiredEpoch == link.epoch - 1
\* Only the first message can be the client's: its REVERT enters an empty mailbox.
LiveMail == IF mail # <<>> /\ Head(mail).epoch = RetiredEpoch THEN Tail(mail) ELSE mail
Unlinked == [link EXCEPT !.conn = "none"]

\* begin_transient_disconnect_settlement returns true
DisconnectSettles ==
  /\ Disconnects /\ ~settle.requested /\ Settles
  /\ mail' = LiveMail
  /\ link' = Unlinked
  /\ IF WorkerActive THEN UNCHANGED <<gen, session>>
     ELSE /\ PrepareCancel
          /\ session' = [session EXCEPT !.reapply = FALSE]
  /\ \/ /\ reset.pending
        /\ settle' = [Claimed EXCEPT !.deferredByReset = TRUE]
        /\ UNCHANGED <<state, tasks, timers>>
     \/ /\ ~reset.pending
        /\ WorkerActive \/ (~session.verified /\ state = "Verification")
        /\ settle' = Claimed
        /\ UNCHANGED <<state, tasks, timers>>
     \/ /\ Free /\ (session.verified \/ state # "Verification")
        /\ CheckDelayed(Claimed, tasks)

\* Otherwise the helper queues its own REVERT if anything needs one.
DisconnectReverts ==
  /\ Disconnects /\ ~settle.requested /\ ~Settles /\ RequiresDisconnectRecovery
  /\ mail' = Append(LiveMail, [Intent("Revert", 0) EXCEPT !.disconnect = TRUE])
  /\ link' = [Unlinked EXCEPT !.origin = RetiredEpoch]
  /\ UNCHANGED <<state, gen, session, settle, tasks, timers>>
DisconnectIdle ==
  /\ Disconnects
  /\ settle.requested \/ (~Settles /\ ~RequiresDisconnectRecovery)
  /\ mail' = LiveMail
  /\ link' = Unlinked
  /\ UNCHANGED <<state, gen, session, settle, tasks, timers>>

----------------------------------------------------------------------------
DisplayEvent ==
  \/ BaselineReturned \/ IdentityUnchanged \/ IdentityQueued \/ IdentityReplaced
  \/ EventKept \/ EventReopens
Tick == TickReconciles \/ TickDiscards \/ TickExpires \/ TickRetries
Time == WindowCloses \/ QuietEnds \/ GraceEnds
Connection ==
  Connect \/ Retire \/ Stop \/ DisconnectSettles \/ DisconnectReverts \/ DisconnectIdle
=============================================================================
