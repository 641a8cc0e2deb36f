----------------------------- MODULE AudioContext -----------------------------
(***************************************************************************)
(* context_manager_t of src/src/audio_context.cpp over lifecycle::state_t  *)
(* (audio_lifecycle_state.h): the captures of all streams share one audio  *)
(* context, which redirects the host's sound to a virtual sink.  When the  *)
(* last capture leaves while the application runs on, the redirection is   *)
(* retained for the next capture; when the application ends it is undone.  *)
(* Captures construct and destroy the context inside shared_t's lock; the  *)
(* application's lifecycle takes only state_t's mutex, so its steps fall   *)
(* between any two of theirs.                                              *)
(***************************************************************************)
EXTENDS Naturals, FiniteSets

CONSTANTS
    Captures,         \* threads in audio::capture
    Launches,         \* requests that hold the context over a display change
    UserSink,         \* the sink the user chose
    Sinks,            \* sinks a stream may be routed to instead
    None              \* no thread, no sink

ASSUME ThreadsDiffer == Captures \intersect Launches = {} /\ None \notin Captures \union Launches
ASSUME ThreadsAreFinite == IsFiniteSet(Captures) /\ IsFiniteSet(Launches)
ASSUME NoneIsNoSink == None \notin Sinks \union {UserSink}

VARIABLES
    device,           \* external: the system's default sink
    app,              \* proc_t::_app_id > 0
    step,             \* where the lifecycle thread is
    claimed,          \* what app_termination_requested claimed to restore
    retained,         \* state_t::_retained
    terminal,         \* _terminal_pending
    handoff,          \* _handoff_pending
    restoring,        \* _restore_in_progress
    ownerCount,       \* _owner_count
    lock,             \* the thread that holds shared_t::_lock
    count,            \* shared_t::_count
    ctx,              \* audio_ctx_t in shared_t's buffer
    pc,               \* where each thread is
    seen,             \* what each thread has read outside the mutex
    hasty             \* auxiliary: a context was created during a terminal restore

stateVars == <<retained, terminal, handoff, restoring, ownerCount>>
appVars == <<app, step, claimed>>
sharedVars == <<lock, count, ctx>>
vars == <<device, appVars, stateVars, sharedVars, pc, seen, hasty>>

Threads == Captures \union Launches
Nothing == [host |-> None, restore |-> FALSE]
Unread == [what |-> "nothing", good |-> FALSE]
NoContext == [control |-> FALSE, host |-> None, restore |-> FALSE, assigned |-> FALSE]

Init ==
    /\ device = UserSink
    /\ app = FALSE
    /\ step = "idle"
    /\ claimed = Nothing
    /\ retained = Nothing
    /\ terminal = FALSE
    /\ handoff = FALSE
    /\ restoring = FALSE
    /\ ownerCount = 0
    /\ lock = None
    /\ count = 0
    /\ ctx = NoContext
    /\ pc = [t \in Threads |-> "idle"]
    /\ seen = [t \in Threads |-> Unread]
    /\ hasty = FALSE

At(t, p) == pc[t] = p
Goto(t, p) == pc' = [pc EXCEPT ![t] = p]

\* The two policies of audio_lifecycle_policy.h agree where they are asked:
\* the application is active and its termination was not requested.  The
\* caller reads the two one after the other, in either order, and releases
\* state_t's mutex in between.
PolicyReads(t, p) ==
    /\ At(t, p)
    /\ seen[t] = Unread
    /\ \E s \in {[what |-> "app", good |-> app], [what |-> "terminal", good |-> ~terminal]} :
          seen' = [seen EXCEPT ![t] = s]
    /\ UNCHANGED <<device, appVars, stateVars, sharedVars, pc, hasty>>

PolicyAnswers(t, p, yes, no) ==
    /\ At(t, p)
    /\ seen[t] # Unread
    /\ LET other == IF seen[t].what = "app" THEN ~terminal ELSE app
       IN  Goto(t, IF seen[t].good /\ other THEN yes ELSE no)
    /\ seen' = [seen EXCEPT ![t] = Unread]
    /\ UNCHANGED <<device, appVars, stateVars, sharedVars, hasty>>

\* app_active(), read again for the call of retain() or reclaim()
ReadApp(t, p, q) ==
    /\ At(t, p)
    /\ Goto(t, q)
    /\ seen' = [seen EXCEPT ![t] = [what |-> "app", good |-> app]]
    /\ UNCHANGED <<device, appVars, stateVars, sharedVars, hasty>>

-------------------------------------------------------------------------------
(* shared_t::ref() and start(), which runs inside it                       *)

RefExisting(t) ==
    /\ At(t, "idle")
    /\ lock = None
    /\ count # 0
    /\ count' = count + 1
    /\ Goto(t, "referenced")
    /\ UNCHANGED <<device, appVars, stateVars, lock, ctx, seen, hasty>>

RefConstruct(t) ==
    /\ At(t, "idle")
    /\ lock = None
    /\ count = 0
    /\ lock' = t
    /\ ctx' = NoContext
    /\ Goto(t, "waiting")
    /\ UNCHANGED <<device, appVars, stateVars, count, seen, hasty>>

\* wait_for_restore()
StartWait(t) ==
    /\ At(t, "waiting")
    /\ ~restoring
    /\ Goto(t, "deciding")
    /\ UNCHANGED <<device, appVars, stateVars, sharedVars, seen, hasty>>

\* Every answer of the policy but "reclaim" leads to a new context.
StartDecide(t) ==
    \/ PolicyReads(t, "deciding")
    \/ PolicyAnswers(t, "deciding", "reclaimable", "creating")

Constructed(t, c) ==
    /\ ctx' = c
    /\ count' = 1
    /\ lock' = None
    /\ Goto(t, "referenced")
    /\ seen' = [seen EXCEPT ![t] = Unread]

\* reclaim() waits again and then takes what is retained ...
StartReclaim(t) ==
    /\ At(t, "reclaiming")
    /\ ~restoring
    /\ seen[t].good /\ ~terminal /\ retained # Nothing
    /\ Constructed(t, [control |-> TRUE, host |-> retained.host, restore |-> retained.restore, assigned |-> TRUE])
    /\ retained' = Nothing
    /\ UNCHANGED <<device, appVars, terminal, handoff, restoring, ownerCount, hasty>>

\* Mutant: start() insists on the retained value.
StartReclaimAgain(t) ==
    /\ At(t, "reclaiming")
    /\ ~restoring
    /\ ~(seen[t].good /\ ~terminal /\ retained # Nothing)
    /\ Goto(t, "reclaimable")
    /\ UNCHANGED <<device, appVars, stateVars, sharedVars, seen, hasty>>

\* ... if it still may.
StartNoReclaim(t) ==
    /\ At(t, "reclaiming")
    /\ ~restoring
    /\ ~(seen[t].good /\ ~terminal /\ retained # Nothing)
    /\ Goto(t, "creating")
    /\ seen' = [seen EXCEPT ![t] = Unread]
    /\ UNCHANGED <<device, appVars, stateVars, sharedVars, hasty>>

\* create_control() and sink_info(), which notes the default sink of the moment
StartCreate(t) ==
    /\ At(t, "creating")
    /\ Constructed(t, [NoContext EXCEPT !.control = TRUE, !.host = device])
    /\ hasty' = (hasty \/ restoring)
    /\ UNCHANGED <<device, appVars, stateVars>>

\* "There will be no audio"
StartSilent(t) ==
    /\ At(t, "creating")
    /\ Constructed(t, NoContext)
    /\ UNCHANGED <<device, appVars, stateVars, hasty>>

-------------------------------------------------------------------------------
(* audio::capture                                                          *)

OwnerAcquired(t) ==
    /\ At(t, "referenced")
    /\ t \in Captures
    /\ ownerCount' = ownerCount + 1
    /\ terminal' = (terminal /\ ~handoff)
    /\ handoff' = FALSE
    /\ Goto(t, "owning")
    /\ UNCHANGED <<device, appVars, retained, restoring, sharedVars, seen, hasty>>

\* before_display_change keeps its reference until the request is over.
HoldDropped(t) ==
    /\ At(t, "referenced")
    /\ t \in Launches
    /\ Goto(t, "releasing")
    /\ UNCHANGED <<device, appVars, stateVars, sharedVars, seen, hasty>>

\* No control, or another capture has assigned the sink
AssignSkipped(t) ==
    /\ At(t, "owning")
    /\ ~ctx.control \/ ctx.assigned
    /\ Goto(t, "capturing")
    /\ UNCHANGED <<device, appVars, stateVars, sharedVars, seen, hasty>>

\* Mutant: the sink to go back to is not noted.
AssignUnnoted(t) ==
    /\ At(t, "owning")
    /\ ctx.control /\ ~ctx.assigned
    /\ \E sink \in Sinks \union {ctx.host} :
          /\ ctx' = [ctx EXCEPT !.assigned = TRUE]
          /\ device' \in (IF ctx.host # sink THEN {sink, device} ELSE {device})
    /\ Goto(t, "capturing")
    /\ UNCHANGED <<appVars, stateVars, lock, count, seen, hasty>>

\* The first capture routes the sound; set_sink may fail.
Assign(t) ==
    /\ At(t, "owning")
    /\ ctx.control /\ ~ctx.assigned
    /\ \E sink \in Sinks \union {ctx.host} :
          /\ ctx' = [ctx EXCEPT !.assigned = TRUE, !.restore = (ctx.host # sink)]
          /\ device' \in (IF ctx.host # sink THEN {sink, device} ELSE {device})
    /\ Goto(t, "capturing")
    /\ UNCHANGED <<appVars, stateVars, lock, count, seen, hasty>>

\* capture-only: the default sink stays
AssignCaptureOnly(t) ==
    /\ At(t, "owning")
    /\ ctx.control /\ ~ctx.assigned
    /\ ctx' = [ctx EXCEPT !.assigned = TRUE]
    /\ Goto(t, "capturing")
    /\ UNCHANGED <<device, appVars, stateVars, lock, count, seen, hasty>>

\* Mutant: owner_released() is not called.
OwnerForgotten(t) ==
    /\ At(t, "capturing")
    /\ Goto(t, "releasing")
    /\ UNCHANGED <<device, appVars, stateVars, sharedVars, seen, hasty>>

OwnerReleased(t) ==
    /\ At(t, "capturing")
    /\ ownerCount' = IF ownerCount # 0 THEN ownerCount - 1 ELSE 0
    /\ Goto(t, "releasing")
    /\ UNCHANGED <<device, appVars, retained, terminal, handoff, restoring, sharedVars, seen, hasty>>

-------------------------------------------------------------------------------
(* ptr_t::release() and stop(), which runs inside it                       *)

ReleaseShared(t) ==
    /\ At(t, "releasing")
    /\ lock = None
    /\ count > 1
    /\ count' = count - 1
    /\ Goto(t, "idle")
    /\ UNCHANGED <<device, appVars, stateVars, lock, ctx, seen, hasty>>

ReleaseLast(t) ==
    /\ At(t, "releasing")
    /\ lock = None
    /\ count = 1
    /\ count' = 0
    /\ lock' = t
    /\ Goto(t, "stopping")
    /\ UNCHANGED <<device, appVars, stateVars, ctx, seen, hasty>>

Destroyed(t) ==
    /\ ctx' = NoContext
    /\ lock' = None
    /\ Goto(t, "idle")
    /\ seen' = [seen EXCEPT ![t] = Unread]

StopUnrouted(t) ==
    /\ At(t, "stopping")
    /\ ~ctx.restore
    /\ Destroyed(t)
    /\ UNCHANGED <<device, appVars, stateVars, count, hasty>>

StopDecide(t) ==
    \/ ctx.restore /\ PolicyReads(t, "stopping")
    \/ PolicyAnswers(t, "stopping", "retainable", "restoring")

\* Mutant: what the policy saw is not checked again under the mutex.
CanRetainUnchecked(t) == seen[t].good /\ retained = Nothing

CanRetain(t) == seen[t].good /\ ~terminal /\ retained = Nothing

StopRetain(t) ==
    /\ At(t, "retaining")
    /\ CanRetain(t)
    /\ retained' = [host |-> ctx.host, restore |-> ctx.restore]
    /\ Destroyed(t)
    /\ UNCHANGED <<device, appVars, terminal, handoff, restoring, ownerCount, count, hasty>>

StopNoRetain(t) ==
    /\ At(t, "retaining")
    /\ ~CanRetain(t)
    /\ Goto(t, "restoring")
    /\ UNCHANGED <<device, appVars, stateVars, sharedVars, seen, hasty>>

StopRestore(t) ==
    /\ At(t, "restoring")
    /\ device' = ctx.host
    /\ Destroyed(t)
    /\ UNCHANGED <<appVars, stateVars, count, hasty>>

-------------------------------------------------------------------------------
(* The application's lifecycle, one thread at a time under                 *)
(* stream_lifecycle_mutex                                                  *)

\* proc_t::terminate up to begin_terminal()
Terminate ==
    /\ step = "idle"
    /\ terminal' = TRUE
    /\ handoff' = FALSE
    /\ IF restoring \/ retained = Nothing
       THEN step' = "ending" /\ UNCHANGED <<claimed, retained, restoring>>
       ELSE /\ step' = "restoring"
            /\ restoring' = TRUE
            /\ claimed' = retained
            /\ retained' = Nothing
    /\ UNCHANGED <<device, app, ownerCount, sharedVars, pc, seen, hasty>>

TerminalRestore ==
    /\ step = "restoring"
    /\ device' = IF claimed.restore THEN claimed.host ELSE device
    /\ claimed' = Nothing
    /\ step' = "restored"
    /\ UNCHANGED <<app, stateVars, sharedVars, pc, seen, hasty>>

CompleteTerminalRestore ==
    /\ step = "restored"
    /\ restoring' = FALSE
    /\ step' = "ending"
    /\ UNCHANGED <<device, app, claimed, retained, terminal, handoff, ownerCount, sharedVars, pc, seen, hasty>>

\* The tail of terminate; execute() begins with such a terminate.
AppGone ==
    /\ step = "ending"
    /\ app' = FALSE
    /\ step' \in {"idle", "executing"}
    /\ UNCHANGED <<device, claimed, stateVars, sharedVars, pc, seen, hasty>>

AppSet ==
    /\ step = "executing"
    /\ app' = TRUE
    /\ step' = "starting"
    /\ UNCHANGED <<device, claimed, stateVars, sharedVars, pc, seen, hasty>>

AppStarted ==
    /\ step = "starting"
    /\ ~restoring
    /\ handoff' = TRUE
    /\ step' = "idle"
    /\ UNCHANGED <<device, app, claimed, retained, terminal, restoring, ownerCount, sharedVars, pc, seen, hasty>>

-------------------------------------------------------------------------------
Start(t) ==
    \/ StartWait(t) \/ StartDecide(t) \/ ReadApp(t, "reclaimable", "reclaiming") \/ StartReclaim(t) \/ StartNoReclaim(t)
    \/ StartCreate(t) \/ StartSilent(t)
Stop(t) ==
    \/ ReleaseShared(t) \/ ReleaseLast(t) \/ StopUnrouted(t)
    \/ StopDecide(t) \/ ReadApp(t, "retainable", "retaining") \/ StopRetain(t) \/ StopNoRetain(t) \/ StopRestore(t)
Ending == TerminalRestore \/ CompleteTerminalRestore \/ AppGone

Next ==
    \/ \E t \in Threads :
          \/ RefExisting(t) \/ RefConstruct(t) \/ Start(t)
          \/ OwnerAcquired(t) \/ HoldDropped(t)
          \/ AssignSkipped(t) \/ Assign(t) \/ AssignCaptureOnly(t) \/ OwnerReleased(t)
          \/ Stop(t)
    \/ Terminate \/ Ending \/ AppSet \/ AppStarted

Spec == Init /\ [][Next]_vars

\* What has begun inside the lock, or under the lifecycle mutex, goes on.
\* Captures need not end and applications need not be started or terminated.
FairSpec ==
    /\ Spec
    /\ \A t \in Threads : WF_vars(Start(t)) /\ WF_vars(Stop(t))
    /\ WF_vars(Ending)

-------------------------------------------------------------------------------
TypeOK ==
    /\ device \in Sinks \union {UserSink}
    /\ {app, terminal, handoff, restoring} \subseteq BOOLEAN
    /\ step \in {"idle", "restoring", "restored", "ending", "executing", "starting"}
    /\ {claimed, retained} \subseteq [host : Sinks \union {UserSink, None}, restore : BOOLEAN]
    /\ ownerCount \in 0 .. Cardinality(Captures)
    /\ lock \in Threads \union {None}
    /\ count \in 0 .. Cardinality(Threads)
    /\ ctx \in [control : BOOLEAN, host : Sinks \union {UserSink, None}, restore : BOOLEAN, assigned : BOOLEAN]
    /\ pc \in [Threads ->
                 {"idle", "waiting", "deciding", "reclaimable", "reclaiming", "creating", "referenced",
                  "owning", "capturing", "releasing", "stopping", "retainable", "retaining", "restoring"}]
    /\ seen \in [Threads -> [what : {"nothing", "app", "terminal"}, good : BOOLEAN]]
    /\ hasty \in BOOLEAN

\* A redirection is retained only for a running application that nobody has
\* asked to end, although the policy and retain() read that at different
\* times and outside each other's locks: its end will find and undo it.
RetainedForApp ==
    retained # Nothing => app /\ ~terminal

\* Whenever the system's sound goes to a stream, the live context, the
\* retained value or the terminal restore is going to bring it back to the
\* sink the user chose, whichever way captures and the application end; unless
\* a context was created during a terminal restore (CreationAfterRestore),
\* which may take the sink of the stream before for the user's.
SoundComesBack ==
    device # UserSink /\ ~hasty =>
        \E duty \in {ctx, retained, claimed} : duty.restore /\ duty.host = UserSink

\* ref() returns: the wait for a terminal restore, inside shared_t's lock,
\* ends, and so do the stop() calls that hold that lock.
AcquireReturns ==
    \A t \in Threads : lock = t ~> lock # t

\* No context is created while a terminal restore is still in progress.
CreationAfterRestore ==
    [][\A t \in Threads : At(t, "creating") /\ pc'[t] = "referenced" => ~restoring]_vars
===============================================================================
