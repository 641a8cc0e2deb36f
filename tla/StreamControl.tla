----------------------------- MODULE StreamControl -----------------------------
(***************************************************************************)
(* The admission boundary between stream starts and the end-all-streams    *)
(* shortcut of the host (src/src/host_stream_control.h), composed with the *)
(* two queues that carry starts to it:                                     *)
(*                                                                         *)
(*  - launch, resume and cancel routes, which take an epoch ticket, then   *)
(*    the single-flight reservation, then the one route worker             *)
(*    (nvhttp_dispatch.h run_start, single_flight.h, thread_pool.h);       *)
(*  - RTSP startups, which take a ticket while ANNOUNCE is parsed, reserve *)
(*    a slot in startup_dispatch_t and run on the one startup worker       *)
(*    (rtsp.cpp run_startup).                                              *)
(*                                                                         *)
(* An even epoch is open and an odd one terminal.  Everything under        *)
(* state().mutex is one step; what a thread does between two acquisitions  *)
(* of it, such as the ticket comparison of start_guard_t, is its own step. *)
(***************************************************************************)
EXTENDS Naturals, FiniteSets, Sequences

CONSTANTS
    Hosts,            \* threads that enter activities or call terminate
    RouteWorker,      \* the thread of blocking_route_pool
    StartupWorker,    \* the thread of the RTSP startup_pool
    IoThread,         \* the RTSP io_context thread
    Nobody,           \* no thread holds the terminal mutex
    Routes,           \* starts that arrive as launch, resume or cancel
    Startups,         \* starts that arrive as an RTSP ANNOUNCE
    MaxEpoch,         \* bound on the epoch counter
    MaxDepth,         \* bound on nested activities of one thread
    MaxCallbacks      \* bound on callback reservations alive together

ASSUME ThreadsDiffer ==
    /\ RouteWorker \notin Hosts /\ StartupWorker \notin Hosts /\ IoThread \notin Hosts
    /\ RouteWorker # StartupWorker /\ RouteWorker # IoThread /\ StartupWorker # IoThread
    /\ Nobody \notin Hosts \union {RouteWorker, StartupWorker, IoThread}
ASSUME StartsDiffer == Routes \intersect Startups = {}
ASSUME BoundsAreNumbers == MaxEpoch \in Nat /\ MaxDepth \in Nat \ {0} /\ MaxCallbacks \in Nat

Threads == Hosts \union {RouteWorker, StartupWorker, IoThread}
Starts == Routes \union Startups

VARIABLES
    epoch,            \* state().epoch
    active,           \* state().active
    terminal,         \* the owner of state().terminal
    depth,            \* local().depth of each thread
    registered,       \* threads whose local().registered is set
    ending,           \* threads whose local().terminal is set
    callbacks,        \* callback_guard_t reservations alive
    step,             \* how far each host thread is in terminate()
    busy,             \* single_flight::admission_t busy_
    queue,            \* tasks waiting in each worker's pool
    pending,          \* startup_dispatch_t pending, per ticket
    start,            \* each start: phase, ticket, thread
    answer,           \* what the requester of each start was told
    lastEnded         \* auxiliary: the epoch of the latest action() run

gateVars == <<epoch, active, terminal, depth, registered, ending, callbacks, step, lastEnded>>
startVars == <<busy, queue, pending, start, answer>>
vars == <<gateVars, startVars>>

Workers == {RouteWorker, StartupWorker}
Phases == {"new", "ticketed", "queued", "failed", "guarded", "running",
           "refused", "finalizing", "leaving", "left", "done"}

Odd(n) == n % 2 = 1

Init ==
    /\ epoch = 0
    /\ active = 0
    /\ terminal = Nobody
    /\ depth = [t \in Threads |-> 0]
    /\ registered = {}
    /\ ending = {}
    /\ callbacks = 0
    /\ step = [h \in Hosts |-> "free"]
    /\ busy = FALSE
    /\ queue = [w \in Workers |-> <<>>]
    /\ pending = [k \in 0 .. MaxEpoch |-> 0]
    /\ start = [s \in Starts |-> [phase |-> "new", ticket |-> 0, by |-> Nobody]]
    /\ answer = [s \in Starts |-> "none"]
    /\ lastEnded = 0

-------------------------------------------------------------------------------
(* activity_guard_t and callback_guard_t                                   *)

\* The constructor enters without registering, ...
Nested(t) == depth[t] # 0 \/ t \in ending

\* ... enters as a counted activity, ...
Admissible(t) == ~Nested(t) /\ ~Odd(epoch)

\* activity_guard_t::activity_guard_t
Construct(t) ==
    \/ /\ Nested(t)
       /\ depth' = [depth EXCEPT ![t] = @ + 1]
       /\ UNCHANGED <<active, registered>>
    \/ /\ Admissible(t)
       /\ active' = active + 1
       /\ registered' = registered \union {t}
       /\ depth' = [depth EXCEPT ![t] = @ + 1]
    \/ /\ ~Nested(t) /\ ~Admissible(t)
       /\ UNCHANGED <<active, registered, depth>>

\* activity_guard_t::unlock, for a guard that entered
Unlock(t) ==
    /\ depth' = [depth EXCEPT ![t] = @ - 1]
    /\ IF depth[t] = 1 /\ t \in registered
       THEN active' = active - 1 /\ registered' = registered \ {t}
       ELSE UNCHANGED <<active, registered>>

\* Where a thread can run code that holds guards of its own: a host thread
\* outside terminate() or inside its action, a thread that is running a start.
Executing(t) ==
    \/ t \in Hosts /\ step[t] \in {"free", "acting"}
    \/ \E s \in Starts : start[s].by = t /\ start[s].phase \in {"running", "finalizing"}

\* The activities of a start nest inside the one its start_guard_t holds.
OwnDepth(t) == IF t \in Hosts THEN 0 ELSE 1

EnterActivity(t) ==
    /\ Executing(t)
    /\ depth[t] < MaxDepth
    /\ Nested(t) \/ Admissible(t)
    /\ Construct(t)
    /\ UNCHANGED <<epoch, terminal, ending, callbacks, step, lastEnded, startVars>>

LeaveActivity(t) ==
    /\ Executing(t)
    /\ depth[t] > OwnDepth(t)
    /\ Unlock(t)
    /\ UNCHANGED <<epoch, terminal, ending, callbacks, step, lastEnded, startVars>>

\* Mutant: a callback reserves whatever the epoch.
EnterCallbackAlways(t) ==
    /\ Executing(t)
    /\ callbacks < MaxCallbacks
    /\ active' = active + 1
    /\ callbacks' = callbacks + 1
    /\ UNCHANGED <<epoch, terminal, depth, registered, ending, step, lastEnded, startVars>>

EnterCallback(t) ==
    /\ Executing(t)
    /\ callbacks < MaxCallbacks
    /\ ~Odd(epoch) \/ t \in registered
    /\ active' = active + 1
    /\ callbacks' = callbacks + 1
    /\ UNCHANGED <<epoch, terminal, depth, registered, ending, step, lastEnded, startVars>>

\* The last owner may be any thread of the SDK, inside or outside an activity.
LeaveCallback ==
    /\ callbacks > 0
    /\ active' = active - 1
    /\ callbacks' = callbacks - 1
    /\ UNCHANGED <<epoch, terminal, depth, registered, ending, step, lastEnded, startVars>>

-------------------------------------------------------------------------------
(* terminate                                                               *)

\* The caller is outside every activity, gets the mutex before its deadline
\* and is authorized; every other outcome returns false and changes nothing.
LockTerminal(h) ==
    /\ step[h] = "free"
    /\ depth[h] = 0 /\ h \notin ending
    /\ terminal = Nobody
    /\ epoch + 2 <= MaxEpoch
    /\ terminal' = h
    /\ step' = [step EXCEPT ![h] = "locked"]
    /\ UNCHANGED <<epoch, active, depth, registered, ending, callbacks, lastEnded, startVars>>

CloseAdmission(h) ==
    /\ step[h] = "locked"
    /\ epoch' = epoch + 1
    /\ step' = [step EXCEPT ![h] = "draining"]
    /\ UNCHANGED <<active, terminal, depth, registered, ending, callbacks, lastEnded, startVars>>

\* ~reopen_t, then the terminal mutex is released
Reopen(h) ==
    /\ ending' = ending \ {h}
    /\ epoch' = epoch + 1
    /\ terminal' = Nobody
    /\ step' = [step EXCEPT ![h] = "free"]
    /\ UNCHANGED <<active, depth, registered, callbacks, startVars>>

\* The deadline passes while an operation is in progress.
DrainTimeout(h) ==
    /\ step[h] = "draining"
    /\ active # 0
    /\ Reopen(h)
    /\ UNCHANGED lastEnded

\* The wait ends idle and the second authorized() fails.
Deauthorized(h) ==
    /\ step[h] = "drained"
    /\ Reopen(h)
    /\ UNCHANGED lastEnded

\* Mutant: the result of the bounded wait is ignored.
DrainedOrNot(h) ==
    /\ step[h] = "draining"
    /\ step' = [step EXCEPT ![h] = "drained"]
    /\ UNCHANGED <<epoch, active, terminal, depth, registered, ending, callbacks, lastEnded, startVars>>

Drained(h) ==
    /\ step[h] = "draining"
    /\ active = 0
    /\ step' = [step EXCEPT ![h] = "drained"]
    /\ UNCHANGED <<epoch, active, terminal, depth, registered, ending, callbacks, lastEnded, startVars>>

RunAction(h) ==
    /\ step[h] = "drained"
    /\ ending' = ending \union {h}
    /\ step' = [step EXCEPT ![h] = "acting"]
    /\ lastEnded' = epoch
    /\ UNCHANGED <<epoch, active, terminal, depth, registered, callbacks, startVars>>

ActionDone(h) ==
    /\ step[h] = "acting"
    /\ depth[h] = 0
    /\ Reopen(h)
    /\ UNCHANGED lastEnded

-------------------------------------------------------------------------------
(* The starts: submit_start over single flight, startup_dispatch_t         *)

To(s, p) == start' = [start EXCEPT ![s].phase = p]

\* the task object and its ticket are gone
Discard(s) == start' = [start EXCEPT ![s] = [phase |-> "done", ticket |-> 0, by |-> Nobody]]

\* request_ticket() at intake
TakeTicket(s) ==
    /\ start[s].phase = "new"
    /\ start' = [start EXCEPT ![s] = [phase |-> "ticketed", ticket |-> epoch, by |-> Nobody]]
    /\ UNCHANGED <<gateVars, busy, queue, pending, answer>>

\* single_flight::admission_t::try_submit: refused while one is in flight
RouteBusy(s) ==
    /\ s \in Routes
    /\ start[s].phase = "ticketed"
    /\ busy
    /\ Discard(s)
    /\ answer' = [answer EXCEPT ![s] = "busy"]
    /\ UNCHANGED <<gateVars, busy, queue, pending>>

SubmitRoute(s) ==
    /\ s \in Routes
    /\ start[s].phase = "ticketed"
    /\ ~busy
    /\ busy' = TRUE
    /\ To(s, "queued")
    /\ queue' = [queue EXCEPT ![RouteWorker] = Append(@, s)]
    /\ UNCHANGED <<gateVars, pending, answer>>

\* submit_with_ticket reserves, then pushes to the startup pool
SubmitStartup(s) ==
    /\ s \in Startups
    /\ start[s].phase = "ticketed"
    /\ pending' = [pending EXCEPT ![start[s].ticket] = @ + 1]
    /\ To(s, "queued")
    /\ queue' = [queue EXCEPT ![StartupWorker] = Append(@, s)]
    /\ UNCHANGED <<gateVars, busy, answer>>

\* ... or the push throws, and the io thread settles the reservation itself
SubmitFails(s) ==
    /\ s \in Startups
    /\ start[s].phase = "ticketed"
    /\ pending' = [pending EXCEPT ![start[s].ticket] = @ + 1]
    /\ To(s, "failed")
    /\ UNCHANGED <<gateVars, busy, queue, answer>>

Idle(t) == \A s \in Starts : start[s].by # t

\* start_guard_t's activity, on the worker ...
GuardOn(s, t) ==
    /\ Idle(t)
    /\ Construct(t)
    /\ start' = [start EXCEPT ![s] = [phase |-> "guarded", ticket |-> start[s].ticket, by |-> t]]
    /\ UNCHANGED <<epoch, terminal, ending, callbacks, step, lastEnded, busy, pending, answer>>

PopTask(w) ==
    /\ queue[w] # <<>>
    /\ GuardOn(Head(queue[w]), w)
    /\ queue' = [queue EXCEPT ![w] = Tail(@)]

\* ... or on the io thread after a failed push
GuardFailed(s) ==
    /\ start[s].phase = "failed"
    /\ GuardOn(s, IoThread)
    /\ UNCHANGED queue

Entered(s) == depth[start[s].by] > 0
FailedPush(s) == start[s].by = IoThread

\* Mutant: an even ticket is enough.
AdmittedLate(s) == Entered(s) /\ ~Odd(start[s].ticket)

\* start_guard_t::admitted
Admitted(s) == Entered(s) /\ ~Odd(start[s].ticket) /\ start[s].ticket = epoch

Compare(s) ==
    /\ start[s].phase = "guarded"
    /\ To(s, IF Admitted(s) THEN "running" ELSE "refused")
    /\ UNCHANGED <<gateVars, busy, queue, pending, answer>>

\* reservation_t::retire
Retire(s) ==
    pending' = IF s \in Startups
               THEN [pending EXCEPT ![start[s].ticket] = @ - 1] ELSE pending

\* task() returns or throws; an admitted startup retires and finalizes
TaskDone(s) ==
    /\ start[s].phase = "running"
    /\ depth[start[s].by] = 1
    /\ answer' = [answer EXCEPT ![s] = IF FailedPush(s) THEN "failed" ELSE "ran"]
    /\ Retire(s)
    /\ To(s, IF s \in Startups THEN "finalizing" ELSE "leaving")
    /\ UNCHANGED <<gateVars, busy, queue>>

\* finish_startup() returns
Finalized(s) ==
    /\ start[s].phase = "finalizing"
    /\ depth[start[s].by] = 1
    /\ To(s, "leaving")
    /\ UNCHANGED <<gateVars, busy, queue, pending, answer>>

\* Mutant: a canceled startup forgets its reservation.
RejectUnretired(s) ==
    /\ start[s].phase = "refused"
    /\ answer' = [answer EXCEPT ![s] = IF FailedPush(s) THEN "failed" ELSE "canceled"]
    /\ To(s, "leaving")
    /\ UNCHANGED <<gateVars, busy, queue, pending>>

\* reject(), or task(false): only a canceled response
RejectStart(s) ==
    /\ start[s].phase = "refused"
    /\ answer' = [answer EXCEPT ![s] = IF FailedPush(s) THEN "failed" ELSE "canceled"]
    /\ Retire(s)
    /\ To(s, "leaving")
    /\ UNCHANGED <<gateVars, busy, queue>>

\* ~start_guard_t
LeaveStart(s) ==
    /\ start[s].phase = "leaving"
    /\ IF Entered(s) THEN Unlock(start[s].by) ELSE UNCHANGED <<active, registered, depth>>
    /\ IF s \in Routes THEN To(s, "left") ELSE Discard(s)
    /\ UNCHANGED <<epoch, terminal, ending, callbacks, step, lastEnded, busy, queue, pending, answer>>

\* ~lease_t
ReleaseFlight(s) ==
    /\ start[s].phase = "left"
    /\ busy' = FALSE
    /\ Discard(s)
    /\ UNCHANGED <<gateVars, queue, pending, answer>>

-------------------------------------------------------------------------------
Activity(t) == EnterActivity(t) \/ LeaveActivity(t) \/ EnterCallback(t)

Terminating(h) ==
    CloseAdmission(h) \/ DrainTimeout(h) \/ Drained(h) \/ Deauthorized(h) \/ RunAction(h) \/ ActionDone(h)

Submitting(s) ==
    RouteBusy(s) \/ SubmitRoute(s) \/ SubmitStartup(s) \/ SubmitFails(s)

Serving(s) ==
    \/ GuardFailed(s) \/ Compare(s) \/ TaskDone(s) \/ Finalized(s)
    \/ RejectStart(s) \/ LeaveStart(s) \/ ReleaseFlight(s)

Next ==
    \/ \E t \in Threads : Activity(t)
    \/ LeaveCallback
    \/ \E h \in Hosts : LockTerminal(h) \/ Terminating(h)
    \/ \E s \in Starts : TakeTicket(s) \/ Submitting(s) \/ Serving(s)
    \/ \E w \in Workers : PopTask(w)

Spec == Init /\ [][Next]_vars

-------------------------------------------------------------------------------
Running(s) == start[s].phase \in {"running", "finalizing"}

\* While the end-all-streams action runs it is alone: no activity or callback
\* reservation is counted, no other thread is in an action, the epoch is odd,
\* and no start is between its admission and the end of its finalizer.
TerminalAlone ==
    \A h \in ending :
        /\ active = 0
        /\ Odd(epoch)
        /\ ending = {h}
        /\ \A s \in Starts : ~Running(s)

\* A start that was asked for before an end-all-streams action never runs
\* after it: the action's epoch lies before the ticket of every running start.
NoStaleStart ==
    \A s \in Starts : Running(s) => lastEnded <= start[s].ticket

Unretired(s) == start[s].phase \in {"queued", "failed", "guarded", "running", "refused"}

\* The reservations are exact.  startup_dispatch_t counts, per ticket, the
\* startups that have not retired.  The single-flight flag is held by exactly
\* the one route that is queued or executing, so two routes are never in
\* flight together and none is in flight unreserved.
ReservationsExact ==
    /\ \A k \in 0 .. MaxEpoch :
          pending[k] = Cardinality({s \in Startups : Unretired(s) /\ start[s].ticket = k})
    /\ LET inFlight == {s \in Routes : start[s].phase \notin {"new", "ticketed", "done"}}
       IN  Cardinality(inFlight) = IF busy THEN 1 ELSE 0

-------------------------------------------------------------------------------
(* The boundary implements its promise.                                    *)

Boundary == IF ending # {} THEN "ending" ELSE IF Odd(epoch) THEN "closed" ELSE "open"

Waiting(s) ==
    /\ start[s].phase \in {"ticketed", "queued", "failed", "guarded"}
    /\ start[s].ticket = epoch
    /\ ~Odd(epoch)

Gate == INSTANCE StreamGate WITH
    boundary <- Boundary,
    inside   <- active,
    valid    <- {s \in Starts : Waiting(s)},
    begun    <- {s \in Starts : Running(s)}

\* Every step of the boundary and its queues is a step of StreamGate, or none.
ImplementsGate == Gate!Spec
===============================================================================
