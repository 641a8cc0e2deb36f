-------------------------------- MODULE Handoff --------------------------------
(***************************************************************************)
(* admission_t of src/src/nvhttp_handoff.h: on Linux one NVHTTP mutation is *)
(* in flight at a time, and one launch or resume may wait behind a running *)
(* cancel instead of being refused.  The waiter's connection is watched by *)
(* a pending_peer_t until the pool's worker claims it, so its end can race *)
(* the end of the cancel, the worker, its own deadline and stop().         *)
(* Everything under state_t::mutex is one step.                            *)
(***************************************************************************)
EXTENDS Naturals, FiniteSets, Sequences

CONSTANTS
    Starts,           \* launch and resume requests
    Cancels,          \* cancel requests
    Others,           \* other mutating requests
    Nothing           \* a null job

Jobs == Starts \union Cancels \union Others

ASSUME NothingIsNoJob == Nothing \notin Jobs

VARIABLES
    stopping,         \* state_t::stopping
    active,           \* the job whose id is active_id, or Nothing
    pending,          \* state_t::pending
    reserved,         \* state_t::reserved
    phase,            \* of each job; "direct" if it was admitted at once
    watched,          \* jobs whose pending_peer_t still reports
    preparing,        \* jobs whose peer was asked to prepare
    queue,            \* tasks in the route pool
    rejecting,        \* the job run() decided to reject, before it aborts it
    doomed,           \* jobs stop() found and has not aborted yet
    answers           \* auxiliary: what each request was told, in order

vars == <<stopping, active, pending, reserved, phase, watched, preparing, queue, rejecting, doomed, answers>>

Init ==
    /\ stopping = FALSE
    /\ active = Nothing
    /\ pending = Nothing
    /\ reserved = Nothing
    /\ phase = [j \in Jobs |-> "new"]
    /\ watched = {}
    /\ preparing = {}
    /\ queue = <<>>
    /\ rejecting = Nothing
    /\ doomed = {}
    /\ answers = [j \in Jobs |-> <<>>]

Tell(j, a) == answers' = [answers EXCEPT ![j] = Append(@, a)]
Become(j, p) == phase' = [phase EXCEPT ![j] = p]

-------------------------------------------------------------------------------
(* submit()                                                                *)

Admit(j) ==
    /\ phase[j] = "new"
    /\ ~stopping
    /\ active = Nothing
    /\ active' = j
    /\ Become(j, "direct")
    /\ queue' = Append(queue, j)
    /\ UNCHANGED <<stopping, pending, reserved, watched, preparing, rejecting, doomed, answers>>

MayWait(j) == j \in Starts /\ active \in Cancels /\ pending = Nothing

\* A request without a TLS peer cannot wait either.
RefuseBusy(j) ==
    /\ phase[j] = "new"
    /\ stopping \/ active # Nothing
    /\ Become(j, "done")
    /\ Tell(j, "busy")
    /\ UNCHANGED <<stopping, active, pending, reserved, watched, preparing, queue, rejecting, doomed>>

\* Mutant: the waiter's connection is not watched.
WaitUnwatched(j) ==
    /\ phase[j] = "new"
    /\ ~stopping
    /\ MayWait(j)
    /\ pending' = j
    /\ Become(j, "pending")
    /\ UNCHANGED <<stopping, active, reserved, watched, preparing, queue, rejecting, doomed, answers>>

Wait(j) ==
    /\ phase[j] = "new"
    /\ ~stopping
    /\ MayWait(j)
    /\ pending' = j
    /\ Become(j, "pending")
    /\ watched' = watched \union {j}
    /\ UNCHANGED <<stopping, active, reserved, preparing, queue, rejecting, doomed, answers>>

-------------------------------------------------------------------------------
(* abort(), called by the peer, by run(), by prepared() and by stop()      *)

Abortable(j) ==
    \/ phase[j] = "pending" /\ pending = j
    \/ phase[j] = "reserved" /\ reserved = j /\ active = j

\* Mutants: the abort of a reserved job keeps its slot; a job that is over is
\* answered again.
AbortKeepsSlot(j, reason) ==
    \/ /\ Abortable(j)
       /\ pending' = IF phase[j] = "pending" THEN Nothing ELSE pending
       /\ reserved' = IF phase[j] = "reserved" THEN Nothing ELSE reserved
       /\ Become(j, "done")
       /\ watched' = watched \ {j}
       /\ Tell(j, reason)
       /\ UNCHANGED active
    \/ ~Abortable(j) /\ UNCHANGED <<pending, reserved, active, phase, watched, answers>>

AbortTellsAgain(j, reason) ==
    /\ pending' = IF pending = j THEN Nothing ELSE pending
    /\ reserved' = IF reserved = j THEN Nothing ELSE reserved
    /\ active' = IF reserved = j THEN Nothing ELSE active
    /\ phase' = IF Abortable(j) THEN [phase EXCEPT ![j] = "done"] ELSE phase
    /\ watched' = watched \ {j}
    /\ Tell(j, reason)

Abort(j, reason) ==
    \/ /\ Abortable(j)
       /\ pending' = IF phase[j] = "pending" THEN Nothing ELSE pending
       /\ reserved' = IF phase[j] = "reserved" THEN Nothing ELSE reserved
       /\ active' = IF phase[j] = "reserved" THEN Nothing ELSE active
       /\ Become(j, "done")
       /\ watched' = watched \ {j}
       /\ Tell(j, reason)
    \/ ~Abortable(j) /\ UNCHANGED <<pending, reserved, active, phase, watched, answers>>

\* The watcher reports a lost connection or the 20 s deadline, once.
PeerEnds(j, reason) ==
    /\ j \in watched
    /\ Abort(j, reason)
    /\ UNCHANGED <<stopping, preparing, queue, rejecting, doomed>>

-------------------------------------------------------------------------------
(* The pool's worker                                                       *)

Running(j) == phase[j] \in {"executing", "running"}
WorkerFree == rejecting = Nothing /\ \A j \in Jobs : ~Running(j)

TakeDirect ==
    /\ WorkerFree
    /\ queue # <<>>
    /\ phase[Head(queue)] = "direct"
    /\ Become(Head(queue), "executing")
    /\ queue' = Tail(queue)
    /\ UNCHANGED <<stopping, active, pending, reserved, watched, preparing, rejecting, doomed, answers>>

Claimable(j) == phase[j] = "reserved" /\ reserved = j /\ active = j

\* run(): the job was aborted meanwhile, ...
TakeGone ==
    /\ WorkerFree
    /\ queue # <<>>
    /\ phase[Head(queue)] # "direct"
    /\ ~Claimable(Head(queue))
    /\ queue' = Tail(queue)
    /\ UNCHANGED <<stopping, active, pending, reserved, phase, watched, preparing, rejecting, doomed, answers>>

\* ... is rejected because of stop(), its deadline or its connection, ...
TakeRejected ==
    /\ WorkerFree
    /\ queue # <<>>
    /\ Claimable(Head(queue))
    /\ rejecting' = Head(queue)
    /\ queue' = Tail(queue)
    /\ UNCHANGED <<stopping, active, pending, reserved, phase, watched, preparing, doomed, answers>>

AbortRejected ==
    /\ rejecting # Nothing
    /\ Abort(rejecting, "rejected")
    /\ rejecting' = Nothing
    /\ UNCHANGED <<stopping, preparing, queue, doomed>>

\* ... or is claimed; nobody can end it any more.
TakeClaimed ==
    /\ WorkerFree
    /\ queue # <<>>
    /\ Claimable(Head(queue))
    /\ ~stopping
    /\ Become(Head(queue), "running")
    /\ reserved' = Nothing
    /\ watched' = watched \ {Head(queue)}
    /\ queue' = Tail(queue)
    /\ UNCHANGED <<stopping, active, pending, preparing, rejecting, doomed, answers>>

\* Mutant: finish() returns early during stop() and keeps the slot.
HandOverStopped(j) ==
    LET next == IF active = j /\ ~stopping THEN pending ELSE Nothing IN
    /\ active' = IF active = j /\ ~stopping THEN next ELSE active
    /\ reserved' = IF next = Nothing THEN reserved ELSE next
    /\ pending' = IF next = Nothing THEN pending ELSE Nothing
    /\ preparing' = preparing \union ({next} \ {Nothing})
    /\ phase' = [k \in Jobs |-> CASE k = j -> "done" [] k = next -> "reserved" [] OTHER -> phase[k]]

\* finish(): the slot is freed, or handed to the waiter, whose peer is asked
\* to prepare.
HandOver(j) ==
    LET next == IF active = j /\ ~stopping THEN pending ELSE Nothing IN
    /\ active' = IF active = j THEN next ELSE active
    /\ reserved' = IF next = Nothing THEN reserved ELSE next
    /\ pending' = IF next = Nothing THEN pending ELSE Nothing
    /\ preparing' = preparing \union ({next} \ {Nothing})
    /\ phase' = [k \in Jobs |-> CASE k = j -> "done" [] k = next -> "reserved" [] OTHER -> phase[k]]

\* The task returns and its lease_t goes.
TaskDone(j) ==
    /\ Running(j)
    /\ Tell(j, "ran")
    /\ HandOver(j)
    /\ UNCHANGED <<stopping, watched, queue, rejecting, doomed>>

\* prepared(): not ready, or the push to the pool failed
NotPrepared(j) ==
    /\ j \in preparing
    /\ preparing' = preparing \ {j}
    /\ Abort(j, "disconnected")
    /\ UNCHANGED <<stopping, queue, rejecting, doomed>>

Prepared(j) ==
    /\ j \in preparing
    /\ preparing' = preparing \ {j}
    /\ queue' = IF phase[j] = "reserved" /\ reserved = j /\ ~stopping
                THEN Append(queue, j) ELSE queue
    /\ UNCHANGED <<stopping, active, pending, reserved, phase, watched, rejecting, doomed, answers>>

-------------------------------------------------------------------------------
(* stop()                                                                  *)

\* Mutant: stop() does not look whether a job is pending or reserved.
StopUnchecked ==
    /\ ~stopping
    /\ stopping' = TRUE
    /\ doomed' = {pending, reserved}
    /\ UNCHANGED <<active, pending, reserved, phase, watched, preparing, queue, rejecting, answers>>

Stop ==
    /\ ~stopping
    /\ stopping' = TRUE
    /\ doomed' = {pending, reserved} \ {Nothing}
    /\ UNCHANGED <<active, pending, reserved, phase, watched, preparing, queue, rejecting, answers>>

StopAborts(j) ==
    /\ j \in doomed
    /\ doomed' = doomed \ {j}
    /\ Abort(j, "stopping")
    /\ UNCHANGED <<stopping, preparing, queue, rejecting>>

-------------------------------------------------------------------------------
Worker == TakeDirect \/ TakeGone \/ TakeRejected \/ TakeClaimed \/ AbortRejected

Next ==
    \/ \E j \in Jobs : Admit(j) \/ RefuseBusy(j) \/ Wait(j) \/ TaskDone(j)
    \/ \E j \in Jobs : PeerEnds(j, "disconnected") \/ PeerEnds(j, "expired")
    \/ \E j \in Jobs : Prepared(j) \/ NotPrepared(j) \/ StopAborts(j)
    \/ Worker
    \/ Stop

Spec == Init /\ [][Next]_vars

\* The worker takes tasks, stop() aborts what it found, a peer answers
\* prepare, and the watcher reports at the deadline at the latest.  No
\* running mutation has to return: a driver call may block for good.
FairSpec ==
    /\ Spec
    /\ WF_vars(Worker)
    /\ \A j \in Jobs : WF_vars(StopAborts(j)) /\ WF_vars(Prepared(j) \/ NotPrepared(j))
    /\ \A j \in Jobs : WF_vars(PeerEnds(j, "expired"))

-------------------------------------------------------------------------------
TypeOK ==
    /\ stopping \in BOOLEAN
    /\ {active, pending, reserved, rejecting} \subseteq Jobs \union {Nothing}
    /\ phase \in [Jobs -> {"new", "direct", "executing", "pending", "reserved", "running", "done"}]
    /\ watched \union preparing \union doomed \subseteq Jobs
    /\ queue \in Seq(Jobs)
    /\ answers \in [Jobs -> Seq({"busy", "ran", "disconnected", "expired", "rejected", "stopping"})]

\* The active id stands for exactly the one mutation that was admitted or
\* handed over: a second one is never let in beside it, and when the slot is
\* free nothing is left that could still run.
OneMutation ==
    LET live == {j \in Jobs : phase[j] \in {"direct", "executing", "reserved", "running"}}
    IN  live = {active} \ {Nothing}

\* No request is answered twice, whichever of the peer, the worker, stop()
\* and the cancel's end get to it, and a request that is over was answered.
AnsweredOnce ==
    \A j \in Jobs : Len(answers[j]) = IF phase[j] = "done" THEN 1 ELSE 0

\* A start that waits is answered, or gets to run, even when the cancel it
\* waits for never returns.
WaiterAnswered ==
    \A j \in Jobs : phase[j] = "pending" ~> phase[j] \in {"running", "done"}

\* When mutations do return, every request is answered and the slot is free
\* again for the next one.
RequestAnswered ==
    (\A j \in Jobs : WF_vars(TaskDone(j))) =>
        \A j \in Jobs : phase[j] # "new" ~> phase[j] = "done" /\ active # j
===============================================================================
