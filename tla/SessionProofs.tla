--------------------------- MODULE SessionProofs ---------------------------
(***************************************************************************)
(* What the helper owes to the desktop it changed and to the client of a   *)
(* verified session, for every instance: a restore lease, with the restore *)
(* task that outlives the process, and a heartbeat. The last part is about *)
(* the monitor behind that heartbeat, a component of its own, which never  *)
(* declares a client dead early.                                           *)
(*                                                                         *)
(* LeaseInv says what the lease, the APPLY in flight and the completion    *)
(* being handled know of the desktop. Beats, OriginInv and Decides say why *)
(* a live session keeps its heartbeat: whose REVERT can wait, and which    *)
(* completion can end a restore.                                           *)
(***************************************************************************)
EXTENDS TicketProofs

\* A leaf that names no prover is given to Zenon; those that need arithmetic,
\* records or sequences name the SMT solver.
USE ZenonT(60)

----------------------------------------------------------------------------
(* The desktop and its restore task *)

\* The APPLY tasks of the dispatcher (the fence allows one).
Applies(q) == {q[i] : i \in {j \in DOMAIN q : q[j].op = "Apply"}}

\* What the lease, the APPLY in flight and the completion being handled know of
\* the desktop and of the restore task.
ApplyOK(t) ==
  /\ t.armed => t.mode = "full" /\ t.phase \in {"guarded", "touched"}
  /\ session.reactivating => t.mode = "reactivation"
Owed == \/ lease.armed \/ \E t \in Applies(tasks) : t.phase = "touched"
        \/ frame.at = "finish" /\ frame.done.changed
TaskKnown == \/ lease.taskCreated \/ \E t \in Applies(tasks) : t.armed
             \/ frame.at = "finish" /\ frame.done.armed
LeaseInv ==
  /\ \A t \in Applies(tasks) : ApplyOK(t)
  /\ worker.kind = "Recovery" \/ session.reactivating => lease.armed
  /\ session.reactivating => worker.kind = "Apply"
  /\ Running => /\ world.owed => Owed
                /\ world.task <=> TaskKnown
                /\ reset.completion.held /\ reset.completion.done.armed => lease.taskCreated

LEMMA AppliesTail ==
  ASSUME NEW q \in Seq(TaskType), q # <<>>
  PROVE  Applies(q) = Applies(Tail(q)) \cup (IF Head(q).op = "Apply" THEN {Head(q)} ELSE {})
<1> DEFINE r == Tail(q)
<1>1. /\ DOMAIN q = 1..Len(q) /\ Len(q) \in Nat /\ Len(q) >= 1 /\ Head(q) = q[1]
      /\ DOMAIN r = 1..(Len(q) - 1) /\ \A i \in DOMAIN r : r[i] = q[i + 1]
  BY HeadTailProperties, LenProperties, EmptySeq, SMTT(60)
<1>2. \A i \in DOMAIN r : i + 1 \in DOMAIN q /\ r[i] = q[i + 1]
  BY <1>1, SMTT(60)
<1>3. 1 \in DOMAIN q /\ \A i \in DOMAIN q : i # 1 => i - 1 \in DOMAIN r /\ r[i - 1] = q[i]
  BY <1>1, SMTT(60)
<1>4. Head(q) = q[1]
  BY <1>1
<1> HIDE DEF r
<1>5. \A x : x \in Applies(q) <=> x \in Applies(r) \/ (q[1].op = "Apply" /\ x = q[1])
  BY <1>2, <1>3, SMTT(60) DEF Applies
<1> QED BY <1>4, <1>5 DEF r

\* The fence names the APPLY in flight.
LEMMA LaneFront ==
  ASSUME TypeOK, FenceInv
  PROVE  /\ worker.kind # "Apply" => Applies(tasks) = {}
         /\ tasks # <<>> /\ Front.op = "Apply" =>
              worker.kind = "Apply" /\ Applies(tasks) = {Front} /\ Applies(Tail(tasks)) = {}
         /\ tasks # <<>> /\ Front.op # "Apply" => Applies(Tail(tasks)) = Applies(tasks)
         /\ tasks # <<>> /\ IsMutation(Front) => worker.kind = KindOf(Front)
         /\ tasks # <<>> => Tail(tasks) \in Seq(TaskType)
<1>1. /\ tasks \in Seq(TaskType)
      /\ \A i, j \in DOMAIN tasks : IsMutation(tasks[i]) /\ IsMutation(tasks[j]) => i = j
      /\ \A i \in DOMAIN tasks :
           IsMutation(tasks[i]) => worker = [kind |-> KindOf(tasks[i]), gen |-> tasks[i].gen]
  BY DEF TypeOK, FenceInv, QueueInv, QueueOK
<1>2. \A i \in DOMAIN tasks : tasks[i].op = "Apply" => IsMutation(tasks[i]) /\ worker.kind = "Apply"
  BY <1>1, SMTT(60) DEF IsMutation, KindOf
<1>3. worker.kind # "Apply" => Applies(tasks) = {}
  BY <1>2 DEF Applies
<1>4. ASSUME tasks # <<>>
      PROVE  /\ Front = tasks[1] /\ 1 \in DOMAIN tasks /\ Tail(tasks) \in Seq(TaskType)
             /\ Applies(tasks) = Applies(Tail(tasks)) \cup (IF Front.op = "Apply" THEN {Front} ELSE {})
  BY <1>1, <1>4, AppliesTail, SMTT(60) DEF Front
<1>5. ASSUME tasks # <<>>, Front.op = "Apply"
      PROVE  worker.kind = "Apply" /\ Applies(tasks) = {Front} /\ Applies(Tail(tasks)) = {}
  <2>1. \A i \in DOMAIN Tail(tasks) : i + 1 \in DOMAIN tasks /\ i + 1 # 1 /\ Tail(tasks)[i] = tasks[i + 1]
    BY <1>1, <1>5, HeadTailProperties, LenProperties, EmptySeq, SMTT(60)
  <2>2. \A i \in DOMAIN Tail(tasks) : Tail(tasks)[i].op # "Apply"
    BY <1>1, <1>2, <1>4, <1>5, <2>1
  <2>3. Applies(Tail(tasks)) = {}
    BY <2>2 DEF Applies
  <2> QED BY <1>2, <1>4, <1>5, <2>3, SMTT(60)
<1>6. ASSUME tasks # <<>>, IsMutation(Front)
      PROVE  worker.kind = KindOf(Front)
  BY <1>1, <1>4, <1>6, SMTT(60)
<1> QED BY <1>3, <1>4, <1>5, <1>6

\* A step that leaves the desktop, the task and what is known of them alone ...
LeaseCalm ==
  /\ Running' => Running
  /\ lease.armed => lease'.armed
  /\ lease'.taskCreated = lease.taskCreated
  /\ world'.task = world.task /\ world'.owed = world.owed
  /\ frame.at # "finish" /\ frame'.at # "finish"
  /\ reset'.completion = reset.completion \/ ~reset'.completion.held
\* ... and dispatches at most one new APPLY.
LaneCalm ==
  /\ session'.reactivating = session.reactivating
  /\ worker'.kind = "Recovery" => lease'.armed
  /\ session.reactivating => worker'.kind = "Apply"
  /\ \/ Applies(tasks') = Applies(tasks)
     \/ /\ ~session.reactivating
        /\ \E t : t.phase = "queued" /\ ~t.armed /\ Applies(tasks') = Applies(tasks) \cup {t}

LEMMA LaneEmpty ==
  ASSUME TypeOK, FenceInv, LeaseInv, ~WorkerActive
  PROVE  worker = NoWorker /\ worker.kind = "none" /\ ~session.reactivating /\ Applies(tasks) = {}
<1>1. worker = NoWorker
  BY DEF WorkerActive
<1>2. NoWorker.kind = "none"
  BY DEF NoWorker
<1> QED BY <1>1, <1>2, LaneFront DEF LeaseInv

\* Every step keeps the lease and what it knows of the restore task.
LEMMA LeaseStep == TypeOK /\ FenceInv /\ LeaseInv /\ ~Throws /\ [Next]_vars => LeaseInv'

<1>AppliesAppend.
    ASSUME NEW q \in Seq(TaskType), NEW t
    PROVE  Applies(Append(q, t)) = Applies(q) \cup (IF t.op = "Apply" THEN {t} ELSE {})
  <2> DEFINE r == Append(q, t)
             n == Len(q) + 1
  <2>1. /\ DOMAIN q = 1..Len(q) /\ Len(q) \in Nat /\ DOMAIN r = 1..n
        /\ r[n] = t /\ \A i \in DOMAIN q : r[i] = q[i]
    BY SMTT(60)
  <2>2. \A i \in DOMAIN r : i = n \/ (i \in DOMAIN q /\ r[i] = q[i])
    BY <2>1, SMTT(60)
  <2>3. n \in DOMAIN r /\ \A i \in DOMAIN q : i \in DOMAIN r /\ r[i] = q[i]
    BY <2>1, SMTT(60)
  <2>4. r[n] = t
    BY <2>1
  <2> HIDE DEF r, n
  <2>5. \A x : x \in Applies(r) <=> x \in Applies(q) \/ (t.op = "Apply" /\ x = t)
    BY <2>2, <2>3, <2>4, SMTT(60) DEF Applies
  <2> QED BY <2>5 DEF r

<1>LeaseMoves.
    ASSUME LeaseInv, LeaseCalm, LaneCalm
    PROVE  LeaseInv'
  <2> USE <1>LeaseMoves
  <2> DEFINE touched(q) == \E t \in Applies(q) : t.phase = "touched"
             armed(q) == \E t \in Applies(q) : t.armed
             ok == /\ \A t \in Applies(tasks') : ApplyOK(t)'
                   /\ touched(tasks) => touched(tasks')
                   /\ armed(tasks') <=> armed(tasks)
  <2>1. ASSUME Applies(tasks') = Applies(tasks)
        PROVE  ok
    <3>1. \A t \in Applies(tasks') : ApplyOK(t)'
      BY <2>1 DEF LeaseInv, LaneCalm, ApplyOK
    <3> QED BY <2>1, <3>1
  <2>2. ASSUME ~session.reactivating, NEW t, t.phase = "queued", ~t.armed,
               Applies(tasks') = Applies(tasks) \cup {t}
        PROVE  ok
    <3>1. ApplyOK(t)' /\ \A u \in Applies(tasks) : ApplyOK(u)'
      BY <2>2 DEF LeaseInv, LaneCalm, ApplyOK
    <3> QED BY <2>2, <3>1
  <2>3. ok
    BY <2>1, <2>2 DEF LaneCalm
  <2>4. /\ \A t \in Applies(tasks') : ApplyOK(t)'
        /\ touched(tasks) => touched(tasks')
        /\ armed(tasks') <=> armed(tasks)
    BY <2>3
  <2>5. Running' => Running /\ (Owed => Owed') /\ (TaskKnown' <=> TaskKnown)
    BY <2>4 DEF LeaseCalm, Owed, TaskKnown
  <2> QED BY <2>4, <2>5 DEF LeaseInv, LeaseCalm, LaneCalm

<1>LaneKeeps.
    ASSUME LeaseInv, UNCHANGED tasks, worker' = worker,
           session'.reactivating = session.reactivating, lease.armed => lease'.armed
    PROVE  LaneCalm
  BY <1>LaneKeeps DEF LeaseInv, LaneCalm

<1>LaneDispatches.
    ASSUME LeaseInv, NEW q \in Seq(TaskType), Applies(q) = Applies(tasks), NEW op, NEW mode,
           tasks' = Append(q, Task(op, mode)), worker = NoWorker,
           session'.reactivating = session.reactivating,
           worker'.kind = "Recovery" => lease'.armed
    PROVE  LaneCalm
  <2> USE <1>LaneDispatches
  <2> DEFINE t == Task(op, mode)
  <2>1. t.phase = "queued" /\ ~t.armed
    BY DEF Task
  <2> HIDE DEF t
  <2>2. Applies(tasks') = Applies(tasks) \cup (IF t.op = "Apply" THEN {t} ELSE {})
    BY <1>AppliesAppend DEF t
  <2>3. Applies(tasks') = Applies(tasks) \/ Applies(tasks') = Applies(tasks) \cup {t}
    BY <2>2
  <2>4. ~session.reactivating
    BY DEF LeaseInv, NoWorker
  <2> QED BY <2>1, <2>3, <2>4 DEF LaneCalm

<1>LeaseHandlers.
    ASSUME TypeOK, FenceInv, LeaseInv, Handles, NEW c, NEW rest,
           \/ HandleApply(c, rest) \/ HandleRevert(c, rest) \/ HandleDisarm(c, rest)
           \/ HandleReset(c, rest) \/ (RepairStarted(rest) /\ worker = NoWorker)
    PROVE  LeaseInv'

  \* clear_recovery_state: nothing is in flight, nothing is owed.
  <2>LeaseClears.
      ASSUME TypeOK, FenceInv, LeaseInv, worker = NoWorker, UNCHANGED <<worker, tasks>>,
             session'.reactivating = session.reactivating,
             ~lease'.taskCreated, ~world'.task, ~world'.owed,
             frame'.at # "finish", ~reset'.completion.held
      PROVE  LeaseInv'
    <3> USE <2>LeaseClears
    <3>1. Applies(tasks') = {} /\ ~session'.reactivating /\ worker'.kind = "none"
      BY LaneFront DEF LeaseInv, NoWorker
    <3> QED BY <3>1 DEF LeaseInv, Owed, TaskKnown

  <2> USE <1>LeaseHandlers
  <2>1. /\ reset \in ResetType /\ lease \in LeaseType /\ world \in WorldType
        /\ session \in SessionType /\ tasks \in Seq(TaskType) /\ frame.at # "finish"
    BY DEF TypeOK, Handles, DrainPoints
  <2>2. UNCHANGED frame
    BY HandlersOwn
  <2>3. CASE ApplyQueued(c) \/ RevertJoined(c, rest) \/ RevertQueued(c) \/ DisarmDropped(c, rest)
             \/ DisarmQueued(c) \/ ResetQueued(c)
    <3>1. /\ lease' = lease \/ lease' = [lease EXCEPT !.explicit = FALSE] \/ lease' = RevertLease(c)
          /\ UNCHANGED <<tasks, worker, session, reset, world>>
      BY <2>3 DEF ApplyQueued, RevertJoined, RevertQueued, DisarmDropped, DisarmQueued, ResetQueued
    <3>2. lease'.armed = lease.armed /\ lease'.taskCreated = lease.taskCreated
      BY <2>1, <3>1 DEF LeaseType, RevertLease
    <3>3. LeaseCalm
      BY <2>1, <2>2, <3>1, <3>2 DEF LeaseCalm, Running
    <3> QED BY <3>1, <3>2, <3>3, <1>LaneKeeps, <1>LeaseMoves
  <2>4. ASSUME ApplyBegins(c, rest)
        PROVE  /\ lease'.armed = lease.armed /\ lease'.taskCreated = lease.taskCreated
               /\ session'.reactivating = session.reactivating /\ worker = NoWorker
               /\ ~reset'.completion.held
    BY <2>1, <2>4 DEF ApplyBegins, LeaseType, ResetType, NoneHeld, Free, WorkerActive
  <2>5. CASE ApplyStarted(c, rest)
    <3>1. /\ ApplyBegins(c, rest) /\ worker' = [kind |-> "Apply", gen |-> gen']
          /\ tasks' = Append(tasks, Task("Apply", "full"))
          /\ \E captured \in BOOLEAN : world' = [world EXCEPT !.tiers = @ \/ captured]
      BY <2>5 DEF ApplyStarted, DispatchApply
    <3>2. world'.task = world.task /\ world'.owed = world.owed /\ (Running' => Running)
      BY <2>1, <3>1 DEF WorldType, Running
    <3>3. LeaseCalm
      BY <2>1, <2>2, <2>4, <3>1, <3>2 DEF LeaseCalm
    <3>4. LaneCalm
      BY <2>1, <2>4, <3>1, <1>LaneDispatches
    <3> QED BY <3>3, <3>4, <1>LeaseMoves
  <2>6. CASE ApplyRejected(c, rest)
    <3>1. ApplyBegins(c, rest) /\ UNCHANGED <<worker, tasks, world>>
      BY <2>6 DEF ApplyRejected
    <3>2. LeaseCalm
      BY <2>1, <2>2, <2>4, <3>1 DEF LeaseCalm, Running
    <3> QED BY <2>4, <3>1, <3>2, <1>LaneKeeps, <1>LeaseMoves
  <2>7. CASE RepairStarted(rest) /\ worker = NoWorker
    <3>1. /\ tasks' = Append(tasks, Task("Apply", "full")) /\ worker' = [kind |-> "Apply", gen |-> gen']
          /\ session'.reactivating = session.reactivating /\ ~reset'.completion.held
          /\ UNCHANGED <<lease, world>>
      BY <2>1, <2>7 DEF RepairStarted, ReapplyIdentity, DispatchApply, SessionType, ResetType, NoneHeld
    <3>2. LeaseCalm
      BY <2>1, <2>2, <3>1 DEF LeaseCalm, Running
    <3>3. LaneCalm
      BY <2>1, <2>7, <3>1, <1>LaneDispatches
    <3> QED BY <3>2, <3>3, <1>LeaseMoves
  <2>8. CASE ResetStarted(c, rest)
    <3>1. /\ tasks' = Append(tasks, Task("Reset", "none")) /\ worker = NoWorker
          /\ reset' = BeginReset(reset) /\ UNCHANGED <<worker, session, lease, world>>
      BY <2>8 DEF ResetStarted, Free, WorkerActive
    <3>2. reset'.completion = reset.completion
      BY <2>1, <3>1 DEF BeginReset, ResetType
    <3>3. LeaseCalm
      BY <2>1, <2>2, <3>1, <3>2 DEF LeaseCalm, Running
    <3>4. LaneCalm
      BY <2>1, <3>1, <1>LaneDispatches DEF LeaseInv
    <3> QED BY <3>3, <3>4, <1>LeaseMoves
  <2>9. CASE RevertStarted(c, rest)
    <3>1. /\ tasks' = Append(tasks, Task("Recovery", "none")) /\ worker = NoWorker
          /\ session' = [session EXCEPT !.reapply = FALSE]
          /\ lease' = [RevertLease(c) EXCEPT !.armed = TRUE, !.changesPending = TRUE,
                                             !.heartbeat = FALSE]
          /\ reset' = [reset EXCEPT !.completion = NoneHeld, !.recovery = "none"]
          /\ UNCHANGED world
      BY <2>9 DEF RevertStarted, RevertRuns, StartRecovery, Free, WorkerActive
    <3>2. /\ session'.reactivating = session.reactivating /\ ~reset'.completion.held
          /\ lease'.armed /\ lease'.taskCreated = lease.taskCreated
      BY <2>1, <3>1 DEF RevertLease, SessionType, ResetType, LeaseType, NoneHeld
    <3>3. LeaseCalm
      BY <2>1, <2>2, <3>1, <3>2 DEF LeaseCalm, Running
    <3>4. LaneCalm
      BY <2>1, <3>1, <3>2, <1>LaneDispatches
    <3> QED BY <3>3, <3>4, <1>LeaseMoves
  <2>10. CASE RevertDeclined(c, rest) \/ RevertNothing(c, rest)
              \/ (DisarmStarted(c, rest) /\ ~lease.unconfirmed)
    <3>1. /\ worker = NoWorker /\ UNCHANGED <<worker, tasks>> /\ lease' = Cleared(lease)
          /\ reset' = [reset EXCEPT !.completion = NoneHeld]
          /\ \/ session' = [session EXCEPT !.recent = FALSE, !.reapply = FALSE]
             \/ session' = [session EXCEPT !.recent = FALSE]
             \/ session' = [session EXCEPT !.verified = FALSE, !.applySent = FALSE,
                              !.verificationSent = FALSE, !.recent = FALSE, !.reapply = FALSE]
          /\ \/ world' = WorldCleared
             \/ world' = [WorldCleared EXCEPT !.running = FALSE]
      BY <2>10 DEF RevertDeclined, RevertNothing, DisarmStarted, RevertRuns, ClearRecoveryState,
         ExitProcess, Free, WorkerActive
    <3>2. /\ session'.reactivating = session.reactivating /\ ~reset'.completion.held
          /\ ~lease'.taskCreated /\ ~world'.task /\ ~world'.owed
      BY <2>1, <3>1 DEF Cleared, WorldCleared, WorldType, SessionType, ResetType, LeaseType, NoneHeld
    <3> QED BY <2>1, <2>2, <3>1, <3>2, <2>LeaseClears
  <2>11. CASE DisarmStarted(c, rest) /\ lease.unconfirmed
    <3>1. /\ UNCHANGED <<worker, tasks, world>> /\ lease' = [lease EXCEPT !.explicit = FALSE]
          /\ reset' = [reset EXCEPT !.completion = NoneHeld]
          /\ session' = [session EXCEPT !.verified = FALSE, !.applySent = FALSE,
                           !.verificationSent = FALSE, !.recent = FALSE, !.reapply = FALSE]
      BY <2>11 DEF DisarmStarted
    <3>2. /\ session'.reactivating = session.reactivating /\ ~reset'.completion.held
          /\ lease'.armed = lease.armed /\ lease'.taskCreated = lease.taskCreated
      BY <2>1, <3>1 DEF SessionType, ResetType, LeaseType, NoneHeld
    <3>3. LeaseCalm
      BY <2>1, <2>2, <3>1, <3>2 DEF LeaseCalm, Running
    <3> QED BY <3>1, <3>2, <3>3, <1>LaneKeeps, <1>LeaseMoves
  <2> QED BY <2>3, <2>5, <2>6, <2>7, <2>8, <2>9, <2>10, <2>11
          DEF HandleApply, HandleRevert, HandleDisarm, HandleReset

\* handle_apply_completed
<1>LeaseReports.
    ASSUME TypeOK, FenceInv, LeaseInv, ~Throws,
           StaleApplyCompleted \/ ReactivationCompleted \/ ApplyCompleted
    PROVE  LeaseInv'

  \* An APPLY reports what it did, unless an exception loses the report.
  <2>OutcomeTells.
      ASSUME ~Throws, session \in SessionType, NEW t \in TaskType, ApplyOK(t), NEW d \in Outcomes(t)
      PROVE  /\ d \in Completion
             /\ t.phase = "touched" => d.changed
             /\ d.armed = t.armed
    <3> USE <2>OutcomeTells
    <3>1. d \in ApplyOutcomes(t) /\ d \in Completion
      BY OutcomeTypes DEF Outcomes
    <3>2. t.armed \in BOOLEAN /\ t.phase \in {"queued", "entered", "guarded", "touched"}
      BY DEF TaskType, Phases
    <3> DEFINE early == [NoCompletion EXCEPT !.rollback = t.mode = "rollback",
                                             !.topology = session.preTopology]
               guarded == [early EXCEPT !.attempted = TRUE, !.armed = t.armed,
                             !.topology = @ \/ IsExclusive(session.request)]
               full == [guarded EXCEPT !.changed = TRUE]
               other == [early EXCEPT !.changed = TRUE, !.attempted = t.mode = "repair",
                                      !.staged = t.mode = "repair"]
               fulls == {full} \cup {[full EXCEPT !.staged = TRUE, !.status = st] :
                                       st \in ApplyStatuses(t)}
               others == {[other EXCEPT !.status = st] : st \in ApplyStatuses(t)}
    <3>3. /\ t.phase = "queued" => ApplyOutcomes(t) \in {{}, {early}}
          /\ t.phase = "guarded" => ApplyOutcomes(t) = {guarded}
          /\ t.phase = "touched" /\ t.mode = "full" => ApplyOutcomes(t) = fulls
          /\ (t.phase = "touched" /\ t.mode # "full") \/ t.phase = "entered" =>
               ApplyOutcomes(t) = others
      BY DEF ApplyOutcomes
    <3>4. early \in Completion /\ early.armed = FALSE
      <4>1. early \in Completion
        BY Constants DEF Completion, SessionType
      <4> QED BY <4>1 DEF NoCompletion
    <3> HIDE DEF early
    <3>5. guarded \in Completion /\ guarded.armed = t.armed
      BY <3>2, <3>4 DEF Completion, IsExclusive
    <3>6. other \in Completion /\ other.armed = FALSE /\ other.changed = TRUE
      BY <3>4 DEF Completion
    <3> HIDE DEF guarded, other
    <3>7. full \in Completion /\ full.armed = t.armed /\ full.changed = TRUE
      BY <3>5 DEF Completion
    <3> HIDE DEF full
    <3>8. \A x \in fulls : x.armed = t.armed /\ x.changed = TRUE
      <4>1. \A st : LET x == [full EXCEPT !.staged = TRUE, !.status = st]
                    IN x.armed = full.armed /\ x.changed = full.changed
        BY <3>7 DEF Completion
      <4> QED BY <3>7, <4>1
    <3>9. \A x \in others : x.armed = FALSE /\ x.changed = TRUE
      <4>1. \A st : LET x == [other EXCEPT !.status = st]
                    IN x.armed = other.armed /\ x.changed = other.changed
        BY <3>6 DEF Completion
      <4> QED BY <3>6, <4>1
    <3> HIDE DEF fulls, others
    <3>10. CASE t.phase = "queued"
      BY <3>1, <3>2, <3>3, <3>4, <3>10 DEF ApplyOK
    <3>11. CASE t.phase = "guarded"
      BY <3>1, <3>2, <3>3, <3>5, <3>11
    <3>12. CASE t.phase = "touched" /\ t.mode = "full"
      BY <3>1, <3>3, <3>8, <3>12
    <3>13. CASE (t.phase = "touched" /\ t.mode # "full") \/ t.phase = "entered"
      BY <3>1, <3>2, <3>3, <3>9, <3>13 DEF ApplyOK
    <3> QED BY <3>2, <3>10, <3>11, <3>12, <3>13

  <2> USE <1>LeaseReports
  <2>1. /\ reset \in ResetType /\ lease \in LeaseType /\ world \in WorldType
        /\ session \in SessionType /\ tasks \in Seq(TaskType) /\ frame \in FrameType
    BY DEF TypeOK
  <2>2. /\ Idle /\ tasks # <<>> /\ Front.op = "Apply" /\ IsMutation(Front)
        /\ Front \in TaskType
    BY <2>1, FrontTypes DEF StaleApplyCompleted, ReactivationCompleted, ApplyCompleted, Completes,
       HasTask, IsMutation
  <2>3. /\ Applies(tasks) = {Front} /\ Applies(Tail(tasks)) = {} /\ Tail(tasks) \in Seq(TaskType)
        /\ ~reset.completion.held /\ frame.at = "idle" /\ Running
    BY <2>2, LaneFront, MutationFront DEF Idle
  <2>4. /\ ApplyOK(Front)
        /\ world.owed => lease.armed \/ Front.phase = "touched"
        /\ world.task <=> lease.taskCreated \/ Front.armed
    BY <2>3 DEF LeaseInv, Owed, TaskKnown
  <2>5. \A d \in Outcomes(Front) :
          d \in Completion /\ (Front.phase = "touched" => d.changed) /\ d.armed = Front.armed
    BY <2>1, <2>2, <2>4, <2>OutcomeTells
  <2>6. ASSUME Applies(tasks') = {}, worker' = NoWorker, ~session'.reactivating,
               ~reset'.completion.held,
               Running' => (world'.owed => Owed') /\ (world'.task <=> TaskKnown')
        PROVE  LeaseInv'
    BY <2>6 DEF LeaseInv, NoWorker
  <2>7. CASE StaleApplyCompleted
    <3> DEFINE staged(d) == [lease EXCEPT !.staged = @ \/ d.staged,
                                          !.taskCreated = @ \/ d.armed]
               drop(d) == ~d.changed /\ Uncommitted(staged(d))
    <3>1. PICK d \in Outcomes(Front), created \in BOOLEAN :
            /\ lease' = IF d.changed
                        THEN [Activated(staged(d)) EXCEPT !.taskCreated = @ \/ created,
                                !.unconfirmed = TRUE, !.heartbeat = TRUE]
                        ELSE [staged(d) EXCEPT !.taskCreated = @ /\ ~drop(d)]
            /\ created => d.changed
            /\ world' = [world EXCEPT !.task = IF drop(d) /\ staged(d).taskCreated THEN FALSE
                                               ELSE @ \/ created]
            /\ reset' = IF drop(d) THEN BeginReset(reset) ELSE reset
            /\ tasks' = IF drop(d) /\ ~reset.pending
                        THEN Append(Tail(tasks), Task("Reset", "none")) ELSE Tail(tasks)
      BY <2>7 DEF StaleApplyCompleted
    <3>2. d.changed \in BOOLEAN /\ d.staged \in BOOLEAN /\ d.armed \in BOOLEAN
      BY <2>5 DEF Completion
    <3>3. /\ staged(d).taskCreated = (lease.taskCreated \/ d.armed) /\ staged(d).armed = lease.armed
          /\ staged(d) \in LeaseType
      BY <2>1, <3>2 DEF LeaseType
    <3>4. drop(d) \in BOOLEAN /\ (drop(d) => ~d.changed)
      OBVIOUS
    <3> HIDE DEF staged, drop
    <3>5. ASSUME d.changed
          PROVE  /\ lease'.armed /\ lease'.taskCreated = (lease.taskCreated \/ d.armed \/ created)
                 /\ world'.task = (world.task \/ created)
      <4>1. /\ Activated(staged(d)) \in LeaseType /\ Activated(staged(d)).armed
            /\ Activated(staged(d)).taskCreated = staged(d).taskCreated
        BY <2>1, <3>3, LeaseOps DEF LeaseType, Activated
      <4>2. lease'.armed /\ lease'.taskCreated = (lease.taskCreated \/ d.armed \/ created)
        BY <3>1, <3>3, <3>5, <4>1 DEF LeaseType
      <4>3. world'.task = (world.task \/ created)
        BY <2>1, <3>1, <3>4, <3>5 DEF WorldType
      <4> QED BY <4>2, <4>3
    <3>6. ASSUME ~d.changed
          PROVE  /\ lease'.armed = lease.armed
                 /\ lease'.taskCreated = ((lease.taskCreated \/ d.armed) /\ ~drop(d))
                 /\ ~drop(d) => world'.task = world.task
                 /\ drop(d) => world'.task = (world.task /\ ~(lease.taskCreated \/ d.armed))
      <4>1. /\ lease'.armed = lease.armed
            /\ lease'.taskCreated = ((lease.taskCreated \/ d.armed) /\ ~drop(d))
        BY <3>1, <3>3, <3>6 DEF LeaseType
      <4>2. /\ world' = [world EXCEPT !.task = IF drop(d) /\ staged(d).taskCreated THEN FALSE
                                               ELSE @ \/ created]
            /\ ~created
        BY <3>1, <3>6
      <4>3. world'.task = IF drop(d) /\ (lease.taskCreated \/ d.armed) THEN FALSE ELSE world.task
        BY <2>1, <3>3, <4>2 DEF WorldType
      <4>4. world.task \in BOOLEAN
        BY <2>1 DEF WorldType
      <4> QED BY <4>1, <4>3, <4>4
    <3>7. world'.owed = world.owed /\ reset'.completion = reset.completion
      BY <2>1, <3>1 DEF WorldType, ResetType, BeginReset
    <3>8. Applies(tasks') = {}
      <4>1. Task("Reset", "none").op # "Apply"
        BY DEF Task
      <4> QED BY <2>3, <3>1, <4>1, <1>AppliesAppend
    <3>9. /\ worker' = NoWorker /\ session' = [session EXCEPT !.reactivating = FALSE]
          /\ frame' = DrainThen("return")
      BY <2>7 DEF StaleApplyCompleted
    <3>10. ~session'.reactivating /\ frame'.at # "finish"
      BY <2>1, <3>9 DEF SessionType, FrameType, DrainThen
    <3>11. /\ world'.owed => lease'.armed
           /\ world'.task <=> lease'.taskCreated
      <4>1. CASE d.changed
        BY <2>4, <2>5, <3>5, <3>7, <4>1
      <4>2. CASE ~d.changed
        BY <2>4, <2>5, <3>6, <3>7, <4>2
      <4> QED BY <4>1, <4>2
    <3> QED BY <2>3, <2>6, <3>7, <3>8, <3>9, <3>10, <3>11 DEF Owed, TaskKnown
  <2>8. CASE ReactivationCompleted
    <3>1. /\ session.reactivating /\ worker' = NoWorker /\ tasks' = Tail(tasks)
          /\ session' = [session EXCEPT !.reactivating = FALSE]
          /\ frame' = DrainThen("return") /\ UNCHANGED <<lease, world, reset>>
      BY <2>8 DEF ReactivationCompleted
    <3>2. ~session'.reactivating /\ frame'.at # "finish"
      BY <2>1, <3>1 DEF SessionType, FrameType, DrainThen
    <3>3. lease.armed /\ ~Front.armed
      BY <2>4, <3>1 DEF LeaseInv, ApplyOK
    <3> QED BY <2>3, <2>4, <2>6, <3>1, <3>2, <3>3 DEF Owed, TaskKnown
  <2>9. CASE ApplyCompleted
    <3>1. PICK d \in Outcomes(Front) :
            /\ frame' = [IdleFrame EXCEPT !.at = "finish", !.done = d]
            /\ lease' = [lease EXCEPT !.staged = @ \/ d.staged]
      BY <2>9 DEF ApplyCompleted
    <3>2. /\ frame'.at = "finish" /\ frame'.done = d
          /\ lease'.armed = lease.armed /\ lease'.taskCreated = lease.taskCreated
      BY <2>1, <3>1 DEF LeaseType, IdleFrame
    <3>3. /\ ~session.reactivating /\ worker' = NoWorker /\ tasks' = Tail(tasks)
          /\ UNCHANGED <<session, world, reset>>
      BY <2>9 DEF ApplyCompleted
    <3> QED BY <2>3, <2>4, <2>5, <2>6, <3>2, <3>3 DEF Owed, TaskKnown
  <2> QED BY <2>7, <2>8, <2>9

\* A mutation other than an APPLY reports, or a RESET.
<1>LeaseEnds.
    ASSUME TypeOK, FenceInv, LeaseInv,
           \/ ResetCompleted \/ RefreshRateCompleted \/ RecoveryCancelled \/ RecoverySucceeded
           \/ RecoveryFailed \/ ValidationCancelled \/ ValidationFailed \/ ValidationSucceeded
    PROVE  LeaseInv'
  <2> USE <1>LeaseEnds
  <2>1. /\ reset \in ResetType /\ lease \in LeaseType /\ world \in WorldType
        /\ session \in SessionType /\ tasks \in Seq(TaskType) /\ frame \in FrameType
    BY DEF TypeOK
  <2>2. /\ Idle /\ tasks # <<>> /\ Front.op # "Apply"
        /\ Front.op = "Reset" \/ (IsMutation(Front) /\ KindOf(Front) # "Apply")
    BY DEF ResetCompleted, RefreshRateCompleted, RecoveryCancelled, RecoverySucceeded,
       RecoveryFailed, ValidationCancelled, ValidationFailed, ValidationSucceeded, Completes,
       HasTask, IsMutation, KindOf
  <2>3. /\ Applies(Tail(tasks)) = Applies(tasks) /\ Tail(tasks) \in Seq(TaskType)
        /\ frame.at = "idle" /\ Running
    BY <2>2, LaneFront DEF Idle
  <2>4. IsMutation(Front) => ~session.reactivating /\ ~reset.completion.held /\ Applies(tasks) = {}
                             /\ worker.kind = KindOf(Front)
    <3> SUFFICES ASSUME IsMutation(Front)
                 PROVE  ~session.reactivating /\ ~reset.completion.held /\ Applies(tasks) = {}
                        /\ worker.kind = KindOf(Front)
      OBVIOUS
    <3>1. worker.kind = KindOf(Front) /\ worker.kind # "Apply"
      BY <2>2, LaneFront DEF IsMutation
    <3> QED BY <2>2, <3>1, LaneFront, MutationFront DEF LeaseInv
  <2>5. \A p : DrainThen(p).at = p
    BY <2>1 DEF DrainThen, FrameType
  <2>6. CASE ResetCompleted
    <3>1. /\ tasks' = Tail(tasks) /\ UNCHANGED <<worker, session>>
          /\ \E ok \in BOOLEAN : lease' = [lease EXCEPT !.staged = @ /\ ~ok]
          /\ \/ reset' = [reset EXCEPT !.pending = FALSE, !.exitAfter = FALSE]
             \/ reset' = [reset EXCEPT !.pending = FALSE,
                                       !.exitAfter = @ /\ ~HasDeferredFollowup]
          /\ world' = world \/ world' = [world EXCEPT !.running = FALSE]
          /\ frame' = frame \/ frame' = DrainThen("resetDone")
      BY <2>6 DEF ResetCompleted
    <3>2. /\ lease'.armed = lease.armed /\ lease'.taskCreated = lease.taskCreated
          /\ reset'.completion = reset.completion
          /\ world'.task = world.task /\ world'.owed = world.owed
      BY <2>1, <3>1 DEF LeaseType, ResetType, WorldType
    <3>3. LeaseCalm
      <4>1. frame'.at # "finish"
        BY <2>3, <2>5, <3>1, SMTT(60)
      <4> QED BY <2>3, <3>2, <4>1 DEF LeaseCalm
    <3>4. LaneCalm
      BY <2>3, <3>1, <3>2 DEF LaneCalm, LeaseInv
    <3> QED BY <3>3, <3>4, <1>LeaseMoves
  <2>7. CASE RefreshRateCompleted \/ RecoveryFailed \/ ValidationFailed
    <3>1. /\ worker' = NoWorker /\ frame' = DrainThen("return") /\ IsMutation(Front)
          /\ UNCHANGED <<lease, reset, world>> /\ tasks' = Tail(tasks)
          /\ session' = session \/ session' = [session EXCEPT !.reapply = FALSE]
      BY <2>7 DEF RefreshRateCompleted, RecoveryFailed, ValidationFailed, CheckDelayed, Completes,
         HasTask, IsMutation
    <3>2. session'.reactivating = session.reactivating
      BY <2>1, <3>1 DEF SessionType
    <3>3. LeaseCalm
      BY <2>3, <2>5, <3>1, SMTT(60) DEF LeaseCalm, Running
    <3>4. LaneCalm
      BY <2>3, <2>4, <3>1, <3>2 DEF LaneCalm, NoWorker
    <3> QED BY <3>3, <3>4, <1>LeaseMoves
  <2>8. CASE RecoveryCancelled \/ ValidationCancelled
    <3>1. /\ worker' = NoWorker /\ frame' = DrainThen("return") /\ IsMutation(Front)
          /\ UNCHANGED <<reset, world, session>> /\ tasks' = Tail(tasks)
          /\ lease' = Retained(lease) \/ lease' = [lease EXCEPT !.attempted = FALSE]
      BY <2>8 DEF RecoveryCancelled, ValidationCancelled, Completes, HasTask, IsMutation
    <3>2. (lease.armed => lease'.armed) /\ lease'.taskCreated = lease.taskCreated
      BY <2>1, <3>1 DEF LeaseType, Retained
    <3>3. LeaseCalm
      BY <2>3, <2>5, <3>1, <3>2, SMTT(60) DEF LeaseCalm, Running
    <3>4. LaneCalm
      BY <2>3, <2>4, <3>1 DEF LaneCalm, NoWorker
    <3> QED BY <3>3, <3>4, <1>LeaseMoves
  <2>9. CASE RecoverySucceeded
    <3>1. /\ UNCHANGED <<lease, frame, world, session>> /\ IsMutation(Front)
          /\ \E ok \in {"ok", "failed"} : reset' = [reset EXCEPT !.recovery = ok]
          /\ tasks' = Append(Tail(tasks), Task("Validation", "none"))
          /\ KindOf(Front) = "Recovery"
      BY <2>9 DEF RecoverySucceeded, Completes, HasTask, IsMutation, KindOf
    <3>2. reset'.completion = reset.completion
      BY <2>1, <3>1 DEF ResetType
    <3>3. Applies(tasks') = Applies(tasks)
      <4>1. Task("Validation", "none").op # "Apply"
        BY DEF Task
      <4> QED BY <2>3, <3>1, <4>1, <1>AppliesAppend
    <3>4. lease.armed
      BY <2>4, <3>1 DEF LeaseInv
    <3>5. LeaseCalm
      BY <2>3, <3>1, <3>2 DEF LeaseCalm, Running
    <3>6. LaneCalm
      BY <2>4, <3>1, <3>3, <3>4 DEF LaneCalm
    <3> QED BY <3>5, <3>6, <1>LeaseMoves
  <2>10. CASE ValidationSucceeded
    <3>1. /\ worker' = NoWorker /\ UNCHANGED session /\ IsMutation(Front)
          /\ world' = [world EXCEPT !.task = FALSE, !.owed = FALSE]
          /\ ~lease'.taskCreated
          /\ \E b \in BOOLEAN : frame' = DrainThen(IF b THEN "restoredFollowup" ELSE "restored")
          /\ \/ tasks' = Tail(tasks)
             \/ tasks' = Append(Tail(tasks), Task("Reset", "none"))
          /\ \E a, b : reset' = [reset EXCEPT !.pending = a, !.exitAfter = b, !.stray = FALSE]
      BY <2>10 DEF ValidationSucceeded, Completes, HasTask, IsMutation
    <3>2. ~world'.task /\ ~world'.owed /\ reset'.completion = reset.completion
      BY <2>1, <3>1 DEF WorldType, ResetType
    <3>3. frame'.at # "finish"
      BY <2>5, <3>1, SMTT(60)
    <3>4. Applies(tasks') = {}
      <4>1. Task("Reset", "none").op # "Apply"
        BY DEF Task
      <4> QED BY <2>3, <2>4, <3>1, <4>1, <1>AppliesAppend
    <3> QED BY <2>4, <3>1, <3>2, <3>3, <3>4 DEF LeaseInv, Owed, TaskKnown, NoWorker
  <2> QED BY <2>6, <2>7, <2>8, <2>9, <2>10

\* A check reports.
<1>LeaseChecks.
    ASSUME TypeOK, FenceInv, LeaseInv, VerificationCompleted
    PROVE  LeaseInv'
  <2> USE <1>LeaseChecks
  <2>1. /\ reset \in ResetType /\ lease \in LeaseType /\ world \in WorldType
        /\ session \in SessionType /\ tasks \in Seq(TaskType) /\ frame \in FrameType
    BY DEF TypeOK
  <2>2. /\ Idle /\ tasks # <<>> /\ Front.op = "Verification"
        /\ UNCHANGED <<frame, world>>
        /\ Completes("Verification")
    BY DEF VerificationCompleted, VerificationIgnored, SettlementHolds, SettlementLost,
       SettlementRechecks, SettlementRepairs, BaselineVerified, InitialVerified,
       FailedUnderSettlement, BaselineRepairStarted, BaselineRepairFailed, InitialRetried,
       InitialFailed, Verified, FailedVerification, Completes, HasTask
  <2>3. /\ Applies(Tail(tasks)) = Applies(tasks) /\ Tail(tasks) \in Seq(TaskType)
        /\ frame.at = "idle" /\ Running
    BY <2>2, LaneFront DEF Idle
  <2>4. /\ reset' = reset \/ reset' = [reset EXCEPT !.recovery = "none"]
        /\ \/ lease' = lease
           \/ lease' = [Activated(lease) EXCEPT !.unconfirmed = FALSE]
           \/ \E h : lease' = [Activated(lease) EXCEPT !.unconfirmed = FALSE, !.heartbeat = h]
    BY DEF VerificationCompleted, VerificationIgnored, SettlementHolds, SettlementLost,
       SettlementRechecks, SettlementRepairs, BaselineVerified, InitialVerified,
       FailedUnderSettlement, BaselineRepairStarted, BaselineRepairFailed, InitialRetried,
       InitialFailed, FailedVerification
  <2>5. \/ session' = session
        \/ session' = [session EXCEPT !.verified = TRUE]
        \/ session' = [session EXCEPT !.verified = FALSE]
        \/ session' = [session EXCEPT !.reapply = FALSE]
        \/ session' = [session EXCEPT !.applySent = TRUE, !.verificationSent = TRUE]
        \/ session' = [session EXCEPT !.verified = TRUE, !.applySent = TRUE,
                                      !.verificationSent = TRUE]
    BY DEF VerificationCompleted, VerificationIgnored, SettlementHolds, SettlementLost,
       SettlementRechecks, SettlementRepairs, BaselineVerified, InitialVerified,
       FailedUnderSettlement, BaselineRepairStarted, BaselineRepairFailed, InitialRetried,
       InitialFailed, FailedReplies
  <2>6. session'.reactivating = session.reactivating
    BY <2>1, <2>5 DEF SessionType
  <2>7. (lease.armed => lease'.armed) /\ lease'.taskCreated = lease.taskCreated
    BY <2>1, <2>4 DEF LeaseType, Activated
  <2>8. reset'.completion = reset.completion
    BY <2>1, <2>4 DEF ResetType
  <2>9. LeaseCalm
    BY <2>2, <2>3, <2>7, <2>8 DEF LeaseCalm, Running
  <2>10. LaneCalm
    <3>1. CASE VerificationIgnored
      BY <2>3, <2>6, <2>7, <3>1 DEF VerificationIgnored, LaneCalm, LeaseInv
    <3>2. CASE ~VerificationIgnored
      <4>1. Live(Front)
        BY <3>2 DEF VerificationCompleted, SettlementHolds, SettlementLost, SettlementRechecks,
           SettlementRepairs, BaselineVerified, InitialVerified, FailedUnderSettlement,
           BaselineRepairStarted, BaselineRepairFailed, InitialRetried, InitialFailed, Verified,
           FailedVerification
      <4>2. worker = NoWorker
        BY <2>2, <4>1, CheckFront
      <4>3. \/ worker' = worker /\ tasks' = Tail(tasks)
            \/ worker' = worker /\ tasks' = Append(Tail(tasks), Task("Verification", "TransientDisconnectFinal"))
            \/ /\ worker' = [kind |-> "Apply", gen |-> gen']
               /\ \E mode : tasks' = Append(Tail(tasks), Task("Apply", mode))
            \/ /\ worker' = [kind |-> "Recovery", gen |-> gen'] /\ lease.armed
               /\ tasks' = Append(Tail(tasks), Task("Recovery", "none"))
        BY <3>2 DEF VerificationCompleted, SettlementHolds, SettlementLost, SettlementRechecks,
           SettlementRepairs, BaselineVerified, InitialVerified, FailedUnderSettlement,
           BaselineRepairStarted, BaselineRepairFailed, InitialRetried, InitialFailed, NextCheck,
           CheckWaits, CheckDelayed, CheckFinal, FinalCheck
      <4>4. worker'.kind = "Recovery" => lease'.armed
        BY <2>7, <4>2, <4>3, SMTT(60) DEF NoWorker
      <4>5. CASE tasks' = Tail(tasks)
        BY <2>3, <2>6, <4>2, <4>4, <4>5 DEF LaneCalm, LeaseInv, NoWorker
      <4>6. ASSUME NEW op, NEW mode, tasks' = Append(Tail(tasks), Task(op, mode))
            PROVE  LaneCalm
        BY <2>3, <2>6, <4>2, <4>4, <4>6, <1>LaneDispatches
      <4> QED BY <4>3, <4>5, <4>6
    <3> QED BY <3>1, <3>2
  <2> QED BY <2>9, <2>10, <1>LeaseMoves

\* finish_apply_completed
<1>LeaseFinishes.
    ASSUME TypeOK, FenceInv, LeaseInv, Finish
    PROVE  LeaseInv'
  <2> USE <1>LeaseFinishes
  <2>1. /\ reset \in ResetType /\ lease \in LeaseType /\ world \in WorldType
        /\ session \in SessionType /\ frame \in FrameType /\ Running /\ frame.at = "finish"
    BY DEF TypeOK, Finish, At
  <2>2. /\ frame.done.armed \in BOOLEAN /\ frame.done.changed \in BOOLEAN
        /\ ~reset.completion.held /\ ~WorkerActive
    BY <2>1 DEF FrameType, Completion, FenceInv, FrameInv, HeldInv, Free
  <2> DEFINE d == frame.done
             guarded == [lease EXCEPT !.taskCreated = @ \/ d.armed]
             mutated == d.status = "Ok" \/ d.changed
  <2>3. PICK next \in {"rolledBack", "superseded", "decide"}, created \in BOOLEAN :
          /\ created => mutated
          /\ frame' = [frame EXCEPT !.at = next, !.baseline = identity.inFlight]
          /\ lease' = IF mutated
                      THEN [Activated(guarded) EXCEPT !.taskCreated = @ \/ created]
                      ELSE guarded
          /\ world' = [world EXCEPT !.task = @ \/ created]
          /\ reset' = IF next = "superseded"
                      THEN [reset EXCEPT !.completion = [held |-> TRUE, done |-> d]] ELSE reset
    BY DEF Finish
  <2>4. guarded \in LeaseType /\ guarded.taskCreated = (lease.taskCreated \/ d.armed)
        /\ guarded.armed = lease.armed
    BY <2>1, <2>2 DEF LeaseType
  <2>5. /\ UNCHANGED <<worker, tasks>>
        /\ session'.reactivating = session.reactivating
    BY <2>1 DEF Finish, SessionType
  <2>6. frame'.at # "finish"
    BY <2>1, <2>3, SMTT(60) DEF FrameType
  <2> HIDE DEF guarded
  <2>7. /\ lease.armed \/ d.changed => lease'.armed
        /\ lease'.taskCreated = (lease.taskCreated \/ d.armed \/ created)
    <3>1. /\ Activated(guarded) \in LeaseType /\ Activated(guarded).armed
          /\ Activated(guarded).taskCreated = guarded.taskCreated
      BY <2>1, <2>4, LeaseOps DEF LeaseType, Activated
    <3>2. CASE mutated
      BY <2>3, <2>4, <3>1, <3>2 DEF LeaseType
    <3>3. CASE ~mutated
      BY <2>3, <2>4, <3>3
    <3> QED BY <3>2, <3>3
  <2>8. world'.owed = world.owed /\ world'.task = (world.task \/ created)
    BY <2>1, <2>3 DEF WorldType
  <2>9. reset'.completion.held => reset'.completion.done = d
    <3>1. CASE next = "superseded"
      BY <2>1, <2>3, <3>1 DEF ResetType
    <3>2. CASE next # "superseded"
      BY <2>2, <2>3, <3>2
    <3> QED BY <3>1, <3>2
  <2>10. ~session.reactivating /\ worker.kind = "none" /\ Applies(tasks) = {}
    BY <2>2, LaneEmpty
  <2> HIDE DEF d, mutated
  <2>11. /\ world.owed => lease.armed \/ d.changed
         /\ world.task <=> lease.taskCreated \/ d.armed
    BY <2>1, <2>10 DEF LeaseInv, Owed, TaskKnown, d
  <2> QED BY <2>5, <2>6, <2>7, <2>8, <2>9, <2>10, <2>11 DEF LeaseInv, Owed, TaskKnown

\* A handler goes on after its drain call.
<1>LeaseContinues.
    ASSUME TypeOK, FenceInv, LeaseInv, Continue, ~Finish
    PROVE  LeaseInv'
  <2> USE <1>LeaseContinues
  <2>1. /\ reset \in ResetType /\ lease \in LeaseType /\ world \in WorldType
        /\ session \in SessionType /\ frame \in FrameType /\ tasks \in Seq(TaskType)
    BY DEF TypeOK
  <2>2. \A p : DrainThen(p).at = p /\ [frame EXCEPT !.at = p].at = p /\ [IdleFrame EXCEPT !.at = p].at = p
    BY <2>1 DEF DrainThen, FrameType, IdleFrame
  <2>3. IdleFrame.at = "idle" /\ Returned.at \in {"idle", "resetTail"}
    BY <2>2 DEF IdleFrame, Returned
  <2>4. CASE AfterReset
    <3>1. /\ After("resetDone") /\ UNCHANGED <<lease, world, session, worker, tasks>>
          /\ \/ /\ frame' = [IdleFrame EXCEPT !.at = "finish", !.caller = "reset",
                                              !.done = reset.completion.done]
                /\ reset.completion.held /\ reset' = [reset EXCEPT !.completion = NoneHeld]
             \/ frame' = [IdleFrame EXCEPT !.at = "resetTail"] /\ UNCHANGED reset
      BY <2>4 DEF AfterReset
    <3>2. Running /\ frame.at = "resetDone"
      BY <3>1 DEF After, DrainedOut
    <3>3. CASE frame' = [IdleFrame EXCEPT !.at = "resetTail"] /\ UNCHANGED reset
      BY <2>2, <3>1, <3>2, <3>3, <1>LaneKeeps, <1>LeaseMoves, SMTT(60) DEF LeaseCalm, Running
    <3>4. CASE /\ frame' = [IdleFrame EXCEPT !.at = "finish", !.caller = "reset",
                                             !.done = reset.completion.done]
               /\ reset.completion.held /\ reset' = [reset EXCEPT !.completion = NoneHeld]
      <4>1. /\ frame'.at = "finish" /\ frame'.done = reset.completion.done
            /\ ~reset'.completion.held
        BY <2>1, <3>4 DEF IdleFrame, ResetType, NoneHeld
      <4>2. reset.completion.done.armed => lease.taskCreated
        BY <3>2, <3>4 DEF LeaseInv
      <4>3. /\ \A t \in Applies(tasks') : ApplyOK(t)'
            /\ Running' => Running
        BY <3>1 DEF LeaseInv, ApplyOK, Running
      <4>4. Running' => (Owed => Owed') /\ (TaskKnown' <=> TaskKnown)
        BY <3>1, <3>2, <4>1, <4>2 DEF Owed, TaskKnown
      <4> QED BY <3>1, <4>1, <4>3, <4>4 DEF LeaseInv
    <3> QED BY <3>1, <3>3, <3>4
  <2>5. CASE ConcludeFailed
    <3> DEFINE drop == ~frame.done.changed /\ Uncommitted(lease)
    <3>1. /\ Running /\ frame.at = "conclude" /\ UNCHANGED worker
          /\ lease' = [lease EXCEPT !.heartbeat = HeartbeatNeeded(lease),
                                    !.taskCreated = @ /\ ~drop]
          /\ world' = [world EXCEPT !.task = @ /\ ~(drop /\ lease.taskCreated)]
          /\ reset' = IF drop THEN BeginReset(reset) ELSE reset
          /\ tasks' = IF drop /\ ~reset.pending THEN Append(tasks, Task("Reset", "none"))
                      ELSE tasks
          /\ session' = [session EXCEPT !.applySent = TRUE, !.verificationSent = TRUE]
          /\ frame' = DrainThen("return")
      BY <2>5 DEF ConcludeFailed, FailedReplies, At
    <3>2. ~WorkerActive /\ ~reset.completion.held
      BY <3>1 DEF FenceInv, FrameInv, HeldInv, Free
    <3>3. drop \in BOOLEAN
      OBVIOUS
    <3> HIDE DEF drop
    <3>4. /\ lease'.armed = lease.armed /\ lease'.taskCreated = (lease.taskCreated /\ ~drop)
          /\ world'.owed = world.owed /\ world'.task = (world.task /\ ~(drop /\ lease.taskCreated))
          /\ session'.reactivating = session.reactivating
          /\ reset'.completion = reset.completion /\ frame'.at = "return"
      <4>1. lease'.armed = lease.armed /\ lease'.taskCreated = (lease.taskCreated /\ ~drop)
        BY <2>1, <3>1 DEF LeaseType
      <4>2. world'.owed = world.owed /\ world'.task = (world.task /\ ~(drop /\ lease.taskCreated))
        BY <2>1, <3>1 DEF WorldType
      <4>3. session'.reactivating = session.reactivating
        BY <2>1, <3>1 DEF SessionType
      <4>4. reset'.completion = reset.completion
        BY <2>1, <3>1 DEF ResetType, BeginReset
      <4> QED BY <2>2, <3>1, <4>1, <4>2, <4>3, <4>4
    <3>5. Applies(tasks) = {} /\ worker.kind = "none" /\ ~session.reactivating
      BY <3>2, LaneEmpty
    <3>6. Applies(tasks') = {}
      <4>1. Task("Reset", "none").op # "Apply"
        BY DEF Task
      <4> QED BY <2>1, <3>1, <3>5, <4>1, <1>AppliesAppend
    <3>7. (world.owed => lease.armed) /\ (world.task <=> lease.taskCreated)
      BY <3>1, <3>5 DEF LeaseInv, Owed, TaskKnown
    <3> QED BY <3>1, <3>2, <3>4, <3>5, <3>6, <3>7 DEF LeaseInv, Owed, TaskKnown
  <2>6. CASE ConcludeHdr
    <3>1. /\ Running /\ frame.at = "conclude" /\ frame' = Returned
          /\ session' = [session EXCEPT !.hdrTried = TRUE, !.request.hdr = FALSE]
          /\ worker' = [kind |-> "Apply", gen |-> gen'] /\ tasks' = Append(tasks, Task("Apply", "repair"))
          /\ UNCHANGED <<lease, reset, world>>
      BY <2>6 DEF ConcludeHdr, DispatchApply, At
    <3>2. worker = NoWorker /\ session'.reactivating = session.reactivating
      BY <2>1, <3>1 DEF FenceInv, FrameInv, Free, WorkerActive, SessionType
    <3>3. LeaseCalm
      BY <2>3, <3>1 DEF LeaseCalm, Running
    <3>4. LaneCalm
      BY <2>1, <3>1, <3>2, <1>LaneDispatches
    <3> QED BY <3>3, <3>4, <1>LeaseMoves
  <2>7. CASE RolledBack \/ AfterReturn \/ AfterRollback \/ AfterSuperseded \/ DecideBaselineFailed
             \/ DecideVerify \/ DecideSettling \/ DecideFailed \/ AfterSettling
             \/ AfterLastRepair \/ AfterLastFailure \/ ResetExits \/ ResetResumes
             \/ AfterRestored \/ AfterRestoredFollowup
    <3>1. Running /\ frame.at # "finish" /\ UNCHANGED worker
      BY <2>7 DEF RolledBack, AfterReturn, AfterRollback, AfterSuperseded, DecideBaselineFailed,
         DecideVerify, DecideSettling, DecideFailed, AfterSettling, AfterLastRepair,
         AfterLastFailure, ResetExits, ResetResumes, AfterRestored, AfterRestoredFollowup,
         At, After, DrainedOut
    <3>2. \/ frame' = Returned \/ frame' = IdleFrame
          \/ \E p \in FramePoints : p # "finish" /\ (frame' = DrainThen(p) \/ frame' = [frame EXCEPT !.at = p])
      BY <2>7 DEF RolledBack, AfterReturn, AfterRollback, AfterSuperseded, DecideBaselineFailed,
         DecideVerify, DecideSettling, DecideFailed, AfterSettling, AfterLastRepair,
         AfterLastFailure, ResetExits, ResetResumes, AfterRestored, AfterRestoredFollowup,
         FramePoints, DrainPoints
    <3>3. frame'.at # "finish"
      <4>1. CASE frame' = Returned \/ frame' = IdleFrame
        BY <2>3, <4>1, SMTT(60)
      <4>2. ASSUME NEW p \in FramePoints, p # "finish",
                   frame' = DrainThen(p) \/ frame' = [frame EXCEPT !.at = p]
            PROVE  frame'.at # "finish"
        BY <2>2, <4>2
      <4> QED BY <3>2, <4>1, <4>2
    <3>4. /\ \/ lease' = lease \/ \E h : lease' = [lease EXCEPT !.heartbeat = h]
             \/ lease' = [Activated(lease) EXCEPT !.unconfirmed = FALSE]
          /\ world' = world \/ world' = [world EXCEPT !.running = FALSE]
          /\ \/ reset' = reset \/ reset' = [reset EXCEPT !.completion = NoneHeld]
             \/ reset' = [reset EXCEPT !.exitAfter = FALSE]
             \/ \E b : reset' = [reset EXCEPT !.stray = b]
          /\ \/ session' = session \/ session' = [session EXCEPT !.reapply = FALSE]
             \/ session' = [session EXCEPT !.verified = TRUE]
             \/ session' = [session EXCEPT !.applySent = TRUE, !.verificationSent = TRUE]
      BY <2>7 DEF RolledBack, AfterReturn, AfterRollback, AfterSuperseded, DecideBaselineFailed,
         DecideVerify, DecideSettling, DecideFailed, AfterSettling, AfterLastRepair,
         AfterLastFailure, ResetExits, ResetResumes, AfterRestored, AfterRestoredFollowup,
         FailedReplies, ExitProcess
    <3>5. /\ (lease.armed => lease'.armed) /\ lease'.taskCreated = lease.taskCreated
          /\ world'.task = world.task /\ world'.owed = world.owed
          /\ session'.reactivating = session.reactivating
          /\ reset'.completion = reset.completion \/ ~reset'.completion.held
      <4>1. (lease.armed => lease'.armed) /\ lease'.taskCreated = lease.taskCreated
        BY <2>1, <3>4 DEF LeaseType, Activated
      <4>2. world'.task = world.task /\ world'.owed = world.owed
        BY <2>1, <3>4 DEF WorldType
      <4>3. session'.reactivating = session.reactivating
        BY <2>1, <3>4 DEF SessionType
      <4>4. reset'.completion = reset.completion \/ ~reset'.completion.held
        BY <2>1, <3>4, SMTT(60) DEF ResetType, NoneHeld
      <4> QED BY <4>1, <4>2, <4>3, <4>4
    <3>6. LeaseCalm
      BY <3>1, <3>3, <3>5 DEF LeaseCalm
    <3>7. Applies(tasks') = Applies(tasks)
      <4>1. tasks' = tasks \/ \E mode : tasks' = Append(tasks, Task("Verification", mode))
        BY <2>7 DEF RolledBack, AfterReturn, AfterRollback, AfterSuperseded, DecideBaselineFailed,
           DecideVerify, DecideSettling, DecideFailed, AfterSettling, AfterLastRepair,
           AfterLastFailure, ResetExits, ResetResumes, AfterRestored, AfterRestoredFollowup,
           NextCheck, CheckWaits, CheckDelayed, CheckFinal, FinalCheck
      <4>2. \A mode : Task("Verification", mode).op # "Apply"
        BY DEF Task
      <4> QED BY <2>1, <4>1, <4>2, <1>AppliesAppend
    <3>8. LaneCalm
      BY <3>1, <3>5, <3>7 DEF LaneCalm, LeaseInv
    <3> QED BY <3>6, <3>8, <1>LeaseMoves
  <2> QED BY <2>4, <2>5, <2>6, <2>7 DEF Continue, FinishApply

\* The worker and the timer.
<1>LeaseWorks.
    ASSUME TypeOK, FenceInv, LeaseInv, Worker
    PROVE  LeaseInv'

  \* The worker's thread advances the front task.
  <2>AppliesFront.
      ASSUME NEW q \in Seq(TaskType), q # <<>>, NEW p, NEW a
      PROVE  Applies([q EXCEPT ![1].phase = p, ![1].armed = a])
               = Applies(Tail(q)) \cup (IF Head(q).op = "Apply"
                                        THEN {[Head(q) EXCEPT !.phase = p, !.armed = a]} ELSE {})
    <3> USE <2>AppliesFront
    <3> DEFINE r == [q EXCEPT ![1].phase = p, ![1].armed = a]
               s == Tail(q)
               u == [Head(q) EXCEPT !.phase = p, !.armed = a]
    <3>1. /\ DOMAIN q = 1..Len(q) /\ Len(q) \in Nat /\ Len(q) >= 1 /\ Head(q) = q[1]
          /\ DOMAIN s = 1..(Len(q) - 1) /\ \A i \in DOMAIN s : s[i] = q[i + 1]
      BY HeadTailProperties, LenProperties, EmptySeq, SMTT(60)
    <3>2. Head(q) \in TaskType
      BY HeadTailProperties
    <3>3. DOMAIN r = DOMAIN q /\ r[1] = u /\ u.op = Head(q).op
      BY <3>1, <3>2, SMTT(60) DEF TaskType
    <3>4. \A i \in DOMAIN q : i # 1 => r[i] = q[i]
      BY <3>1, SMTT(60)
    <3>5. \A i \in DOMAIN s : i + 1 \in DOMAIN q /\ i + 1 # 1 /\ s[i] = q[i + 1]
      BY <3>1, SMTT(60)
    <3>6. 1 \in DOMAIN q /\ \A i \in DOMAIN q : i # 1 => i - 1 \in DOMAIN s /\ s[i - 1] = q[i]
      BY <3>1, SMTT(60)
    <3> HIDE DEF r, s, u
    <3>7. \A x : x \in Applies(r) <=> x \in Applies(s) \/ (u.op = "Apply" /\ x = u)
      BY <3>3, <3>4, <3>5, <3>6, SMTT(60) DEF Applies
    <3> QED BY <3>3, <3>7 DEF r, s, u

  <2> USE <1>LeaseWorks
  <2>1. /\ lease \in LeaseType /\ world \in WorldType /\ tasks \in Seq(TaskType) /\ Running
        /\ UNCHANGED <<worker, session, frame, reset>>
    BY DEF TypeOK, Worker, WorkerGuards, WorkerTouches, RecoveryEnters, RecoveryTouches,
       TimerFires, HasTask, fsmVars
  <2>2. CASE WorkerGuards
    <3>1. PICK armed \in BOOLEAN : /\ FrontPhase("guarded", armed)
                                   /\ world' = [world EXCEPT !.task = @ \/ armed]
      BY <2>2 DEF WorkerGuards
    <3>2. /\ tasks # <<>> /\ Front.op = "Apply" /\ Front.mode = "full" /\ Front.phase = "queued"
          /\ UNCHANGED lease
      BY <2>2 DEF WorkerGuards, HasTask
    <3> DEFINE u == [Front EXCEPT !.phase = "guarded", !.armed = armed]
    <3>3. Front \in TaskType /\ Applies(tasks) = {Front} /\ Applies(Tail(tasks)) = {}
      BY <2>1, <3>2, FrontTypes, LaneFront
    <3>4. u.phase = "guarded" /\ u.armed = armed /\ u.mode = "full"
      BY <3>2, <3>3 DEF TaskType
    <3> HIDE DEF u
    <3>5. Applies(tasks') = {u}
      <4>1. tasks' = [tasks EXCEPT ![1].phase = "guarded", ![1].armed = armed]
        BY <3>1 DEF FrontPhase
      <4>2. Applies(tasks') = Applies(Tail(tasks)) \cup (IF Front.op = "Apply" THEN {u} ELSE {})
        BY <2>1, <3>2, <4>1, <2>AppliesFront DEF Front, u
      <4> QED BY <3>2, <3>3, <4>2
    <3>6. ~Front.armed /\ ~session.reactivating
      BY <3>2, <3>3 DEF LeaseInv, ApplyOK
    <3>7. world'.task = (world.task \/ armed) /\ world'.owed = world.owed
      BY <2>1, <3>1 DEF WorldType
    <3>8. \A t \in Applies(tasks') : ApplyOK(t)'
      BY <2>1, <3>4, <3>5, <3>6 DEF ApplyOK
    <3>9. /\ world.owed => lease.armed \/ (frame.at = "finish" /\ frame.done.changed)
          /\ world.task <=> lease.taskCreated \/ (frame.at = "finish" /\ frame.done.armed)
      BY <2>1, <3>2, <3>3, <3>6 DEF LeaseInv, Owed, TaskKnown
    <3> QED BY <2>1, <3>2, <3>4, <3>5, <3>7, <3>8, <3>9 DEF LeaseInv, Owed, TaskKnown
  <2>3. CASE WorkerTouches
    <3>1. /\ FrontPhase("touched", Front.armed) /\ world' = [world EXCEPT !.owed = TRUE]
          /\ tasks # <<>> /\ Front.op = "Apply" /\ UNCHANGED lease
      BY <2>3 DEF WorkerTouches, HasTask
    <3> DEFINE u == [Front EXCEPT !.phase = "touched", !.armed = Front.armed]
    <3>2. Front \in TaskType /\ Applies(tasks) = {Front} /\ Applies(Tail(tasks)) = {}
      BY <2>1, <3>1, FrontTypes, LaneFront
    <3>3. u.phase = "touched" /\ u.armed = Front.armed /\ u.mode = Front.mode
      BY <3>2 DEF TaskType
    <3> HIDE DEF u
    <3>4. Applies(tasks') = {u}
      <4>1. tasks' = [tasks EXCEPT ![1].phase = "touched", ![1].armed = Front.armed]
        BY <3>1 DEF FrontPhase
      <4>2. Applies(tasks') = Applies(Tail(tasks)) \cup (IF Front.op = "Apply" THEN {u} ELSE {})
        BY <2>1, <3>1, <4>1, <2>AppliesFront DEF Front, u
      <4> QED BY <3>1, <3>2, <4>2
    <3>5. world'.task = world.task
      BY <2>1, <3>1 DEF WorldType
    <3>6. ApplyOK(Front)
      BY <3>2 DEF LeaseInv
    <3>7. \A t \in Applies(tasks') : ApplyOK(t)'
      BY <2>1, <3>3, <3>4, <3>6 DEF ApplyOK
    <3>8. world.task <=> lease.taskCreated \/ Front.armed \/ (frame.at = "finish" /\ frame.done.armed)
      BY <2>1, <3>2 DEF LeaseInv, TaskKnown
    <3> QED BY <2>1, <3>1, <3>3, <3>4, <3>5, <3>7, <3>8 DEF LeaseInv, Owed, TaskKnown
  <2>4. CASE RecoveryEnters \/ RecoveryTouches
    <3>1. /\ \E p : FrontPhase(p, FALSE)
          /\ world' = world \/ world' = [world EXCEPT !.owed = TRUE]
          /\ tasks # <<>> /\ Front.op = "Recovery"
          /\ lease' = lease \/ lease' = [lease EXCEPT !.attempted = TRUE]
      BY <2>4 DEF RecoveryEnters, RecoveryTouches, HasTask
    <3>2. /\ worker.kind = "Recovery" /\ Applies(tasks) = {} /\ Applies(Tail(tasks)) = {}
      BY <3>1, LaneFront DEF IsMutation, KindOf
    <3>3. Applies(tasks') = {}
      <4>1. PICK p : tasks' = [tasks EXCEPT ![1].phase = p, ![1].armed = FALSE]
        BY <3>1 DEF FrontPhase
      <4>2. Head(tasks).op # "Apply"
        BY <3>1 DEF Front
      <4> QED BY <2>1, <3>1, <3>2, <4>1, <4>2, <2>AppliesFront
    <3>4. /\ world'.task = world.task
          /\ lease'.armed = lease.armed /\ lease'.taskCreated = lease.taskCreated
      BY <2>1, <3>1 DEF WorldType, LeaseType
    <3> QED BY <2>1, <3>2, <3>3, <3>4 DEF LeaseInv, Owed, TaskKnown
  <2>5. CASE TimerFires
    <3>1. /\ timers # <<>> /\ UNCHANGED <<lease, world>>
          /\ tasks' = tasks \/ tasks' = Append(tasks, Head(timers))
      BY <2>5 DEF TimerFires
    <3>2. Head(timers).op = "Verification"
      <4>1. timers \in Seq(TaskType) /\ \A i \in DOMAIN timers : timers[i].op = "Verification"
        BY DEF FenceInv, QueueInv, QueueOK
      <4> QED BY <3>1, <4>1, SMTT(60)
    <3>3. Applies(tasks') = Applies(tasks)
      BY <2>1, <3>1, <3>2, <1>AppliesAppend
    <3> QED BY <2>1, <3>1, <3>3 DEF LeaseInv, Owed, TaskKnown, ApplyOK
  <2> QED BY <2>2, <2>3, <2>4, <2>5 DEF Worker

\* The lease does not move.
<1>LeaseStays.
    ASSUME LeaseInv, UNCHANGED <<lease, worker, tasks, frame, reset>>, Running' => Running,
           session'.reactivating = session.reactivating,
           world'.task = world.task, world'.owed = world.owed
    PROVE  LeaseInv'
  BY <1>LeaseStays DEF LeaseInv, Owed, TaskKnown, ApplyOK

<1>LeaseOthers.
    ASSUME TypeOK, FenceInv, LeaseInv,
           \/ ClientReactivate \/ ClientRevert \/ ClientRefreshRate \/ ClientSnapshot \/ ClientPark
           \/ RevertStale \/ DrainDropsStale \/ DrainDropsRepair
           \/ DisplayEvent \/ Tick \/ Time \/ Connection
    PROVE  LeaseInv'

  \* start_recovery, or a new APPLY, with the lease as it is.
  <2>LeaseStarts.
      ASSUME TypeOK, FenceInv, LeaseInv, Idle, ~WorkerActive, NEW op, NEW mode,
             tasks' = Append(tasks, Task(op, mode)), UNCHANGED <<lease, frame, world>>,
             session'.reactivating = session.reactivating, reset'.completion = reset.completion,
             worker'.kind = "Recovery" => lease.armed
      PROVE  LeaseInv'
    <3> USE <2>LeaseStarts
    <3>1. LeaseCalm
      BY DEF LeaseCalm, Idle, Running
    <3>2. LaneCalm
      BY LaneEmpty, <1>LaneDispatches DEF TypeOK
    <3> QED BY <3>1, <3>2, <1>LeaseMoves

  <2> USE <1>LeaseOthers
  <2>1. /\ reset \in ResetType /\ lease \in LeaseType /\ world \in WorldType
        /\ session \in SessionType /\ tasks \in Seq(TaskType)
    BY DEF TypeOK
  <2>2. CASE ClientRevert \/ ClientSnapshot \/ ClientPark \/ RevertStale \/ DrainDropsStale
             \/ DrainDropsRepair \/ IdentityUnchanged \/ IdentityQueued \/ EventKept
             \/ TickDiscards \/ TickExpires
    <3>1. /\ UNCHANGED <<lease, worker, tasks, frame, reset, session>>
          /\ world' = world \/ world' = [world EXCEPT !.tiers = TRUE]
      BY <2>2 DEF ClientRevert, ClientSnapshot, ClientPark, RevertStale, DrainDropsStale,
         DrainDropsRepair, IdentityUnchanged, IdentityQueued, EventKept, TickDiscards, TickExpires,
         SnapshotTaken, Park, IdentityEvent, RecoveryEvent, Notified, Ticks
    <3>2. world'.task = world.task /\ world'.owed = world.owed /\ (Running' => Running)
      BY <2>1, <3>1 DEF WorldType, Running
    <3> QED BY <3>1, <3>2, <1>LeaseStays
  <2>3. CASE ClientReactivate
    <3>1. /\ Idle /\ ~WorkerActive /\ lease.armed
          /\ session' = [session EXCEPT !.reactivating = TRUE]
          /\ worker' = [kind |-> "Apply", gen |-> gen']
          /\ tasks' = Append(tasks, Task("Apply", "reactivation"))
          /\ UNCHANGED <<lease, frame, reset, world>>
      BY <2>3 DEF ClientReactivate, ApplyReactivation, Deliver, DispatchApply, Free
    <3> DEFINE t == Task("Apply", "reactivation")
    <3>2. t.phase = "queued" /\ ~t.armed /\ t.op = "Apply" /\ t.mode = "reactivation"
      BY DEF Task
    <3> HIDE DEF t
    <3>3. Applies(tasks) = {} /\ Applies(tasks') = {t}
      BY <2>1, <3>1, <3>2, <1>AppliesAppend, LaneEmpty DEF t
    <3>4. session'.reactivating /\ worker'.kind = "Apply"
      BY <2>1, <3>1 DEF SessionType
    <3>5. \A u \in Applies(tasks') : ApplyOK(u)'
      BY <3>2, <3>3 DEF ApplyOK
    <3> QED BY <3>1, <3>2, <3>3, <3>4, <3>5 DEF LeaseInv, Owed, TaskKnown, Running
  <2>4. CASE ClientRefreshRate
    <3>1. /\ Idle /\ ~WorkerActive /\ worker' = [kind |-> "RefreshRate", gen |-> gen']
          /\ tasks' = Append(tasks, Task("RefreshRate", "none"))
          /\ UNCHANGED <<lease, frame, reset, world, session>>
      BY <2>4 DEF ClientRefreshRate, RefreshRateStarted, Deliver, ApplyInFlight
    <3>2. worker'.kind # "Recovery"
      BY <3>1
    <3> QED BY <3>1, <3>2, <2>LeaseStarts
  <2>5. CASE BaselineReturned
    <3>1. /\ Idle /\ ~WorkerActive /\ UNCHANGED <<worker, lease, frame, reset, world>>
          /\ session' = [session EXCEPT !.reapply = FALSE]
          /\ tasks' = Append(tasks, Task("Verification", "BaselineTopologyReturn"))
      BY <2>5 DEF BaselineReturned, Notified, Free
    <3>2. session'.reactivating = session.reactivating
      BY <2>1, <3>1 DEF SessionType
    <3> QED BY <3>1, <3>2, <2>LeaseStarts DEF LeaseInv
  <2>6. CASE IdentityReplaced
    <3>1. /\ Idle /\ ~WorkerActive /\ UNCHANGED <<lease, frame, reset, world>>
          /\ worker' = [kind |-> "Apply", gen |-> gen']
          /\ session' = [session EXCEPT
               !.preTopology = @ /\ ~(session.verified /\ IsExclusive(session.request)),
               !.reapply = TRUE]
          /\ tasks' = Append(tasks, Task("Apply", "full"))
      BY <2>6 DEF IdentityReplaced, IdentityEvent, Notified, Free, ReapplyIdentity, DispatchApply
    <3>2. session'.reactivating = session.reactivating /\ worker'.kind # "Recovery"
      BY <2>1, <3>1 DEF SessionType
    <3> QED BY <3>1, <3>2, <2>LeaseStarts
  <2>7. CASE EventReopens \/ TickReconciles \/ TickRetries
    <3>1. /\ Idle /\ state = "EventLoop" /\ lease.armed /\ UNCHANGED <<lease, frame, world, session>>
          /\ reset' = [reset EXCEPT !.recovery = "none"]
          /\ tasks' = Append(tasks, Task("Recovery", "none"))
      BY <2>7 DEF EventReopens, TickReconciles, TickRetries, RecoveryEvent, Notified, Ticks,
         RestartRecovery, StartRecovery
    <3>2. reset'.completion = reset.completion
      BY <2>1, <3>1 DEF ResetType
    <3>3. ~WorkerActive
      BY <3>1 DEF FenceInv, ControlInv
    <3> QED BY <3>1, <3>2, <3>3, <2>LeaseStarts
  <2>8. CASE Time
    <3>1. /\ UNCHANGED <<lease, worker, tasks, frame, reset, world>>
          /\ session' = session \/ session' = [session EXCEPT !.recent = FALSE]
      BY <2>8 DEF Time, WindowCloses, QuietEnds, GraceEnds, notTime
    <3>2. session'.reactivating = session.reactivating
      BY <2>1, <3>1 DEF SessionType
    <3> QED BY <3>1, <3>2, <1>LeaseStays DEF Running
  <2>9. CASE Connection
    <3>1. /\ Running /\ UNCHANGED <<worker, tasks, frame, reset>>
          /\ world' = world \/ world' = [world EXCEPT !.running = FALSE]
          /\ session' = session \/ session' = [session EXCEPT !.reapply = FALSE]
          /\ \/ lease' = lease \/ lease' = [lease EXCEPT !.heartbeat = TRUE]
             \/ lease' = [lease EXCEPT !.heartbeat = FALSE]
      BY <2>9 DEF Connection, Connect, Retire, Stop, DisconnectSettles, DisconnectReverts,
         DisconnectIdle, Disconnects, Idle, CheckDelayed
    <3>2. /\ session'.reactivating = session.reactivating
          /\ lease'.armed = lease.armed /\ lease'.taskCreated = lease.taskCreated
      BY <2>1, <3>1 DEF SessionType, LeaseType
    <3>3. world'.task = world.task /\ world'.owed = world.owed
      BY <2>1, <3>1 DEF WorldType
    <3> QED BY <3>1, <3>2, <3>3 DEF LeaseInv, Owed, TaskKnown, ApplyOK
  <2> QED BY <2>2, <2>3, <2>4, <2>5, <2>6, <2>7, <2>8, <2>9 DEF DisplayEvent, Tick

<1> SUFFICES ASSUME TypeOK, FenceInv, LeaseInv, ~Throws, [Next]_vars PROVE LeaseInv'
  OBVIOUS
<1>1. CASE ClientApply \/ ClientDisarm \/ ClientReset
  <2>1. Handles /\ \E c : \/ HandleApply(c, deferred) \/ HandleDisarm(c, deferred)
                          \/ HandleReset(c, deferred)
    BY <1>1 DEF ClientApply, ClientDisarm, ClientReset, Deliver, Handles, Idle
  <2> QED BY <2>1, <1>LeaseHandlers
<1>2. CASE RevertDelivered
  <2>1. Handles /\ HandleRevert(Head(mail), deferred)
    BY <1>2 DEF RevertDelivered, Handles, Idle
  <2> QED BY <2>1, <1>LeaseHandlers
<1>3. CASE DrainRuns
  <2>1. /\ Handles /\ worker = NoWorker
        /\ \/ HandleApply(Head(deferred), Tail(deferred))
           \/ HandleRevert(Head(deferred), Tail(deferred))
           \/ HandleDisarm(Head(deferred), Tail(deferred))
           \/ HandleReset(Head(deferred), Tail(deferred)) \/ RepairStarted(Tail(deferred))
    BY <1>3 DEF DrainRuns, Draining, Handles, Free, WorkerActive
  <2> QED BY <2>1, <1>LeaseHandlers
<1>4. CASE MutationCompleted
  BY <1>4, <1>LeaseReports, <1>LeaseEnds DEF MutationCompleted
<1>5. CASE VerificationCompleted
  BY <1>5, <1>LeaseChecks
<1>6. CASE Continue
  BY <1>6, <1>LeaseFinishes, <1>LeaseContinues
<1>7. CASE UNCHANGED vars
  BY <1>7, <1>LeaseStays DEF vars, Running
<1> QED BY <1>1, <1>2, <1>3, <1>4, <1>5, <1>6, <1>7, <1>LeaseOthers, <1>LeaseWorks
        DEF Next, Client, Mailbox, Drain, Complete

LEMMA LeaseInit == Init => LeaseInv
<1> SUFFICES ASSUME Init PROVE LeaseInv
  OBVIOUS
<1>1. Applies(tasks) = {}
  BY SMTT(60) DEF Init, Applies
<1>2. ~world.owed /\ ~world.task
  BY DEF Init
<1>3. /\ worker.kind = "none" /\ ~session.reactivating /\ ~lease.taskCreated
      /\ frame.at = "idle" /\ ~reset.completion.held
  BY DEF Init, NoWorker, IdleFrame, NoneHeld
<1> QED BY <1>1, <1>2, <1>3 DEF LeaseInv, TaskKnown

\* When no display operation throws, the desktop the helper changed is always
\* protected, and its belief about the durable restore task is what Windows
\* has.  (An exception loses the report of what was touched.)
THEOREM LeaseKeptHolds ==
  ASSUME ~Throws
  PROVE  Spec => []LeaseKept
<1>1. Init => IInv /\ LeaseInv
  BY IInvInit, LeaseInit
<1>2. IInv /\ LeaseInv /\ [Next]_vars => (IInv /\ LeaseInv)'
  BY IInvStep, LeaseStep DEF IInv, TypeInv
<1>3. IInv /\ LeaseInv => LeaseKept
  <2> SUFFICES ASSUME IInv, LeaseInv, Idle
               PROVE  /\ world.owed => lease.armed \/ WorkerActive
                      /\ ~WorkerActive => (world.task <=> lease.taskCreated)
    BY DEF LeaseKept
  <2>1. ~WorkerActive => Applies(tasks) = {}
    BY LaneEmpty DEF IInv, TypeInv
  <2> QED BY <2>1 DEF LeaseInv, Owed, TaskKnown, Idle
<1> QED BY <1>1, <1>2, <1>3, PTL DEF Spec

----------------------------------------------------------------------------
(* Whose REVERT it is *)

\* A waiting REVERT of the live client has set the connection the restore was
\* requested on; the helper's own REVERT waits only while the session is not the
\* live client's, and none of that client's APPLYs waits behind the fence while
\* the mailbox holds one.
Reverts == {c \in Waiting(mail) \cup Waiting(deferred) : c.cmd = "Revert"}
OriginInv ==
  /\ \A c \in Reverts : c.epoch <= link.epoch
  /\ Connected =>
       /\ \A c \in Reverts : c.epoch = link.epoch => link.origin \in {0, link.epoch}
       /\ \A c \in Reverts : c.epoch = 0 => session.epoch # link.epoch
       /\ \A c \in Waiting(mail), d \in Waiting(deferred) :
            c.epoch = 0 /\ d.cmd = "Apply" => d.epoch # link.epoch

----------------------------------------------------------------------------
(* The heartbeat of a verified session *)

\* The session is verified, and its client is connected.
LiveSession == Running /\ Connected /\ session.verified /\ session.epoch = link.epoch

\* Unless its restore runs, such a session has its lease, and the lease its
\* heartbeat.  A state machine that waits has either given the lease up or
\* serves a physical display; then no repair of a virtual one waits.
Beats ==
  LiveSession /\ ~RestorePending =>
    /\ lease.armed \/ state = "Waiting"
    /\ lease.armed => lease.heartbeat
    /\ state = "Waiting" /\ HasVirtualLayout(session.request) => NoRepair(deferred)

\* A handler that decides about such a session's APPLY finds it in progress.
Decides == LiveSession /\ frame.at \in Busy => state = "InProgress"

HeartIInv == DutyInv /\ WaitInv /\ OriginInv /\ Beats /\ Decides

LEMMA HeartInit == Init => HeartIInv
<1> SUFFICES ASSUME Init PROVE OriginInv /\ Beats /\ Decides
  BY TicketInit DEF HeartIInv, TicketIInv
<1>1. ~session.verified /\ deferred = <<>> /\ link.epoch = 0 /\ ~Connected
  BY DEF Init, Connected
<1>2. Beats /\ Decides
  BY <1>1 DEF Beats, Decides, LiveSession
<1>3. \A c \in Waiting(mail) : c.epoch <= link.epoch
  <2>1. Intent("Revert", 0).epoch = 0
    BY DEF Intent
  <2>2. mail = <<>> \/ mail = <<Intent("Revert", 0)>>
    BY DEF Init
  <2> QED BY <1>1, <2>1, <2>2, SMTT(60) DEF Waiting
<1>4. Reverts \subseteq Waiting(mail)
  BY <1>1, NothingWaits DEF Reverts
<1> QED BY <1>1, <1>2, <1>3, <1>4 DEF OriginInv

\* Every step keeps the heartbeat of the live client's session.
LEMMA HeartStep == HeartIInv /\ [Next]_vars => HeartIInv'

\* Nothing joins the commands that wait, except what the queue takes over from
\* the mailbox or an identity repair.
<1>OriginKeeps.
    ASSUME OriginInv, LinkKept, session'.epoch = session.epoch,
           link'.origin \in {link.origin, 0},
           Waiting(mail') \subseteq Waiting(mail),
           \A d \in Waiting(deferred') :
             \/ d \in Waiting(deferred)
             \/ d \in Waiting(mail) /\ d.cmd = "Revert"
             \/ d.cmd \in {"Repair", "Disarm", "Reset"}
    PROVE  OriginInv'
  <2> USE <1>OriginKeeps
  <2>1. Reverts' \subseteq Reverts
    BY DEF Reverts
  <2>2. \A d \in Waiting(deferred') : d.cmd = "Apply" => d \in Waiting(deferred)
    OBVIOUS
  <2>3. link'.epoch = link.epoch /\ (Connected' <=> Connected)
    BY DEF LinkKept, Connected
  <2>4. link.origin \in {0, link.epoch} => link'.origin \in {0, link'.epoch}
    BY <2>3
  <2> QED BY <2>1, <2>2, <2>3, <2>4 DEF OriginInv

<1>OriginCalls.
    ASSUME IInv, WaitInv, OwnerInv, OriginInv, NEW c, NEW rest, Calls(c, rest)
    PROVE  OriginInv'
  <2> USE <1>OriginCalls
  <2>1. /\ TypeOK /\ session \in SessionType /\ c \in IntentType /\ link \in LinkType
        /\ deferred \in Seq(IntentType) /\ mail \in Seq(IntentType)
    BY DEF IInv, TypeInv, TypeOK, Calls
  <2>2. /\ Waiting(rest) \subseteq Waiting(deferred)
        /\ Free /\ c.cmd # "Reset" => \A d \in Waiting(rest) : d.cmd = "Reset"
        /\ \/ deferred' = rest
           \/ ~Free /\ Idle /\ deferred' = Enqueue(deferred, c)
    BY <2>1, CallMoves
  <2>3. /\ Waiting(mail') \subseteq Waiting(mail)
        /\ (c \in Waiting(mail) /\ c.cmd = "Revert") \/ c \in Waiting(deferred) \/ mail = <<>>
        /\ c.cmd = "Apply" => mail = <<>> \/ c \in Waiting(deferred)
        /\ Draining \/ mail = <<>> \/ c.cmd = "Revert"
    BY <2>1, TailWaiting DEF Calls, Source, Draining
  <2>4. Waiting(Enqueue(deferred, c)) \subseteq Waiting(deferred) \cup {c}
    BY <2>1, EnqueueWaiting
  <2>5. LinkKept /\ link'.epoch = link.epoch /\ link'.origin \in {link.origin, 0}
    <3>1. \/ link' = link \/ link' = [link EXCEPT !.origin = 0]
      BY DEF Calls, Runs, HandleApply, ApplyQueued, ApplyStarted, ApplyRejected, ApplyBegins,
         RepairStarted, HandleRevert, RevertJoined, RevertQueued, RevertDeclined, RevertNothing,
         RevertStarted, ExitProcess, HandleDisarm, DisarmDropped, DisarmQueued, DisarmStarted,
         HandleReset, ResetQueued, ResetStarted
    <3> QED BY <2>1, <3>1 DEF LinkType, LinkKept
  <2>6. Connected' <=> Connected
    BY <2>5 DEF LinkKept, Connected
  <2>7. CASE c.cmd = "Apply" /\ (ApplyStarted(c, rest) \/ ApplyRejected(c, rest))
    <3>1. Free /\ deferred' = rest /\ session'.epoch = c.epoch
      <4>1. ApplyBegins(c, rest)
        BY <2>7 DEF ApplyStarted, ApplyRejected
      <4> QED BY <4>1 DEF ApplyBegins
    <3>2. c.cmd # "Reset"
      BY <2>7
    <3>3. \A d \in Waiting(deferred') : d.cmd = "Reset"
      BY <2>2, <3>1, <3>2
    <3>4. /\ \A d \in Waiting(deferred') : d.cmd # "Revert" /\ d.cmd # "Apply"
          /\ Reverts' \subseteq Waiting(mail) /\ Reverts' \subseteq Reverts
      BY <2>3, <3>3 DEF Reverts
    <3>5. ASSUME Connected, NEW r \in Reverts', r.epoch = 0
          PROVE  c.epoch # link.epoch
      <4>1. r \in Waiting(mail) /\ mail # <<>>
        BY <3>4, <3>5, NothingWaits
      <4>2. c \in Waiting(deferred)
        BY <2>3, <2>7, <4>1
      <4> QED BY <2>7, <3>5, <4>1, <4>2 DEF OriginInv
    <3>6. link.origin \in {0, link.epoch} => link'.origin \in {0, link'.epoch}
      BY <2>5
    <3> QED BY <2>5, <2>6, <3>1, <3>4, <3>5, <3>6 DEF OriginInv
  <2>8. CASE c.cmd = "Apply" /\ ApplyQueued(c)
    <3>1. /\ deferred' = Enqueue(deferred, c) /\ UNCHANGED session /\ ~Draining
      BY <2>8 DEF ApplyQueued, Draining
    <3>2. mail = <<>> /\ Waiting(mail') = {}
      BY <2>3, <2>8, <3>1, NothingWaits
    <3>3. Reverts' \subseteq Reverts
      BY <2>4, <2>8, <3>1, <3>2 DEF Reverts
    <3>4. link.origin \in {0, link.epoch} => link'.origin \in {0, link'.epoch}
      BY <2>5
    <3> QED BY <2>5, <2>6, <3>1, <3>2, <3>3, <3>4 DEF OriginInv
  <2>9. CASE c.cmd # "Apply"
    <3>1. session'.epoch = session.epoch
      <4>1. \/ session' = session
            \/ \E a, b : \/ session' = [session EXCEPT !.preTopology = a, !.reapply = b]
                         \/ session' = [session EXCEPT !.reapply = a]
                         \/ session' = [session EXCEPT !.recent = FALSE]
                         \/ session' = [session EXCEPT !.recent = FALSE, !.reapply = a]
                         \/ session' = [session EXCEPT !.verified = FALSE, !.applySent = FALSE,
                              !.verificationSent = FALSE, !.recent = FALSE, !.reapply = FALSE]
        BY <2>9 DEF Calls, Runs, RepairStarted, ReapplyIdentity, HandleRevert, RevertJoined,
           RevertQueued, RevertDeclined, RevertNothing, RevertStarted, HandleDisarm, DisarmDropped,
           DisarmQueued, DisarmStarted, HandleReset, ResetQueued, ResetStarted
      <4> QED BY <2>1, <4>1 DEF SessionType
    <3>2. \A d \in Waiting(deferred') : d \in Waiting(deferred) \/ d = c
      BY <2>2, <2>4
    <3>3. \/ (c \in Waiting(mail) /\ c.cmd = "Revert") \/ c \in Waiting(deferred)
          \/ c.cmd \in {"Repair", "Disarm", "Reset"}
      BY <2>1, <2>3, <2>9, TailWaiting DEF Calls, Source, Draining
    <3> QED BY <2>3, <2>5, <3>1, <3>2, <3>3, <1>OriginKeeps
  <2> QED BY <2>7, <2>8, <2>9 DEF Calls, Runs, HandleApply

<1>OriginElsewhere.
    ASSUME IInv, OriginInv, Elsewhere
    PROVE  OriginInv'
  <2> USE <1>OriginElsewhere
  <2>1. /\ TypeOK /\ EpochInv /\ session \in SessionType /\ link \in LinkType
        /\ deferred \in Seq(IntentType) /\ mail \in Seq(IntentType)
    BY DEF IInv, TypeInv, TypeOK
  <2>2. /\ link.epoch \in Nat /\ session.epoch \in Nat
        /\ \A c \in Waiting(mail) \cup Waiting(deferred) : c.epoch \in Nat
    <3>1. Epochs \subseteq Nat
      BY ConstantsAssumption, SMTT(60) DEF Epochs
    <3>2. \A c \in Waiting(mail) \cup Waiting(deferred) : c \in IntentType
      BY <2>1, ElementOfSeq, LenProperties, SMTT(60) DEF Waiting
    <3>3. \A c \in Waiting(mail) \cup Waiting(deferred) : c.epoch \in Nat
      BY <3>1, <3>2 DEF IntentType
    <3> QED BY <2>1, <3>1, <3>3 DEF LinkType, SessionType
  <2>3. CASE ClientRevert
    <3>1. /\ Connected /\ mail = <<>> /\ UNCHANGED <<deferred, session>>
          /\ link' = [link EXCEPT !.origin = link.epoch]
      BY <2>3 DEF ClientRevert, Deliver
    <3>2. PICK t \in Tickets : mail' = <<[Intent("Revert", link.epoch) EXCEPT !.ticket = t]>>
      BY <2>3 DEF ClientRevert
    <3>3. PICK c : c = [Intent("Revert", link.epoch) EXCEPT !.ticket = t]
      OBVIOUS
    <3>4. c.epoch = link.epoch
      BY <3>3 DEF Intent
    <3>5. Waiting(mail') = {c}
      BY <3>2, <3>3, SMTT(60) DEF Waiting
    <3>6. link'.epoch = link.epoch /\ link'.conn = link.conn /\ link'.origin = link.epoch
      BY <2>1, <3>1 DEF LinkType
    <3>7. c.epoch # 0 /\ c.epoch <= link.epoch
      BY <2>1, <2>2, <3>1, <3>4, SMTT(60) DEF EpochInv, Connected
    <3>8. \A r \in Reverts' : r = c \/ r \in Reverts
      BY <3>1, <3>5 DEF Reverts
    <3> QED BY <3>1, <3>5, <3>6, <3>7, <3>8 DEF OriginInv
  <2>4. CASE Connect
    <3>1. /\ UNCHANGED <<deferred, session, mail>>
          /\ link' = [link EXCEPT !.epoch = @ + 1, !.conn = "live"]
      BY <2>4 DEF Connect
    <3>2. link'.epoch = link.epoch + 1
      BY <2>1, <3>1 DEF LinkType
    <3>3. Reverts' = Reverts /\ \A c \in Reverts : c.epoch \in Nat
      BY <2>2, <3>1 DEF Reverts
    <3>4. \A c \in Reverts : c.epoch <= link.epoch
      BY DEF OriginInv
    <3>5. session.epoch <= link.epoch
      BY <2>1 DEF EpochInv
    <3>6. \A d \in Waiting(deferred) : d.cmd = "Apply" => d.epoch <= link.epoch /\ d.epoch \in Nat
      BY <2>1, <2>2 DEF EpochInv, Replaces
    <3>7. /\ \A c \in Reverts : c.epoch <= link'.epoch /\ c.epoch # link'.epoch
          /\ session.epoch # link'.epoch
          /\ \A d \in Waiting(deferred) : d.cmd = "Apply" => d.epoch # link'.epoch
      BY <2>2, <3>2, <3>3, <3>4, <3>5, <3>6, SMTT(60)
    <3> QED BY <3>1, <3>3, <3>7 DEF OriginInv
  <2>5. CASE Retire
    <3>1. /\ UNCHANGED <<deferred, session, mail>>
          /\ link' = [link EXCEPT !.epoch = @ + 1, !.conn = "broken"]
      BY <2>5 DEF Retire
    <3>2. link'.epoch = link.epoch + 1 /\ link'.conn = "broken"
      BY <2>1, <3>1 DEF LinkType
    <3>3. Reverts' = Reverts /\ \A c \in Reverts : c.epoch \in Nat /\ c.epoch <= link.epoch
      BY <2>2, <3>1 DEF Reverts, OriginInv
    <3>4. \A c \in Reverts : c.epoch <= link'.epoch
      BY <2>2, <3>2, <3>3, SMTT(60)
    <3> QED BY <3>2, <3>3, <3>4 DEF OriginInv, Connected
  <2>6. CASE DisconnectSettles \/ DisconnectReverts \/ DisconnectIdle
    <3> DEFINE own == [Intent("Revert", 0) EXCEPT !.disconnect = TRUE]
    <3>1. /\ UNCHANGED deferred
          /\ mail' = LiveMail \/ mail' = Append(LiveMail, own)
          /\ link' = Unlinked \/ link' = [Unlinked EXCEPT !.origin = RetiredEpoch]
      BY <2>6 DEF DisconnectSettles, DisconnectReverts, DisconnectIdle, Disconnects
    <3>2. own \in IntentType /\ own.epoch = 0
      <4>1. Intent("Revert", 0) \in IntentType /\ Intent("Revert", 0).epoch = 0
        BY Constants, ConstantsAssumption, SMTT(60) DEF Intent, IntentType, Intents, Epochs
      <4> QED BY <4>1 DEF IntentType
    <3> HIDE DEF own
    <3>3. LiveMail \in Seq(IntentType) /\ Waiting(LiveMail) \subseteq Waiting(mail)
      BY <2>1, TaskPopped, TailWaiting DEF LiveMail
    <3>4. \A c \in Waiting(mail') : c \in Waiting(mail) \/ c = own
      BY <3>1, <3>2, <3>3, AppendWaiting
    <3>5. link'.epoch = link.epoch /\ link'.conn = "none"
      BY <2>1, <3>1 DEF Unlinked, LinkType
    <3>6. own.epoch <= link.epoch
      BY <2>2, <3>2, SMTT(60)
    <3>7. \A c \in Reverts' : c \in Reverts \/ c = own
      BY <3>1, <3>4 DEF Reverts
    <3> QED BY <3>5, <3>6, <3>7 DEF OriginInv, Connected
  <2>7. CASE ~ClientRevert /\ ~Connect /\ ~Retire
             /\ ~DisconnectSettles /\ ~DisconnectReverts /\ ~DisconnectIdle
    <3>1. /\ link' = link
          /\ mail' = mail \/ (mail # <<>> /\ mail' = Tail(mail))
          /\ \/ session' = session
             \/ \E a, b : \/ session' = [session EXCEPT !.reapply = a]
                          \/ session' = [session EXCEPT !.recent = FALSE]
                          \/ session' = [session EXCEPT !.reactivating = a]
                          \/ session' = [session EXCEPT !.preTopology = a, !.reapply = b]
      BY <2>7 DEF Elsewhere, ClientReactivate, ClientRefreshRate, ClientSnapshot, ClientPark,
         RevertStale, DrainDropsStale, DrainDropsRepair, DisplayEvent, BaselineReturned,
         IdentityUnchanged, IdentityQueued, IdentityReplaced, IdentityEvent, EventKept, EventReopens,
         RecoveryEvent, Notified, Tick, TickReconciles, TickDiscards, TickExpires, TickRetries, Ticks,
         Time, WindowCloses, QuietEnds, GraceEnds, notTime, Connection, Stop, Worker, WorkerGuards,
         WorkerTouches, RecoveryEnters, RecoveryTouches, fsmVars, TimerFires, ApplyReactivation,
         ReapplyIdentity, RefreshRateStarted, SnapshotTaken, Park
    <3>2. session'.epoch = session.epoch
      BY <2>1, <3>1 DEF SessionType
    <3>3. Waiting(mail') \subseteq Waiting(mail)
      BY <2>1, <3>1, TailWaiting
    <3>4. \A d \in Waiting(deferred') : d \in Waiting(deferred) \/ d.cmd = "Repair"
      <4>1. PICK r : r = Intent("Repair", session.epoch)
        OBVIOUS
      <4>2. r \in IntentType /\ r.cmd = "Repair"
        BY <2>1, <4>1, RepairIntent
      <4>3. Waiting(Enqueue(deferred, r)) \subseteq Waiting(deferred) \cup {r}
        BY <2>1, <4>2, EnqueueWaiting
      <4> QED BY <2>1, <4>1, <4>2, <4>3, ElsewhereMoves, TailWaiting
    <3>5. LinkKept /\ link'.origin \in {link.origin, 0}
      BY <3>1 DEF LinkKept
    <3> QED BY <3>2, <3>3, <3>4, <3>5, <1>OriginKeeps
  <2> QED BY <2>3, <2>4, <2>5, <2>6, <2>7

\* The completions and their continuations leave the commands that wait, the
\* connection and the session's owner alone.
<1>OriginOthers.
    ASSUME IInv, OriginInv, Complete \/ Continue
    PROVE  OriginInv'
  <2> USE <1>OriginOthers
  <2>1. TypeOK /\ CoreOK /\ EpochInv /\ link \in LinkType
    BY DEF IInv, TypeInv, TypeOK, CoreOK
  <2>2. Kept /\ EpochQuiet /\ UNCHANGED deferred
    BY <2>1, OthersKeepQueue, MutationTypes, VerificationTypes, ContinueTypes, QuietMutations,
       QuietVerifications, QuietContinue DEF Complete
  <2>3. link' = link \/ link' = [link EXCEPT !.origin = 0]
    <3>1. CASE MutationCompleted
      BY <3>1 DEF MutationCompleted, StaleApplyCompleted, ReactivationCompleted, ApplyCompleted,
         ResetCompleted, RefreshRateCompleted, RecoveryCancelled, RecoverySucceeded,
         RecoveryFailed, ValidationCancelled, ValidationFailed, ValidationSucceeded
    <3>2. CASE VerificationCompleted
      BY <3>2 DEF VerificationCompleted, VerificationIgnored, SettlementHolds, SettlementLost,
         SettlementRechecks, SettlementRepairs, BaselineVerified, InitialVerified,
         FailedUnderSettlement, BaselineRepairStarted, BaselineRepairFailed, InitialRetried,
         InitialFailed, FailedVerification, Verified
    <3>3. CASE Continue
      BY <3>3 DEF Continue, FinishApply, Finish, RolledBack, AfterReturn, AfterRollback,
         AfterSuperseded, DecideBaselineFailed, DecideVerify, DecideSettling, DecideFailed,
         AfterSettling, AfterLastRepair, AfterLastFailure, ConcludeHdr, ConcludeFailed, AfterReset,
         ResetExits, ResetResumes, AfterRestored, AfterRestoredFollowup, ExitProcess
    <3> QED BY <3>1, <3>2, <3>3 DEF Complete
  <2>4. link'.origin \in {link.origin, 0}
    BY <2>1, <2>3 DEF LinkType
  <2> QED BY <2>2, <2>4, <1>OriginKeeps DEF Kept, EpochQuiet

<1>LiveUnsettled.
    ASSUME TypeOK, EpochInv, Connected, session.epoch = link.epoch
    PROVE  ~settle.requested
  <2> USE <1>LiveUnsettled
  <2>1. link.epoch \in Nat
    BY ConstantsAssumption, SMTT(60) DEF TypeOK, LinkType, Epochs
  <2> QED BY <2>1, SMTT(60) DEF EpochInv, Older, Connected

<1>BeatsKeeps.
    ASSUME Beats, LiveSession' /\ ~RestorePending' => LiveSession /\ ~RestorePending,
           lease'.armed = lease.armed, lease'.heartbeat = lease.heartbeat,
           state' = state \/ (state # "Waiting" /\ state' # "Waiting"),
           HasVirtualLayout(session'.request) => HasVirtualLayout(session.request),
           state # "Waiting" \/ (NoRepair(deferred) => NoRepair(deferred'))
    PROVE  Beats'
  BY <1>BeatsKeeps DEF Beats

\* What a command's handler leaves of a live session.
<1>BeatsCalls.
    ASSUME IInv, WaitInv, OwnerInv, OriginInv, Beats, NEW c, NEW rest, Calls(c, rest)
    PROVE  Beats'
  <2> USE <1>BeatsCalls
  <2>1. /\ TypeOK /\ session \in SessionType /\ c \in IntentType /\ link \in LinkType
        /\ deferred \in Seq(IntentType) /\ mail \in Seq(IntentType) /\ lease \in LeaseType
    BY DEF IInv, TypeInv, TypeOK, Calls
  <2>2. /\ Waiting(rest) \subseteq Waiting(deferred) /\ Running
        /\ Free /\ c.cmd # "Reset" => \A d \in Waiting(rest) : d.cmd = "Reset"
        /\ \/ deferred' = rest
           \/ ~Free /\ Idle /\ deferred' = Enqueue(deferred, c) /\ c.cmd # "Repair"
    BY <2>1, CallMoves
  <2>3. NoRepair(deferred) => NoRepair(deferred')
    <3>1. Waiting(Enqueue(deferred, c)) \subseteq Waiting(deferred) \cup {c}
      BY <2>1, EnqueueWaiting
    <3> QED BY <2>2, <3>1 DEF NoRepair
  <2>4. CASE c.cmd = "Apply" /\ (ApplyStarted(c, rest) \/ ApplyRejected(c, rest))
    <3>1. ApplyBegins(c, rest)
      BY <2>4 DEF ApplyStarted, ApplyRejected
    <3>2. ~session'.verified
      BY <3>1 DEF ApplyBegins
    <3> QED BY <3>2 DEF Beats, LiveSession
  <2>5. CASE c.cmd = "Disarm" /\ DisarmStarted(c, rest)
    <3>1. session' = [session EXCEPT !.verified = FALSE, !.applySent = FALSE,
                        !.verificationSent = FALSE, !.recent = FALSE, !.reapply = FALSE]
      BY <2>5 DEF DisarmStarted
    <3>2. ~session'.verified
      BY <2>1, <3>1 DEF SessionType
    <3> QED BY <3>2 DEF Beats, LiveSession
  <2>6. CASE c.cmd = "Revert" /\ RevertStarted(c, rest)
    BY <2>6 DEF RevertStarted, StartRecovery, Beats, RestorePending
  <2>7. CASE c.cmd = "Revert" /\ RevertDeclined(c, rest)
    <3>1. Free /\ deferred' = rest /\ state' = "Waiting" /\ lease' = Cleared(lease)
      BY <2>7 DEF RevertDeclined, RevertRuns, ClearRecoveryState
    <3>2. ~lease'.armed
      BY <2>1, <3>1 DEF Cleared, LeaseType
    <3>3. c.cmd # "Reset"
      BY <2>7
    <3>4. NoRepair(deferred')
      BY <2>2, <3>1, <3>3 DEF NoRepair
    <3> QED BY <3>1, <3>2, <3>4 DEF Beats
  <2>8. CASE c.cmd = "Revert" /\ RevertNothing(c, rest)
    <3>1. CASE StaysAlive(0)
      <4>1. /\ link' = [link EXCEPT !.origin = 0] /\ session' = [session EXCEPT !.recent = FALSE]
        BY <2>8, <3>1 DEF RevertNothing, ExitProcess
      <4>2. /\ link'.conn = link.conn /\ link'.epoch = link.epoch
            /\ session'.epoch = session.epoch
        BY <2>1, <4>1 DEF LinkType, SessionType
      <4>3. link.origin # 0 /\ link.origin # link.epoch
        <5>1. link.epoch \in Nat /\ link.origin \in Nat
          BY <2>1, ConstantsAssumption, SMTT(60) DEF LinkType, Epochs
        <5> QED BY <3>1, <5>1, SMTT(60) DEF StaysAlive
      <4>4. c \in Reverts
        BY <2>1, <2>8, TailWaiting DEF Calls, Source, Draining, Reverts
      <4>5. c.epoch = 0 \/ c.epoch = link.epoch
        BY DEF Calls, StaleEpoch
      <4>6. Connected => session.epoch # link.epoch
        BY <4>3, <4>4, <4>5 DEF OriginInv
      <4> QED BY <4>2, <4>6 DEF Beats, LiveSession, Connected
    <3>2. CASE ~StaysAlive(0)
      <4>1. world' = [WorldCleared EXCEPT !.running = FALSE]
        BY <2>8, <3>2 DEF RevertNothing, ExitProcess
      <4>2. ~Running'
        BY <2>1, <4>1 DEF TypeOK, WorldType, WorldCleared, Running
      <4> QED BY <4>2 DEF Beats, LiveSession
    <3> QED BY <3>1, <3>2
  <2>9. CASE c.cmd = "Repair" /\ RepairStarted(rest)
    <3>1. c \in Waiting(deferred)
      BY <2>1, <2>9, TailWaiting DEF Calls, Source, Draining
    <3>2. ~NoRepair(deferred) /\ ~RestorePending
      BY <2>9, <3>1 DEF NoRepair, WaitInv
    <3>3. /\ HasVirtualLayout(session.request) /\ state' = "InProgress"
          /\ UNCHANGED <<lease, link, world>>
          /\ \E a, b : session' = [session EXCEPT !.preTopology = a, !.reapply = b]
      BY <2>9 DEF RepairStarted, ReapplyIdentity
    <3>4. session'.verified = session.verified /\ session'.epoch = session.epoch
      BY <2>1, <3>3 DEF SessionType
    <3>5. LiveSession' => LiveSession /\ lease.armed /\ lease.heartbeat
      BY <2>2, <3>2, <3>3, <3>4 DEF Beats, LiveSession, Connected, Running
    <3> QED BY <3>3, <3>5 DEF Beats
  <2>10. CASE \/ ApplyQueued(c) \/ RevertJoined(c, rest) \/ RevertQueued(c)
              \/ DisarmDropped(c, rest) \/ DisarmQueued(c) \/ ResetQueued(c)
              \/ ResetStarted(c, rest)
    <3>1. /\ UNCHANGED <<state, session, link, world>>
          /\ \/ lease' = lease \/ \E a : lease' = [lease EXCEPT !.explicit = a]
      BY <2>10 DEF ApplyQueued, RevertJoined, RevertQueued, RevertLease, DisarmDropped,
         DisarmQueued, ResetQueued, ResetStarted
    <3>2. lease'.armed = lease.armed /\ lease'.heartbeat = lease.heartbeat
      BY <2>1, <3>1 DEF LeaseType
    <3>3. LiveSession' /\ ~RestorePending' => LiveSession /\ ~RestorePending
      BY <3>1 DEF LiveSession, RestorePending, Running, Connected
    <3> QED BY <2>3, <3>1, <3>2, <3>3, <1>BeatsKeeps
  <2> QED BY <2>4, <2>5, <2>6, <2>7, <2>8, <2>9, <2>10 DEF Calls, Runs, HandleApply, HandleRevert,
          HandleDisarm, HandleReset

\* A mutation or RESET reports.
<1>BeatsMutations.
    ASSUME IInv, WaitInv, Beats, MutationCompleted
    PROVE  Beats'
  <2> USE <1>BeatsMutations
  <2>1. /\ TypeOK /\ CoreOK /\ EpochInv /\ FenceInv /\ session \in SessionType
        /\ link \in LinkType /\ lease \in LeaseType
    BY DEF IInv, TypeInv, TypeOK, CoreOK
  <2>2. /\ Kept /\ LinkKept /\ UNCHANGED deferred
    BY <2>1, OthersKeepQueue, MutationTypes DEF Complete, Kept
  <2>3. /\ \/ session' = session
           \/ \E a : \/ session' = [session EXCEPT !.reapply = a]
                     \/ session' = [session EXCEPT !.reactivating = a]
        /\ Running
    BY DEF MutationCompleted, StaleApplyCompleted, ReactivationCompleted, ApplyCompleted,
       ResetCompleted, RefreshRateCompleted, RecoveryCancelled, RecoverySucceeded, RecoveryFailed,
       ValidationCancelled, ValidationFailed, ValidationSucceeded, Completes, Idle
  <2>4. LiveSession' => LiveSession
    <3>1. /\ session'.verified = session.verified /\ session'.epoch = session.epoch
      BY <2>1, <2>3 DEF SessionType
    <3> QED BY <2>2, <2>3, <3>1 DEF LiveSession, Connected, LinkKept
  <2>5. HasVirtualLayout(session'.request) => HasVirtualLayout(session.request)
    <3>1. session'.request = session.request
      BY <2>1, <2>3 DEF SessionType
    <3> QED BY <3>1
  <2>6. CASE StaleApplyCompleted
    <3>1. UNCHANGED state
      BY <2>6 DEF StaleApplyCompleted
    <3>2. \/ lease'.armed /\ lease'.heartbeat
          \/ lease'.armed = lease.armed /\ lease'.heartbeat = lease.heartbeat
      <4>1. PICK d \in Outcomes(Front), created \in BOOLEAN, drop \in BOOLEAN :
              lease' = IF d.changed
                       THEN [Activated([lease EXCEPT !.staged = @ \/ d.staged,
                                                     !.taskCreated = @ \/ d.armed])
                              EXCEPT !.taskCreated = @ \/ created,
                                !.unconfirmed = TRUE, !.heartbeat = TRUE]
                       ELSE [[lease EXCEPT !.staged = @ \/ d.staged,
                                           !.taskCreated = @ \/ d.armed]
                              EXCEPT !.taskCreated = @ /\ ~drop]
        BY <2>6 DEF StaleApplyCompleted
      <4>2. PICK l : l = [lease EXCEPT !.staged = @ \/ d.staged, !.taskCreated = @ \/ d.armed]
        OBVIOUS
      <4>3. l.armed = lease.armed /\ l.heartbeat = lease.heartbeat /\ DOMAIN l = DOMAIN lease
        BY <2>1, <4>2 DEF LeaseType
      <4>4. \/ lease' = [Activated(l) EXCEPT !.taskCreated = @ \/ created,
                                !.unconfirmed = TRUE, !.heartbeat = TRUE]
            \/ lease' = [l EXCEPT !.taskCreated = @ /\ ~drop]
        BY <4>1, <4>2
      <4>5. "armed" \in DOMAIN l /\ "heartbeat" \in DOMAIN l
        BY <2>1, <4>3 DEF LeaseType
      <4> QED BY <4>3, <4>4, <4>5 DEF Activated
    <3> QED BY <2>2, <2>4, <2>5, <3>1, <3>2 DEF Beats, RestorePending, NoRepair
  <2>7. CASE RecoveryCancelled \/ ValidationCancelled \/ ValidationSucceeded
    <3>1. /\ Idle /\ tasks # <<>> /\ IsMutation(Front) /\ KindOf(Front) = "Recovery"
      BY <2>7 DEF RecoveryCancelled, ValidationCancelled, ValidationSucceeded, Completes, HasTask,
         IsMutation, KindOf
    <3>2. worker.kind = "Recovery"
      BY <2>1, <3>1, MutationFront, SMTT(60)
    <3>3. RestorePending /\ NoRepair(deferred)
      BY <3>2 DEF WaitInv, RestorePending, RecoveryInProgress
    <3>4. CASE ValidationSucceeded
      <4>1. state' = "Waiting" /\ ~lease'.armed
        BY <3>4 DEF ValidationSucceeded
      <4> QED BY <2>2, <3>3, <4>1 DEF Beats
    <3>5. CASE RecoveryCancelled \/ ValidationCancelled
      <4>1. UNCHANGED state
        BY <3>5 DEF RecoveryCancelled, ValidationCancelled
      <4> QED BY <3>3, <4>1 DEF Beats, RestorePending
    <3> QED BY <2>7, <3>4, <3>5
  <2>8. CASE RecoverySucceeded \/ RecoveryFailed \/ ValidationFailed
    BY <2>8 DEF RecoverySucceeded, RecoveryFailed, ValidationFailed, Beats, RestorePending
  <2>9. CASE ReactivationCompleted \/ ApplyCompleted \/ ResetCompleted \/ RefreshRateCompleted
    <3>1. /\ lease' = lease \/ \E a : lease' = [lease EXCEPT !.staged = a]
          /\ UNCHANGED state \/ settle.requested
      BY <2>9 DEF ReactivationCompleted, ApplyCompleted, ResetCompleted, RefreshRateCompleted
    <3>2. lease'.armed = lease.armed /\ lease'.heartbeat = lease.heartbeat
      BY <2>1, <3>1 DEF LeaseType
    <3>3. LiveSession' => UNCHANGED state
      BY <2>1, <2>4, <3>1, <1>LiveUnsettled DEF LiveSession
    <3> QED BY <2>2, <2>4, <2>5, <3>2, <3>3 DEF Beats, RestorePending, NoRepair
  <2> QED BY <2>6, <2>7, <2>8, <2>9 DEF MutationCompleted

\* A verification reports.
<1>BeatsChecks.
    ASSUME IInv, Beats, VerificationCompleted
    PROVE  Beats'
  <2> USE <1>BeatsChecks
  <2>1. /\ TypeOK /\ CoreOK /\ EpochInv /\ FenceInv /\ session \in SessionType
        /\ link \in LinkType /\ lease \in LeaseType
    BY DEF IInv, TypeInv, TypeOK, CoreOK
  <2>2. /\ LinkKept /\ UNCHANGED deferred /\ session'.epoch = session.epoch
    BY <2>1, OthersKeepQueue, VerificationTypes, QuietVerifications DEF Complete, Kept, EpochQuiet
  <2>3. CASE VerificationIgnored
    <3>1. UNCHANGED <<state, session, lease, deferred, link, world>>
      BY <2>3 DEF VerificationIgnored
    <3> QED BY <3>1 DEF Beats, LiveSession, Running, Connected, RestorePending, NoRepair
  <2>4. CASE ~VerificationIgnored
    <3>1. Completes("Verification") /\ Live(Front) /\ Running
      BY <2>4 DEF VerificationCompleted, SettlementHolds, SettlementLost, SettlementRechecks,
         SettlementRepairs, BaselineVerified, InitialVerified, FailedUnderSettlement,
         BaselineRepairStarted, BaselineRepairFailed, InitialRetried, InitialFailed, Verified,
         FailedVerification, Completes, Idle
    <3>2. state = "Verification" /\ (IsTransient(Front) => settle.requested)
      BY <2>1, <3>1, CheckFront
    <3> SUFFICES ASSUME LiveSession', ~RestorePending'
                 PROVE  /\ lease'.armed /\ lease'.heartbeat
                        /\ state' = "Waiting" => ~HasVirtualLayout(session'.request)
      BY DEF Beats
    <3>3. Connected /\ session.epoch = link.epoch /\ session'.verified
      BY <2>2 DEF LiveSession, Connected, LinkKept
    <3>4. ~settle.requested
      BY <2>1, <3>3, <1>LiveUnsettled
    <3>5. session.verified => lease.armed /\ lease.heartbeat
      BY <3>1, <3>2, <3>3 DEF Beats, LiveSession, RestorePending
    <3>6. ~SettlementHolds /\ ~SettlementLost /\ ~SettlementRechecks /\ ~SettlementRepairs
          /\ ~FailedUnderSettlement
      BY <3>2, <3>4 DEF SettlementHolds, SettlementLost, SettlementRechecks, SettlementRepairs,
         FailedUnderSettlement, Verified, IsTransient
    <3>7. SteadyState = "Waiting" => ~HasVirtualLayout(session.request)
      BY DEF SteadyState
    <3>8. CASE BaselineVerified \/ BaselineRepairFailed
      <4>1. UNCHANGED <<session, lease>> /\ state' = SteadyState
        BY <3>8 DEF BaselineVerified, BaselineRepairFailed
      <4> QED BY <3>3, <3>5, <3>7, <4>1
    <3>9. CASE BaselineRepairStarted \/ InitialRetried
      <4>1. /\ UNCHANGED lease /\ state' = "InProgress"
            /\ session' = [session EXCEPT !.reapply = FALSE]
        BY <3>9 DEF BaselineRepairStarted, InitialRetried
      <4>2. session'.verified = session.verified
        BY <2>1, <4>1 DEF SessionType
      <4> QED BY <3>3, <3>5, <4>1, <4>2
    <3>10. CASE InitialVerified
      <4>1. state' = SteadyState
        BY <3>4, <3>10 DEF InitialVerified
      <4>2. session'.request = session.request
        BY <2>1, <3>10 DEF InitialVerified, SessionType
      <4>3. CASE session.verificationSent
        <5>1. UNCHANGED <<session, lease>>
          BY <3>10, <4>3 DEF InitialVerified
        <5> QED BY <3>3, <3>5, <3>7, <4>1, <5>1
      <4>4. CASE ~session.verificationSent
        <5>1. lease' = [Activated(lease) EXCEPT !.unconfirmed = FALSE,
                          !.heartbeat = @ \/ ~settle.requested]
          BY <3>10, <4>4 DEF InitialVerified
        <5>2. lease'.armed
          BY <2>1, <5>1 DEF Activated, LeaseType
        <5>3. lease'.heartbeat
          BY <2>1, <3>4, <5>1 DEF Activated, LeaseType
        <5> QED BY <3>7, <4>1, <4>2, <5>2, <5>3
      <4> QED BY <4>3, <4>4
    <3>11. CASE InitialFailed
      <4>1. CASE session.verified
        <5>1. UNCHANGED <<session, lease>> /\ state' = SteadyState
          BY <3>11, <4>1 DEF InitialFailed
        <5> QED BY <3>3, <3>5, <3>7, <5>1
      <4>2. CASE ~session.verified
        <5>1. session' = [session EXCEPT !.applySent = TRUE, !.verificationSent = TRUE]
          BY <3>11, <4>2 DEF InitialFailed, FailedReplies
        <5>2. session'.verified = session.verified
          BY <2>1, <5>1 DEF SessionType
        <5> QED BY <3>3, <4>2, <5>2
      <4> QED BY <4>1, <4>2
    <3> QED BY <2>4, <3>6, <3>8, <3>9, <3>10, <3>11 DEF VerificationCompleted
  <2> QED BY <2>3, <2>4

\* A handler goes on after its drain call.
<1>BeatsContinues.
    ASSUME IInv, Beats, Decides, Continue
    PROVE  Beats'
  <2> USE <1>BeatsContinues
  <2>1. /\ TypeOK /\ CoreOK /\ EpochInv /\ FenceInv /\ session \in SessionType
        /\ link \in LinkType /\ lease \in LeaseType
    BY DEF IInv, TypeInv, TypeOK, CoreOK
  <2>2. /\ LinkKept /\ UNCHANGED deferred /\ session'.epoch = session.epoch
    BY <2>1, OthersKeepQueue, ContinueTypes, QuietContinue DEF Kept, EpochQuiet
  <2> SUFFICES ASSUME LiveSession', ~RestorePending'
               PROVE  Beats'
    BY DEF Beats
  <2>3. Connected /\ session.epoch = link.epoch /\ session'.verified
    BY <2>2 DEF LiveSession, Connected, LinkKept
  <2>4. ~settle.requested /\ ~SettlesNow /\ ~ResumesSettlement
    BY <2>1, <2>3, <1>LiveUnsettled DEF SettlesNow, ResumesSettlement
  <2>5. Running
    BY DEF Continue, FinishApply, Finish, RolledBack, AfterReturn, AfterRollback, AfterSuperseded,
       DecideBaselineFailed, DecideVerify, DecideSettling, DecideFailed, AfterSettling,
       AfterLastRepair, AfterLastFailure, ConcludeHdr, ConcludeFailed, AfterReset, ResetExits,
       ResetResumes, AfterRestored, AfterRestoredFollowup, At, After, DrainedOut
  <2>6. ASSUME session'.verified = session.verified, frame.at \in Busy
        PROVE  LiveSession /\ state = "InProgress" /\ lease.armed /\ lease.heartbeat
    <3>1. LiveSession
      BY <2>3, <2>5, <2>6 DEF LiveSession
    <3>2. state = "InProgress"
      BY <2>6, <3>1 DEF Decides
    <3> QED BY <3>1, <3>2 DEF Beats, RestorePending
  <2>7. SteadyState = "Waiting" => ~HasVirtualLayout(session.request)
    BY DEF SteadyState
  <2>8. CASE Finish
    <3>1. /\ UNCHANGED state /\ frame.at \in Busy
          /\ \E a : session' = [session EXCEPT !.preTopology = a]
      BY <2>8 DEF Finish, At, Busy
    <3>2. session'.verified = session.verified
      BY <2>1, <3>1 DEF SessionType
    <3>3. lease'.armed /\ lease'.heartbeat
      BY <2>1, <2>6, <2>8, <3>1, <3>2, FinishLease
    <3>4. state' # "Waiting"
      BY <2>6, <3>1, <3>2
    <3> QED BY <3>3, <3>4 DEF Beats
  <2>9. CASE RolledBack \/ ConcludeFailed
    <3>1. /\ session' = [session EXCEPT !.applySent = TRUE, !.verificationSent = TRUE]
          /\ frame.at \in Busy
          /\ state' = IF session.verified THEN SteadyState ELSE "Waiting"
          /\ \E a : \/ lease' = [lease EXCEPT !.heartbeat = HeartbeatNeeded(lease)]
                    \/ lease' = [lease EXCEPT !.heartbeat = HeartbeatNeeded(lease),
                                              !.taskCreated = a]
      BY <2>9 DEF RolledBack, ConcludeFailed, FailedReplies, At, Busy
    <3>2. session'.verified = session.verified /\ session'.request = session.request
      BY <2>1, <3>1 DEF SessionType
    <3>3. lease.armed /\ lease.heartbeat
      BY <2>6, <3>1, <3>2
    <3>4. lease'.armed /\ lease'.heartbeat
      BY <2>1, <3>1, <3>3 DEF HeartbeatNeeded, LeaseType
    <3>5. state' = SteadyState
      BY <2>3, <3>1, <3>2
    <3> QED BY <2>7, <3>2, <3>4, <3>5 DEF Beats
  <2>10. CASE DecideBaselineFailed \/ DecideVerify
    <3>1. /\ UNCHANGED <<session, lease>> /\ frame.at \in Busy
          /\ state' \in {SteadyState, "Verification"}
      BY <2>10 DEF DecideBaselineFailed, DecideVerify, At, Busy
    <3>2. lease.armed /\ lease.heartbeat
      BY <2>6, <3>1
    <3> QED BY <2>7, <3>1, <3>2 DEF Beats
  <2>11. CASE ConcludeHdr
    <3>1. /\ session' = [session EXCEPT !.hdrTried = TRUE, !.request.hdr = FALSE]
          /\ UNCHANGED lease /\ state' = "InProgress" /\ frame.at \in Busy
      BY <2>11 DEF ConcludeHdr, At, Busy
    <3>2. session'.verified = session.verified
      BY <2>1, <3>1 DEF SessionType
    <3>3. lease.armed /\ lease.heartbeat
      BY <2>6, <3>1, <3>2
    <3> QED BY <3>1, <3>3 DEF Beats
  <2>12. CASE \/ AfterReturn \/ AfterRollback \/ AfterSuperseded \/ DecideSettling \/ DecideFailed
              \/ AfterSettling \/ AfterLastRepair \/ AfterLastFailure \/ AfterReset
              \/ ResetExits \/ ResetResumes \/ AfterRestored \/ AfterRestoredFollowup
    <3>1. UNCHANGED <<state, session, lease>>
      BY <2>4, <2>12 DEF AfterReturn, AfterRollback, AfterSuperseded, DecideSettling, DecideFailed,
         AfterSettling, AfterLastRepair, AfterLastFailure, AfterReset, ResetExits, ResetResumes,
         AfterRestored, AfterRestoredFollowup
    <3>2. LiveSession /\ ~RestorePending
      BY <2>3, <2>5, <3>1 DEF LiveSession, RestorePending
    <3> QED BY <2>2, <3>1, <3>2 DEF Beats, NoRepair
  <2> QED BY <2>8, <2>9, <2>10, <2>11, <2>12 DEF Continue, FinishApply

<1>BeatsElsewhere.
    ASSUME IInv, Beats, Elsewhere
    PROVE  Beats'
  <2> USE <1>BeatsElsewhere
  <2>1. /\ TypeOK /\ EpochInv /\ session \in SessionType /\ link \in LinkType
        /\ lease \in LeaseType /\ deferred \in Seq(IntentType) /\ world \in WorldType
    BY DEF IInv, TypeInv, TypeOK
  <2>2. CASE Connect
    <3>1. UNCHANGED session /\ link' = [link EXCEPT !.epoch = @ + 1, !.conn = "live"]
      BY <2>2 DEF Connect
    <3>2. link'.epoch = link.epoch + 1
      BY <2>1, <3>1 DEF LinkType
    <3>3. link.epoch \in Nat /\ session.epoch \in Nat /\ session.epoch <= link.epoch
      BY <2>1, ConstantsAssumption, SMTT(60) DEF LinkType, SessionType, Epochs, EpochInv
    <3>4. session'.epoch # link'.epoch
      BY <3>1, <3>2, <3>3, SMTT(60)
    <3> QED BY <3>4 DEF Beats, LiveSession
  <2>3. CASE Retire \/ Stop \/ DisconnectSettles \/ DisconnectReverts \/ DisconnectIdle
    <3>1. \/ link' = [link EXCEPT !.epoch = @ + 1, !.conn = "broken"]
          \/ world' = [world EXCEPT !.running = FALSE]
          \/ link' = Unlinked \/ link' = [Unlinked EXCEPT !.origin = RetiredEpoch]
      BY <2>3 DEF Retire, Stop, DisconnectSettles, DisconnectReverts, DisconnectIdle
    <3>2. ~Running' \/ link'.conn # "live"
      <4>1. CASE link' = [link EXCEPT !.epoch = @ + 1, !.conn = "broken"]
        BY <2>1, <4>1 DEF LinkType
      <4>2. CASE world' = [world EXCEPT !.running = FALSE]
        BY <2>1, <4>2 DEF WorldType, Running
      <4>3. PICK l : l = [link EXCEPT !.conn = "none"]
        OBVIOUS
      <4>4. l \in LinkType /\ l.conn = "none"
        BY <2>1, <4>3 DEF LinkType
      <4>5. CASE link' = l \/ link' = [l EXCEPT !.origin = RetiredEpoch]
        BY <4>4, <4>5 DEF LinkType
      <4> QED BY <3>1, <4>1, <4>2, <4>3, <4>5 DEF Unlinked
    <3> QED BY <3>2 DEF Beats, LiveSession, Connected
  <2>4. CASE EventReopens \/ TickReconciles \/ TickRetries
    BY <2>4 DEF EventReopens, TickReconciles, TickRetries, RestartRecovery, StartRecovery, Beats,
       RestorePending
  <2>5. CASE \/ ClientReactivate \/ ClientRevert \/ ClientRefreshRate \/ ClientSnapshot
             \/ ClientPark \/ RevertStale \/ DrainDropsStale \/ DrainDropsRepair
             \/ BaselineReturned \/ IdentityUnchanged \/ IdentityQueued \/ IdentityReplaced
             \/ EventKept \/ TickDiscards \/ TickExpires \/ Time \/ Worker
    <3>1. /\ link' = link \/ link' = [link EXCEPT !.origin = link.epoch]
          /\ lease' = lease \/ lease' = [lease EXCEPT !.attempted = TRUE]
          /\ \/ session' = session
             \/ \E a, b : \/ session' = [session EXCEPT !.reapply = a]
                          \/ session' = [session EXCEPT !.recent = FALSE]
                          \/ session' = [session EXCEPT !.reactivating = a]
                          \/ session' = [session EXCEPT !.preTopology = a, !.reapply = b]
          /\ Running
          /\ state' = state
             \/ (state \in SessionStates /\ state' \in {"Verification", "InProgress"})
      BY <2>5 DEF ClientReactivate, ClientRevert, ClientRefreshRate, ClientSnapshot, ClientPark,
         Deliver, RevertStale, DrainDropsStale, DrainDropsRepair, Draining, BaselineReturned,
         IdentityUnchanged, IdentityQueued, IdentityReplaced, IdentityEvent, EventKept,
         RecoveryEvent, Notified, TickDiscards, TickExpires, Ticks, Idle, SessionStates,
         Time, WindowCloses, QuietEnds, GraceEnds, notTime, Worker, WorkerGuards, WorkerTouches,
         RecoveryEnters, RecoveryTouches, fsmVars, TimerFires, HasTask, ApplyReactivation,
         ReapplyIdentity, RefreshRateStarted, SnapshotTaken, Park
    <3>2. /\ session'.verified = session.verified /\ session'.epoch = session.epoch
          /\ session'.request = session.request
      BY <2>1, <3>1 DEF SessionType
    <3>3. link'.conn = link.conn /\ link'.epoch = link.epoch
      BY <2>1, <3>1 DEF LinkType
    <3>4. lease'.armed = lease.armed /\ lease'.heartbeat = lease.heartbeat
      BY <2>1, <3>1 DEF LeaseType
    <3>5. LiveSession' /\ ~RestorePending' => LiveSession /\ ~RestorePending
      BY <3>1, <3>2, <3>3 DEF LiveSession, Connected, RestorePending, SessionStates
    <3>6. state' = state \/ (state # "Waiting" /\ state' # "Waiting")
      BY <3>1 DEF SessionStates
    <3>7. state # "Waiting" \/ (NoRepair(deferred) => NoRepair(deferred'))
      <4>1. \/ deferred' = deferred
            \/ deferred # <<>> /\ deferred' = Tail(deferred)
            \/ state \in SessionStates
        BY <2>1, ElsewhereMoves
      <4> QED BY <2>1, <4>1, TailWaiting DEF NoRepair, SessionStates
    <3> QED BY <3>2, <3>4, <3>5, <3>6, <3>7, <1>BeatsKeeps
  <2> QED BY <2>2, <2>3, <2>4, <2>5 DEF Elsewhere, DisplayEvent, Tick, Connection

\* Where a handler of a completion stands when the step leaves it there.
<1>DecidesStep.
    ASSUME IInv, WaitInv, OwnerInv, Decides, [Next]_vars
    PROVE  Decides'
  <2> USE <1>DecidesStep
  <2>1. /\ TypeOK /\ CoreOK /\ MailInv /\ EpochInv /\ FenceInv /\ session \in SessionType
        /\ link \in LinkType /\ deferred \in Seq(IntentType) /\ frame \in FrameType
        /\ world \in WorldType
    BY DEF IInv, TypeInv, TypeOK, CoreOK
  <2> SUFFICES ASSUME LiveSession', frame'.at \in Busy
               PROVE  state' = "InProgress"
    BY DEF Decides
  <2>2. CASE \E c, rest : Calls(c, rest)
    <3>1. PICK c, rest : Calls(c, rest)
      BY <2>2
    <3>2. UNCHANGED frame /\ c \in IntentType
      BY <2>1, <3>1, CallMoves DEF Calls
    <3>3. Draining /\ frame.at = "superseded" /\ c = Head(deferred) /\ deferred # <<>>
      BY <3>1, <3>2 DEF Calls, Source, Idle, Draining, DrainPoints, Busy
    <3>4. c \in Waiting(deferred)
      BY <2>1, <3>3, TailWaiting
    <3>5. c.cmd \in {"Apply", "Repair", "Reset"} /\ Free
      BY <3>3, <3>4 DEF WaitInv, Draining
    <3>6. CASE c.cmd = "Apply"
      <4>1. ApplyStarted(c, rest) \/ ApplyRejected(c, rest)
        BY <3>1, <3>5, <3>6 DEF Calls, Runs, HandleApply, ApplyQueued
      <4>2. ApplyBegins(c, rest)
        BY <4>1 DEF ApplyStarted, ApplyRejected
      <4>3. ~session'.verified
        BY <4>2 DEF ApplyBegins
      <4> QED BY <4>3 DEF LiveSession
    <3>7. CASE c.cmd = "Repair"
      BY <3>1, <3>7 DEF Calls, Runs, RepairStarted, ReapplyIdentity
    <3>8. CASE c.cmd = "Reset"
      <4>1. UNCHANGED <<state, session, link, world>>
        BY <3>1, <3>8 DEF Calls, Runs, HandleReset, ResetQueued, ResetStarted
      <4>2. LiveSession
        BY <4>1 DEF LiveSession, Running, Connected
      <4> QED BY <3>2, <4>1, <4>2 DEF Decides
    <3> QED BY <3>5, <3>6, <3>7, <3>8
  <2>3. CASE MutationCompleted
    <3>1. Idle
      BY <2>3 DEF MutationCompleted, StaleApplyCompleted, ReactivationCompleted, ApplyCompleted,
         ResetCompleted, RefreshRateCompleted, RecoveryCancelled, RecoverySucceeded,
         RecoveryFailed, ValidationCancelled, ValidationFailed, ValidationSucceeded, Completes
    <3>2. /\ frame.at = "idle" /\ ~Finish /\ ~AfterSuperseded /\ ~DecideFailed
          /\ ~AfterLastFailure /\ ~AfterReset
      BY <3>1 DEF Idle, Finish, AfterSuperseded, DecideFailed, AfterLastFailure, AfterReset, At,
         After
    <3>3. ApplyCompleted
      BY <2>1, <3>1, <3>2, BusyMoves
    <3>4. /\ tasks # <<>> /\ IsMutation(Front) /\ KindOf(Front) = "Apply"
          /\ Front.gen = gen /\ ~session.reactivating /\ UNCHANGED state
      BY <3>3 DEF ApplyCompleted, Completes, HasTask, IsMutation, KindOf, Live
    <3>5. worker.kind = "Apply" /\ worker.gen = Front.gen
      BY <2>1, <3>1, <3>4, MutationFront, SMTT(60)
    <3> QED BY <2>1, <3>4, <3>5 DEF FenceInv, ControlInv
  <2>4. CASE VerificationCompleted
    <3>1. Idle /\ UNCHANGED frame
      BY <2>4 DEF VerificationCompleted, VerificationIgnored, SettlementHolds, SettlementLost,
         SettlementRechecks, SettlementRepairs, BaselineVerified, InitialVerified,
         FailedUnderSettlement, BaselineRepairStarted, BaselineRepairFailed, InitialRetried,
         InitialFailed, Verified, FailedVerification, Completes
    <3> QED BY <3>1 DEF Idle, Busy
  <2>5. CASE Continue
    <3>1. /\ LinkKept /\ session'.epoch = session.epoch
      BY <2>1, <2>5, ContinueTypes, QuietContinue DEF Kept, EpochQuiet
    <3>2. Connected /\ session.epoch = link.epoch
      BY <3>1 DEF LiveSession, Connected, LinkKept
    <3>3. ~settle.requested
      BY <2>1, <3>2, <1>LiveUnsettled
    <3>4. \/ (AfterReset /\ reset.completion.held) \/ Finish \/ AfterSuperseded \/ DecideFailed
      BY <2>1, <2>5, <3>3, ContinueBusy DEF AfterLastFailure, SettlesNow
    <3>5. UNCHANGED state /\ Running
      BY <3>4 DEF AfterReset, Finish, AfterSuperseded, DecideFailed, At, After, DrainedOut
    <3>6. CASE AfterReset /\ reset.completion.held
      BY <2>1, <3>5, <3>6 DEF FenceInv, HeldInv
    <3>7. CASE Finish \/ AfterSuperseded \/ DecideFailed
      <4>1. /\ frame.at \in Busy
            /\ session' = session \/ \E a : session' = [session EXCEPT !.preTopology = a]
        BY <3>7 DEF Finish, AfterSuperseded, DecideFailed, At, After, Busy
      <4>2. session'.verified = session.verified
        BY <2>1, <4>1 DEF SessionType
      <4>3. LiveSession
        BY <3>2, <3>5, <4>2 DEF LiveSession
      <4> QED BY <3>5, <4>1, <4>3 DEF Decides
    <3> QED BY <3>4, <3>6, <3>7
  <2>6. CASE Elsewhere
    <3>1. UNCHANGED frame /\ ~Idle
      <4>1. UNCHANGED frame
        BY <2>6 DEF Elsewhere, ClientReactivate, ClientRevert, ClientRefreshRate, ClientSnapshot,
           ClientPark, ApplyReactivation, RefreshRateStarted, SnapshotTaken, Park, RevertStale,
           DrainDropsStale, DrainDropsRepair, DisplayEvent, BaselineReturned, IdentityUnchanged,
           IdentityQueued, IdentityReplaced, EventKept, EventReopens, RecoveryEvent, Tick,
           TickReconciles, TickDiscards, TickExpires, TickRetries, Ticks, Time, WindowCloses,
           QuietEnds, GraceEnds, notTime, Connection, Connect, Retire, Stop, DisconnectSettles,
           DisconnectReverts, DisconnectIdle, Disconnects, Worker, WorkerGuards, WorkerTouches,
           RecoveryEnters, RecoveryTouches, TimerFires, fsmVars
      <4> QED BY <4>1 DEF Idle, Busy
    <3>2. ~Stop /\ ~Retire
      <4>1. Retire => link'.conn = "broken"
        BY <2>1 DEF Retire, LinkType
      <4>2. Stop => ~Running'
        BY <2>1 DEF Stop, WorldType, Running
      <4> QED BY <4>1, <4>2 DEF LiveSession, Connected
    <3>3. DrainDropsStale \/ DrainDropsRepair \/ Time \/ Worker
      BY <2>6, <3>1, <3>2 DEF Elsewhere, ClientReactivate, ClientRevert, ClientRefreshRate,
         ClientSnapshot, ClientPark, Deliver, RevertStale, DisplayEvent, BaselineReturned,
         IdentityUnchanged, IdentityQueued, IdentityReplaced, IdentityEvent, EventKept,
         EventReopens, RecoveryEvent, Notified, Tick, TickReconciles, TickDiscards, TickExpires,
         TickRetries, Ticks, Connection, Connect, DisconnectSettles, DisconnectReverts,
         DisconnectIdle, Disconnects
    <3>4. /\ UNCHANGED <<state, link>> /\ Running
          /\ session' = session \/ session' = [session EXCEPT !.recent = FALSE]
      BY <3>3 DEF DrainDropsStale, DrainDropsRepair, Draining, Time, WindowCloses, QuietEnds,
         GraceEnds, notTime, Worker, WorkerGuards, WorkerTouches, RecoveryEnters, RecoveryTouches,
         TimerFires, fsmVars, HasTask
    <3>5. session'.verified = session.verified /\ session'.epoch = session.epoch
      BY <2>1, <3>4 DEF SessionType
    <3>6. LiveSession
      BY <3>4, <3>5 DEF LiveSession, Connected
    <3> QED BY <3>1, <3>4, <3>6 DEF Decides
  <2>7. CASE UNCHANGED vars
    BY <2>7 DEF vars, Decides, LiveSession, Running, Connected
  <2> QED BY <2>1, <2>2, <2>3, <2>4, <2>5, <2>6, <2>7, StepCases

<1> SUFFICES ASSUME HeartIInv, [Next]_vars PROVE HeartIInv'
  OBVIOUS
<1>1. /\ IInv /\ OwnerInv /\ WaitInv /\ OriginInv /\ Beats /\ Decides /\ TypeOK /\ MailInv /\ EpochInv
  BY DEF HeartIInv, DutyInv, IInv, TypeInv
<1>2. DutyInv' /\ WaitInv' /\ Decides'
  BY <1>1, DutyStep, WaitStep, <1>DecidesStep DEF HeartIInv
<1>3. CASE UNCHANGED vars
  <2>1. UNCHANGED <<state, session, lease, deferred, mail, link, world>>
    BY <1>3 DEF vars
  <2>2. OriginInv' /\ Beats'
    BY <1>1, <2>1 DEF OriginInv, Reverts, Connected, Beats, LiveSession, Running, RestorePending,
       NoRepair
  <2> QED BY <1>2, <2>2 DEF HeartIInv
<1>4. CASE ~UNCHANGED vars
  <2>1. OriginInv'
    BY <1>1, <1>4, StepCases, <1>OriginCalls, <1>OriginOthers, <1>OriginElsewhere DEF Complete
  <2>2. Beats'
    BY <1>1, <1>4, StepCases, <1>BeatsCalls, <1>BeatsMutations, <1>BeatsChecks, <1>BeatsContinues,
       <1>BeatsElsewhere
  <2> QED BY <1>2, <2>1, <2>2 DEF HeartIInv
<1> QED BY <1>3, <1>4

\* Whatever repairs, fallbacks, reconnects and restores the helper goes
\* through, a verified session that its client still holds has a heartbeat: the
\* helper would notice that the client hangs.
THEOREM HeartbeatLiveHolds == Spec => []HeartbeatLive
<1>1. HeartIInv => HeartbeatLive
  BY DEF HeartIInv, Beats, LiveSession, HeartbeatLive, Idle
<1> QED BY <1>1, HeartInit, HeartStep, PTL DEF Spec

----------------------------------------------------------------------------
(* The heartbeat monitor *)

CONSTANTS OptionalWindow, MissWindow, RecoveryWindow, MaxTime
VARIABLES now, armed, lastPing, optionalUntil, recoveryDeadline, lastContact, silence

Monitor == INSTANCE Heartbeat

\* The inductive invariant: a pending recovery deadline lies at least one miss
\* window and one recovery window after the last contact, because only a poll
\* that saw a full miss window of silence sets it and any contact clears it.
MonitorInv ==
  /\ Monitor!TypeOK
  /\ Monitor!NoEarlyTimeout
  /\ lastContact <= lastPing
  /\ lastPing <= now
  /\ recoveryDeadline # Monitor!None => recoveryDeadline >= lastContact + MissWindow + RecoveryWindow

\* The initial state, where nothing is armed, satisfies the invariant.
LEMMA MonitorInit == Monitor!WindowsAssumption /\ Monitor!Init => MonitorInv
<1> SUFFICES ASSUME Monitor!WindowsAssumption, Monitor!Init
             PROVE  MonitorInv
  OBVIOUS
<1>1. armed \in BOOLEAN
  BY DEF Monitor!Init
<1>2. now \in 0..MaxTime
  BY SMTT(60) DEF Monitor!Init, Monitor!WindowsAssumption
<1> QED
  BY <1>1, <1>2, SMTT(60) DEF MonitorInv, Monitor!None, Monitor!Init, Monitor!TypeOK, Monitor!NoEarlyTimeout

\* Every method of HeartbeatMonitor, and the passage of time, preserves it.
LEMMA MonitorStep ==
  Monitor!WindowsAssumption /\ MonitorInv /\ [Monitor!Next]_(Monitor!vars) => MonitorInv'
<1> SUFFICES ASSUME Monitor!WindowsAssumption, MonitorInv, [Monitor!Next]_(Monitor!vars)
             PROVE  MonitorInv'
  OBVIOUS
<1>0. Monitor!Disarm \/ Monitor!TimeOut => armed' \in BOOLEAN
  BY DEF Monitor!Disarm, Monitor!TimeOut
<1> USE SMTT(60) DEF Monitor!WindowsAssumption, Monitor!None, MonitorInv, Monitor!TypeOK, Monitor!NoEarlyTimeout
<1>1. CASE Monitor!Advance            BY <1>1 DEF Monitor!Advance
<1>2. CASE Monitor!Arm                BY <1>2 DEF Monitor!Arm
<1>3. CASE Monitor!Disarm             BY <1>0, <1>3 DEF Monitor!Disarm
<1>4. CASE Monitor!RecordPing         BY <1>4 DEF Monitor!RecordPing
<1>5. CASE Monitor!RecordLivenessPing BY <1>5 DEF Monitor!RecordLivenessPing
<1>6. CASE Monitor!NoteMiss           BY <1>6 DEF Monitor!NoteMiss
<1>7. CASE Monitor!TimeOut
  <2>1. silence' \in Nat /\ silence' >= MissWindow + RecoveryWindow
    BY <1>7 DEF Monitor!TimeOut
  <2> QED BY <1>0, <1>7, <2>1 DEF Monitor!TimeOut
<1>8. CASE UNCHANGED Monitor!vars
  BY <1>8 DEF Monitor!vars
<1> QED
  BY <1>1, <1>2, <1>3, <1>4, <1>5, <1>6, <1>7, <1>8 DEF Monitor!Next

\* check_timeout() never reports a client dead before it has been silent for a
\* miss window plus a recovery window, whatever the windows are.
THEOREM NoEarlyTimeoutHolds ==
  ASSUME Monitor!WindowsAssumption
  PROVE  Monitor!Spec => []Monitor!NoEarlyTimeout
<1>1. MonitorInv => Monitor!NoEarlyTimeout
  BY DEF MonitorInv
<1>2. Monitor!Init => MonitorInv
  BY MonitorInit
<1>3. MonitorInv /\ [Monitor!Next]_(Monitor!vars) => MonitorInv'
  BY MonitorStep
<1> QED BY <1>1, <1>2, <1>3, PTL DEF Monitor!Spec

============================================================================
