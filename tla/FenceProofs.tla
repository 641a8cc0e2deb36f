---------------------------- MODULE FenceProofs ----------------------------
(***************************************************************************)
(* The mutation fence, the single live check, the completion that RESET    *)
(* holds back and the commands that wait, for every instance.              *)
(*                                                                         *)
(* FenceInv says how the dispatcher's queues, the fence and the control    *)
(* state fit together. The lemmas on queues speak of arbitrary ones, so    *)
(* that a handler that removes one task and dispatches another is covered  *)
(* by two of them. OwnerInv adds who is going to drain the commands that   *)
(* wait.                                                                   *)
(***************************************************************************)
EXTENDS TypeProofs

\* A leaf that names no prover is given to Zenon; those that need arithmetic,
\* records or sequences name the SMT solver.
USE ZenonT(60)

LiveCheck(g, t) == t.op = "Verification" /\ t.gen = g
HasLive(g, q) == \E i \in DOMAIN q : LiveCheck(g, q[i])
HasTransient(g, q) == \E i \in DOMAIN q : LiveCheck(g, q[i]) /\ IsTransient(q[i])
HasMutation(q) == \E i \in DOMAIN q : IsMutation(q[i])
HasReset(q) == \E i \in DOMAIN q : q[i].op = "Reset"

\* Generation g, fence w, tasks q and timers d fit together: no task is newer
\* than the generation, the fence is exact, one check is live, and the one
\* RESET has no mutation ahead of it and no live check behind it.
QueueOK(g, w, q, d) ==
  /\ g \in Nat /\ q \in Seq(TaskType) /\ d \in Seq(TaskType)
  /\ \A i \in DOMAIN q : q[i].gen <= g
  /\ \A i \in DOMAIN d : d[i].gen <= g /\ d[i].op = "Verification" /\ IsTransient(d[i])
  /\ w # NoWorker <=> HasMutation(q)
  /\ \A i, j \in DOMAIN q : IsMutation(q[i]) /\ IsMutation(q[j]) => i = j
  /\ \A i \in DOMAIN q : IsMutation(q[i]) => w = [kind |-> KindOf(q[i]), gen |-> q[i].gen]
  /\ ~(HasLive(g, q) /\ HasLive(g, d))
  /\ \A i, j \in DOMAIN q : LiveCheck(g, q[i]) /\ LiveCheck(g, q[j]) => i = j
  /\ \A i, j \in DOMAIN d : LiveCheck(g, d[i]) /\ LiveCheck(g, d[j]) => i = j
  /\ \A i, j \in DOMAIN q : q[i].op = "Reset" /\ q[j].op = "Reset" => i = j
  /\ \A i, j \in DOMAIN q : q[i].op = "Reset" /\ IsMutation(q[j]) => i < j
  /\ \A i, j \in DOMAIN q : q[i].op = "Reset" /\ LiveCheck(g, q[j]) => j < i

LEMMA TasksTyped ==
  ASSUME NEW q \in Seq(TaskType), NEW i \in DOMAIN q
  PROVE  q[i] \in TaskType /\ q[i].gen \in Nat
<1>1. q[i] \in TaskType
  BY ElementOfSeq, LenProperties
<1> QED BY <1>1 DEF TaskType

\* The fence is not newer than the generation.
LEMMA FenceAge ==
  ASSUME NEW g, NEW w, NEW q, NEW d, QueueOK(g, w, q, d), w # NoWorker
  PROVE  w.gen \in Nat /\ w.gen <= g
<1>1. PICK i \in DOMAIN q : IsMutation(q[i])
  BY DEF QueueOK, HasMutation
<1>2. w = [kind |-> KindOf(q[i]), gen |-> q[i].gen] /\ q[i].gen <= g /\ q[i].gen \in Nat
  BY <1>1, TasksTyped DEF QueueOK
<1> QED BY <1>2

\* A completion is handled: the front task leaves, and the fence with it if the
\* task was a mutation.
LEMMA QueuePopped ==
  ASSUME NEW g, NEW w, NEW q, NEW d, QueueOK(g, w, q, d), q # <<>>
  PROVE  /\ QueueOK(g, IF IsMutation(Head(q)) THEN NoWorker ELSE w, Tail(q), d)
         /\ HasLive(g, Tail(q)) => HasLive(g, q)
         /\ HasTransient(g, Tail(q)) => HasTransient(g, q)
         /\ HasReset(Tail(q)) <=> HasReset(q) /\ Head(q).op # "Reset"
         /\ LiveCheck(g, Head(q)) => ~HasLive(g, Tail(q)) /\ ~HasLive(g, d)
         /\ Head(q).op = "Reset" => HasReset(q) /\ ~HasLive(g, Tail(q))
         /\ LiveCheck(g, Head(q)) => HasLive(g, q)
         /\ LiveCheck(g, Head(q)) /\ IsTransient(Head(q)) => HasTransient(g, q)
         /\ IsMutation(Head(q)) => /\ ~HasReset(Tail(q))
                                   /\ w = [kind |-> KindOf(Head(q)), gen |-> Head(q).gen]
<1> DEFINE r == Tail(q)
           v == IF IsMutation(Head(q)) THEN NoWorker ELSE w
<1>0. q \in Seq(TaskType)
  BY DEF QueueOK
<1>1. /\ q \in Seq(TaskType) /\ DOMAIN q = 1..Len(q) /\ Len(q) \in Nat /\ Len(q) >= 1
      /\ Head(q) = q[1] /\ r \in Seq(TaskType) /\ DOMAIN r = 1..(Len(q) - 1)
      /\ \A i \in DOMAIN r : r[i] = q[i + 1]
  BY <1>0, HeadTailProperties, LenProperties, EmptySeq, SMTT(60)
<1>2. \A i \in DOMAIN r : i + 1 \in DOMAIN q /\ i + 1 # 1 /\ i \in Nat /\ r[i] = q[i + 1]
  BY <1>1, SMTT(60)
<1>3. 1 \in DOMAIN q
  BY <1>1, SMTT(60)
<1>4. \A i \in DOMAIN q : i # 1 => i - 1 \in DOMAIN r /\ r[i - 1] = q[i]
  BY <1>1, SMTT(60)
<1> HIDE DEF r
<1>5. /\ HasLive(g, r) => HasLive(g, q)
      /\ HasTransient(g, r) => HasTransient(g, q)
      /\ HasReset(r) => HasReset(q)
      /\ HasMutation(r) => HasMutation(q)
      /\ LiveCheck(g, q[1]) => HasLive(g, q)
      /\ LiveCheck(g, q[1]) /\ IsTransient(q[1]) => HasTransient(g, q)
      /\ q[1].op = "Reset" => HasReset(q)
      /\ IsMutation(q[1]) => HasMutation(q)
  BY <1>2, <1>3 DEF HasLive, HasTransient, HasReset, HasMutation
<1>6. LiveCheck(g, q[1]) => ~HasLive(g, r) /\ ~HasLive(g, d)
  <2>1. LiveCheck(g, q[1]) => \A i \in DOMAIN r : ~LiveCheck(g, r[i])
    BY <1>2, <1>3 DEF QueueOK
  <2> QED BY <2>1, <1>5 DEF HasLive, QueueOK
<1>7. q[1].op = "Reset" => ~HasReset(r) /\ ~HasLive(g, r)
  <2>1. q[1].op = "Reset" => \A i \in DOMAIN r : r[i].op # "Reset"
    BY <1>2, <1>3 DEF QueueOK
  <2>2. q[1].op = "Reset" => \A i \in DOMAIN r : ~LiveCheck(g, r[i])
    <3> SUFFICES ASSUME q[1].op = "Reset", NEW i \in DOMAIN r, LiveCheck(g, q[i + 1]) PROVE FALSE
      BY <1>2
    <3>1. i + 1 < 1
      BY <1>2, <1>3 DEF QueueOK
    <3> QED BY <3>1, <1>2, SMTT(60)
  <2> QED BY <2>1, <2>2 DEF HasReset, HasLive
<1>8. IsMutation(q[1]) => /\ ~HasReset(r) /\ ~HasMutation(r)
                          /\ w = [kind |-> KindOf(q[1]), gen |-> q[1].gen]
  <2>1. IsMutation(q[1]) => \A i \in DOMAIN r : ~IsMutation(r[i])
    BY <1>2, <1>3 DEF QueueOK
  <2>2. IsMutation(q[1]) => \A i \in DOMAIN r : r[i].op # "Reset"
    <3> SUFFICES ASSUME IsMutation(q[1]), NEW i \in DOMAIN r, q[i + 1].op = "Reset" PROVE FALSE
      BY <1>2
    <3>1. i + 1 < 1
      BY <1>2, <1>3 DEF QueueOK
    <3> QED BY <3>1, <1>2, SMTT(60)
  <2> QED BY <2>1, <2>2, <1>3 DEF HasReset, HasMutation, QueueOK
<1>9. v # NoWorker <=> HasMutation(r)
  <2>1. ~IsMutation(q[1]) /\ HasMutation(q) => HasMutation(r)
    BY <1>4 DEF HasMutation
  <2> QED BY <2>1, <1>1, <1>5, <1>8 DEF QueueOK
<1>10. /\ \A i \in DOMAIN r : r[i].gen <= g
       /\ \A i \in DOMAIN r : IsMutation(r[i]) => v = [kind |-> KindOf(r[i]), gen |-> r[i].gen]
  <2>1. \A i \in DOMAIN r : IsMutation(r[i]) => w = [kind |-> KindOf(r[i]), gen |-> r[i].gen]
    BY <1>2 DEF QueueOK
  <2>2. \A i \in DOMAIN r : IsMutation(r[i]) => v = w
    BY <1>1, <1>8 DEF HasMutation
  <2> QED BY <1>2, <2>1, <2>2 DEF QueueOK
<1>11. \A i, j \in DOMAIN r :
         /\ IsMutation(r[i]) /\ IsMutation(r[j]) => i = j
         /\ LiveCheck(g, r[i]) /\ LiveCheck(g, r[j]) => i = j
         /\ r[i].op = "Reset" /\ r[j].op = "Reset" => i = j
         /\ r[i].op = "Reset" /\ IsMutation(r[j]) => i < j
         /\ r[i].op = "Reset" /\ LiveCheck(g, r[j]) => j < i
  <2> SUFFICES ASSUME NEW i \in DOMAIN r, NEW j \in DOMAIN r
               PROVE  /\ IsMutation(r[i]) /\ IsMutation(r[j]) => i = j
                      /\ LiveCheck(g, r[i]) /\ LiveCheck(g, r[j]) => i = j
                      /\ r[i].op = "Reset" /\ r[j].op = "Reset" => i = j
                      /\ r[i].op = "Reset" /\ IsMutation(r[j]) => i < j
                      /\ r[i].op = "Reset" /\ LiveCheck(g, r[j]) => j < i
    OBVIOUS
  <2>1. /\ i + 1 \in DOMAIN q /\ j + 1 \in DOMAIN q /\ i \in Nat /\ j \in Nat
        /\ r[i] = q[i + 1] /\ r[j] = q[j + 1]
    BY <1>2
  <2>2. /\ IsMutation(r[i]) /\ IsMutation(r[j]) => i + 1 = j + 1
        /\ LiveCheck(g, r[i]) /\ LiveCheck(g, r[j]) => i + 1 = j + 1
        /\ r[i].op = "Reset" /\ r[j].op = "Reset" => i + 1 = j + 1
        /\ r[i].op = "Reset" /\ IsMutation(r[j]) => i + 1 < j + 1
        /\ r[i].op = "Reset" /\ LiveCheck(g, r[j]) => j + 1 < i + 1
    BY <2>1 DEF QueueOK
  <2> QED BY <2>1, <2>2, SMTT(60)
<1>12. QueueOK(g, v, r, d)
  BY <1>1, <1>5, <1>9, <1>10, <1>11 DEF QueueOK
<1>13. HasReset(q) /\ q[1].op # "Reset" => HasReset(r)
  BY <1>4 DEF HasReset
<1> QED BY <1>1, <1>5, <1>6, <1>7, <1>8, <1>12, <1>13 DEF r

----------------------------------------------------------------------------
(* The invariant *)

AnyLive == HasLive(gen, tasks) \/ HasLive(gen, timers)
TransientLive == HasTransient(gen, tasks) \/ HasLive(gen, timers)

QueueInv == QueueOK(gen, worker, tasks, timers)

\* What the queues say about the state machine.
ControlInv ==
  /\ AnyLive => state = "Verification"
  /\ WorkerActive => state \notin {"Verification", "EventLoop"}
  /\ worker.kind = "Apply" /\ worker.gen = gen /\ ~session.reactivating => state = "InProgress"
  /\ TransientLive => settle.requested /\ settle.pending /\ ~reset.pending
  /\ HasReset(tasks) <=> reset.pending

\* Where a handler may stand while a check is live, and what it relies on.
FrameInv ==
  /\ AnyLive => frame.at \in {"idle", "return", "resetTail"}
  /\ AnyLive /\ frame.at = "return" => ~HasDeferredApply
  /\ AnyLive /\ frame.at = "resetTail" => ~settle.deferredFinal
  /\ frame.at \in {"finish", "rolledBack", "decide", "conclude"} => Free
  /\ frame.at = "decide" => ~HasDeferredApply
  /\ frame.at = "finish" => state = "InProgress"
  /\ frame.caller = "reset" =>
       /\ frame.at \notin {"idle", "resetDone", "resetTail"}
       /\ ~settle.deferredFinal /\ ~(settle.pending /\ settle.finalPending)

\* A completion that RESET holds back belongs to an APPLY that nothing has
\* replaced yet.
HeldInv ==
  Running /\ reset.completion.held =>
    /\ state = "InProgress" /\ ~WorkerActive
    /\ ~settle.pending /\ ~settle.deferredFinal
    /\ reset.pending \/ frame.at \in {"superseded", "resetDone"}

FenceInv == QueueInv /\ ControlInv /\ FrameInv /\ HeldInv

\* The part of the state that the control invariants read.
Shape == <<state, worker, session, settle, reset, frame, Running>>

----------------------------------------------------------------------------
(* The front task *)

\* A mutation reports: nothing else is in flight.
LEMMA MutationFront ==
  ASSUME TypeOK, FenceInv, Idle, tasks # <<>>, IsMutation(Front)
  PROVE  /\ QueueOK(gen, NoWorker, Tail(tasks), timers)
         /\ worker = [kind |-> KindOf(Front), gen |-> Front.gen] /\ WorkerActive
         /\ ~HasLive(gen, Tail(tasks)) /\ ~HasLive(gen, timers)
         /\ ~HasTransient(gen, Tail(tasks)) /\ ~HasReset(Tail(tasks)) /\ ~reset.pending
         /\ ~reset.completion.held /\ frame.at = "idle" /\ frame.caller = "message"
<1>1. /\ QueueOK(gen, NoWorker, Tail(tasks), timers)
      /\ worker = [kind |-> KindOf(Front), gen |-> Front.gen]
      /\ HasLive(gen, Tail(tasks)) => HasLive(gen, tasks)
      /\ HasTransient(gen, Tail(tasks)) => HasTransient(gen, tasks)
      /\ ~HasReset(Tail(tasks))
      /\ HasReset(Tail(tasks)) <=> HasReset(tasks) /\ Front.op # "Reset"
  BY QueuePopped DEF FenceInv, QueueInv, Front
<1>2. WorkerActive
  BY <1>1 DEF WorkerActive, NoWorker, KindOf, IsMutation
<1>3. ~AnyLive /\ ~TransientLive
  BY <1>2 DEF FenceInv, ControlInv, AnyLive, TransientLive, HasLive, HasTransient
<1>4. ~reset.pending
  BY <1>1 DEF FenceInv, ControlInv, IsMutation
<1>5. frame.at = "idle" /\ frame.caller = "message"
  BY DEF FenceInv, FrameInv, Idle, TypeOK, FrameType
<1>6. ~reset.completion.held
  BY <1>2 DEF FenceInv, HeldInv, Idle
<1> QED BY <1>1, <1>2, <1>3, <1>4, <1>5, <1>6 DEF AnyLive, TransientLive

\* A live check reports: the fence is free, and no other check is live.
LEMMA CheckFront ==
  ASSUME TypeOK, FenceInv, Completes("Verification"), Live(Front)
  PROVE  /\ QueueOK(gen, NoWorker, Tail(tasks), timers)
         /\ worker = NoWorker /\ state = "Verification"
         /\ ~HasLive(gen, Tail(tasks)) /\ ~HasLive(gen, timers)
         /\ ~HasTransient(gen, Tail(tasks))
         /\ HasReset(Tail(tasks)) <=> reset.pending
         /\ IsTransient(Front) => settle.requested /\ settle.pending /\ ~reset.pending
         /\ ~reset.completion.held /\ frame.at = "idle" /\ frame.caller = "message"
<1>1. Idle /\ tasks # <<>> /\ Front.op = "Verification" /\ LiveCheck(gen, Front)
  BY DEF Completes, HasTask, Live, LiveCheck
<1>2. /\ QueueOK(gen, worker, Tail(tasks), timers)
      /\ ~HasLive(gen, Tail(tasks)) /\ ~HasLive(gen, timers)
      /\ HasReset(Tail(tasks)) <=> HasReset(tasks)
      /\ HasLive(gen, tasks)
      /\ IsTransient(Front) => HasTransient(gen, tasks)
  BY <1>1, QueuePopped DEF FenceInv, QueueInv, Front, IsMutation
<1>3. ~HasTransient(gen, Tail(tasks))
  BY <1>2 DEF HasTransient, HasLive
<1>4. state = "Verification" /\ worker = NoWorker
  BY <1>2 DEF FenceInv, ControlInv, AnyLive, WorkerActive
<1>5. frame.at = "idle" /\ frame.caller = "message"
  BY <1>1 DEF FenceInv, FrameInv, Idle, TypeOK, FrameType
<1>6. ~reset.completion.held
  BY <1>1, <1>4 DEF FenceInv, HeldInv, Idle
<1>7. /\ HasReset(tasks) <=> reset.pending
      /\ HasTransient(gen, tasks) => settle.requested /\ settle.pending /\ ~reset.pending
  BY DEF FenceInv, ControlInv, TransientLive
<1> QED BY <1>2, <1>3, <1>4, <1>5, <1>6, <1>7

----------------------------------------------------------------------------
(* Every step *)

\* A command handler may run: between two messages, or from the drain loop.
Handles == Running /\ (frame.at = "idle" \/ (frame.at \in DrainPoints /\ Free))

\* Every step of the helper keeps the fence exact, with at most one live check.
LEMMA FenceStep == TypeOK /\ TypeOK' /\ EpochInv /\ FenceInv /\ [Next]_vars => FenceInv'

(* The dispatcher's queues *)

\* cancel_operations: no check is live any more.
<1>QueueCancelled.
    ASSUME NEW g, NEW w, NEW q, NEW d, QueueOK(g, w, q, d)
    PROVE  /\ QueueOK(g + 1, w, q, d)
           /\ ~HasLive(g + 1, q) /\ ~HasLive(g + 1, d) /\ ~HasTransient(g + 1, q)
  <2> USE <1>QueueCancelled
  <2>1. /\ g \in Nat /\ q \in Seq(TaskType) /\ d \in Seq(TaskType)
        /\ \A i \in DOMAIN q : q[i].gen <= g
        /\ \A i \in DOMAIN d : d[i].gen <= g
    BY DEF QueueOK
  <2>2. \A i \in DOMAIN q : q[i].gen \in Nat
    BY <2>1, TasksTyped
  <2>3. \A i \in DOMAIN d : d[i].gen \in Nat
    BY <2>1, TasksTyped
  <2>4. \A i \in DOMAIN q : q[i].gen <= g + 1 /\ q[i].gen # g + 1
    BY <2>1, <2>2, SMTT(60)
  <2>5. \A i \in DOMAIN d : d[i].gen <= g + 1 /\ d[i].gen # g + 1
    BY <2>1, <2>3, SMTT(60)
  <2>6. ~HasLive(g + 1, q) /\ ~HasLive(g + 1, d) /\ ~HasTransient(g + 1, q)
    BY <2>4, <2>5 DEF HasLive, HasTransient, LiveCheck
  <2>7. \A i \in DOMAIN q : ~LiveCheck(g + 1, q[i])
    BY <2>4 DEF LiveCheck
  <2>8. \A i \in DOMAIN d : ~LiveCheck(g + 1, d[i])
    BY <2>5 DEF LiveCheck
  <2>9. g + 1 \in Nat
    BY <2>1, SMTT(60)
  <2> QED BY <2>4, <2>5, <2>6, <2>7, <2>8, <2>9 DEF QueueOK

\* A task t is dispatched behind the others.
<1>QueuePushed.
    ASSUME NEW g, NEW w, NEW q, NEW d, QueueOK(g, w, q, d), NEW t \in TaskType, t.gen = g,
           NEW v,
           \/ IsMutation(t) /\ w = NoWorker /\ v = [kind |-> KindOf(t), gen |-> t.gen]
           \/ /\ t.op = "Verification" /\ v = w
              /\ ~HasLive(g, q) /\ ~HasLive(g, d) /\ ~HasReset(q)
           \/ t.op = "Reset" /\ w = NoWorker /\ v = w /\ ~HasReset(q)
    PROVE  /\ QueueOK(g, v, Append(q, t), d)
           /\ HasLive(g, Append(q, t)) <=> HasLive(g, q) \/ t.op = "Verification"
           /\ HasTransient(g, Append(q, t)) =>
                HasTransient(g, q) \/ (t.op = "Verification" /\ IsTransient(t))
           /\ HasReset(Append(q, t)) <=> HasReset(q) \/ t.op = "Reset"
  <2> USE <1>QueuePushed
  <2> DEFINE r == Append(q, t)
             n == Len(q) + 1
  <2>0. q \in Seq(TaskType)
    BY DEF QueueOK
  <2>1. /\ q \in Seq(TaskType) /\ DOMAIN q = 1..Len(q) /\ Len(q) \in Nat
        /\ r \in Seq(TaskType) /\ DOMAIN r = 1..n
        /\ r[n] = t /\ \A i \in DOMAIN q : r[i] = q[i]
    BY <2>0, AppendProperties, LenProperties, SMTT(60)
  <2>2. \A i \in DOMAIN r : i = n \/ (i \in DOMAIN q /\ r[i] = q[i] /\ i < n)
    BY <2>1, SMTT(60)
  <2>3. n \in DOMAIN r /\ \A i \in DOMAIN q : i \in DOMAIN r /\ r[i] = q[i]
    BY <2>1, SMTT(60)
  <2>4. r[n] = t
    BY <2>1
  <2> HIDE DEF r, n
  <2>5. /\ HasMutation(r) <=> HasMutation(q) \/ IsMutation(t)
        /\ HasReset(r) <=> HasReset(q) \/ t.op = "Reset"
        /\ HasLive(g, r) <=> HasLive(g, q) \/ LiveCheck(g, t)
        /\ HasTransient(g, r) => HasTransient(g, q) \/ (LiveCheck(g, t) /\ IsTransient(t))
    BY <2>2, <2>3, <2>4 DEF HasMutation, HasReset, HasLive, HasTransient
  <2>6. LiveCheck(g, t) <=> t.op = "Verification"
    BY DEF LiveCheck
  <2>7. /\ w # NoWorker <=> HasMutation(q)
        /\ ~(HasLive(g, q) /\ HasLive(g, d))
        /\ \A i \in DOMAIN q : q[i].gen <= g
    BY DEF QueueOK
  <2>8. /\ IsMutation(t) => t.op # "Verification" /\ t.op # "Reset"
        /\ IsMutation(t) => [kind |-> KindOf(t), gen |-> t.gen] # NoWorker
    BY DEF IsMutation, KindOf, NoWorker
  <2>9. v # NoWorker <=> HasMutation(r)
    BY <2>5, <2>7, <2>8 DEF IsMutation
  <2>10. \A i \in DOMAIN r : r[i].gen <= g
    <3>1. t.gen <= g
      BY SMTT(60) DEF QueueOK
    <3> QED BY <2>2, <2>4, <2>7, <3>1
  <2>11. \A i \in DOMAIN r : IsMutation(r[i]) => v = [kind |-> KindOf(r[i]), gen |-> r[i].gen]
    <3>1. \A i \in DOMAIN q : IsMutation(q[i]) => w = [kind |-> KindOf(q[i]), gen |-> q[i].gen]
      BY DEF QueueOK
    <3>2. \A i \in DOMAIN q : IsMutation(q[i]) => v = w /\ ~IsMutation(t)
      BY <2>7 DEF HasMutation, IsMutation
    <3>3. IsMutation(t) => v = [kind |-> KindOf(t), gen |-> t.gen]
      BY <2>8 DEF IsMutation
    <3> QED BY <2>2, <2>4, <3>1, <3>2, <3>3
  <2>12. \A i, j \in DOMAIN r :
           /\ IsMutation(r[i]) /\ IsMutation(r[j]) => i = j
           /\ LiveCheck(g, r[i]) /\ LiveCheck(g, r[j]) => i = j
           /\ r[i].op = "Reset" /\ r[j].op = "Reset" => i = j
           /\ r[i].op = "Reset" /\ IsMutation(r[j]) => i < j
           /\ r[i].op = "Reset" /\ LiveCheck(g, r[j]) => j < i
    <3> SUFFICES ASSUME NEW i \in DOMAIN r, NEW j \in DOMAIN r
                 PROVE  /\ IsMutation(r[i]) /\ IsMutation(r[j]) => i = j
                        /\ LiveCheck(g, r[i]) /\ LiveCheck(g, r[j]) => i = j
                        /\ r[i].op = "Reset" /\ r[j].op = "Reset" => i = j
                        /\ r[i].op = "Reset" /\ IsMutation(r[j]) => i < j
                        /\ r[i].op = "Reset" /\ LiveCheck(g, r[j]) => j < i
      OBVIOUS
    <3>1. CASE i \in DOMAIN q /\ j \in DOMAIN q
      BY <2>3, <3>1 DEF QueueOK
    <3>2. CASE i = n /\ j = n
      BY <2>4, <2>6, <2>8, <3>2
    <3>3. CASE i = n /\ j \in DOMAIN q /\ j < n
      <4>1. /\ IsMutation(q[j]) => HasMutation(q)
            /\ LiveCheck(g, q[j]) => HasLive(g, q)
            /\ q[j].op = "Reset" => HasReset(q)
        BY <3>3 DEF HasMutation, HasLive, HasReset
      <4> QED BY <2>3, <2>4, <2>6, <2>7, <2>8, <3>3, <4>1 DEF IsMutation
    <3>4. CASE i \in DOMAIN q /\ j = n /\ i < n
      <4>1. /\ IsMutation(q[i]) => HasMutation(q)
            /\ LiveCheck(g, q[i]) => HasLive(g, q)
            /\ q[i].op = "Reset" => HasReset(q)
        BY <3>4 DEF HasMutation, HasLive, HasReset
      <4> QED BY <2>3, <2>4, <2>6, <2>7, <2>8, <3>4, <4>1 DEF IsMutation
    <3> QED BY <2>2, <3>1, <3>2, <3>3, <3>4
  <2>13. ~(HasLive(g, r) /\ HasLive(g, d))
    BY <2>5, <2>6, <2>7, <2>8 DEF IsMutation
  <2>14. QueueOK(g, v, r, d)
    BY <2>1, <2>9, <2>10, <2>11, <2>12, <2>13 DEF QueueOK, r
  <2> QED BY <2>5, <2>6, <2>14 DEF r

\* A delayed check is given to the timer.
<1>TimerPushed.
    ASSUME NEW g, NEW w, NEW q, NEW d, QueueOK(g, w, q, d), NEW t \in TaskType, t.gen = g,
           t.op = "Verification", IsTransient(t), ~HasLive(g, q), ~HasLive(g, d)
    PROVE  QueueOK(g, w, q, Append(d, t)) /\ HasLive(g, Append(d, t))
  <2> USE <1>TimerPushed
  <2> DEFINE r == Append(d, t)
             n == Len(d) + 1
  <2>0. d \in Seq(TaskType)
    BY DEF QueueOK
  <2>1. /\ d \in Seq(TaskType) /\ DOMAIN d = 1..Len(d) /\ Len(d) \in Nat
        /\ r \in Seq(TaskType) /\ DOMAIN r = 1..n
        /\ r[n] = t /\ \A i \in DOMAIN d : r[i] = d[i]
    BY <2>0, AppendProperties, LenProperties, SMTT(60)
  <2>2. \A i \in DOMAIN r : i = n \/ (i \in DOMAIN d /\ r[i] = d[i])
    BY <2>1, SMTT(60)
  <2>3. n \in DOMAIN r /\ r[n] = t
    BY <2>1, SMTT(60)
  <2> HIDE DEF r, n
  <2>4. \A i \in DOMAIN r : LiveCheck(g, r[i]) => i = n
    BY <2>2 DEF HasLive
  <2>5. HasLive(g, r)
    BY <2>3 DEF HasLive, LiveCheck
  <2>6. \A i \in DOMAIN r : r[i].gen <= g /\ r[i].op = "Verification" /\ IsTransient(r[i])
    BY <2>2, <2>3, SMTT(60) DEF QueueOK
  <2>7. \A i, j \in DOMAIN r : LiveCheck(g, r[i]) /\ LiveCheck(g, r[j]) => i = j
    BY <2>4
  <2>8. QueueOK(g, w, q, r)
    BY <2>1, <2>5, <2>6, <2>7 DEF QueueOK, r
  <2> QED BY <2>5, <2>8 DEF r

(* What a change of the queues does to the invariant's terms *)

<1>QueuesKept.
    ASSUME QueueInv, UNCHANGED <<gen, worker, tasks, timers>>
    PROVE  /\ QueueInv' /\ (AnyLive' <=> AnyLive) /\ (TransientLive' <=> TransientLive)
           /\ HasReset(tasks') <=> HasReset(tasks)
  BY <1>QueuesKept DEF QueueInv, AnyLive, TransientLive

<1>TasksCancelled.
    ASSUME QueueInv, Cancel
    PROVE  /\ QueueOK(gen', worker, tasks, timers)
           /\ ~HasLive(gen', tasks) /\ ~HasLive(gen', timers) /\ ~HasTransient(gen', tasks)
           /\ WorkerActive => worker.gen # gen'
  <2> USE <1>TasksCancelled
  <2>1. gen \in Nat /\ gen' = gen + 1
    BY DEF QueueInv, QueueOK, Cancel
  <2>2. WorkerActive => worker.gen \in Nat /\ worker.gen <= gen
    BY FenceAge DEF QueueInv, WorkerActive
  <2>3. WorkerActive => worker.gen # gen'
    BY <2>1, <2>2, SMTT(60)
  <2> QED BY <2>1, <2>3, <1>QueueCancelled DEF QueueInv

<1>QueuesCancelled.
    ASSUME QueueInv, Cancel, UNCHANGED <<worker, tasks, timers>>
    PROVE  /\ QueueInv' /\ ~AnyLive' /\ ~TransientLive'
           /\ HasReset(tasks') <=> HasReset(tasks)
           /\ WorkerActive => worker'.gen # gen'
  <2> USE <1>QueuesCancelled
  <2>1. /\ QueueOK(gen', worker', tasks', timers')
        /\ ~HasLive(gen', tasks') /\ ~HasLive(gen', timers') /\ ~HasTransient(gen', tasks')
        /\ WorkerActive => worker'.gen # gen'
    BY <1>TasksCancelled
  <2> QED BY <2>1 DEF QueueInv, AnyLive, TransientLive

\* A task of the current generation is dispatched behind the queue q.
<1>TaskShape.
    ASSUME NEW op \in {"Apply", "Verification", "Reset", "RefreshRate", "Recovery", "Validation"},
           NEW mode \in Modes, gen' \in Nat
    PROVE  /\ Task(op, mode) \in TaskType /\ Task(op, mode).gen = gen'
           /\ Task(op, mode).op = op /\ Task(op, mode).mode = mode
           /\ IsMutation(Task(op, mode)) <=> op \notin {"Verification", "Reset"}
           /\ KindOf(Task(op, mode)) = IF op = "Validation" THEN "Recovery" ELSE op
           /\ IsTransient(Task(op, mode))
                <=> mode \in {"TransientDisconnect", "TransientDisconnectFinal"}
  <2> USE <1>TaskShape
  <2>1. "queued" \in Phases
    BY DEF Phases
  <2> QED BY <2>1 DEF Task, TaskType, IsMutation, KindOf, IsTransient

<1>MutationDispatched.
    ASSUME NEW q, NEW op \in {"Apply", "RefreshRate", "Recovery", "Validation"},
           NEW mode \in Modes, QueueOK(gen', NoWorker, q, timers),
           tasks' = Append(q, Task(op, mode)), UNCHANGED timers,
           worker' = [kind |-> IF op = "Validation" THEN "Recovery" ELSE op, gen |-> gen']
    PROVE  /\ QueueInv'
           /\ AnyLive' => HasLive(gen', q) \/ HasLive(gen', timers)
           /\ TransientLive' => HasTransient(gen', q) \/ HasLive(gen', timers)
           /\ HasReset(tasks') <=> HasReset(q)
           /\ worker'.kind = (IF op = "Validation" THEN "Recovery" ELSE op)
  <2> USE <1>MutationDispatched
  <2> DEFINE t == Task(op, mode)
  <2>1. gen' \in Nat
    BY DEF QueueOK
  <2>2. /\ t \in TaskType /\ t.gen = gen' /\ t.op # "Reset" /\ t.op # "Verification"
        /\ IsMutation(t) /\ worker' = [kind |-> KindOf(t), gen |-> t.gen]
    BY <2>1, <1>TaskShape, SMTT(60)
  <2> HIDE DEF t
  <2>3. /\ QueueOK(gen', worker', Append(q, t), timers)
        /\ HasLive(gen', Append(q, t)) => HasLive(gen', q)
        /\ HasTransient(gen', Append(q, t)) => HasTransient(gen', q)
        /\ HasReset(Append(q, t)) <=> HasReset(q)
    BY <2>2, <1>QueuePushed, SMTT(60)
  <2>4. tasks' = Append(q, t)
    BY DEF t
  <2> QED BY <2>3, <2>4 DEF QueueInv, AnyLive, TransientLive

<1>ResetDispatched.
    ASSUME NEW q, QueueOK(gen', NoWorker, q, timers), ~HasReset(q),
           tasks' = Append(q, Task("Reset", "none")), UNCHANGED timers, worker' = NoWorker
    PROVE  /\ QueueInv'
           /\ AnyLive' => HasLive(gen', q) \/ HasLive(gen', timers)
           /\ TransientLive' => HasTransient(gen', q) \/ HasLive(gen', timers)
           /\ HasReset(tasks')
  <2> USE <1>ResetDispatched
  <2> DEFINE t == Task("Reset", "none")
  <2>1. gen' \in Nat /\ "none" \in Modes
    BY DEF QueueOK, Modes
  <2>2. t \in TaskType /\ t.gen = gen' /\ t.op = "Reset"
    BY <2>1, <1>TaskShape, SMTT(60)
  <2> HIDE DEF t
  <2>3. /\ QueueOK(gen', worker', Append(q, t), timers)
        /\ HasLive(gen', Append(q, t)) => HasLive(gen', q)
        /\ HasTransient(gen', Append(q, t)) => HasTransient(gen', q)
        /\ HasReset(Append(q, t))
    BY <2>2, <1>QueuePushed, SMTT(60)
  <2>4. tasks' = Append(q, t)
    BY DEF t
  <2> QED BY <2>3, <2>4 DEF QueueInv, AnyLive, TransientLive

<1>CheckDispatched.
    ASSUME NEW q, NEW mode \in Modes, QueueOK(gen', NoWorker, q, timers), ~HasReset(q),
           ~HasLive(gen', q), ~HasLive(gen', timers), ~HasTransient(gen', q),
           tasks' = Append(q, Task("Verification", mode)), UNCHANGED timers, worker' = NoWorker
    PROVE  /\ QueueInv' /\ ~HasReset(tasks')
           /\ TransientLive' => mode \in {"TransientDisconnect", "TransientDisconnectFinal"}
  <2> USE <1>CheckDispatched
  <2> DEFINE t == Task("Verification", mode)
  <2>1. gen' \in Nat
    BY DEF QueueOK
  <2>2. /\ t \in TaskType /\ t.gen = gen' /\ t.op = "Verification"
        /\ IsTransient(t) <=> mode \in {"TransientDisconnect", "TransientDisconnectFinal"}
    BY <2>1, <1>TaskShape, SMTT(60)
  <2> HIDE DEF t
  <2>3. /\ QueueOK(gen', worker', Append(q, t), timers)
        /\ HasTransient(gen', Append(q, t)) => HasTransient(gen', q) \/ IsTransient(t)
        /\ ~HasReset(Append(q, t))
    BY <2>2, <1>QueuePushed
  <2>4. tasks' = Append(q, t)
    BY DEF t
  <2> QED BY <2>2, <2>3, <2>4 DEF QueueInv, TransientLive

<1>CheckGivenToTimer.
    ASSUME NEW q, QueueOK(gen', NoWorker, q, timers), ~HasReset(q),
           ~HasLive(gen', q), ~HasLive(gen', timers),
           tasks' = q, timers' = Append(timers, Task("Verification", "TransientDisconnect")),
           worker' = NoWorker
    PROVE  QueueInv' /\ ~HasReset(tasks')
  <2> USE <1>CheckGivenToTimer
  <2> DEFINE t == Task("Verification", "TransientDisconnect")
  <2>1. gen' \in Nat /\ "TransientDisconnect" \in Modes
    BY DEF QueueOK, Modes
  <2>2. t \in TaskType /\ t.gen = gen' /\ t.op = "Verification" /\ IsTransient(t)
    BY <2>1, <1>TaskShape, SMTT(60)
  <2> HIDE DEF t
  <2>3. QueueOK(gen', worker', q, Append(timers, t))
    BY <2>2, <1>TimerPushed
  <2>4. timers' = Append(timers, t)
    BY DEF t
  <2> QED BY <2>3, <2>4 DEF QueueInv

\* The next check of a settlement, from a queue q without a live check.
<1>CheckKept.
    ASSUME NEW x \in SettleType, NEW q, QueueOK(gen', NoWorker, q, timers), worker' = NoWorker,
           ~HasLive(gen', q), ~HasLive(gen', timers), ~HasTransient(gen', q), x.requested,
           HasReset(q) <=> reset.pending,
           NextCheck(x, q) \/ (FinalCheck(x, q) /\ ~reset.pending)
    PROVE  /\ QueueInv' /\ (HasReset(tasks') <=> reset.pending)
           /\ AnyLive' => state' = "Verification"
           /\ TransientLive' => settle'.pending /\ ~reset.pending
           /\ settle'.requested /\ settle'.deferredFinal = x.deferredFinal
           /\ state' \in {state, "Verification"}
  <2> USE <1>CheckKept
  <2>1. CASE CheckWaits(x, q)
    <3>1. QueueInv' /\ ~AnyLive' /\ ~TransientLive' /\ (HasReset(tasks') <=> reset.pending)
      BY <2>1 DEF CheckWaits, QueueInv, AnyLive, TransientLive
    <3> QED BY <2>1, <3>1 DEF CheckWaits, SettleType
  <2>2. CASE CheckDelayed(x, q)
    <3>1. ~reset.pending
      BY <2>2 DEF CheckDelayed, HeldByReset
    <3>2. QueueInv' /\ ~HasReset(tasks')
      BY <2>2, <3>1, <1>CheckGivenToTimer DEF CheckDelayed
    <3> QED BY <2>2, <3>1, <3>2 DEF CheckDelayed, SettleType
  <2>3. CASE FinalCheck(x, q) /\ ~reset.pending
    <3>1. "TransientDisconnectFinal" \in Modes
      BY DEF Modes
    <3>2. QueueInv' /\ ~HasReset(tasks')
      BY <2>3, <3>1, <1>CheckDispatched DEF FinalCheck
    <3> QED BY <2>3, <3>2 DEF FinalCheck, SettleType
  <2>4. CheckFinal(x, q) => FinalCheck(x, q) /\ ~reset.pending
    BY DEF CheckFinal, HeldByReset
  <2> QED BY <2>1, <2>2, <2>3, <2>4 DEF NextCheck

\* No step makes a retired command current again.
<1>DeferredKept.
    ASSUME TypeOK, EpochInv, link' \in LinkType, link'.epoch >= link.epoch,
           \A c \in Waiting(deferred') : Replaces(c) => c \in Waiting(deferred)
    PROVE  HasDeferredApply' => HasDeferredApply
  <2> USE <1>DeferredKept
  <2>1. link.epoch \in Nat /\ link'.epoch \in Nat
    BY ConstantsAssumption, SMTT(60) DEF TypeOK, LinkType, Epochs
  <2>2. SUFFICES ASSUME HasDeferredApply' PROVE HasDeferredApply
    OBVIOUS
  <2>3. PICK c \in Waiting(deferred') : Replaces(c) /\ (c.epoch = 0 \/ c.epoch = link'.epoch)
    BY <2>2 DEF HasDeferredApply, Waiting, Replaces, StaleEpoch
  <2>4. c \in Waiting(deferred) /\ c.epoch # 0 /\ c.epoch <= link.epoch
    BY <2>3 DEF EpochInv
  <2>5. PICK i \in DOMAIN deferred : c = deferred[i]
    BY <2>4 DEF Waiting
  <2>6. c.epoch \in Nat
    <3>1. deferred[i] \in IntentType
      BY <2>5, ElementOfSeq, LenProperties DEF TypeOK
    <3> QED BY <2>5, <3>1, ConstantsAssumption, SMTT(60) DEF IntentType, Epochs
  <2>7. c.epoch = link.epoch
    BY <2>1, <2>3, <2>4, <2>6, SMTT(60)
  <2> QED BY <2>3, <2>5, <2>7 DEF HasDeferredApply, Replaces, StaleEpoch

\* A step that leaves the state machine alone and adds no check.
<1>Calm.
    ASSUME FenceInv, QueueInv', UNCHANGED Shape, UNCHANGED gen,
           AnyLive' => AnyLive, TransientLive' => TransientLive,
           HasReset(tasks') <=> HasReset(tasks),
           frame.at = "idle" \/ (HasDeferredApply' => HasDeferredApply)
    PROVE  FenceInv'
  <2> USE <1>Calm
  <2>1. ControlInv'
    BY DEF FenceInv, ControlInv, Shape, WorkerActive
  <2>2. FrameInv'
    BY DEF FenceInv, FrameInv, Shape, WorkerActive, Free
  <2>3. HeldInv'
    BY DEF FenceInv, HeldInv, Shape, WorkerActive
  <2> QED BY <2>1, <2>2, <2>3 DEF FenceInv

(* Completions *)

<1>FenceMutations.
    ASSUME TypeOK, TypeOK', EpochInv, FenceInv, MutationCompleted
    PROVE  FenceInv'

  \* The mutation's completion only releases the fence.
  <2>MutationReleased.
      ASSUME TypeOK, FenceInv, Idle, tasks # <<>>, IsMutation(Front),
             worker' = NoWorker, tasks' = Tail(tasks), UNCHANGED <<gen, timers>>
      PROVE  QueueInv' /\ ~AnyLive' /\ ~TransientLive' /\ ~HasReset(tasks')
    BY <2>MutationReleased, MutationFront DEF QueueInv, AnyLive, TransientLive

  \* A mutation or RESET reports and its handler drains, with no check live.
  <2>Drains.
      ASSUME TypeOK', QueueInv', ~AnyLive', ~TransientLive', worker' = NoWorker,
             HasReset(tasks') <=> reset'.pending,
             frame'.at \in DrainPoints, frame'.caller = "message",
             Running' /\ reset'.completion.held => HeldInv'
      PROVE  FenceInv'
    <3> USE <2>Drains
    <3>1. ControlInv'
      BY DEF ControlInv, WorkerActive, NoWorker
    <3>2. FrameInv'
      BY DEF FrameInv, DrainPoints
    <3>3. HeldInv'
      BY DEF HeldInv
    <3> QED BY <3>1, <3>2, <3>3 DEF FenceInv

  <2> USE <1>FenceMutations
  <2>0. /\ session \in SessionType /\ settle \in SettleType /\ reset \in ResetType
        /\ frame \in FrameType /\ world \in WorldType
    BY DEF TypeOK
  <2>1. CASE StaleApplyCompleted
    <3>1. Idle /\ tasks # <<>> /\ IsMutation(Front) /\ worker' = NoWorker /\ UNCHANGED <<gen, timers>>
      BY <2>1 DEF StaleApplyCompleted, Completes, HasTask, IsMutation
    <3>2. PICK drop \in BOOLEAN :
            /\ reset' = IF drop THEN BeginReset(reset) ELSE reset
            /\ tasks' = IF drop /\ ~reset.pending
                        THEN Append(Tail(tasks), Task("Reset", "none")) ELSE Tail(tasks)
      BY <2>1 DEF StaleApplyCompleted
    <3>3. /\ ~reset.pending /\ ~reset.completion.held /\ frame.caller = "message"
          /\ ~HasReset(Tail(tasks)) /\ QueueOK(gen', NoWorker, Tail(tasks), timers)
          /\ ~HasLive(gen', Tail(tasks)) /\ ~HasLive(gen', timers) /\ ~HasTransient(gen', Tail(tasks))
      BY <3>1, MutationFront
    <3>4. QueueInv' /\ ~AnyLive' /\ ~TransientLive' /\ (HasReset(tasks') <=> drop)
      <4>1. CASE drop
        BY <3>1, <3>2, <3>3, <4>1, <1>ResetDispatched
      <4>2. CASE ~drop
        BY <3>1, <3>2, <3>3, <4>2, <2>MutationReleased
      <4> QED BY <4>1, <4>2
    <3>5. (reset'.pending <=> drop) /\ ~reset'.completion.held
      BY <2>0, <3>2, <3>3 DEF BeginReset, ResetType
    <3>6. frame'.at \in DrainPoints /\ frame'.caller = "message"
      BY <2>0, <2>1, <3>3 DEF StaleApplyCompleted, DrainThen, DrainPoints, FrameType
    <3> QED BY <3>1, <3>4, <3>5, <3>6, <2>Drains
  <2>2. CASE ReactivationCompleted \/ RecoveryCancelled \/ ValidationCancelled
    <3>1. /\ Idle /\ tasks # <<>> /\ IsMutation(Front) /\ worker' = NoWorker
          /\ UNCHANGED <<gen, timers, reset>> /\ tasks' = Tail(tasks) /\ frame' = DrainThen("return")
      BY <2>2 DEF ReactivationCompleted, RecoveryCancelled, ValidationCancelled, Completes, HasTask,
         IsMutation
    <3>2. ~reset.pending /\ ~reset.completion.held /\ frame.caller = "message"
      BY <3>1, MutationFront
    <3>3. frame'.at \in DrainPoints /\ frame'.caller = "message"
      BY <2>0, <3>1, <3>2 DEF DrainThen, DrainPoints, FrameType
    <3> QED BY <3>1, <3>2, <3>3, <2>MutationReleased, <2>Drains
  <2>3. CASE RecoveryFailed \/ ValidationFailed
    <3>1. /\ Idle /\ tasks # <<>> /\ IsMutation(Front) /\ worker' = NoWorker
          /\ UNCHANGED <<gen, timers, reset>> /\ tasks' = Tail(tasks) /\ frame' = DrainThen("return")
      BY <2>3 DEF RecoveryFailed, ValidationFailed, Completes, HasTask, IsMutation
    <3>2. ~reset.pending /\ ~reset.completion.held /\ frame.caller = "message"
      BY <3>1, MutationFront
    <3>3. frame'.at \in DrainPoints /\ frame'.caller = "message"
      BY <2>0, <3>1, <3>2 DEF DrainThen, DrainPoints, FrameType
    <3> QED BY <3>1, <3>2, <3>3, <2>MutationReleased, <2>Drains
  <2>4. CASE ApplyCompleted
    <3>1. /\ Idle /\ tasks # <<>> /\ IsMutation(Front) /\ worker' = NoWorker
          /\ UNCHANGED <<gen, timers, reset, state, settle>> /\ tasks' = Tail(tasks)
          /\ Live(Front) /\ ~session.reactivating /\ KindOf(Front) = "Apply"
      BY <2>4 DEF ApplyCompleted, Completes, HasTask, IsMutation, KindOf
    <3>2. QueueInv' /\ ~AnyLive' /\ ~TransientLive' /\ ~HasReset(tasks')
      BY <3>1, <2>MutationReleased
    <3>3. /\ ~reset.pending /\ ~reset.completion.held
          /\ worker = [kind |-> KindOf(Front), gen |-> Front.gen]
      BY <3>1, MutationFront
    <3>4. state = "InProgress"
      BY <3>1, <3>3 DEF FenceInv, ControlInv, Live
    <3>5. frame'.at = "finish" /\ frame'.caller = "message"
      BY <2>4 DEF ApplyCompleted, IdleFrame
    <3>6. ControlInv'
      BY <3>1, <3>2, <3>3 DEF ControlInv, WorkerActive, NoWorker
    <3>7. FrameInv'
      BY <3>1, <3>2, <3>3, <3>4, <3>5 DEF FrameInv, Free, WorkerActive
    <3>8. HeldInv'
      BY <3>1, <3>3 DEF HeldInv
    <3> QED BY <3>2, <3>6, <3>7, <3>8 DEF FenceInv
  <2>5. CASE ResetCompleted
    <3>1. /\ Idle /\ tasks # <<>> /\ Front.op = "Reset" /\ ~IsMutation(Front)
          /\ UNCHANGED <<gen, timers, state, worker, settle>> /\ tasks' = Tail(tasks)
      BY <2>5 DEF ResetCompleted, Completes, HasTask, IsMutation
    <3>2. /\ QueueOK(gen, worker, Tail(tasks), timers) /\ HasReset(tasks)
          /\ ~HasReset(Tail(tasks)) /\ ~HasLive(gen, Tail(tasks))
      BY <3>1, QueuePopped DEF FenceInv, QueueInv, Front
    <3>3. reset.pending /\ ~HasLive(gen, timers) /\ frame.at = "idle" /\ frame.caller = "message"
      BY <2>0, <3>1, <3>2 DEF FenceInv, ControlInv, FrameInv, TransientLive, Idle, FrameType
    <3>4. QueueInv' /\ ~AnyLive' /\ ~TransientLive' /\ ~HasReset(tasks')
      <4>1. ~HasTransient(gen, Tail(tasks))
        BY <3>2 DEF HasTransient, HasLive
      <4> QED BY <3>1, <3>2, <3>3, <4>1 DEF QueueInv, AnyLive, TransientLive
    <3>5. /\ ~reset'.pending /\ reset'.completion = reset.completion
          /\ frame'.caller = "message"
          /\ \/ frame'.at = "resetDone" /\ Running'
             \/ frame'.at = "idle" /\ ~Running'
      <4>1. PICK ok \in BOOLEAN :
              IF reset.exitAfter /\ ~ok
              THEN /\ reset' = [reset EXCEPT !.pending = FALSE, !.exitAfter = FALSE]
                   /\ world' = [world EXCEPT !.running = FALSE]
                   /\ UNCHANGED frame
              ELSE /\ reset' = [reset EXCEPT !.pending = FALSE,
                                           !.exitAfter = @ /\ ~HasDeferredFollowup]
                   /\ frame' = DrainThen("resetDone")
                   /\ UNCHANGED world
        BY <2>5 DEF ResetCompleted
      <4>2. ~reset'.pending /\ reset'.completion = reset.completion
        BY <2>0, <4>1 DEF ResetType
      <4> QED BY <2>0, <3>1, <3>3, <4>1, <4>2 DEF DrainThen, FrameType, WorldType, Running, Idle
    <3>6. session' = session
      BY <2>5 DEF ResetCompleted
    <3>7. ControlInv'
      BY <3>1, <3>4, <3>5, <3>6 DEF FenceInv, ControlInv, WorkerActive
    <3>8. FrameInv'
      BY <3>4, <3>5 DEF FrameInv
    <3>9. HeldInv'
      BY <3>1, <3>5 DEF FenceInv, HeldInv, WorkerActive, Idle
    <3> QED BY <3>4, <3>7, <3>8, <3>9 DEF FenceInv
  <2>6. CASE RefreshRateCompleted
    <3>1. /\ Idle /\ tasks # <<>> /\ IsMutation(Front) /\ worker' = NoWorker
          /\ UNCHANGED <<reset, deferred, link>> /\ frame' = DrainThen("return")
      BY <2>6 DEF RefreshRateCompleted, Completes, HasTask, IsMutation
    <3>2. /\ ~reset.pending /\ ~reset.completion.held /\ frame.caller = "message"
          /\ state # "Verification"
          /\ ~HasReset(Tail(tasks)) /\ QueueOK(gen, NoWorker, Tail(tasks), timers)
          /\ ~HasLive(gen, Tail(tasks)) /\ ~HasLive(gen, timers) /\ ~HasTransient(gen, Tail(tasks))
      BY <3>1, MutationFront DEF FenceInv, ControlInv
    <3>3. frame'.at = "return" /\ frame'.caller = "message"
      BY <2>0, <3>1, <3>2 DEF DrainThen, FrameType
    <3>4. CASE Live(Front) /\ settle.requested
      <4>1. gen' = gen /\ CheckDelayed(settle, Tail(tasks))
        BY <2>6, <3>2, <3>4 DEF RefreshRateCompleted, PrepareCancel
      <4>2. /\ QueueInv' /\ (HasReset(tasks') <=> reset.pending)
            /\ AnyLive' => state' = "Verification"
            /\ TransientLive' => settle'.pending /\ ~reset.pending
            /\ settle'.requested
        BY <2>0, <3>1, <3>2, <3>4, <4>1, <1>CheckKept DEF NextCheck
      <4>3. ~HasDeferredApply'
        <5>1. ~HasDeferredApply
          BY <3>4, SettlesAlone
        <5> QED BY <3>1, <5>1 DEF HasDeferredApply, StaleEpoch
      <4>4. ControlInv'
        BY <3>1, <4>2 DEF ControlInv, WorkerActive, NoWorker
      <4>5. FrameInv'
        BY <3>3, <4>3 DEF FrameInv
      <4>6. HeldInv'
        BY <3>1, <3>2 DEF HeldInv
      <4> QED BY <4>2, <4>4, <4>5, <4>6 DEF FenceInv
    <3>5. CASE ~(Live(Front) /\ settle.requested)
      <4>1. tasks' = Tail(tasks) /\ UNCHANGED <<gen, timers>>
        BY <2>6, <3>5 DEF RefreshRateCompleted
      <4> QED BY <3>1, <3>2, <3>3, <4>1, <2>MutationReleased, <2>Drains DEF DrainPoints
    <3> QED BY <3>4, <3>5
  <2>7. CASE RecoverySucceeded
    <3>1. /\ Idle /\ tasks # <<>> /\ IsMutation(Front) /\ KindOf(Front) = "Recovery"
          /\ UNCHANGED <<gen, timers, frame>> /\ worker' = [worker EXCEPT !.gen = gen']
          /\ tasks' = Append(Tail(tasks), Task("Validation", "none")) /\ state' = "RecoveryValidation"
      BY <2>7 DEF RecoverySucceeded, Completes, HasTask, IsMutation, KindOf
    <3>2. /\ ~reset.pending /\ ~reset.completion.held /\ frame.at = "idle"
          /\ frame.caller = "message"
          /\ worker = [kind |-> KindOf(Front), gen |-> Front.gen]
          /\ ~HasReset(Tail(tasks)) /\ QueueOK(gen, NoWorker, Tail(tasks), timers)
          /\ ~HasLive(gen, Tail(tasks)) /\ ~HasLive(gen, timers) /\ ~HasTransient(gen, Tail(tasks))
      BY <3>1, MutationFront
    <3>3. worker' = [kind |-> "Recovery", gen |-> gen'] /\ "none" \in Modes
      BY <3>1, <3>2 DEF Modes
    <3>4. QueueInv' /\ ~AnyLive' /\ ~TransientLive' /\ ~HasReset(tasks') /\ worker'.kind = "Recovery"
      BY <3>1, <3>2, <3>3, <1>MutationDispatched
    <3>5. ~reset'.pending /\ ~reset'.completion.held
      BY <2>0, <2>7, <3>2 DEF RecoverySucceeded, ResetType
    <3>6. ControlInv'
      BY <3>1, <3>4, <3>5 DEF ControlInv
    <3>7. FrameInv'
      BY <3>1, <3>2, <3>4 DEF FrameInv
    <3>8. HeldInv'
      BY <3>5 DEF HeldInv
    <3> QED BY <3>4, <3>6, <3>7, <3>8 DEF FenceInv
  <2>8. CASE ValidationSucceeded
    <3>1. Idle /\ tasks # <<>> /\ IsMutation(Front) /\ worker' = NoWorker /\ UNCHANGED <<gen, timers>>
      BY <2>8 DEF ValidationSucceeded, Completes, HasTask, IsMutation
    <3> DEFINE resets == lease.staged /\ reset.recovery = "failed"
    <3>2. /\ ~reset.pending /\ ~reset.completion.held /\ frame.caller = "message"
          /\ ~HasReset(Tail(tasks)) /\ QueueOK(gen', NoWorker, Tail(tasks), timers)
          /\ ~HasLive(gen', Tail(tasks)) /\ ~HasLive(gen', timers) /\ ~HasTransient(gen', Tail(tasks))
      BY <3>1, MutationFront
    <3>3. tasks' = IF resets THEN Append(Tail(tasks), Task("Reset", "none")) ELSE Tail(tasks)
      BY <2>8, <3>2 DEF ValidationSucceeded
    <3>4. (reset'.pending <=> resets) /\ ~reset'.completion.held
      BY <2>0, <2>8, <3>2 DEF ValidationSucceeded, ResetType
    <3>5. frame'.at \in DrainPoints /\ frame'.caller = "message"
      BY <2>0, <2>8, <3>2 DEF ValidationSucceeded, DrainThen, DrainPoints, FrameType
    <3> HIDE DEF resets
    <3>6. QueueInv' /\ ~AnyLive' /\ ~TransientLive' /\ (HasReset(tasks') <=> resets)
      <4>1. CASE resets
        BY <3>1, <3>2, <3>3, <4>1, <1>ResetDispatched
      <4>2. CASE ~resets
        BY <3>1, <3>2, <3>3, <4>2, <2>MutationReleased
      <4> QED BY <4>1, <4>2
    <3> QED BY <3>1, <3>4, <3>5, <3>6, <2>Drains
  <2> QED BY <2>1, <2>2, <2>3, <2>4, <2>5, <2>6, <2>7, <2>8 DEF MutationCompleted

\* Between two messages, no completion held: only the queues' part is left.
<1>Idles.
    ASSUME QueueInv', ControlInv', frame'.at = "idle", frame'.caller = "message",
           ~reset'.completion.held
    PROVE  FenceInv'
  <2> USE <1>Idles
  <2>1. FrameInv'
    BY DEF FrameInv
  <2>2. HeldInv'
    BY DEF HeldInv
  <2> QED BY <2>1, <2>2 DEF FenceInv

<1>FenceVerifications.
    ASSUME TypeOK, EpochInv, FenceInv, VerificationCompleted
    PROVE  FenceInv'

  \* A live check reports, and nothing, a mutation or the next check follows.
  <2>CheckEnds.
      ASSUME TypeOK, FenceInv, Completes("Verification"), Live(Front),
             tasks' = Tail(tasks), UNCHANGED <<gen, worker, timers, reset, frame>>
      PROVE  FenceInv'

    <3>CheckReleased.
        ASSUME TypeOK, FenceInv, Completes("Verification"), Live(Front),
               tasks' = Tail(tasks), UNCHANGED <<gen, worker, timers>>
        PROVE  QueueInv' /\ ~AnyLive' /\ ~TransientLive' /\ (HasReset(tasks') <=> reset.pending)
      BY <3>CheckReleased, CheckFront DEF QueueInv, AnyLive, TransientLive

    <3> USE <2>CheckEnds
    <3>1. QueueInv' /\ ~AnyLive' /\ ~TransientLive' /\ (HasReset(tasks') <=> reset.pending)
      BY <3>CheckReleased
    <3>2. /\ worker = NoWorker /\ ~reset.completion.held /\ frame.at = "idle"
          /\ frame.caller = "message"
      BY CheckFront
    <3>3. ControlInv'
      BY <3>1, <3>2 DEF ControlInv, WorkerActive, NoWorker
    <3> QED BY <3>1, <3>2, <3>3, <1>Idles

  <2>CheckStarts.
      ASSUME TypeOK, FenceInv, Completes("Verification"), Live(Front),
             NEW op \in {"Apply", "Recovery"}, NEW mode \in Modes,
             gen' = gen \/ Cancel, tasks' = Append(Tail(tasks), Task(op, mode)),
             worker' = [kind |-> op, gen |-> gen'], UNCHANGED <<timers, frame>>,
             reset'.pending = reset.pending, reset'.completion = reset.completion,
             op = "Apply" => state' = "InProgress", op = "Recovery" => state' = "Recovery"
      PROVE  FenceInv'
    <3> USE <2>CheckStarts
    <3>1. /\ QueueOK(gen, NoWorker, Tail(tasks), timers)
          /\ ~HasLive(gen, Tail(tasks)) /\ ~HasLive(gen, timers)
          /\ ~HasTransient(gen, Tail(tasks)) /\ (HasReset(Tail(tasks)) <=> reset.pending)
          /\ ~reset.completion.held /\ frame.at = "idle" /\ frame.caller = "message"
      BY CheckFront
    <3>2. /\ QueueOK(gen', NoWorker, Tail(tasks), timers)
          /\ ~HasLive(gen', Tail(tasks)) /\ ~HasLive(gen', timers) /\ ~HasTransient(gen', Tail(tasks))
      BY <3>1, <1>QueueCancelled DEF Cancel
    <3>3. worker' = [kind |-> IF op = "Validation" THEN "Recovery" ELSE op, gen |-> gen']
      OBVIOUS
    <3>4. /\ QueueInv' /\ ~AnyLive' /\ ~TransientLive' /\ (HasReset(tasks') <=> reset.pending)
          /\ worker'.kind = op
      BY <3>1, <3>2, <3>3, <1>MutationDispatched
    <3>5. ControlInv'
      BY <3>4 DEF ControlInv, WorkerActive
    <3> QED BY <3>1, <3>4, <3>5, <1>Idles

  <2>CheckGoesOn.
      ASSUME TypeOK, FenceInv, Completes("Verification"), Live(Front), NEW x \in SettleType,
             x.requested, NextCheck(x, Tail(tasks)), UNCHANGED <<gen, worker, reset, frame>>
      PROVE  FenceInv'
    <3> USE <2>CheckGoesOn
    <3>1. /\ QueueOK(gen, NoWorker, Tail(tasks), timers) /\ worker = NoWorker
          /\ ~HasLive(gen, Tail(tasks)) /\ ~HasLive(gen, timers)
          /\ ~HasTransient(gen, Tail(tasks)) /\ (HasReset(Tail(tasks)) <=> reset.pending)
          /\ ~reset.completion.held /\ frame.at = "idle" /\ frame.caller = "message"
      BY CheckFront
    <3>2. /\ QueueInv' /\ (HasReset(tasks') <=> reset.pending)
          /\ AnyLive' => state' = "Verification"
          /\ TransientLive' => settle'.pending /\ ~reset.pending
          /\ settle'.requested
      BY <3>1, <1>CheckKept
    <3>3. ControlInv'
      BY <3>1, <3>2 DEF ControlInv, WorkerActive, NoWorker
    <3> QED BY <3>1, <3>2, <3>3, <1>Idles

  <2> USE <1>FenceVerifications
  <2>0. settle \in SettleType /\ reset \in ResetType
        /\ {"full", "repair", "rollback", "none"} \subseteq Modes
    BY DEF TypeOK, Modes
  <2>1. ASSUME NEW modes, Verified(modes)
        PROVE  Completes("Verification") /\ Live(Front) /\ UNCHANGED <<deferred, frame, link>>
               /\ ~Superseded(Front) /\ Front.mode \in modes
    BY <2>1 DEF Verified
  <2>2. CASE VerificationIgnored
    <3>1. /\ Idle /\ tasks # <<>> /\ Front.op = "Verification" /\ ~IsMutation(Front)
          /\ tasks' = Tail(tasks) /\ UNCHANGED <<gen, timers, Shape>>
      BY <2>2 DEF VerificationIgnored, Completes, HasTask, IsMutation, Shape, Running
    <3>2. /\ QueueOK(gen, worker, Tail(tasks), timers)
          /\ HasLive(gen, Tail(tasks)) => HasLive(gen, tasks)
          /\ HasTransient(gen, Tail(tasks)) => HasTransient(gen, tasks)
          /\ HasReset(Tail(tasks)) <=> HasReset(tasks)
      BY <3>1, QueuePopped DEF FenceInv, QueueInv, Front
    <3>3. UNCHANGED <<gen, worker, timers>> /\ frame.at = "idle"
      BY <3>1 DEF Shape, Idle
    <3>4. /\ QueueInv' /\ (AnyLive' => AnyLive) /\ (TransientLive' => TransientLive)
          /\ HasReset(tasks') <=> HasReset(tasks)
      BY <3>1, <3>2, <3>3 DEF QueueInv, AnyLive, TransientLive
    <3> QED BY <3>1, <3>3, <3>4, <1>Calm
  <2>3. CASE SettlementHolds
    <3>1. /\ Verified({"TransientDisconnect", "TransientDisconnectFinal"})
          /\ tasks' = Tail(tasks) /\ UNCHANGED <<gen, worker, timers, reset>>
      BY <2>3 DEF SettlementHolds
    <3> QED BY <2>1, <3>1, <2>CheckEnds
  <2>4. CASE SettlementLost
    <3>1. Verified({"TransientDisconnectFinal"}) /\ UNCHANGED <<gen, timers>>
      BY <2>4 DEF SettlementLost
    <3>2. CASE lease.armed
      <4>1. /\ state' = "Recovery" /\ worker' = [kind |-> "Recovery", gen |-> gen']
            /\ tasks' = Append(Tail(tasks), Task("Recovery", "none"))
            /\ reset' = [reset EXCEPT !.recovery = "none"]
        BY <2>4, <3>2 DEF SettlementLost
      <4>2. reset'.pending = reset.pending /\ reset'.completion = reset.completion
        BY <2>0, <4>1 DEF ResetType
      <4>3. Completes("Verification") /\ Live(Front) /\ UNCHANGED frame
        BY <2>1, <3>1
      <4> QED BY <2>0, <3>1, <4>1, <4>2, <4>3, <2>CheckStarts
    <3>3. CASE ~lease.armed
      <4>1. tasks' = Tail(tasks) /\ UNCHANGED <<worker, reset>>
        BY <2>4, <3>3 DEF SettlementLost
      <4> QED BY <2>1, <3>1, <4>1, <2>CheckEnds
    <3> QED BY <3>2, <3>3
  <2>5. CASE SettlementRechecks
    <3>1. /\ Verified({"TransientDisconnect"}) /\ NextCheck(CheckDone, Tail(tasks))
          /\ UNCHANGED <<gen, worker, reset>>
      BY <2>5 DEF SettlementRechecks
    <3>2. settle.requested
      BY <2>1, <3>1 DEF Superseded, IsTransient
    <3>3. CheckDone \in SettleType /\ CheckDone.requested
      BY <2>0, <3>2 DEF CheckDone, SettleType
    <3> QED BY <2>1, <3>1, <3>3, <2>CheckGoesOn
  <2>6. CASE SettlementRepairs
    <3>1. /\ Verified({"TransientDisconnect"}) /\ Cancel /\ state' = "InProgress"
          /\ worker' = [kind |-> "Apply", gen |-> gen']
          /\ tasks' = Append(Tail(tasks), Task("Apply", "repair"))
          /\ UNCHANGED <<timers, reset>>
      BY <2>6 DEF SettlementRepairs
    <3> QED BY <2>0, <2>1, <3>1, <2>CheckStarts
  <2>7. CASE BaselineVerified
    <3>1. /\ Verified(Baseline) /\ tasks' = Tail(tasks) /\ UNCHANGED <<gen, worker, timers, reset>>
      BY <2>7 DEF BaselineVerified
    <3> QED BY <2>1, <3>1, <2>CheckEnds
  <2>8. CASE InitialVerified
    <3>1. /\ Verified({"Initial"}) /\ UNCHANGED <<gen, worker, reset>>
          /\ \/ settle.requested /\ NextCheck(settle, Tail(tasks))
             \/ tasks' = Tail(tasks) /\ UNCHANGED timers
      BY <2>8 DEF InitialVerified
    <3> QED BY <2>0, <2>1, <3>1, <2>CheckEnds, <2>CheckGoesOn
  <2>9. CASE FailedUnderSettlement
    <3>1. /\ Verified({"Initial"} \cup Baseline) /\ UNCHANGED <<gen, worker, reset>>
          /\ settle.requested
          /\ \/ NextCheck(settle, Tail(tasks))
             \/ tasks' = Tail(tasks) /\ UNCHANGED timers
      BY <2>9 DEF FailedUnderSettlement
    <3> QED BY <2>0, <2>1, <3>1, <2>CheckEnds, <2>CheckGoesOn
  <2>10. CASE BaselineRepairStarted \/ InitialRetried
    <3>1. PICK mode \in {"full", "repair", "rollback"} :
            /\ tasks' = Append(Tail(tasks), Task("Apply", mode))
            /\ state' = "InProgress" /\ worker' = [kind |-> "Apply", gen |-> gen']
      BY <2>10 DEF BaselineRepairStarted, InitialRetried
    <3>2. PICK m : Verified({m}) /\ UNCHANGED <<gen, timers, reset>>
      BY <2>10 DEF BaselineRepairStarted, InitialRetried, FailedVerification
    <3> QED BY <2>0, <2>1, <3>1, <3>2, <2>CheckStarts
  <2>11. CASE BaselineRepairFailed \/ InitialFailed
    <3>1. PICK m : Verified({m}) /\ UNCHANGED <<gen, timers, reset, worker>> /\ tasks' = Tail(tasks)
      BY <2>11 DEF BaselineRepairFailed, InitialFailed, FailedVerification
    <3> QED BY <2>1, <3>1, <2>CheckEnds
  <2> QED BY <2>2, <2>3, <2>4, <2>5, <2>6, <2>7, <2>8, <2>9, <2>10, <2>11 DEF VerificationCompleted

(* Handlers that go on after a drain call *)

<1>FenceContinues.
    ASSUME TypeOK, EpochInv, FenceInv, Continue
    PROVE  FenceInv'

  <2>FenceFinish.
      ASSUME TypeOK, EpochInv, FenceInv, Finish \/ RolledBack
      PROVE  FenceInv'
    <3> USE <2>FenceFinish
    <3>0. settle \in SettleType /\ reset \in ResetType /\ frame \in FrameType /\ session \in SessionType
          /\ world \in WorldType
      BY DEF TypeOK
    <3>1. /\ UNCHANGED <<gen, worker, tasks, timers, deferred, link>>
          /\ frame.at \in {"finish", "rolledBack"}
      BY DEF Finish, RolledBack, At
    <3>2. QueueInv' /\ ~AnyLive' /\ ~TransientLive' /\ (HasReset(tasks') <=> HasReset(tasks))
      BY <3>1, <1>QueuesKept DEF FenceInv, ControlInv, FrameInv, AnyLive, TransientLive, HasTransient,
         HasLive
    <3>3. /\ worker = NoWorker /\ ~reset.pending /\ ~HasReset(tasks)
          /\ (Running => ~reset.completion.held)
          /\ frame.caller = "reset" =>
               ~settle.deferredFinal /\ ~(settle.pending /\ settle.finalPending)
      BY <3>1 DEF FenceInv, ControlInv, FrameInv, HeldInv, Free, WorkerActive
    <3>4. HasDeferredApply' <=> HasDeferredApply
      BY <3>1 DEF HasDeferredApply, StaleEpoch
    <3>5. HasDeferredApply => ~settle.pending /\ ~settle.deferredFinal
      BY SettlesAlone DEF EpochInv, NothingPending
    <3>6. CASE Finish
      <4>1. PICK next \in {"rolledBack", "superseded", "decide"}, d \in Completion :
              /\ frame' = [frame EXCEPT !.at = next, !.baseline = identity.inFlight]
              /\ next = "superseded" => HasDeferredApply
              /\ next = "decide" => ~HasDeferredApply
              /\ reset' = IF next = "superseded"
                          THEN [reset EXCEPT !.completion = [held |-> TRUE, done |-> d]] ELSE reset
        BY <3>0, <3>6 DEF Finish, FrameType
      <4>2. UNCHANGED state /\ Running /\ Running' /\ frame.at = "finish"
        BY <3>0, <3>6 DEF Finish, At, WorldType, Running
      <4>3. /\ settle'.pending = settle.pending /\ settle'.deferredFinal = settle.deferredFinal
            /\ settle'.finalPending = settle.finalPending
        BY <3>0, <3>6 DEF Finish, SettleType
      <4>4. frame'.at = next /\ frame'.caller = frame.caller
        BY <3>0, <4>1 DEF FrameType
      <4>5. ~reset'.pending /\ (reset'.completion.held => next = "superseded")
        BY <3>0, <3>3, <4>1, <4>2 DEF ResetType
      <4>6. state = "InProgress"
        BY <4>2 DEF FenceInv, FrameInv
      <4>7. ControlInv'
        BY <3>1, <3>2, <3>3, <4>5 DEF ControlInv, WorkerActive, NoWorker
      <4>8. FrameInv'
        BY <3>1, <3>2, <3>3, <3>4, <4>1, <4>3, <4>4, <4>5 DEF FrameInv, Free, WorkerActive
      <4>9. HeldInv'
        BY <3>1, <3>3, <3>5, <4>1, <4>2, <4>3, <4>4, <4>5, <4>6 DEF HeldInv, WorkerActive
      <4> QED BY <3>2, <4>7, <4>8, <4>9 DEF FenceInv
    <3>7. CASE RolledBack
      <4>1. /\ UNCHANGED <<settle, reset>> /\ frame' = DrainThen("rollback") /\ Running
        BY <3>7 DEF RolledBack, At
      <4>2. frame'.at = "rollback" /\ frame'.caller = frame.caller
        BY <3>0, <4>1 DEF DrainThen, FrameType
      <4>3. ControlInv'
        BY <3>1, <3>2, <3>3, <4>1 DEF ControlInv, WorkerActive, NoWorker
      <4>4. FrameInv'
        BY <3>2, <3>3, <4>1, <4>2 DEF FrameInv
      <4>5. HeldInv'
        BY <3>3, <4>1 DEF HeldInv
      <4> QED BY <3>2, <4>3, <4>4, <4>5 DEF FenceInv
    <3> QED BY <3>6, <3>7

  \* What Returned makes of a frame.
  <2>ReturnedFrame.
      ASSUME frame' = Returned
      PROVE  /\ frame'.caller = "message"
             /\ frame'.at = IF frame.caller = "reset" THEN "resetTail" ELSE "idle"
    BY <2>ReturnedFrame DEF Returned, IdleFrame

  <2>FenceReturns.
      ASSUME TypeOK, EpochInv, FenceInv, AfterReturn \/ AfterSuperseded \/ AfterRestored \/ AfterRestoredFollowup
      PROVE  FenceInv'
    <3> USE <2>FenceReturns
    <3>0. settle \in SettleType /\ reset \in ResetType /\ frame \in FrameType
      BY DEF TypeOK
    <3>1. /\ UNCHANGED <<gen, worker, tasks, timers, state, session, settle, deferred>>
          /\ Running
      BY DEF AfterReturn, AfterSuperseded, AfterRestored, AfterRestoredFollowup, After, DrainedOut
    <3>2. /\ QueueInv' /\ (AnyLive' <=> AnyLive) /\ (TransientLive' <=> TransientLive)
          /\ HasReset(tasks') <=> HasReset(tasks)
      BY <3>1, <1>QueuesKept DEF FenceInv
    <3>3. reset'.pending = reset.pending
      BY <3>0 DEF AfterReturn, AfterSuperseded, AfterRestored, AfterRestoredFollowup, ResetType
    <3>4. ControlInv'
      BY <3>1, <3>2, <3>3 DEF FenceInv, ControlInv, WorkerActive
    <3>5. CASE AfterReturn
      <4>1. frame.at = "return" /\ frame' = Returned /\ UNCHANGED reset
        BY <3>5 DEF AfterReturn, After
      <4>2. FrameInv'
        BY <3>0, <3>1, <3>2, <4>1, <2>ReturnedFrame DEF FenceInv, FrameInv
      <4>3. HeldInv'
        BY <3>1, <4>1 DEF FenceInv, HeldInv, WorkerActive
      <4> QED BY <3>2, <3>4, <4>2, <4>3 DEF FenceInv
    <3>6. CASE AfterSuperseded
      <4>1. frame.at = "superseded" /\ UNCHANGED link /\ (~Free \/ deferred = <<>>)
        BY <3>6 DEF AfterSuperseded, After, DrainedOut
      <4>2. ~AnyLive'
        BY <3>2, <4>1 DEF FenceInv, FrameInv
      <4>3. CASE Free
        <5>1. /\ frame' = [frame EXCEPT !.at = "decide"]
              /\ reset' = [reset EXCEPT !.completion = NoneHeld]
          BY <3>6, <4>3 DEF AfterSuperseded
        <5>2. frame'.at = "decide" /\ frame'.caller = frame.caller /\ ~reset'.completion.held
          BY <3>0, <5>1 DEF FrameType, ResetType, NoneHeld
        <5>3. ~HasDeferredApply'
          BY <3>1, <4>1, <4>3, SMTT(60) DEF HasDeferredApply
        <5>4. FrameInv'
          BY <3>1, <3>3, <4>2, <4>3, <5>2, <5>3 DEF FenceInv, FrameInv, Free, WorkerActive
        <5>5. HeldInv'
          BY <5>2 DEF HeldInv
        <5> QED BY <3>2, <3>4, <5>4, <5>5 DEF FenceInv
      <4>4. CASE ~Free
        <5>1. frame' = Returned /\ UNCHANGED reset
          BY <3>6, <4>4 DEF AfterSuperseded
        <5>2. FrameInv'
          BY <4>2, <5>1, <2>ReturnedFrame DEF FrameInv
        <5>3. HeldInv'
          BY <3>1, <4>4, <5>1 DEF FenceInv, HeldInv, Free, WorkerActive
        <5> QED BY <3>2, <3>4, <5>2, <5>3 DEF FenceInv
      <4> QED BY <4>3, <4>4
    <3>7. CASE AfterRestored \/ AfterRestoredFollowup
      <4>1. frame' = IdleFrame /\ frame.at \in {"restored", "restoredFollowup"}
            /\ reset'.completion = reset.completion
        BY <3>0, <3>7 DEF AfterRestored, AfterRestoredFollowup, After, ResetType
      <4>2. FrameInv'
        BY <4>1 DEF FrameInv, IdleFrame
      <4>3. HeldInv'
        BY <3>1, <3>3, <4>1 DEF FenceInv, HeldInv, WorkerActive
      <4> QED BY <3>2, <3>4, <4>2, <4>3 DEF FenceInv
    <3> QED BY <3>5, <3>6, <3>7

  <2>FenceSettles.
      ASSUME TypeOK, EpochInv, FenceInv, AfterRollback \/ AfterSettling
      PROVE  FenceInv'
    <3> USE <2>FenceSettles
    <3>0. settle \in SettleType /\ reset \in ResetType /\ frame \in FrameType /\ session \in SessionType
      BY DEF TypeOK
    <3>1. /\ UNCHANGED <<worker, reset>> /\ frame' = Returned /\ Running
          /\ frame.at \in {"rollback", "repairOk", "failed"}
          /\ session'.reactivating = session.reactivating
      BY <3>0 DEF AfterRollback, AfterSettling, After, DrainedOut, SessionType
    <3>2. ~AnyLive /\ ~TransientLive /\ QueueInv /\ (HasReset(tasks) <=> reset.pending)
      BY <3>1 DEF FenceInv, ControlInv, FrameInv, AnyLive, TransientLive, HasTransient, HasLive
    <3>3. /\ reset.completion.held => reset.pending /\ ~settle.pending /\ ~settle.deferredFinal
          /\ reset.completion.held => state = "InProgress" /\ worker = NoWorker
          /\ frame.caller = "reset" =>
               ~settle.deferredFinal /\ ~(settle.pending /\ settle.finalPending)
      BY <3>1 DEF FenceInv, HeldInv, FrameInv, WorkerActive
    <3>4. frame'.caller = "message" /\ frame'.at \in {"idle", "resetTail"}
          /\ (frame'.at = "resetTail" => frame.caller = "reset")
      BY <3>1, <2>ReturnedFrame
    <3>5. CASE UNCHANGED <<gen, settle, state, tasks, timers>>
      <4>1. /\ QueueInv' /\ ~AnyLive' /\ ~TransientLive' /\ (HasReset(tasks') <=> reset.pending)
        BY <3>1, <3>2, <3>5, <1>QueuesKept
      <4>2. ControlInv'
        BY <3>1, <3>5, <4>1 DEF FenceInv, ControlInv, WorkerActive
      <4>3. FrameInv'
        BY <3>4, <4>1 DEF FrameInv
      <4>4. HeldInv'
        BY <3>1, <3>3, <3>5 DEF HeldInv, WorkerActive
      <4> QED BY <4>1, <4>2, <4>3, <4>4 DEF FenceInv
    <3>6. CASE /\ reset.pending /\ ~WorkerActive /\ UNCHANGED <<state, tasks, timers>>
               /\ gen' = gen \/ Cancel
               /\ ~settle.pending => ~settle'.pending /\ settle'.deferredFinal = settle.deferredFinal
      <4>1. /\ QueueInv' /\ ~AnyLive' /\ ~TransientLive' /\ (HasReset(tasks') <=> reset.pending)
        BY <3>1, <3>2, <3>6, <1>QueuesKept, <1>QueuesCancelled
      <4>2. ControlInv'
        BY <3>1, <3>6, <4>1, SMTT(60) DEF FenceInv, ControlInv, WorkerActive, NoWorker
      <4>3. FrameInv'
        BY <3>4, <4>1 DEF FrameInv
      <4>4. HeldInv'
        BY <3>1, <3>3, <3>6 DEF HeldInv, WorkerActive
      <4> QED BY <4>1, <4>2, <4>3, <4>4 DEF FenceInv
    <3>7. CASE /\ settle.requested /\ ~WorkerActive /\ ~reset.pending
               /\ gen' = gen \/ Cancel
               /\ NextCheck(settle, tasks)
      <4>1. /\ QueueOK(gen', NoWorker, tasks, timers) /\ worker' = NoWorker
            /\ ~HasLive(gen', tasks) /\ ~HasLive(gen', timers) /\ ~HasTransient(gen', tasks)
        BY <3>1, <3>2, <3>7, <1>TasksCancelled DEF QueueInv, AnyLive, TransientLive, WorkerActive
      <4>2. /\ QueueInv' /\ (HasReset(tasks') <=> reset.pending)
            /\ AnyLive' => state' = "Verification"
            /\ TransientLive' => settle'.pending /\ ~reset.pending
            /\ settle'.requested /\ settle'.deferredFinal = settle.deferredFinal
        BY <3>0, <3>2, <3>7, <4>1, <1>CheckKept
      <4>3. ControlInv'
        BY <3>1, <4>1, <4>2, SMTT(60) DEF ControlInv, WorkerActive, NoWorker
      <4>4. FrameInv'
        BY <3>3, <3>4, <4>2 DEF FrameInv
      <4>5. HeldInv'
        BY <3>1, <3>3, <3>7 DEF HeldInv
      <4> QED BY <4>2, <4>3, <4>4, <4>5 DEF FenceInv
    <3>8. PrepareCancel => gen' = gen \/ Cancel
      BY DEF PrepareCancel, Cancel
    <3>9. DeferSettlement => /\ gen' = gen \/ Cancel
                             /\ ~settle.pending => ~settle'.pending /\ settle'.deferredFinal = settle.deferredFinal
      BY <3>0 DEF DeferSettlement, SettleDeferred, SettleType
    <3>10. CASE AfterRollback
      <4>1. \/ UNCHANGED <<gen, settle, state, tasks, timers>>
            \/ /\ SettlesNow /\ reset.pending /\ settle' = [settle EXCEPT !.deferredByReset = TRUE]
               /\ UNCHANGED <<gen, state, tasks, timers>>
            \/ SettlesNow /\ ~reset.pending /\ PrepareCancel /\ CheckDelayed(settle, tasks)
        BY <3>10 DEF AfterRollback
      <4>2. settle' = [settle EXCEPT !.deferredByReset = TRUE] =>
              settle'.pending = settle.pending /\ settle'.deferredFinal = settle.deferredFinal
        BY <3>0 DEF SettleType
      <4> QED BY <3>5, <3>6, <3>7, <3>8, <4>1, <4>2 DEF SettlesNow, NextCheck
    <3>11. CASE AfterSettling
      <4>1. \/ UNCHANGED <<gen, settle, state, tasks, timers>>
            \/ SettlesNow /\ reset.pending /\ DeferSettlement /\ UNCHANGED <<state, tasks, timers>>
            \/ SettlesNow /\ ~reset.pending /\ UNCHANGED gen /\ NextCheck(settle, tasks)
        BY <3>11 DEF AfterSettling
      <4> QED BY <3>5, <3>6, <3>7, <3>9, <4>1 DEF SettlesNow
    <3> QED BY <3>10, <3>11

  <2>FenceDecides.
      ASSUME TypeOK, EpochInv, FenceInv,
             \/ DecideBaselineFailed \/ DecideVerify \/ DecideSettling \/ DecideFailed
             \/ AfterLastRepair \/ AfterLastFailure \/ ConcludeHdr \/ ConcludeFailed
      PROVE  FenceInv'
    <3> USE <2>FenceDecides
    <3>0. /\ settle \in SettleType /\ reset \in ResetType /\ frame \in FrameType
          /\ {"repair", "none", "Initial", "BaselineTopologyRepair"} \subseteq Modes
      BY DEF TypeOK, Modes
    <3>1. /\ Running /\ UNCHANGED <<gen, timers, deferred, link>>
          /\ frame.at \in {"decide", "conclude"} \/ (frame.at \in {"repairOk", "failed"} /\ Free)
      BY DEF DecideBaselineFailed, DecideVerify, DecideSettling, DecideFailed, AfterLastRepair,
         AfterLastFailure, ConcludeHdr, ConcludeFailed, At, After, SettlesNow, Free, DrainedOut
    <3>2. /\ ~AnyLive /\ ~TransientLive /\ QueueInv /\ ~HasReset(tasks) /\ worker = NoWorker
          /\ ~reset.pending /\ ~reset.completion.held
          /\ frame.caller = "reset" =>
               ~settle.deferredFinal /\ ~(settle.pending /\ settle.finalPending)
      BY <3>1 DEF FenceInv, ControlInv, FrameInv, HeldInv, AnyLive, TransientLive, HasTransient,
         HasLive, Free, WorkerActive
    <3>3. /\ QueueOK(gen', NoWorker, tasks, timers)
          /\ ~HasLive(gen', tasks) /\ ~HasLive(gen', timers) /\ ~HasTransient(gen', tasks)
      BY <3>1, <3>2 DEF QueueInv, AnyLive, TransientLive
    <3>4. frame.at = "decide" => ~HasDeferredApply /\ ~HasDeferredApply'
      BY <3>1 DEF FenceInv, FrameInv, HasDeferredApply, StaleEpoch
    <3>5. CASE DecideBaselineFailed \/ DecideSettling \/ DecideFailed \/ AfterLastRepair \/ AfterLastFailure
      <4>1. /\ UNCHANGED <<worker, tasks, reset>>
            /\ frame'.at \in {"return", "repairOk", "failed", "conclude"}
            /\ frame'.caller = frame.caller
        BY <3>0, <3>5 DEF DecideBaselineFailed, DecideSettling, DecideFailed, AfterLastRepair,
           AfterLastFailure, DrainThen, FrameType
      <4>2. settle' = settle \/ settle' = NoSettle \/ settle' = [settle EXCEPT !.repair = FALSE]
        BY <3>5 DEF DecideBaselineFailed, DecideSettling, DecideFailed, AfterLastRepair,
           AfterLastFailure
      <4>3. \/ ~settle'.deferredFinal /\ ~settle'.pending
            \/ /\ settle'.deferredFinal = settle.deferredFinal
               /\ settle'.pending = settle.pending /\ settle'.finalPending = settle.finalPending
        BY <3>0, <4>2, SMTT(60) DEF NoSettle, SettleType
      <4>4. QueueInv' /\ ~AnyLive' /\ ~TransientLive' /\ ~HasReset(tasks')
        BY <3>1, <3>2, <4>1, <1>QueuesKept
      <4>5. ControlInv'
        BY <3>2, <4>1, <4>4 DEF ControlInv, WorkerActive, NoWorker
      <4>6. FrameInv'
        BY <3>2, <4>1, <4>3, <4>4 DEF FrameInv, Free, WorkerActive
      <4>7. HeldInv'
        BY <3>2, <4>1 DEF HeldInv
      <4> QED BY <4>4, <4>5, <4>6, <4>7 DEF FenceInv
    <3>6. CASE DecideVerify
      <4>1. /\ frame.at = "decide" /\ state' = "Verification" /\ UNCHANGED <<worker, reset, settle>>
            /\ frame' = DrainThen("return")
        BY <3>6 DEF DecideVerify, At
      <4>2. PICK mode \in {"Initial", "BaselineTopologyRepair"} :
              tasks' = Append(tasks, Task("Verification", mode))
        BY <3>6 DEF DecideVerify
      <4>3. QueueInv' /\ ~HasReset(tasks') /\ ~TransientLive'
        BY <3>0, <3>1, <3>2, <3>3, <4>1, <4>2, <1>CheckDispatched
      <4>4. frame'.at = "return" /\ frame'.caller = frame.caller
        BY <3>0, <4>1 DEF DrainThen, FrameType
      <4>5. ControlInv'
        BY <3>2, <4>1, <4>3 DEF ControlInv, WorkerActive, NoWorker
      <4>6. FrameInv'
        BY <3>2, <3>4, <4>1, <4>3, <4>4 DEF FrameInv
      <4>7. HeldInv'
        BY <3>2, <4>1 DEF HeldInv
      <4> QED BY <4>3, <4>5, <4>6, <4>7 DEF FenceInv
    <3>7. CASE ConcludeHdr
      <4>1. /\ state' = "InProgress" /\ UNCHANGED <<reset, settle>> /\ frame' = Returned
            /\ worker' = [kind |-> "Apply", gen |-> gen']
            /\ tasks' = Append(tasks, Task("Apply", "repair"))
        BY <3>7 DEF ConcludeHdr, DispatchApply
      <4>2. QueueInv' /\ ~AnyLive' /\ ~TransientLive' /\ ~HasReset(tasks')
        BY <3>0, <3>1, <3>2, <3>3, <4>1, <1>MutationDispatched
      <4>3. ControlInv'
        BY <3>2, <4>1, <4>2 DEF ControlInv
      <4>4. FrameInv'
        BY <4>1, <4>2, <2>ReturnedFrame DEF FrameInv
      <4>5. HeldInv'
        BY <3>2, <4>1 DEF HeldInv
      <4> QED BY <4>2, <4>3, <4>4, <4>5 DEF FenceInv
    <3>8. CASE ConcludeFailed
      <4>1. UNCHANGED <<worker, settle>> /\ frame' = DrainThen("return")
        BY <3>8 DEF ConcludeFailed
      <4>2. PICK drop \in BOOLEAN :
              /\ reset' = IF drop THEN BeginReset(reset) ELSE reset
              /\ tasks' = IF drop /\ ~reset.pending THEN Append(tasks, Task("Reset", "none"))
                          ELSE tasks
        BY <3>8 DEF ConcludeFailed
      <4>3. QueueInv' /\ ~AnyLive' /\ ~TransientLive' /\ (HasReset(tasks') <=> drop)
        <5>1. CASE drop
          BY <3>0, <3>1, <3>2, <3>3, <4>1, <4>2, <5>1, <1>ResetDispatched
        <5>2. CASE ~drop
          BY <3>1, <3>2, <4>1, <4>2, <5>2, <1>QueuesKept
        <5> QED BY <5>1, <5>2
      <4>4. (reset'.pending <=> drop) /\ ~reset'.completion.held
        BY <3>0, <3>2, <4>2 DEF BeginReset, ResetType
      <4>5. frame'.at = "return" /\ frame'.caller = frame.caller
        BY <3>0, <4>1 DEF DrainThen, FrameType
      <4>6. ControlInv'
        BY <3>2, <4>1, <4>3, <4>4 DEF ControlInv, WorkerActive, NoWorker
      <4>7. FrameInv'
        BY <3>2, <4>1, <4>3, <4>5 DEF FrameInv
      <4>8. HeldInv'
        BY <4>4 DEF HeldInv
      <4> QED BY <4>3, <4>6, <4>7, <4>8 DEF FenceInv
    <3> QED BY <3>5, <3>6, <3>7, <3>8

  \* handle_reset_completed after its drain call.
  <2>FenceAfterReset.
      ASSUME TypeOK, EpochInv, FenceInv, AfterReset \/ ResetExits
      PROVE  FenceInv'
    <3> USE <2>FenceAfterReset
    <3>0. settle \in SettleType /\ reset \in ResetType /\ frame \in FrameType
      BY DEF TypeOK
    <3>1. UNCHANGED <<gen, worker, tasks, timers, state, session, settle, deferred>> /\ Running
      BY DEF AfterReset, ResetExits, After, At, DrainedOut
    <3>2. /\ QueueInv' /\ (AnyLive' <=> AnyLive) /\ (TransientLive' <=> TransientLive)
          /\ HasReset(tasks') <=> HasReset(tasks)
      BY <3>1, <1>QueuesKept DEF FenceInv
    <3>3. reset'.pending = reset.pending
      BY <3>0 DEF AfterReset, ResetExits, ResetType
    <3>4. ControlInv'
      BY <3>1, <3>2, <3>3 DEF FenceInv, ControlInv, WorkerActive
    <3>5. CASE AfterReset
      <4>1. frame.at = "resetDone" /\ ~AnyLive'
        BY <3>2, <3>5 DEF AfterReset, After, FenceInv, FrameInv
      <4>2. CASE Free /\ reset.completion.held
        <5>1. /\ frame'.at = "finish" /\ frame'.caller = "reset"
              /\ reset' = [reset EXCEPT !.completion = NoneHeld]
          BY <3>5, <4>2 DEF AfterReset, IdleFrame
        <5>2. ~reset'.completion.held
          BY <3>0, <5>1 DEF ResetType, NoneHeld
        <5>3. state = "InProgress" /\ ~settle.pending /\ ~settle.deferredFinal
          BY <3>1, <4>2 DEF FenceInv, HeldInv
        <5>4. FrameInv'
          BY <3>1, <3>3, <4>1, <4>2, <5>1, <5>3 DEF FrameInv, Free, WorkerActive
        <5>5. HeldInv'
          BY <5>2 DEF HeldInv
        <5> QED BY <3>2, <3>4, <5>4, <5>5 DEF FenceInv
      <4>3. CASE ~(Free /\ reset.completion.held)
        <5>1. frame'.at = "resetTail" /\ frame'.caller = "message" /\ UNCHANGED reset
          BY <3>5, <4>3 DEF AfterReset, IdleFrame
        <5>2. FrameInv'
          BY <4>1, <5>1 DEF FrameInv
        <5>3. HeldInv'
          BY <3>1, <4>3, <5>1 DEF FenceInv, HeldInv, Free, WorkerActive
        <5> QED BY <3>2, <3>4, <5>2, <5>3 DEF FenceInv
      <4> QED BY <4>2, <4>3
    <3>6. CASE ResetExits
      <4>1. /\ frame' = IdleFrame /\ frame.at = "resetTail" /\ reset'.completion = reset.completion
        BY <3>0, <3>6 DEF ResetExits, At, ResetType
      <4>2. FrameInv'
        BY <4>1 DEF FrameInv, IdleFrame
      <4>3. HeldInv'
        BY <3>1, <3>3, <4>1 DEF FenceInv, HeldInv, WorkerActive
      <4> QED BY <3>2, <3>4, <4>2, <4>3 DEF FenceInv
    <3> QED BY <3>5, <3>6

  <2>FenceResumes.
      ASSUME TypeOK, EpochInv, FenceInv, ResetResumes
      PROVE  FenceInv'
    <3> USE <2>FenceResumes
    <3>0. settle \in SettleType /\ reset \in ResetType /\ session \in SessionType
      BY DEF TypeOK
    <3>1. /\ UNCHANGED <<worker, reset>> /\ frame' = IdleFrame /\ Running /\ frame.at = "resetTail"
          /\ session'.reactivating = session.reactivating
      BY <3>0 DEF ResetResumes, At, SessionType
    <3>2. frame'.at = "idle" /\ frame'.caller = "message"
      BY <3>1 DEF IdleFrame
    <3>3. /\ QueueInv /\ (HasReset(tasks) <=> reset.pending)
          /\ reset.completion.held => reset.pending
      BY <3>1 DEF FenceInv, ControlInv, HeldInv
    <3>4. Resumed \in SettleType
          /\ Resumed.requested = settle.requested /\ Resumed.pending = settle.pending
          /\ Resumed.deferredFinal = settle.deferredFinal
      BY <3>0 DEF Resumed, SettleType
    <3>5. FrameInv'
      BY <3>2 DEF FrameInv
    <3>6. CASE reset.pending
      <4>1. UNCHANGED <<gen, settle, state, tasks, timers>>
        BY <3>6 DEF ResetResumes
      <4>2. /\ QueueInv' /\ (AnyLive' <=> AnyLive) /\ (TransientLive' <=> TransientLive)
            /\ HasReset(tasks') <=> HasReset(tasks)
        BY <3>1, <3>3, <4>1, <1>QueuesKept
      <4>3. ControlInv'
        BY <3>1, <4>1, <4>2 DEF FenceInv, ControlInv, WorkerActive
      <4>4. HeldInv'
        BY <3>1, <3>6, <4>1 DEF FenceInv, HeldInv, WorkerActive
      <4> QED BY <3>5, <4>2, <4>3, <4>4 DEF FenceInv
    <3>7. CASE ~reset.pending /\ ~ResumesSettlement
      <4>1. UNCHANGED <<gen, state, tasks, timers>> /\ settle' = Resumed
        BY <3>7 DEF ResetResumes
      <4>2. /\ QueueInv' /\ (AnyLive' <=> AnyLive) /\ (TransientLive' <=> TransientLive)
            /\ HasReset(tasks') <=> HasReset(tasks)
        BY <3>1, <3>3, <4>1, <1>QueuesKept
      <4>3. ControlInv'
        BY <3>1, <3>4, <4>1, <4>2 DEF FenceInv, ControlInv, WorkerActive
      <4> QED BY <3>1, <3>2, <3>3, <3>7, <4>2, <4>3, <1>Idles
    <3>8. CASE ~reset.pending /\ ResumesSettlement
      <4>1. /\ settle.requested /\ worker = NoWorker
            /\ AnyLive => session.verified /\ state = "Verification"
        BY <3>8 DEF ResumesSettlement, SettlesNow, WorkerActive, FenceInv, ControlInv
      <4>2. CASE settle.deferredFinal
        <5> DEFINE x == [Resumed EXCEPT !.deferredFinal = FALSE]
        <5>1. UNCHANGED gen /\ FinalCheck(x, tasks)
          BY <3>8, <4>2 DEF ResetResumes
        <5>2. x \in SettleType /\ x.requested
          BY <3>4, <4>1 DEF SettleType
        <5> HIDE DEF x
        <5>3. ~AnyLive
          BY <3>1, <4>2 DEF FenceInv, FrameInv
        <5>4. /\ QueueOK(gen', NoWorker, tasks, timers) /\ worker' = NoWorker
              /\ ~HasLive(gen', tasks) /\ ~HasLive(gen', timers) /\ ~HasTransient(gen', tasks)
          BY <3>1, <3>3, <4>1, <5>1, <5>3 DEF QueueInv, AnyLive, HasTransient, HasLive
        <5>5. /\ QueueInv' /\ (HasReset(tasks') <=> reset.pending)
              /\ AnyLive' => state' = "Verification"
              /\ TransientLive' => settle'.pending /\ ~reset.pending
              /\ settle'.requested
          BY <3>3, <3>8, <5>1, <5>2, <5>4, <1>CheckKept
        <5>6. ControlInv'
          BY <3>1, <5>4, <5>5, SMTT(60) DEF ControlInv, WorkerActive, NoWorker
        <5> QED BY <3>1, <3>2, <3>3, <3>8, <5>5, <5>6, <1>Idles
      <4>3. CASE ~settle.deferredFinal /\ settle.pending
        <5>1. UNCHANGED gen /\ (NextCheck(Resumed, tasks) \/ CheckRefused(Resumed))
          BY <3>8, <4>3 DEF ResetResumes
        <5>2. CheckWaits(Resumed, tasks)
          BY <3>4, <4>3, <5>1 DEF NextCheck, CheckDelayed, CheckFinal, CheckRefused
        <5>3. /\ UNCHANGED <<gen, tasks, timers, state>>
              /\ settle'.requested = settle.requested /\ settle'.pending = settle.pending
          BY <3>4, <5>1, <5>2 DEF CheckWaits, SettleType
        <5>4. /\ QueueInv' /\ (AnyLive' <=> AnyLive) /\ (TransientLive' <=> TransientLive)
              /\ HasReset(tasks') <=> HasReset(tasks)
          BY <3>1, <3>3, <5>3, <1>QueuesKept
        <5>5. ControlInv'
          BY <3>1, <5>3, <5>4 DEF FenceInv, ControlInv, WorkerActive
        <5> QED BY <3>1, <3>2, <3>3, <3>8, <5>4, <5>5, <1>Idles
      <4>4. CASE ~settle.deferredFinal /\ ~settle.pending
        <5>1. /\ PrepareCancel
              /\ \/ NextCheck(Resumed, tasks)
                 \/ settle' = NoSettle /\ UNCHANGED <<state, tasks, timers>>
          BY <3>8, <4>4 DEF ResetResumes
        <5>2. /\ QueueOK(gen', NoWorker, tasks, timers) /\ worker' = NoWorker
              /\ ~HasLive(gen', tasks) /\ ~HasLive(gen', timers) /\ ~HasTransient(gen', tasks)
          <6>1. CASE AnyLive
            <7>1. Cancel
              BY <4>1, <5>1, <6>1 DEF PrepareCancel, Cancel
            <7> QED BY <3>1, <3>3, <4>1, <7>1, <1>TasksCancelled
          <6>2. CASE ~AnyLive /\ gen' = gen
            BY <3>1, <3>3, <4>1, <6>2 DEF QueueInv, AnyLive, HasTransient, HasLive
          <6>3. CASE Cancel
            BY <3>1, <3>3, <4>1, <6>3, <1>TasksCancelled
          <6> QED BY <5>1, <6>1, <6>2, <6>3 DEF PrepareCancel, Cancel
        <5>3. CASE NextCheck(Resumed, tasks)
          <6>1. /\ QueueInv' /\ (HasReset(tasks') <=> reset.pending)
                /\ AnyLive' => state' = "Verification"
                /\ TransientLive' => settle'.pending /\ ~reset.pending
                /\ settle'.requested
            BY <3>3, <3>4, <4>1, <5>2, <5>3, <1>CheckKept
          <6>2. ControlInv'
            BY <3>1, <5>2, <6>1, SMTT(60) DEF ControlInv, WorkerActive, NoWorker
          <6> QED BY <3>1, <3>2, <3>3, <3>8, <6>1, <6>2, <1>Idles
        <5>4. CASE settle' = NoSettle /\ UNCHANGED <<state, tasks, timers>>
          <6>1. QueueInv' /\ ~AnyLive' /\ ~TransientLive' /\ (HasReset(tasks') <=> reset.pending)
            BY <3>3, <5>2, <5>4 DEF QueueInv, AnyLive, TransientLive
          <6>2. ControlInv'
            BY <3>1, <5>2, <6>1, SMTT(60) DEF ControlInv, WorkerActive, NoWorker
          <6> QED BY <3>1, <3>2, <3>3, <3>8, <6>1, <6>2, <1>Idles
        <5> QED BY <5>1, <5>3, <5>4
      <4> QED BY <3>0, <4>2, <4>3, <4>4 DEF SettleType
    <3> QED BY <3>6, <3>7, <3>8

  <2> USE <1>FenceContinues
  <2> QED
    BY <2>FenceFinish, <2>FenceReturns, <2>FenceSettles, <2>FenceDecides, <2>FenceAfterReset, <2>FenceResumes
       DEF Continue, FinishApply

(* Commands, run at once or from the drain loop *)

\* The handler cancels whatever check is live and dispatches nothing.
<1>Cancels.
    ASSUME FenceInv, Handles, worker = NoWorker, Cancel, UNCHANGED <<worker, tasks, timers, frame>>,
           reset'.pending = reset.pending, ~reset'.completion.held,
           settle' = settle \/ NothingPending(settle')
    PROVE  FenceInv'
  <2> USE <1>Cancels
  <2>1. /\ QueueInv' /\ ~AnyLive' /\ ~TransientLive'
        /\ HasReset(tasks') <=> HasReset(tasks)
    BY <1>QueuesCancelled DEF FenceInv
  <2>2. ControlInv'
    BY <2>1 DEF FenceInv, ControlInv, WorkerActive, NoWorker
  <2>3. FrameInv'
    BY <2>1 DEF FenceInv, FrameInv, Handles, DrainPoints, NothingPending
  <2>4. HeldInv'
    BY DEF HeldInv
  <2> QED BY <2>1, <2>2, <2>3, <2>4 DEF FenceInv

\* The handler dispatches a mutation; no check is live, or it is cancelled.
<1>Starts.
    ASSUME FenceInv, Handles, worker = NoWorker, Cancel \/ (gen' = gen /\ ~AnyLive),
           NEW op \in {"Apply", "RefreshRate", "Recovery"}, NEW mode \in Modes,
           worker' = [kind |-> op, gen |-> gen'], tasks' = Append(tasks, Task(op, mode)),
           UNCHANGED <<timers, frame>>, reset'.pending = reset.pending, ~reset'.completion.held,
           settle' = settle \/ NothingPending(settle'),
           state' \notin {"Verification", "EventLoop"},
           op = "Apply" => state' = "InProgress" \/ session'.reactivating
    PROVE  FenceInv'
  <2> USE <1>Starts
  <2>1. /\ QueueOK(gen', NoWorker, tasks, timers)
        /\ ~HasLive(gen', tasks) /\ ~HasLive(gen', timers) /\ ~HasTransient(gen', tasks)
    <3>1. CASE Cancel
      BY <3>1, <1>TasksCancelled DEF FenceInv
    <3>2. CASE gen' = gen /\ ~AnyLive
      BY <3>2 DEF FenceInv, QueueInv, AnyLive, HasTransient, HasLive
    <3> QED BY <3>1, <3>2
  <2>2. worker' = [kind |-> IF op = "Validation" THEN "Recovery" ELSE op, gen |-> gen']
    OBVIOUS
  <2>3. /\ QueueInv' /\ ~AnyLive' /\ ~TransientLive'
        /\ (HasReset(tasks') <=> HasReset(tasks)) /\ worker'.kind = op
    BY <2>1, <2>2, <1>MutationDispatched
  <2>4. ControlInv'
    BY <2>3 DEF FenceInv, ControlInv, WorkerActive
  <2>5. FrameInv'
    BY <2>3 DEF FenceInv, FrameInv, Handles, DrainPoints, NothingPending
  <2>6. HeldInv'
    BY DEF HeldInv
  <2> QED BY <2>3, <2>4, <2>5, <2>6 DEF FenceInv

\* The command has to wait: a settlement may end, and the running mutation may
\* be cancelled.
<1>Waits.
    ASSUME TypeOK, FenceInv, Handles, ~Free, gen' = gen \/ Cancel,
           UNCHANGED <<state, worker, session, reset, frame, tasks, timers, Running>>,
           settle' = settle \/ NothingPending(settle')
    PROVE  FenceInv'

  <2>TransientIsLive. TransientLive => AnyLive
    BY DEF TransientLive, AnyLive, HasTransient, HasLive

  <2> USE <1>Waits
  <2>1. frame.at = "idle"
    BY DEF Handles
  <2>2. ~TransientLive
    BY <2>TransientIsLive DEF FenceInv, ControlInv, Free
  <2>3. /\ QueueInv' /\ (AnyLive' => AnyLive) /\ ~TransientLive'
        /\ HasReset(tasks') <=> HasReset(tasks)
        /\ worker' # NoWorker /\ worker'.gen = gen' => gen' = gen
    <3>1. CASE gen' = gen
      BY <2>2, <3>1, <1>QueuesKept DEF FenceInv
    <3>2. CASE Cancel
      BY <3>2, <1>QueuesCancelled DEF FenceInv, WorkerActive
    <3> QED BY <3>1, <3>2
  <2>4. ControlInv'
    BY <2>3, SMTT(60) DEF FenceInv, ControlInv, WorkerActive, NoWorker
  <2>5. FrameInv'
    BY <2>1 DEF FenceInv, FrameInv
  <2>6. HeldInv'
    BY DEF FenceInv, HeldInv, WorkerActive, NothingPending
  <2> QED BY <2>3, <2>4, <2>5, <2>6 DEF FenceInv

\* RESET dispatches its barrier; a settlement check is cancelled first.
<1>FenceReset.
    ASSUME TypeOK, EpochInv, FenceInv, Handles, NEW c, NEW rest,
           HasDeferredApply' => HasDeferredApply, ResetStarted(c, rest)
    PROVE  FenceInv'
  <2> USE <1>FenceReset
  <2>0. settle \in SettleType /\ reset \in ResetType /\ settle' = SettleDeferred
    BY DEF TypeOK, ResetStarted, DeferSettlement
  <2>1. /\ worker = NoWorker /\ ~reset.pending /\ ~HasReset(tasks)
        /\ UNCHANGED <<state, worker, session, frame, timers, Running>>
        /\ tasks' = Append(tasks, Task("Reset", "none"))
        /\ reset' = BeginReset(reset)
    BY DEF ResetStarted, Free, WorkerActive, FenceInv, ControlInv, Running
  <2>2. /\ reset'.pending /\ reset'.completion = reset.completion
    BY <2>0, <2>1 DEF BeginReset, ResetType
  <2>3. /\ ~settle.pending => ~settle'.pending
        /\ ~settle.deferredFinal /\ ~(settle.pending /\ settle.finalPending) => ~settle'.deferredFinal
        /\ settle.requested => ~settle'.pending
        /\ ~settle.requested => settle' = settle
    BY <2>0 DEF SettleDeferred, SettleType
  <2>4. \/ Cancel
        \/ gen' = gen /\ ~TransientLive
    BY DEF ResetStarted, DeferSettlement, FenceInv, ControlInv
  <2>5. /\ QueueOK(gen', NoWorker, tasks, timers)
        /\ HasLive(gen', tasks) \/ HasLive(gen', timers) => AnyLive
        /\ ~HasTransient(gen', tasks) /\ ~HasLive(gen', timers)
    BY <2>1, <2>4, <1>TasksCancelled DEF FenceInv, QueueInv, AnyLive, TransientLive
  <2>6. QueueInv' /\ (AnyLive' => AnyLive) /\ ~TransientLive' /\ HasReset(tasks')
    BY <2>1, <2>5, <1>ResetDispatched
  <2>7. ControlInv'
    BY <2>1, <2>2, <2>6 DEF FenceInv, ControlInv, WorkerActive, NoWorker
  <2>8. FrameInv'
    BY <2>1, <2>3, <2>6 DEF FenceInv, FrameInv, Handles, DrainPoints
  <2>9. HeldInv'
    BY <2>1, <2>2, <2>3 DEF FenceInv, HeldInv, WorkerActive
  <2> QED BY <2>6, <2>7, <2>8, <2>9 DEF FenceInv

<1>FenceApply.
    ASSUME TypeOK, FenceInv, Handles, NEW c, NEW rest, HandleApply(c, rest)
    PROVE  FenceInv'
  <2> USE <1>FenceApply
  <2>0. reset \in ResetType /\ "full" \in Modes /\ NothingPending(NoSettle)
    BY DEF TypeOK, Modes, NothingPending, NoSettle
  <2>1. CASE ApplyQueued(c)
    BY <2>0, <2>1, <1>Waits DEF ApplyQueued, Running
  <2>2. ASSUME ApplyBegins(c, rest)
        PROVE  /\ worker = NoWorker /\ Cancel /\ UNCHANGED <<timers, frame>> /\ settle' = NoSettle
               /\ reset'.pending = reset.pending /\ ~reset'.completion.held
    BY <2>0, <2>2 DEF ApplyBegins, Free, WorkerActive, ResetType, NoneHeld
  <2>3. CASE ApplyStarted(c, rest)
    <3>1. /\ ApplyBegins(c, rest) /\ state' = "InProgress" /\ worker' = [kind |-> "Apply", gen |-> gen']
          /\ tasks' = Append(tasks, Task("Apply", "full"))
      BY <2>3 DEF ApplyStarted, DispatchApply
    <3> QED BY <2>0, <2>2, <3>1, <1>Starts
  <2>4. CASE ApplyRejected(c, rest)
    <3>1. ApplyBegins(c, rest) /\ UNCHANGED <<worker, tasks>>
      BY <2>4 DEF ApplyRejected
    <3> QED BY <2>0, <2>2, <3>1, <1>Cancels
  <2> QED BY <2>1, <2>3, <2>4 DEF HandleApply

<1>FenceDisarm.
    ASSUME TypeOK, FenceInv, Handles, NEW c, NEW rest,
           frame.at = "idle" \/ (HasDeferredApply' => HasDeferredApply), HandleDisarm(c, rest)
    PROVE  FenceInv'
  <2> USE <1>FenceDisarm
  <2>0. reset \in ResetType /\ NothingPending(NoSettle)
    BY DEF TypeOK, NothingPending, NoSettle
  <2>1. CASE DisarmDropped(c, rest)
    <3>1. UNCHANGED <<gen, tasks, timers, Shape>> /\ UNCHANGED worker
      BY <2>1 DEF DisarmDropped, Shape, Running
    <3>2. /\ QueueInv' /\ (AnyLive' <=> AnyLive) /\ (TransientLive' <=> TransientLive)
          /\ HasReset(tasks') <=> HasReset(tasks)
      BY <3>1, <1>QueuesKept DEF FenceInv
    <3> QED BY <3>1, <3>2, <1>Calm
  <2>2. CASE DisarmQueued(c)
    BY <2>0, <2>2, <1>Waits DEF DisarmQueued, Running
  <2>3. CASE DisarmStarted(c, rest)
    <3>1. /\ worker = NoWorker /\ Cancel /\ settle' = NoSettle
          /\ UNCHANGED <<worker, tasks, timers, frame>>
          /\ reset' = [reset EXCEPT !.completion = NoneHeld]
      BY <2>3 DEF DisarmStarted, Free, WorkerActive, ClearRecoveryState
    <3>2. reset'.pending = reset.pending /\ ~reset'.completion.held
      BY <2>0, <3>1 DEF ResetType, NoneHeld
    <3> QED BY <2>0, <3>1, <3>2, <1>Cancels
  <2> QED BY <2>1, <2>2, <2>3 DEF HandleDisarm

<1>FenceOthers.
    ASSUME TypeOK, FenceInv, Handles, NEW rest,
           frame.at = "idle" \/ (HasDeferredApply' => HasDeferredApply),
           \/ RepairStarted(rest) /\ worker = NoWorker /\ ~AnyLive
           \/ frame.at = "idle" /\ (ApplyReactivation \/ RefreshRateStarted \/ SnapshotTaken \/ Park)
    PROVE  FenceInv'
  <2> USE <1>FenceOthers
  <2>0. /\ reset \in ResetType /\ session \in SessionType /\ world \in WorldType
        /\ "none" \in Modes /\ "full" \in Modes /\ "reactivation" \in Modes
    BY DEF TypeOK, Modes
  <2>1. CASE RepairStarted(rest) /\ worker = NoWorker /\ ~AnyLive
    <3>1. /\ gen' = gen /\ UNCHANGED <<timers, frame, settle>> /\ state' = "InProgress"
          /\ worker' = [kind |-> "Apply", gen |-> gen']
          /\ tasks' = Append(tasks, Task("Apply", "full"))
          /\ reset' = [reset EXCEPT !.completion = NoneHeld]
      BY <2>1 DEF RepairStarted, ReapplyIdentity, DispatchApply
    <3>2. reset'.pending = reset.pending /\ ~reset'.completion.held
      BY <2>0, <3>1 DEF ResetType, NoneHeld
    <3> QED BY <2>0, <2>1, <3>1, <3>2, <1>Starts
  <2>2. CASE ApplyReactivation /\ frame.at = "idle"
    <3>1. /\ gen' = gen /\ UNCHANGED <<timers, frame, settle, reset, state>>
          /\ state = "VirtualDisplayMonitoring" /\ worker = NoWorker
          /\ worker' = [kind |-> "Apply", gen |-> gen']
          /\ tasks' = Append(tasks, Task("Apply", "reactivation"))
      BY <2>2 DEF ApplyReactivation, DispatchApply, Free, WorkerActive
    <3>2. session'.reactivating
      BY <2>0, <2>2 DEF ApplyReactivation, SessionType
    <3>3. ~AnyLive /\ ~reset.completion.held
      BY <3>1 DEF FenceInv, ControlInv, HeldInv, Handles
    <3> QED BY <2>0, <3>1, <3>2, <3>3, <1>Starts
  <2>3. CASE RefreshRateStarted /\ frame.at = "idle"
    <3>1. /\ gen' = gen /\ UNCHANGED <<timers, frame, settle, reset, state>>
          /\ state \notin {"InProgress", "Verification", "EventLoop"} /\ worker = NoWorker
          /\ worker' = [kind |-> "RefreshRate", gen |-> gen']
          /\ tasks' = Append(tasks, Task("RefreshRate", "none"))
      BY <2>3 DEF RefreshRateStarted, ApplyInFlight, RestorePending, WorkerActive
    <3>2. ~AnyLive /\ ~reset.completion.held
      BY <3>1 DEF FenceInv, ControlInv, HeldInv, Handles
    <3> QED BY <2>0, <3>1, <3>2, <1>Starts
  <2>4. CASE (SnapshotTaken \/ Park) /\ frame.at = "idle"
    <3>1. UNCHANGED <<gen, worker, tasks, timers, Shape>>
      BY <2>0, <2>4 DEF SnapshotTaken, Park, Shape, Running, WorldType
    <3>2. /\ QueueInv' /\ (AnyLive' <=> AnyLive) /\ (TransientLive' <=> TransientLive)
          /\ HasReset(tasks') <=> HasReset(tasks)
      BY <3>1, <1>QueuesKept DEF FenceInv
    <3> QED BY <2>4, <3>1, <3>2, <1>Calm
  <2> QED BY <2>1, <2>2, <2>3, <2>4

\* The commands of a connection.
<1>FenceClient.
    ASSUME TypeOK, TypeOK', EpochInv, FenceInv, Client
    PROVE  FenceInv'
  <2> USE <1>FenceClient
  <2>1. Handles /\ frame.at = "idle"
    BY DEF Client, ClientApply, ClientReactivate, ClientRevert, ClientDisarm, ClientReset,
       ClientRefreshRate, ClientSnapshot, ClientPark, Deliver, Idle, Handles
  <2>2. CASE ClientApply
    BY <2>1, <2>2, <1>FenceApply DEF ClientApply
  <2>3. CASE ClientReactivate \/ ClientRefreshRate \/ ClientSnapshot \/ ClientPark
    <3>1. ApplyReactivation \/ RefreshRateStarted \/ SnapshotTaken \/ Park
      BY <2>3 DEF ClientReactivate, ClientRefreshRate, ClientSnapshot, ClientPark
    <3> QED BY <2>1, <3>1, <1>FenceOthers
  <2>4. CASE ClientRevert
    <3>1. UNCHANGED <<gen, worker, tasks, timers, Shape>>
      BY <2>4 DEF ClientRevert, Shape, Running
    <3>2. /\ QueueInv' /\ (AnyLive' <=> AnyLive) /\ (TransientLive' <=> TransientLive)
          /\ HasReset(tasks') <=> HasReset(tasks)
      BY <3>1, <1>QueuesKept DEF FenceInv
    <3> QED BY <2>1, <3>1, <3>2, <1>Calm
  <2>5. CASE ClientDisarm
    BY <2>1, <2>5, <1>FenceDisarm DEF ClientDisarm
  <2>6. CASE ClientReset
    <3> DEFINE c == Intent("Reset", link.epoch)
    <3>1. ResetQueued(c) \/ ResetStarted(c, deferred)
      BY <2>6 DEF ClientReset, HandleReset
    <3>2. CASE ResetQueued(c)
      <4>1. UNCHANGED <<gen, worker, tasks, timers, Shape>>
        BY <3>2 DEF ResetQueued, Shape, Running
      <4>2. /\ QueueInv' /\ (AnyLive' <=> AnyLive) /\ (TransientLive' <=> TransientLive)
            /\ HasReset(tasks') <=> HasReset(tasks)
        BY <4>1, <1>QueuesKept DEF FenceInv
      <4> QED BY <2>1, <4>1, <4>2, <1>Calm
    <3>3. CASE ResetStarted(c, deferred)
      <4>1. UNCHANGED <<deferred, link>>
        BY <3>3 DEF ResetStarted
      <4>2. HasDeferredApply' => HasDeferredApply
        BY <4>1 DEF HasDeferredApply, StaleEpoch
      <4> HIDE DEF c
      <4> QED BY <2>1, <3>3, <4>2, <1>FenceReset
    <3> QED BY <3>1, <3>2, <3>3
  <2> QED BY <2>2, <2>3, <2>4, <2>5, <2>6 DEF Client

\* A queued REVERT, and one iteration of the drain loop.
<1>FenceQueued.
    ASSUME TypeOK, TypeOK', EpochInv, FenceInv, Mailbox \/ Drain
    PROVE  FenceInv'

  <2>FenceRevert.
      ASSUME TypeOK, FenceInv, Handles, NEW c, NEW rest,
             frame.at = "idle" \/ (HasDeferredApply' => HasDeferredApply), HandleRevert(c, rest)
      PROVE  FenceInv'
    <3> USE <2>FenceRevert
    <3>0. reset \in ResetType /\ "none" \in Modes /\ NothingPending(NoSettle)
      BY DEF TypeOK, Modes, NothingPending, NoSettle
    <3>1. CASE RevertJoined(c, rest)
      <4>1. UNCHANGED <<gen, tasks, timers, Shape>> /\ UNCHANGED worker
        BY <3>1 DEF RevertJoined, Shape, Running
      <4>2. /\ QueueInv' /\ (AnyLive' <=> AnyLive) /\ (TransientLive' <=> TransientLive)
            /\ HasReset(tasks') <=> HasReset(tasks)
        BY <4>1, <1>QueuesKept DEF FenceInv
      <4> QED BY <4>1, <4>2, <1>Calm
    <3>2. CASE RevertQueued(c)
      <4>1. /\ ~Free /\ (gen' = gen \/ Cancel)
            /\ UNCHANGED <<state, worker, session, reset, frame, tasks, timers, Running>>
            /\ settle' = settle \/ settle' = NoSettle
        BY <3>2 DEF RevertQueued, RevertSettle, Running
      <4> QED BY <3>0, <4>1, <1>Waits
    <3>3. CASE RevertDeclined(c, rest) \/ RevertNothing(c, rest)
      <4>1. /\ worker = NoWorker /\ Cancel /\ settle' = NoSettle
            /\ UNCHANGED <<worker, tasks, timers, frame>>
            /\ reset' = [reset EXCEPT !.completion = NoneHeld]
        BY <3>3 DEF RevertDeclined, RevertNothing, RevertRuns, Free, WorkerActive, ClearRecoveryState
      <4>2. reset'.pending = reset.pending /\ ~reset'.completion.held
        BY <3>0, <4>1 DEF ResetType, NoneHeld
      <4> QED BY <3>0, <4>1, <4>2, <1>Cancels
    <3>4. CASE RevertStarted(c, rest)
      <4>1. /\ worker = NoWorker /\ Cancel /\ (settle' = settle \/ settle' = NoSettle)
            /\ UNCHANGED <<timers, frame>> /\ state' = "Recovery"
            /\ worker' = [kind |-> "Recovery", gen |-> gen']
            /\ tasks' = Append(tasks, Task("Recovery", "none"))
            /\ reset' = [reset EXCEPT !.completion = NoneHeld, !.recovery = "none"]
        BY <3>4 DEF RevertStarted, RevertRuns, Free, WorkerActive, RevertSettle, StartRecovery
      <4>2. reset'.pending = reset.pending /\ ~reset'.completion.held
        BY <3>0, <4>1 DEF ResetType, NoneHeld
      <4> QED BY <3>0, <4>1, <4>2, <1>Starts
    <3> QED BY <3>1, <3>2, <3>3, <3>4 DEF HandleRevert

  <2> USE <1>FenceQueued
  <2>0. CoreOK /\ deferred \in Seq(IntentType) /\ mail \in Seq(IntentType)
    BY DEF TypeOK, CoreOK
  <2>1. CASE RevertDelivered
    <3>1. Handles /\ frame.at = "idle" /\ HandleRevert(Head(mail), deferred)
      BY <2>1 DEF RevertDelivered, Idle, Handles
    <3> QED BY <3>1, <2>FenceRevert
  <2>2. CASE RevertStale
    <3>1. UNCHANGED <<gen, worker, tasks, timers, Shape>> /\ frame.at = "idle"
      BY <2>2 DEF RevertStale, Shape, Running, Idle
    <3>2. /\ QueueInv' /\ (AnyLive' <=> AnyLive) /\ (TransientLive' <=> TransientLive)
          /\ HasReset(tasks') <=> HasReset(tasks)
      BY <3>1, <1>QueuesKept DEF FenceInv
    <3> QED BY <3>1, <3>2, <1>Calm
  <2>3. CASE Drain
    <3>1. Draining /\ Handles /\ worker = NoWorker /\ deferred # <<>> /\ frame.at # "idle"
      BY <2>3 DEF Drain, DrainDropsStale, DrainDropsRepair, DrainRuns, Draining, Handles, Free,
         WorkerActive, DrainPoints
    <3> DEFINE c == Head(deferred)
               rest == Tail(deferred)
    <3>2. /\ c \in IntentType /\ rest \in Seq(IntentType) /\ c \in Waiting(deferred)
          /\ Waiting(rest) \subseteq Waiting(deferred)
      BY <2>0, <3>1, TaskPopped, TailWaiting
    <3>3. CASE DrainDropsStale \/ DrainDropsRepair
      <4>1. UNCHANGED <<gen, worker, tasks, timers, Shape, link>> /\ deferred' = rest
        BY <3>3 DEF DrainDropsStale, DrainDropsRepair, Shape, Running
      <4>2. /\ QueueInv' /\ (AnyLive' <=> AnyLive) /\ (TransientLive' <=> TransientLive)
            /\ HasReset(tasks') <=> HasReset(tasks)
        BY <4>1, <1>QueuesKept DEF FenceInv
      <4>3. link \in LinkType /\ link.epoch \in Nat
        BY ConstantsAssumption, SMTT(60) DEF TypeOK, LinkType, Epochs
      <4>4. HasDeferredApply' => HasDeferredApply
        BY <3>2, <4>1, <4>3, <1>DeferredKept, SMTT(60)
      <4> QED BY <4>1, <4>2, <4>4, <1>Calm
    <3>4. CASE DrainRuns
      <4>1. \/ c.cmd = "Apply" /\ HandleApply(c, rest)
            \/ c.cmd = "Repair" /\ RepairStarted(rest)
            \/ c.cmd = "Revert" /\ HandleRevert(c, rest)
            \/ c.cmd = "Disarm" /\ HandleDisarm(c, rest)
            \/ c.cmd = "Reset" /\ HandleReset(c, rest)
        BY <3>4 DEF DrainRuns
      <4>2. ~StaleEpoch(c.epoch)
        BY <3>4 DEF DrainRuns
      <4> HIDE DEF c, rest
      <4>3. c.cmd = "Repair" => HasDeferredApply
        BY <3>2, <4>2 DEF HasDeferredApply, Waiting
      <4>4. AnyLive => frame.at = "return" /\ ~HasDeferredApply
        BY <3>1 DEF FenceInv, FrameInv, Draining, DrainPoints
      <4>5. link' \in LinkType /\ link.epoch \in Nat
        BY ConstantsAssumption, SMTT(60) DEF TypeOK, LinkType, Epochs
      <4>6. CASE c.cmd = "Apply" /\ HandleApply(c, rest)
        BY <3>1, <4>6, <1>FenceApply
      <4>7. CASE c.cmd = "Repair" /\ RepairStarted(rest)
        <5>1. LinkKept /\ EpochQuiet
          BY <2>0, <3>2, <4>7, OtherTypes, QuietOthers
        <5>2. HasDeferredApply' => HasDeferredApply
          BY <4>5, <5>1, <1>DeferredKept, SMTT(60) DEF LinkKept, EpochQuiet
        <5> QED BY <3>1, <4>3, <4>4, <4>7, <5>2, <1>FenceOthers
      <4>8. CASE ~Replaces(c) /\ (HandleRevert(c, rest) \/ HandleDisarm(c, rest) \/ HandleReset(c, rest))
        <5>1. LinkKept
          BY <2>0, <3>2, <4>8, RevertTypes, DisarmTypes, ResetTypes
        <5>2. EpochQuiet
          BY <3>2, <4>8, QuietCommands
        <5>3. HasDeferredApply' => HasDeferredApply
          BY <4>5, <5>1, <5>2, <1>DeferredKept, SMTT(60) DEF LinkKept, EpochQuiet
        <5>4. HandleReset(c, rest) => ResetStarted(c, rest)
          BY <3>1 DEF HandleReset, ResetQueued, Draining
        <5> QED BY <3>1, <4>8, <5>3, <5>4, <2>FenceRevert, <1>FenceDisarm, <1>FenceReset
      <4> QED BY <4>1, <4>6, <4>7, <4>8 DEF Replaces
    <3> QED BY <2>3, <3>3, <3>4 DEF Drain
  <2> QED BY <2>1, <2>2, <2>3 DEF Mailbox

(* Threads, events and the connection *)

<1>FenceWorker.
    ASSUME TypeOK, EpochInv, FenceInv, Worker
    PROVE  FenceInv'

  \* The first delay is over: its check joins the tasks, unless it is cancelled.
  <2>TimerPopped.
      ASSUME NEW g, NEW w, NEW q, NEW d, QueueOK(g, w, q, d), d # <<>>
      PROVE  /\ QueueOK(g, w, q, Tail(d)) /\ Head(d) \in TaskType
             /\ Head(d).op = "Verification" /\ IsTransient(Head(d))
             /\ HasLive(g, Tail(d)) => HasLive(g, d)
             /\ Head(d).gen = g =>
                  HasLive(g, d) /\ ~HasLive(g, q) /\ ~HasLive(g, Tail(d))
    <3> USE <2>TimerPopped
    <3> DEFINE r == Tail(d)
    <3>0. d \in Seq(TaskType)
      BY DEF QueueOK
    <3>1. /\ d \in Seq(TaskType) /\ DOMAIN d = 1..Len(d) /\ Len(d) \in Nat /\ Len(d) >= 1
          /\ Head(d) = d[1] /\ r \in Seq(TaskType) /\ DOMAIN r = 1..(Len(d) - 1)
          /\ \A i \in DOMAIN r : r[i] = d[i + 1]
      BY <3>0, HeadTailProperties, LenProperties, EmptySeq, SMTT(60)
    <3>2. \A i \in DOMAIN r : i + 1 \in DOMAIN d /\ i + 1 # 1 /\ i \in Nat /\ r[i] = d[i + 1]
      BY <3>1, SMTT(60)
    <3>3. 1 \in DOMAIN d
      BY <3>1, SMTT(60)
    <3> HIDE DEF r
    <3>4. d[1] \in TaskType /\ d[1].op = "Verification" /\ IsTransient(d[1])
      BY <3>1, <3>3, TasksTyped DEF QueueOK
    <3>5. HasLive(g, r) => HasLive(g, d)
      BY <3>2 DEF HasLive
    <3>6. d[1].gen = g => /\ HasLive(g, d) /\ ~HasLive(g, q)
                          /\ \A i \in DOMAIN r : ~LiveCheck(g, r[i])
      BY <3>2, <3>3, <3>4 DEF QueueOK, HasLive, LiveCheck
    <3>7. \A i \in DOMAIN r : r[i].gen <= g /\ r[i].op = "Verification" /\ IsTransient(r[i])
      BY <3>2 DEF QueueOK
    <3>8. \A i, j \in DOMAIN r : LiveCheck(g, r[i]) /\ LiveCheck(g, r[j]) => i = j
      <4> SUFFICES ASSUME NEW i \in DOMAIN r, NEW j \in DOMAIN r,
                          LiveCheck(g, r[i]), LiveCheck(g, r[j])
                   PROVE  i = j
        OBVIOUS
      <4>1. i + 1 = j + 1
        BY <3>2 DEF QueueOK
      <4> QED BY <3>2, <4>1, SMTT(60)
    <3>9. QueueOK(g, w, q, r)
      BY <3>1, <3>5, <3>7, <3>8 DEF QueueOK
    <3> QED BY <3>1, <3>4, <3>5, <3>6, <3>9 DEF r, HasLive

  \* The running task gets further: what the lemmas speak of is left alone.
  <2>QueueAdvanced.
      ASSUME NEW g, NEW w, NEW q, NEW d, QueueOK(g, w, q, d), NEW r \in Seq(TaskType),
             Len(r) = Len(q),
             \A i \in 1..Len(q) :
               r[i].op = q[i].op /\ r[i].mode = q[i].mode /\ r[i].gen = q[i].gen
      PROVE  /\ QueueOK(g, w, r, d)
             /\ HasLive(g, r) <=> HasLive(g, q)
             /\ HasTransient(g, r) <=> HasTransient(g, q)
             /\ HasReset(r) <=> HasReset(q)
    <3> USE <2>QueueAdvanced
    <3>1. DOMAIN r = DOMAIN q /\ DOMAIN q = 1..Len(q)
      BY LenProperties DEF QueueOK
    <3>2. \A i \in DOMAIN q :
            /\ r[i].op = q[i].op /\ r[i].gen = q[i].gen
            /\ IsMutation(r[i]) <=> IsMutation(q[i])
            /\ LiveCheck(g, r[i]) <=> LiveCheck(g, q[i])
            /\ IsTransient(r[i]) <=> IsTransient(q[i])
            /\ KindOf(r[i]) = KindOf(q[i])
      BY <3>1 DEF IsMutation, LiveCheck, IsTransient, KindOf
    <3>3. /\ HasLive(g, r) <=> HasLive(g, q)
          /\ HasTransient(g, r) <=> HasTransient(g, q)
          /\ HasReset(r) <=> HasReset(q)
          /\ HasMutation(r) <=> HasMutation(q)
      BY <3>1, <3>2 DEF HasLive, HasTransient, HasReset, HasMutation
    <3>4. ASSUME NEW i \in DOMAIN r, NEW j \in DOMAIN r
          PROVE  /\ IsMutation(r[i]) /\ IsMutation(r[j]) => i = j
                 /\ LiveCheck(g, r[i]) /\ LiveCheck(g, r[j]) => i = j
                 /\ r[i].op = "Reset" /\ r[j].op = "Reset" => i = j
                 /\ r[i].op = "Reset" /\ IsMutation(r[j]) => i < j
                 /\ r[i].op = "Reset" /\ LiveCheck(g, r[j]) => j < i
      <4>1. i \in DOMAIN q /\ j \in DOMAIN q
        BY <3>1
      <4>2. /\ IsMutation(q[i]) /\ IsMutation(q[j]) => i = j
            /\ LiveCheck(g, q[i]) /\ LiveCheck(g, q[j]) => i = j
            /\ q[i].op = "Reset" /\ q[j].op = "Reset" => i = j
            /\ q[i].op = "Reset" /\ IsMutation(q[j]) => i < j
            /\ q[i].op = "Reset" /\ LiveCheck(g, q[j]) => j < i
        BY <4>1 DEF QueueOK
      <4>3. /\ r[i].op = q[i].op /\ r[j].op = q[j].op
            /\ IsMutation(r[i]) <=> IsMutation(q[i])
            /\ IsMutation(r[j]) <=> IsMutation(q[j])
            /\ LiveCheck(g, r[i]) <=> LiveCheck(g, q[i])
            /\ LiveCheck(g, r[j]) <=> LiveCheck(g, q[j])
        BY <3>2, <4>1
      <4> QED BY <4>2, <4>3
    <3>5. ASSUME NEW i \in DOMAIN r
          PROVE  /\ r[i].gen <= g
                 /\ IsMutation(r[i]) => w = [kind |-> KindOf(r[i]), gen |-> r[i].gen]
      <4>1. /\ q[i].gen <= g
            /\ IsMutation(q[i]) => w = [kind |-> KindOf(q[i]), gen |-> q[i].gen]
        BY <3>1 DEF QueueOK
      <4>2. /\ r[i].gen = q[i].gen /\ KindOf(r[i]) = KindOf(q[i])
            /\ IsMutation(r[i]) <=> IsMutation(q[i])
        BY <3>1, <3>2
      <4> QED BY <4>1, <4>2
    <3>6. QueueOK(g, w, r, d)
      BY <3>3, <3>4, <3>5 DEF QueueOK
    <3> QED BY <3>3, <3>6

  <2> USE <1>FenceWorker
  <2>0. world \in WorldType /\ tasks \in Seq(TaskType) /\ frame \in FrameType
        /\ {"entered", "guarded", "touched"} \subseteq Phases
    BY DEF TypeOK, Phases
  <2>1. UNCHANGED <<gen, worker, Shape, deferred, link>>
    <3>1. CASE WorkerGuards \/ WorkerTouches
      BY <2>0, <3>1 DEF WorkerGuards, WorkerTouches, fsmVars, Shape, Running, WorldType
    <3>2. CASE RecoveryEnters \/ RecoveryTouches
      BY <2>0, <3>2 DEF RecoveryEnters, RecoveryTouches, fsmVars, Shape, Running, WorldType
    <3>3. CASE TimerFires
      BY <3>3 DEF TimerFires, Shape, Running
    <3> QED BY <3>1, <3>2, <3>3 DEF Worker
  <2>2. HasDeferredApply' => HasDeferredApply
    BY <2>1 DEF HasDeferredApply, StaleEpoch
  <2>3. CASE WorkerGuards \/ WorkerTouches \/ RecoveryEnters \/ RecoveryTouches
    <3>1. UNCHANGED timers /\ tasks # <<>>
      BY <2>3 DEF WorkerGuards, WorkerTouches, RecoveryEnters, RecoveryTouches, fsmVars, HasTask
    <3>2. Head(tasks) \in TaskType
      BY <2>0, <3>1, TaskPopped
    <3>3. Front.armed \in BOOLEAN
      BY <3>2 DEF Front, TaskType
    <3>4. \E p \in Phases, armed \in BOOLEAN : FrontPhase(p, armed)
      BY <2>0, <2>3, <3>3 DEF WorkerGuards, WorkerTouches, RecoveryEnters, RecoveryTouches
    <3>5. /\ tasks' \in Seq(TaskType) /\ Len(tasks') = Len(tasks)
          /\ \A i \in 1..Len(tasks) :
               tasks'[i].op = tasks[i].op /\ tasks'[i].mode = tasks[i].mode /\ tasks'[i].gen = tasks[i].gen
      BY <2>0, <3>1, <3>4, FrontAdvanced
    <3>6. /\ QueueOK(gen, worker, tasks', timers)
          /\ HasLive(gen, tasks') <=> HasLive(gen, tasks)
          /\ HasTransient(gen, tasks') <=> HasTransient(gen, tasks)
          /\ HasReset(tasks') <=> HasReset(tasks)
      BY <3>5, <2>QueueAdvanced DEF FenceInv, QueueInv
    <3>7. /\ QueueInv' /\ (AnyLive' <=> AnyLive) /\ (TransientLive' <=> TransientLive)
      BY <2>1, <3>1, <3>6 DEF QueueInv, AnyLive, TransientLive
    <3> QED BY <2>1, <2>2, <3>6, <3>7, <1>Calm
  <2>4. CASE TimerFires
    <3> DEFINE t == Head(timers)
    <3>1. /\ timers # <<>> /\ timers' = Tail(timers)
          /\ tasks' = IF t.gen = gen THEN Append(tasks, t) ELSE tasks
      BY <2>4 DEF TimerFires, Live
    <3>2. /\ QueueOK(gen, worker, tasks, Tail(timers)) /\ t \in TaskType
          /\ t.op = "Verification" /\ IsTransient(t)
          /\ HasLive(gen, Tail(timers)) => HasLive(gen, timers)
          /\ t.gen = gen => HasLive(gen, timers) /\ ~HasLive(gen, tasks) /\ ~HasLive(gen, Tail(timers))
      BY <3>1, <2>TimerPopped DEF FenceInv, QueueInv
    <3> HIDE DEF t
    <3>3. CASE t.gen = gen
      <4>1. TransientLive /\ AnyLive /\ ~HasReset(tasks)
        BY <3>2, <3>3 DEF TransientLive, AnyLive, FenceInv, ControlInv
      <4>2. /\ QueueOK(gen, worker, Append(tasks, t), Tail(timers))
            /\ HasReset(Append(tasks, t)) <=> HasReset(tasks)
        BY <3>2, <3>3, <4>1, <1>QueuePushed
      <4>3. QueueInv' /\ (HasReset(tasks') <=> HasReset(tasks))
        BY <2>1, <3>1, <3>3, <4>2 DEF QueueInv
      <4> QED BY <2>1, <2>2, <4>1, <4>3, <1>Calm
    <3>4. CASE t.gen # gen
      <4>1. /\ QueueInv' /\ (AnyLive' => AnyLive) /\ (TransientLive' => TransientLive)
            /\ (HasReset(tasks') <=> HasReset(tasks))
        BY <2>1, <3>1, <3>2, <3>4 DEF QueueInv, AnyLive, TransientLive
      <4> QED BY <2>1, <2>2, <4>1, <1>Calm
    <3> QED BY <3>3, <3>4
  <2> QED BY <2>3, <2>4 DEF Worker

\* The passage of time, a tick and a display event that starts nothing.
<1>FenceStays.
    ASSUME FenceInv, UNCHANGED <<gen, worker, tasks, timers, state, settle, reset, frame, Running>>,
           session'.reactivating = session.reactivating,
           frame.at = "idle" \/ UNCHANGED <<deferred, link>>
    PROVE  FenceInv'
  <2> USE <1>FenceStays
  <2>1. /\ QueueInv' /\ (AnyLive' <=> AnyLive) /\ (TransientLive' <=> TransientLive)
        /\ HasReset(tasks') <=> HasReset(tasks)
    BY <1>QueuesKept DEF FenceInv
  <2>2. ControlInv'
    BY <2>1 DEF FenceInv, ControlInv, WorkerActive
  <2>3. frame.at = "idle" \/ (HasDeferredApply' => HasDeferredApply)
    BY DEF HasDeferredApply, StaleEpoch
  <2>4. FrameInv'
    BY <2>1, <2>3 DEF FenceInv, FrameInv, Free, WorkerActive
  <2>5. HeldInv'
    BY DEF FenceInv, HeldInv, WorkerActive
  <2> QED BY <2>1, <2>2, <2>4, <2>5 DEF FenceInv

<1>FenceRecovers.
    ASSUME TypeOK, FenceInv, Idle, state = "EventLoop", RestartRecovery, UNCHANGED <<settle, frame, timers>>
    PROVE  FenceInv'
  <2> USE <1>FenceRecovers
  <2>0. reset \in ResetType /\ "none" \in Modes
    BY DEF TypeOK, Modes
  <2>1. worker = NoWorker /\ ~AnyLive /\ ~reset.completion.held /\ Handles
    BY DEF FenceInv, ControlInv, HeldInv, WorkerActive, Idle, Handles
  <2>2. /\ gen' = gen /\ state' = "Recovery" /\ worker' = [kind |-> "Recovery", gen |-> gen']
        /\ tasks' = Append(tasks, Task("Recovery", "none"))
        /\ reset' = [reset EXCEPT !.recovery = "none"]
    BY DEF RestartRecovery, StartRecovery
  <2>3. reset'.pending = reset.pending /\ ~reset'.completion.held
    BY <2>0, <2>1, <2>2 DEF ResetType
  <2> QED BY <2>0, <2>1, <2>2, <2>3, <1>Starts

<1>FenceTime.
    ASSUME TypeOK, FenceInv, Tick \/ Time
    PROVE  FenceInv'
  <2> USE <1>FenceTime
  <2>0. session \in SessionType
    BY DEF TypeOK
  <2>1. CASE Time
    <3>1. /\ UNCHANGED <<gen, worker, tasks, timers, state, settle, reset, frame, Running, deferred, link>>
          /\ session'.reactivating = session.reactivating
      BY <2>0, <2>1 DEF Time, WindowCloses, QuietEnds, GraceEnds, notTime, Running, SessionType
    <3> QED BY <3>1, <1>FenceStays
  <2>2. CASE TickDiscards \/ TickExpires
    <3>1. /\ UNCHANGED <<gen, worker, tasks, timers, state, settle, reset, frame, Running, deferred, link>>
          /\ session' = session
      BY <2>2 DEF TickDiscards, TickExpires, Ticks, Running
    <3> QED BY <3>1, <1>FenceStays
  <2>3. CASE TickReconciles \/ TickRetries
    BY <2>3, <1>FenceRecovers DEF TickReconciles, TickRetries, Ticks
  <2> QED BY <2>1, <2>2, <2>3 DEF Tick

<1>FenceEvents.
    ASSUME TypeOK, EpochInv, FenceInv, DisplayEvent
    PROVE  FenceInv'
  <2> USE <1>FenceEvents
  <2>0. /\ session \in SessionType /\ frame \in FrameType
        /\ {"full", "BaselineTopologyReturn"} \subseteq Modes
    BY DEF TypeOK, Modes
  <2>1. Idle /\ UNCHANGED <<link, world>>
    BY DEF DisplayEvent, BaselineReturned, IdentityUnchanged, IdentityQueued, IdentityReplaced,
       EventKept, EventReopens, IdentityEvent, RecoveryEvent, Notified
  <2>2. Handles /\ frame.at = "idle" /\ UNCHANGED Running /\ Running
    BY <2>1 DEF Idle, Handles, Running
  <2>3. CASE BaselineReturned
    <3>1. /\ state = "VirtualDisplayMonitoring" /\ worker = NoWorker /\ ~reset.pending
          /\ UNCHANGED <<gen, worker, settle, reset, frame, timers>> /\ state' = "Verification"
          /\ tasks' = Append(tasks, Task("Verification", "BaselineTopologyReturn"))
      BY <2>3 DEF BaselineReturned, Free, WorkerActive
    <3>2. ~AnyLive /\ ~reset.completion.held /\ frame.caller = "message" /\ ~HasReset(tasks)
      BY <2>0, <2>2, <3>1 DEF FenceInv, ControlInv, HeldInv, FrameInv, FrameType
    <3>3. /\ QueueOK(gen', NoWorker, tasks, timers) /\ ~HasLive(gen', tasks)
          /\ ~HasLive(gen', timers) /\ ~HasTransient(gen', tasks)
      BY <3>1, <3>2 DEF FenceInv, QueueInv, AnyLive, HasTransient, HasLive
    <3>4. QueueInv' /\ ~HasReset(tasks') /\ ~TransientLive'
      BY <2>0, <3>1, <3>2, <3>3, <1>CheckDispatched
    <3>5. ControlInv'
      BY <3>1, <3>4 DEF ControlInv, WorkerActive, NoWorker
    <3> QED BY <2>2, <3>1, <3>2, <3>4, <3>5, <1>Idles
  <2>4. CASE IdentityUnchanged \/ IdentityQueued \/ EventKept
    <3>1. /\ UNCHANGED <<gen, worker, tasks, timers, state, settle, reset, frame>>
          /\ session' = session
      BY <2>4 DEF IdentityUnchanged, IdentityQueued, EventKept, RecoveryEvent
    <3> QED BY <2>2, <3>1, <1>FenceStays
  <2>5. CASE IdentityReplaced
    <3>1. /\ worker = NoWorker /\ ~reset.pending /\ Cancel /\ UNCHANGED <<settle, reset, frame, timers>>
          /\ state' = "InProgress" /\ worker' = [kind |-> "Apply", gen |-> gen']
          /\ tasks' = Append(tasks, Task("Apply", "full"))
      BY <2>5 DEF IdentityReplaced, Free, WorkerActive, ReapplyIdentity, DispatchApply
    <3>2. ~reset.completion.held
      BY <2>2, <3>1 DEF FenceInv, HeldInv
    <3> QED BY <2>0, <2>2, <3>1, <3>2, <1>Starts
  <2>6. CASE EventReopens
    BY <2>1, <2>6, <1>FenceRecovers DEF EventReopens, RecoveryEvent
  <2> QED BY <2>3, <2>4, <2>5, <2>6 DEF DisplayEvent

<1>FenceConnection.
    ASSUME TypeOK, TypeOK', EpochInv, FenceInv, Connection
    PROVE  FenceInv'
  <2> USE <1>FenceConnection
  <2>0. /\ session \in SessionType /\ settle \in SettleType /\ link \in LinkType /\ link' \in LinkType
        /\ frame \in FrameType /\ world \in WorldType
    BY DEF TypeOK
  <2>1. CASE Connect \/ Retire
    <3>1. UNCHANGED <<gen, worker, tasks, timers, Shape, deferred>> /\ link'.epoch = link.epoch + 1
      BY <2>0, <2>1 DEF Connect, Retire, Shape, Running, LinkType
    <3>2. link.epoch \in Nat
      BY <2>0, ConstantsAssumption, SMTT(60) DEF LinkType, Epochs
    <3>3. link'.epoch >= link.epoch
      BY <3>1, <3>2, SMTT(60)
    <3>4. HasDeferredApply' => HasDeferredApply
      BY <2>0, <3>1, <3>3, <1>DeferredKept
    <3>5. /\ QueueInv' /\ (AnyLive' <=> AnyLive) /\ (TransientLive' <=> TransientLive)
          /\ HasReset(tasks') <=> HasReset(tasks)
      BY <3>1, <1>QueuesKept DEF FenceInv
    <3> QED BY <3>1, <3>4, <3>5, <1>Calm
  <2>2. CASE Stop
    <3>1. /\ Cancel /\ ~Running'
          /\ UNCHANGED <<worker, tasks, timers, state, session, settle, reset, frame, deferred, link>>
      BY <2>0, <2>2 DEF Stop, Running, WorldType
    <3>2. /\ QueueInv' /\ ~AnyLive' /\ ~TransientLive'
          /\ HasReset(tasks') <=> HasReset(tasks)
          /\ WorkerActive => worker'.gen # gen'
      BY <3>1, <1>QueuesCancelled DEF FenceInv
    <3>3. ControlInv'
      BY <3>1, <3>2, SMTT(60) DEF FenceInv, ControlInv, WorkerActive, NoWorker
    <3>4. HasDeferredApply' <=> HasDeferredApply
      BY <3>1 DEF HasDeferredApply, StaleEpoch
    <3>5. FrameInv'
      BY <3>1, <3>2, <3>4 DEF FenceInv, FrameInv, Free, WorkerActive
    <3>6. HeldInv'
      BY <3>1 DEF HeldInv
    <3> QED BY <3>2, <3>3, <3>5, <3>6 DEF FenceInv
  <2>3. CASE DisconnectReverts \/ DisconnectIdle
    <3>1. /\ UNCHANGED <<gen, worker, tasks, timers, state, settle, reset, frame, Running>>
          /\ session' = session /\ frame.at = "idle"
      BY <2>3 DEF DisconnectReverts, DisconnectIdle, Disconnects, Running, Idle
    <3> QED BY <3>1, <1>FenceStays
  <2>4. CASE DisconnectSettles
    <3>1. /\ Idle /\ Running /\ Running' /\ frame.at = "idle" /\ UNCHANGED <<worker, reset, frame>>
          /\ ~settle.requested
      BY <2>4 DEF DisconnectSettles, Disconnects, Idle, Running
    <3>2. session'.reactivating = session.reactivating
      BY <2>0, <2>4 DEF DisconnectSettles, SessionType
    <3>3. /\ Claimed \in SettleType /\ Claimed.requested /\ Claimed.pending = settle.pending
          /\ Claimed.deferredFinal = settle.deferredFinal
      BY <2>0 DEF Claimed, SettleType, HasTopology
    <3>4. /\ ~TransientLive /\ ~settle.pending /\ frame.caller = "message"
          /\ ~settle.deferredFinal /\ (HasReset(tasks) <=> reset.pending)
      BY <2>0, <3>1 DEF FenceInv, ControlInv, FrameInv, FrameType, EpochInv, NothingPending
    <3>5. \/ WorkerActive /\ gen' = gen
          \/ ~WorkerActive /\ PrepareCancel
      BY <2>4 DEF DisconnectSettles
    <3>6. gen' = gen \/ (Cancel /\ ~WorkerActive)
      BY <3>5 DEF PrepareCancel, Cancel
    <3>7. FrameInv'
      BY <3>1, <3>4 DEF FrameInv
    <3>8. CASE /\ UNCHANGED <<state, tasks, timers>>
               /\ settle' = Claimed \/ settle' = [Claimed EXCEPT !.deferredByReset = TRUE]
      <4>1. ~settle'.pending /\ ~settle'.deferredFinal
        BY <3>3, <3>4, <3>8 DEF SettleType
      <4>2. /\ QueueInv' /\ (AnyLive' => AnyLive) /\ ~TransientLive'
            /\ HasReset(tasks') <=> HasReset(tasks)
        <5>1. CASE gen' = gen
          BY <3>1, <3>4, <3>8, <5>1, <1>QueuesKept DEF FenceInv
        <5>2. CASE Cancel
          BY <3>1, <3>8, <5>2, <1>QueuesCancelled DEF FenceInv
        <5> QED BY <3>6, <5>1, <5>2
      <4>3. ControlInv'
        BY <3>1, <3>2, <3>6, <3>8, <4>2, SMTT(60) DEF FenceInv, ControlInv, WorkerActive, NoWorker
      <4>4. HeldInv'
        BY <3>1, <3>8, <4>1 DEF FenceInv, HeldInv, WorkerActive
      <4> QED BY <3>7, <4>2, <4>3, <4>4 DEF FenceInv
    <3>9. CASE /\ Free /\ (session.verified \/ state # "Verification")
               /\ CheckDelayed(Claimed, tasks)
      <4>1. worker = NoWorker /\ ~reset.pending /\ ~reset.completion.held /\ PrepareCancel
        BY <3>1, <3>5, <3>9 DEF Free, WorkerActive, FenceInv, HeldInv
      <4>2. AnyLive => Cancel
        BY <3>9, <4>1 DEF FenceInv, ControlInv, PrepareCancel, Cancel
      <4>3. /\ QueueOK(gen', NoWorker, tasks, timers) /\ ~HasLive(gen', tasks)
            /\ ~HasLive(gen', timers) /\ ~HasTransient(gen', tasks)
        <5>1. CASE Cancel
          BY <4>1, <5>1, <1>TasksCancelled DEF FenceInv
        <5>2. CASE gen' = gen /\ ~AnyLive
          BY <4>1, <5>2 DEF FenceInv, QueueInv, AnyLive, HasTransient, HasLive
        <5> QED BY <3>6, <4>2, <5>1, <5>2
      <4>4. /\ QueueInv' /\ (HasReset(tasks') <=> reset.pending)
            /\ AnyLive' => state' = "Verification"
            /\ TransientLive' => settle'.pending /\ ~reset.pending
            /\ settle'.requested
        BY <3>1, <3>3, <3>4, <3>9, <4>1, <4>3, <1>CheckKept DEF NextCheck
      <4>5. ControlInv'
        BY <3>1, <4>1, <4>4 DEF ControlInv, WorkerActive, NoWorker
      <4> QED BY <3>1, <3>4, <4>1, <4>4, <4>5, <1>Idles
    <3> QED BY <2>4, <3>8, <3>9 DEF DisconnectSettles
  <2> QED BY <2>1, <2>2, <2>3, <2>4 DEF Connection

<1> SUFFICES ASSUME TypeOK, TypeOK', EpochInv, FenceInv, [Next]_vars PROVE FenceInv'
  OBVIOUS
<1>1. CASE Complete
  BY <1>1, <1>FenceMutations, <1>FenceVerifications DEF Complete
<1>2. CASE UNCHANGED vars
  <2>1. UNCHANGED <<gen, worker, tasks, timers, state, settle, reset, frame, Running, session,
                    deferred, link>>
    BY <1>2 DEF vars, Running
  <2> QED BY <2>1, <1>FenceStays
<1> QED BY <1>1, <1>2, <1>FenceClient, <1>FenceQueued, <1>FenceContinues, <1>FenceWorker, <1>FenceEvents,
        <1>FenceTime, <1>FenceConnection DEF Next

LEMMA FenceInit == Init => FenceInv
<1> SUFFICES ASSUME Init PROVE FenceInv
  OBVIOUS
<1>1. tasks = <<>> /\ timers = <<>> /\ gen = 1 /\ worker = NoWorker
  BY DEF Init
<1>2. QueueInv /\ ~AnyLive /\ ~TransientLive /\ ~HasReset(tasks)
  BY <1>1, SMTT(60) DEF QueueInv, QueueOK, AnyLive, TransientLive, HasLive, HasTransient, HasReset,
     HasMutation
<1>3. /\ ~reset.pending /\ ~reset.completion.held /\ frame.at = "idle" /\ frame.caller = "message"
  BY DEF Init, NoneHeld, IdleFrame
<1>4. ControlInv
  BY <1>1, <1>2, <1>3 DEF ControlInv, WorkerActive, NoWorker
<1>5. FrameInv
  BY <1>3 DEF FrameInv
<1>6. HeldInv
  BY <1>3 DEF HeldInv
<1> QED BY <1>2, <1>4, <1>5, <1>6 DEF FenceInv

\* The whole invariant.
IInv == TypeInv /\ MailInv /\ EpochInv /\ FenceInv

LEMMA IInvInit == Init => IInv
BY InitTypes, EpochInit, FenceInit DEF IInv

\* Types, mailbox, epochs and fence are kept together.
LEMMA IInvStep == IInv /\ [Next]_vars => IInv'
<1> SUFFICES ASSUME IInv, [Next]_vars PROVE IInv'
  OBVIOUS
<1>1. TypeInv' /\ TypeOK /\ TypeOK'
  BY StepTypes DEF IInv, TypeInv
<1>2. MailInv' /\ EpochInv'
  BY MailStep, EpochStep DEF IInv
<1>3. FenceInv'
  BY <1>1, FenceStep DEF IInv
<1> QED BY <1>1, <1>2, <1>3 DEF IInv

LEMMA FenceImplies == IInv => FenceMatchesDispatcher /\ OneLiveCheck
<1> SUFFICES ASSUME IInv PROVE FenceMatchesDispatcher /\ OneLiveCheck
  OBVIOUS
<1>1. QueueOK(gen, worker, tasks, timers) /\ (AnyLive => state = "Verification")
  BY DEF IInv, FenceInv, QueueInv, ControlInv
<1>2. FenceMatchesDispatcher
  BY <1>1 DEF FenceMatchesDispatcher, Mutations, QueueOK, HasMutation, WorkerActive
<1>3. OneLiveCheck
  BY <1>1 DEF OneLiveCheck, LiveIn, QueueOK, AnyLive, HasLive, LiveCheck
<1> QED BY <1>2, <1>3

\* At most one display mutation is in the dispatcher and active_mutation_worker_
\* names it, whatever requests, events, connections and failures there are.
THEOREM FenceHolds == Spec => []FenceMatchesDispatcher
BY IInvInit, IInvStep, FenceImplies, PTL DEF Spec

\* At most one verification is live, and then the state machine is in
\* Verification.
THEOREM OneCheckHolds == Spec => []OneLiveCheck
BY IInvInit, IInvStep, FenceImplies, PTL DEF Spec

\* While a recent disconnect is being settled (transient_disconnect_requested_),
\* no APPLY or identity repair of a live connection waits behind the fence.
THEOREM SettlementAloneHolds == Spec => []SettlementAlone
<1>1. IInv => SettlementAlone
  BY SettlesAlone DEF IInv, TypeInv, SettlementAlone
<1> QED BY <1>1, IInvInit, IInvStep, PTL DEF Spec

----------------------------------------------------------------------------
(* The completion that RESET holds back *)

\* A completion that RESET holds back has that RESET, or the mutation that
\* replaces it, in flight: something will release or supersede it.
THEOREM HeldHasResetHolds == Spec => []HeldHasReset
<1>1. IInv => HeldHasReset
  BY DEF IInv, FenceInv, HeldInv, HeldHasReset, Idle, Running
<1> QED BY <1>1, IInvInit, IInvStep, PTL DEF Spec

----------------------------------------------------------------------------
(* The commands that wait *)

\* Between two messages, and before the end of RESET's handler, nothing waits
\* unless a mutation or a RESET is in flight.
OwnerInv == Running /\ frame.at \in {"idle", "resetTail"} /\ Free => deferred = <<>>

\* A handler runs because nothing is in flight, or leaves the fence alone.
LEMMA HandlersOwn ==
  ASSUME NEW c, NEW rest, TypeOK,
         \/ HandleApply(c, rest) \/ HandleRevert(c, rest) \/ HandleDisarm(c, rest)
         \/ HandleReset(c, rest) \/ RepairStarted(rest)
  PROVE  /\ UNCHANGED frame
         /\ \/ ~Free /\ ~Free'
            \/ deferred' = rest /\ (Free' => Free)
<1>1. reset \in ResetType
  BY DEF TypeOK
<1>2. CASE ApplyQueued(c) \/ RevertQueued(c) \/ DisarmQueued(c) \/ ResetQueued(c)
  BY <1>2 DEF ApplyQueued, RevertQueued, DisarmQueued, ResetQueued, Free, WorkerActive
<1>3. CASE ApplyStarted(c, rest) \/ ApplyRejected(c, rest)
  BY <1>3 DEF ApplyStarted, ApplyRejected, ApplyBegins
<1>4. CASE RevertDeclined(c, rest) \/ RevertNothing(c, rest) \/ RevertStarted(c, rest)
  BY <1>4 DEF RevertDeclined, RevertNothing, RevertStarted, RevertRuns
<1>5. CASE DisarmStarted(c, rest) \/ ResetStarted(c, rest)
  BY <1>5 DEF DisarmStarted, ResetStarted
<1>6. CASE RevertJoined(c, rest) \/ DisarmDropped(c, rest)
  BY <1>6 DEF RevertJoined, DisarmDropped, Free, WorkerActive
<1>7. CASE RepairStarted(rest)
  <2>1. worker' # NoWorker
    BY <1>7 DEF RepairStarted, ReapplyIdentity, DispatchApply, NoWorker
  <2> QED BY <1>7, <2>1 DEF RepairStarted, Free, WorkerActive
<1> QED BY <1>2, <1>3, <1>4, <1>5, <1>6, <1>7 DEF HandleApply, HandleRevert, HandleDisarm,
        HandleReset

\* Nothing waits behind an open fence once a handler has returned.
LEMMA OwnerStep == TypeOK /\ FenceInv /\ OwnerInv /\ [Next]_vars => OwnerInv'

\* A completion leaves the drain to its handler, or the fence as it was.
<1>CompletionsOwn.
    ASSUME TypeOK, FenceInv, Complete
    PROVE  /\ UNCHANGED deferred
           /\ \/ ~Running' \/ frame'.at \notin {"idle", "resetTail"}
              \/ UNCHANGED frame /\ Running /\ (Free' => Free)
  <2> USE <1>CompletionsOwn
  <2>1. reset \in ResetType /\ frame \in FrameType /\ world \in WorldType
    BY DEF TypeOK
  <2>2. \A p : DrainThen(p).at = p
    BY <2>1 DEF DrainThen, FrameType
  <2>3. UNCHANGED deferred
    BY OthersKeepQueue
  <2>4. CASE MutationCompleted
    <3>1. CASE StaleApplyCompleted \/ ReactivationCompleted \/ RefreshRateCompleted
               \/ RecoveryCancelled \/ RecoveryFailed \/ ValidationCancelled \/ ValidationFailed
      <4>1. frame' = DrainThen("return")
        BY <3>1 DEF StaleApplyCompleted, ReactivationCompleted, RefreshRateCompleted,
           RecoveryCancelled, RecoveryFailed, ValidationCancelled, ValidationFailed
      <4> QED BY <2>2, <2>3, <4>1, SMTT(60)
    <3>2. CASE ApplyCompleted
      <4>1. frame'.at = "finish"
        BY <3>2 DEF ApplyCompleted, IdleFrame
      <4> QED BY <2>3, <4>1
    <3>3. CASE ResetCompleted
      <4>1. world' = [world EXCEPT !.running = FALSE] \/ frame' = DrainThen("resetDone")
        BY <3>3 DEF ResetCompleted
      <4>2. world' = [world EXCEPT !.running = FALSE] => ~Running'
        BY <2>1 DEF Running, WorldType
      <4> QED BY <2>2, <2>3, <4>1, <4>2
    <3>4. CASE RecoverySucceeded
      <4>1. /\ Idle /\ tasks # <<>> /\ IsMutation(Front) /\ KindOf(Front) = "Recovery"
            /\ UNCHANGED frame /\ worker' = [worker EXCEPT !.gen = gen']
        BY <3>4 DEF RecoverySucceeded, Completes, HasTask, IsMutation, KindOf
      <4>2. worker'.kind = "Recovery"
        BY <4>1, MutationFront, SMTT(60)
      <4> QED BY <2>3, <4>1, <4>2 DEF Free, WorkerActive, NoWorker, Idle
    <3>5. CASE ValidationSucceeded
      <4>1. frame' = DrainThen("restored") \/ frame' = DrainThen("restoredFollowup")
        BY <3>5 DEF ValidationSucceeded
      <4> QED BY <2>2, <2>3, <4>1, SMTT(60)
    <3> QED BY <2>4, <3>1, <3>2, <3>3, <3>4, <3>5 DEF MutationCompleted
  <2>5. CASE VerificationCompleted
    <3>1. UNCHANGED frame /\ Running
      BY <2>5 DEF VerificationCompleted, VerificationIgnored, SettlementHolds, SettlementLost,
         SettlementRechecks, SettlementRepairs, BaselineVerified, InitialVerified,
         FailedUnderSettlement, BaselineRepairStarted, BaselineRepairFailed, InitialRetried,
         InitialFailed, Verified, FailedVerification, Completes, HasTask
    <3>2. \/ worker' = worker \/ worker' = [kind |-> "Apply", gen |-> gen']
          \/ worker' = [kind |-> "Recovery", gen |-> gen']
      BY <2>5 DEF VerificationCompleted, VerificationIgnored, SettlementHolds, SettlementLost,
         SettlementRechecks, SettlementRepairs, BaselineVerified, InitialVerified,
         FailedUnderSettlement, BaselineRepairStarted, BaselineRepairFailed, InitialRetried,
         InitialFailed
    <3>3. reset' = reset \/ reset' = [reset EXCEPT !.recovery = "none"]
      BY <2>5 DEF VerificationCompleted, VerificationIgnored, SettlementHolds, SettlementLost,
         SettlementRechecks, SettlementRepairs, BaselineVerified, InitialVerified,
         FailedUnderSettlement, BaselineRepairStarted, BaselineRepairFailed, InitialRetried,
         InitialFailed, FailedVerification
    <3>4. reset'.pending = reset.pending
      BY <2>1, <3>3 DEF ResetType
    <3> QED BY <2>3, <3>1, <3>2, <3>4, SMTT(60) DEF Free, WorkerActive, NoWorker
  <2> QED BY <2>4, <2>5 DEF Complete

\* A handler goes on after the drain loop has emptied the queue.
<1>ContinueOwns.
    ASSUME TypeOK, OwnerInv, Continue
    PROVE  OwnerInv'
  <2> USE <1>ContinueOwns
  <2>1. reset \in ResetType /\ frame \in FrameType /\ world \in WorldType
    BY DEF TypeOK
  <2>2. UNCHANGED deferred
    BY OthersKeepQueue
  <2>3. \A p : DrainThen(p).at = p
    BY <2>1 DEF DrainThen, FrameType
  <2>4. CASE Finish \/ RolledBack \/ DecideBaselineFailed \/ DecideVerify \/ DecideSettling
             \/ DecideFailed \/ AfterLastRepair \/ AfterLastFailure \/ ConcludeFailed
    <3>1. frame'.at \notin {"idle", "resetTail"}
      BY <2>1, <2>3, <2>4 DEF Finish, RolledBack, DecideBaselineFailed, DecideVerify,
         DecideSettling, DecideFailed, AfterLastRepair, AfterLastFailure, ConcludeFailed, FrameType
    <3> QED BY <3>1 DEF OwnerInv
  <2>5. CASE AfterReturn \/ AfterRollback \/ AfterSuperseded \/ AfterSettling \/ AfterReset
             \/ AfterRestored \/ AfterRestoredFollowup
    <3>1. DrainedOut /\ UNCHANGED worker
      BY <2>5 DEF AfterReturn, AfterRollback, AfterSuperseded, AfterSettling, AfterReset,
         AfterRestored, AfterRestoredFollowup, After
    <3>2. reset'.pending = reset.pending
      BY <2>1, <2>5 DEF AfterReturn, AfterRollback, AfterSuperseded, AfterSettling, AfterReset,
         AfterRestored, AfterRestoredFollowup, ResetType
    <3> QED BY <2>2, <3>1, <3>2 DEF OwnerInv, DrainedOut, Free, WorkerActive
  <2>6. CASE ConcludeHdr
    <3>1. worker' # NoWorker
      BY <2>6 DEF ConcludeHdr, DispatchApply, NoWorker
    <3> QED BY <3>1 DEF OwnerInv, Free, WorkerActive
  <2>7. CASE ResetExits \/ ResetResumes
    <3>1. Running /\ frame.at = "resetTail" /\ UNCHANGED worker
      BY <2>7 DEF ResetExits, ResetResumes, At
    <3>2. reset'.pending = reset.pending
      BY <2>1, <2>7 DEF ResetExits, ResetResumes, ResetType
    <3> QED BY <2>2, <3>1, <3>2 DEF OwnerInv, Free, WorkerActive
  <2> QED BY <2>4, <2>5, <2>6, <2>7 DEF Continue, FinishApply

<1> SUFFICES ASSUME TypeOK, FenceInv, OwnerInv, [Next]_vars PROVE OwnerInv'
  OBVIOUS
<1>1. reset \in ResetType
  BY DEF TypeOK
<1>2. ASSUME Idle, UNCHANGED <<frame, deferred>>, Free' => Free
      PROVE  OwnerInv'
  BY <1>2 DEF OwnerInv, Idle
<1>3. ASSUME Idle, UNCHANGED frame, ~Free' \/ (deferred' = deferred /\ (Free' => Free))
      PROVE  OwnerInv'
  BY <1>3 DEF OwnerInv, Idle
<1>4. CASE Client
  <2>1. CASE ClientApply \/ ClientDisarm \/ ClientReset
    <3>1. Idle
      BY <2>1 DEF ClientApply, ClientDisarm, ClientReset, Deliver
    <3>2. \E c : HandleApply(c, deferred) \/ HandleDisarm(c, deferred) \/ HandleReset(c, deferred)
      BY <2>1 DEF ClientApply, ClientDisarm, ClientReset
    <3> QED BY <1>3, <3>1, <3>2, HandlersOwn
  <2>2. CASE ClientReactivate \/ ClientRefreshRate
    <3>1. worker' # NoWorker
      BY <2>2, SMTT(60) DEF ClientReactivate, ClientRefreshRate, ApplyReactivation, RefreshRateStarted,
         DispatchApply, NoWorker
    <3> QED BY <3>1 DEF OwnerInv, Free, WorkerActive
  <2>3. CASE ClientRevert \/ ClientSnapshot \/ ClientPark
    <3>1. Idle /\ UNCHANGED <<frame, deferred, worker, reset>>
      BY <2>3 DEF ClientRevert, ClientSnapshot, ClientPark, SnapshotTaken, Park, Deliver
    <3> QED BY <1>2, <3>1 DEF Free, WorkerActive
  <2> QED BY <1>4, <2>1, <2>2, <2>3 DEF Client
<1>5. CASE Mailbox
  <2>1. CASE RevertDelivered
    <3>1. Idle /\ HandleRevert(Head(mail), deferred)
      BY <2>1 DEF RevertDelivered
    <3> QED BY <1>3, <3>1, HandlersOwn
  <2>2. CASE RevertStale
    BY <1>2, <2>2 DEF RevertStale, Free, WorkerActive
  <2> QED BY <1>5, <2>1, <2>2 DEF Mailbox
<1>6. CASE Drain
  <2>1. frame.at \in DrainPoints
    BY <1>6 DEF Drain, DrainDropsStale, DrainDropsRepair, DrainRuns, Draining
  <2>2. UNCHANGED frame
    <3>1. CASE DrainDropsStale \/ DrainDropsRepair
      BY <3>1 DEF DrainDropsStale, DrainDropsRepair
    <3>2. CASE DrainRuns
      <4>1. \/ HandleApply(Head(deferred), Tail(deferred))
            \/ HandleRevert(Head(deferred), Tail(deferred))
            \/ HandleDisarm(Head(deferred), Tail(deferred))
            \/ HandleReset(Head(deferred), Tail(deferred)) \/ RepairStarted(Tail(deferred))
        BY <3>2 DEF DrainRuns
      <4> QED BY <4>1, HandlersOwn
    <3> QED BY <1>6, <3>1, <3>2 DEF Drain
  <2> QED BY <2>1, <2>2 DEF OwnerInv, DrainPoints
<1>7. CASE Complete
  BY <1>7, <1>CompletionsOwn DEF OwnerInv
<1>8. CASE Continue
  BY <1>8, <1>ContinueOwns
<1>9. CASE Worker \/ Time
  <2>1. UNCHANGED <<frame, deferred, worker, reset>> /\ Running
    BY <1>9 DEF Worker, WorkerGuards, WorkerTouches, RecoveryEnters, RecoveryTouches,
       TimerFires, HasTask, fsmVars, Time, WindowCloses, QuietEnds, GraceEnds, notTime
  <2> QED BY <2>1 DEF OwnerInv, Free, WorkerActive
<1>10. CASE DisplayEvent
  <2>1. CASE BaselineReturned \/ IdentityUnchanged \/ EventKept
    <3>1. Idle /\ UNCHANGED <<frame, deferred, worker, reset>>
      BY <2>1 DEF BaselineReturned, IdentityUnchanged, EventKept, IdentityEvent,
         RecoveryEvent, Notified
    <3> QED BY <1>2, <3>1 DEF Free, WorkerActive
  <2>2. CASE IdentityQueued
    <3>1. ~Free /\ UNCHANGED <<worker, reset>>
      BY <2>2 DEF IdentityQueued
    <3> QED BY <3>1 DEF OwnerInv, Free, WorkerActive
  <2>3. CASE IdentityReplaced \/ EventReopens
    <3>1. worker' # NoWorker
      BY <2>3, SMTT(60) DEF IdentityReplaced, ReapplyIdentity, DispatchApply, EventReopens,
         RestartRecovery, StartRecovery, NoWorker
    <3> QED BY <3>1 DEF OwnerInv, Free, WorkerActive
  <2> QED BY <1>10, <2>1, <2>2, <2>3 DEF DisplayEvent
<1>11. CASE Tick
  <2>1. CASE TickReconciles \/ TickRetries
    <3>1. worker' # NoWorker
      BY <2>1, SMTT(60) DEF TickReconciles, TickRetries, RestartRecovery, StartRecovery, NoWorker
    <3> QED BY <3>1 DEF OwnerInv, Free, WorkerActive
  <2>2. CASE TickDiscards \/ TickExpires
    <3>1. Idle /\ UNCHANGED <<frame, deferred, worker, reset>>
      BY <2>2 DEF TickDiscards, TickExpires, Ticks
    <3> QED BY <1>2, <3>1 DEF Free, WorkerActive
  <2> QED BY <1>11, <2>1, <2>2 DEF Tick
<1>12. CASE Connection
  <2>1. UNCHANGED <<frame, deferred, worker, reset>> /\ Running
    BY <1>12 DEF Connection, Connect, Retire, Stop, DisconnectSettles, DisconnectReverts,
       DisconnectIdle, Disconnects, Idle
  <2> QED BY <2>1 DEF OwnerInv, Free, WorkerActive
<1>13. CASE UNCHANGED vars
  BY <1>13 DEF OwnerInv, Free, WorkerActive, Running, vars
<1> QED BY <1>4, <1>5, <1>6, <1>7, <1>8, <1>9, <1>10, <1>11, <1>12, <1>13 DEF Next

DutyInv == IInv /\ OwnerInv

LEMMA DutyInit == Init => DutyInv
<1>1. Init => OwnerInv
  BY DEF Init, OwnerInv
<1> QED BY <1>1, IInvInit DEF DutyInv

\* ... and so is the owner of what waits.
LEMMA DutyStep == DutyInv /\ [Next]_vars => DutyInv'
BY IInvStep, OwnerStep DEF DutyInv, IInv, TypeInv

\* A command that waits between two messages has a mutation or a RESET in
\* flight, whose completion drains the queue: no path through the handlers
\* returns with an open fence and a command behind it.
THEOREM DeferredHasOwnerHolds == Spec => []DeferredHasOwner
<1>1. DutyInv => DeferredHasOwner
  BY DEF DutyInv, OwnerInv, DeferredHasOwner, Free, Idle
<1> QED BY <1>1, DutyInit, DutyStep, PTL DEF Spec

============================================================================
