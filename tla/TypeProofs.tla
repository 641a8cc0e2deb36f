---------------------------- MODULE TypeProofs -----------------------------
(***************************************************************************)
(* The display helper's types and connections, for every instance.         *)
(*                                                                         *)
(* TypeOK: in particular the settlement's check index, the allowances for  *)
(* discoveries and repairs and the connection epochs stay within their     *)
(* bounds. Every handler keeps the types of what it updates; the bound of  *)
(* the epochs needs TypeInv.                                               *)
(*                                                                         *)
(* EpochInv: while a settlement runs, every APPLY and identity repair that *)
(* waits belongs to a retired connection, so the settlement and a live     *)
(* replacement never compete for the display.                              *)
(***************************************************************************)
EXTENDS DisplayHelper, SequenceTheorems, TLAPS

\* A leaf that names no prover is given to Zenon; those that need arithmetic,
\* records or sequences name the SMT solver.
USE ZenonT(60)

\* The variables that a command handler fixes; its caller fixes the others.
CoreOK ==
  /\ state \in States
  /\ gen \in Nat
  /\ worker \in [kind : WorkerKinds \cup {"none"}, gen : Nat]
  /\ deferred \in Seq(IntentType)
  /\ session \in SessionType /\ lease \in LeaseType /\ settle \in SettleType
  /\ reset \in ResetType /\ identity \in IdentityType /\ retry \in RetryType
  /\ ticket \in TicketType /\ frame \in FrameType
  /\ tasks \in Seq(TaskType) /\ timers \in Seq(TaskType)
  /\ link \in LinkType
  /\ world \in WorldType /\ replies \in RepliesType

\* A step that leaves the connection as it is; only the exit callback may forget
\* the connection a restore came from.
LinkKept == link'.conn = link.conn /\ link'.epoch = link.epoch
Kept == LinkKept /\ UNCHANGED <<mail, inputs>>

----------------------------------------------------------------------------
(* The operators keep the types of what they update *)

\* Retry schedules (RestoreScheduler and the event kept for the tick).
LEMMA RetryOps ==
  /\ NoRetry \in RetryType
  /\ \A r \in RetryType :
       /\ ArmRetry(r) \in RetryType /\ Disarmed(r) \in RetryType
       /\ StartRetry(r) \in RetryType
       /\ [r EXCEPT !.event = NoEvent] \in RetryType
       /\ [r EXCEPT !.event = NoEvent, !.known = FALSE] \in RetryType
       /\ [r EXCEPT !.open = TRUE, !.reported = FALSE] \in RetryType
<1>1. NoEvent \in [held : BOOLEAN, gen : Nat, epoch : Epochs]
  BY ConstantsAssumption, SMTT(60) DEF NoEvent, Epochs
<1> QED BY <1>1 DEF NoRetry, ArmRetry, Disarmed, StartRetry, RetryType

\* The recovery lease.
LEMMA LeaseOps ==
  \A l \in LeaseType :
    /\ session \in SessionType => Activated(l) \in LeaseType
    /\ Cleared(l) \in LeaseType /\ Retained(l) \in LeaseType
BY DEF Activated, Cleared, Retained, LeaseType, SessionType, Request

\* The settlement.
LEMMA SettleOps ==
  /\ NoSettle \in SettleType
  /\ settle \in SettleType =>
       /\ SettleDeferred \in SettleType /\ CheckDone \in SettleType
       /\ Claimed \in SettleType /\ Resumed \in SettleType
<1>1. NoSettle \in SettleType
  BY SMTT(60) DEF NoSettle, SettleType, MaxChecks
<1> SUFFICES ASSUME settle \in SettleType
             PROVE  /\ SettleDeferred \in SettleType /\ CheckDone \in SettleType
                    /\ Claimed \in SettleType /\ Resumed \in SettleType
  BY <1>1
<1>2. SettleDeferred \in SettleType
  <2> DEFINE n == IF settle.pending /\ ~settle.finalPending /\ settle.next > 0
                  THEN settle.next - 1 ELSE settle.next
             f == settle.deferredFinal \/ (settle.pending /\ settle.finalPending)
  <2>1. n \in 0..MaxChecks /\ f \in BOOLEAN
    BY SMTT(60) DEF SettleType, MaxChecks
  <2>2. SettleDeferred = IF ~settle.requested THEN settle
          ELSE [settle EXCEPT !.pending = FALSE, !.finalPending = FALSE,
                  !.deferredByReset = TRUE, !.deferredFinal = f, !.next = n]
    BY DEF SettleDeferred, SettleType
  <2> HIDE DEF n, f
  <2> QED BY <2>1, <2>2 DEF SettleType
<1> QED BY <1>2 DEF CheckDone, Claimed, Resumed, HasTopology, SettleType

\* Constants of the record types, and the values derived from the session.
LEMMA Constants ==
  /\ NoTicket \in TicketType /\ NoIdentity \in IdentityType /\ NoReplies \in RepliesType
  /\ NoRequest \in Request /\ NoCompletion \in Completion
  /\ NoneHeld \in [held : BOOLEAN, done : Completion]
  /\ IdleFrame \in FrameType /\ [IdleFrame EXCEPT !.at = "resetTail"] \in FrameType
  /\ SteadyState \in States
<1>1. NoCompletion \in Completion
  BY DEF NoCompletion, Completion, Statuses
<1>2. NoTicket \in TicketType
  BY ConstantsAssumption, SMTT(60) DEF NoTicket, TicketType, Epochs
<1>3. NoIdentity \in IdentityType
  BY ConstantsAssumption, SMTT(60) DEF NoIdentity, IdentityType
<1>4. IdleFrame \in FrameType /\ [IdleFrame EXCEPT !.at = "resetTail"] \in FrameType
  BY <1>1 DEF IdleFrame, FrameType, FramePoints, DrainPoints
<1>5. SteadyState \in States
  BY DEF SteadyState, States
<1> QED BY <1>1, <1>2, <1>3, <1>4, <1>5
     DEF NoReplies, RepliesType, Result, NoRequest, Request, Layouts, NoneHeld

\* A task that a handler dispatches.
LEMMA TaskPushed ==
  ASSUME gen' \in Nat, NEW mode \in Modes, NEW q \in Seq(TaskType),
         NEW op \in {"Apply", "Verification", "Reset", "RefreshRate", "Recovery", "Validation"}
  PROVE  Append(q, Task(op, mode)) \in Seq(TaskType)
<1>1. Task(op, mode) \in TaskType
  BY DEF Task, TaskType, Phases
<1> QED BY <1>1, SMTT(60)

\* A queue of which one task is removed, or of which the front advances.
LEMMA TaskPopped ==
  ASSUME NEW S, NEW q \in Seq(S), q # <<>>
  PROVE  Head(q) \in S /\ Tail(q) \in Seq(S)
BY HeadTailProperties

LEMMA FrontAdvanced ==
  ASSUME tasks \in Seq(TaskType), tasks # <<>>, NEW p \in Phases, NEW armed \in BOOLEAN,
         FrontPhase(p, armed)
  PROVE  /\ tasks' \in Seq(TaskType) /\ Len(tasks') = Len(tasks)
         /\ \A i \in 1..Len(tasks) :
              /\ tasks'[i].op = tasks[i].op /\ tasks'[i].mode = tasks[i].mode
              /\ tasks'[i].gen = tasks[i].gen
<1> DEFINE e == [tasks[1] EXCEPT !.phase = p, !.armed = armed]
<1>1. 1 \in 1..Len(tasks) /\ DOMAIN tasks = 1..Len(tasks) /\ tasks[1] \in TaskType
  BY EmptySeq, ElementOfSeq, LenProperties, SMTT(60)
<1>2. e \in TaskType /\ e.op = tasks[1].op /\ e.mode = tasks[1].mode /\ e.gen = tasks[1].gen
  BY <1>1 DEF TaskType
<1>3. tasks' = [tasks EXCEPT ![1] = e]
  BY <1>1 DEF FrontPhase
<1> HIDE DEF e
<1> QED BY <1>1, <1>2, <1>3, ExceptSeq, SMTT(60)

\* The queue of waiting commands.
LEMMA EraseSeq ==
  ASSUME NEW S, NEW q \in Seq(S), NEW k \in DOMAIN q
  PROVE  /\ Erase(q, k) \in Seq(S) /\ Len(Erase(q, k)) = Len(q) - 1
         /\ \A i \in 1..(Len(q) - 1) :
              Erase(q, k)[i] = IF i < k THEN q[i] ELSE q[i + 1]
<1> DEFINE a == SubSeq(q, 1, k - 1)
           b == SubSeq(q, k + 1, Len(q))
<1>1. Len(q) \in Nat /\ k \in 1..Len(q) /\ \A i \in 1..Len(q) : q[i] \in S
  BY LenProperties, ElementOfSeq
<1>2. a \in Seq(S) /\ Len(a) = k - 1 /\ \A i \in 1..(k - 1) : a[i] = q[i]
  BY <1>1, SubSeqProperties, SMTT(60)
<1>3. b \in Seq(S) /\ Len(b) = Len(q) - k /\ \A i \in 1..(Len(q) - k) : b[i] = q[k + i]
  BY <1>1, SubSeqProperties, SMTT(60)
<1> HIDE DEF a, b
<1>4. /\ a \o b \in Seq(S) /\ Len(a \o b) = Len(q) - 1
      /\ \A i \in 1..(Len(q) - 1) : (a \o b)[i] = IF i < k THEN q[i] ELSE q[i + 1]
  <2>1. /\ a \o b \in Seq(S) /\ Len(a \o b) = Len(a) + Len(b)
        /\ \A i \in 1..(Len(a) + Len(b)) :
             (a \o b)[i] = IF i <= Len(a) THEN a[i] ELSE b[i - Len(a)]
    BY <1>2, <1>3, ConcatProperties
  <2>2. Len(a) + Len(b) = Len(q) - 1
    BY <1>1, <1>2, <1>3, SMTT(60)
  <2>3. ASSUME NEW i \in 1..(Len(q) - 1), i < k
        PROVE  (a \o b)[i] = q[i]
    BY <1>1, <1>2, <2>1, <2>2, <2>3, SMTT(60)
  <2>4. ASSUME NEW i \in 1..(Len(q) - 1), ~(i < k)
        PROVE  (a \o b)[i] = q[i + 1]
    <3>1. i \in 1..(Len(a) + Len(b)) /\ ~(i <= Len(a))
      BY <1>1, <1>2, <2>2, <2>4, SMTT(60)
    <3>2. i - Len(a) \in 1..(Len(q) - k) /\ k + (i - Len(a)) = i + 1
      BY <1>1, <1>2, <2>4, SMTT(60)
    <3>3. (a \o b)[i] = b[i - Len(a)]
      BY <2>1, <3>1
    <3> QED BY <1>3, <3>2, <3>3
  <2> QED BY <2>1, <2>2, <2>3, <2>4
<1> QED BY <1>4 DEF Erase, a, b

LEMMA EnqueueType ==
  ASSUME NEW q \in Seq(IntentType), NEW c \in IntentType
  PROVE  Enqueue(q, c) \in Seq(IntentType)
<1> DEFINE waiting == {i \in DOMAIN q : q[i].cmd # "Reset"}
           older == CHOOSE i \in waiting : TRUE
<1>1. CASE waiting = {}
  BY <1>1, SMTT(60) DEF Enqueue
<1>2. CASE waiting # {}
  <2>1. older \in DOMAIN q
    BY <1>2
  <2>2. Erase(q, older) \in Seq(IntentType)
    BY <2>1, EraseSeq
  <2> QED BY <2>2, SMTT(60) DEF Enqueue
<1> QED BY <1>1, <1>2

\* What is left of the identity allowances.
LEMMA AllowanceUsed ==
  \A a \in IdentityType :
    /\ a.repairs > 0 => [a EXCEPT !.repairs = @ - 1] \in IdentityType
    /\ a.discoveries > 0 => [a EXCEPT !.discoveries = @ - 1] \in IdentityType
<1> SUFFICES ASSUME NEW a \in IdentityType
             PROVE  /\ a.repairs > 0 => [a EXCEPT !.repairs = a.repairs - 1] \in IdentityType
                    /\ a.discoveries > 0 =>
                         [a EXCEPT !.discoveries = a.discoveries - 1] \in IdentityType
  OBVIOUS
<1>1. a.repairs > 0 => a.repairs - 1 \in 0..MaxRepairs
  BY ConstantsAssumption, SMTT(60) DEF IdentityType
<1>2. a.discoveries > 0 => a.discoveries - 1 \in 0..MaxDiscoveries
  BY ConstantsAssumption, SMTT(60) DEF IdentityType
<1> QED BY <1>1, <1>2 DEF IdentityType

\* The exit callback, and the desktop after a restore or a waiver.
LEMMA ExitTypes ==
  ASSUME NEW code, NEW w \in WorldType, link \in LinkType, ExitProcess(code, w)
  PROVE  world' \in WorldType /\ link' \in LinkType /\ LinkKept
<1>1. [link EXCEPT !.origin = 0] \in LinkType
  BY ConstantsAssumption, SMTT(60) DEF LinkType, Epochs
<1>2. [w EXCEPT !.running = FALSE] \in WorldType
  BY DEF WorldType
<1> QED BY <1>1, <1>2 DEF ExitProcess, LinkKept, LinkType

LEMMA WorldClearedType == world \in WorldType => WorldCleared \in WorldType
BY DEF WorldCleared, WorldType

\* The frames between a handler's steps.
LEMMA FrameOps ==
  ASSUME frame \in FrameType
  PROVE  /\ Returned \in FrameType
         /\ \A p \in FramePoints : DrainThen(p) \in FrameType
BY Constants DEF Returned, DrainThen, FrameType

\* What a display operation reports.
LEMMA OutcomeTypes ==
  ASSUME session \in SessionType, NEW t \in TaskType, NEW d \in Outcomes(t)
  PROVE  d \in Completion
<1> DEFINE early == [NoCompletion EXCEPT !.rollback = t.mode = "rollback",
                                         !.topology = session.preTopology]
           guarded == [early EXCEPT !.attempted = TRUE, !.armed = t.armed,
                         !.topology = @ \/ IsExclusive(session.request)]
           full == [guarded EXCEPT !.changed = TRUE]
           other == [early EXCEPT !.changed = TRUE, !.attempted = t.mode = "repair",
                                  !.staged = t.mode = "repair"]
<1>1. early \in Completion
  BY Constants DEF Completion, SessionType
<1>2. guarded \in Completion
  <2> HIDE DEF early
  <2> QED BY <1>1 DEF Completion, TaskType, IsExclusive
<1>3. full \in Completion
  <2> HIDE DEF guarded
  <2> QED BY <1>2 DEF Completion
<1>4. other \in Completion
  <2> HIDE DEF early
  <2> QED BY <1>1 DEF Completion
<1>5. ApplyStatuses(t) \subseteq Statuses
  BY DEF ApplyStatuses, Statuses
<1>6. \A st \in ApplyStatuses(t) : [full EXCEPT !.staged = TRUE, !.status = st] \in Completion
  <2> HIDE DEF full
  <2> QED BY <1>3, <1>5 DEF Completion
<1>7. \A st \in ApplyStatuses(t) : [other EXCEPT !.status = st] \in Completion
  <2> HIDE DEF other
  <2> QED BY <1>4, <1>5 DEF Completion
<1>8. ApplyOutcomes(t) \subseteq Completion
  <2> DEFINE fulls == {full} \cup {[full EXCEPT !.staged = TRUE, !.status = st] :
                                     st \in ApplyStatuses(t)}
             others == {[other EXCEPT !.status = st] : st \in ApplyStatuses(t)}
  <2>1. ApplyOutcomes(t) \in {{}, {early}, {guarded}, fulls, others}
    BY DEF ApplyOutcomes
  <2> HIDE DEF early, guarded, full, other
  <2>2. fulls \subseteq Completion
    BY <1>3, <1>6
  <2>3. others \subseteq Completion
    BY <1>7
  <2> HIDE DEF fulls, others
  <2> QED BY <2>1, <2>2, <2>3, <1>1, <1>2
<1> QED BY <1>8, Constants DEF Outcomes

\* The results published to the client.
LEMMA FailedRepliesTypes ==
  ASSUME session \in SessionType, replies \in RepliesType, FailedReplies
  PROVE  session' \in SessionType /\ replies' \in RepliesType
<1>1. \A r \in RepliesType, ok \in BOOLEAN, sent \in BOOLEAN :
        /\ Report(r, "apply", ok, sent) \in RepliesType
        /\ Report(r, "verification", ok, sent) \in RepliesType
  BY DEF Report, RepliesType, Result
<1>2. session.applySent \in BOOLEAN /\ session.verificationSent \in BOOLEAN
  BY DEF SessionType
<1>3. replies' \in RepliesType
  BY <1>1, <1>2 DEF FailedReplies
<1> QED BY <1>3 DEF FailedReplies, SessionType

\* The next check of a settlement.
LEMMA CheckTypes ==
  ASSUME state \in States, timers \in Seq(TaskType), gen' \in Nat,
         NEW x \in SettleType, NEW q \in Seq(TaskType),
         NextCheck(x, q) \/ FinalCheck(x, q)
  PROVE  /\ settle' \in SettleType /\ state' \in States
         /\ tasks' \in Seq(TaskType) /\ timers' \in Seq(TaskType)
<1>1. CASE CheckWaits(x, q)
  BY <1>1 DEF CheckWaits, HeldByReset, SettleType
<1>2. CASE CheckDelayed(x, q)
  <2>1. x.next + 1 \in 0..MaxChecks
    BY <1>2, SMTT(60) DEF CheckDelayed, SettleType, MaxChecks
  <2>2. settle' \in SettleType
    BY <1>2, <2>1 DEF CheckDelayed, SettleType
  <2> QED BY <1>2, <2>2, TaskPushed DEF CheckDelayed, Modes, States
<1>3. CASE FinalCheck(x, q)
  <2>1. settle' \in SettleType
    BY <1>3 DEF FinalCheck, SettleType
  <2> QED BY <1>3, <2>1, TaskPushed DEF FinalCheck, Modes, States
<1> QED BY <1>1, <1>2, <1>3 DEF NextCheck, CheckFinal

\* The completed task and the queue without it.
LEMMA FrontTypes ==
  ASSUME tasks \in Seq(TaskType), tasks # <<>>
  PROVE  Front \in TaskType /\ Tail(tasks) \in Seq(TaskType)
BY TaskPopped DEF Front

----------------------------------------------------------------------------
(* The command handlers *)

\* APPLY, queued, accepted or rejected.
LEMMA ApplyTypes ==
  ASSUME CoreOK, NEW c \in IntentType, NEW rest \in Seq(IntentType),
         HandleApply(c, rest)
  PROVE  CoreOK' /\ LinkKept
<1>1. CASE ApplyQueued(c)
  <2>1. ticket' \in TicketType /\ settle' \in SettleType
    BY <1>1, Constants, SettleOps DEF CoreOK, ApplyQueued
  <2>2. retry' \in RetryType
    BY <1>1, RetryOps DEF CoreOK, ApplyQueued
  <2>3. lease' \in LeaseType
    BY <1>1 DEF CoreOK, ApplyQueued, LeaseType
  <2>4. deferred' \in Seq(IntentType)
    BY <1>1, EnqueueType DEF CoreOK, ApplyQueued
  <2> QED BY <1>1, <2>1, <2>2, <2>3, <2>4 DEF CoreOK, ApplyQueued, LinkKept
<1>2. CASE ApplyStarted(c, rest)
  <2>1. gen' \in Nat
    BY <1>2, SMTT(60) DEF CoreOK, ApplyStarted, ApplyBegins, Cancel
  <2>2. /\ ticket' \in TicketType
        /\ settle' \in SettleType
        /\ deferred' \in Seq(IntentType)
        /\ replies' \in RepliesType
    BY <1>2, Constants, SettleOps DEF CoreOK, ApplyStarted, ApplyBegins, NoReplies,
       RepliesType, Result
  <2>3. retry' \in RetryType
    BY <1>2, RetryOps DEF CoreOK, ApplyStarted, ApplyBegins
  <2>4. lease' \in LeaseType
    BY <1>2 DEF CoreOK, ApplyStarted, ApplyBegins, LeaseType, IntentType, Request
  <2>5. session' \in SessionType
    BY <1>2 DEF CoreOK, ApplyStarted, ApplyBegins, SessionType, IntentType,
       LeaseType, Accepted
  <2>6. reset' \in ResetType
    BY <1>2, Constants DEF CoreOK, ApplyStarted, ApplyBegins, ResetType
  <2>7. identity' \in IdentityType
    BY <1>2, ConstantsAssumption, SMTT(60) DEF CoreOK, ApplyStarted, ApplyBegins, IdentityType
  <2>8. state' \in States
    BY <1>2 DEF CoreOK, ApplyStarted, States
  <2>9. /\ worker' \in [kind : WorkerKinds \cup {"none"}, gen : Nat]
        /\ tasks' \in Seq(TaskType)
    BY <1>2, <2>1, TaskPushed DEF CoreOK, ApplyStarted, DispatchApply, WorkerKinds,
       Modes
  <2>10. world' \in WorldType
    BY <1>2 DEF CoreOK, ApplyStarted, WorldType
  <2> QED BY <1>2, <2>1, <2>2, <2>3, <2>4, <2>5, <2>6, <2>7, <2>8, <2>9, <2>10 DEF CoreOK,
        ApplyStarted, ApplyBegins, LinkKept
<1>3. CASE ApplyRejected(c, rest)
  <2>1. gen' \in Nat
    BY <1>3, SMTT(60) DEF CoreOK, ApplyRejected, ApplyBegins, Cancel
  <2>2. /\ ticket' \in TicketType
        /\ settle' \in SettleType
        /\ deferred' \in Seq(IntentType)
        /\ replies' \in RepliesType
    BY <1>3, Constants, SettleOps DEF CoreOK, ApplyRejected, ApplyBegins, NoReplies,
       RepliesType, Result
  <2>3. retry' \in RetryType
    BY <1>3, RetryOps DEF CoreOK, ApplyRejected, ApplyBegins
  <2>4. lease' \in LeaseType
    BY <1>3 DEF CoreOK, ApplyRejected, ApplyBegins, LeaseType, IntentType, Request
  <2>5. session' \in SessionType
    BY <1>3 DEF CoreOK, ApplyRejected, ApplyBegins, SessionType, IntentType,
       LeaseType, Accepted
  <2>6. reset' \in ResetType
    BY <1>3, Constants DEF CoreOK, ApplyRejected, ApplyBegins, ResetType
  <2>7. identity' \in IdentityType
    BY <1>3, ConstantsAssumption, SMTT(60) DEF CoreOK, ApplyRejected, ApplyBegins,
       IdentityType
  <2>8. state' \in States
    BY <1>3 DEF CoreOK, ApplyRejected, States
  <2> QED BY <1>3, <2>1, <2>2, <2>3, <2>4, <2>5, <2>6, <2>7, <2>8 DEF CoreOK, ApplyRejected,
        ApplyBegins, LinkKept
<1> QED BY <1>1, <1>2, <1>3 DEF HandleApply

\* The autonomous repair, and reactivation, refresh rate, snapshot and parking.
LEMMA OtherTypes ==
  ASSUME CoreOK, NEW rest \in Seq(IntentType),
         \/ RepairStarted(rest) \/ ApplyReactivation \/ RefreshRateStarted
         \/ SnapshotTaken \/ Park
  PROVE  CoreOK' /\ LinkKept
<1>1. CASE RepairStarted(rest)
  <2>1. gen' \in Nat
    BY <1>1 DEF CoreOK, RepairStarted
  <2>2. identity' \in IdentityType
    BY <1>1, AllowanceUsed DEF CoreOK, RepairStarted, ReapplyIdentity
  <2>3. session' \in SessionType
    BY <1>1 DEF CoreOK, RepairStarted, ReapplyIdentity, SessionType
  <2>4. state' \in States
    BY <1>1 DEF CoreOK, RepairStarted, ReapplyIdentity, States
  <2>5. /\ worker' \in [kind : WorkerKinds \cup {"none"}, gen : Nat]
        /\ tasks' \in Seq(TaskType)
    BY <1>1, <2>1, TaskPushed DEF CoreOK, RepairStarted, ReapplyIdentity,
       DispatchApply, WorkerKinds, Modes
  <2>6. reset' \in ResetType
    BY <1>1, Constants DEF CoreOK, RepairStarted, ResetType
  <2> QED BY <1>1, <2>1, <2>2, <2>3, <2>4, <2>5, <2>6 DEF CoreOK, RepairStarted, LinkKept
<1>2. CASE ApplyReactivation
  <2>1. gen' \in Nat
    BY <1>2 DEF CoreOK, ApplyReactivation
  <2>2. session' \in SessionType
    BY <1>2 DEF CoreOK, ApplyReactivation, SessionType
  <2>3. /\ worker' \in [kind : WorkerKinds \cup {"none"}, gen : Nat]
        /\ tasks' \in Seq(TaskType)
    BY <1>2, <2>1, TaskPushed DEF CoreOK, ApplyReactivation, DispatchApply,
       WorkerKinds, Modes
  <2> QED BY <1>2, <2>1, <2>2, <2>3 DEF CoreOK, ApplyReactivation, LinkKept
<1>3. CASE RefreshRateStarted
  <2>1. gen' \in Nat
    BY <1>3 DEF CoreOK, RefreshRateStarted
  <2>2. /\ worker' \in [kind : WorkerKinds \cup {"none"}, gen : Nat]
        /\ tasks' \in Seq(TaskType)
    BY <1>3, <2>1, TaskPushed DEF CoreOK, RefreshRateStarted, DispatchApply,
       WorkerKinds, Modes
  <2> QED BY <1>3, <2>1, <2>2 DEF CoreOK, RefreshRateStarted, LinkKept
<1>4. CASE SnapshotTaken
  <2>1. world' \in WorldType
    BY <1>4 DEF CoreOK, SnapshotTaken, WorldType
  <2> QED BY <1>4, <2>1 DEF CoreOK, SnapshotTaken, LinkKept
<1>5. CASE Park
  <2>1. ticket' \in TicketType
    BY <1>5 DEF CoreOK, Park, TicketType
  <2>2. retry' \in RetryType
    BY <1>5, RetryOps DEF CoreOK, Park
  <2> QED BY <1>5, <2>1, <2>2 DEF CoreOK, Park, LinkKept
<1> QED BY <1>1, <1>2, <1>3, <1>4, <1>5

\* REVERT.
LEMMA RevertTypes ==
  ASSUME CoreOK, NEW c \in IntentType, NEW rest \in Seq(IntentType),
         HandleRevert(c, rest)
  PROVE  CoreOK' /\ LinkKept
<1>1. CASE RevertJoined(c, rest)
  <2>1. ticket' \in TicketType
    BY <1>1, ConstantsAssumption DEF CoreOK, RevertJoined, RevertTicket, TicketType,
       IntentType
  <2> QED BY <1>1, <2>1 DEF CoreOK, RevertJoined, LinkKept
<1>2. CASE RevertQueued(c)
  <2>1. ticket' \in TicketType
    BY <1>2, ConstantsAssumption DEF CoreOK, RevertQueued, RevertTicket, TicketType,
       IntentType
  <2>2. lease' \in LeaseType
    BY <1>2 DEF CoreOK, RevertQueued, RevertLease, LeaseType, IntentType
  <2>3. settle' \in SettleType
    BY <1>2, SettleOps DEF CoreOK, RevertQueued, RevertSettle
  <2>4. gen' \in Nat
    BY <1>2, SMTT(60) DEF CoreOK, RevertQueued, Cancel
  <2>5. deferred' \in Seq(IntentType)
    BY <1>2, EnqueueType DEF CoreOK, RevertQueued
  <2> QED BY <1>2, <2>1, <2>2, <2>3, <2>4, <2>5 DEF CoreOK, RevertQueued, LinkKept
<1>3. CASE RevertDeclined(c, rest)
  <2>1. gen' \in Nat
    BY <1>3, SMTT(60) DEF CoreOK, RevertDeclined, Cancel
  <2>2. /\ ticket' \in TicketType
        /\ retry' \in RetryType
        /\ lease' \in LeaseType
        /\ settle' \in SettleType
        /\ identity' \in IdentityType
    BY <1>3, Constants, RetryOps, LeaseOps, SettleOps DEF CoreOK, RevertDeclined,
       ClearRecoveryState
  <2>3. session' \in SessionType
    BY <1>3 DEF CoreOK, RevertDeclined, SessionType
  <2>4. reset' \in ResetType
    BY <1>3, Constants DEF CoreOK, RevertDeclined, ResetType
  <2>5. state' \in States
    BY <1>3 DEF CoreOK, RevertDeclined, States
  <2>6. world' \in WorldType
    BY <1>3 DEF CoreOK, RevertDeclined, WorldCleared, WorldType
  <2> QED BY <1>3, <2>1, <2>2, <2>3, <2>4, <2>5, <2>6 DEF CoreOK, RevertDeclined, LinkKept
<1>4. CASE RevertNothing(c, rest)
  <2>1. gen' \in Nat
    BY <1>4, SMTT(60) DEF CoreOK, RevertNothing, Cancel
  <2>2. /\ ticket' \in TicketType
        /\ retry' \in RetryType
        /\ lease' \in LeaseType
        /\ settle' \in SettleType
        /\ identity' \in IdentityType
    BY <1>4, Constants, RetryOps, LeaseOps, SettleOps DEF CoreOK, RevertNothing,
       ClearRecoveryState
  <2>3. session' \in SessionType
    BY <1>4 DEF CoreOK, RevertNothing, SessionType
  <2>4. reset' \in ResetType
    BY <1>4, Constants DEF CoreOK, RevertNothing, ResetType
  <2>5. world' \in WorldType /\ link' \in LinkType /\ LinkKept
    BY <1>4, ExitTypes, WorldClearedType DEF CoreOK, RevertNothing
  <2> QED BY <1>4, <2>1, <2>2, <2>3, <2>4, <2>5 DEF CoreOK, RevertNothing, LinkKept
<1>5. CASE RevertStarted(c, rest)
  <2>1. gen' \in Nat
    BY <1>5, SMTT(60) DEF CoreOK, RevertStarted, Cancel
  <2>2. ticket' \in TicketType
    BY <1>5, <2>1, ConstantsAssumption DEF CoreOK, RevertStarted, Started,
       RevertTicket, TicketType, IntentType
  <2>3. lease' \in LeaseType
    BY <1>5 DEF CoreOK, RevertStarted, RevertLease, LeaseType, IntentType
  <2>4. settle' \in SettleType
    BY <1>5, SettleOps DEF CoreOK, RevertStarted, RevertSettle
  <2>5. session' \in SessionType
    BY <1>5 DEF CoreOK, RevertStarted, SessionType
  <2>6. reset' \in ResetType
    BY <1>5, Constants DEF CoreOK, RevertStarted, ResetType
  <2>7. identity' \in IdentityType
    BY <1>5 DEF CoreOK, RevertStarted, IdentityType
  <2>8. retry' \in RetryType
    BY <1>5, RetryOps DEF CoreOK, RevertStarted
  <2>9. /\ state' \in States
        /\ worker' \in [kind : WorkerKinds \cup {"none"}, gen : Nat]
        /\ tasks' \in Seq(TaskType)
    BY <1>5, <2>1, TaskPushed DEF CoreOK, RevertStarted, StartRecovery, States,
       WorkerKinds, Modes
  <2> QED BY <1>5, <2>1, <2>2, <2>3, <2>4, <2>5, <2>6, <2>7, <2>8, <2>9 DEF CoreOK,
        RevertStarted, LinkKept
<1> QED BY <1>1, <1>2, <1>3, <1>4, <1>5 DEF HandleRevert

\* DISARM.
LEMMA DisarmTypes ==
  ASSUME CoreOK, NEW c \in IntentType, NEW rest \in Seq(IntentType),
         HandleDisarm(c, rest)
  PROVE  CoreOK' /\ LinkKept
<1>1. CASE DisarmDropped(c, rest)
  <2>1. ticket' \in TicketType
    BY <1>1, Constants DEF CoreOK, DisarmDropped
  <2> QED BY <1>1, <2>1 DEF CoreOK, DisarmDropped, LinkKept
<1>2. CASE DisarmQueued(c)
  <2>1. ticket' \in TicketType
    BY <1>2, Constants DEF CoreOK, DisarmQueued
  <2>2. settle' \in SettleType
    BY <1>2, SettleOps DEF CoreOK, DisarmQueued
  <2>3. lease' \in LeaseType
    BY <1>2 DEF CoreOK, DisarmQueued, LeaseType
  <2>4. gen' \in Nat
    BY <1>2, SMTT(60) DEF CoreOK, DisarmQueued, Cancel
  <2>5. retry' \in RetryType
    BY <1>2, RetryOps DEF CoreOK, DisarmQueued
  <2>6. deferred' \in Seq(IntentType)
    BY <1>2, EnqueueType DEF CoreOK, DisarmQueued
  <2> QED BY <1>2, <2>1, <2>2, <2>3, <2>4, <2>5, <2>6 DEF CoreOK, DisarmQueued, LinkKept
<1>3. CASE DisarmStarted(c, rest)
  <2>1. gen' \in Nat
    BY <1>3, SMTT(60) DEF CoreOK, DisarmStarted, Cancel
  <2>2. ticket' \in TicketType /\ settle' \in SettleType /\ retry' \in RetryType
    BY <1>3, Constants, SettleOps, RetryOps DEF CoreOK, DisarmStarted,
       ClearRecoveryState
  <2>3. lease' \in LeaseType
    BY <1>3, LeaseOps DEF CoreOK, DisarmStarted, ClearRecoveryState, LeaseType
  <2>4. identity' \in IdentityType
    BY <1>3, Constants DEF CoreOK, DisarmStarted, ClearRecoveryState, IdentityType
  <2>5. world' \in WorldType
    BY <1>3 DEF CoreOK, DisarmStarted, WorldCleared, WorldType
  <2>6. session' \in SessionType
    BY <1>3 DEF CoreOK, DisarmStarted, SessionType
  <2>7. reset' \in ResetType
    BY <1>3, Constants DEF CoreOK, DisarmStarted, ResetType
  <2>8. state' \in States
    BY <1>3 DEF CoreOK, DisarmStarted, States
  <2> QED BY <1>3, <2>1, <2>2, <2>3, <2>4, <2>5, <2>6, <2>7, <2>8 DEF CoreOK, DisarmStarted,
        LinkKept
<1> QED BY <1>1, <1>2, <1>3 DEF HandleDisarm

\* RESET.
LEMMA ResetTypes ==
  ASSUME CoreOK, NEW c \in IntentType, NEW rest \in Seq(IntentType),
         HandleReset(c, rest)
  PROVE  CoreOK' /\ LinkKept
<1>1. CASE ResetQueued(c)
  <2>1. ticket' \in TicketType
    BY <1>1, Constants DEF CoreOK, ResetQueued
  <2>2. deferred' \in Seq(IntentType)
    BY <1>1, EnqueueType DEF CoreOK, ResetQueued
  <2> QED BY <1>1, <2>1, <2>2 DEF CoreOK, ResetQueued, LinkKept
<1>2. CASE ResetStarted(c, rest)
  <2>1. ticket' \in TicketType
    BY <1>2, Constants DEF CoreOK, ResetStarted
  <2>2. gen' \in Nat
    BY <1>2, SMTT(60) DEF CoreOK, ResetStarted, DeferSettlement, Cancel
  <2>3. settle' \in SettleType
    BY <1>2, SettleOps DEF CoreOK, ResetStarted, DeferSettlement
  <2>4. reset' \in ResetType
    BY <1>2 DEF CoreOK, ResetStarted, BeginReset, ResetType
  <2>5. tasks' \in Seq(TaskType)
    BY <1>2, <2>2, TaskPushed DEF CoreOK, ResetStarted, Modes
  <2> QED BY <1>2, <2>1, <2>2, <2>3, <2>4, <2>5 DEF CoreOK, ResetStarted, LinkKept
<1> QED BY <1>1, <1>2 DEF HandleReset

----------------------------------------------------------------------------
(* The completions *)

\* A mutation or RESET reports.
LEMMA MutationTypes ==
  ASSUME CoreOK, MutationCompleted
  PROVE  CoreOK' /\ Kept
<1>1. CASE StaleApplyCompleted
  <2>1. gen' \in Nat
    BY <1>1 DEF CoreOK, StaleApplyCompleted
  <2>2. tasks' \in Seq(TaskType)
    BY <1>1, <2>1, FrontTypes, TaskPushed, SMTT(20) DEF CoreOK, StaleApplyCompleted,
       Completes, HasTask, Modes
  <2>3. lease' \in LeaseType /\ world' \in WorldType /\ reset' \in ResetType
    <3>1. PICK d \in Outcomes(Front) :
            LET staged == [lease EXCEPT !.staged = @ \/ d.staged,
                                        !.taskCreated = @ \/ d.armed]
                drop == ~d.changed /\ Uncommitted(staged)
                creates == d.changed /\ ~staged.taskCreated /\ ~d.attempted
            IN /\ \E created \in IF creates THEN BOOLEAN ELSE {FALSE} :
                    /\ lease' = IF d.changed
                                THEN [Activated(staged) EXCEPT !.taskCreated = @ \/ created,
                                        !.unconfirmed = TRUE, !.heartbeat = TRUE]
                                ELSE [staged EXCEPT !.taskCreated = @ /\ ~drop]
                    /\ world' = [world EXCEPT !.task = IF drop /\ staged.taskCreated
                                                       THEN FALSE ELSE @ \/ created]
               /\ reset' = IF drop THEN BeginReset(reset) ELSE reset
      BY <1>1 DEF StaleApplyCompleted
    <3> DEFINE staged == [lease EXCEPT !.staged = @ \/ d.staged, !.taskCreated = @ \/ d.armed]
               drop == ~d.changed /\ Uncommitted(staged)
    <3>2. PICK created \in BOOLEAN :
            /\ lease' = IF d.changed
                        THEN [Activated(staged) EXCEPT !.taskCreated = @ \/ created,
                                !.unconfirmed = TRUE, !.heartbeat = TRUE]
                        ELSE [staged EXCEPT !.taskCreated = @ /\ ~drop]
            /\ world' = [world EXCEPT !.task = IF drop /\ staged.taskCreated THEN FALSE
                                               ELSE @ \/ created]
      BY <3>1
    <3>3. d \in Completion
      BY <1>1, FrontTypes, OutcomeTypes DEF CoreOK, StaleApplyCompleted, Completes, HasTask
    <3>4. staged \in LeaseType
      <4>1. d.staged \in BOOLEAN /\ d.armed \in BOOLEAN
        BY <3>3 DEF Completion
      <4>2. lease \in LeaseType
        BY DEF CoreOK
      <4> QED BY <4>1, <4>2 DEF LeaseType
    <3>5. drop \in BOOLEAN
      OBVIOUS
    <3>6. reset' \in ResetType
      BY <3>1 DEF CoreOK, BeginReset, ResetType
    <3> HIDE DEF staged, drop
    <3>7. Activated(staged) \in LeaseType
      BY <3>4, LeaseOps DEF CoreOK
    <3>8. lease' \in LeaseType
      BY <3>2, <3>4, <3>5, <3>7 DEF LeaseType
    <3>9. world' \in WorldType
      BY <3>2, <3>5 DEF CoreOK, WorldType
    <3> QED BY <3>6, <3>8, <3>9
  <2>4. worker' \in [kind : WorkerKinds \cup {"none"}, gen : Nat]
    BY <1>1 DEF CoreOK, StaleApplyCompleted, NoWorker
  <2>5. session' \in SessionType
    BY <1>1 DEF CoreOK, StaleApplyCompleted, SessionType
  <2>6. frame' \in FrameType
    BY <1>1, FrameOps DEF CoreOK, StaleApplyCompleted, FramePoints, DrainPoints
  <2> QED BY <1>1, <2>1, <2>2, <2>3, <2>4, <2>5, <2>6 DEF CoreOK, StaleApplyCompleted,
        LinkKept, Kept
<1>2. CASE ReactivationCompleted
  <2>1. tasks' \in Seq(TaskType)
    BY <1>2, FrontTypes DEF CoreOK, ReactivationCompleted, Completes, HasTask
  <2>2. worker' \in [kind : WorkerKinds \cup {"none"}, gen : Nat]
    BY <1>2 DEF CoreOK, ReactivationCompleted, NoWorker
  <2>3. session' \in SessionType
    BY <1>2 DEF CoreOK, ReactivationCompleted, SessionType
  <2>4. frame' \in FrameType
    BY <1>2, FrameOps DEF CoreOK, ReactivationCompleted, FramePoints, DrainPoints
  <2> QED BY <1>2, <2>1, <2>2, <2>3, <2>4 DEF CoreOK, ReactivationCompleted, LinkKept, Kept
<1>3. CASE ApplyCompleted
  <2>1. tasks' \in Seq(TaskType)
    BY <1>3, FrontTypes DEF CoreOK, ApplyCompleted, Completes, HasTask
  <2>2. worker' \in [kind : WorkerKinds \cup {"none"}, gen : Nat]
    BY <1>3 DEF CoreOK, ApplyCompleted, NoWorker
  <2>3. lease' \in LeaseType /\ frame' \in FrameType
    <3>1. PICK d \in Outcomes(Front) :
            /\ frame' = [IdleFrame EXCEPT !.at = "finish", !.done = d]
            /\ lease' = [lease EXCEPT !.staged = @ \/ d.staged]
      BY <1>3 DEF ApplyCompleted
    <3>2. d \in Completion
      BY <1>3, FrontTypes, OutcomeTypes DEF CoreOK, ApplyCompleted, Completes, HasTask
    <3>3. lease' \in LeaseType
      BY <3>1, <3>2 DEF CoreOK, LeaseType, Completion
    <3> QED BY <3>1, <3>2, <3>3, Constants DEF FrameType, FramePoints, DrainPoints
  <2> QED BY <1>3, <2>1, <2>2, <2>3 DEF CoreOK, ApplyCompleted, LinkKept, Kept
<1>4. CASE ResetCompleted
  <2>1. tasks' \in Seq(TaskType)
    BY <1>4, FrontTypes DEF CoreOK, ResetCompleted, Completes, HasTask
  <2>2. lease' \in LeaseType
    BY <1>4 DEF CoreOK, ResetCompleted, LeaseType
  <2>3. reset' \in ResetType
    BY <1>4 DEF CoreOK, ResetCompleted, ResetType
  <2>4. world' \in WorldType
    BY <1>4 DEF CoreOK, ResetCompleted, WorldType
  <2>5. frame' \in FrameType
    BY <1>4, FrameOps, SMTT(60) DEF CoreOK, ResetCompleted, FramePoints, DrainPoints
  <2> QED BY <1>4, <2>1, <2>2, <2>3, <2>4, <2>5 DEF CoreOK, ResetCompleted, LinkKept, Kept
<1>5. CASE RefreshRateCompleted
  <2>1. worker' \in [kind : WorkerKinds \cup {"none"}, gen : Nat]
    BY <1>5 DEF CoreOK, RefreshRateCompleted, NoWorker
  <2>2. frame' \in FrameType
    BY <1>5, FrameOps DEF CoreOK, RefreshRateCompleted, FramePoints, DrainPoints
  <2>3. gen' \in Nat
    BY <1>5, SMTT(60) DEF CoreOK, RefreshRateCompleted, PrepareCancel
  <2>4. session' \in SessionType
    BY <1>5 DEF CoreOK, RefreshRateCompleted, SessionType
  <2>5. /\ settle' \in SettleType
        /\ state' \in States
        /\ tasks' \in Seq(TaskType)
        /\ timers' \in Seq(TaskType)
    BY <1>5, <2>3, FrontTypes, CheckTypes DEF CoreOK, RefreshRateCompleted,
       Completes, HasTask, NextCheck
  <2> QED BY <1>5, <2>1, <2>2, <2>3, <2>4, <2>5 DEF CoreOK, RefreshRateCompleted, LinkKept,
        Kept
<1>6. CASE RecoveryCancelled
  <2>1. tasks' \in Seq(TaskType)
    BY <1>6, FrontTypes DEF CoreOK, RecoveryCancelled, Completes, HasTask
  <2>2. worker' \in [kind : WorkerKinds \cup {"none"}, gen : Nat]
    BY <1>6 DEF CoreOK, RecoveryCancelled, NoWorker
  <2>3. lease' \in LeaseType
    BY <1>6, LeaseOps DEF CoreOK, RecoveryCancelled, LeaseType
  <2>4. frame' \in FrameType
    BY <1>6, FrameOps DEF CoreOK, RecoveryCancelled, FramePoints, DrainPoints
  <2> QED BY <1>6, <2>1, <2>2, <2>3, <2>4 DEF CoreOK, RecoveryCancelled, LinkKept, Kept
<1>7. CASE RecoverySucceeded
  <2>1. gen' \in Nat
    BY <1>7 DEF CoreOK, RecoverySucceeded
  <2>2. tasks' \in Seq(TaskType)
    BY <1>7, <2>1, FrontTypes, TaskPushed DEF CoreOK, RecoverySucceeded, Completes,
       HasTask, Modes
  <2>3. reset' \in ResetType
    BY <1>7 DEF CoreOK, RecoverySucceeded, ResetType
  <2>4. state' \in States
    BY <1>7, Constants DEF CoreOK, RecoverySucceeded, States
  <2>5. worker' \in [kind : WorkerKinds \cup {"none"}, gen : Nat]
    BY <1>7 DEF CoreOK, RecoverySucceeded
  <2> QED BY <1>7, <2>1, <2>2, <2>3, <2>4, <2>5 DEF CoreOK, RecoverySucceeded, LinkKept, Kept
<1>8. CASE RecoveryFailed
  <2>1. tasks' \in Seq(TaskType)
    BY <1>8, FrontTypes DEF CoreOK, RecoveryFailed, Completes, HasTask
  <2>2. worker' \in [kind : WorkerKinds \cup {"none"}, gen : Nat]
    BY <1>8 DEF CoreOK, RecoveryFailed, NoWorker
  <2>3. ticket' \in TicketType
    BY <1>8 DEF CoreOK, RecoveryFailed, Published, TicketType
  <2>4. retry' \in RetryType
    BY <1>8 DEF CoreOK, RecoveryFailed, RetryType
  <2>5. state' \in States
    BY <1>8, Constants DEF CoreOK, RecoveryFailed, States
  <2>6. frame' \in FrameType
    BY <1>8, FrameOps DEF CoreOK, RecoveryFailed, FramePoints, DrainPoints
  <2> QED BY <1>8, <2>1, <2>2, <2>3, <2>4, <2>5, <2>6 DEF CoreOK, RecoveryFailed, LinkKept,
        Kept
<1>9. CASE ValidationCancelled
  <2>1. tasks' \in Seq(TaskType)
    BY <1>9, FrontTypes DEF CoreOK, ValidationCancelled, Completes, HasTask
  <2>2. worker' \in [kind : WorkerKinds \cup {"none"}, gen : Nat]
    BY <1>9 DEF CoreOK, ValidationCancelled, NoWorker
  <2>3. lease' \in LeaseType
    BY <1>9, LeaseOps DEF CoreOK, ValidationCancelled
  <2>4. frame' \in FrameType
    BY <1>9, FrameOps DEF CoreOK, ValidationCancelled, FramePoints, DrainPoints
  <2> QED BY <1>9, <2>1, <2>2, <2>3, <2>4 DEF CoreOK, ValidationCancelled, LinkKept, Kept
<1>10. CASE ValidationFailed
  <2>1. tasks' \in Seq(TaskType)
    BY <1>10, FrontTypes DEF CoreOK, ValidationFailed, Completes, HasTask
  <2>2. worker' \in [kind : WorkerKinds \cup {"none"}, gen : Nat]
    BY <1>10 DEF CoreOK, ValidationFailed, NoWorker
  <2>3. ticket' \in TicketType
    BY <1>10 DEF CoreOK, ValidationFailed, Published, TicketType
  <2>4. retry' \in RetryType
    BY <1>10 DEF CoreOK, ValidationFailed, RetryType
  <2>5. state' \in States
    BY <1>10, Constants DEF CoreOK, ValidationFailed, States
  <2>6. frame' \in FrameType
    BY <1>10, FrameOps DEF CoreOK, ValidationFailed, FramePoints, DrainPoints
  <2> QED BY <1>10, <2>1, <2>2, <2>3, <2>4, <2>5, <2>6 DEF CoreOK, ValidationFailed,
        LinkKept, Kept
<1>11. CASE ValidationSucceeded
  <2>1. gen' \in Nat
    BY <1>11 DEF CoreOK, ValidationSucceeded
  <2>2. tasks' \in Seq(TaskType)
    BY <1>11, <2>1, FrontTypes, TaskPushed DEF CoreOK, ValidationSucceeded,
       Completes, HasTask, Modes
  <2>3. lease' \in LeaseType
    BY <1>11 DEF CoreOK, ValidationSucceeded, LeaseType, ResetType
  <2>4. reset' \in ResetType
    BY <1>11 DEF CoreOK, ValidationSucceeded, ResetType
  <2>5. frame' \in FrameType
    BY <1>11, FrameOps DEF CoreOK, ValidationSucceeded, FramePoints, DrainPoints
  <2>6. ticket' \in TicketType
    BY <1>11 DEF CoreOK, ValidationSucceeded, Published, TicketType
  <2>7. retry' \in RetryType
    <3>1. Disarmed(retry) \in RetryType
      BY RetryOps DEF CoreOK
    <3>2. [Disarmed(retry) EXCEPT !.quiet = FALSE] \in RetryType
      BY <3>1 DEF RetryType
    <3>3. retry' = [[Disarmed(retry) EXCEPT !.quiet = FALSE] EXCEPT !.event = NoEvent,
                                                                   !.known = FALSE]
      BY <1>11, <3>1 DEF ValidationSucceeded, RetryType
    <3> QED BY <3>2, <3>3, RetryOps
  <2>8. worker' \in [kind : WorkerKinds \cup {"none"}, gen : Nat]
    BY <1>11 DEF CoreOK, ValidationSucceeded, NoWorker
  <2>9. state' \in States
    BY <1>11, Constants DEF CoreOK, ValidationSucceeded, States
  <2>10. world' \in WorldType
    BY <1>11 DEF CoreOK, ValidationSucceeded, WorldType
  <2> QED BY <1>11, <2>1, <2>2, <2>3, <2>4, <2>5, <2>6, <2>7, <2>8, <2>9, <2>10 DEF CoreOK,
        ValidationSucceeded, LinkKept, Kept
<1> QED BY <1>1, <1>2, <1>3, <1>4, <1>5, <1>6, <1>7, <1>8, <1>9, <1>10, <1>11 DEF
    MutationCompleted

----------------------------------------------------------------------------
(* The handlers that continue after their drain call *)

\* A handler goes on.
LEMMA ContinueTypes ==
  ASSUME CoreOK, Continue
  PROVE  CoreOK' /\ Kept
<1>1. CASE Finish
  <2>1. frame' \in FrameType
    <3>1. identity.inFlight \in BOOLEAN
      BY DEF CoreOK, IdentityType
    <3>2. \E p \in {"rolledBack", "superseded", "decide"} :
            frame' = [frame EXCEPT !.at = p, !.baseline = identity.inFlight]
      BY <1>1 DEF Finish
    <3> QED BY <3>1, <3>2 DEF CoreOK, FrameType, FramePoints, DrainPoints
  <2>2. session' \in SessionType
    BY <1>1 DEF CoreOK, Finish, SessionType, FrameType, Completion
  <2>3. settle' \in SettleType
    BY <1>1 DEF CoreOK, Finish, SettleType
  <2>4. lease' \in LeaseType /\ world' \in WorldType
    <3> DEFINE guarded == [lease EXCEPT !.taskCreated = @ \/ frame.done.armed]
    <3>1. guarded \in LeaseType
      BY DEF CoreOK, LeaseType, FrameType, Completion
    <3>2. PICK created \in BOOLEAN :
            /\ lease' \in {[Activated(guarded) EXCEPT !.taskCreated = @ \/ created], guarded}
            /\ world' = [world EXCEPT !.task = @ \/ created]
      BY <1>1 DEF Finish
    <3> HIDE DEF guarded
    <3>3. Activated(guarded) \in LeaseType
      BY <3>1, LeaseOps DEF CoreOK
    <3>4. lease' \in LeaseType
      BY <3>1, <3>2, <3>3 DEF LeaseType
    <3> QED BY <3>2, <3>4 DEF CoreOK, WorldType
  <2>5. reset' \in ResetType
    <3>1. frame.done \in Completion
      BY DEF CoreOK, FrameType
    <3>2. reset' \in {reset, [reset EXCEPT !.completion = [held |-> TRUE, done |-> frame.done]]}
      BY <1>1 DEF Finish
    <3>3. [held |-> TRUE, done |-> frame.done] \in [held : BOOLEAN, done : Completion]
      BY <3>1
    <3>4. reset \in ResetType
      BY DEF CoreOK
    <3> QED BY <3>2, <3>3, <3>4 DEF ResetType
  <2>6. identity' \in IdentityType
    BY <1>1 DEF CoreOK, Finish, IdentityType
  <2> QED BY <1>1, <2>1, <2>2, <2>3, <2>4, <2>5, <2>6 DEF CoreOK, Finish, LinkKept, Kept
<1>2. CASE RolledBack
  <2>1. session' \in SessionType /\ replies' \in RepliesType
    BY <1>2, FailedRepliesTypes DEF CoreOK, RolledBack
  <2>2. lease' \in LeaseType
    BY <1>2 DEF CoreOK, RolledBack, HeartbeatNeeded, LeaseType
  <2>3. state' \in States
    BY <1>2, Constants DEF CoreOK, RolledBack, States
  <2>4. frame' \in FrameType
    BY <1>2, FrameOps DEF CoreOK, RolledBack, FramePoints, DrainPoints
  <2> QED BY <1>2, <2>1, <2>2, <2>3, <2>4 DEF CoreOK, RolledBack, LinkKept, Kept
<1>3. CASE AfterReturn
  <2>1. frame' \in FrameType
    BY <1>3, FrameOps DEF CoreOK, AfterReturn
  <2> QED BY <1>3, <2>1 DEF CoreOK, AfterReturn, LinkKept, Kept
<1>4. CASE AfterRollback
  <2>1. frame' \in FrameType
    BY <1>4, FrameOps DEF CoreOK, AfterRollback
  <2>2. gen' \in Nat
    BY <1>4, SMTT(60) DEF CoreOK, AfterRollback, PrepareCancel
  <2>3. session' \in SessionType
    BY <1>4 DEF CoreOK, AfterRollback, SessionType
  <2>4. /\ settle' \in SettleType
        /\ state' \in States
        /\ tasks' \in Seq(TaskType)
        /\ timers' \in Seq(TaskType)
    BY <1>4, <2>2, CheckTypes DEF CoreOK, AfterRollback, NextCheck, SettleType
  <2> QED BY <1>4, <2>1, <2>2, <2>3, <2>4 DEF CoreOK, AfterRollback, LinkKept, Kept
<1>5. CASE AfterSuperseded
  <2>1. frame' \in FrameType
    BY <1>5, FrameOps DEF CoreOK, AfterSuperseded, FrameType, FramePoints,
       DrainPoints
  <2>2. reset' \in ResetType
    BY <1>5, Constants DEF CoreOK, AfterSuperseded, ResetType
  <2> QED BY <1>5, <2>1, <2>2 DEF CoreOK, AfterSuperseded, LinkKept, Kept
<1>6. CASE DecideBaselineFailed
  <2>1. identity' \in IdentityType
    BY <1>6 DEF CoreOK, DecideBaselineFailed, IdentityType
  <2>2. state' \in States
    BY <1>6, Constants DEF CoreOK, DecideBaselineFailed, States
  <2>3. frame' \in FrameType
    BY <1>6, FrameOps DEF CoreOK, DecideBaselineFailed, FramePoints, DrainPoints
  <2> QED BY <1>6, <2>1, <2>2, <2>3 DEF CoreOK, DecideBaselineFailed, LinkKept, Kept
<1>7. CASE DecideVerify
  <2>1. gen' \in Nat
    BY <1>7 DEF CoreOK, DecideVerify
  <2>2. state' \in States
    BY <1>7, Constants DEF CoreOK, DecideVerify, States
  <2>3. tasks' \in Seq(TaskType)
    BY <1>7, <2>1, TaskPushed DEF CoreOK, DecideVerify, Modes
  <2>4. frame' \in FrameType
    BY <1>7, FrameOps DEF CoreOK, DecideVerify, FramePoints, DrainPoints
  <2> QED BY <1>7, <2>1, <2>2, <2>3, <2>4 DEF CoreOK, DecideVerify, LinkKept, Kept
<1>8. CASE DecideSettling
  <2>1. settle' \in SettleType
    BY <1>8 DEF CoreOK, DecideSettling, SettleType
  <2>2. frame' \in FrameType
    BY <1>8, FrameOps DEF CoreOK, DecideSettling, FramePoints, DrainPoints
  <2> QED BY <1>8, <2>1, <2>2 DEF CoreOK, DecideSettling, LinkKept, Kept
<1>9. CASE DecideFailed
  <2>1. frame' \in FrameType
    BY <1>9 DEF CoreOK, DecideFailed, FrameType, FramePoints, DrainPoints
  <2> QED BY <1>9, <2>1 DEF CoreOK, DecideFailed, LinkKept, Kept
<1>10. CASE AfterSettling
  <2>1. frame' \in FrameType
    BY <1>10, FrameOps DEF CoreOK, AfterSettling
  <2>2. gen' \in Nat
    BY <1>10, SMTT(60) DEF CoreOK, AfterSettling, DeferSettlement, Cancel
  <2>3. /\ settle' \in SettleType
        /\ state' \in States
        /\ tasks' \in Seq(TaskType)
        /\ timers' \in Seq(TaskType)
    BY <1>10, <2>2, CheckTypes, SettleOps DEF CoreOK, AfterSettling, DeferSettlement
  <2> QED BY <1>10, <2>1, <2>2, <2>3 DEF CoreOK, AfterSettling, LinkKept, Kept
<1>11. CASE AfterLastRepair
  <2>1. settle' \in SettleType /\ state' \in States
    BY <1>11, SettleOps, Constants DEF CoreOK, AfterLastRepair
  <2>2. session' \in SessionType
    BY <1>11 DEF CoreOK, AfterLastRepair, SessionType
  <2>3. lease' \in LeaseType
    <3>1. Activated(lease) \in LeaseType
      BY LeaseOps DEF CoreOK
    <3> QED BY <1>11, <3>1 DEF AfterLastRepair, LeaseType
  <2>4. frame' \in FrameType
    BY <1>11, FrameOps DEF CoreOK, AfterLastRepair, FramePoints, DrainPoints
  <2> QED BY <1>11, <2>1, <2>2, <2>3, <2>4 DEF CoreOK, AfterLastRepair, LinkKept, Kept
<1>12. CASE AfterLastFailure
  <2>1. settle' \in SettleType
    BY <1>12, SettleOps DEF CoreOK, AfterLastFailure
  <2>2. frame' \in FrameType
    BY <1>12 DEF CoreOK, AfterLastFailure, FrameType, FramePoints, DrainPoints
  <2> QED BY <1>12, <2>1, <2>2 DEF CoreOK, AfterLastFailure, LinkKept, Kept
<1>13. CASE ConcludeHdr
  <2>1. gen' \in Nat
    BY <1>13 DEF CoreOK, ConcludeHdr
  <2>2. session' \in SessionType
    BY <1>13 DEF CoreOK, ConcludeHdr, SessionType, Request
  <2>3. state' \in States
    BY <1>13, Constants DEF CoreOK, ConcludeHdr, States
  <2>4. /\ worker' \in [kind : WorkerKinds \cup {"none"}, gen : Nat]
        /\ tasks' \in Seq(TaskType)
    BY <1>13, <2>1, TaskPushed DEF CoreOK, ConcludeHdr, DispatchApply, WorkerKinds,
       Modes
  <2>5. frame' \in FrameType
    BY <1>13, FrameOps DEF CoreOK, ConcludeHdr
  <2> QED BY <1>13, <2>1, <2>2, <2>3, <2>4, <2>5 DEF CoreOK, ConcludeHdr, LinkKept, Kept
<1>14. CASE ConcludeFailed
  <2>1. gen' \in Nat
    BY <1>14 DEF CoreOK, ConcludeFailed
  <2>2. session' \in SessionType /\ replies' \in RepliesType
    BY <1>14, FailedRepliesTypes DEF CoreOK, ConcludeFailed
  <2>3. lease' \in LeaseType
    BY <1>14 DEF CoreOK, ConcludeFailed, HeartbeatNeeded, LeaseType
  <2>4. world' \in WorldType
    BY <1>14 DEF CoreOK, ConcludeFailed, WorldType
  <2>5. reset' \in ResetType
    BY <1>14 DEF CoreOK, ConcludeFailed, BeginReset, ResetType
  <2>6. tasks' \in Seq(TaskType)
    BY <1>14, <2>1, TaskPushed DEF CoreOK, ConcludeFailed, Modes
  <2>7. state' \in States
    BY <1>14, Constants DEF CoreOK, ConcludeFailed, States
  <2>8. frame' \in FrameType
    BY <1>14, FrameOps DEF CoreOK, ConcludeFailed, FramePoints, DrainPoints
  <2> QED BY <1>14, <2>1, <2>2, <2>3, <2>4, <2>5, <2>6, <2>7, <2>8 DEF CoreOK,
        ConcludeFailed, LinkKept, Kept
<1>15. CASE AfterReset
  <2>1. frame' \in FrameType
    <3>1. reset.completion.done \in Completion
      BY DEF CoreOK, ResetType
    <3>2. frame' \in {[IdleFrame EXCEPT !.at = "resetTail"],
                      [IdleFrame EXCEPT !.at = "finish", !.caller = "reset",
                                        !.done = reset.completion.done]}
      BY <1>15 DEF AfterReset
    <3> QED BY <3>1, <3>2, Constants DEF FrameType, FramePoints, DrainPoints
  <2>2. reset' \in ResetType
    BY <1>15, Constants DEF CoreOK, AfterReset, ResetType
  <2> QED BY <1>15, <2>1, <2>2 DEF CoreOK, AfterReset, LinkKept, Kept
<1>16. CASE ResetExits
  <2>1. reset' \in ResetType
    BY <1>16 DEF CoreOK, ResetExits, ResetType
  <2>2. frame' \in FrameType
    BY <1>16, Constants DEF CoreOK, ResetExits
  <2>3. world' \in WorldType /\ link' \in LinkType /\ LinkKept
    BY <1>16, ExitTypes DEF CoreOK, ResetExits
  <2> QED BY <1>16, <2>1, <2>2, <2>3 DEF CoreOK, ResetExits, LinkKept, Kept
<1>17. CASE ResetResumes
  <2>1. gen' \in Nat
    BY <1>17, SMTT(60) DEF CoreOK, ResetResumes, PrepareCancel
  <2>2. frame' \in FrameType
    BY <1>17, Constants DEF CoreOK, ResetResumes
  <2>3. session' \in SessionType
    BY <1>17 DEF CoreOK, ResetResumes, SessionType
  <2>4. settle' \in SettleType /\ state' \in States /\ tasks' \in Seq(TaskType) /\ timers' \in Seq(TaskType)
    <3>1. Resumed \in SettleType /\ [Resumed EXCEPT !.deferredFinal = FALSE] \in SettleType
      <4>1. Resumed \in SettleType
        BY SettleOps DEF CoreOK
      <4> QED BY <4>1 DEF SettleType
    <3>2. \/ UNCHANGED <<settle, state, tasks, timers>>
          \/ settle' \in {Resumed, NoSettle} /\ UNCHANGED <<state, tasks, timers>>
          \/ FinalCheck([Resumed EXCEPT !.deferredFinal = FALSE], tasks)
          \/ NextCheck(Resumed, tasks)
      BY <1>17 DEF ResetResumes
    <3>3. ASSUME NEW x \in SettleType, FinalCheck(x, tasks) \/ NextCheck(x, tasks)
          PROVE  /\ settle' \in SettleType /\ state' \in States
                 /\ tasks' \in Seq(TaskType) /\ timers' \in Seq(TaskType)
      BY <2>1, <3>3, CheckTypes DEF CoreOK
    <3> QED BY <3>1, <3>2, <3>3, SettleOps DEF CoreOK
  <2> QED BY <1>17, <2>1, <2>2, <2>3, <2>4 DEF CoreOK, ResetResumes, LinkKept, Kept
<1>18. CASE AfterRestored
  <2>1. frame' \in FrameType
    BY <1>18, Constants DEF CoreOK, AfterRestored
  <2>2. world' \in WorldType /\ link' \in LinkType /\ LinkKept
    BY <1>18, ExitTypes DEF CoreOK, AfterRestored, LinkKept
  <2>3. reset' \in ResetType
    <3>1. PICK b : b \in BOOLEAN /\ reset' = [reset EXCEPT !.stray = b]
      BY <1>18 DEF AfterRestored
    <3>2. reset \in ResetType
      BY DEF CoreOK
    <3> QED BY <3>1, <3>2, SMTT(60) DEF ResetType
  <2> QED BY <1>18, <2>1, <2>2, <2>3 DEF CoreOK, AfterRestored, LinkKept, Kept
<1>19. CASE AfterRestoredFollowup
  <2>1. reset' \in ResetType
    BY <1>19 DEF CoreOK, AfterRestoredFollowup, ResetType
  <2>2. frame' \in FrameType
    BY <1>19, Constants DEF CoreOK, AfterRestoredFollowup
  <2> QED BY <1>19, <2>1, <2>2 DEF CoreOK, AfterRestoredFollowup, LinkKept, Kept
<1> QED BY <1>1, <1>2, <1>3, <1>4, <1>5, <1>6, <1>7, <1>8, <1>9, <1>10, <1>11, <1>12,
    <1>13, <1>14, <1>15, <1>16, <1>17, <1>18, <1>19 DEF Continue, FinishApply

----------------------------------------------------------------------------
(* The verification completions *)

\* A verification reports.
LEMMA VerificationTypes ==
  ASSUME CoreOK, VerificationCompleted
  PROVE  CoreOK' /\ Kept
<1>1. CASE VerificationIgnored
  <2>1. tasks' \in Seq(TaskType)
    BY <1>1, FrontTypes DEF CoreOK, VerificationIgnored, Completes, HasTask
  <2> QED BY <1>1, <2>1 DEF CoreOK, VerificationIgnored, LinkKept, Kept
<1>2. CASE SettlementHolds
  <2>1. tasks' \in Seq(TaskType)
    BY <1>2, FrontTypes DEF CoreOK, SettlementHolds, Verified, Completes, HasTask
  <2>2. settle' \in SettleType /\ state' \in States
    BY <1>2, SettleOps, Constants DEF CoreOK, SettlementHolds
  <2>3. session' \in SessionType
    BY <1>2 DEF CoreOK, SettlementHolds, SessionType
  <2>4. lease' \in LeaseType
    <3>1. lease \in LeaseType /\ Activated(lease) \in LeaseType /\ settle \in SettleType
      BY LeaseOps DEF CoreOK
    <3> QED BY <1>2, <3>1 DEF SettlementHolds, LeaseType, SettleType
  <2> QED BY <1>2, <2>1, <2>2, <2>3, <2>4 DEF CoreOK, SettlementHolds, Verified, LinkKept,
        Kept
<1>3. CASE SettlementLost
  <2>1. gen' \in Nat
    BY <1>3 DEF CoreOK, SettlementLost
  <2>2. tasks' \in Seq(TaskType)
    <3>1. Tail(tasks) \in Seq(TaskType)
      BY <1>3, FrontTypes DEF CoreOK, SettlementLost, Verified, Completes, HasTask
    <3>2. tasks' \in {Tail(tasks), Append(Tail(tasks), Task("Recovery", "none"))}
      BY <1>3 DEF SettlementLost
    <3> QED BY <2>1, <3>1, <3>2, TaskPushed DEF Modes
  <2>3. worker' \in [kind : WorkerKinds \cup {"none"}, gen : Nat]
    BY <1>3, SMTT(60) DEF CoreOK, SettlementLost, WorkerKinds
  <2>4. settle' \in SettleType
    BY <1>3, SettleOps DEF CoreOK, SettlementLost
  <2>5. session' \in SessionType
    BY <1>3 DEF CoreOK, SettlementLost, SessionType
  <2>6. state' \in States
    BY <1>3, Constants DEF CoreOK, SettlementLost, States
  <2>7. retry' \in RetryType
    BY <1>3, RetryOps DEF CoreOK, SettlementLost
  <2>8. reset' \in ResetType
    BY <1>3 DEF CoreOK, SettlementLost, ResetType
  <2> QED BY <1>3, <2>1, <2>2, <2>3, <2>4, <2>5, <2>6, <2>7, <2>8 DEF CoreOK, SettlementLost,
        Verified, LinkKept, Kept
<1>4. CASE SettlementRechecks
  <2>1. gen' \in Nat
    BY <1>4 DEF CoreOK, SettlementRechecks
  <2>2. /\ settle' \in SettleType
        /\ state' \in States
        /\ tasks' \in Seq(TaskType)
        /\ timers' \in Seq(TaskType)
    BY <1>4, <2>1, FrontTypes, CheckTypes, SettleOps, Constants DEF CoreOK,
       SettlementRechecks, Verified, Completes, HasTask
  <2> QED BY <1>4, <2>1, <2>2 DEF CoreOK, SettlementRechecks, Verified, LinkKept, Kept
<1>5. CASE SettlementRepairs
  <2>1. gen' \in Nat
    BY <1>5, SMTT(60) DEF CoreOK, SettlementRepairs, Cancel
  <2>2. /\ worker' \in [kind : WorkerKinds \cup {"none"}, gen : Nat]
        /\ tasks' \in Seq(TaskType)
    BY <1>5, <2>1, FrontTypes, TaskPushed DEF CoreOK, SettlementRepairs, Verified,
       Completes, HasTask, WorkerKinds, Modes
  <2>3. settle' \in SettleType
    <3>1. CheckDone \in SettleType
      BY SettleOps DEF CoreOK
    <3> QED BY <1>5, <3>1 DEF SettlementRepairs, SettleType
  <2>4. state' \in States
    BY <1>5, Constants DEF CoreOK, SettlementRepairs, States
  <2> QED BY <1>5, <2>1, <2>2, <2>3, <2>4 DEF CoreOK, SettlementRepairs, Verified, LinkKept,
        Kept
<1>6. CASE BaselineVerified
  <2>1. tasks' \in Seq(TaskType)
    BY <1>6, FrontTypes DEF CoreOK, BaselineVerified, Verified, Completes, HasTask
  <2>2. identity' \in IdentityType
    BY <1>6 DEF CoreOK, BaselineVerified, IdentityType
  <2>3. state' \in States
    BY <1>6, Constants DEF CoreOK, BaselineVerified, States
  <2> QED BY <1>6, <2>1, <2>2, <2>3 DEF CoreOK, BaselineVerified, Verified, LinkKept, Kept
<1>7. CASE InitialVerified
  <2>1. gen' \in Nat
    BY <1>7 DEF CoreOK, InitialVerified
  <2>2. /\ settle' \in SettleType
        /\ state' \in States
        /\ tasks' \in Seq(TaskType)
        /\ timers' \in Seq(TaskType)
    BY <1>7, <2>1, FrontTypes, CheckTypes, SettleOps, Constants DEF CoreOK,
       InitialVerified, Verified, Completes, HasTask
  <2>3. session' \in SessionType
    BY <1>7 DEF CoreOK, InitialVerified, SessionType
  <2>4. lease' \in LeaseType
    <3>1. lease \in LeaseType /\ Activated(lease) \in LeaseType /\ settle \in SettleType
      BY LeaseOps DEF CoreOK
    <3> QED BY <1>7, <3>1 DEF InitialVerified, LeaseType, SettleType
  <2>5. replies' \in RepliesType
    <3>1. \A r \in RepliesType, ok \in BOOLEAN, sent \in BOOLEAN :
            /\ Report(r, "apply", ok, sent) \in RepliesType
            /\ Report(r, "verification", ok, sent) \in RepliesType
      BY DEF Report, RepliesType, Result
    <3>2. session.applySent \in BOOLEAN
      BY DEF CoreOK, SessionType
    <3> QED BY <1>7, <3>1, <3>2 DEF CoreOK, InitialVerified
  <2> QED BY <1>7, <2>1, <2>2, <2>3, <2>4, <2>5 DEF CoreOK, InitialVerified, Verified,
        LinkKept, Kept
<1>8. CASE FailedUnderSettlement
  <2>1. gen' \in Nat
    BY <1>8 DEF CoreOK, FailedUnderSettlement
  <2>2. /\ settle' \in SettleType
        /\ state' \in States
        /\ tasks' \in Seq(TaskType)
        /\ timers' \in Seq(TaskType)
    BY <1>8, <2>1, FrontTypes, CheckTypes, SettleOps, Constants DEF CoreOK,
       FailedUnderSettlement, Verified, Completes, HasTask, States
  <2> QED BY <1>8, <2>1, <2>2 DEF CoreOK, FailedUnderSettlement, Verified, LinkKept, Kept
<1>9. CASE BaselineRepairStarted
  <2>1. gen' \in Nat
    BY <1>9 DEF CoreOK, BaselineRepairStarted, FailedVerification
  <2>2. /\ worker' \in [kind : WorkerKinds \cup {"none"}, gen : Nat]
        /\ tasks' \in Seq(TaskType)
    BY <1>9, <2>1, FrontTypes, TaskPushed DEF CoreOK, BaselineRepairStarted,
       FailedVerification, Verified, Completes, HasTask, WorkerKinds, Modes
  <2>3. session' \in SessionType
    BY <1>9 DEF CoreOK, BaselineRepairStarted, SessionType
  <2>4. identity' \in IdentityType
    BY <1>9 DEF CoreOK, BaselineRepairStarted, IdentityType
  <2>5. state' \in States
    BY <1>9, Constants DEF CoreOK, BaselineRepairStarted, States
  <2> QED BY <1>9, <2>1, <2>2, <2>3, <2>4, <2>5 DEF CoreOK, BaselineRepairStarted,
        FailedVerification, Verified, LinkKept, Kept
<1>10. CASE BaselineRepairFailed
  <2>1. tasks' \in Seq(TaskType)
    BY <1>10, FrontTypes DEF CoreOK, BaselineRepairFailed, FailedVerification,
       Verified, Completes, HasTask
  <2>2. identity' \in IdentityType
    BY <1>10 DEF CoreOK, BaselineRepairFailed, IdentityType
  <2>3. state' \in States
    BY <1>10, Constants DEF CoreOK, BaselineRepairFailed, States
  <2> QED BY <1>10, <2>1, <2>2, <2>3 DEF CoreOK, BaselineRepairFailed, FailedVerification,
        Verified, LinkKept, Kept
<1>11. CASE InitialRetried
  <2>1. gen' \in Nat
    BY <1>11 DEF CoreOK, InitialRetried, FailedVerification
  <2>2. /\ worker' \in [kind : WorkerKinds \cup {"none"}, gen : Nat]
        /\ tasks' \in Seq(TaskType)
    BY <1>11, <2>1, FrontTypes, TaskPushed DEF CoreOK, InitialRetried,
       FailedVerification, Verified, Completes, HasTask, WorkerKinds, Modes
  <2>3. session' \in SessionType
    BY <1>11 DEF CoreOK, InitialRetried, SessionType
  <2>4. state' \in States
    BY <1>11, Constants DEF CoreOK, InitialRetried, States
  <2> QED BY <1>11, <2>1, <2>2, <2>3, <2>4 DEF CoreOK, InitialRetried, FailedVerification,
        Verified, LinkKept, Kept
<1>12. CASE InitialFailed
  <2>1. tasks' \in Seq(TaskType)
    BY <1>12, FrontTypes DEF CoreOK, InitialFailed, FailedVerification, Verified,
       Completes, HasTask
  <2>2. session' \in SessionType /\ replies' \in RepliesType
    BY <1>12, FailedRepliesTypes DEF CoreOK, InitialFailed
  <2>3. state' \in States
    BY <1>12, Constants DEF CoreOK, InitialFailed, States
  <2> QED BY <1>12, <2>1, <2>2, <2>3 DEF CoreOK, InitialFailed, FailedVerification, Verified,
        LinkKept, Kept
<1> QED BY <1>1, <1>2, <1>3, <1>4, <1>5, <1>6, <1>7, <1>8, <1>9, <1>10, <1>11, <1>12 DEF
    VerificationCompleted

\* The inductive invariant: a live connection leaves a number for its
\* retirement, and a retired one had a number.
TypeInv ==
  /\ TypeOK
  /\ link.conn = "live" => link.epoch <= MaxEpoch
  /\ link.conn = "broken" => link.epoch >= 1

----------------------------------------------------------------------------
(* The worker, the display events, the tick and the passage of time *)

\* The worker and timer threads.
LEMMA WorkerTypes ==
  ASSUME CoreOK, Worker
  PROVE  CoreOK' /\ Kept
<1>1. CASE WorkerGuards
  <2>1. tasks' \in Seq(TaskType)
    BY <1>1, FrontTypes, FrontAdvanced DEF CoreOK, WorkerGuards, HasTask, Phases,
       TaskType
  <2>2. world' \in WorldType
    BY <1>1 DEF CoreOK, WorkerGuards, WorldType
  <2> QED BY <1>1, <2>1, <2>2 DEF CoreOK, WorkerGuards, fsmVars, LinkKept, Kept
<1>2. CASE WorkerTouches
  <2>1. tasks' \in Seq(TaskType)
    BY <1>2, FrontTypes, FrontAdvanced DEF CoreOK, WorkerTouches, HasTask, Phases,
       TaskType
  <2>2. world' \in WorldType
    BY <1>2 DEF CoreOK, WorkerTouches, WorldType
  <2> QED BY <1>2, <2>1, <2>2 DEF CoreOK, WorkerTouches, fsmVars, LinkKept, Kept
<1>3. CASE RecoveryEnters
  <2>1. tasks' \in Seq(TaskType)
    BY <1>3, FrontTypes, FrontAdvanced DEF CoreOK, RecoveryEnters, HasTask, Phases,
       TaskType
  <2> QED BY <1>3, <2>1 DEF CoreOK, RecoveryEnters, fsmVars, LinkKept, Kept
<1>4. CASE RecoveryTouches
  <2>1. tasks' \in Seq(TaskType)
    BY <1>4, FrontTypes, FrontAdvanced DEF CoreOK, RecoveryTouches, HasTask, Phases,
       TaskType
  <2>2. lease' \in LeaseType
    BY <1>4 DEF CoreOK, RecoveryTouches, LeaseType
  <2>3. world' \in WorldType
    BY <1>4 DEF CoreOK, RecoveryTouches, WorldType
  <2> QED BY <1>4, <2>1, <2>2, <2>3 DEF CoreOK, RecoveryTouches, fsmVars, LinkKept, Kept
<1>5. CASE TimerFires
  <2>1. tasks' \in Seq(TaskType) /\ timers' \in Seq(TaskType)
    <3>1. Head(timers) \in TaskType /\ Tail(timers) \in Seq(TaskType)
      BY <1>5, TaskPopped DEF CoreOK, TimerFires
    <3> QED BY <1>5, <3>1, SMTT(60) DEF CoreOK, TimerFires
  <2> QED BY <1>5, <2>1 DEF CoreOK, TimerFires, LinkKept, Kept
<1> QED BY <1>1, <1>2, <1>3, <1>4, <1>5 DEF Worker

\* Display notifications.
LEMMA EventTypes ==
  ASSUME CoreOK, DisplayEvent
  PROVE  CoreOK' /\ LinkKept /\ \E e : Notified(e)
<1>1. CASE BaselineReturned
  <2>1. gen' \in Nat
    BY <1>1 DEF CoreOK, BaselineReturned
  <2>2. identity' \in IdentityType
    BY <1>1 DEF CoreOK, BaselineReturned, IdentityType
  <2>3. session' \in SessionType
    BY <1>1 DEF CoreOK, BaselineReturned, SessionType
  <2>4. state' \in States
    BY <1>1, Constants DEF CoreOK, BaselineReturned, States
  <2>5. tasks' \in Seq(TaskType)
    BY <1>1, <2>1, TaskPushed DEF CoreOK, BaselineReturned, Modes
  <2> QED BY <1>1, <2>1, <2>2, <2>3, <2>4, <2>5 DEF CoreOK, BaselineReturned, Notified,
        LinkKept
<1>2. CASE IdentityUnchanged
  <2>1. identity' \in IdentityType
    BY <1>2, AllowanceUsed DEF CoreOK, IdentityUnchanged, IdentityEvent, Discovered
  <2> QED BY <1>2, <2>1 DEF CoreOK, IdentityUnchanged, IdentityEvent, Notified, LinkKept
<1>3. CASE IdentityQueued
  <2>1. identity' \in IdentityType
    BY <1>3, AllowanceUsed DEF CoreOK, IdentityQueued, IdentityEvent, Discovered
  <2>2. Intent("Repair", session.epoch) \in IntentType
    BY Constants DEF CoreOK, Intent, IntentType, Intents, SessionType
  <2>3. deferred' \in Seq(IntentType)
    BY <1>3, <2>2, EnqueueType DEF CoreOK, IdentityQueued
  <2> QED BY <1>3, <2>1, <2>2, <2>3 DEF CoreOK, IdentityQueued, IdentityEvent, Notified,
        LinkKept
<1>4. CASE IdentityReplaced
  <2>1. gen' \in Nat
    BY <1>4, SMTT(60) DEF CoreOK, IdentityReplaced, Cancel
  <2>2. identity' \in IdentityType
    <3>1. Discovered \in IdentityType /\ Discovered.repairs > 0
      BY <1>4, AllowanceUsed DEF CoreOK, IdentityReplaced, IdentityEvent, Discovered, IdentityType
    <3> QED BY <1>4, <3>1, AllowanceUsed DEF IdentityReplaced, ReapplyIdentity
  <2>3. session' \in SessionType
    BY <1>4 DEF CoreOK, IdentityReplaced, ReapplyIdentity, SessionType
  <2>4. state' \in States
    BY <1>4 DEF CoreOK, IdentityReplaced, ReapplyIdentity, States
  <2>5. /\ worker' \in [kind : WorkerKinds \cup {"none"}, gen : Nat]
        /\ tasks' \in Seq(TaskType)
    BY <1>4, <2>1, TaskPushed DEF CoreOK, IdentityReplaced, ReapplyIdentity,
       DispatchApply, WorkerKinds, Modes
  <2> QED BY <1>4, <2>1, <2>2, <2>3, <2>4, <2>5 DEF CoreOK, IdentityReplaced, IdentityEvent,
        Notified, LinkKept
<1>5. CASE EventKept
  <2>1. retry' \in RetryType
    <3>1. [held |-> TRUE, gen |-> gen, epoch |-> link.epoch]
            \in [held : BOOLEAN, gen : Nat, epoch : Epochs]
      BY DEF CoreOK, LinkType
    <3> QED BY <1>5, <3>1 DEF CoreOK, EventKept, RetryType
  <2> QED BY <1>5, <2>1 DEF CoreOK, EventKept, RecoveryEvent, Notified, LinkKept
<1>6. CASE EventReopens
  <2>1. gen' \in Nat
    BY <1>6 DEF CoreOK, EventReopens, RestartRecovery
  <2>2. /\ state' \in States
        /\ worker' \in [kind : WorkerKinds \cup {"none"}, gen : Nat]
        /\ tasks' \in Seq(TaskType)
    BY <1>6, <2>1, TaskPushed DEF CoreOK, EventReopens, RestartRecovery,
       StartRecovery, States, WorkerKinds, Modes
  <2>3. reset' \in ResetType
    BY <1>6 DEF CoreOK, EventReopens, RestartRecovery, ResetType
  <2>4. ticket' \in TicketType
    BY <1>6, <2>1 DEF CoreOK, EventReopens, RestartRecovery, Started, TicketType
  <2>5. retry' \in RetryType
    BY <1>6, RetryOps DEF CoreOK, EventReopens
  <2> QED BY <1>6, <2>1, <2>2, <2>3, <2>4, <2>5 DEF CoreOK, EventReopens, RecoveryEvent,
        Notified, LinkKept
<1> QED BY <1>1, <1>2, <1>3, <1>4, <1>5, <1>6 DEF DisplayEvent

\* The tick, and the ends of the time windows.
LEMMA TickTypes ==
  ASSUME CoreOK, Tick \/ Time
  PROVE  CoreOK' /\ Kept
<1>1. CASE TickReconciles
  <2>1. gen' \in Nat
    BY <1>1 DEF CoreOK, TickReconciles, RestartRecovery
  <2>2. /\ state' \in States
        /\ worker' \in [kind : WorkerKinds \cup {"none"}, gen : Nat]
        /\ tasks' \in Seq(TaskType)
    BY <1>1, <2>1, TaskPushed DEF CoreOK, TickReconciles, RestartRecovery,
       StartRecovery, States, WorkerKinds, Modes
  <2>3. reset' \in ResetType
    BY <1>1 DEF CoreOK, TickReconciles, RestartRecovery, ResetType
  <2>4. ticket' \in TicketType
    BY <1>1, <2>1 DEF CoreOK, TickReconciles, RestartRecovery, Started, TicketType
  <2>5. retry' \in RetryType
    <3>1. [retry EXCEPT !.open = retry.armed, !.reported = FALSE] \in RetryType
      BY DEF CoreOK, RetryType
    <3> QED BY <1>1, <3>1, RetryOps DEF TickReconciles
  <2> QED BY <1>1, <2>1, <2>2, <2>3, <2>4, <2>5 DEF CoreOK, TickReconciles, Ticks, LinkKept,
        Kept
<1>2. CASE TickDiscards
  <2>1. retry' \in RetryType
    <3>1. [retry EXCEPT !.event = NoEvent] \in RetryType
      BY RetryOps DEF CoreOK
    <3> QED BY <1>2, <3>1 DEF CoreOK, TickDiscards, RetryType
  <2> QED BY <1>2, <2>1 DEF CoreOK, TickDiscards, Ticks, LinkKept, Kept
<1>3. CASE TickExpires
  <2>1. retry' \in RetryType
    BY <1>3 DEF CoreOK, TickExpires, RetryType
  <2> QED BY <1>3, <2>1 DEF CoreOK, TickExpires, Ticks, LinkKept, Kept
<1>4. CASE TickRetries
  <2>1. gen' \in Nat
    BY <1>4 DEF CoreOK, TickRetries, RestartRecovery
  <2>2. /\ state' \in States
        /\ worker' \in [kind : WorkerKinds \cup {"none"}, gen : Nat]
        /\ tasks' \in Seq(TaskType)
    BY <1>4, <2>1, TaskPushed DEF CoreOK, TickRetries, RestartRecovery,
       StartRecovery, States, WorkerKinds, Modes
  <2>3. reset' \in ResetType
    BY <1>4 DEF CoreOK, TickRetries, RestartRecovery, ResetType
  <2>4. ticket' \in TicketType
    BY <1>4, <2>1 DEF CoreOK, TickRetries, RestartRecovery, Started, TicketType
  <2>5. retry' \in RetryType
    BY <1>4, RetryOps DEF CoreOK, TickRetries
  <2> QED BY <1>4, <2>1, <2>2, <2>3, <2>4, <2>5 DEF CoreOK, TickRetries, Ticks, LinkKept,
        Kept
<1>5. CASE WindowCloses
  <2>1. retry' \in RetryType
    BY <1>5 DEF CoreOK, WindowCloses, RetryType
  <2> QED BY <1>5, <2>1 DEF CoreOK, WindowCloses, notTime, LinkKept, Kept
<1>6. CASE QuietEnds
  <2>1. retry' \in RetryType
    BY <1>6 DEF CoreOK, QuietEnds, RetryType
  <2> QED BY <1>6, <2>1 DEF CoreOK, QuietEnds, notTime, LinkKept, Kept
<1>7. CASE GraceEnds
  <2>1. session' \in SessionType
    BY <1>7 DEF CoreOK, GraceEnds, SessionType
  <2> QED BY <1>7, <2>1 DEF CoreOK, GraceEnds, notTime, LinkKept, Kept
<1> QED BY <1>1, <1>2, <1>3, <1>4, <1>5, <1>6, <1>7 DEF Tick, Time

----------------------------------------------------------------------------
(* Every step *)

\* Every step keeps the types and the bounds.
LEMMA StepTypes == TypeInv /\ [Next]_vars => TypeInv'

\* A message of the main loop's own mailbox, and the mail after a disconnect.
<1>MailTypes.
    ASSUME TypeOK
    PROVE  /\ LiveMail \in Seq(IntentType)
           /\ Append(LiveMail, [Intent("Revert", 0) EXCEPT !.disconnect = TRUE]) \in Seq(IntentType)
           /\ mail # <<>> => Head(mail) \in IntentType /\ Tail(mail) \in Seq(IntentType)
  <2> USE <1>MailTypes
  <2>1. mail \in Seq(IntentType)
    BY DEF TypeOK
  <2>2. mail # <<>> => Head(mail) \in IntentType /\ Tail(mail) \in Seq(IntentType)
    BY <2>1, TaskPopped
  <2>3. LiveMail \in Seq(IntentType)
    BY <2>1, <2>2 DEF LiveMail
  <2>4. [Intent("Revert", 0) EXCEPT !.disconnect = TRUE] \in IntentType
    <3>1. Intent("Revert", 0) \in IntentType
      BY Constants, ConstantsAssumption, SMTT(60) DEF Intent, IntentType, Intents, Epochs
    <3> QED BY <3>1 DEF IntentType
  <2> QED BY <2>2, <2>3, <2>4, SMTT(60)

\* Connections come and go with their numbers in bounds.
<1>ConnectionTypes.
    ASSUME TypeInv, Connection
    PROVE  TypeInv'
  <2> USE <1>ConnectionTypes
  <2> USE DEF TypeInv
  <2>1. CASE Connect
    <3>1. link' \in LinkType /\ link'.conn = "live" /\ link'.epoch <= MaxEpoch
      <4>1. link \in LinkType
        BY DEF TypeOK
      <4>2. link.epoch + 1 \in Epochs /\ link.epoch + 1 <= MaxEpoch
        BY <2>1, <4>1, ConstantsAssumption, SMTT(60) DEF Connect, LinkType, Epochs
      <4> QED BY <2>1, <4>1, <4>2 DEF Connect, LinkType
    <3>2. lease' \in LeaseType
      BY <2>1 DEF TypeOK, Connect, LeaseType
    <3> QED BY <2>1, <3>1, <3>2 DEF TypeOK, Connect
  <2>2. CASE Retire
    <3>1. link' \in LinkType /\ link'.conn = "broken" /\ link'.epoch >= 1
      <4>1. link \in LinkType
        BY DEF TypeOK
      <4>2. link.epoch + 1 \in Epochs /\ link.epoch + 1 >= 1
        BY <2>2, <4>1, ConstantsAssumption, SMTT(60) DEF Retire, LinkType, Epochs
      <4> QED BY <2>2, <4>1, <4>2 DEF Retire, LinkType
    <3> QED BY <2>2, <3>1 DEF TypeOK, Retire
  <2>3. CASE Stop
    <3>1. gen' \in Nat
      BY <2>3, SMTT(60) DEF TypeOK, Stop, Cancel
    <3>2. world' \in WorldType
      BY <2>3 DEF TypeOK, Stop, WorldType
    <3> QED BY <2>3, <3>1, <3>2 DEF TypeOK, Stop
  <2>4. ASSUME Disconnects
        PROVE  /\ lease' \in LeaseType
               /\ Unlinked \in LinkType /\ Unlinked.conn = "none"
               /\ [Unlinked EXCEPT !.origin = RetiredEpoch] \in LinkType
               /\ [Unlinked EXCEPT !.origin = RetiredEpoch].conn = "none"
    <3>1. lease' \in LeaseType
      BY <2>4 DEF TypeOK, Disconnects, LeaseType
    <3>2. RetiredEpoch \in Epochs
      BY <2>4, ConstantsAssumption, SMTT(60) DEF TypeOK, Disconnects, RetiredEpoch, LinkType, Epochs
    <3>3. Unlinked \in LinkType /\ Unlinked.conn = "none"
      BY DEF TypeOK, Unlinked, LinkType
    <3> QED BY <3>1, <3>2, <3>3 DEF LinkType
  <2>5. CASE DisconnectSettles
    <3>1. gen' \in Nat
      BY <2>5, SMTT(60) DEF TypeOK, DisconnectSettles, PrepareCancel
    <3>2. session' \in SessionType
      BY <2>5 DEF TypeOK, DisconnectSettles, SessionType
    <3>3. /\ settle' \in SettleType /\ state' \in States
          /\ tasks' \in Seq(TaskType) /\ timers' \in Seq(TaskType)
      <4>1. Claimed \in SettleType /\ [Claimed EXCEPT !.deferredByReset = TRUE] \in SettleType
        <5>1. Claimed \in SettleType
          BY SettleOps DEF TypeOK
        <5> QED BY <5>1 DEF SettleType
      <4>2. \/ /\ settle' \in {Claimed, [Claimed EXCEPT !.deferredByReset = TRUE]}
               /\ UNCHANGED <<state, tasks, timers>>
            \/ CheckDelayed(Claimed, tasks)
        BY <2>5 DEF DisconnectSettles
      <4> QED BY <3>1, <4>1, <4>2, CheckTypes DEF TypeOK, NextCheck
    <3> QED BY <2>4, <2>5, <3>1, <3>2, <3>3, <1>MailTypes DEF TypeOK, DisconnectSettles, Disconnects
  <2>6. CASE DisconnectReverts
    BY <2>4, <2>6, <1>MailTypes DEF TypeOK, DisconnectReverts, Disconnects
  <2>7. CASE DisconnectIdle
    BY <2>4, <2>7, <1>MailTypes DEF TypeOK, DisconnectIdle, Disconnects
  <2> QED BY <2>1, <2>2, <2>3, <2>5, <2>6, <2>7 DEF Connection

\* What a step has to keep, besides the core, when the connection stays.
<1>Assembled.
    ASSUME TypeInv, CoreOK', LinkKept, mail' \in Seq(IntentType), inputs' \in 0..MaxInputs
    PROVE  TypeInv'
  BY <1>Assembled DEF TypeInv, TypeOK, CoreOK, LinkKept

\* A client command.
<1>ClientTypes.
    ASSUME TypeInv, Client
    PROVE  TypeInv'
  <2> USE <1>ClientTypes
  <2>1. CoreOK /\ deferred \in Seq(IntentType) /\ link.epoch \in Epochs
    BY DEF TypeInv, TypeOK, CoreOK, LinkType
  <2>2. mail \in Seq(IntentType)
    BY DEF TypeInv, TypeOK
  <2>3. ASSUME NEW cmd, Deliver(cmd)
        PROVE  inputs' \in 0..MaxInputs
    BY <2>3, ConstantsAssumption, SMTT(60) DEF TypeInv, TypeOK, Deliver
  <2>4. \A cmd \in Intents : Intent(cmd, link.epoch) \in IntentType
    BY <2>1, Constants DEF Intent, IntentType
  <2>5. CASE ClientApply
    <3>1. PICK r \in Requests :
            HandleApply([Intent("Apply", link.epoch) EXCEPT !.request = r], deferred)
      BY <2>5 DEF ClientApply
    <3>2. [Intent("Apply", link.epoch) EXCEPT !.request = r] \in IntentType
      BY <2>4, ConstantsAssumption DEF IntentType, Intents
    <3>3. CoreOK' /\ LinkKept
      BY <2>1, <3>1, <3>2, ApplyTypes
    <3> QED BY <2>2, <2>3, <2>5, <3>3, <1>Assembled DEF ClientApply
  <2>6. CASE ClientReactivate
    BY <2>1, <2>2, <2>3, <2>6, OtherTypes, <1>Assembled DEF ClientReactivate
  <2>7. CASE ClientRevert
    <3>1. PICK t \in Tickets : mail' = <<[Intent("Revert", link.epoch) EXCEPT !.ticket = t]>>
      BY <2>7 DEF ClientRevert
    <3>2. [Intent("Revert", link.epoch) EXCEPT !.ticket = t] \in IntentType
      BY <2>4 DEF IntentType, Intents
    <3>3. mail' \in Seq(IntentType)
      BY <3>1, <3>2, SMTT(60)
    <3>4. link' \in LinkType /\ LinkKept
      BY <2>7 DEF TypeInv, TypeOK, ClientRevert, LinkType, LinkKept
    <3>5. CoreOK'
      BY <2>1, <2>7, <3>4 DEF CoreOK, ClientRevert
    <3> QED BY <2>3, <2>7, <3>3, <3>4, <3>5, <1>Assembled DEF ClientRevert
  <2>8. CASE ClientDisarm
    <3>1. PICK f \in BOOLEAN :
            HandleDisarm([Intent("Disarm", link.epoch) EXCEPT !.force = f], deferred)
      BY <2>8 DEF ClientDisarm
    <3>2. [Intent("Disarm", link.epoch) EXCEPT !.force = f] \in IntentType
      BY <2>4 DEF IntentType, Intents
    <3>3. CoreOK' /\ LinkKept
      BY <2>1, <3>1, <3>2, DisarmTypes
    <3> QED BY <2>2, <2>3, <2>8, <3>3, <1>Assembled DEF ClientDisarm
  <2>9. CASE ClientReset
    <3>1. CoreOK' /\ LinkKept
      BY <2>1, <2>4, <2>9, ResetTypes DEF ClientReset, Intents
    <3> QED BY <2>2, <2>3, <2>9, <3>1, <1>Assembled DEF ClientReset
  <2>10. CASE ClientRefreshRate
    BY <2>1, <2>2, <2>3, <2>10, OtherTypes, <1>Assembled DEF ClientRefreshRate
  <2>11. CASE ClientSnapshot
    BY <2>1, <2>2, <2>3, <2>11, OtherTypes, <1>Assembled DEF ClientSnapshot
  <2>12. CASE ClientPark
    BY <2>1, <2>2, <2>3, <2>12, OtherTypes, <1>Assembled DEF ClientPark
  <2> QED BY <2>5, <2>6, <2>7, <2>8, <2>9, <2>10, <2>11, <2>12 DEF Client

\* A queued REVERT, and one iteration of the drain loop.
<1>QueuedTypes.
    ASSUME TypeInv, Mailbox \/ Drain
    PROVE  TypeInv'
  <2> USE <1>QueuedTypes
  <2>1. /\ CoreOK /\ deferred \in Seq(IntentType)
        /\ mail \in Seq(IntentType) /\ inputs \in 0..MaxInputs
    BY DEF TypeInv, TypeOK, CoreOK
  <2>2. deferred # <<>> => Head(deferred) \in IntentType /\ Tail(deferred) \in Seq(IntentType)
    BY <2>1, TaskPopped
  <2>3. CASE RevertDelivered
    <3>1. Head(mail) \in IntentType /\ Tail(mail) \in Seq(IntentType)
      BY <2>3, <1>MailTypes DEF TypeInv, RevertDelivered
    <3>2. CoreOK' /\ LinkKept
      BY <2>1, <2>3, <3>1, RevertTypes DEF RevertDelivered
    <3> QED BY <2>1, <2>3, <3>1, <3>2, <1>Assembled DEF RevertDelivered
  <2>4. CASE RevertStale
    <3>1. Tail(mail) \in Seq(IntentType)
      BY <2>4, <1>MailTypes DEF TypeInv, RevertStale
    <3>2. CoreOK' /\ LinkKept
      BY <2>1, <2>4 DEF CoreOK, RevertStale, LinkKept
    <3> QED BY <2>1, <2>4, <3>1, <3>2, <1>Assembled DEF RevertStale
  <2>5. CASE DrainDropsStale \/ DrainDropsRepair
    <3>1. CoreOK' /\ LinkKept
      BY <2>1, <2>2, <2>5 DEF CoreOK, DrainDropsStale, DrainDropsRepair, Draining, LinkKept
    <3> QED BY <2>1, <2>5, <3>1, <1>Assembled DEF DrainDropsStale, DrainDropsRepair
  <2>6. CASE DrainRuns
    <3>1. Head(deferred) \in IntentType /\ Tail(deferred) \in Seq(IntentType)
      BY <2>2, <2>6 DEF DrainRuns, Draining
    <3>2. \/ HandleApply(Head(deferred), Tail(deferred))
          \/ RepairStarted(Tail(deferred))
          \/ HandleRevert(Head(deferred), Tail(deferred))
          \/ HandleDisarm(Head(deferred), Tail(deferred))
          \/ HandleReset(Head(deferred), Tail(deferred))
      BY <2>6 DEF DrainRuns
    <3>3. CoreOK' /\ LinkKept
      BY <2>1, <3>1, <3>2, ApplyTypes, OtherTypes, RevertTypes, DisarmTypes, ResetTypes
    <3> QED BY <2>1, <2>6, <3>3, <1>Assembled DEF DrainRuns
  <2> QED BY <2>3, <2>4, <2>5, <2>6 DEF Mailbox, Drain

<1> SUFFICES ASSUME TypeInv, [Next]_vars PROVE TypeInv'
  OBVIOUS
<1>1. CoreOK /\ mail \in Seq(IntentType) /\ inputs \in 0..MaxInputs
  BY DEF TypeInv, TypeOK, CoreOK
<1>2. CASE Client
  BY <1>2, <1>ClientTypes
<1>3. CASE Mailbox \/ Drain
  BY <1>3, <1>QueuedTypes
<1>4. CASE Complete \/ Continue \/ Worker \/ Tick \/ Time
  <2>1. CoreOK' /\ Kept
    BY <1>1, <1>4, MutationTypes, VerificationTypes, ContinueTypes, WorkerTypes, TickTypes
       DEF Complete
  <2> QED BY <1>1, <2>1, <1>Assembled DEF Kept
<1>5. CASE DisplayEvent
  <2>1. CoreOK' /\ LinkKept /\ \E e : Notified(e)
    BY <1>1, <1>5, EventTypes
  <2>2. mail' = mail /\ inputs' \in 0..MaxInputs
    BY <1>1, <2>1, ConstantsAssumption, SMTT(60) DEF Notified
  <2> QED BY <1>1, <2>1, <2>2, <1>Assembled
<1>6. CASE Connection
  BY <1>6, <1>ConnectionTypes
<1>7. CASE UNCHANGED vars
  BY <1>7 DEF TypeInv, TypeOK, vars
<1> QED BY <1>2, <1>3, <1>4, <1>5, <1>6, <1>7 DEF Next

LEMMA InitTypes == Init => TypeInv
<1> SUFFICES ASSUME Init PROVE TypeInv
  OBVIOUS
<1>1. 0 \in Epochs
  BY ConstantsAssumption, SMTT(60) DEF Epochs
<1>2. /\ state \in States /\ gen \in Nat /\ deferred \in Seq(IntentType)
      /\ worker \in [kind : WorkerKinds \cup {"none"}, gen : Nat]
      /\ tasks \in Seq(TaskType) /\ timers \in Seq(TaskType) /\ inputs \in 0..MaxInputs
  BY ConstantsAssumption, SMTT(20) DEF Init, States, NoWorker
<1>3. session \in SessionType /\ lease \in LeaseType
  BY <1>1, Constants DEF Init, SessionType, LeaseType
<1>4. /\ settle \in SettleType /\ identity \in IdentityType /\ retry \in RetryType
      /\ ticket \in TicketType /\ frame \in FrameType /\ replies \in RepliesType
  BY SettleOps, RetryOps, Constants DEF Init
<1>5. reset \in ResetType /\ world \in WorldType
  BY Constants DEF Init, ResetType, WorldType
<1>6. mail \in Seq(IntentType)
  <2> DEFINE own == Intent("Revert", 0)
  <2>1. own \in IntentType
    BY <1>1, Constants DEF Intent, IntentType, Intents
  <2>2. mail = <<>> \/ mail = <<own>>
    BY DEF Init
  <2> HIDE DEF own
  <2>3. mail = <<own>> => mail \in Seq(IntentType)
    BY <2>1, SMTT(60)
  <2>4. mail = <<>> => mail \in Seq(IntentType)
    BY SMTT(60)
  <2> QED BY <2>2, <2>3, <2>4
<1>7. link \in LinkType /\ link.conn \in {"none", "boot"}
  BY <1>1 DEF Init, LinkType
<1> QED BY <1>2, <1>3, <1>4, <1>5, <1>6, <1>7 DEF TypeInv, TypeOK

\* Every variable of the helper keeps its shape in every behaviour and for every
\* instance.  In particular the settlement never dispatches a delayed check
\* beyond its two delays, an APPLY's discoveries and repairs are never
\* overdrawn, and the connection numbers stay within the bound of the model.
THEOREM TypeCorrect == Spec => []TypeOK
<1>1. Init => TypeInv
  BY InitTypes
<1>2. TypeInv /\ [Next]_vars => TypeInv'
  BY StepTypes
<1>3. TypeInv => TypeOK
  BY DEF TypeInv
<1> QED BY <1>1, <1>2, <1>3, PTL DEF Spec

----------------------------------------------------------------------------
(* Commands that wait, and the connections they came from *)

Waiting(q) == {q[i] : i \in DOMAIN q}
Replaces(c) == c.cmd \in {"Apply", "Repair"}
Older(e) == e = 0 \/ e < link.epoch
NothingPending(x) == ~x.pending /\ ~x.finalPending /\ ~x.deferredFinal

\* The inductive invariant.
EpochInv ==
  /\ link.conn = "live" => link.epoch >= 1
  /\ session.epoch <= link.epoch
  /\ session.epoch = 0 => session.request.layout = "none"
  /\ \A c \in Waiting(deferred) : Replaces(c) => c.epoch # 0 /\ c.epoch <= link.epoch
  /\ settle.requested \/ link.conn # "live" =>
       /\ Older(session.epoch)
       /\ \A c \in Waiting(deferred) : Replaces(c) => Older(c.epoch)
  /\ ~settle.requested => NothingPending(settle)

----------------------------------------------------------------------------
(* The queue of waiting commands *)

LEMMA TailWaiting ==
  ASSUME NEW q \in Seq(IntentType), q # <<>>
  PROVE  Head(q) \in Waiting(q) /\ Waiting(Tail(q)) \subseteq Waiting(q)
<1>1. /\ DOMAIN q = 1..Len(q) /\ Len(q) \in Nat /\ Len(q) >= 1 /\ Head(q) = q[1]
      /\ DOMAIN Tail(q) = 1..(Len(q) - 1)
      /\ \A i \in DOMAIN Tail(q) : Tail(q)[i] = q[i + 1]
  BY HeadTailProperties, LenProperties, EmptySeq, SMTT(60)
<1>2. 1 \in DOMAIN q /\ \A i \in DOMAIN Tail(q) : i + 1 \in DOMAIN q /\ Tail(q)[i] = q[i + 1]
  BY <1>1, SMTT(60)
<1> QED BY <1>1, <1>2, SMTT(60) DEF Waiting

LEMMA AppendWaiting ==
  ASSUME NEW q \in Seq(IntentType), NEW c \in IntentType
  PROVE  Waiting(Append(q, c)) = Waiting(q) \cup {c}
<1>1. /\ DOMAIN q = 1..Len(q) /\ Len(q) \in Nat
      /\ DOMAIN Append(q, c) = 1..(Len(q) + 1) /\ Append(q, c)[Len(q) + 1] = c
      /\ \A i \in DOMAIN q : Append(q, c)[i] = q[i]
  BY AppendProperties, LenProperties, SMTT(60)
<1>2. /\ \A i \in DOMAIN Append(q, c) : i \in DOMAIN q \/ i = Len(q) + 1
      /\ \A i \in DOMAIN q : i \in DOMAIN Append(q, c)
      /\ Len(q) + 1 \in DOMAIN Append(q, c)
  BY <1>1, SMTT(60)
<1> QED BY <1>1, <1>2 DEF Waiting

LEMMA EnqueueWaiting ==
  ASSUME NEW q \in Seq(IntentType), NEW c \in IntentType
  PROVE  Waiting(Enqueue(q, c)) \subseteq Waiting(q) \cup {c}
<1> DEFINE waiting == {i \in DOMAIN q : q[i].cmd # "Reset"}
           older == CHOOSE i \in waiting : TRUE
<1>1. CASE waiting = {}
  BY <1>1, AppendWaiting DEF Enqueue
<1>2. CASE waiting # {}
  <2>1. older \in DOMAIN q
    BY <1>2
  <2> DEFINE r == Erase(q, older)
  <2>2. /\ r \in Seq(IntentType) /\ Len(r) = Len(q) - 1
        /\ \A i \in 1..(Len(q) - 1) : r[i] = IF i < older THEN q[i] ELSE q[i + 1]
    BY <2>1, EraseSeq
  <2>3. DOMAIN q = 1..Len(q) /\ Len(q) \in Nat /\ DOMAIN r = 1..(Len(q) - 1)
    BY <2>2, LenProperties
  <2> HIDE DEF r
  <2>4. \A i \in DOMAIN r : i \in DOMAIN q /\ i + 1 \in DOMAIN q
    BY <2>3, SMTT(60)
  <2>5. Waiting(r) \subseteq Waiting(q)
    BY <2>2, <2>3, <2>4 DEF Waiting
  <2>6. Enqueue(q, c) \in {q, Append(q, c), Append(r, c)}
    BY DEF Enqueue, r
  <2> QED BY <2>2, <2>5, <2>6, AppendWaiting
<1> QED BY <1>1, <1>2

\* A step after which no newer connection, APPLY or settlement is there.
EpochQuiet ==
  /\ session'.epoch = session.epoch
  /\ session.request.layout = "none" => session'.request.layout = "none"
  /\ \A c \in Waiting(deferred') : Replaces(c) => c \in Waiting(deferred)
  /\ settle'.requested => settle.requested
  /\ ~settle'.requested => NothingPending(settle')

\* The next check of a settlement belongs to it.
LEMMA CheckRequested ==
  ASSUME NEW x \in SettleType, NEW q, x.requested, NextCheck(x, q) \/ FinalCheck(x, q)
  PROVE  settle'.requested
BY DEF NextCheck, CheckWaits, CheckDelayed, CheckFinal, FinalCheck, SettleType

\* A mutation or RESET reports.
LEMMA QuietMutations ==
  ASSUME TypeOK, EpochInv, MutationCompleted
  PROVE  EpochQuiet
<1>1. CASE StaleApplyCompleted
  BY <1>1 DEF TypeOK, EpochInv, EpochQuiet, StaleApplyCompleted, SessionType
<1>2. CASE ReactivationCompleted
  BY <1>2 DEF TypeOK, EpochInv, EpochQuiet, ReactivationCompleted, SessionType
<1>3. CASE ApplyCompleted
  BY <1>3 DEF TypeOK, EpochInv, EpochQuiet, ApplyCompleted
<1>4. CASE ResetCompleted
  BY <1>4 DEF TypeOK, EpochInv, EpochQuiet, ResetCompleted
<1>5. CASE RefreshRateCompleted
  BY <1>5, CheckRequested DEF TypeOK, EpochInv, EpochQuiet, RefreshRateCompleted,
     SessionType, NextCheck
<1>6. CASE RecoveryCancelled
  BY <1>6 DEF TypeOK, EpochInv, EpochQuiet, RecoveryCancelled
<1>7. CASE RecoverySucceeded
  BY <1>7 DEF TypeOK, EpochInv, EpochQuiet, RecoverySucceeded
<1>8. CASE RecoveryFailed
  BY <1>8 DEF TypeOK, EpochInv, EpochQuiet, RecoveryFailed
<1>9. CASE ValidationCancelled
  BY <1>9 DEF TypeOK, EpochInv, EpochQuiet, ValidationCancelled
<1>10. CASE ValidationFailed
  BY <1>10 DEF TypeOK, EpochInv, EpochQuiet, ValidationFailed
<1>11. CASE ValidationSucceeded
  BY <1>11 DEF TypeOK, EpochInv, EpochQuiet, ValidationSucceeded
<1> QED BY <1>1, <1>2, <1>3, <1>4, <1>5, <1>6, <1>7, <1>8, <1>9, <1>10, <1>11 DEF
    MutationCompleted

\* A handler goes on after its drain call.
LEMMA QuietContinue ==
  ASSUME TypeOK, EpochInv, Continue
  PROVE  EpochQuiet
<1>1. CASE Finish
  BY <1>1 DEF TypeOK, EpochInv, EpochQuiet, Finish, SessionType, SettleType,
     NothingPending
<1>2. CASE RolledBack
  BY <1>2 DEF TypeOK, EpochInv, EpochQuiet, RolledBack, SessionType, FailedReplies
<1>3. CASE AfterReturn
  BY <1>3 DEF TypeOK, EpochInv, EpochQuiet, AfterReturn
<1>4. CASE AfterRollback
  BY <1>4, CheckRequested DEF TypeOK, EpochInv, EpochQuiet, AfterRollback,
     SessionType, SettleType, NothingPending, SettlesNow, NextCheck
<1>5. CASE AfterSuperseded
  BY <1>5 DEF TypeOK, EpochInv, EpochQuiet, AfterSuperseded
<1>6. CASE DecideBaselineFailed
  BY <1>6 DEF TypeOK, EpochInv, EpochQuiet, DecideBaselineFailed
<1>7. CASE DecideVerify
  BY <1>7 DEF TypeOK, EpochInv, EpochQuiet, DecideVerify
<1>8. CASE DecideSettling
  BY <1>8 DEF TypeOK, EpochInv, EpochQuiet, DecideSettling, SettleType,
     NothingPending
<1>9. CASE DecideFailed
  BY <1>9 DEF TypeOK, EpochInv, EpochQuiet, DecideFailed
<1>10. CASE AfterSettling
  BY <1>10, CheckRequested DEF TypeOK, EpochInv, EpochQuiet, AfterSettling,
     SettleType, NothingPending, SettlesNow, DeferSettlement, SettleDeferred
<1>11. CASE AfterLastRepair
  BY <1>11 DEF TypeOK, EpochInv, EpochQuiet, AfterLastRepair, SessionType, NoSettle,
     NothingPending
<1>12. CASE AfterLastFailure
  BY <1>12 DEF TypeOK, EpochInv, EpochQuiet, AfterLastFailure, NoSettle,
     NothingPending
<1>13. CASE ConcludeHdr
  BY <1>13 DEF TypeOK, EpochInv, EpochQuiet, ConcludeHdr, SessionType, Request
<1>14. CASE ConcludeFailed
  BY <1>14 DEF TypeOK, EpochInv, EpochQuiet, ConcludeFailed, SessionType,
     FailedReplies
<1>15. CASE AfterReset
  BY <1>15 DEF TypeOK, EpochInv, EpochQuiet, AfterReset
<1>16. CASE ResetExits
  BY <1>16 DEF TypeOK, EpochInv, EpochQuiet, ResetExits
<1>17. CASE ResetResumes
  <2>1. settle \in SettleType /\ session \in SessionType
    BY DEF TypeOK
  <2>2. /\ Resumed \in SettleType /\ Resumed.requested = settle.requested
        /\ NothingPending(settle) => NothingPending(Resumed)
    BY <2>1, SettleOps DEF Resumed, SettleType, NothingPending
  <2>3. /\ [Resumed EXCEPT !.deferredFinal = FALSE] \in SettleType
        /\ [Resumed EXCEPT !.deferredFinal = FALSE].requested = settle.requested
    BY <2>2 DEF SettleType
  <2>4. \/ settle' \in {settle, Resumed, NoSettle}
        \/ settle.requested /\ FinalCheck([Resumed EXCEPT !.deferredFinal = FALSE], tasks)
        \/ settle.requested /\ NextCheck(Resumed, tasks)
    BY <1>17 DEF ResetResumes, ResumesSettlement, SettlesNow
  <2>5. /\ settle'.requested => settle.requested
        /\ ~settle'.requested => NothingPending(settle')
    <3>1. ~settle.requested => NothingPending(settle)
      BY DEF EpochInv
    <3>2. ~NoSettle.requested /\ NothingPending(NoSettle)
      BY DEF NoSettle, NothingPending
    <3> QED BY <2>2, <2>3, <2>4, <3>1, <3>2, CheckRequested
  <2>6. session'.epoch = session.epoch /\ session'.request = session.request
    BY <1>17, <2>1 DEF ResetResumes, SessionType
  <2> QED BY <1>17, <2>5, <2>6 DEF EpochQuiet, ResetResumes
<1>18. CASE AfterRestored
  BY <1>18 DEF TypeOK, EpochInv, EpochQuiet, AfterRestored
<1>19. CASE AfterRestoredFollowup
  BY <1>19 DEF TypeOK, EpochInv, EpochQuiet, AfterRestoredFollowup
<1> QED BY <1>1, <1>2, <1>3, <1>4, <1>5, <1>6, <1>7, <1>8, <1>9, <1>10, <1>11, <1>12,
    <1>13, <1>14, <1>15, <1>16, <1>17, <1>18, <1>19 DEF Continue, FinishApply

\* A verification reports.
LEMMA QuietVerifications ==
  ASSUME TypeOK, EpochInv, VerificationCompleted
  PROVE  EpochQuiet
<1>1. CASE VerificationIgnored
  BY <1>1 DEF TypeOK, EpochInv, EpochQuiet, VerificationIgnored
<1>2. CASE SettlementHolds
  BY <1>2 DEF TypeOK, EpochInv, EpochQuiet, SettlementHolds, Verified, SessionType,
     NoSettle, NothingPending
<1>3. CASE SettlementLost
  BY <1>3 DEF TypeOK, EpochInv, EpochQuiet, SettlementLost, Verified, SessionType,
     NoSettle, NothingPending
<1>4. CASE SettlementRechecks
  <2>1. CheckDone \in SettleType /\ CheckDone.requested = settle.requested
    BY SettleOps DEF TypeOK, CheckDone, SettleType
  <2>2. settle.requested
    BY <1>4 DEF SettlementRechecks, Verified, Superseded, IsTransient
  <2>3. settle'.requested
    BY <1>4, <2>1, <2>2, CheckRequested DEF SettlementRechecks
  <2> QED BY <1>4, <2>2, <2>3 DEF EpochQuiet, SettlementRechecks, Verified
<1>5. CASE SettlementRepairs
  BY <1>5 DEF TypeOK, EpochInv, EpochQuiet, SettlementRepairs, Verified, Superseded,
     IsTransient, CheckDone, SettleType, NothingPending
<1>6. CASE BaselineVerified
  BY <1>6 DEF TypeOK, EpochInv, EpochQuiet, BaselineVerified, Verified
<1>7. CASE InitialVerified
  BY <1>7, CheckRequested, SMTT(60) DEF TypeOK, EpochInv, EpochQuiet, InitialVerified,
     Verified, SessionType, NoSettle, NothingPending
<1>8. CASE FailedUnderSettlement
  BY <1>8, CheckRequested, SMTT(60) DEF TypeOK, EpochInv, EpochQuiet, FailedUnderSettlement,
     Verified, NoSettle, NothingPending
<1>9. CASE BaselineRepairStarted
  BY <1>9 DEF TypeOK, EpochInv, EpochQuiet, BaselineRepairStarted, Verified,
     SessionType, FailedVerification
<1>10. CASE BaselineRepairFailed
  BY <1>10 DEF TypeOK, EpochInv, EpochQuiet, BaselineRepairFailed, Verified,
     FailedVerification
<1>11. CASE InitialRetried
  BY <1>11 DEF TypeOK, EpochInv, EpochQuiet, InitialRetried, Verified, SessionType,
     FailedVerification
<1>12. CASE InitialFailed
  BY <1>12 DEF TypeOK, EpochInv, EpochQuiet, InitialFailed, Verified, SessionType,
     FailedVerification, FailedReplies
<1> QED BY <1>1, <1>2, <1>3, <1>4, <1>5, <1>6, <1>7, <1>8, <1>9, <1>10, <1>11, <1>12 DEF
    VerificationCompleted

\* REVERT, DISARM and RESET, run or queued.
LEMMA QuietCommands ==
  ASSUME TypeOK, EpochInv, NEW c \in IntentType, NEW rest \in Seq(IntentType),
         ~Replaces(c), Waiting(rest) \subseteq Waiting(deferred),
         HandleRevert(c, rest) \/ HandleDisarm(c, rest) \/ HandleReset(c, rest)
  PROVE  EpochQuiet
<1>1. CASE RevertJoined(c, rest)
  BY <1>1 DEF TypeOK, EpochInv, EpochQuiet, RevertJoined
<1>2. CASE RevertQueued(c)
  BY <1>2, EnqueueWaiting, SMTT(60) DEF TypeOK, EpochInv, EpochQuiet, RevertQueued,
     RevertSettle, NothingPending, NoSettle
<1>3. CASE RevertDeclined(c, rest)
  BY <1>3 DEF TypeOK, EpochInv, EpochQuiet, RevertDeclined, SessionType,
     ClearRecoveryState, NoSettle, NothingPending
<1>4. CASE RevertNothing(c, rest)
  BY <1>4 DEF TypeOK, EpochInv, EpochQuiet, RevertNothing, SessionType,
     ClearRecoveryState, NoSettle, NothingPending
<1>5. CASE RevertStarted(c, rest)
  BY <1>5 DEF TypeOK, EpochInv, EpochQuiet, RevertStarted, SessionType,
     RevertSettle, NothingPending, NoSettle
<1>6. CASE DisarmDropped(c, rest)
  BY <1>6 DEF TypeOK, EpochInv, EpochQuiet, DisarmDropped
<1>7. CASE DisarmQueued(c)
  BY <1>7, EnqueueWaiting, SMTT(60) DEF TypeOK, EpochInv, EpochQuiet, DisarmQueued, NoSettle,
     NothingPending
<1>8. CASE DisarmStarted(c, rest)
  BY <1>8, SMTT(60) DEF TypeOK, EpochInv, EpochQuiet, DisarmStarted, SessionType,
     ClearRecoveryState, NoSettle, NothingPending
<1>9. CASE ResetQueued(c)
  BY <1>9, EnqueueWaiting, SMTT(60) DEF TypeOK, EpochInv, EpochQuiet, ResetQueued
<1>10. CASE ResetStarted(c, rest)
  BY <1>10 DEF TypeOK, EpochInv, EpochQuiet, ResetStarted, DeferSettlement,
     SettleDeferred, SettleType, NothingPending
<1> QED BY <1>1, <1>2, <1>3, <1>4, <1>5, <1>6, <1>7, <1>8, <1>9, <1>10 DEF HandleRevert,
    HandleDisarm, HandleReset

\* The identity repair, reactivation, refresh rate, snapshot and parking.
LEMMA QuietOthers ==
  ASSUME TypeOK, EpochInv, NEW rest \in Seq(IntentType),
         Waiting(rest) \subseteq Waiting(deferred),
         \/ RepairStarted(rest) \/ ApplyReactivation \/ RefreshRateStarted
         \/ SnapshotTaken \/ Park
  PROVE  EpochQuiet
<1>1. CASE RepairStarted(rest)
  BY <1>1 DEF TypeOK, EpochInv, EpochQuiet, RepairStarted, SessionType,
     ReapplyIdentity
<1>2. CASE ApplyReactivation
  BY <1>2 DEF TypeOK, EpochInv, EpochQuiet, ApplyReactivation, SessionType
<1>3. CASE RefreshRateStarted
  BY <1>3 DEF TypeOK, EpochInv, EpochQuiet, RefreshRateStarted
<1>4. CASE SnapshotTaken
  BY <1>4 DEF TypeOK, EpochInv, EpochQuiet, SnapshotTaken
<1>5. CASE Park
  BY <1>5 DEF TypeOK, EpochInv, EpochQuiet, Park
<1> QED BY <1>1, <1>2, <1>3, <1>4, <1>5

\* The mailbox holds nothing but REVERT commands.
MailInv == \A c \in Waiting(mail) : c.cmd = "Revert"

\* Every step leaves only REVERTs in the mailbox.
LEMMA MailStep ==
  ASSUME TypeInv, MailInv, [Next]_vars
  PROVE  MailInv'
<1>1. CoreOK /\ mail \in Seq(IntentType)
  BY DEF TypeInv, TypeOK, CoreOK
<1>2. mail # <<>> => Tail(mail) \in Seq(IntentType) /\ Waiting(Tail(mail)) \subseteq Waiting(mail)
  BY <1>1, TaskPopped, TailWaiting
<1>3. CASE UNCHANGED mail
  BY <1>3 DEF MailInv
<1>4. CASE ClientRevert
  <2>1. PICK t \in Tickets : mail' = <<[Intent("Revert", link.epoch) EXCEPT !.ticket = t]>>
    BY <1>4 DEF ClientRevert
  <2> DEFINE c == [Intent("Revert", link.epoch) EXCEPT !.ticket = t]
  <2>2. c.cmd = "Revert"
    BY DEF Intent
  <2>3. mail' = <<c>>
    BY <2>1
  <2> HIDE DEF c
  <2> QED BY <2>2, <2>3, SMTT(60) DEF MailInv, Waiting
<1>5. CASE mail # <<>> /\ mail' = Tail(mail)
  BY <1>2, <1>5 DEF MailInv
<1>6. CASE mail' = LiveMail
  BY <1>2, <1>6 DEF LiveMail, MailInv
<1>7. CASE mail' = Append(LiveMail, [Intent("Revert", 0) EXCEPT !.disconnect = TRUE])
  <2> DEFINE c == [Intent("Revert", 0) EXCEPT !.disconnect = TRUE]
  <2>1. c \in IntentType /\ c.cmd = "Revert"
    <3>1. Intent("Revert", 0) \in IntentType /\ Intent("Revert", 0).cmd = "Revert"
      BY Constants, ConstantsAssumption, SMTT(60) DEF Intent, IntentType, Intents, Epochs
    <3> QED BY <3>1 DEF IntentType
  <2>2. LiveMail \in Seq(IntentType) /\ Waiting(LiveMail) \subseteq Waiting(mail)
    BY <1>1, <1>2 DEF LiveMail
  <2>3. mail' = Append(LiveMail, c)
    BY <1>7
  <2> HIDE DEF c
  <2> QED BY <2>1, <2>2, <2>3, AppendWaiting, SMTT(60) DEF MailInv
<1>8. CASE Client
  <2>1. ClientRevert \/ UNCHANGED mail
    BY <1>8 DEF Client, ClientApply, ClientReactivate, ClientDisarm, ClientReset,
       ClientRefreshRate, ClientSnapshot, ClientPark
  <2> QED BY <1>3, <1>4, <2>1
<1>9. CASE Mailbox \/ Drain
  <2>1. (mail # <<>> /\ mail' = Tail(mail)) \/ UNCHANGED mail
    BY <1>9 DEF Mailbox, RevertDelivered, RevertStale, Drain, DrainDropsStale, DrainDropsRepair,
       DrainRuns
  <2> QED BY <1>3, <1>5, <2>1
<1>10. CASE Complete \/ Continue \/ Worker \/ Tick \/ Time
  <2>1. Kept
    BY <1>1, <1>10, MutationTypes, VerificationTypes, ContinueTypes, WorkerTypes, TickTypes
       DEF Complete
  <2> QED BY <1>3, <2>1 DEF Kept
<1>11. CASE DisplayEvent
  <2>1. \E e : Notified(e)
    BY <1>1, <1>11, EventTypes
  <2> QED BY <1>3, <2>1 DEF Notified
<1>12. CASE Connection
  <2>1. \/ UNCHANGED mail \/ mail' = LiveMail
        \/ mail' = Append(LiveMail, [Intent("Revert", 0) EXCEPT !.disconnect = TRUE])
    BY <1>12 DEF Connection, Connect, Retire, Stop, DisconnectSettles, DisconnectReverts,
       DisconnectIdle
  <2> QED BY <1>3, <1>6, <1>7, <2>1
<1>13. CASE UNCHANGED vars
  BY <1>3, <1>13 DEF vars
<1> QED BY <1>8, <1>9, <1>10, <1>11, <1>12, <1>13 DEF Next

\* Every step keeps the order of connections and waiting commands.
LEMMA EpochStep == TypeInv /\ MailInv /\ EpochInv /\ [Next]_vars => EpochInv'

<1>QuietKeeps.
    ASSUME TypeOK, EpochInv, LinkKept, EpochQuiet
    PROVE  EpochInv'
  BY <1>QuietKeeps DEF EpochInv, EpochQuiet, LinkKept, Older

\* The worker, the timer, the tick, and the passage of time.
<1>QuietThreads.
    ASSUME TypeOK, EpochInv, Worker \/ Tick \/ Time
    PROVE  EpochQuiet
  <2> USE <1>QuietThreads
  <2>1. CASE WorkerGuards \/ WorkerTouches
    BY <2>1 DEF TypeOK, EpochInv, EpochQuiet, WorkerGuards, WorkerTouches, fsmVars
  <2>2. CASE RecoveryEnters \/ RecoveryTouches
    BY <2>2 DEF TypeOK, EpochInv, EpochQuiet, RecoveryEnters, RecoveryTouches, fsmVars
  <2>3. CASE TimerFires
    BY <2>3 DEF TypeOK, EpochInv, EpochQuiet, TimerFires
  <2>4. CASE Tick
    BY <2>4 DEF TypeOK, EpochInv, EpochQuiet, Tick, TickReconciles, TickDiscards,
       TickExpires, TickRetries, Ticks
  <2>5. CASE WindowCloses \/ QuietEnds
    BY <2>5 DEF TypeOK, EpochInv, EpochQuiet, WindowCloses, QuietEnds, notTime
  <2>6. CASE GraceEnds
    BY <2>6 DEF TypeOK, EpochInv, EpochQuiet, GraceEnds, SessionType, notTime
  <2> QED BY <2>1, <2>2, <2>3, <2>4, <2>5, <2>6 DEF Worker, Time

\* APPLY: of the live connection, or one that waited for it.
<1>EpochApply.
    ASSUME TypeOK, EpochInv, LinkKept, NEW c \in IntentType, NEW rest \in Seq(IntentType),
           Waiting(rest) \subseteq Waiting(deferred), HandleApply(c, rest),
           c.epoch = link.epoch, c.epoch # 0,
           link.conn = "live" \/ (c \in Waiting(deferred) /\ Replaces(c))
    PROVE  EpochInv'
  <2> USE <1>EpochApply
  <2>1. link.conn = "live"
    BY ConstantsAssumption, SMTT(60) DEF TypeOK, EpochInv, Older, LinkType, Epochs
  <2>2. link'.conn = "live" /\ link'.epoch = link.epoch
    BY <2>1 DEF LinkKept
  <2>3. c.epoch <= link.epoch
    BY ConstantsAssumption, SMTT(60) DEF TypeOK, LinkType, Epochs
  <2>4. ~settle'.requested /\ NothingPending(settle')
    BY SMTT(60) DEF HandleApply, ApplyQueued, ApplyStarted, ApplyRejected, ApplyBegins, NoSettle,
       NothingPending
  <2>5. CASE ApplyQueued(c)
    <3>1. Waiting(deferred') \subseteq Waiting(deferred) \cup {c} /\ session' = session
      BY <2>5, EnqueueWaiting DEF TypeOK, ApplyQueued
    <3>2. \A w \in Waiting(deferred') : Replaces(w) => w.epoch # 0 /\ w.epoch <= link.epoch
      BY <2>3, <3>1 DEF EpochInv
    <3>3. link.epoch >= 1 /\ session'.epoch <= link.epoch
      BY <2>1, <3>1 DEF EpochInv
    <3>4. session'.epoch = 0 => session'.request.layout = "none"
      BY <3>1 DEF EpochInv
    <3> QED BY <2>2, <2>4, <3>2, <3>3, <3>4 DEF EpochInv
  <2>6. CASE ApplyBegins(c, rest)
    <3>1. Waiting(deferred') \subseteq Waiting(deferred) /\ session'.epoch = c.epoch
      BY <2>6 DEF ApplyBegins
    <3>2. \A w \in Waiting(deferred') : Replaces(w) => w.epoch # 0 /\ w.epoch <= link.epoch
      BY <3>1 DEF EpochInv
    <3>3. link.epoch >= 1 /\ session'.epoch <= link.epoch /\ session'.epoch # 0
      BY <2>1, <2>3, <3>1 DEF EpochInv
    <3> QED BY <2>2, <2>4, <3>2, <3>3 DEF EpochInv
  <2> QED BY <2>5, <2>6 DEF HandleApply, ApplyStarted, ApplyRejected

\* A display notification: the repair it queues carries the session's connection.
<1>EpochEvent.
    ASSUME TypeOK, EpochInv, LinkKept, DisplayEvent
    PROVE  EpochInv'
  <2> USE <1>EpochEvent
  <2>1. CASE BaselineReturned
    <3>1. EpochQuiet
      BY <2>1 DEF TypeOK, EpochInv, EpochQuiet, BaselineReturned, SessionType
    <3> QED BY <3>1, <1>QuietKeeps
  <2>2. CASE IdentityUnchanged
    <3>1. EpochQuiet
      BY <2>2 DEF TypeOK, EpochInv, EpochQuiet, IdentityUnchanged
    <3> QED BY <3>1, <1>QuietKeeps
  <2>3. CASE IdentityQueued
    <3> DEFINE c == Intent("Repair", session.epoch)
    <3>1. c \in IntentType /\ c.epoch = session.epoch /\ session.epoch # 0
      <4>1. session.epoch \in Epochs
        BY DEF TypeOK, SessionType
      <4>2. session.request.layout # "none"
        BY <2>3 DEF IdentityQueued, IdentityEvent, HasVirtualLayout
      <4> QED BY <4>1, <4>2, Constants DEF Intent, IntentType, Intents, EpochInv
    <3>2. Waiting(deferred') \subseteq Waiting(deferred) \cup {c} /\ UNCHANGED <<session, settle>>
      <4> HIDE DEF c
      <4>1. deferred' = Enqueue(deferred, c)
        BY <2>3 DEF IdentityQueued, c
      <4> QED BY <2>3, <3>1, <4>1, EnqueueWaiting DEF TypeOK, IdentityQueued
    <3> HIDE DEF c
    <3> QED BY <3>1, <3>2 DEF EpochInv, LinkKept, Older
  <2>4. CASE IdentityReplaced
    <3>1. EpochQuiet
      BY <2>4 DEF TypeOK, EpochInv, EpochQuiet, IdentityReplaced, ReapplyIdentity, SessionType
    <3> QED BY <3>1, <1>QuietKeeps
  <2>5. CASE EventKept \/ EventReopens
    <3>1. EpochQuiet
      BY <2>5 DEF TypeOK, EpochInv, EpochQuiet, EventKept, EventReopens, RecoveryEvent
    <3> QED BY <3>1, <1>QuietKeeps
  <2> QED BY <2>1, <2>2, <2>3, <2>4, <2>5 DEF DisplayEvent

\* Connections come and go: what a retired one left behind is older from then on.
<1>EpochConnection.
    ASSUME TypeOK, EpochInv, Connection
    PROVE  EpochInv'
  <2> USE <1>EpochConnection
  <2>1. /\ link \in LinkType /\ session \in SessionType /\ settle \in SettleType
        /\ link.epoch \in Nat /\ session.epoch \in Nat
        /\ \A c \in Waiting(deferred) : c.epoch \in Nat
    <3>1. Epochs \subseteq Nat
      BY ConstantsAssumption, SMTT(60) DEF Epochs
    <3>2. \A c \in Waiting(deferred) : c \in IntentType
      BY ElementOfSeq, LenProperties, SMTT(60) DEF TypeOK, Waiting
    <3>3. \A c \in Waiting(deferred) : c.epoch \in Nat
      BY <3>1, <3>2 DEF IntentType
    <3>4. link \in LinkType /\ session \in SessionType /\ settle \in SettleType
      BY DEF TypeOK
    <3> QED BY <3>1, <3>3, <3>4 DEF LinkType, SessionType
  <2>2. CASE Connect
    <3>1. link'.epoch = link.epoch + 1 /\ link'.conn = "live" /\ UNCHANGED <<session, deferred, settle>>
      BY <2>1, <2>2 DEF Connect, LinkType
    <3>2. link.conn # "live"
      BY <2>2 DEF Connect
    <3> QED BY <2>1, <3>1, <3>2, SMTT(60) DEF EpochInv, Older
  <2>3. CASE Retire
    <3>1. link'.epoch = link.epoch + 1 /\ link'.conn = "broken" /\ UNCHANGED <<session, deferred, settle>>
      BY <2>1, <2>3 DEF Retire, LinkType
    <3> QED BY <2>1, <3>1, SMTT(60) DEF EpochInv, Older
  <2>4. CASE Stop
    BY <2>4 DEF EpochInv, Stop, Older
  <2>5. CASE DisconnectSettles \/ DisconnectReverts \/ DisconnectIdle
    <3>1. link.conn = "broken" /\ link'.epoch = link.epoch /\ link'.conn = "none"
      BY <2>1, <2>5 DEF DisconnectSettles, DisconnectReverts, DisconnectIdle, Disconnects,
         Unlinked, LinkType
    <3>2. deferred' = deferred
      BY <2>5 DEF DisconnectSettles, DisconnectReverts, DisconnectIdle, Disconnects
    <3>3. session'.epoch = session.epoch /\ session'.request = session.request
      BY <2>1, <2>5 DEF DisconnectSettles, DisconnectReverts, DisconnectIdle, SessionType
    <3>4. settle' = settle \/ settle'.requested
      <4>1. /\ Claimed \in SettleType /\ Claimed.requested
            /\ [Claimed EXCEPT !.deferredByReset = TRUE].requested
        BY <2>1, SettleOps DEF Claimed, SettleType
      <4>2. \/ settle' \in {settle, Claimed, [Claimed EXCEPT !.deferredByReset = TRUE]}
            \/ CheckDelayed(Claimed, tasks)
        BY <2>5 DEF DisconnectSettles, DisconnectReverts, DisconnectIdle
      <4> QED BY <4>1, <4>2, CheckRequested DEF NextCheck
    <3> QED BY <3>1, <3>2, <3>3, <3>4 DEF EpochInv, Older
  <2> QED BY <2>2, <2>3, <2>4, <2>5 DEF Connection

\* A client command.
<1>EpochClient.
    ASSUME TypeOK, EpochInv, Client
    PROVE  EpochInv'
  <2> USE <1>EpochClient
  <2>1. /\ CoreOK /\ deferred \in Seq(IntentType) /\ link.epoch \in Epochs
        /\ Waiting(deferred) \subseteq Waiting(deferred)
    BY DEF TypeOK, CoreOK, LinkType
  <2>2. \A cmd \in Intents : /\ Intent(cmd, link.epoch) \in IntentType
                             /\ Intent(cmd, link.epoch).epoch = link.epoch
                             /\ Intent(cmd, link.epoch).cmd = cmd
    BY <2>1, Constants DEF Intent, IntentType
  <2>3. CASE ClientApply
    <3>1. PICK r \in Requests :
            HandleApply([Intent("Apply", link.epoch) EXCEPT !.request = r], deferred)
      BY <2>3 DEF ClientApply
    <3> DEFINE c == [Intent("Apply", link.epoch) EXCEPT !.request = r]
    <3>2. c \in IntentType /\ c.epoch = link.epoch
      BY <2>2, ConstantsAssumption DEF IntentType, Intents
    <3>3. HandleApply(c, deferred)
      BY <3>1
    <3>4. link.conn = "live" /\ link.epoch # 0
      BY <2>3, SMTT(60) DEF ClientApply, Deliver, Connected, EpochInv
    <3> HIDE DEF c
    <3>5. LinkKept
      BY <2>1, <3>2, <3>3, ApplyTypes
    <3> QED BY <2>1, <3>2, <3>3, <3>4, <3>5, <1>EpochApply
  <2>4. CASE ClientReactivate \/ ClientRefreshRate \/ ClientSnapshot \/ ClientPark
    <3>1. ApplyReactivation \/ RefreshRateStarted \/ SnapshotTaken \/ Park
      BY <2>4 DEF ClientReactivate, ClientRefreshRate, ClientSnapshot, ClientPark
    <3> QED BY <2>1, <3>1, OtherTypes, QuietOthers, <1>QuietKeeps
  <2>5. CASE ClientRevert
    <3>1. LinkKept
      BY <2>5 DEF TypeOK, ClientRevert, LinkType, LinkKept
    <3>2. EpochQuiet
      BY <2>5 DEF EpochInv, EpochQuiet, ClientRevert
    <3> QED BY <3>1, <3>2, <1>QuietKeeps
  <2>6. CASE ClientDisarm
    <3>1. PICK f \in BOOLEAN :
            HandleDisarm([Intent("Disarm", link.epoch) EXCEPT !.force = f], deferred)
      BY <2>6 DEF ClientDisarm
    <3> DEFINE c == [Intent("Disarm", link.epoch) EXCEPT !.force = f]
    <3>2. c \in IntentType /\ ~Replaces(c)
      BY <2>2 DEF IntentType, Intents, Replaces
    <3>3. HandleDisarm(c, deferred)
      BY <3>1
    <3> HIDE DEF c
    <3> QED BY <2>1, <3>2, <3>3, DisarmTypes, QuietCommands, <1>QuietKeeps
  <2>7. CASE ClientReset
    <3> DEFINE c == Intent("Reset", link.epoch)
    <3>1. c \in IntentType /\ ~Replaces(c)
      BY <2>2 DEF Intents, Replaces
    <3>2. HandleReset(c, deferred)
      BY <2>7 DEF ClientReset
    <3> HIDE DEF c
    <3> QED BY <2>1, <3>1, <3>2, ResetTypes, QuietCommands, <1>QuietKeeps
  <2> QED BY <2>3, <2>4, <2>5, <2>6, <2>7 DEF Client

\* A queued REVERT, and one iteration of the drain loop.
<1>EpochQueued.
    ASSUME TypeOK, EpochInv, Mailbox \/ Drain,
           mail # <<>> => Head(mail).cmd = "Revert"
    PROVE  EpochInv'
  <2> USE <1>EpochQueued
  <2>1. /\ CoreOK /\ deferred \in Seq(IntentType) /\ mail \in Seq(IntentType)
        /\ Waiting(deferred) \subseteq Waiting(deferred)
    BY DEF TypeOK, CoreOK
  <2>2. CASE RevertDelivered
    <3>1. Head(mail) \in IntentType /\ ~Replaces(Head(mail)) /\ HandleRevert(Head(mail), deferred)
      BY <2>1, <2>2, TaskPopped DEF RevertDelivered, Replaces
    <3> QED BY <2>1, <3>1, RevertTypes, QuietCommands, <1>QuietKeeps
  <2>3. CASE RevertStale
    <3>1. LinkKept /\ EpochQuiet
      BY <2>3 DEF EpochInv, EpochQuiet, RevertStale, LinkKept
    <3> QED BY <3>1, <1>QuietKeeps
  <2>4. ASSUME Drain
        PROVE  /\ Head(deferred) \in IntentType /\ Tail(deferred) \in Seq(IntentType)
               /\ Head(deferred) \in Waiting(deferred)
               /\ Waiting(Tail(deferred)) \subseteq Waiting(deferred)
    BY <2>1, <2>4, TaskPopped, TailWaiting
       DEF Drain, DrainDropsStale, DrainDropsRepair, DrainRuns, Draining
  <2>5. CASE DrainDropsStale \/ DrainDropsRepair
    <3>1. LinkKept /\ EpochQuiet
      BY <2>4, <2>5 DEF EpochInv, EpochQuiet, Drain, DrainDropsStale, DrainDropsRepair, LinkKept
    <3> QED BY <3>1, <1>QuietKeeps
  <2>6. CASE DrainRuns
    <3> DEFINE c == Head(deferred)
               rest == Tail(deferred)
    <3>1. /\ c \in IntentType /\ rest \in Seq(IntentType) /\ c \in Waiting(deferred)
          /\ Waiting(rest) \subseteq Waiting(deferred)
      BY <2>4, <2>6 DEF Drain
    <3>2. /\ ~StaleEpoch(c.epoch)
          /\ \/ c.cmd = "Apply" /\ HandleApply(c, rest)
             \/ c.cmd = "Repair" /\ RepairStarted(rest)
             \/ c.cmd = "Revert" /\ HandleRevert(c, rest)
             \/ c.cmd = "Disarm" /\ HandleDisarm(c, rest)
             \/ c.cmd = "Reset" /\ HandleReset(c, rest)
      BY <2>6 DEF DrainRuns
    <3> HIDE DEF c, rest
    <3>3. CASE c.cmd = "Apply" /\ HandleApply(c, rest)
      <4>1. Replaces(c) /\ c.epoch # 0 /\ c.epoch = link.epoch
        BY <3>1, <3>2, <3>3 DEF EpochInv, Replaces, StaleEpoch
      <4> QED BY <2>1, <3>1, <3>3, <4>1, ApplyTypes, <1>EpochApply
    <3>4. CASE c.cmd = "Repair" /\ RepairStarted(rest)
      BY <2>1, <3>1, <3>4, OtherTypes, QuietOthers, <1>QuietKeeps
    <3>5. CASE \/ c.cmd = "Revert" /\ HandleRevert(c, rest)
               \/ c.cmd = "Disarm" /\ HandleDisarm(c, rest)
               \/ c.cmd = "Reset" /\ HandleReset(c, rest)
      <4>1. ~Replaces(c)
        BY <3>5 DEF Replaces
      <4>2. LinkKept
        BY <2>1, <3>1, <3>5, RevertTypes, DisarmTypes, ResetTypes
      <4> QED BY <3>1, <3>5, <4>1, <4>2, QuietCommands, <1>QuietKeeps
    <3> QED BY <3>2, <3>3, <3>4, <3>5
  <2> QED BY <2>2, <2>3, <2>5, <2>6 DEF Mailbox, Drain

<1> SUFFICES ASSUME TypeInv, MailInv, EpochInv, [Next]_vars PROVE EpochInv'
  OBVIOUS
<1>1. TypeOK /\ CoreOK
  BY DEF TypeInv, TypeOK, CoreOK
<1>2. CASE Client
  BY <1>1, <1>2, <1>EpochClient
<1>3. CASE Mailbox \/ Drain
  <2>1. mail # <<>> => Head(mail).cmd = "Revert"
    BY <1>1, TailWaiting DEF TypeOK, MailInv
  <2> QED BY <1>1, <1>3, <2>1, <1>EpochQueued
<1>4. CASE Complete \/ Continue \/ Worker \/ Tick \/ Time
  <2>1. LinkKept
    BY <1>1, <1>4, MutationTypes, VerificationTypes, ContinueTypes, WorkerTypes, TickTypes
       DEF Complete, Kept
  <2>2. EpochQuiet
    BY <1>1, <1>4, QuietMutations, QuietVerifications, QuietContinue, <1>QuietThreads DEF Complete
  <2> QED BY <1>1, <2>1, <2>2, <1>QuietKeeps
<1>5. CASE DisplayEvent
  BY <1>1, <1>5, EventTypes, <1>EpochEvent
<1>6. CASE Connection
  BY <1>1, <1>6, <1>EpochConnection
<1>7. CASE UNCHANGED vars
  BY <1>7 DEF EpochInv, vars, Older
<1> QED BY <1>2, <1>3, <1>4, <1>5, <1>6, <1>7 DEF Next

LEMMA EpochInit == Init => EpochInv /\ MailInv
<1> SUFFICES ASSUME Init PROVE EpochInv /\ MailInv
  OBVIOUS
<1>1. Waiting(deferred) = {}
  <2>1. deferred = <<>>
    BY DEF Init
  <2> QED BY <2>1, SMTT(60) DEF Waiting
<1>2. EpochInv
  <2>1. link.epoch = 0 /\ link.conn # "live" /\ session.epoch = 0
    BY DEF Init
  <2>2. session.request.layout = "none" /\ settle = NoSettle
    BY DEF Init, NoRequest
  <2>3. ~settle.requested /\ NothingPending(settle)
    BY <2>2 DEF NoSettle, NothingPending
  <2> QED BY <1>1, <2>1, <2>2, <2>3, SMTT(60) DEF EpochInv, Older
<1>3. MailInv
  <2> DEFINE own == Intent("Revert", 0)
  <2>1. own.cmd = "Revert"
    BY DEF Intent
  <2>2. mail = <<>> \/ mail = <<own>>
    BY DEF Init
  <2> HIDE DEF own
  <2>3. mail = <<own>> => MailInv
    BY <2>1, SMTT(60) DEF MailInv, Waiting
  <2>4. mail = <<>> => MailInv
    BY SMTT(60) DEF MailInv, Waiting
  <2> QED BY <2>2, <2>3, <2>4
<1> QED BY <1>2, <1>3

\* While a settlement runs, no APPLY or repair of a live connection waits.
LEMMA SettlesAlone ==
  ASSUME TypeOK, EpochInv, settle.requested
  PROVE  ~HasDeferredApply
<1>1. link.epoch \in Nat
  BY ConstantsAssumption, SMTT(60) DEF TypeOK, LinkType, Epochs
<1> QED BY <1>1, SMTT(60) DEF EpochInv, HasDeferredApply, Waiting, Replaces, Older, StaleEpoch

----------------------------------------------------------------------------
(* One recovery or apply intent behind the fence *)

OneWaits(q) == \A i, j \in DOMAIN q : q[i].cmd # "Reset" /\ q[j].cmd # "Reset" => i = j

\* The head of the queue leaves it.
LEMMA OneAfterTail ==
  ASSUME NEW q \in Seq(IntentType), q # <<>>, OneWaits(q)
  PROVE  OneWaits(Tail(q))
<1>1. /\ DOMAIN q = 1..Len(q) /\ Len(q) \in Nat /\ Len(q) >= 1
      /\ DOMAIN Tail(q) = 1..(Len(q) - 1)
      /\ \A i \in DOMAIN Tail(q) : Tail(q)[i] = q[i + 1]
  BY HeadTailProperties, LenProperties, EmptySeq, SMTT(60)
<1> SUFFICES ASSUME NEW i \in DOMAIN Tail(q), NEW j \in DOMAIN Tail(q),
                    Tail(q)[i].cmd # "Reset", Tail(q)[j].cmd # "Reset"
             PROVE  i = j
  BY DEF OneWaits
<1>2. i + 1 \in DOMAIN q /\ j + 1 \in DOMAIN q /\ i \in Int /\ j \in Int
  BY <1>1, SMTT(60)
<1>3. q[i + 1].cmd # "Reset" /\ q[j + 1].cmd # "Reset"
  BY <1>1
<1>4. i + 1 = j + 1
  BY <1>2, <1>3 DEF OneWaits
<1> QED BY <1>2, <1>4, SMTT(60)

\* A command joins a queue in which it, or everything else, is a RESET.
LEMMA OneAfterAppend ==
  ASSUME NEW q \in Seq(IntentType), NEW c \in IntentType, OneWaits(q),
         c.cmd = "Reset" \/ \A i \in DOMAIN q : q[i].cmd = "Reset"
  PROVE  OneWaits(Append(q, c))
<1>1. /\ DOMAIN q = 1..Len(q) /\ Len(q) \in Nat
      /\ DOMAIN Append(q, c) = 1..(Len(q) + 1) /\ Append(q, c)[Len(q) + 1] = c
      /\ \A i \in DOMAIN q : Append(q, c)[i] = q[i]
  BY AppendProperties, LenProperties, SMTT(60)
<1>2. \A i \in DOMAIN Append(q, c) : i \in DOMAIN q \/ i = Len(q) + 1
  BY <1>1, SMTT(60)
<1> QED BY <1>1, <1>2 DEF OneWaits

\* enqueue_latest_mutation_intent replaces the command that waits.
LEMMA OneAfterEnqueue ==
  ASSUME NEW q \in Seq(IntentType), NEW c \in IntentType, OneWaits(q)
  PROVE  OneWaits(Enqueue(q, c))
<1> DEFINE waiting == {i \in DOMAIN q : q[i].cmd # "Reset"}
           older == CHOOSE i \in waiting : TRUE
           r == Erase(q, older)
<1>1. CASE c.cmd = "Reset" \/ waiting = {}
  <2>1. Enqueue(q, c) = Append(q, c)
    BY <1>1 DEF Enqueue
  <2> QED BY <1>1, <2>1, OneAfterAppend
<1>2. CASE c.cmd # "Reset" /\ waiting # {}
  <2>1. older \in DOMAIN q /\ q[older].cmd # "Reset"
    BY <1>2
  <2>2. Enqueue(q, c) = q \/ Enqueue(q, c) = Append(r, c)
    BY <1>2 DEF Enqueue
  <2>3. /\ r \in Seq(IntentType) /\ Len(r) = Len(q) - 1
        /\ \A i \in 1..(Len(q) - 1) : r[i] = IF i < older THEN q[i] ELSE q[i + 1]
    BY <2>1, EraseSeq
  <2>4. DOMAIN q = 1..Len(q) /\ Len(q) \in Nat /\ DOMAIN r = 1..(Len(q) - 1)
    BY <2>3, LenProperties
  <2>5. older \in 1..Len(q)
    BY <2>1, <2>4
  <2> HIDE DEF r, older, waiting
  <2>6. ASSUME NEW i \in DOMAIN r
        PROVE  r[i].cmd = "Reset"
    <3>1. CASE i < older
      <4>1. i \in DOMAIN q /\ i # older /\ r[i] = q[i]
        BY <2>3, <2>4, <2>5, <3>1, SMTT(60)
      <4> QED BY <2>1, <4>1 DEF OneWaits
    <3>2. CASE ~(i < older)
      <4>1. i + 1 \in DOMAIN q /\ i + 1 # older /\ r[i] = q[i + 1]
        BY <2>3, <2>4, <2>5, <3>2, SMTT(60)
      <4> QED BY <2>1, <4>1 DEF OneWaits
    <3> QED BY <3>1, <3>2
  <2>7. OneWaits(r)
    BY <2>6 DEF OneWaits
  <2> QED BY <2>2, <2>3, <2>6, <2>7, OneAfterAppend
<1> QED BY <1>1, <1>2

\* What a step does to the queue: rest stays, or a command is enqueued.
Moves(rest) == deferred' = rest \/ \E c \in IntentType : deferred' = Enqueue(deferred, c)

LEMMA HandlersMove ==
  ASSUME NEW c \in IntentType, NEW rest,
         \/ HandleApply(c, rest) \/ HandleRevert(c, rest) \/ HandleDisarm(c, rest)
         \/ HandleReset(c, rest) \/ RepairStarted(rest)
  PROVE  Moves(rest)
<1>1. CASE HandleApply(c, rest) \/ RepairStarted(rest)
  BY <1>1 DEF Moves, HandleApply, ApplyQueued, ApplyStarted, ApplyRejected, ApplyBegins,
     RepairStarted
<1>2. CASE HandleRevert(c, rest)
  BY <1>2 DEF Moves, HandleRevert, RevertJoined, RevertQueued, RevertDeclined, RevertNothing,
     RevertStarted
<1>3. CASE HandleDisarm(c, rest) \/ HandleReset(c, rest)
  BY <1>3 DEF Moves, HandleDisarm, DisarmDropped, DisarmQueued, DisarmStarted, HandleReset,
     ResetQueued, ResetStarted
<1> QED BY <1>1, <1>2, <1>3

\* Completions, threads, time and the connection leave the queue alone.
LEMMA OthersKeepQueue ==
  ASSUME Complete \/ Continue \/ Worker \/ Tick \/ Time \/ Connection
  PROVE  UNCHANGED deferred
<1>1. CASE MutationCompleted
  BY <1>1 DEF MutationCompleted, StaleApplyCompleted, ReactivationCompleted, ApplyCompleted,
     ResetCompleted, RefreshRateCompleted, RecoveryCancelled, RecoverySucceeded, RecoveryFailed,
     ValidationCancelled, ValidationFailed, ValidationSucceeded
<1>2. CASE VerificationCompleted
  BY <1>2 DEF VerificationCompleted, VerificationIgnored, SettlementHolds, SettlementLost,
     SettlementRechecks, SettlementRepairs, BaselineVerified, InitialVerified,
     FailedUnderSettlement, BaselineRepairStarted, BaselineRepairFailed, InitialRetried,
     InitialFailed, Verified, FailedVerification
<1>3. CASE FinishApply
  BY <1>3 DEF FinishApply, Finish, RolledBack, AfterReturn, AfterRollback, AfterSuperseded,
     DecideBaselineFailed, DecideVerify, DecideSettling, DecideFailed, AfterSettling,
     AfterLastRepair, AfterLastFailure, ConcludeHdr, ConcludeFailed
<1>4. CASE AfterReset \/ ResetExits \/ ResetResumes \/ AfterRestored \/ AfterRestoredFollowup
  BY <1>4 DEF AfterReset, ResetExits, ResetResumes, AfterRestored, AfterRestoredFollowup
<1>5. CASE Worker
  BY <1>5 DEF Worker, WorkerGuards, WorkerTouches, RecoveryEnters, RecoveryTouches, TimerFires,
     fsmVars
<1>6. CASE Tick \/ Time
  BY <1>6 DEF Tick, TickReconciles, TickDiscards, TickExpires, TickRetries, Ticks, Time,
     WindowCloses, QuietEnds, GraceEnds, notTime
<1>7. CASE Connection
  BY <1>7 DEF Connection, Connect, Retire, Stop, DisconnectSettles, DisconnectReverts,
     DisconnectIdle, Disconnects
<1> QED BY <1>1, <1>2, <1>3, <1>4, <1>5, <1>6, <1>7 DEF Complete, Continue

\* Every step keeps, drains or appends to the queue of waiting commands.
LEMMA StepMoves ==
  ASSUME TypeOK, [Next]_vars
  PROVE  Moves(deferred) \/ (deferred # <<>> /\ Moves(Tail(deferred)))
<1>1. /\ deferred \in Seq(IntentType) /\ mail \in Seq(IntentType) /\ link.epoch \in Epochs
      /\ session.epoch \in Epochs
  BY DEF TypeOK, LinkType, SessionType
<1>2. \A cmd \in Intents, e \in Epochs : Intent(cmd, e) \in IntentType
  BY Constants DEF Intent, IntentType
<1>3. CASE Client
  <2>1. CASE ClientApply
    <3>1. PICK r \in Requests :
            HandleApply([Intent("Apply", link.epoch) EXCEPT !.request = r], deferred)
      BY <2>1 DEF ClientApply
    <3>2. [Intent("Apply", link.epoch) EXCEPT !.request = r] \in IntentType
      BY <1>1, <1>2, ConstantsAssumption, SMTT(20) DEF IntentType, Intents
    <3> QED BY <3>1, <3>2, HandlersMove
  <2>2. CASE ClientDisarm
    <3>1. PICK f \in BOOLEAN :
            HandleDisarm([Intent("Disarm", link.epoch) EXCEPT !.force = f], deferred)
      BY <2>2 DEF ClientDisarm
    <3>2. [Intent("Disarm", link.epoch) EXCEPT !.force = f] \in IntentType
      BY <1>1, <1>2, SMTT(60) DEF IntentType, Intents
    <3> QED BY <3>1, <3>2, HandlersMove
  <2>3. CASE ClientReset
    <3>1. Intent("Reset", link.epoch) \in IntentType
      BY <1>1, <1>2 DEF Intents
    <3> QED BY <2>3, <3>1, HandlersMove DEF ClientReset
  <2>4. CASE ClientReactivate \/ ClientRevert \/ ClientRefreshRate \/ ClientSnapshot \/ ClientPark
    BY <2>4 DEF Moves, ClientReactivate, ClientRevert, ClientRefreshRate, ClientSnapshot,
       ClientPark, ApplyReactivation, RefreshRateStarted, SnapshotTaken, Park
  <2> QED BY <1>3, <2>1, <2>2, <2>3, <2>4 DEF Client
<1>4. CASE Mailbox
  <2>1. CASE RevertDelivered
    <3>1. Head(mail) \in IntentType /\ HandleRevert(Head(mail), deferred)
      BY <1>1, <2>1, TaskPopped DEF RevertDelivered
    <3> QED BY <3>1, HandlersMove
  <2>2. CASE RevertStale
    BY <2>2 DEF Moves, RevertStale
  <2> QED BY <1>4, <2>1, <2>2 DEF Mailbox
<1>5. CASE Drain
  <2>1. deferred # <<>> /\ Head(deferred) \in IntentType
    BY <1>1, <1>5, TaskPopped DEF Drain, DrainDropsStale, DrainDropsRepair, DrainRuns, Draining
  <2>2. CASE DrainDropsStale \/ DrainDropsRepair
    BY <2>1, <2>2 DEF Moves, DrainDropsStale, DrainDropsRepair
  <2>3. CASE DrainRuns
    BY <2>1, <2>3, HandlersMove DEF DrainRuns
  <2> QED BY <1>5, <2>2, <2>3 DEF Drain
<1>6. CASE DisplayEvent
  <2>1. Intent("Repair", session.epoch) \in IntentType
    BY <1>1, <1>2 DEF Intents
  <2> QED BY <1>6, <2>1 DEF Moves, DisplayEvent, BaselineReturned, IdentityUnchanged,
          IdentityQueued, IdentityReplaced, EventKept, EventReopens, RecoveryEvent
<1>7. CASE Complete \/ Continue \/ Worker \/ Tick \/ Time \/ Connection
  BY <1>7, OthersKeepQueue DEF Moves
<1>8. CASE UNCHANGED vars
  BY <1>8 DEF Moves, vars
<1> QED BY <1>3, <1>4, <1>5, <1>6, <1>7, <1>8 DEF Next

\* Behind the fence waits at most one APPLY, REVERT, DISARM or identity repair,
\* whatever arrives while a mutation or a RESET is in flight
\* (enqueue_latest_mutation_intent).
THEOREM OneIntentHolds == Spec => []OneIntent
<1>1. Init => OneIntent
  <2>1. Init => deferred = <<>>
    BY DEF Init
  <2> QED BY <2>1, SMTT(60) DEF OneIntent
<1>2. TypeInv /\ OneIntent /\ [Next]_vars => OneIntent'
  <2> SUFFICES ASSUME TypeInv, OneIntent, [Next]_vars PROVE OneIntent'
    OBVIOUS
  <2>1. TypeOK /\ deferred \in Seq(IntentType) /\ OneWaits(deferred)
    BY DEF TypeInv, TypeOK, OneIntent, OneWaits
  <2>2. \/ deferred' = deferred
        \/ deferred # <<>> /\ deferred' = Tail(deferred)
        \/ \E c \in IntentType : deferred' = Enqueue(deferred, c)
    BY <2>1, StepMoves DEF Moves
  <2>3. OneWaits(deferred')
    BY <2>1, <2>2, OneAfterTail, OneAfterEnqueue
  <2> QED BY <2>3 DEF OneIntent, OneWaits
<1> QED BY <1>1, <1>2, InitTypes, StepTypes, PTL DEF Spec

============================================================================
