--------------------------- MODULE TicketProofs ----------------------------
(***************************************************************************)
(* Restore tickets and answers, for every instance: what the helper tells  *)
(* the owner of a ticket is true, a failed restore whose owner is          *)
(* connected is retried, and an accepted APPLY gets at most one result and *)
(* one verification result, which agree.                                   *)
(*                                                                         *)
(* WaitInv says which commands can wait while a restore runs; the others   *)
(* are TicketInv, RetryInv and AnswerInv.                                  *)
(***************************************************************************)
EXTENDS FenceProofs

\* A leaf that names no prover is given to Zenon; those that need arithmetic,
\* records or sequences name the SMT solver.
USE ZenonT(60)

----------------------------------------------------------------------------
(* Commands and where they come from *)

Runs(c, rest) ==
  \/ c.cmd = "Apply" /\ HandleApply(c, rest)
  \/ c.cmd = "Repair" /\ RepairStarted(rest)
  \/ c.cmd = "Revert" /\ HandleRevert(c, rest)
  \/ c.cmd = "Disarm" /\ HandleDisarm(c, rest)
  \/ c.cmd = "Reset" /\ HandleReset(c, rest)

\* A command is the client's message, the REVERT of the mailbox, or the first
\* of the waiting ones.
Source(c, rest) ==
  \/ /\ Idle /\ Connected /\ rest = deferred /\ mail = <<>> /\ UNCHANGED mail
     /\ c.cmd \in {"Apply", "Disarm", "Reset"} /\ c.epoch = link.epoch /\ ~c.disconnect
  \/ /\ Idle /\ mail # <<>> /\ rest = deferred /\ mail' = Tail(mail)
     /\ c = Head(mail) /\ c.cmd = "Revert"
  \/ Draining /\ rest = Tail(deferred) /\ c = Head(deferred) /\ UNCHANGED mail
Calls(c, rest) == c \in IntentType /\ Runs(c, rest) /\ Source(c, rest) /\ ~StaleEpoch(c.epoch)

LEMMA Called ==
  ASSUME TypeOK, MailInv, EpochInv,
         ClientApply \/ ClientDisarm \/ ClientReset \/ RevertDelivered \/ DrainRuns
  PROVE  \E c, rest : Calls(c, rest)
<1>1. /\ deferred \in Seq(IntentType) /\ mail \in Seq(IntentType) /\ link.epoch \in Epochs
  BY DEF TypeOK, LinkType
<1>2. \A cmd \in Intents : Intent(cmd, link.epoch) \in IntentType
  BY <1>1, Constants DEF Intent, IntentType
<1>3. ~StaleEpoch(link.epoch)
  BY DEF StaleEpoch
<1>4. CASE ClientApply
  <2>1. PICK r \in Requests :
          HandleApply([Intent("Apply", link.epoch) EXCEPT !.request = r], deferred)
    BY <1>4 DEF ClientApply
  <2> DEFINE c == [Intent("Apply", link.epoch) EXCEPT !.request = r]
  <2>2. c \in IntentType
    <3>1. Intent("Apply", link.epoch) \in IntentType /\ r \in Request
      BY <1>2, ConstantsAssumption DEF Intents
    <3> QED BY <3>1 DEF IntentType
  <2>4. c.cmd = "Apply" /\ c.epoch = link.epoch /\ ~c.disconnect
    BY DEF Intent
  <2>3. HandleApply(c, deferred)
    BY <2>1
  <2> HIDE DEF c
  <2> QED BY <1>3, <1>4, <2>2, <2>3, <2>4 DEF ClientApply, Deliver, Calls, Runs, Source
<1>5. CASE ClientDisarm
  <2>1. PICK f \in BOOLEAN :
          HandleDisarm([Intent("Disarm", link.epoch) EXCEPT !.force = f], deferred)
    BY <1>5 DEF ClientDisarm
  <2> DEFINE c == [Intent("Disarm", link.epoch) EXCEPT !.force = f]
  <2>2. c \in IntentType
    BY <1>1, <1>2, ConstantsAssumption, SMTT(60) DEF IntentType, Intents
  <2>4. c.cmd = "Disarm" /\ c.epoch = link.epoch /\ ~c.disconnect
    BY DEF Intent
  <2>3. HandleDisarm(c, deferred)
    BY <2>1
  <2> HIDE DEF c
  <2> QED BY <1>3, <1>5, <2>2, <2>3, <2>4 DEF ClientDisarm, Deliver, Calls, Runs, Source
<1>6. CASE ClientReset
  <2> DEFINE c == Intent("Reset", link.epoch)
  <2>1. /\ c \in IntentType /\ c.cmd = "Reset" /\ c.epoch = link.epoch /\ ~c.disconnect
    BY <1>2 DEF Intents, Intent
  <2>2. HandleReset(c, deferred)
    BY <1>6 DEF ClientReset
  <2> HIDE DEF c
  <2> QED BY <1>3, <1>6, <2>1, <2>2 DEF ClientReset, Deliver, Calls, Runs, Source
<1>7. CASE RevertDelivered
  <2>1. mail # <<>> /\ Head(mail) \in IntentType /\ Head(mail) \in Waiting(mail)
    BY <1>1, <1>7, TaskPopped, TailWaiting DEF RevertDelivered
  <2>2. Head(mail).cmd = "Revert"
    BY <2>1 DEF MailInv
  <2> QED BY <1>7, <2>1, <2>2 DEF RevertDelivered, Calls, Runs, Source
<1>8. CASE DrainRuns
  <2>1. Head(deferred) \in IntentType
    BY <1>1, <1>8, TaskPopped DEF DrainRuns, Draining
  <2> QED BY <1>8, <2>1 DEF DrainRuns, Calls, Runs, Source
<1> QED BY <1>4, <1>5, <1>6, <1>7, <1>8

\* The other steps: what they leave alone.
Elsewhere ==
  \/ ClientReactivate \/ ClientRevert \/ ClientRefreshRate \/ ClientSnapshot \/ ClientPark
  \/ RevertStale \/ DrainDropsStale \/ DrainDropsRepair
  \/ DisplayEvent \/ Tick \/ Time \/ Connection \/ Worker

\* Every step handles one command, handles a completion, goes on with a
\* handler, or concerns none of them.
LEMMA StepCases ==
  ASSUME TypeOK, MailInv, EpochInv, [Next]_vars
  PROVE  \/ \E c, rest : Calls(c, rest)
         \/ MutationCompleted \/ VerificationCompleted \/ Continue \/ Elsewhere
         \/ UNCHANGED vars
BY Called DEF Next, Client, Mailbox, Drain, Complete, Elsewhere

----------------------------------------------------------------------------
(* Who waits while a restore runs *)

NoRepair(q) == \A c \in Waiting(q) : c.cmd # "Repair"
Undirected(q) == \A c \in Waiting(q) : c.disconnect => c.ticket = 0

\* A restore has no identity repair behind it, the helper's own REVERT carries
\* no ticket, and a recovery in the dispatcher is the state machine's.
WaitInv ==
  /\ OneWaits(deferred)
  /\ Undirected(mail) /\ Undirected(deferred)
  /\ RestorePending => NoRepair(deferred)
  /\ frame.at = "superseded" =>
       \A c \in Waiting(deferred) : c.cmd \in {"Apply", "Repair", "Reset"}
  /\ worker.kind = "Recovery" => RecoveryInProgress /\ lease.armed

LEMMA TailResets ==
  ASSUME NEW q \in Seq(IntentType), q # <<>>, OneWaits(q), Head(q).cmd # "Reset"
  PROVE  \A c \in Waiting(Tail(q)) : c.cmd = "Reset"
<1>1. /\ DOMAIN q = 1..Len(q) /\ Len(q) \in Nat /\ Len(q) >= 1 /\ Head(q) = q[1]
      /\ DOMAIN Tail(q) = 1..(Len(q) - 1)
      /\ \A i \in DOMAIN Tail(q) : Tail(q)[i] = q[i + 1]
  BY HeadTailProperties, LenProperties, EmptySeq, SMTT(60)
<1> SUFFICES ASSUME NEW i \in DOMAIN Tail(q), Tail(q)[i].cmd # "Reset" PROVE FALSE
  BY DEF Waiting
<1>2. i + 1 \in DOMAIN q /\ 1 \in DOMAIN q /\ i + 1 # 1
  BY <1>1, SMTT(60)
<1>3. q[i + 1].cmd # "Reset" /\ q[1].cmd # "Reset"
  BY <1>1
<1> QED BY <1>2, <1>3 DEF OneWaits

LEMMA NothingWaits == Waiting(<< >>) = {}
BY SMTT(60) DEF Waiting

\* What a command's handler does to the queue.
LEMMA CallMoves ==
  ASSUME TypeOK, WaitInv, OwnerInv, NEW c, NEW rest, Calls(c, rest)
  PROVE  /\ UNCHANGED frame /\ Running /\ rest \in Seq(IntentType)
         /\ Waiting(rest) \subseteq Waiting(deferred)
         /\ c \in Waiting(mail) \/ c \in Waiting(deferred) \/ ~c.disconnect
         /\ Free /\ c.cmd # "Reset" => \A d \in Waiting(rest) : d.cmd = "Reset"
         /\ \/ deferred' = rest
            \/ /\ ~Free /\ Idle /\ deferred' = Enqueue(deferred, c) /\ c.cmd # "Repair"
               /\ UNCHANGED <<state, worker, reset>>
<1>1. deferred \in Seq(IntentType) /\ mail \in Seq(IntentType)
  BY DEF TypeOK
<1>2. \/ /\ Idle /\ rest = deferred
         /\ \/ c.cmd \in {"Apply", "Disarm", "Reset"} /\ ~c.disconnect
            \/ mail # <<>> /\ c = Head(mail) /\ c.cmd = "Revert"
      \/ Draining /\ deferred # <<>> /\ rest = Tail(deferred) /\ c = Head(deferred)
  BY DEF Calls, Source, Draining
<1>3. /\ rest \in Seq(IntentType) /\ Waiting(rest) \subseteq Waiting(deferred)
      /\ c \in Waiting(mail) \/ c \in Waiting(deferred) \/ ~c.disconnect
  BY <1>1, <1>2, TailWaiting, TaskPopped
<1>4. UNCHANGED frame
  BY HandlersOwn DEF Calls, Runs
<1>5. Free /\ c.cmd # "Reset" => \A d \in Waiting(rest) : d.cmd = "Reset"
  <2>1. CASE Idle /\ rest = deferred
    BY <2>1, NothingWaits DEF OwnerInv, Idle
  <2>2. CASE Draining /\ deferred # <<>> /\ rest = Tail(deferred) /\ c = Head(deferred)
    BY <1>1, <2>2, TailResets DEF WaitInv
  <2> QED BY <1>2, <2>1, <2>2
<1>6. CASE c.cmd = "Repair" \/ Draining
  <2>1. Draining /\ Free
    BY <1>2, <1>6 DEF Draining
  <2> QED BY <1>3, <1>4, <1>5, <2>1, HandlersOwn DEF Calls, Runs, Draining
<1>7. CASE c.cmd # "Repair" /\ ~Draining
  <2>1. Idle
    BY <1>2, <1>7
  <2>2. deferred' = rest \/ (ApplyQueued(c) \/ RevertQueued(c) \/ DisarmQueued(c) \/ ResetQueued(c))
    BY <1>7 DEF Calls, Runs, HandleApply, HandleRevert, HandleDisarm, HandleReset,
       ApplyStarted, ApplyRejected, ApplyBegins, RevertJoined, RevertDeclined, RevertNothing,
       RevertStarted, DisarmDropped, DisarmStarted, ResetStarted
  <2>3. (ApplyQueued(c) \/ RevertQueued(c) \/ DisarmQueued(c) \/ ResetQueued(c)) =>
          ~Free /\ deferred' = Enqueue(deferred, c) /\ UNCHANGED <<state, worker, reset>>
    BY DEF ApplyQueued, RevertQueued, DisarmQueued, ResetQueued
  <2> QED BY <1>3, <1>4, <1>5, <1>7, <2>1, <2>2, <2>3 DEF Idle
<1> QED BY <1>6, <1>7

\* finish_apply_completed may arm the lease; it changes nothing else of it but
\* what it knows of the restore task.
LEMMA FinishLease ==
  ASSUME TypeOK, Finish
  PROVE  /\ lease.armed => lease'.armed
         /\ lease'.explicit = lease.explicit /\ lease'.heartbeat = lease.heartbeat
<1>1. lease \in LeaseType /\ frame.done.armed \in BOOLEAN
  BY DEF TypeOK, FrameType, Completion
<1> DEFINE guarded == [lease EXCEPT !.taskCreated = @ \/ frame.done.armed]
<1>2. PICK created \in BOOLEAN :
        \/ lease' = [Activated(guarded) EXCEPT !.taskCreated = @ \/ created]
        \/ lease' = guarded
  BY DEF Finish
<1>3. /\ guarded \in LeaseType /\ guarded.armed = lease.armed
      /\ guarded.explicit = lease.explicit /\ guarded.heartbeat = lease.heartbeat
  BY <1>1 DEF LeaseType
<1> HIDE DEF guarded
<1> QED BY <1>2, <1>3 DEF LeaseType, Activated

\* Where a handler that has drained nothing yet, or is not done, may stand.
Busy == {"finish", "rolledBack", "superseded", "decide", "conclude"}

\* The continuations that stay in such a place.
LEMMA ContinueBusy ==
  ASSUME TypeOK, Continue, frame'.at \in Busy
  PROVE  \/ frame'.at = "finish" /\ AfterReset /\ reset.completion.held
         \/ frame'.at \in {"rolledBack", "superseded", "decide"} /\ Finish
         \/ frame'.at = "decide" /\ AfterSuperseded
         \/ frame'.at = "conclude" /\ (DecideFailed \/ AfterLastFailure)
<1>1. frame \in FrameType
  BY DEF TypeOK
<1>2. \A p : DrainThen(p).at = p
  BY <1>1 DEF DrainThen, FrameType
<1>3. Returned.at \in {"idle", "resetTail"} /\ IdleFrame.at = "idle"
  BY DEF Returned, IdleFrame
<1>4. CASE Finish
  <2>1. PICK next \in {"rolledBack", "superseded", "decide"} :
          frame' = [frame EXCEPT !.at = next, !.baseline = identity.inFlight]
    BY <1>4 DEF Finish
  <2>2. frame'.at = next
    BY <1>1, <2>1 DEF FrameType
  <2> QED BY <1>4, <2>1, <2>2
<1>5. CASE AfterSuperseded
  <2>1. frame' = [frame EXCEPT !.at = "decide"] \/ frame' = Returned
    BY <1>5 DEF AfterSuperseded
  <2>2. frame'.at = "decide"
    BY <1>1, <1>3, <2>1 DEF FrameType, Busy
  <2> QED BY <1>5, <2>2
<1>6. CASE DecideFailed \/ AfterLastFailure
  <2>1. frame' = [frame EXCEPT !.at = "conclude"]
    BY <1>6 DEF DecideFailed, AfterLastFailure
  <2>2. frame'.at = "conclude"
    BY <1>1, <2>1 DEF FrameType
  <2> QED BY <1>6, <2>2
<1>7. CASE AfterReset
  <2>1. \/ reset.completion.held /\ frame'.at = "finish"
        \/ frame'.at = "resetTail"
    BY <1>7 DEF AfterReset, IdleFrame
  <2> QED BY <1>7, <2>1 DEF Busy
<1>8. CASE RolledBack \/ DecideBaselineFailed \/ DecideVerify \/ DecideSettling
           \/ AfterLastRepair \/ ConcludeFailed
  <2>1. \E p \in DrainPoints \ {"superseded"} : frame' = DrainThen(p)
    BY <1>8 DEF RolledBack, DecideBaselineFailed, DecideVerify, DecideSettling,
       AfterLastRepair, ConcludeFailed, DrainPoints
  <2> QED BY <1>2, <2>1, SMTT(60) DEF Busy, DrainPoints
<1>9. CASE AfterReturn \/ AfterRollback \/ AfterSettling \/ ConcludeHdr \/ ResetExits
           \/ ResetResumes \/ AfterRestored \/ AfterRestoredFollowup
  <2>1. frame' = Returned \/ frame' = IdleFrame
    BY <1>9 DEF AfterReturn, AfterRollback, AfterSettling, ConcludeHdr, ResetExits,
       ResetResumes, AfterRestored, AfterRestoredFollowup
  <2> QED BY <1>3, <2>1, SMTT(60) DEF Busy
<1> QED BY <1>4, <1>5, <1>6, <1>7, <1>8, <1>9 DEF Continue, FinishApply

LEMMA BusyMoves ==
  ASSUME TypeOK, MailInv, EpochInv, [Next]_vars, frame'.at \in Busy
  PROVE  \/ UNCHANGED frame /\ ~Idle
         \/ frame'.at = "finish" /\ (ApplyCompleted \/ (AfterReset /\ reset.completion.held))
         \/ frame'.at \in {"rolledBack", "superseded", "decide"} /\ Finish
         \/ frame'.at = "decide" /\ AfterSuperseded
         \/ frame'.at = "conclude" /\ (DecideFailed \/ AfterLastFailure)
<1>1. frame \in FrameType
  BY DEF TypeOK
<1>2. \A p : DrainThen(p).at = p
  BY <1>1 DEF DrainThen, FrameType
<1>5. CASE \E c, rest : Calls(c, rest)
  BY <1>5, HandlersOwn DEF Calls, Runs, Idle, Busy
<1>6. CASE MutationCompleted
  <2>1. ASSUME frame' = DrainThen("return") \/ frame' = DrainThen("resetDone")
               \/ frame' = DrainThen("restored") \/ frame' = DrainThen("restoredFollowup")
        PROVE  FALSE
    BY <1>2, <2>1, SMTT(60) DEF Busy
  <2>2. CASE ApplyCompleted
    <3>1. frame'.at = "finish"
      BY <2>2 DEF ApplyCompleted, IdleFrame
    <3> QED BY <2>2, <3>1
  <2>3. ASSUME UNCHANGED frame PROVE ~Idle
    BY <2>3 DEF Idle, Busy
  <2> QED BY <1>6, <2>1, <2>2, <2>3 DEF MutationCompleted, StaleApplyCompleted,
          ReactivationCompleted, RefreshRateCompleted, RecoveryCancelled, RecoveryFailed,
          ValidationCancelled, ValidationFailed, ResetCompleted, RecoverySucceeded,
          ValidationSucceeded
<1>7. CASE VerificationCompleted
  <2>1. UNCHANGED frame
    BY <1>7 DEF VerificationCompleted, VerificationIgnored, SettlementHolds, SettlementLost,
       SettlementRechecks, SettlementRepairs, BaselineVerified, InitialVerified,
       FailedUnderSettlement, BaselineRepairStarted, BaselineRepairFailed, InitialRetried,
       InitialFailed, Verified, FailedVerification
  <2> QED BY <2>1 DEF Idle, Busy
<1>8. CASE Continue
  BY <1>8, ContinueBusy
<1>9. CASE Elsewhere \/ UNCHANGED vars
  <2>1. UNCHANGED frame
    BY <1>9 DEF Elsewhere, ClientReactivate, ClientRevert, ClientRefreshRate, ClientSnapshot,
       ClientPark, ApplyReactivation, RefreshRateStarted, SnapshotTaken, Park, RevertStale,
       DrainDropsStale, DrainDropsRepair, DisplayEvent, BaselineReturned, IdentityUnchanged,
       IdentityQueued, IdentityReplaced, EventKept, EventReopens, RecoveryEvent, Tick,
       TickReconciles, TickDiscards, TickExpires, TickRetries, Ticks, Time, WindowCloses,
       QuietEnds, GraceEnds, notTime, Connection, Connect, Retire, Stop, DisconnectSettles,
       DisconnectReverts, DisconnectIdle, Disconnects, Worker, WorkerGuards, WorkerTouches,
       RecoveryEnters, RecoveryTouches, TimerFires, fsmVars, vars
  <2> QED BY <2>1 DEF Idle, Busy
<1> QED BY <1>5, <1>6, <1>7, <1>8, <1>9, StepCases

\* What the steps without a command do to the queue.
LEMMA ElsewhereMoves ==
  ASSUME TypeOK, Elsewhere
  PROVE  \/ deferred' = deferred
         \/ deferred # <<>> /\ deferred' = Tail(deferred)
         \/ /\ deferred' = Enqueue(deferred, Intent("Repair", session.epoch)) /\ Idle
            /\ state \in SessionStates /\ ~Free /\ IdentityQueued
<1>1. CASE DrainDropsStale \/ DrainDropsRepair
  BY <1>1 DEF DrainDropsStale, DrainDropsRepair, Draining
<1>2. CASE Tick \/ Time \/ Connection \/ Worker
  BY <1>2, OthersKeepQueue
<1>3. CASE DisplayEvent
  BY <1>3 DEF DisplayEvent, BaselineReturned, IdentityUnchanged, IdentityQueued, IdentityReplaced,
     EventKept, EventReopens, RecoveryEvent, IdentityEvent, Notified
<1>4. CASE ClientReactivate \/ ClientRevert \/ ClientRefreshRate \/ ClientSnapshot \/ ClientPark
           \/ RevertStale
  BY <1>4 DEF ClientReactivate, ClientRevert, ClientRefreshRate, ClientSnapshot, ClientPark,
     ApplyReactivation, RefreshRateStarted, SnapshotTaken, Park, RevertStale
<1> QED BY <1>1, <1>2, <1>3, <1>4 DEF Elsewhere

LEMMA RepairIntent ==
  ASSUME TypeOK
  PROVE  /\ Intent("Repair", session.epoch) \in IntentType
         /\ Intent("Repair", session.epoch).cmd = "Repair"
         /\ ~Intent("Repair", session.epoch).disconnect
<1>1. session.epoch \in Epochs
  BY DEF TypeOK, SessionType
<1> QED BY <1>1, Constants DEF Intent, IntentType, Intents

\* Every step keeps what may wait while a restore runs.
LEMMA WaitStep == IInv /\ WaitInv /\ OwnerInv /\ [Next]_vars => WaitInv'

<1>WaitCalls.
    ASSUME TypeOK, WaitInv, OwnerInv, NEW c, NEW rest, Calls(c, rest)
    PROVE  /\ RestorePending' => NoRepair(deferred')
           /\ worker'.kind = "Recovery" => RecoveryInProgress' /\ lease'.armed
  <2> USE <1>WaitCalls
  <2>1. /\ lease \in LeaseType /\ deferred \in Seq(IntentType) /\ c \in IntentType
    BY DEF TypeOK, Calls
  <2>2. NoWorker.kind = "none"
    BY DEF NoWorker
  <2>3. Free => worker.kind = "none"
    BY <2>2 DEF Free, WorkerActive
  <2>4. ASSUME UNCHANGED <<state, worker>>, lease'.armed = lease.armed
        PROVE  /\ RestorePending' => NoRepair(deferred')
               /\ worker'.kind = "Recovery" => RecoveryInProgress' /\ lease'.armed
    <3>1. \A d \in Waiting(deferred') : d \in Waiting(deferred) \/ d.cmd # "Repair"
      <4>1. \/ deferred' = rest /\ Waiting(rest) \subseteq Waiting(deferred)
            \/ deferred' = Enqueue(deferred, c) /\ c.cmd # "Repair"
        BY CallMoves
      <4>2. Waiting(Enqueue(deferred, c)) \subseteq Waiting(deferred) \cup {c}
        BY <2>1, EnqueueWaiting
      <4> QED BY <4>1, <4>2
    <3> QED BY <2>4, <3>1 DEF WaitInv, NoRepair, RestorePending, RecoveryInProgress
  <2>5. CASE ApplyQueued(c) \/ RevertQueued(c) \/ DisarmQueued(c) \/ ResetQueued(c)
             \/ RevertJoined(c, rest) \/ DisarmDropped(c, rest) \/ ResetStarted(c, rest)
    <3>1. /\ UNCHANGED <<state, worker>>
          /\ \/ lease' = lease \/ lease' = [lease EXCEPT !.explicit = FALSE]
             \/ lease' = RevertLease(c)
      BY <2>5 DEF ApplyQueued, RevertQueued, DisarmQueued, ResetQueued, RevertJoined,
         DisarmDropped, ResetStarted
    <3>2. lease'.armed = lease.armed
      BY <2>1, <3>1 DEF LeaseType, RevertLease
    <3> QED BY <2>4, <3>1, <3>2
  <2>6. CASE RevertNothing(c, rest)
    <3>1. UNCHANGED <<state, worker>> /\ Free /\ deferred' = rest
      BY <2>6 DEF RevertNothing, RevertRuns
    <3> QED BY <2>3, <3>1, CallMoves DEF WaitInv, NoRepair, RestorePending
  <2>7. CASE \/ ApplyRejected(c, rest) \/ RevertDeclined(c, rest) \/ DisarmStarted(c, rest)
             \/ ApplyStarted(c, rest) \/ RepairStarted(rest)
    <3>1. state' \in {"Waiting", "InProgress"}
      BY <2>7 DEF ApplyRejected, RevertDeclined, DisarmStarted, ApplyStarted, RepairStarted,
         ReapplyIdentity
    <3>2. (worker' = worker /\ Free) \/ worker' = [kind |-> "Apply", gen |-> gen']
      BY <2>7 DEF ApplyRejected, RevertDeclined, DisarmStarted, ApplyStarted, RepairStarted,
         ReapplyIdentity, DispatchApply, ApplyBegins, RevertRuns
    <3>3. worker'.kind # "Recovery"
      BY <2>3, <3>2, SMTT(60)
    <3> QED BY <3>1, <3>3 DEF RestorePending
  <2>8. CASE c.cmd = "Revert" /\ RevertStarted(c, rest)
    <3>1. /\ Free /\ deferred' = rest /\ state' = "Recovery"
          /\ lease' = [RevertLease(c) EXCEPT !.armed = TRUE, !.changesPending = TRUE,
                                             !.heartbeat = FALSE]
      BY <2>8 DEF RevertStarted, RevertRuns, StartRecovery
    <3>2. c.cmd # "Reset"
      BY <2>8
    <3>3. NoRepair(deferred')
      BY <3>1, <3>2, CallMoves DEF NoRepair
    <3>4. lease'.armed
      BY <2>1, <3>1 DEF LeaseType, RevertLease
    <3> QED BY <3>1, <3>3, <3>4 DEF RecoveryInProgress
  <2> QED BY <2>5, <2>6, <2>7, <2>8 DEF Calls, Runs, HandleApply, HandleRevert, HandleDisarm,
          HandleReset

\* The state machine is left where it was, or ends what it was doing.
<1>WaitKeeps.
    ASSUME WaitInv, UNCHANGED deferred, RestorePending' => RestorePending,
           \/ worker'.kind # "Recovery"
           \/ /\ worker.kind = "Recovery" /\ RecoveryInProgress' /\ (lease.armed => lease'.armed)
    PROVE  /\ RestorePending' => NoRepair(deferred')
           /\ worker'.kind = "Recovery" => RecoveryInProgress' /\ lease'.armed
  BY <1>WaitKeeps DEF WaitInv

<1>WaitMutations.
    ASSUME TypeOK, FenceInv, WaitInv, MutationCompleted
    PROVE  /\ RestorePending' => NoRepair(deferred')
           /\ worker'.kind = "Recovery" => RecoveryInProgress' /\ lease'.armed
  <2> USE <1>WaitMutations
  <2>1. lease \in LeaseType /\ UNCHANGED deferred /\ NoWorker.kind = "none"
    BY OthersKeepQueue DEF TypeOK, Complete, NoWorker
  <2>2. CASE StaleApplyCompleted \/ ReactivationCompleted \/ ApplyCompleted \/ RecoveryCancelled
             \/ ValidationCancelled
    <3>1. worker' = NoWorker /\ UNCHANGED state
      BY <2>2 DEF StaleApplyCompleted, ReactivationCompleted, ApplyCompleted, RecoveryCancelled,
         ValidationCancelled
    <3> QED BY <2>1, <3>1, <1>WaitKeeps DEF RestorePending
  <2>3. CASE ResetCompleted
    <3>1. UNCHANGED <<worker, state>> /\ \E ok : lease' = [lease EXCEPT !.staged = @ /\ ~ok]
      BY <2>3 DEF ResetCompleted
    <3>2. lease'.armed = lease.armed
      BY <2>1, <3>1 DEF LeaseType
    <3> QED BY <2>1, <3>1, <3>2 DEF WaitInv, RestorePending, RecoveryInProgress
  <2>4. CASE RefreshRateCompleted
    <3>1. worker' = NoWorker /\ (state' = state \/ state' = "Verification")
      BY <2>4 DEF RefreshRateCompleted, CheckDelayed
    <3> QED BY <2>1, <3>1, <1>WaitKeeps DEF RestorePending
  <2>5. CASE RecoverySucceeded \/ RecoveryFailed \/ ValidationFailed
    <3>1. /\ Idle /\ tasks # <<>> /\ IsMutation(Front) /\ KindOf(Front) = "Recovery"
      BY <2>5 DEF RecoverySucceeded, RecoveryFailed, ValidationFailed, Completes, HasTask,
         IsMutation, KindOf
    <3>2. worker.kind = "Recovery"
      BY <3>1, MutationFront, SMTT(60)
    <3>3. RestorePending /\ lease.armed
      BY <3>2 DEF WaitInv, RestorePending, RecoveryInProgress
    <3>4. CASE RecoverySucceeded
      <4>1. state' = "RecoveryValidation" /\ UNCHANGED lease
        BY <3>4 DEF RecoverySucceeded
      <4> QED BY <2>1, <3>2, <3>3, <4>1, <1>WaitKeeps DEF RecoveryInProgress
    <3>5. CASE RecoveryFailed \/ ValidationFailed
      <4>1. worker' = NoWorker
        BY <3>5 DEF RecoveryFailed, ValidationFailed
      <4> QED BY <2>1, <3>3, <4>1, <1>WaitKeeps
    <3> QED BY <2>5, <3>4, <3>5
  <2>6. CASE ValidationSucceeded
    <3>1. worker' = NoWorker /\ state' = "Waiting"
      BY <2>6 DEF ValidationSucceeded
    <3> QED BY <2>1, <3>1, <1>WaitKeeps DEF RestorePending
  <2> QED BY <2>2, <2>3, <2>4, <2>5, <2>6 DEF MutationCompleted

<1>WaitChecks.
    ASSUME TypeOK, FenceInv, WaitInv, OwnerInv, VerificationCompleted
    PROVE  /\ RestorePending' => NoRepair(deferred')
           /\ worker'.kind = "Recovery" => RecoveryInProgress' /\ lease'.armed
  <2> USE <1>WaitChecks
  <2>1. lease \in LeaseType /\ UNCHANGED deferred /\ NoWorker.kind = "none"
    BY OthersKeepQueue DEF TypeOK, Complete, NoWorker
  <2>2. CASE VerificationIgnored
    <3>1. UNCHANGED <<worker, state, lease>>
      BY <2>2 DEF VerificationIgnored
    <3> QED BY <2>1, <3>1 DEF WaitInv, RestorePending, RecoveryInProgress
  <2>3. CASE ~VerificationIgnored
    <3>1. Completes("Verification") /\ Live(Front)
      BY <2>3 DEF VerificationCompleted, SettlementHolds, SettlementLost, SettlementRechecks,
         SettlementRepairs, BaselineVerified, InitialVerified, FailedUnderSettlement,
         BaselineRepairStarted, BaselineRepairFailed, InitialRetried, InitialFailed, Verified,
         FailedVerification
    <3>2. worker = NoWorker /\ state = "Verification" /\ Idle
      BY <3>1, CheckFront DEF Completes
    <3>3. CASE SettlementLost
      <4>1. /\ IsTransient(Front) /\ UNCHANGED lease
            /\ \/ lease.armed /\ state' = "Recovery"
               \/ state' = "Waiting" /\ UNCHANGED worker
        BY <3>3 DEF SettlementLost, Verified, IsTransient
      <4>2. Free
        BY <3>1, <3>2, <4>1, CheckFront DEF Free, WorkerActive
      <4>3. deferred = <<>>
        BY <3>2, <4>2 DEF OwnerInv, Idle
      <4>4. NoRepair(deferred')
        BY <2>1, <4>3, NothingWaits DEF NoRepair
      <4> QED BY <2>1, <3>2, <4>1, <4>4 DEF RecoveryInProgress
    <3>4. CASE ~SettlementLost
      <4>1. /\ worker' = worker \/ worker' = [kind |-> "Apply", gen |-> gen']
            /\ state' \in {state, SteadyState, "Waiting", "InProgress", "Verification"}
        BY <2>3, <3>4 DEF VerificationCompleted, SettlementHolds, SettlementRechecks,
           SettlementRepairs, BaselineVerified, InitialVerified, FailedUnderSettlement,
           BaselineRepairStarted, BaselineRepairFailed, InitialRetried, InitialFailed,
           FailedVerification, NextCheck, CheckWaits, CheckDelayed, CheckFinal, FinalCheck
      <4>2. worker'.kind # "Recovery"
        BY <2>1, <3>2, <4>1, SMTT(60)
      <4>3. ~RestorePending'
        BY <3>2, <4>1 DEF RestorePending, SteadyState
      <4> QED BY <2>1, <4>2, <4>3, <1>WaitKeeps
    <3> QED BY <3>3, <3>4
  <2> QED BY <2>2, <2>3

<1>WaitContinues.
    ASSUME TypeOK, FenceInv, WaitInv, Continue
    PROVE  /\ RestorePending' => NoRepair(deferred')
           /\ worker'.kind = "Recovery" => RecoveryInProgress' /\ lease'.armed
  <2> USE <1>WaitContinues
  <2>1. /\ lease \in LeaseType /\ UNCHANGED deferred /\ NoWorker.kind = "none"
    BY OthersKeepQueue DEF TypeOK, NoWorker
  <2>2. /\ state' \in {state, SteadyState, "Waiting", "InProgress", "Verification"}
        /\ \/ worker' = worker /\ (state' = state \/ Free \/ ~WorkerActive)
           \/ worker' = [kind |-> "Apply", gen |-> gen']
    <3>1. CASE FinishApply
      BY <3>1 DEF FinishApply, Finish, RolledBack, AfterReturn, AfterRollback, AfterSuperseded,
         DecideBaselineFailed, DecideVerify, DecideSettling, DecideFailed, AfterSettling,
         AfterLastRepair, AfterLastFailure, ConcludeHdr, ConcludeFailed, DispatchApply, SettlesNow,
         NextCheck, CheckWaits, CheckDelayed, CheckFinal, FinalCheck, FenceInv, FrameInv, At
    <3>2. CASE AfterReset \/ ResetExits \/ ResetResumes \/ AfterRestored \/ AfterRestoredFollowup
      BY <3>2 DEF AfterReset, ResetExits, ResetResumes, AfterRestored, AfterRestoredFollowup,
         ResumesSettlement, SettlesNow, NextCheck, CheckWaits, CheckDelayed, CheckFinal, FinalCheck
    <3> QED BY <3>1, <3>2 DEF Continue
  <2>3. \/ lease' = lease
        \/ \E h, k : \/ lease' = [lease EXCEPT !.heartbeat = h]
                     \/ lease' = [lease EXCEPT !.heartbeat = h, !.taskCreated = k]
                     \/ lease' = [lease EXCEPT !.taskCreated = k]
        \/ lease.armed => lease'.armed
    <3>1. CASE FinishApply
      <4>1. CASE Finish
        BY <4>1, FinishLease
      <4>2. CASE AfterLastRepair
        <5>1. lease' = [Activated(lease) EXCEPT !.unconfirmed = FALSE]
          BY <4>2 DEF AfterLastRepair
        <5> QED BY <2>1, <5>1 DEF LeaseType, Activated
      <4>3. CASE ~Finish /\ ~AfterLastRepair
        BY <3>1, <4>3 DEF FinishApply, RolledBack, AfterReturn, AfterRollback, AfterSuperseded,
           DecideBaselineFailed, DecideVerify, DecideSettling, DecideFailed, AfterSettling,
           AfterLastFailure, ConcludeHdr, ConcludeFailed
      <4> QED BY <4>1, <4>2, <4>3
    <3>2. CASE AfterReset \/ ResetExits \/ ResetResumes \/ AfterRestored \/ AfterRestoredFollowup
      BY <3>2 DEF AfterReset, ResetExits, ResetResumes, AfterRestored, AfterRestoredFollowup
    <3> QED BY <3>1, <3>2 DEF Continue
  <2>4. lease.armed => lease'.armed
    BY <2>1, <2>3 DEF LeaseType
  <2>5. RestorePending' => state' = state
    BY <2>2 DEF RestorePending, SteadyState
  <2>6. worker'.kind = "Recovery" => worker' = worker /\ state' = state
    BY <2>1, <2>2, SMTT(60) DEF Free, WorkerActive
  <2> QED BY <2>1, <2>4, <2>5, <2>6, <1>WaitKeeps DEF RestorePending, RecoveryInProgress, WaitInv

<1>WaitElsewhere.
    ASSUME TypeOK, FenceInv, WaitInv, Elsewhere
    PROVE  /\ RestorePending' => NoRepair(deferred')
           /\ worker'.kind = "Recovery" => RecoveryInProgress' /\ lease'.armed
  <2> USE <1>WaitElsewhere
  <2>1. /\ lease \in LeaseType /\ deferred \in Seq(IntentType) /\ session.epoch \in Epochs
        /\ NoWorker.kind = "none"
    BY DEF TypeOK, NoWorker, SessionType
  <2>2. CASE \/ ClientRevert \/ ClientSnapshot \/ ClientPark \/ RevertStale \/ IdentityUnchanged
             \/ EventKept \/ TickDiscards \/ TickExpires \/ Time \/ Worker \/ Connect \/ Retire
             \/ Stop \/ DisconnectReverts \/ DisconnectIdle
    <3>1. /\ UNCHANGED <<state, worker, deferred>>
          /\ \/ lease' = lease
             \/ \E h : lease' = [lease EXCEPT !.heartbeat = h] \/ lease' = [lease EXCEPT !.attempted = h]
      BY <2>2 DEF ClientRevert, ClientSnapshot, ClientPark, RevertStale, IdentityUnchanged,
         EventKept, TickDiscards, TickExpires, SnapshotTaken, Park, RecoveryEvent, Ticks,
         Time, WindowCloses, QuietEnds, GraceEnds, notTime, Worker, WorkerGuards, WorkerTouches,
         RecoveryEnters, RecoveryTouches, TimerFires, fsmVars, Connect, Retire, Stop,
         DisconnectReverts, DisconnectIdle, Disconnects
    <3>2. lease'.armed = lease.armed
      BY <2>1, <3>1 DEF LeaseType
    <3> QED BY <3>1, <3>2 DEF WaitInv, RestorePending, RecoveryInProgress
  <2>3. CASE DrainDropsStale \/ DrainDropsRepair
    <3>1. deferred' = Tail(deferred) /\ deferred # <<>> /\ UNCHANGED <<state, worker, lease>>
      BY <2>3 DEF DrainDropsStale, DrainDropsRepair, Draining
    <3>2. Waiting(deferred') \subseteq Waiting(deferred)
      BY <2>1, <3>1, TailWaiting
    <3> QED BY <3>1, <3>2 DEF WaitInv, NoRepair, RestorePending, RecoveryInProgress
  <2>4. CASE IdentityQueued
    <3>1. /\ state \in SessionStates /\ UNCHANGED <<state, worker, lease>>
      BY <2>4 DEF IdentityQueued, IdentityEvent
    <3>2. ~RestorePending'
      BY <3>1 DEF SessionStates, RestorePending
    <3> QED BY <3>1, <3>2 DEF WaitInv, RecoveryInProgress
  <2>5. CASE \/ ClientReactivate \/ ClientRefreshRate \/ BaselineReturned \/ IdentityReplaced
             \/ DisconnectSettles
    <3>1. /\ UNCHANGED deferred
          /\ state' \in {state, "InProgress", "Verification"}
          /\ \/ worker' = worker /\ (state' = state \/ Free)
             \/ worker' = [kind |-> "Apply", gen |-> gen']
             \/ worker' = [kind |-> "RefreshRate", gen |-> gen']
          /\ lease' = lease \/ lease' = [lease EXCEPT !.heartbeat = FALSE]
      BY <2>5 DEF ClientReactivate, ClientRefreshRate, BaselineReturned, IdentityReplaced,
         DisconnectSettles, ApplyReactivation, RefreshRateStarted, DispatchApply, ReapplyIdentity,
         CheckDelayed, Disconnects
    <3>2. lease'.armed = lease.armed
      BY <2>1, <3>1 DEF LeaseType
    <3>3. RestorePending' => state' = state
      BY <3>1 DEF RestorePending
    <3>4. worker'.kind = "Recovery" => worker' = worker /\ state' = state
      BY <2>1, <3>1, SMTT(60) DEF Free, WorkerActive
    <3> QED BY <3>1, <3>2, <3>3, <3>4, <1>WaitKeeps DEF RestorePending, RecoveryInProgress, WaitInv
  <2>6. CASE EventReopens \/ TickReconciles \/ TickRetries
    <3>1. /\ state = "EventLoop" /\ lease.armed /\ state' = "Recovery"
          /\ UNCHANGED <<lease, deferred>>
      BY <2>6 DEF EventReopens, TickReconciles, TickRetries, RecoveryEvent, Ticks,
         RestartRecovery, StartRecovery
    <3> QED BY <3>1 DEF WaitInv, RestorePending, RecoveryInProgress
  <2> QED BY <2>2, <2>3, <2>4, <2>5, <2>6 DEF Elsewhere, DisplayEvent, Tick, Connection

<1>UndirectedMail.
    ASSUME TypeInv, Undirected(mail), [Next]_vars
    PROVE  Undirected(mail')
  <2> USE <1>UndirectedMail
  <2>1. CoreOK /\ mail \in Seq(IntentType)
    BY DEF TypeInv, TypeOK, CoreOK
  <2>2. mail # <<>> => Tail(mail) \in Seq(IntentType) /\ Waiting(Tail(mail)) \subseteq Waiting(mail)
    BY <2>1, TaskPopped, TailWaiting
  <2>3. CASE UNCHANGED mail
    BY <2>3
  <2>4. CASE ClientRevert
    <3>1. PICK t \in Tickets : mail' = <<[Intent("Revert", link.epoch) EXCEPT !.ticket = t]>>
      BY <2>4 DEF ClientRevert
    <3> DEFINE c == [Intent("Revert", link.epoch) EXCEPT !.ticket = t]
    <3>2. ~c.disconnect
      BY DEF Intent
    <3>3. mail' = <<c>>
      BY <3>1
    <3> HIDE DEF c
    <3> QED BY <3>2, <3>3, SMTT(60) DEF Undirected, Waiting
  <2>5. CASE mail # <<>> /\ mail' = Tail(mail)
    BY <2>2, <2>5 DEF Undirected
  <2>6. CASE mail' = LiveMail
    BY <2>2, <2>6 DEF LiveMail, Undirected
  <2>7. CASE mail' = Append(LiveMail, [Intent("Revert", 0) EXCEPT !.disconnect = TRUE])
    <3> DEFINE c == [Intent("Revert", 0) EXCEPT !.disconnect = TRUE]
    <3>1. c \in IntentType
      <4>1. Intent("Revert", 0) \in IntentType
        BY Constants, ConstantsAssumption, SMTT(60) DEF Intent, IntentType, Intents, Epochs
      <4> QED BY <4>1 DEF IntentType
    <3>2. LiveMail \in Seq(IntentType) /\ Waiting(LiveMail) \subseteq Waiting(mail)
      BY <2>1, <2>2 DEF LiveMail
    <3>3. mail' = Append(LiveMail, c) /\ c.ticket = 0
      BY <2>7 DEF Intent
    <3> HIDE DEF c
    <3>4. Waiting(mail') = Waiting(LiveMail) \cup {c}
      BY <3>1, <3>2, <3>3, AppendWaiting
    <3> QED BY <3>2, <3>3, <3>4 DEF Undirected
  <2>8. CASE Client
    <3>1. ClientRevert \/ UNCHANGED mail
      BY <2>8 DEF Client, ClientApply, ClientReactivate, ClientDisarm, ClientReset,
         ClientRefreshRate, ClientSnapshot, ClientPark
    <3> QED BY <2>3, <2>4, <3>1
  <2>9. CASE Mailbox \/ Drain
    <3>1. (mail # <<>> /\ mail' = Tail(mail)) \/ UNCHANGED mail
      BY <2>9 DEF Mailbox, RevertDelivered, RevertStale, Drain, DrainDropsStale, DrainDropsRepair,
         DrainRuns
    <3> QED BY <2>3, <2>5, <3>1
  <2>10. CASE Complete \/ Continue \/ Worker \/ Tick \/ Time
    <3>1. Kept
      BY <2>1, <2>10, MutationTypes, VerificationTypes, ContinueTypes, WorkerTypes, TickTypes
         DEF Complete
    <3> QED BY <2>3, <3>1 DEF Kept
  <2>11. CASE DisplayEvent
    <3>1. \E e : Notified(e)
      BY <2>1, <2>11, EventTypes
    <3> QED BY <2>3, <3>1 DEF Notified
  <2>12. CASE Connection
    <3>1. \/ UNCHANGED mail \/ mail' = LiveMail
          \/ mail' = Append(LiveMail, [Intent("Revert", 0) EXCEPT !.disconnect = TRUE])
      BY <2>12 DEF Connection, Connect, Retire, Stop, DisconnectSettles, DisconnectReverts,
         DisconnectIdle
    <3> QED BY <2>3, <2>6, <2>7, <3>1
  <2>13. CASE UNCHANGED vars
    BY <2>3, <2>13 DEF vars
  <2> QED BY <2>8, <2>9, <2>10, <2>11, <2>12, <2>13 DEF Next

\* Where the commands that wait after a step come from.
<1>WaitMoves.
    ASSUME TypeOK, MailInv, EpochInv, WaitInv, OwnerInv, [Next]_vars
    PROVE  \/ Waiting(deferred') \subseteq Waiting(deferred)
           \/ /\ Idle
              /\ \E c : /\ Waiting(deferred') \subseteq Waiting(deferred) \cup {c}
                        /\ c \in Waiting(mail) \/ c \in Waiting(deferred) \/ ~c.disconnect
  <2> USE <1>WaitMoves
  <2>1. deferred \in Seq(IntentType)
    BY DEF TypeOK
  <2>2. CASE \E c, rest : Calls(c, rest)
    <3>1. PICK c, rest : Calls(c, rest)
      BY <2>2
    <3>2. c \in IntentType
      BY <3>1 DEF Calls
    <3> QED BY <2>1, <3>1, <3>2, CallMoves, EnqueueWaiting
  <2>3. CASE Elsewhere
    <3>1. CASE deferred' = Enqueue(deferred, Intent("Repair", session.epoch)) /\ Idle
      BY <2>1, <3>1, RepairIntent, EnqueueWaiting
    <3> QED BY <2>1, <2>3, <3>1, ElsewhereMoves, TailWaiting
  <2>4. CASE MutationCompleted \/ VerificationCompleted \/ Continue \/ UNCHANGED vars
    BY <2>4, OthersKeepQueue DEF Complete, vars
  <2> QED BY <2>2, <2>3, <2>4, StepCases

<1> SUFFICES ASSUME IInv, WaitInv, OwnerInv, [Next]_vars PROVE WaitInv'
  OBVIOUS
<1>1. TypeInv /\ TypeOK /\ MailInv /\ EpochInv /\ FenceInv /\ deferred \in Seq(IntentType)
  BY DEF IInv, TypeInv, TypeOK
<1>2. OneWaits(deferred')
  <2>1. \/ deferred' = deferred
        \/ deferred # <<>> /\ deferred' = Tail(deferred)
        \/ \E c \in IntentType : deferred' = Enqueue(deferred, c)
    BY <1>1, StepMoves DEF Moves
  <2> QED BY <1>1, <2>1, OneAfterTail, OneAfterEnqueue DEF WaitInv
<1>3. Undirected(mail')
  BY <1>1, <1>UndirectedMail DEF WaitInv
<1>4. Undirected(deferred')
  BY <1>1, <1>WaitMoves DEF WaitInv, Undirected
<1>5. frame'.at = "superseded" =>
        \A c \in Waiting(deferred') : c.cmd \in {"Apply", "Repair", "Reset"}
  <2> SUFFICES ASSUME frame'.at = "superseded"
               PROVE  \A c \in Waiting(deferred') : c.cmd \in {"Apply", "Repair", "Reset"}
    OBVIOUS
  <2>1. (UNCHANGED frame /\ ~Idle) \/ Finish
    BY <1>1, BusyMoves DEF Busy
  <2>2. CASE UNCHANGED frame /\ ~Idle
    BY <1>1, <2>2, <1>WaitMoves DEF WaitInv
  <2>3. CASE Finish
    <3>1. UNCHANGED deferred
      BY <2>3 DEF Finish
    <3>2. HasDeferredApply
      <4>1. frame \in FrameType
        BY <1>1 DEF TypeOK
      <4>2. \/ frame'.at # "superseded"
            \/ HasDeferredApply
        BY <2>3, <4>1 DEF Finish, FrameType
      <4> QED BY <4>2
    <3>3. PICK i \in DOMAIN deferred : deferred[i].cmd \in {"Apply", "Repair"}
      BY <3>2 DEF HasDeferredApply
    <3>4. deferred[i].cmd # "Reset"
      BY <3>3
    <3>5. \A j \in DOMAIN deferred : deferred[j].cmd = "Reset" \/ j = i
      BY <3>4 DEF WaitInv, OneWaits
    <3> QED BY <3>1, <3>3, <3>5 DEF Waiting
  <2> QED BY <2>1, <2>2, <2>3
<1>6. /\ RestorePending' => NoRepair(deferred')
      /\ worker'.kind = "Recovery" => RecoveryInProgress' /\ lease'.armed
  <2>1. CASE UNCHANGED vars
    BY <2>1 DEF WaitInv, RestorePending, RecoveryInProgress, vars
  <2> QED BY <1>1, <2>1, StepCases, <1>WaitCalls, <1>WaitMutations, <1>WaitChecks, <1>WaitContinues,
          <1>WaitElsewhere
<1> QED BY <1>2, <1>3, <1>4, <1>5, <1>6 DEF WaitInv

----------------------------------------------------------------------------
(* What the owner of a ticket is told *)

Held == ticket.ticket # 0
Decided == Held /\ ticket.status \in {"restored", "failed"}
RecoveryRuns == worker.kind = "Recovery" /\ worker.gen = gen

\* A ticket is a client's explicit intent, which no settlement survives; the
\* recovery that runs publishes to it; and a published result is about the
\* desktop as it is now: no handler is half done, nothing that could change the
\* desktop runs or waits.
TicketInv ==
  /\ Held => lease.explicit
  /\ settle.requested => ~lease.explicit
  /\ Held /\ RecoveryRuns => ticket.gen = gen
  /\ Held /\ ticket.status = "restored" =>
       /\ state = "Waiting" /\ worker.kind \in {"none", "RefreshRate"}
       /\ ~lease.armed /\ ~world.owed /\ NoRepair(deferred)
  /\ Held /\ ticket.status = "failed" => lease.armed /\ state = "EventLoop"
  /\ ticket.parked => Held /\ ticket.status = "failed"
  /\ Decided => frame.at \notin Busy

LEMMA DecidedQuiet ==
  ASSUME TypeOK, FenceInv, WaitInv, TicketInv, Decided
  PROVE  /\ state \in {"Waiting", "EventLoop"} /\ worker.kind \in {"none", "RefreshRate"}
         /\ ~settle.requested /\ lease.explicit /\ NoRepair(deferred) /\ frame.at \notin Busy
         /\ Running => ~reset.completion.held
<1>1. NoWorker.kind = "none"
  BY DEF NoWorker
<1>2. state \in {"Waiting", "EventLoop"}
  BY DEF TicketInv, Decided
<1>3. worker.kind \in {"none", "RefreshRate"}
  BY <1>1 DEF TicketInv, Decided, FenceInv, ControlInv, WorkerActive
<1>4. NoRepair(deferred)
  BY DEF TicketInv, Decided, WaitInv, RestorePending
<1> QED BY <1>2, <1>3, <1>4 DEF TicketInv, Decided, FenceInv, HeldInv

\* cancel_operations outdates the recovery that runs.
LEMMA RunsAge ==
  ASSUME TypeOK, FenceInv, UNCHANGED worker, gen' = gen \/ gen' = gen + 1, RecoveryRuns'
  PROVE  RecoveryRuns /\ gen' = gen
<1>1. worker # NoWorker
  BY SMTT(60) DEF RecoveryRuns, NoWorker
<1>2. worker.gen \in Nat /\ worker.gen <= gen /\ gen \in Nat
  BY <1>1, FenceAge DEF FenceInv, QueueInv, TypeOK
<1> QED BY <1>2, SMTT(60) DEF RecoveryRuns

LEMMA RevertTicketShape ==
  ASSUME TypeOK, NEW c \in IntentType
  PROVE  /\ RevertTicket(c) \in TicketType /\ RevertTicket(c).ticket = c.ticket
         /\ RevertTicket(c).epoch = c.epoch
         /\ ~RevertTicket(c).parked
         /\ c.ticket # 0 => RevertTicket(c).status = "active"
<1>1. ticket \in TicketType /\ gen \in Nat
  BY DEF TypeOK
<1>2. c.ticket \in Tickets \cup {0} /\ c.epoch \in Epochs
  BY DEF IntentType
<1>3. CASE c.ticket # 0 /\ ticket.ticket = c.ticket /\ ticket.epoch = c.epoch
  <2>1. RevertTicket(c) = [ticket EXCEPT !.gen = gen, !.status = "active", !.parked = FALSE]
    BY <1>3 DEF RevertTicket
  <2> QED BY <1>1, <1>3, <2>1 DEF TicketType
<1>4. CASE ~(c.ticket # 0 /\ ticket.ticket = c.ticket /\ ticket.epoch = c.epoch)
  <2>1. RevertTicket(c) =
          [ticket |-> c.ticket, gen |-> gen, epoch |-> c.epoch,
           status |-> IF c.ticket = 0 THEN "unknown" ELSE "active", parked |-> FALSE]
    BY <1>4 DEF RevertTicket
  <2>2. (IF c.ticket = 0 THEN "unknown" ELSE "active") \in {"unknown", "active", "failed", "restored"}
    OBVIOUS
  <2>3. RevertTicket(c) \in TicketType
    BY <1>1, <1>2, <2>1, <2>2, SMTT(60) DEF TicketType
  <2> QED BY <2>1, <2>3, SMTT(60)
<1> QED BY <1>3, <1>4

LEMMA StartedShape ==
  ASSUME NEW t \in TicketType, ~t.parked
  PROVE  /\ Started(t).ticket = t.ticket /\ ~Started(t).parked /\ Started(t).epoch = t.epoch
         /\ t.ticket # 0 => Started(t).status = "active" /\ Started(t).gen = gen'
BY DEF Started, TicketType

\* publish, at the end of the attempt that runs
LEMMA TicketPublished ==
  ASSUME TypeOK, FenceInv, TicketInv, Completes("Recovery") \/ Completes("Validation"),
         Live(Front), NEW st, ticket' = Published(ticket, st)
  PROVE  /\ worker.kind = "Recovery" /\ ticket'.ticket = ticket.ticket
         /\ Held => ticket'.status = st
         /\ ~ticket'.parked
<1>1. /\ Idle /\ tasks # <<>> /\ IsMutation(Front) /\ KindOf(Front) = "Recovery"
      /\ Front.gen = gen
  BY DEF Completes, HasTask, IsMutation, KindOf, Live
<1>2. worker.kind = "Recovery" /\ worker.gen = Front.gen
  BY <1>1, MutationFront, SMTT(60)
<1>3. WorkerActive /\ ticket \in TicketType
  BY <1>1, MutationFront DEF TypeOK
<1>4. Held => ticket.gen = Front.gen
  BY <1>1, <1>2 DEF TicketInv, RecoveryRuns
<1>5. ~ticket.parked
  BY <1>3 DEF TicketInv, FenceInv, ControlInv
<1> QED BY <1>2, <1>3, <1>4, <1>5 DEF Published, TicketType, Held

LEMMA ContinueForms ==
  ASSUME TypeOK, Continue
  PROVE  /\ lease'.explicit = lease.explicit
         /\ settle'.requested => settle.requested
         /\ worker' = worker \/ worker' = [kind |-> "Apply", gen |-> gen']
         /\ gen' = gen \/ gen' = gen + 1
         /\ UNCHANGED <<deferred, ticket>>
<1>1. lease \in LeaseType /\ settle \in SettleType /\ ~NoSettle.requested
  BY DEF TypeOK, NoSettle
<1>2. lease'.explicit = lease.explicit
  <2>1. CASE Finish
    BY <2>1, FinishLease
  <2>2. CASE AfterLastRepair
    <3>1. lease' = [Activated(lease) EXCEPT !.unconfirmed = FALSE]
      BY <2>2 DEF AfterLastRepair
    <3> QED BY <1>1, <3>1 DEF LeaseType, Activated
  <2>3. CASE ~Finish /\ ~AfterLastRepair
    <3>1. \/ lease' = lease
          \/ \E h, k : \/ lease' = [lease EXCEPT !.heartbeat = h]
                       \/ lease' = [lease EXCEPT !.heartbeat = h, !.taskCreated = k]
      BY <2>3 DEF Continue, FinishApply, RolledBack, AfterReturn, AfterRollback, AfterSuperseded,
         DecideBaselineFailed, DecideVerify, DecideSettling, DecideFailed, AfterSettling,
         AfterLastFailure, ConcludeHdr, ConcludeFailed, AfterReset, ResetExits, ResetResumes,
         AfterRestored, AfterRestoredFollowup
    <3> QED BY <1>1, <3>1 DEF LeaseType
  <2> QED BY <2>1, <2>2, <2>3
<1>3. settle'.requested => settle.requested
  <2>1. \/ settle.requested \/ settle' = settle \/ settle' = NoSettle
        \/ settle' = [settle EXCEPT !.repair = FALSE]
        \/ settle' = [settle EXCEPT !.deferredByReset = FALSE]
    BY DEF Continue, FinishApply, Finish, RolledBack, AfterReturn, AfterRollback, AfterSuperseded,
       DecideBaselineFailed, DecideVerify, DecideSettling, DecideFailed, AfterSettling,
       AfterLastRepair, AfterLastFailure, ConcludeHdr, ConcludeFailed, AfterReset, ResetExits,
       ResetResumes, AfterRestored, AfterRestoredFollowup, SettlesNow, ResumesSettlement, Resumed
  <2> QED BY <1>1, <2>1 DEF SettleType
<1>4. /\ worker' = worker \/ worker' = [kind |-> "Apply", gen |-> gen']
      /\ gen' = gen \/ gen' = gen + 1
      /\ UNCHANGED <<deferred, ticket>>
  BY DEF Continue, FinishApply, Finish, RolledBack, AfterReturn, AfterRollback, AfterSuperseded,
     DecideBaselineFailed, DecideVerify, DecideSettling, DecideFailed, AfterSettling,
     AfterLastRepair, AfterLastFailure, ConcludeHdr, ConcludeFailed, AfterReset, ResetExits,
     ResetResumes, AfterRestored, AfterRestoredFollowup, DispatchApply, PrepareCancel,
     DeferSettlement, Cancel
<1> QED BY <1>2, <1>3, <1>4

TicketIInv == DutyInv /\ WaitInv /\ TicketInv

LEMMA TicketInit == Init => TicketIInv
<1> SUFFICES ASSUME Init PROVE WaitInv /\ TicketInv
  BY DutyInit DEF TicketIInv
<1>1. /\ worker.kind = "none" /\ ticket.ticket = 0 /\ ~ticket.parked /\ ~settle.requested
      /\ frame.at = "idle" /\ deferred = <<>> /\ state = "Waiting"
  BY DEF Init, NoWorker, NoTicket, NoSettle, IdleFrame
<1>2. Waiting(deferred) = {}
  BY <1>1, NothingWaits
<1>3. OneWaits(deferred) /\ Undirected(deferred) /\ NoRepair(deferred)
  BY <1>1, <1>2, SMTT(60) DEF OneWaits, Undirected, NoRepair
<1>4. Undirected(mail)
  <2>1. ~Intent("Revert", 0).disconnect
    BY DEF Intent
  <2>2. mail = <<>> \/ mail = <<Intent("Revert", 0)>>
    BY DEF Init
  <2> QED BY <2>1, <2>2, SMTT(60) DEF Undirected, Waiting
<1> QED BY <1>1, <1>2, <1>3, <1>4 DEF WaitInv, TicketInv, Held, Decided

\* Every step keeps what the owner of the ticket may be told.
LEMMA TicketStep == TicketIInv /\ [Next]_vars => TicketIInv'

\* The ticket is left alone.
<1>TicketKeeps.
    ASSUME TypeOK, MailInv, EpochInv, FenceInv, WaitInv, TicketInv, [Next]_vars,
           UNCHANGED ticket, lease'.explicit = lease.explicit,
           settle'.requested => settle.requested \/ ~lease.explicit,
           Held /\ RecoveryRuns' => RecoveryRuns /\ gen' = gen,
           Decided => /\ state' = state /\ lease'.armed = lease.armed
                      /\ world'.owed = world.owed /\ worker'.kind \in {"none", "RefreshRate"}
                      /\ Waiting(deferred') \subseteq Waiting(deferred)
    PROVE  TicketInv'

  \* A handler is not begun while a result stands.
  <2>DecidedFrame.
      ASSUME TypeOK, MailInv, EpochInv, FenceInv, WaitInv, TicketInv, Decided, [Next]_vars
      PROVE  frame'.at \notin Busy
    <3> USE <2>DecidedFrame
    <3> SUFFICES ASSUME frame'.at \in Busy PROVE FALSE
      OBVIOUS
    <3>1. /\ worker.kind \in {"none", "RefreshRate"} /\ ~settle.requested /\ frame.at \notin Busy
          /\ Running => ~reset.completion.held
      BY DecidedQuiet
    <3>2. CASE ApplyCompleted
      <4>1. Idle /\ tasks # <<>> /\ IsMutation(Front) /\ KindOf(Front) = "Apply"
        BY <3>2 DEF ApplyCompleted, Completes, HasTask, IsMutation, KindOf
      <4>2. worker.kind = "Apply"
        BY <4>1, MutationFront, SMTT(60)
      <4> QED BY <3>1, <4>2
    <3>3. CASE AfterReset /\ reset.completion.held
      BY <3>1, <3>3 DEF AfterReset, After, DrainedOut
    <3>4. CASE Finish \/ AfterSuperseded \/ DecideFailed
      BY <3>1, <3>4 DEF Finish, AfterSuperseded, DecideFailed, At, After, Busy
    <3>5. CASE AfterLastFailure
      BY <3>1, <3>5 DEF AfterLastFailure, SettlesNow
    <3> QED BY <3>1, <3>2, <3>3, <3>4, <3>5, BusyMoves

  <2> USE <1>TicketKeeps
  <2>1. Decided' => Decided /\ frame'.at \notin Busy
    BY <2>DecidedFrame DEF Decided, Held
  <2>2. NoRepair(deferred) /\ Decided => NoRepair(deferred')
    BY DEF NoRepair
  <2> QED BY <2>1, <2>2 DEF TicketInv, Held, Decided

\* The ticket is given up, or names an attempt that has not ended.
<1>TicketOpens.
    ASSUME ~ticket'.parked, ticket'.ticket = 0 \/ ticket'.status \notin {"restored", "failed"},
           ticket'.ticket # 0 => lease'.explicit,
           settle'.requested => ~lease'.explicit,
           ticket'.ticket # 0 /\ RecoveryRuns' => ticket'.gen = gen'
    PROVE  TicketInv'
  BY <1>TicketOpens DEF TicketInv, Held, Decided

<1>TicketCalls.
    ASSUME IInv, WaitInv, OwnerInv, TicketInv, [Next]_vars, NEW c, NEW rest, Calls(c, rest)
    PROVE  TicketInv'

  <2>TicketCleared.
      ASSUME ticket' = NoTicket, settle'.requested => ~lease'.explicit
      PROVE  TicketInv'
    <3> USE <2>TicketCleared
    <3>1. NoTicket.ticket = 0 /\ ~NoTicket.parked
      BY DEF NoTicket
    <3> QED BY <3>1, <1>TicketOpens

  <2> USE <1>TicketCalls
  <2>1. /\ TypeOK /\ MailInv /\ EpochInv /\ FenceInv /\ lease \in LeaseType
        /\ settle \in SettleType /\ c \in IntentType /\ gen \in Nat /\ NoWorker.kind = "none"
    BY DEF IInv, TypeInv, TypeOK, Calls, NoWorker
  <2>2. ~NoSettle.requested
    BY DEF NoSettle
  <2>3. CASE \/ ApplyQueued(c) \/ ApplyStarted(c, rest) \/ ApplyRejected(c, rest)
             \/ DisarmQueued(c) \/ DisarmStarted(c, rest) \/ RevertDeclined(c, rest)
             \/ RevertNothing(c, rest)
    <3>1. ticket' = NoTicket /\ settle' = NoSettle
      BY <2>3 DEF ApplyQueued, ApplyStarted, ApplyRejected, ApplyBegins, DisarmQueued,
         DisarmStarted, RevertDeclined, RevertNothing, ClearRecoveryState
    <3> QED BY <2>2, <3>1, <2>TicketCleared
  <2>4. CASE DisarmDropped(c, rest) \/ ResetQueued(c) \/ ResetStarted(c, rest)
    <3>1. ticket' = NoTicket /\ UNCHANGED lease /\ (settle' = settle \/ settle' = SettleDeferred)
      BY <2>4 DEF DisarmDropped, ResetQueued, ResetStarted, DeferSettlement
    <3>2. settle'.requested => settle.requested
      BY <2>1, <3>1 DEF SettleDeferred, SettleType
    <3> QED BY <3>1, <3>2, <2>TicketCleared DEF TicketInv
  <2>5. ASSUME c.cmd = "Revert", c.disconnect
        PROVE  c.ticket = 0
    BY <2>1, <2>5, CallMoves DEF WaitInv, Undirected
  <2>6. /\ RevertTicket(c) \in TicketType /\ RevertTicket(c).ticket = c.ticket
        /\ ~RevertTicket(c).parked
        /\ c.ticket # 0 => RevertTicket(c).status = "active"
    BY <2>1, RevertTicketShape
  <2>7. CASE c.cmd = "Revert" /\ RevertJoined(c, rest)
    <3>1. c.disconnect /\ ticket' = RevertTicket(c) /\ UNCHANGED <<lease, settle>>
      BY <2>7 DEF RevertJoined
    <3>2. settle'.requested => ~lease'.explicit
      BY <3>1 DEF TicketInv
    <3>3. ticket'.ticket = 0 /\ ~ticket'.parked
      BY <2>5, <2>6, <2>7, <3>1
    <3> QED BY <3>2, <3>3, <1>TicketOpens
  <2>8. ASSUME c.cmd = "Revert", settle' = RevertSettle(c),
               lease'.explicit = (lease.explicit \/ ~c.disconnect)
        PROVE  /\ c.ticket # 0 => lease'.explicit
               /\ settle'.requested => ~lease'.explicit
    BY <2>2, <2>5, <2>8 DEF RevertSettle, TicketInv
  <2>9. CASE c.cmd = "Revert" /\ RevertQueued(c)
    <3>1. /\ ticket' = RevertTicket(c) /\ lease' = RevertLease(c) /\ settle' = RevertSettle(c)
          /\ UNCHANGED worker /\ (WorkerActive => gen' = gen + 1) /\ (gen' = gen + 1 \/ gen' = gen)
      BY <2>9 DEF RevertQueued, Cancel
    <3>2. lease'.explicit = (lease.explicit \/ ~c.disconnect)
      BY <2>1, <3>1 DEF RevertLease, LeaseType
    <3>3. ~RecoveryRuns'
      <4> SUFFICES ASSUME RecoveryRuns' PROVE FALSE
        OBVIOUS
      <4>1. RecoveryRuns /\ gen' = gen
        BY <2>1, <3>1, RunsAge
      <4>2. ~WorkerActive
        BY <2>1, <3>1, <4>1, SMTT(60)
      <4> QED BY <2>1, <4>1, <4>2 DEF WorkerActive, RecoveryRuns
    <3>4. ticket'.ticket = c.ticket /\ ~ticket'.parked
      BY <2>6, <3>1
    <3>5. ticket'.ticket = 0 \/ ticket'.status \notin {"restored", "failed"}
      BY <2>6, <3>1, SMTT(60)
    <3> QED BY <2>8, <2>9, <3>1, <3>2, <3>3, <3>4, <3>5, <1>TicketOpens
  <2>10. CASE c.cmd = "Revert" /\ RevertStarted(c, rest)
    <3>1. /\ ticket' = Started(RevertTicket(c)) /\ settle' = RevertSettle(c)
          /\ lease' = [RevertLease(c) EXCEPT !.armed = TRUE, !.changesPending = TRUE,
                                             !.heartbeat = FALSE]
      BY <2>10 DEF RevertStarted
    <3>2. lease'.explicit = (lease.explicit \/ ~c.disconnect)
      BY <2>1, <3>1 DEF RevertLease, LeaseType
    <3>3. /\ ticket'.ticket = c.ticket /\ ~ticket'.parked
          /\ c.ticket # 0 => ticket'.status = "active" /\ ticket'.gen = gen'
      <4>1. PICK t : t = RevertTicket(c)
        OBVIOUS
      <4>2. t \in TicketType /\ ~t.parked /\ t.ticket = c.ticket /\ ticket' = Started(t)
        BY <2>6, <3>1, <4>1
      <4> QED BY <4>2, StartedShape
    <3>4. ticket'.ticket = 0 \/ ticket'.status \notin {"restored", "failed"}
      BY <3>3, SMTT(60)
    <3> QED BY <2>8, <2>10, <3>1, <3>2, <3>3, <3>4, <1>TicketOpens
  <2>11. CASE c.cmd = "Repair" /\ RepairStarted(rest)
    <3>1. /\ UNCHANGED <<ticket, lease, settle>>
          /\ worker' = [kind |-> "Apply", gen |-> gen']
      BY <2>11 DEF RepairStarted, ReapplyIdentity, DispatchApply
    <3>2. c \in Waiting(deferred)
      BY <2>1, <2>11, TailWaiting DEF Calls, Source, Draining, TypeOK
    <3>3. ~Decided
      BY <2>1, <2>11, <3>2, DecidedQuiet DEF NoRepair
    <3>4. ~RecoveryRuns'
      BY <3>1 DEF RecoveryRuns
    <3> QED BY <2>1, <3>1, <3>3, <3>4, <1>TicketKeeps
  <2> QED BY <2>3, <2>4, <2>7, <2>9, <2>10, <2>11 DEF Calls, Runs, HandleApply, HandleRevert,
          HandleDisarm, HandleReset

<1>TicketMutations.
    ASSUME IInv, WaitInv, TicketInv, [Next]_vars, MutationCompleted
    PROVE  TicketInv'
  <2> USE <1>TicketMutations
  <2>1. /\ TypeOK /\ MailInv /\ EpochInv /\ FenceInv /\ lease \in LeaseType /\ world \in WorldType
        /\ settle \in SettleType /\ NoWorker.kind = "none" /\ UNCHANGED deferred
    BY OthersKeepQueue DEF IInv, TypeInv, TypeOK, NoWorker, Complete
  <2>2. worker' = NoWorker => ~RecoveryRuns'
    BY <2>1 DEF RecoveryRuns
  <2>3. \A p : DrainThen(p).at = p
    BY <2>1 DEF DrainThen, FrameType, TypeOK
  <2>4. CASE StaleApplyCompleted \/ ReactivationCompleted \/ ApplyCompleted
    <3>1. /\ Idle /\ tasks # <<>> /\ IsMutation(Front) /\ KindOf(Front) = "Apply"
          /\ UNCHANGED <<ticket, settle>> /\ worker' = NoWorker
      BY <2>4 DEF StaleApplyCompleted, ReactivationCompleted, ApplyCompleted, Completes, HasTask,
         IsMutation, KindOf
    <3>2. worker.kind = "Apply"
      BY <2>1, <3>1, MutationFront, SMTT(60)
    <3>3. ~Decided
      BY <2>1, <3>2, DecidedQuiet
    <3>4. lease'.explicit = lease.explicit
      <4>1. CASE StaleApplyCompleted
        <5>1. PICK d : d \in Outcomes(Front) /\
                LET staged == [lease EXCEPT !.staged = @ \/ d.staged,
                                            !.taskCreated = @ \/ d.armed]
                IN \E created : \/ lease' = [Activated(staged) EXCEPT !.taskCreated = @ \/ created,
                                               !.unconfirmed = TRUE, !.heartbeat = TRUE]
                                \/ \E k : lease' = [staged EXCEPT !.taskCreated = @ /\ k]
          BY <4>1 DEF StaleApplyCompleted
        <5> DEFINE staged == [lease EXCEPT !.staged = @ \/ d.staged, !.taskCreated = @ \/ d.armed]
        <5>2. /\ DOMAIN staged = DOMAIN lease /\ staged.explicit = lease.explicit
          BY <2>1 DEF LeaseType
        <5>3. \E created, k : \/ lease' = [Activated(staged) EXCEPT !.taskCreated = @ \/ created,
                                               !.unconfirmed = TRUE, !.heartbeat = TRUE]
                              \/ lease' = [staged EXCEPT !.taskCreated = @ /\ k]
          BY <5>1
        <5> HIDE DEF staged
        <5> QED BY <2>1, <5>2, <5>3 DEF Activated, LeaseType
      <4>2. CASE ReactivationCompleted \/ ApplyCompleted
        <5>1. lease' = lease \/ \E d : lease' = [lease EXCEPT !.staged = @ \/ d.staged]
          BY <4>2 DEF ReactivationCompleted, ApplyCompleted
        <5> QED BY <2>1, <5>1 DEF LeaseType
      <4> QED BY <2>4, <4>1, <4>2
    <3> QED BY <2>1, <2>2, <3>1, <3>3, <3>4, <1>TicketKeeps
  <2>5. CASE ResetCompleted
    <3>1. /\ UNCHANGED <<ticket, settle, worker, state, gen>>
          /\ \E ok : lease' = [lease EXCEPT !.staged = @ /\ ~ok]
          /\ world' = world \/ world' = [world EXCEPT !.running = FALSE]
      BY <2>5 DEF ResetCompleted
    <3>2. lease'.explicit = lease.explicit /\ lease'.armed = lease.armed
      BY <2>1, <3>1 DEF LeaseType
    <3>3. world'.owed = world.owed
      BY <2>1, <3>1 DEF WorldType
    <3>4. Decided => worker'.kind \in {"none", "RefreshRate"}
      BY <2>1, <3>1, DecidedQuiet
    <3>5. RecoveryRuns' => RecoveryRuns
      BY <3>1 DEF RecoveryRuns
    <3> QED BY <2>1, <3>1, <3>2, <3>3, <3>4, <3>5, <1>TicketKeeps
  <2>6. CASE RefreshRateCompleted
    <3>1. /\ UNCHANGED <<ticket, lease, world>> /\ worker' = NoWorker
          /\ \/ settle.requested
             \/ UNCHANGED <<settle, state>>
      BY <2>6 DEF RefreshRateCompleted
    <3>2. Decided => state' = state
      BY <2>1, <3>1, DecidedQuiet
    <3> QED BY <2>1, <2>2, <3>1, <3>2, <1>TicketKeeps
  <2>7. CASE RecoveryCancelled \/ ValidationCancelled \/ RecoverySucceeded
    <3>1. /\ Idle /\ tasks # <<>> /\ IsMutation(Front) /\ KindOf(Front) = "Recovery"
          /\ UNCHANGED <<ticket, settle, gen>>
          /\ worker' = NoWorker \/ Front.gen = gen
      BY <2>7 DEF RecoveryCancelled, ValidationCancelled, RecoverySucceeded, Completes, HasTask,
         IsMutation, KindOf, Live
    <3>2. worker.kind = "Recovery" /\ worker.gen = Front.gen
      BY <2>1, <3>1, MutationFront, SMTT(60)
    <3>3. ~Decided
      BY <2>1, <3>2, DecidedQuiet
    <3>4. \/ lease' = lease \/ lease' = Retained(lease)
          \/ lease' = [lease EXCEPT !.attempted = FALSE]
      BY <2>7 DEF RecoveryCancelled, ValidationCancelled, RecoverySucceeded
    <3>5. lease'.explicit = lease.explicit
      BY <2>1, <3>4 DEF Retained, LeaseType
    <3> QED BY <2>1, <2>2, <3>1, <3>2, <3>3, <3>5, <1>TicketKeeps DEF RecoveryRuns
  <2>8. CASE RecoveryFailed \/ ValidationFailed
    <3>1. /\ Completes("Recovery") \/ Completes("Validation")
          /\ Live(Front) /\ state' = "EventLoop" /\ worker' = NoWorker /\ UNCHANGED <<lease, settle>>
          /\ frame' = DrainThen("return")
          /\ \E st \in {"failed", "unknown"} : ticket' = Published(ticket, st)
      BY <2>8 DEF RecoveryFailed, ValidationFailed
    <3>2. PICK st \in {"failed", "unknown"} : ticket' = Published(ticket, st)
      BY <3>1
    <3>3. /\ worker.kind = "Recovery" /\ ticket'.ticket = ticket.ticket
          /\ Held => ticket'.status = st
          /\ ~ticket'.parked
      BY <2>1, <3>1, <3>2, TicketPublished
    <3>4. lease.armed
      BY <3>3 DEF WaitInv
    <3>5. frame'.at \notin Busy
      BY <2>3, <3>1, SMTT(60) DEF Busy
    <3> QED BY <2>2, <3>1, <3>2, <3>3, <3>4, <3>5 DEF TicketInv, Held, Decided
  <2>9. CASE ValidationSucceeded
    <3>1. /\ Completes("Validation") /\ Live(Front) /\ state' = "Waiting" /\ worker' = NoWorker
          /\ UNCHANGED settle /\ ticket' = Published(ticket, "restored")
          /\ ~lease'.armed /\ lease'.explicit = lease.explicit
          /\ world' = [world EXCEPT !.task = FALSE, !.owed = FALSE]
          /\ frame' = DrainThen("restored") \/ frame' = DrainThen("restoredFollowup")
      BY <2>9 DEF ValidationSucceeded
    <3>2. /\ worker.kind = "Recovery" /\ ticket'.ticket = ticket.ticket
          /\ Held => ticket'.status = "restored"
          /\ ~ticket'.parked
      BY <2>1, <3>1, TicketPublished
    <3>3. NoRepair(deferred')
      BY <2>1, <3>2 DEF WaitInv, RestorePending, RecoveryInProgress
    <3>4. frame'.at \notin Busy
      BY <2>3, <3>1, SMTT(60) DEF Busy
    <3>5. ~world'.owed
      BY <2>1, <3>1 DEF WorldType
    <3> QED BY <2>1, <2>2, <3>1, <3>2, <3>3, <3>4, <3>5 DEF TicketInv, Held, Decided
  <2> QED BY <2>4, <2>5, <2>6, <2>7, <2>8, <2>9 DEF MutationCompleted

<1>TicketChecks.
    ASSUME IInv, WaitInv, TicketInv, [Next]_vars, VerificationCompleted
    PROVE  TicketInv'
  <2> USE <1>TicketChecks
  <2>1. /\ TypeOK /\ MailInv /\ EpochInv /\ FenceInv /\ lease \in LeaseType
        /\ settle \in SettleType /\ NoWorker.kind = "none" /\ ~NoSettle.requested
        /\ UNCHANGED ticket
    BY DEF IInv, TypeInv, TypeOK, NoWorker, NoSettle, VerificationCompleted, VerificationIgnored,
       SettlementHolds, SettlementLost, SettlementRechecks, SettlementRepairs, BaselineVerified,
       InitialVerified, FailedUnderSettlement, BaselineRepairStarted, BaselineRepairFailed,
       InitialRetried, InitialFailed, Verified, FailedVerification
  <2>2. CASE VerificationIgnored
    <3>1. UNCHANGED <<state, gen, worker, deferred, lease, settle, ticket, frame, world>>
      BY <2>2 DEF VerificationIgnored
    <3> QED BY <3>1 DEF TicketInv, Held, Decided, RecoveryRuns, NoRepair
  <2>3. CASE ~VerificationIgnored
    <3>1. Completes("Verification") /\ Live(Front)
      BY <2>3 DEF VerificationCompleted, SettlementHolds, SettlementLost, SettlementRechecks,
         SettlementRepairs, BaselineVerified, InitialVerified, FailedUnderSettlement,
         BaselineRepairStarted, BaselineRepairFailed, InitialRetried, InitialFailed, Verified,
         FailedVerification
    <3>2. worker = NoWorker /\ state = "Verification"
      BY <2>1, <3>1, CheckFront
    <3>3. ~Decided
      BY <2>1, <3>2, DecidedQuiet
    <3>4. lease'.explicit = lease.explicit
      <4>1. \/ lease' = lease \/ lease' = [Activated(lease) EXCEPT !.unconfirmed = FALSE]
            \/ \E h : lease' = [Activated(lease) EXCEPT !.unconfirmed = FALSE, !.heartbeat = h]
        BY <2>3 DEF VerificationCompleted, SettlementHolds, SettlementLost, SettlementRechecks,
           SettlementRepairs, BaselineVerified, InitialVerified, FailedUnderSettlement,
           BaselineRepairStarted, BaselineRepairFailed, InitialRetried, InitialFailed
      <4> QED BY <2>1, <4>1 DEF Activated, LeaseType
    <3>5. settle'.requested => settle.requested
      <4>1. IsTransient(Front) \/ settle.requested \/ settle' = settle \/ settle' = NoSettle
        BY <2>3 DEF VerificationCompleted, SettlementHolds, SettlementLost, SettlementRechecks,
           SettlementRepairs, BaselineVerified, InitialVerified, FailedUnderSettlement,
           BaselineRepairStarted, BaselineRepairFailed, InitialRetried, InitialFailed, Verified,
           FailedVerification, IsTransient
      <4> QED BY <2>1, <3>1, <4>1, CheckFront
    <3>6. Held => ~RecoveryRuns'
      <4>1. CASE SettlementLost
        <5>1. IsTransient(Front)
          BY <4>1 DEF SettlementLost, Verified, IsTransient
        <5> QED BY <2>1, <3>1, <5>1, CheckFront DEF TicketInv
      <4>2. CASE ~SettlementLost
        <5>1. worker' = worker \/ worker' = [kind |-> "Apply", gen |-> gen']
          BY <2>3, <4>2 DEF VerificationCompleted, SettlementHolds, SettlementRechecks,
             SettlementRepairs, BaselineVerified, InitialVerified, FailedUnderSettlement,
             BaselineRepairStarted, BaselineRepairFailed, InitialRetried, InitialFailed,
             FailedVerification
        <5>2. worker'.kind # "Recovery"
          BY <2>1, <3>2, <5>1, SMTT(60)
        <5> QED BY <5>2 DEF RecoveryRuns
      <4> QED BY <4>1, <4>2
    <3> QED BY <2>1, <3>3, <3>4, <3>5, <3>6, <1>TicketKeeps
  <2> QED BY <2>2, <2>3

<1>TicketContinues.
    ASSUME IInv, WaitInv, TicketInv, [Next]_vars, Continue
    PROVE  TicketInv'
  <2> USE <1>TicketContinues
  <2>1. /\ TypeOK /\ MailInv /\ EpochInv /\ FenceInv /\ world \in WorldType
    BY DEF IInv, TypeInv, TypeOK
  <2>2. /\ lease'.explicit = lease.explicit
        /\ settle'.requested => settle.requested
        /\ worker' = worker \/ worker' = [kind |-> "Apply", gen |-> gen']
        /\ gen' = gen \/ gen' = gen + 1
        /\ UNCHANGED <<deferred, ticket>>
    BY <2>1, ContinueForms
  <2>3. RecoveryRuns' => RecoveryRuns /\ gen' = gen
    <3>1. CASE worker' = worker
      BY <2>1, <2>2, <3>1, RunsAge
    <3>2. CASE worker' = [kind |-> "Apply", gen |-> gen']
      BY <3>2 DEF RecoveryRuns
    <3> QED BY <2>2, <3>1, <3>2
  <2>4. ASSUME Decided
        PROVE  /\ state' = state /\ lease' = lease /\ worker' = worker
               /\ world' = world \/ world' = [world EXCEPT !.running = FALSE]
    <3>1. ~settle.requested /\ frame.at \notin {"finish", "rolledBack", "superseded", "decide", "conclude"}
      BY <2>1, <2>4, DecidedQuiet DEF Busy
    <3>2. ~SettlesNow
      BY <3>1 DEF SettlesNow
    <3> QED BY <3>1, <3>2 DEF Continue, FinishApply, Finish, RolledBack, AfterReturn, AfterRollback,
            AfterSuperseded, DecideBaselineFailed, DecideVerify, DecideSettling, DecideFailed,
            AfterSettling, AfterLastRepair, AfterLastFailure, ConcludeHdr, ConcludeFailed,
            AfterReset, ResetExits, ResetResumes, AfterRestored, AfterRestoredFollowup,
            ResumesSettlement, At, After, DrainedOut, ExitProcess
  <2>5. Decided => world'.owed = world.owed
    BY <2>1, <2>4 DEF WorldType
  <2>6. Decided => worker'.kind \in {"none", "RefreshRate"}
    BY <2>1, <2>4, DecidedQuiet
  <2> QED BY <2>1, <2>2, <2>3, <2>4, <2>5, <2>6, <1>TicketKeeps

<1>TicketElsewhere.
    ASSUME IInv, WaitInv, TicketInv, [Next]_vars, Elsewhere
    PROVE  TicketInv'
  <2> USE <1>TicketElsewhere
  <2>1. /\ TypeOK /\ MailInv /\ EpochInv /\ FenceInv /\ lease \in LeaseType /\ world \in WorldType
        /\ ticket \in TicketType /\ deferred \in Seq(IntentType) /\ settle \in SettleType
        /\ NoWorker.kind = "none"
    BY DEF IInv, TypeInv, TypeOK, NoWorker
  <2>2. CASE ClientPark
    <3>1. /\ Held /\ ticket.status = "failed" /\ ticket' = [ticket EXCEPT !.parked = TRUE]
          /\ UNCHANGED <<state, gen, worker, deferred, lease, settle, frame, world>>
      BY <2>2 DEF ClientPark, Park, Held
    <3>2. /\ ticket'.ticket = ticket.ticket /\ ticket'.status = ticket.status
          /\ ticket'.gen = ticket.gen
      BY <2>1, <3>1 DEF TicketType
    <3> QED BY <3>1, <3>2 DEF TicketInv, Held, Decided, RecoveryRuns, NoRepair
  <2>3. CASE EventReopens \/ TickReconciles \/ TickRetries
    <3>1. /\ ~ticket.parked /\ ticket' = Started(ticket) /\ UNCHANGED <<lease, settle>>
      BY <2>3 DEF EventReopens, TickReconciles, TickRetries, RecoveryEvent, Notified, Ticks,
         RestartRecovery
    <3>2. /\ ticket'.ticket = ticket.ticket /\ ~ticket'.parked
          /\ ticket.ticket # 0 => ticket'.status = "active" /\ ticket'.gen = gen'
      BY <2>1, <3>1, StartedShape
    <3>3. ticket'.ticket = 0 \/ ticket'.status \notin {"restored", "failed"}
      BY <3>2, SMTT(60)
    <3>4. /\ ticket'.ticket # 0 => lease'.explicit
          /\ settle'.requested => ~lease'.explicit
      BY <3>1, <3>2 DEF TicketInv, Held
    <3> QED BY <3>2, <3>3, <3>4, <1>TicketOpens
  <2>4. CASE DisconnectSettles
    <3>1. /\ ~lease.explicit /\ UNCHANGED ticket /\ lease' = [lease EXCEPT !.heartbeat = FALSE]
      BY <2>4 DEF DisconnectSettles, Disconnects, Settles
    <3>2. ~Held
      BY <3>1 DEF TicketInv
    <3>3. lease'.explicit = lease.explicit
      BY <2>1, <3>1 DEF LeaseType
    <3> QED BY <2>1, <3>1, <3>2, <3>3, <1>TicketKeeps DEF Decided
  <2>5. CASE \/ ClientReactivate \/ BaselineReturned \/ IdentityReplaced \/ IdentityQueued
             \/ IdentityUnchanged
    <3>1. /\ state \in SessionStates /\ UNCHANGED <<ticket, lease, settle>>
          /\ gen' = gen \/ gen' = gen + 1
          /\ worker' = worker \/ worker' = [kind |-> "Apply", gen |-> gen']
      BY <2>5 DEF ClientReactivate, BaselineReturned, IdentityReplaced, IdentityQueued,
         IdentityUnchanged, ApplyReactivation, ReapplyIdentity, DispatchApply, IdentityEvent,
         SessionStates, Cancel
    <3>2. ~Decided
      BY <2>1, <3>1, DecidedQuiet DEF SessionStates
    <3>3. RecoveryRuns' => RecoveryRuns /\ gen' = gen
      <4>1. CASE worker' = worker
        BY <2>1, <3>1, <4>1, RunsAge
      <4>2. CASE worker' = [kind |-> "Apply", gen |-> gen']
        BY <4>2 DEF RecoveryRuns
      <4> QED BY <3>1, <4>1, <4>2
    <3> QED BY <2>1, <3>1, <3>2, <3>3, <1>TicketKeeps
  <2>6. CASE ClientRefreshRate
    <3>1. /\ UNCHANGED <<state, gen, deferred, lease, settle, ticket, world>>
          /\ worker' = [kind |-> "RefreshRate", gen |-> gen']
      BY <2>6 DEF ClientRefreshRate, RefreshRateStarted
    <3>2. worker'.kind = "RefreshRate" /\ ~RecoveryRuns'
      BY <3>1 DEF RecoveryRuns
    <3> QED BY <2>1, <3>1, <3>2, <1>TicketKeeps
  <2>7. CASE WorkerGuards \/ WorkerTouches \/ RecoveryEnters \/ RecoveryTouches
    <3>1. /\ UNCHANGED <<state, gen, worker, deferred, settle, ticket>>
          /\ tasks # <<>> /\ Front.op \in {"Apply", "Recovery"}
          /\ lease' = lease \/ lease' = [lease EXCEPT !.attempted = TRUE]
      BY <2>7 DEF WorkerGuards, WorkerTouches, RecoveryEnters, RecoveryTouches, fsmVars, HasTask
    <3>2. worker.kind \in {"Apply", "Recovery"}
      <4>1. /\ tasks \in Seq(TaskType)
            /\ \A i \in DOMAIN tasks : IsMutation(tasks[i]) => worker.kind = KindOf(tasks[i])
        BY <2>1, SMTT(60) DEF TypeOK, FenceInv, QueueInv, QueueOK
      <4>2. IsMutation(Front) => worker.kind = KindOf(Front)
        BY <3>1, <4>1, SMTT(60) DEF Front
      <4> QED BY <3>1, <4>2 DEF IsMutation, KindOf
    <3>3. ~Decided
      BY <2>1, <3>2, DecidedQuiet
    <3>4. lease'.explicit = lease.explicit
      BY <2>1, <3>1 DEF LeaseType
    <3> QED BY <2>1, <3>1, <3>3, <3>4, <1>TicketKeeps DEF RecoveryRuns
  <2>8. CASE DrainDropsStale \/ DrainDropsRepair
    <3>1. deferred' = Tail(deferred) /\ deferred # <<>>
          /\ UNCHANGED <<state, gen, worker, lease, settle, ticket, world>>
      BY <2>8 DEF DrainDropsStale, DrainDropsRepair, Draining
    <3>2. Waiting(deferred') \subseteq Waiting(deferred)
      BY <2>1, <3>1, TailWaiting
    <3> QED BY <2>1, <3>1, <3>2, DecidedQuiet, <1>TicketKeeps DEF RecoveryRuns
  <2>9. CASE \/ ClientRevert \/ ClientSnapshot \/ RevertStale \/ EventKept \/ TickDiscards
             \/ TickExpires \/ Time \/ TimerFires \/ Connect \/ Retire \/ Stop
             \/ DisconnectReverts \/ DisconnectIdle
    <3>1. /\ UNCHANGED <<state, worker, deferred, settle, ticket>>
          /\ gen' = gen \/ gen' = gen + 1
          /\ lease' = lease \/ (\E h : lease' = [lease EXCEPT !.heartbeat = h])
          /\ \/ world' = world \/ world' = [world EXCEPT !.tiers = TRUE]
             \/ world' = [world EXCEPT !.running = FALSE]
      BY <2>9 DEF ClientRevert, ClientSnapshot, RevertStale, EventKept, TickDiscards, TickExpires,
         SnapshotTaken, RecoveryEvent, Notified, Ticks, Time, WindowCloses, QuietEnds, GraceEnds,
         notTime, TimerFires, Connect, Retire, Stop, Cancel, DisconnectReverts, DisconnectIdle,
         Disconnects
    <3>2. lease'.armed = lease.armed /\ lease'.explicit = lease.explicit
      BY <2>1, <3>1 DEF LeaseType
    <3>3. world'.owed = world.owed
      BY <2>1, <3>1 DEF WorldType
    <3>4. RecoveryRuns' => RecoveryRuns /\ gen' = gen
      BY <2>1, <3>1, RunsAge
    <3>5. Decided => worker'.kind \in {"none", "RefreshRate"}
      BY <2>1, <3>1, DecidedQuiet
    <3> QED BY <2>1, <3>1, <3>2, <3>3, <3>4, <3>5, <1>TicketKeeps
  <2> QED BY <2>2, <2>3, <2>4, <2>5, <2>6, <2>7, <2>8, <2>9
          DEF Elsewhere, DisplayEvent, Tick, Connection, Worker

<1> SUFFICES ASSUME TicketIInv, [Next]_vars PROVE TicketIInv'
  OBVIOUS
<1>1. /\ IInv /\ OwnerInv /\ WaitInv /\ TicketInv /\ TypeOK /\ MailInv /\ EpochInv
  BY DEF TicketIInv, DutyInv, IInv, TypeInv
<1>2. DutyInv' /\ WaitInv'
  BY <1>1, DutyStep, WaitStep DEF TicketIInv
<1>3. CASE UNCHANGED vars
  <2>1. UNCHANGED <<state, gen, worker, deferred, lease, settle, ticket, frame, world>>
    BY <1>3 DEF vars
  <2>2. TicketInv'
    BY <1>1, <2>1 DEF TicketInv, Held, Decided, RecoveryRuns, NoRepair
  <2> QED BY <1>2, <2>2 DEF TicketIInv
<1>4. CASE ~UNCHANGED vars
  <2>1. TicketInv'
    BY <1>1, <1>4, StepCases, <1>TicketCalls, <1>TicketMutations, <1>TicketChecks, <1>TicketContinues,
       <1>TicketElsewhere
  <2> QED BY <1>2, <2>1 DEF TicketIInv
<1> QED BY <1>3, <1>4

\* What the helper tells the owner of a restore ticket is true: it says
\* "restored" only when nothing is left to restore, "failed" only while the
\* recovery still stands by with its lease armed, and a parked ticket does not
\* outlive the recovery that was parked.
THEOREM TicketTruthfulHolds == Spec => []TicketTruthful
<1>1. TicketIInv => TicketTruthful
  BY DEF TicketIInv, DutyInv, IInv, TicketInv, Held, TicketTruthful, FenceInv, ControlInv
<1> QED BY <1>1, TicketInit, TicketStep, PTL DEF Spec

----------------------------------------------------------------------------
(* The retry schedule of a ticket *)

\* The ticket's REVERT waits for the fence.
Requested == \E c \in Waiting(deferred) : c.cmd = "Revert" /\ c.epoch = link.epoch

\* A ticket of the live connection whose recovery is not over, and that is not
\* parked, has its retries armed, or its REVERT is still to run.
RetryInv ==
  /\ ticket.epoch <= link.epoch
  /\ Held /\ ticket.epoch = link.epoch =>
       \/ ticket.parked \/ ticket.status = "restored" \/ retry.armed
       \/ ticket.status = "active" /\ ~RecoveryRuns /\ Requested

\* Every step keeps the retry of a failed restore.
LEMMA RetryStep == TicketIInv /\ RetryInv /\ [Next]_vars => RetryInv'

<1>TailKeeps.
    ASSUME NEW q \in Seq(IntentType), q # <<>>, NEW d \in Waiting(q), d # Head(q)
    PROVE  d \in Waiting(Tail(q))
  <2> USE <1>TailKeeps
  <2>1. /\ DOMAIN q = 1..Len(q) /\ Len(q) \in Nat /\ Len(q) >= 1 /\ Head(q) = q[1]
        /\ DOMAIN Tail(q) = 1..(Len(q) - 1)
        /\ \A i \in DOMAIN Tail(q) : Tail(q)[i] = q[i + 1]
    BY HeadTailProperties, LenProperties, EmptySeq, SMTT(60)
  <2>2. PICK i \in DOMAIN q : d = q[i]
    BY DEF Waiting
  <2>3. i # 1
    BY <2>1, <2>2
  <2>4. i - 1 \in DOMAIN Tail(q) /\ Tail(q)[i - 1] = d
    BY <2>1, <2>2, <2>3, SMTT(60)
  <2> QED BY <2>4 DEF Waiting

\* The newest command waits, and an identity repair displaces no other.
<1>EnqueueKeeps.
    ASSUME NEW q \in Seq(IntentType), NEW c \in IntentType, OneWaits(q)
    PROVE  /\ c.cmd # "Repair" => c \in Waiting(Enqueue(q, c))
           /\ \A d \in Waiting(q) :
                c.cmd = "Repair" /\ d.cmd = "Revert" => d \in Waiting(Enqueue(q, c))
  <2> USE <1>EnqueueKeeps
  <2> DEFINE waiting == {i \in DOMAIN q : q[i].cmd # "Reset"}
             older == CHOOSE i \in waiting : TRUE
             r == Erase(q, older)
  <2>1. ASSUME c.cmd = "Reset" \/ waiting = {}
        PROVE  Waiting(Enqueue(q, c)) = Waiting(q) \cup {c}
    BY <2>1, AppendWaiting DEF Enqueue
  <2>2. CASE waiting # {}
    <3>1. older \in DOMAIN q /\ q[older].cmd # "Reset"
      BY <2>2
    <3>2. r \in Seq(IntentType)
      BY <3>1, SMTT(60) DEF Erase
    <3>3. c \in Waiting(Append(r, c))
      BY <3>2, AppendWaiting
    <3>4. ASSUME c.cmd # "Reset", c.cmd # "Repair"
          PROVE  Enqueue(q, c) = Append(r, c)
      BY <2>2, <3>4 DEF Enqueue
    <3>5. ASSUME NEW d \in Waiting(q), c.cmd = "Repair", d.cmd = "Revert"
          PROVE  Enqueue(q, c) = q
      <4>1. PICK j \in DOMAIN q : d = q[j]
        BY DEF Waiting
      <4>2. j = older
        BY <3>1, <3>5, <4>1 DEF OneWaits
      <4>3. q[older].cmd # "Repair" /\ c.cmd # "Reset"
        BY <3>5, <4>1, <4>2, SMTT(60)
      <4> HIDE DEF older
      <4> QED BY <2>2, <3>5, <4>3 DEF Enqueue, older
    <3> HIDE DEF r, older
    <3> QED BY <2>1, <3>3, <3>4, <3>5
  <2>3. CASE waiting = {}
    BY <2>1, <2>3
  <2> QED BY <2>2, <2>3

<1>RetryKeeps.
    ASSUME RetryInv, UNCHANGED ticket, link'.epoch = link.epoch, retry'.armed = retry.armed,
           Held /\ RecoveryRuns' => RecoveryRuns,
           \A d \in Waiting(deferred) :
             d.cmd = "Revert" /\ d.epoch = link.epoch => d \in Waiting(deferred')
    PROVE  RetryInv'
  <2> USE <1>RetryKeeps
  <2>1. Requested => Requested'
    BY DEF Requested
  <2> QED BY <2>1 DEF RetryInv, Held

<1>RetryCalls.
    ASSUME IInv, WaitInv, OwnerInv, TicketInv, RetryInv, [Next]_vars,
           NEW c, NEW rest, Calls(c, rest)
    PROVE  RetryInv'
  <2> USE <1>RetryCalls
  <2>1. /\ TypeOK /\ FenceInv /\ c \in IntentType /\ gen \in Nat /\ NoWorker.kind = "none"
        /\ deferred \in Seq(IntentType) /\ link \in LinkType /\ retry \in RetryType
        /\ ticket \in TicketType
    BY DEF IInv, TypeInv, TypeOK, Calls, NoWorker
  <2>2. link'.epoch = link.epoch
    <3>1. link' = link \/ link' = [link EXCEPT !.origin = 0]
      BY DEF Calls, Runs, HandleApply, HandleRevert, HandleDisarm, HandleReset, ApplyQueued,
         ApplyStarted, ApplyRejected, ApplyBegins, DisarmQueued, DisarmStarted, DisarmDropped,
         ResetQueued, ResetStarted, RevertDeclined, RevertNothing, RevertJoined, RevertQueued,
         RevertStarted, RepairStarted, ExitProcess
    <3> QED BY <2>1, <3>1 DEF LinkType
  <2>3. link.epoch \in Nat /\ link.epoch >= 0 /\ (c.epoch = 0 \/ c.epoch = link.epoch)
    BY <2>1, Constants, SMTT(60) DEF LinkType, Epochs, Calls, StaleEpoch
  <2>4. c.epoch <= link.epoch
    BY <2>3, SMTT(60)
  <2>5. ASSUME ticket'.epoch = 0 \/ ticket'.epoch = c.epoch, ticket'.ticket = 0 \/ retry'.armed
        PROVE  RetryInv'
    BY <2>2, <2>3, <2>4, <2>5 DEF RetryInv, Held
  <2>6. /\ RevertTicket(c) \in TicketType /\ RevertTicket(c).ticket = c.ticket
        /\ RevertTicket(c).epoch = c.epoch /\ ~RevertTicket(c).parked
        /\ c.ticket # 0 => RevertTicket(c).status = "active"
    BY <2>1, RevertTicketShape
  <2>7. CASE \/ ApplyQueued(c) \/ ApplyStarted(c, rest) \/ ApplyRejected(c, rest)
             \/ DisarmQueued(c) \/ DisarmStarted(c, rest) \/ DisarmDropped(c, rest)
             \/ RevertDeclined(c, rest) \/ RevertNothing(c, rest)
             \/ ResetQueued(c) \/ ResetStarted(c, rest)
    <3>1. ticket' = NoTicket
      BY <2>7 DEF ApplyQueued, ApplyStarted, ApplyRejected, ApplyBegins, DisarmQueued,
         DisarmStarted, DisarmDropped, RevertDeclined, RevertNothing, ClearRecoveryState,
         ResetQueued, ResetStarted
    <3>2. ticket'.ticket = 0 /\ ticket'.epoch = 0
      BY <3>1 DEF NoTicket
    <3> QED BY <2>5, <3>2
  <2>8. CASE c.cmd = "Revert" /\ RevertJoined(c, rest)
    <3>1. c.disconnect /\ ticket' = RevertTicket(c)
      BY <2>8 DEF RevertJoined
    <3>2. c.ticket = 0
      BY <2>1, <3>1, CallMoves DEF WaitInv, Undirected
    <3> QED BY <2>5, <2>6, <3>1, <3>2
  <2>9. CASE c.cmd = "Revert" /\ RevertQueued(c)
    <3>1. /\ ticket' = RevertTicket(c) /\ deferred' = Enqueue(deferred, c)
          /\ UNCHANGED worker /\ (WorkerActive => gen' = gen + 1) /\ (gen' = gen + 1 \/ gen' = gen)
      BY <2>9 DEF RevertQueued, Cancel
    <3>2. ~RecoveryRuns'
      <4> SUFFICES ASSUME RecoveryRuns' PROVE FALSE
        OBVIOUS
      <4>1. RecoveryRuns /\ gen' = gen
        BY <2>1, <3>1, RunsAge
      <4>2. ~WorkerActive
        BY <2>1, <3>1, <4>1, SMTT(60)
      <4> QED BY <2>1, <4>1, <4>2 DEF WorkerActive, RecoveryRuns
    <3>3. c \in Waiting(deferred')
      <4>1. c.cmd # "Repair"
        BY <2>9
      <4> QED BY <2>1, <3>1, <4>1, <1>EnqueueKeeps DEF WaitInv
    <3>4. c.epoch = link.epoch => Requested'
      BY <2>2, <2>9, <3>3 DEF Requested
    <3>5. /\ ticket'.ticket = c.ticket /\ ticket'.epoch = c.epoch
          /\ c.ticket # 0 => ticket'.status = "active"
      BY <2>6, <3>1
    <3> QED BY <2>2, <2>4, <3>2, <3>4, <3>5 DEF RetryInv, Held
  <2>10. CASE c.cmd = "Revert" /\ RevertStarted(c, rest)
    <3>1. ticket' = Started(RevertTicket(c)) /\ retry' = StartRetry(ArmRetry(retry))
      BY <2>10 DEF RevertStarted
    <3>2. retry'.armed
      BY <2>1, <3>1 DEF StartRetry, ArmRetry, RetryType
    <3>3. PICK t : t = RevertTicket(c)
      OBVIOUS
    <3>4. t \in TicketType /\ ~t.parked /\ t.epoch = c.epoch /\ ticket' = Started(t)
      BY <2>6, <3>1, <3>3
    <3>5. ticket'.epoch = c.epoch
      BY <3>4, StartedShape
    <3> QED BY <2>5, <3>2, <3>5
  <2>11. CASE c.cmd = "Repair" /\ RepairStarted(rest)
    <3>1. /\ UNCHANGED <<ticket, retry>> /\ deferred' = rest
          /\ worker' = [kind |-> "Apply", gen |-> gen']
      BY <2>11 DEF RepairStarted, ReapplyIdentity, DispatchApply
    <3>2. deferred # <<>> /\ rest = Tail(deferred) /\ c = Head(deferred)
      BY <2>11 DEF Calls, Source, Draining
    <3>3. \A d \in Waiting(deferred) : d.cmd = "Revert" => d \in Waiting(deferred')
      BY <2>1, <2>11, <3>1, <3>2, <1>TailKeeps
    <3>4. ~RecoveryRuns'
      BY <3>1 DEF RecoveryRuns
    <3> QED BY <2>2, <3>1, <3>3, <3>4, <1>RetryKeeps
  <2> QED BY <2>7, <2>8, <2>9, <2>10, <2>11 DEF Calls, Runs, HandleApply, HandleRevert,
          HandleDisarm, HandleReset

<1>RetryCompletions.
    ASSUME IInv, WaitInv, TicketInv, RetryInv, [Next]_vars, Complete
    PROVE  RetryInv'
  <2> USE <1>RetryCompletions
  <2>1. /\ TypeOK /\ MailInv /\ EpochInv /\ FenceInv /\ link \in LinkType /\ retry \in RetryType
        /\ NoWorker.kind = "none" /\ UNCHANGED deferred
    BY OthersKeepQueue DEF IInv, TypeInv, TypeOK, NoWorker
  <2>2. CASE RecoveryFailed \/ ValidationFailed
    <3>1. /\ Completes("Recovery") \/ Completes("Validation")
          /\ Live(Front) /\ UNCHANGED link
          /\ retry' = [retry EXCEPT !.quiet = TRUE]
          /\ \E st \in {"failed", "unknown"} : ticket' = Published(ticket, st)
      BY <2>2 DEF RecoveryFailed, ValidationFailed
    <3>2. PICK st \in {"failed", "unknown"} : ticket' = Published(ticket, st)
      BY <3>1
    <3>3. /\ Idle /\ tasks # <<>> /\ IsMutation(Front) /\ KindOf(Front) = "Recovery"
          /\ Front.gen = gen
      BY <3>1 DEF Completes, HasTask, IsMutation, KindOf, Live
    <3>4. WorkerActive /\ worker.kind = "Recovery" /\ worker.gen = Front.gen
      BY <2>1, <3>3, MutationFront, SMTT(60)
    <3>5. ~ticket.parked /\ ~Decided /\ RecoveryRuns
      BY <2>1, <3>3, <3>4, DecidedQuiet DEF TicketInv, FenceInv, ControlInv, RecoveryRuns
    <3>6. ticket'.ticket = ticket.ticket /\ ticket'.epoch = ticket.epoch
      BY <2>1, <3>2 DEF Published, TypeOK, TicketType
    <3>7. retry'.armed = retry.armed
      BY <2>1, <3>1 DEF RetryType
    <3> QED BY <3>1, <3>5, <3>6, <3>7 DEF RetryInv, Held, Decided
  <2>3. CASE ValidationSucceeded
    <3>1. /\ Completes("Validation") /\ Live(Front) /\ UNCHANGED link
          /\ ticket' = Published(ticket, "restored")
      BY <2>3 DEF ValidationSucceeded
    <3>2. ticket'.ticket = ticket.ticket /\ (Held => ticket'.status = "restored")
      BY <2>1, <3>1, TicketPublished
    <3>3. ticket'.epoch = ticket.epoch
      BY <2>1, <3>1 DEF Published, TypeOK, TicketType
    <3> QED BY <3>1, <3>2, <3>3 DEF RetryInv, Held
  <2>4. CASE /\ MutationCompleted /\ ~RecoveryFailed /\ ~ValidationFailed /\ ~ValidationSucceeded
    <3>1. /\ UNCHANGED <<ticket, retry>>
          /\ link' = link \/ link' = [link EXCEPT !.origin = 0]
      BY <2>4 DEF MutationCompleted, StaleApplyCompleted, ReactivationCompleted, ApplyCompleted,
         ResetCompleted, RefreshRateCompleted, RecoveryCancelled, RecoverySucceeded,
         ValidationCancelled, ExitProcess
    <3>2. link'.epoch = link.epoch
      BY <2>1, <3>1 DEF LinkType
    <3>3. worker' = NoWorker \/ (UNCHANGED gen /\ worker' = worker)
                             \/ (UNCHANGED gen /\ Completes("Recovery") /\ Live(Front))
      BY <2>4 DEF MutationCompleted, StaleApplyCompleted, ReactivationCompleted, ApplyCompleted,
         ResetCompleted, RefreshRateCompleted, RecoveryCancelled, RecoverySucceeded,
         ValidationCancelled
    <3>4. RecoveryRuns' => RecoveryRuns
      <4>1. CASE worker' = NoWorker \/ (UNCHANGED gen /\ worker' = worker)
        BY <2>1, <4>1 DEF RecoveryRuns
      <4>2. CASE Completes("Recovery") /\ Live(Front)
        <5>1. /\ Idle /\ tasks # <<>> /\ IsMutation(Front) /\ KindOf(Front) = "Recovery"
              /\ Front.gen = gen
          BY <4>2 DEF Completes, HasTask, IsMutation, KindOf, Live
        <5>2. worker.kind = "Recovery" /\ worker.gen = Front.gen
          BY <2>1, <5>1, MutationFront, SMTT(60)
        <5> QED BY <5>1, <5>2 DEF RecoveryRuns
      <4> QED BY <3>3, <4>1, <4>2
    <3> QED BY <2>1, <3>1, <3>2, <3>4, <1>RetryKeeps
  <2>5. CASE VerificationCompleted
    <3>1. /\ UNCHANGED <<ticket, link>> /\ (retry' = retry \/ retry' = StartRetry(retry))
      BY <2>5 DEF VerificationCompleted, VerificationIgnored, SettlementHolds, SettlementLost,
         SettlementRechecks, SettlementRepairs, BaselineVerified, InitialVerified,
         FailedUnderSettlement, BaselineRepairStarted, BaselineRepairFailed, InitialRetried,
         InitialFailed, Verified, FailedVerification
    <3>2. retry'.armed = retry.armed
      BY <2>1, <3>1 DEF StartRetry, RetryType
    <3>3. Held /\ RecoveryRuns' => RecoveryRuns
      <4>1. CASE SettlementLost
        <5>1. IsTransient(Front) /\ Completes("Verification") /\ Live(Front)
          BY <4>1 DEF SettlementLost, Verified, IsTransient
        <5> QED BY <2>1, <5>1, CheckFront DEF TicketInv
      <4>2. CASE VerificationIgnored
        BY <4>2 DEF VerificationIgnored, RecoveryRuns
      <4>3. CASE ~SettlementLost /\ ~VerificationIgnored
        <5>1. /\ worker' = worker \/ worker' = [kind |-> "Apply", gen |-> gen']
              /\ Completes("Verification") /\ Live(Front)
          BY <2>5, <4>3 DEF VerificationCompleted, SettlementHolds, SettlementRechecks,
             SettlementRepairs, BaselineVerified, InitialVerified, FailedUnderSettlement,
             BaselineRepairStarted, BaselineRepairFailed, InitialRetried, InitialFailed,
             FailedVerification, Verified
        <5>2. worker = NoWorker
          BY <2>1, <5>1, CheckFront
        <5>3. worker'.kind # "Recovery"
          BY <2>1, <5>1, <5>2, SMTT(60)
        <5> QED BY <5>3 DEF RecoveryRuns
      <4> QED BY <4>1, <4>2, <4>3
    <3> QED BY <2>1, <3>1, <3>2, <3>3, <1>RetryKeeps
  <2> QED BY <2>2, <2>3, <2>4, <2>5 DEF Complete

<1>RetryContinues.
    ASSUME IInv, RetryInv, Continue
    PROVE  RetryInv'
  <2> USE <1>RetryContinues
  <2>1. /\ TypeOK /\ FenceInv /\ link \in LinkType
    BY DEF IInv, TypeInv, TypeOK
  <2>2. /\ worker' = worker \/ worker' = [kind |-> "Apply", gen |-> gen']
        /\ gen' = gen \/ gen' = gen + 1
        /\ UNCHANGED <<deferred, ticket>>
    BY <2>1, ContinueForms
  <2>3. UNCHANGED retry /\ (link' = link \/ link' = [link EXCEPT !.origin = 0])
    BY DEF Continue, FinishApply, Finish, RolledBack, AfterReturn, AfterRollback, AfterSuperseded,
       DecideBaselineFailed, DecideVerify, DecideSettling, DecideFailed, AfterSettling,
       AfterLastRepair, AfterLastFailure, ConcludeHdr, ConcludeFailed, AfterReset, ResetExits,
       ResetResumes, AfterRestored, AfterRestoredFollowup, ExitProcess
  <2>4. link'.epoch = link.epoch
    BY <2>1, <2>3 DEF LinkType
  <2>5. RecoveryRuns' => RecoveryRuns
    <3>1. CASE worker' = worker
      BY <2>1, <2>2, <3>1, RunsAge
    <3>2. CASE worker' = [kind |-> "Apply", gen |-> gen']
      BY <3>2 DEF RecoveryRuns
    <3> QED BY <2>2, <3>1, <3>2
  <2> QED BY <2>2, <2>3, <2>4, <2>5, <1>RetryKeeps

<1>RetryElsewhere.
    ASSUME IInv, WaitInv, OwnerInv, TicketInv, RetryInv, [Next]_vars, Elsewhere
    PROVE  RetryInv'
  <2> USE <1>RetryElsewhere
  <2>1. /\ TypeOK /\ FenceInv /\ link \in LinkType /\ retry \in RetryType /\ ticket \in TicketType
        /\ deferred \in Seq(IntentType) /\ NoWorker.kind = "none"
    BY DEF IInv, TypeInv, TypeOK, NoWorker
  <2>2. CASE ClientPark
    <3>1. ticket' = [ticket EXCEPT !.parked = TRUE] /\ UNCHANGED link
      BY <2>2 DEF ClientPark, Park, Deliver
    <3>2. ticket'.parked /\ ticket'.epoch = ticket.epoch
      BY <2>1, <3>1 DEF TicketType
    <3> QED BY <3>1, <3>2 DEF RetryInv
  <2>3. CASE EventReopens \/ TickReconciles \/ TickRetries
    <3>1. /\ ~ticket.parked /\ ticket' = Started(ticket) /\ UNCHANGED link /\ state = "EventLoop"
      BY <2>3 DEF EventReopens, TickReconciles, TickRetries, RecoveryEvent, Notified, Ticks,
         RestartRecovery
    <3>2. ticket'.ticket = ticket.ticket /\ ticket'.epoch = ticket.epoch
      BY <2>1, <3>1, StartedShape
    <3>3. retry'.armed = retry.armed
      <4>1. \/ retry' = StartRetry([retry EXCEPT !.open = TRUE, !.reported = FALSE])
            \/ retry' = StartRetry([retry EXCEPT !.open = retry.armed, !.reported = FALSE])
            \/ retry' = StartRetry(retry)
        BY <2>3 DEF EventReopens, TickReconciles, TickRetries
      <4> QED BY <2>1, <4>1 DEF StartRetry, RetryType
    <3>4. ~(Held /\ ticket.status = "restored")
      BY <3>1 DEF TicketInv
    <3>5. retry.armed \/ ~Requested
      <4>1. CASE TickReconciles
        <5>1. Idle /\ Free
          BY <4>1 DEF TickReconciles, Ticks, Reconciles
        <5>2. deferred = <<>>
          BY <5>1 DEF OwnerInv, Idle
        <5>3. Waiting(deferred) = {}
          BY <5>2, NothingWaits
        <5> QED BY <5>3 DEF Requested
      <4>2. CASE EventReopens \/ TickRetries
        BY <4>2 DEF EventReopens, TickRetries
      <4> QED BY <2>3, <4>1, <4>2
    <3> QED BY <3>1, <3>2, <3>3, <3>4, <3>5 DEF RetryInv, Held
  <2>4. CASE Connect \/ Retire
    <3>1. UNCHANGED ticket /\ \E s : link' = [link EXCEPT !.epoch = @ + 1, !.conn = s]
      BY <2>4 DEF Connect, Retire
    <3>2. link'.epoch = link.epoch + 1
      BY <2>1, <3>1 DEF LinkType
    <3>3. link.epoch \in Nat /\ ticket.epoch \in Nat
      BY <2>1, Constants, SMTT(60) DEF LinkType, TicketType, Epochs
    <3>4. ticket'.epoch <= link'.epoch /\ ticket'.epoch # link'.epoch
      BY <3>1, <3>2, <3>3, SMTT(60) DEF RetryInv
    <3> QED BY <3>4 DEF RetryInv
  <2>5. CASE \/ ClientReactivate \/ BaselineReturned \/ IdentityReplaced \/ IdentityUnchanged
             \/ ClientRefreshRate \/ DisconnectSettles \/ ClientRevert \/ ClientSnapshot
             \/ RevertStale \/ EventKept \/ TickDiscards \/ TickExpires \/ Time \/ Worker
             \/ Stop \/ DisconnectReverts \/ DisconnectIdle
    <3>1. /\ UNCHANGED <<ticket, deferred>>
          /\ \/ link' = link
             \/ \E s, o : \/ link' = [link EXCEPT !.conn = s]
                          \/ link' = [link EXCEPT !.origin = o]
                          \/ link' = [[link EXCEPT !.conn = s] EXCEPT !.origin = o]
      BY <2>5 DEF ClientReactivate, BaselineReturned, IdentityReplaced, IdentityUnchanged,
         ApplyReactivation, IdentityEvent, ClientRefreshRate, RefreshRateStarted, Deliver,
         ClientRevert, ClientSnapshot, RevertStale, EventKept, TickDiscards, TickExpires,
         SnapshotTaken, RecoveryEvent, Notified, Ticks, Time, WindowCloses, QuietEnds, GraceEnds,
         notTime, Worker, WorkerGuards, WorkerTouches, RecoveryEnters, RecoveryTouches, fsmVars,
         TimerFires, Stop, DisconnectSettles, DisconnectReverts, DisconnectIdle, Disconnects,
         Unlinked
    <3>2. /\ gen' = gen \/ gen' = gen + 1
          /\ \/ worker' = worker
             \/ worker' = [kind |-> "Apply", gen |-> gen']
             \/ worker' = [kind |-> "RefreshRate", gen |-> gen']
      BY <2>5 DEF ClientReactivate, BaselineReturned, IdentityReplaced, IdentityUnchanged,
         ApplyReactivation, ReapplyIdentity, DispatchApply, ClientRefreshRate, RefreshRateStarted,
         ClientRevert, ClientSnapshot, RevertStale, EventKept, TickDiscards, TickExpires,
         SnapshotTaken, Time, WindowCloses, QuietEnds, GraceEnds, notTime, Worker, WorkerGuards,
         WorkerTouches, RecoveryEnters, RecoveryTouches, fsmVars, TimerFires, Stop, Cancel,
         PrepareCancel, DisconnectSettles, DisconnectReverts, DisconnectIdle, Disconnects
    <3>3. \/ retry' = retry
          \/ \E e : retry' = [retry EXCEPT !.event = e]
          \/ \E e, b : retry' = [retry EXCEPT !.event = e, !.reported = b]
          \/ \E b : \/ retry' = [retry EXCEPT !.reported = b]
                    \/ retry' = [retry EXCEPT !.open = b] \/ retry' = [retry EXCEPT !.quiet = b]
      BY <2>5 DEF ClientReactivate, BaselineReturned, IdentityReplaced, IdentityUnchanged,
         ApplyReactivation, ClientRefreshRate, RefreshRateStarted, ClientRevert, ClientSnapshot,
         RevertStale, EventKept, TickDiscards, TickExpires, SnapshotTaken, Time, WindowCloses,
         QuietEnds, GraceEnds, Worker, WorkerGuards, WorkerTouches, RecoveryEnters,
         RecoveryTouches, fsmVars, TimerFires, Stop, DisconnectSettles, DisconnectReverts,
         DisconnectIdle, Disconnects
    <3>4. retry'.armed = retry.armed
      BY <2>1, <3>3 DEF RetryType
    <3>5. link'.epoch = link.epoch
      BY <2>1, <3>1 DEF LinkType
    <3>6. RecoveryRuns' => RecoveryRuns
      <4>1. CASE worker' = worker
        BY <2>1, <3>2, <4>1, RunsAge
      <4>2. CASE \/ worker' = [kind |-> "Apply", gen |-> gen']
                 \/ worker' = [kind |-> "RefreshRate", gen |-> gen']
        <5>1. worker'.kind # "Recovery"
          BY <4>2, SMTT(60)
        <5> QED BY <5>1 DEF RecoveryRuns
      <4> QED BY <3>2, <4>1, <4>2
    <3> QED BY <3>1, <3>4, <3>5, <3>6, <1>RetryKeeps
  <2>6. CASE DrainDropsStale \/ DrainDropsRepair
    <3>1. /\ deferred' = Tail(deferred) /\ deferred # <<>>
          /\ UNCHANGED <<gen, worker, ticket, retry, link>>
          /\ StaleEpoch(Head(deferred).epoch) \/ Head(deferred).cmd = "Repair"
      BY <2>6 DEF DrainDropsStale, DrainDropsRepair, Draining
    <3>2. \A d \in Waiting(deferred) : d.cmd = "Revert" /\ d.epoch = link.epoch => d # Head(deferred)
      BY <3>1 DEF StaleEpoch
    <3>3. \A d \in Waiting(deferred) :
            d.cmd = "Revert" /\ d.epoch = link.epoch => d \in Waiting(deferred')
      BY <2>1, <3>1, <3>2, <1>TailKeeps
    <3> QED BY <3>1, <3>3, <1>RetryKeeps DEF RecoveryRuns
  <2>7. CASE IdentityQueued
    <3>1. /\ deferred' = Enqueue(deferred, Intent("Repair", session.epoch))
          /\ UNCHANGED <<gen, worker, ticket, retry, link>>
      BY <2>7 DEF IdentityQueued, IdentityEvent, Notified
    <3>2. \A d \in Waiting(deferred) : d.cmd = "Revert" => d \in Waiting(deferred')
      BY <2>1, <3>1, RepairIntent, <1>EnqueueKeeps DEF WaitInv
    <3> QED BY <3>1, <3>2, <1>RetryKeeps DEF RecoveryRuns
  <2> QED BY <2>2, <2>3, <2>4, <2>5, <2>6, <2>7 DEF Elsewhere, DisplayEvent, Tick, Connection

<1> SUFFICES ASSUME TicketIInv, RetryInv, [Next]_vars PROVE RetryInv'
  OBVIOUS
<1>1. /\ IInv /\ OwnerInv /\ WaitInv /\ TicketInv /\ TypeOK /\ MailInv /\ EpochInv
  BY DEF TicketIInv, DutyInv, IInv, TypeInv
<1>2. CASE UNCHANGED vars
  <2>1. UNCHANGED <<ticket, link, retry, worker, gen, deferred>>
    BY <1>2 DEF vars
  <2> QED BY <2>1, <1>RetryKeeps DEF RecoveryRuns
<1> QED BY <1>1, <1>2, StepCases, <1>RetryCalls, <1>RetryCompletions, <1>RetryContinues, <1>RetryElsewhere
        DEF Complete

\* A connected owner that is told its restore failed gets the next attempt:
\* the retries are armed, unless the owner parked the ticket.
THEOREM RetryArmedHolds == Spec => []RetryArmed
<1>1. Init => RetryInv
  <2> SUFFICES ASSUME Init PROVE RetryInv
    OBVIOUS
  <2>1. ticket.ticket = 0 /\ ticket.epoch = 0 /\ link.epoch = 0
    BY DEF Init, NoTicket
  <2>2. ticket.epoch <= link.epoch
    BY <2>1, SMTT(60)
  <2> QED BY <2>1, <2>2 DEF RetryInv, Held
<1>2. TicketIInv /\ RetryInv => RetryArmed
  BY SMTT(60) DEF RetryInv, RetryArmed, Held
<1> QED BY <1>1, <1>2, TicketInit, TicketStep, RetryStep, PTL DEF Spec

----------------------------------------------------------------------------
(* The answers to an APPLY *)

\* The session of a DISARM: the flags that guard its answers are cleared, and
\* nothing is left that could answer again.
Over ==
  /\ state \notin SessionStates /\ ~settle.requested /\ ~session.recent
  /\ NoRepair(deferred) /\ frame.at \notin Busy

AnswerInv ==
  Accepted(session.request) =>
    /\ ~replies.repeated /\ replies.apply = replies.verification
    /\ session.applySent <=> session.verificationSent
    /\ session.applySent \/ replies.apply = "none" \/ Over

\* The step leaves the answers, and the flags that guard them, alone.
Unanswered ==
  /\ UNCHANGED replies
  /\ session'.applySent = session.applySent
  /\ session'.verificationSent = session.verificationSent
  /\ session'.recent => session.recent
  /\ Accepted(session'.request) => Accepted(session.request)

\* Every step keeps the answers of an accepted APPLY.
LEMMA AnswerStep == DutyInv /\ WaitInv /\ AnswerInv /\ [Next]_vars => AnswerInv'

<1>AnswerKeeps.
    ASSUME AnswerInv, Unanswered, Over => Over'
    PROVE  AnswerInv'
  BY <1>AnswerKeeps DEF AnswerInv, Unanswered

<1>SessionFields.
    ASSUME TypeOK, UNCHANGED replies,
           \/ session' = session
           \/ \E a, b : \/ session' = [session EXCEPT !.reapply = a]
                        \/ session' = [session EXCEPT !.recent = FALSE]
                        \/ session' = [session EXCEPT !.recent = FALSE, !.reapply = a]
                        \/ session' = [session EXCEPT !.reactivating = a]
                        \/ session' = [session EXCEPT !.verified = a]
                        \/ session' = [session EXCEPT !.preTopology = a]
                        \/ session' = [session EXCEPT !.preTopology = a, !.reapply = b]
    PROVE  Unanswered
  <2> USE <1>SessionFields
  <2>1. session \in SessionType
    BY DEF TypeOK
  <2> QED BY <2>1 DEF Unanswered, SessionType

<1>OverStays.
    ASSUME IInv, [Next]_vars, Over, Unanswered,
           state' \notin SessionStates, settle'.requested => settle.requested, NoRepair(deferred')
    PROVE  Over'

  \* No handler of an APPLY's completion begins once the session is over.
  <2>OverFrame.
      ASSUME TypeOK, MailInv, EpochInv, FenceInv, Over, [Next]_vars
      PROVE  frame'.at \notin Busy
    <3> USE <2>OverFrame
    <3> SUFFICES ASSUME frame'.at \in Busy PROVE FALSE
      OBVIOUS
    <3>1. state # "InProgress" /\ ~settle.requested /\ frame.at \notin Busy
      BY DEF Over, SessionStates
    <3>2. CASE ApplyCompleted
      <4>1. /\ Idle /\ tasks # <<>> /\ IsMutation(Front) /\ KindOf(Front) = "Apply"
            /\ Front.gen = gen /\ ~session.reactivating
        BY <3>2 DEF ApplyCompleted, Completes, HasTask, IsMutation, KindOf, Live
      <4>2. worker.kind = "Apply" /\ worker.gen = Front.gen
        BY <4>1, MutationFront, SMTT(60)
      <4> QED BY <3>1, <4>1, <4>2 DEF FenceInv, ControlInv
    <3>3. CASE AfterReset /\ reset.completion.held
      BY <3>1, <3>3 DEF AfterReset, After, DrainedOut, FenceInv, HeldInv
    <3>4. CASE Finish \/ AfterSuperseded \/ DecideFailed
      BY <3>1, <3>4 DEF Finish, AfterSuperseded, DecideFailed, At, After, Busy
    <3>5. CASE AfterLastFailure
      BY <3>1, <3>5 DEF AfterLastFailure, SettlesNow
    <3> QED BY <3>1, <3>2, <3>3, <3>4, <3>5, BusyMoves

  <2> USE <1>OverStays
  <2> QED
    BY <2>OverFrame DEF IInv, TypeInv, Over, Unanswered

<1>AnswerCalls.
    ASSUME IInv, WaitInv, OwnerInv, AnswerInv, [Next]_vars, NEW c, NEW rest, Calls(c, rest)
    PROVE  AnswerInv'
  <2> USE <1>AnswerCalls
  <2>1. /\ TypeOK /\ settle \in SettleType /\ session \in SessionType /\ c \in IntentType
        /\ deferred \in Seq(IntentType)
    BY DEF IInv, TypeInv, TypeOK, Calls
  <2>2. ~NoSettle.requested
    BY DEF NoSettle
  <2>3. /\ UNCHANGED frame /\ Waiting(rest) \subseteq Waiting(deferred)
        /\ Free /\ c.cmd # "Reset" => \A d \in Waiting(rest) : d.cmd = "Reset"
    BY <2>1, CallMoves
  <2>4. CASE ApplyStarted(c, rest)
    <3>1. /\ Accepted(c.request) /\ replies' = NoReplies
          /\ ~session'.applySent /\ ~session'.verificationSent
      BY <2>4 DEF ApplyStarted, ApplyBegins
    <3>2. ~NoReplies.repeated /\ NoReplies.apply = "none" /\ NoReplies.verification = "none"
      BY DEF NoReplies
    <3> QED BY <3>1, <3>2 DEF AnswerInv
  <2>5. CASE ApplyRejected(c, rest)
    <3>1. ~Accepted(c.request) /\ session'.request = c.request
      BY <2>5 DEF ApplyRejected, ApplyBegins
    <3> QED BY <3>1 DEF AnswerInv
  <2>6. CASE c.cmd = "Disarm" /\ DisarmStarted(c, rest)
    <3>1. /\ Free /\ state' = "Waiting" /\ deferred' = rest /\ UNCHANGED replies
          /\ session' = [session EXCEPT !.verified = FALSE, !.applySent = FALSE,
                           !.verificationSent = FALSE, !.recent = FALSE, !.reapply = FALSE]
          /\ settle' = NoSettle
      BY <2>6 DEF DisarmStarted, ClearRecoveryState
    <3>2. /\ ~session'.applySent /\ ~session'.verificationSent /\ ~session'.recent
          /\ session'.request = session.request
      BY <2>1, <3>1 DEF SessionType
    <3>3. c.cmd # "Reset"
      BY <2>6
    <3>4. \A d \in Waiting(rest) : d.cmd # "Repair"
      BY <2>3, <3>1, <3>3
    <3>5. NoRepair(deferred')
      BY <3>1, <3>4 DEF NoRepair
    <3>6. frame.at \notin Busy
      <4>1. frame.at # "superseded"
        <5> SUFFICES ASSUME frame.at = "superseded" PROVE FALSE
          OBVIOUS
        <5>1. Draining /\ c = Head(deferred) /\ deferred # <<>>
          BY <2>6 DEF Calls, Source, Idle, Draining
        <5>2. c \in Waiting(deferred)
          BY <2>1, <5>1, TailWaiting
        <5> QED BY <2>6, <5>2 DEF WaitInv
      <4>2. frame.at = "idle" \/ frame.at \in DrainPoints
        BY DEF Calls, Source, Idle, Draining
      <4> QED BY <4>1, <4>2 DEF DrainPoints, Busy
    <3>7. Over'
      BY <2>2, <2>3, <3>1, <3>2, <3>5, <3>6 DEF Over, SessionStates
    <3> QED BY <3>1, <3>2, <3>7 DEF AnswerInv
  <2>7. CASE c.cmd = "Repair" /\ RepairStarted(rest)
    <3>1. Draining /\ c = Head(deferred) /\ deferred # <<>>
      BY <2>7 DEF Calls, Source, Draining
    <3>2. c \in Waiting(deferred)
      BY <2>1, <3>1, TailWaiting
    <3>3. ~Over
      BY <2>7, <3>2 DEF Over, NoRepair
    <3>4. /\ UNCHANGED replies
          /\ \E a, b : session' = [session EXCEPT !.preTopology = a, !.reapply = b]
      BY <2>7 DEF RepairStarted, ReapplyIdentity
    <3> QED BY <2>1, <3>3, <3>4, <1>SessionFields, <1>AnswerKeeps
  <2>8. CASE \/ ApplyQueued(c) \/ DisarmQueued(c) \/ DisarmDropped(c, rest)
             \/ ResetQueued(c) \/ ResetStarted(c, rest)
             \/ RevertJoined(c, rest) \/ RevertQueued(c) \/ RevertDeclined(c, rest)
             \/ RevertNothing(c, rest) \/ RevertStarted(c, rest)
    <3>1. /\ UNCHANGED replies
          /\ \/ session' = session
             \/ \E a : \/ session' = [session EXCEPT !.reapply = a]
                       \/ session' = [session EXCEPT !.recent = FALSE]
                       \/ session' = [session EXCEPT !.recent = FALSE, !.reapply = a]
          /\ state' = state \/ state' = "Waiting" \/ state' = "Recovery"
          /\ \/ settle' = settle \/ settle' = NoSettle \/ settle' = SettleDeferred
      BY <2>8 DEF ApplyQueued, DisarmQueued, DisarmDropped, ResetQueued, ResetStarted, RevertJoined,
         RevertQueued, RevertDeclined, RevertNothing, RevertStarted, ClearRecoveryState,
         StartRecovery, DeferSettlement, RevertSettle
    <3>2. Unanswered
      BY <2>1, <3>1, <1>SessionFields
    <3>3. settle'.requested => settle.requested
      BY <2>1, <2>2, <3>1 DEF SettleDeferred, SettleType
    <3>4. NoRepair(deferred) => NoRepair(deferred')
      <4>1. \/ deferred' = rest
            \/ deferred' = Enqueue(deferred, c) /\ c.cmd # "Repair"
        BY <2>1, CallMoves
      <4>2. Waiting(Enqueue(deferred, c)) \subseteq Waiting(deferred) \cup {c}
        BY <2>1, EnqueueWaiting
      <4> QED BY <2>3, <4>1, <4>2 DEF NoRepair
    <3>5. Over => state' \notin SessionStates
      BY <3>1 DEF Over, SessionStates
    <3> QED BY <3>2, <3>3, <3>4, <3>5, <1>OverStays, <1>AnswerKeeps DEF Over
  <2> QED BY <2>4, <2>5, <2>6, <2>7, <2>8 DEF Calls, Runs, HandleApply, HandleRevert,
          HandleDisarm, HandleReset

<1>AnswerMutations.
    ASSUME IInv, AnswerInv, [Next]_vars, MutationCompleted
    PROVE  AnswerInv'
  <2> USE <1>AnswerMutations
  <2>1. /\ TypeOK /\ UNCHANGED deferred
    BY OthersKeepQueue DEF IInv, TypeInv, Complete
  <2>2. /\ UNCHANGED replies
        /\ \/ session' = session
           \/ \E a : \/ session' = [session EXCEPT !.reapply = a]
                     \/ session' = [session EXCEPT !.reactivating = a]
        /\ settle.requested \/ UNCHANGED settle
        /\ settle.requested \/ state' \in {state, "Waiting", "RecoveryValidation", "EventLoop"}
    BY DEF MutationCompleted, StaleApplyCompleted, ReactivationCompleted, ApplyCompleted,
       ResetCompleted, RefreshRateCompleted, RecoveryCancelled, RecoverySucceeded, RecoveryFailed,
       ValidationCancelled, ValidationFailed, ValidationSucceeded
  <2>3. Unanswered
    BY <2>1, <2>2, <1>SessionFields
  <2>4. Over => state' \notin SessionStates /\ (settle'.requested => settle.requested)
    BY <2>2 DEF Over, SessionStates
  <2> QED BY <2>1, <2>3, <2>4, <1>OverStays, <1>AnswerKeeps DEF Over

\* Both results are reported while neither has been.
<1>FirstReport.
    ASSUME TypeOK, NEW ok \in BOOLEAN,
           ~replies.repeated, replies.apply = "none", replies.verification = "none",
           replies' = Report(Report(replies, "apply", ok, FALSE), "verification", ok, FALSE)
    PROVE  ~replies'.repeated /\ replies'.apply = replies'.verification
  <2> USE <1>FirstReport
  <2> DEFINE first == Report(replies, "apply", ok, FALSE)
  <2>1. /\ DOMAIN replies = {"apply", "verification", "repeated"}
        /\ replies = [x \in DOMAIN replies |-> replies[x]]
    BY SMTT(60) DEF TypeOK, RepliesType
  <2>2. first = [replies EXCEPT !["apply"] = IF ok THEN "Ok" ELSE "Failed",
                                !.repeated = @ \/ replies["apply"] # "none"]
    BY DEF Report
  <2>3. /\ DOMAIN first = {"apply", "verification", "repeated"} /\ ~first.repeated
        /\ first.apply = (IF ok THEN "Ok" ELSE "Failed") /\ first.verification = "none"
    <3> HIDE DEF first
    <3>1. DOMAIN first = DOMAIN replies
      BY <2>2
    <3>2. first.repeated = (replies.repeated \/ replies["apply"] # "none")
      BY <2>1, <2>2
    <3>3. first.apply = (IF ok THEN "Ok" ELSE "Failed")
      BY <2>1, <2>2
    <3>4. first.verification = replies.verification
      BY <2>1, <2>2
    <3> QED BY <2>1, <3>1, <3>2, <3>3, <3>4
  <2> HIDE DEF first
  <2>4. replies' = [first EXCEPT !["verification"] = IF ok THEN "Ok" ELSE "Failed",
                                 !.repeated = @ \/ first["verification"] # "none"]
    BY DEF Report, first
  <2>5. /\ replies'.repeated = (first.repeated \/ first.verification # "none")
        /\ replies'.verification = (IF ok THEN "Ok" ELSE "Failed")
        /\ replies'.apply = first.apply
    BY <2>3, <2>4
  <2> QED BY <2>3, <2>5

\* Both results of a request that failed.
<1>FailureReported.
    ASSUME TypeOK, AnswerInv, ~Over, FailedReplies
    PROVE  AnswerInv'
  <2> USE <1>FailureReported
  <2>1. session \in SessionType
    BY DEF TypeOK
  <2>2. session' = [session EXCEPT !.applySent = TRUE, !.verificationSent = TRUE]
    BY DEF FailedReplies
  <2>3. session'.applySent /\ session'.verificationSent /\ session'.request = session.request
    BY <2>1, <2>2 DEF SessionType
  <2>4. CASE ~Accepted(session.request)
    BY <2>3, <2>4 DEF AnswerInv
  <2>5. CASE Accepted(session.request) /\ session.applySent
    <3>1. session.verificationSent
      BY <2>5 DEF AnswerInv
    <3>2. replies' = replies
      BY <2>5, <3>1 DEF FailedReplies, Report
    <3> QED BY <2>3, <3>2 DEF AnswerInv
  <2>6. CASE Accepted(session.request) /\ ~session.applySent
    <3>1. /\ ~replies.repeated /\ replies.apply = "none" /\ replies.verification = "none"
          /\ ~session.verificationSent
      BY <2>6 DEF AnswerInv
    <3>2. session.applySent = FALSE /\ session.verificationSent = FALSE
      BY <2>1, <2>6, <3>1 DEF SessionType
    <3>3. replies' = Report(Report(replies, "apply", FALSE, FALSE), "verification", FALSE, FALSE)
      BY <3>2 DEF FailedReplies
    <3>4. ~replies'.repeated /\ replies'.apply = replies'.verification
      BY <3>1, <3>3, <1>FirstReport
    <3> QED BY <2>3, <3>4 DEF AnswerInv
  <2> QED BY <2>4, <2>5, <2>6

<1>AnswerChecks.
    ASSUME IInv, AnswerInv, [Next]_vars, VerificationCompleted
    PROVE  AnswerInv'
  <2> USE <1>AnswerChecks
  <2>1. /\ TypeOK /\ FenceInv /\ session \in SessionType
    BY DEF IInv, TypeInv, TypeOK
  <2>2. CASE VerificationIgnored
    <3>1. UNCHANGED <<state, settle, session, deferred, frame, replies>>
      BY <2>2 DEF VerificationIgnored
    <3> QED BY <3>1 DEF AnswerInv, Over, NoRepair
  <2>3. CASE ~VerificationIgnored
    <3>1. Completes("Verification") /\ Live(Front)
      BY <2>3 DEF VerificationCompleted, SettlementHolds, SettlementLost, SettlementRechecks,
         SettlementRepairs, BaselineVerified, InitialVerified, FailedUnderSettlement,
         BaselineRepairStarted, BaselineRepairFailed, InitialRetried, InitialFailed, Verified,
         FailedVerification
    <3>2. ~Over
      BY <2>1, <3>1, CheckFront DEF Over, SessionStates
    <3>3. CASE InitialVerified
      <4>1. CASE session.verificationSent
        <5>1. UNCHANGED <<session, replies>>
          BY <3>3, <4>1 DEF InitialVerified
        <5> QED BY <2>1, <3>2, <5>1, <1>SessionFields, <1>AnswerKeeps
      <4>2. CASE ~session.verificationSent
        <5>1. /\ session' = [session EXCEPT !.verified = TRUE, !.applySent = TRUE,
                                            !.verificationSent = TRUE]
              /\ replies' = Report(Report(replies, "apply", TRUE, session.applySent),
                                   "verification", TRUE, FALSE)
          BY <3>3, <4>2 DEF InitialVerified
        <5>2. session'.applySent /\ session'.verificationSent /\ session'.request = session.request
          BY <2>1, <5>1 DEF SessionType
        <5>3. CASE Accepted(session.request)
          <6>1. /\ ~replies.repeated /\ replies.apply = "none" /\ replies.verification = "none"
                /\ ~session.applySent
            BY <3>2, <4>2, <5>3 DEF AnswerInv
          <6>2. session.applySent = FALSE
            BY <2>1, <6>1 DEF SessionType
          <6>3. replies' = Report(Report(replies, "apply", TRUE, FALSE), "verification", TRUE, FALSE)
            BY <5>1, <6>2
          <6>4. ~replies'.repeated /\ replies'.apply = replies'.verification
            BY <2>1, <6>1, <6>3, <1>FirstReport
          <6> QED BY <5>2, <6>4 DEF AnswerInv
        <5> QED BY <5>2, <5>3 DEF AnswerInv
      <4> QED BY <4>1, <4>2
    <3>4. CASE InitialFailed
      <4>1. CASE session.verified
        <5>1. UNCHANGED <<session, replies>>
          BY <3>4, <4>1 DEF InitialFailed
        <5> QED BY <2>1, <3>2, <5>1, <1>SessionFields, <1>AnswerKeeps
      <4>2. CASE ~session.verified
        <5>1. FailedReplies
          BY <3>4, <4>2 DEF InitialFailed
        <5> QED BY <2>1, <3>2, <5>1, <1>FailureReported
      <4> QED BY <4>1, <4>2
    <3>5. CASE ~InitialVerified /\ ~InitialFailed
      <4>1. /\ UNCHANGED replies
            /\ \/ session' = session
               \/ \E a : \/ session' = [session EXCEPT !.reapply = a]
                         \/ session' = [session EXCEPT !.verified = a]
        BY <2>3, <3>5 DEF VerificationCompleted, SettlementHolds, SettlementLost,
           SettlementRechecks, SettlementRepairs, BaselineVerified, FailedUnderSettlement,
           BaselineRepairStarted, BaselineRepairFailed, InitialRetried
      <4> QED BY <2>1, <3>2, <4>1, <1>SessionFields, <1>AnswerKeeps
    <3> QED BY <3>3, <3>4, <3>5
  <2> QED BY <2>2, <2>3

<1>AnswerContinues.
    ASSUME IInv, AnswerInv, [Next]_vars, Continue
    PROVE  AnswerInv'
  <2> USE <1>AnswerContinues
  <2>1. /\ TypeOK /\ session \in SessionType
    BY DEF IInv, TypeInv, TypeOK
  <2>2. UNCHANGED deferred /\ (settle'.requested => settle.requested)
    BY <2>1, ContinueForms
  <2>3. CASE RolledBack \/ ConcludeFailed
    <3>1. FailedReplies /\ ~Over
      BY <2>3 DEF RolledBack, ConcludeFailed, At, Over, Busy
    <3> QED BY <2>1, <3>1, <1>FailureReported
  <2>4. CASE ConcludeHdr
    <3>1. /\ ~Over /\ UNCHANGED replies
          /\ session' = [session EXCEPT !.hdrTried = TRUE, !.request.hdr = FALSE]
      BY <2>4 DEF ConcludeHdr, At, Over, Busy
    <3>2. /\ session'.applySent = session.applySent
          /\ session'.verificationSent = session.verificationSent
          /\ session'.recent = session.recent
          /\ session'.request = [session.request EXCEPT !.hdr = FALSE]
      BY <2>1, <3>1 DEF SessionType
    <3>3. session'.request.layout = session.request.layout
      BY <2>1, <3>2 DEF SessionType, Request
    <3>4. Unanswered
      BY <3>1, <3>2, <3>3 DEF Unanswered, Accepted, HasConfiguration
    <3> QED BY <3>1, <3>4, <1>AnswerKeeps
  <2>5. CASE ~RolledBack /\ ~ConcludeFailed /\ ~ConcludeHdr
    <3>1. /\ UNCHANGED replies
          /\ \/ session' = session
             \/ \E a : \/ session' = [session EXCEPT !.reapply = a]
                       \/ session' = [session EXCEPT !.verified = a]
                       \/ session' = [session EXCEPT !.preTopology = a]
      BY <2>5 DEF Continue, FinishApply, Finish, AfterReturn, AfterRollback, AfterSuperseded,
         DecideBaselineFailed, DecideVerify, DecideSettling, DecideFailed, AfterSettling,
         AfterLastRepair, AfterLastFailure, AfterReset, ResetExits, ResetResumes, AfterRestored,
         AfterRestoredFollowup
    <3>2. Unanswered
      BY <2>1, <3>1, <1>SessionFields
    <3>3. ASSUME Over
          PROVE  UNCHANGED state
      <4>1. /\ ~settle.requested
            /\ frame.at \notin {"finish", "rolledBack", "superseded", "decide", "conclude"}
        BY <3>3 DEF Over, Busy
      <4>2. ~SettlesNow
        BY <4>1 DEF SettlesNow
      <4> QED BY <2>5, <4>1, <4>2 DEF Continue, FinishApply, Finish, AfterReturn, AfterRollback,
              AfterSuperseded, DecideBaselineFailed, DecideVerify, DecideSettling, DecideFailed,
              AfterSettling, AfterLastRepair, AfterLastFailure, AfterReset, ResetExits,
              ResetResumes, AfterRestored, AfterRestoredFollowup, ResumesSettlement, At, After,
              DrainedOut
    <3> QED BY <2>2, <3>2, <3>3, <1>OverStays, <1>AnswerKeeps DEF Over
  <2> QED BY <2>3, <2>4, <2>5

<1>AnswerElsewhere.
    ASSUME IInv, AnswerInv, [Next]_vars, Elsewhere
    PROVE  AnswerInv'
  <2> USE <1>AnswerElsewhere
  <2>1. /\ TypeOK /\ session \in SessionType /\ deferred \in Seq(IntentType)
    BY DEF IInv, TypeInv, TypeOK
  <2>2. /\ UNCHANGED replies
        /\ \/ session' = session
           \/ \E a, b : \/ session' = [session EXCEPT !.reapply = a]
                        \/ session' = [session EXCEPT !.recent = FALSE]
                        \/ session' = [session EXCEPT !.reactivating = a]
                        \/ session' = [session EXCEPT !.preTopology = a, !.reapply = b]
    BY DEF Elsewhere, ClientReactivate, ClientRevert, ClientRefreshRate, ClientSnapshot, ClientPark,
       RevertStale, DrainDropsStale, DrainDropsRepair, DisplayEvent, BaselineReturned,
       IdentityUnchanged, IdentityQueued, IdentityReplaced, IdentityEvent, EventKept, EventReopens,
       RecoveryEvent, Notified, Tick, TickReconciles, TickDiscards, TickExpires, TickRetries, Ticks,
       Time, WindowCloses, QuietEnds, GraceEnds, notTime, Connection, Connect, Retire, Stop,
       DisconnectSettles, DisconnectReverts, DisconnectIdle, Disconnects, Worker, WorkerGuards,
       WorkerTouches, RecoveryEnters, RecoveryTouches, fsmVars, TimerFires, ApplyReactivation,
       ReapplyIdentity, RefreshRateStarted, SnapshotTaken, Park
  <2>3. Unanswered
    BY <2>1, <2>2, <1>SessionFields
  <2>4. ASSUME Over
        PROVE  /\ state' = state \/ state' = "Recovery"
               /\ UNCHANGED settle
               /\ UNCHANGED deferred \/ (deferred # <<>> /\ deferred' = Tail(deferred))
    <3>1. state \notin SessionStates /\ ~session.recent
      BY <2>4 DEF Over
    <3>2. ~ClientReactivate /\ ~BaselineReturned /\ ~IdentityEvent /\ ~DisconnectSettles
      BY <3>1 DEF ClientReactivate, ApplyReactivation, BaselineReturned, IdentityEvent,
         DisconnectSettles, Settles, SessionStates
    <3> QED BY <3>2 DEF Elsewhere, ClientRevert, ClientRefreshRate, ClientSnapshot, ClientPark,
            RevertStale, DrainDropsStale, DrainDropsRepair, Draining, DisplayEvent,
            IdentityUnchanged, IdentityQueued, IdentityReplaced, EventKept, EventReopens,
            RecoveryEvent, Tick, TickReconciles, TickDiscards, TickExpires, TickRetries, Ticks,
            RestartRecovery, StartRecovery, Time, WindowCloses, QuietEnds, GraceEnds, notTime,
            Connection, Connect, Retire, Stop, DisconnectReverts, DisconnectIdle, Disconnects,
            Worker, WorkerGuards, WorkerTouches, RecoveryEnters, RecoveryTouches, fsmVars,
            TimerFires, RefreshRateStarted, SnapshotTaken, Park
  <2>5. Over => state' \notin SessionStates
    BY <2>4 DEF Over, SessionStates
  <2>6. Over => NoRepair(deferred')
    BY <2>1, <2>4, TailWaiting DEF Over, NoRepair
  <2> QED BY <2>3, <2>4, <2>5, <2>6, <1>OverStays, <1>AnswerKeeps

<1> SUFFICES ASSUME DutyInv, WaitInv, AnswerInv, [Next]_vars PROVE AnswerInv'
  OBVIOUS
<1>1. /\ IInv /\ OwnerInv /\ TypeOK /\ MailInv /\ EpochInv
  BY DEF DutyInv, IInv, TypeInv
<1>2. CASE UNCHANGED vars
  <2>1. UNCHANGED <<state, settle, session, deferred, frame, replies>>
    BY <1>2 DEF vars
  <2> QED BY <2>1 DEF AnswerInv, Over, NoRepair
<1> QED BY <1>1, <1>2, StepCases, <1>AnswerCalls, <1>AnswerMutations, <1>AnswerChecks, <1>AnswerContinues,
        <1>AnswerElsewhere

\* An APPLY that was accepted is answered at most once, and its result and its
\* verification result agree, whatever repairs, fallbacks, settlements and
\* replacements follow.
THEOREM HonestAnswerHolds == Spec => []HonestAnswer
<1>1. Init => AnswerInv
  <2> SUFFICES ASSUME Init PROVE AnswerInv
    OBVIOUS
  <2>1. /\ ~replies.repeated /\ replies.apply = "none" /\ replies.verification = "none"
        /\ ~session.applySent /\ ~session.verificationSent
    BY DEF Init, NoReplies
  <2> QED BY <2>1 DEF AnswerInv
<1>2. AnswerInv => HonestAnswer
  <2> SUFFICES ASSUME AnswerInv, Accepted(session.request)
               PROVE  /\ ~replies.repeated
                      /\ ~(replies.apply = "Failed" /\ replies.verification = "Ok")
                      /\ ~(replies.apply = "Ok" /\ replies.verification = "Failed")
    BY DEF HonestAnswer
  <2>1. ~replies.repeated /\ replies.apply = replies.verification
    BY DEF AnswerInv
  <2> QED BY <2>1, SMTT(60)
<1>3. TicketIInv => DutyInv /\ WaitInv
  BY DEF TicketIInv
<1> QED BY <1>1, <1>2, <1>3, TicketInit, TicketStep, AnswerStep, PTL DEF Spec

============================================================================
