----------------------------- MODULE ExitProofs ------------------------------
(***************************************************************************)
(* What a step of the helper never does, for every instance: it does not   *)
(* exit with a restore owed or an APPLY in flight, and no recovery begins  *)
(* for a session that opted out of it.                                     *)
(*                                                                         *)
(* ExitInv follows exit_after_staged_state_reset_ from the confirmed       *)
(* restore to the RESET that takes the exit. RestoreInv says whose policy  *)
(* the lease has while a settlement may still end in a recovery.           *)
(***************************************************************************)
EXTENDS TicketProofs

\* A leaf that names no prover is given to Zenon; those that need arithmetic,
\* records or sequences name the SMT solver.
USE ZenonT(60)

----------------------------------------------------------------------------
(* The exit *)

\* A restore left its exit to a RESET that is still to report.
Leaving == reset.exitAfter /\ ~reset.stray
OnlyResets == \A c \in Waiting(deferred) : c.cmd = "Reset"

\* From the confirmed restore to its exit nothing changes the desktop: the exit
\* follows at once, or RESET keeps the fence until it reports, and it leaves no
\* command behind.
ExitInv ==
  /\ Running /\ frame.at = "restored" =>
       /\ state = "Waiting" /\ worker = NoWorker /\ ~world.owed
       /\ reset.pending \/ OnlyResets
       /\ ~reset.exitAfter => ~reset.pending /\ deferred = <<>>
  /\ Running /\ Leaving /\ frame.at \notin {"restored", "restoredFollowup"} =>
       /\ state = "Waiting" /\ worker.kind # "Apply" /\ ~world.owed
       /\ \/ frame.at = "idle" /\ reset.pending
          \/ frame.at \in {"resetDone", "resetTail"} /\ OnlyResets

\* A step that does not decide about the exit.
Undecided == reset'.exitAfter = reset.exitAfter /\ reset'.stray = reset.stray

\* What the other handlers do to the barrier.
BarrierOnly ==
  \/ UNCHANGED reset
  \/ reset' = BeginReset(reset)
  \/ \E x : \/ reset' = [reset EXCEPT !.completion = x]
            \/ reset' = [reset EXCEPT !.recovery = x]
            \/ reset' = [reset EXCEPT !.completion = x, !.recovery = "none"]

LEMMA BarrierUndecided ==
  ASSUME TypeOK, BarrierOnly
  PROVE  Undecided
<1>1. reset \in ResetType
  BY DEF TypeOK
<1> QED BY <1>1 DEF BarrierOnly, Undecided, ResetType, BeginReset

\* Every step keeps the exit of a restore clean.
LEMMA ExitStep == DutyInv /\ WaitInv /\ ExitInv /\ [Next]_vars => ExitInv'

<1>ExitCalls.
    ASSUME TypeOK, WaitInv, OwnerInv, ExitInv, NEW c, NEW rest, Calls(c, rest)
    PROVE  ExitInv'
  <2> USE <1>ExitCalls
  <2>1. /\ UNCHANGED frame /\ Running /\ Waiting(rest) \subseteq Waiting(deferred)
    BY CallMoves
  <2>2. Undecided
    BY BarrierUndecided DEF BarrierOnly, Calls, Runs, HandleApply, HandleRevert, HandleDisarm,
       HandleReset, ApplyQueued, ApplyStarted, ApplyRejected, ApplyBegins, DisarmQueued,
       DisarmStarted, DisarmDropped, ResetQueued, ResetStarted, RevertDeclined, RevertNothing,
       RevertJoined, RevertQueued, RevertStarted, RepairStarted
  <2>3. ASSUME ~Free PROVE UNCHANGED <<state, worker, reset, world>>
    BY <2>3, CallMoves DEF Calls, Runs, Source, Draining, HandleApply, HandleRevert,
       HandleDisarm, HandleReset, ApplyQueued, ApplyStarted, ApplyRejected, ApplyBegins,
       DisarmQueued, DisarmStarted, DisarmDropped, ResetQueued, ResetStarted, RevertDeclined,
       RevertNothing, RevertJoined, RevertQueued, RevertStarted, RevertRuns
  <2>4. ASSUME Draining, OnlyResets
        PROVE  /\ UNCHANGED <<state, worker, world>> /\ reset'.pending /\ OnlyResets'
               /\ deferred # <<>>
    <3>1. Free /\ c \in Waiting(deferred) /\ deferred # <<>>
      <4>1. Source(c, rest) /\ deferred \in Seq(IntentType) /\ deferred # <<>> /\ ~Idle /\ Free
        BY <2>4 DEF Calls, TypeOK, Draining, Idle, DrainPoints
      <4> QED BY <4>1, TailWaiting DEF Source
    <3>2. c.cmd = "Reset"
      BY <2>4, <3>1 DEF OnlyResets
    <3>3. ResetStarted(c, rest)
      BY <3>1, <3>2 DEF Calls, Runs, HandleReset, ResetQueued
    <3>4. UNCHANGED <<state, worker, world>> /\ reset' = BeginReset(reset) /\ deferred' = rest
      BY <3>3 DEF ResetStarted
    <3>5. reset'.pending
      BY <3>4 DEF BeginReset, TypeOK, ResetType
    <3> QED BY <2>1, <2>4, <3>1, <3>4, <3>5 DEF OnlyResets
  <2>5. CASE frame.at = "restored"
    <3>1. Draining /\ ~reset.pending
      BY <2>5 DEF Calls, Source, Draining, Idle, Free
    <3>2. OnlyResets
      BY <2>1, <2>5, <3>1 DEF ExitInv
    <3> QED BY <2>1, <2>2, <2>4, <2>5, <3>1, <3>2 DEF ExitInv, Undecided
  <2>6. CASE frame.at = "idle" /\ Leaving
    <3>1. reset.pending
      BY <2>1, <2>6 DEF ExitInv
    <3>2. UNCHANGED <<state, worker, reset, world>>
      BY <2>3, <3>1 DEF Free
    <3> QED BY <2>1, <2>6, <3>1, <3>2 DEF ExitInv, Leaving
  <2>7. CASE frame.at \notin {"idle", "restored", "restoredFollowup"} /\ Leaving
    <3>1. Draining
      BY <2>7 DEF Calls, Source, Idle
    <3>2. OnlyResets /\ frame.at \in {"resetDone", "resetTail"}
      BY <2>1, <2>7 DEF ExitInv
    <3> QED BY <2>1, <2>4, <2>7, <3>1, <3>2 DEF ExitInv
  <2>8. CASE frame.at \notin {"restored", "restoredFollowup"} /\ ~Leaving
    BY <2>1, <2>2, <2>8 DEF ExitInv, Leaving, Undecided
  <2>9. CASE frame.at = "restoredFollowup"
    BY <2>1, <2>9 DEF ExitInv
  <2> QED BY <2>5, <2>6, <2>7, <2>8, <2>9

<1>ExitMutations.
    ASSUME TypeOK, FenceInv, ExitInv, MutationCompleted
    PROVE  ExitInv'
  <2> USE <1>ExitMutations
  <2>1. /\ Idle /\ Running /\ frame.at = "idle" /\ frame \in FrameType
        /\ reset \in ResetType /\ world \in WorldType
    BY DEF TypeOK, MutationCompleted, StaleApplyCompleted, ReactivationCompleted, ApplyCompleted,
       ResetCompleted, RefreshRateCompleted, RecoveryCancelled, RecoverySucceeded,
       RecoveryFailed, ValidationCancelled, ValidationFailed, ValidationSucceeded, Completes, Idle
  <2>2. \A p : DrainThen(p).at = p
    BY <2>1 DEF DrainThen, FrameType
  <2>3. CASE ValidationSucceeded
    <3> DEFINE resets == lease.staged /\ reset.recovery = "failed"
    <3>1. /\ reset' = [reset EXCEPT !.pending = @ \/ resets,
                         !.exitAfter = reset.pending \/ resets \/ HasDeferredReset,
                         !.stray = FALSE]
          /\ frame' = DrainThen(IF HasDeferredFollowup /\ ~resets THEN "restoredFollowup"
                                ELSE "restored")
          /\ worker' = NoWorker /\ state' = "Waiting"
          /\ world' = [world EXCEPT !.task = FALSE, !.owed = FALSE]
          /\ UNCHANGED deferred
      BY <2>3 DEF ValidationSucceeded
    <3> HIDE DEF resets
    <3>2. /\ reset'.pending = (reset.pending \/ resets)
          /\ reset'.exitAfter = (reset.pending \/ resets \/ HasDeferredReset)
      BY <2>1, <3>1, SMTT(60) DEF ResetType
    <3>3. ~world'.owed
      BY <2>1, <3>1 DEF WorldType
    <3>4. CASE frame' = DrainThen("restoredFollowup")
      <4>1. frame'.at = "restoredFollowup"
        BY <2>2, <3>4
      <4> QED BY <4>1 DEF ExitInv
    <3>5. CASE frame' = DrainThen("restored") /\ (resets \/ ~HasDeferredFollowup)
      <4>1. frame'.at = "restored"
        BY <2>2, <3>5
      <4>2. ~HasDeferredFollowup => OnlyResets'
        BY <3>1 DEF HasDeferredFollowup, OnlyResets, Waiting
      <4>3. ~reset'.exitAfter => ~reset'.pending /\ deferred' = <<>>
        <5> SUFFICES ASSUME ~reset'.exitAfter PROVE ~reset'.pending /\ deferred' = <<>>
          OBVIOUS
        <5>1. ~resets /\ ~reset.pending /\ ~HasDeferredReset /\ ~HasDeferredFollowup
          BY <3>2, <3>5
        <5>2. DOMAIN deferred = {}
          BY <5>1 DEF HasDeferredReset, HasDeferredFollowup
        <5>3. deferred = <<>>
          BY <5>2, SMTT(60) DEF TypeOK
        <5> QED BY <3>1, <3>2, <5>1, <5>3
      <4> QED BY <3>1, <3>2, <3>3, <3>5, <4>1, <4>2, <4>3 DEF ExitInv
    <3> QED BY <3>1, <3>4, <3>5
  <2>4. CASE ResetCompleted
    <3>1. PICK ok \in BOOLEAN :
            IF reset.exitAfter /\ ~ok
            THEN world' = [world EXCEPT !.running = FALSE]
            ELSE /\ reset' = [reset EXCEPT !.pending = FALSE,
                                           !.exitAfter = @ /\ ~HasDeferredFollowup]
                 /\ frame' = DrainThen("resetDone")
                 /\ UNCHANGED world
      BY <2>4 DEF ResetCompleted
    <3>2. CASE world' = [world EXCEPT !.running = FALSE]
      <4>1. ~Running'
        BY <2>1, <3>2 DEF WorldType, Running
      <4> QED BY <4>1 DEF ExitInv
    <3>3. CASE /\ reset' = [reset EXCEPT !.pending = FALSE,
                                         !.exitAfter = @ /\ ~HasDeferredFollowup]
               /\ frame' = DrainThen("resetDone") /\ UNCHANGED world
      <4>1. /\ frame'.at = "resetDone" /\ reset'.stray = reset.stray
            /\ reset'.exitAfter = (reset.exitAfter /\ ~HasDeferredFollowup)
        BY <2>1, <2>2, <3>3, SMTT(60) DEF ResetType
      <4>2. UNCHANGED <<state, worker, deferred>>
        BY <2>4 DEF ResetCompleted
      <4>3. Leaving' => Leaving /\ OnlyResets'
        BY <4>1, <4>2 DEF Leaving, OnlyResets, Waiting, HasDeferredFollowup
      <4> QED BY <2>1, <3>3, <4>1, <4>2, <4>3 DEF ExitInv
    <3> QED BY <3>1, <3>2, <3>3
  <2>5. CASE MutationCompleted /\ ~ValidationSucceeded /\ ~ResetCompleted
    <3>1. ~reset.pending
      BY <2>1, <2>5, MutationFront DEF MutationCompleted, StaleApplyCompleted,
         ReactivationCompleted, ApplyCompleted, RefreshRateCompleted, RecoveryCancelled,
         RecoverySucceeded, RecoveryFailed, ValidationCancelled, ValidationFailed, Completes,
         HasTask, IsMutation
    <3>2. ~Leaving
      BY <2>1, <3>1 DEF ExitInv
    <3>3. Undecided
      BY <2>5, BarrierUndecided DEF BarrierOnly, MutationCompleted, StaleApplyCompleted,
         ReactivationCompleted, ApplyCompleted, RefreshRateCompleted, RecoveryCancelled,
         RecoverySucceeded, RecoveryFailed, ValidationCancelled, ValidationFailed
    <3>4. frame'.at # "restored"
      <4>1. \/ frame' = DrainThen("return") \/ UNCHANGED frame
            \/ \E d : frame' = [IdleFrame EXCEPT !.at = "finish", !.done = d]
        BY <2>5 DEF MutationCompleted, StaleApplyCompleted, ReactivationCompleted,
           ApplyCompleted, RefreshRateCompleted, RecoveryCancelled, RecoverySucceeded,
           RecoveryFailed, ValidationCancelled, ValidationFailed
      <4>2. \A d : [IdleFrame EXCEPT !.at = "finish", !.done = d].at = "finish"
        BY DEF IdleFrame
      <4> QED BY <2>1, <2>2, <4>1, <4>2
    <3> QED BY <3>2, <3>3, <3>4 DEF ExitInv, Leaving, Undecided
  <2> QED BY <2>3, <2>4, <2>5

<1>ExitVerifications.
    ASSUME TypeOK, FenceInv, ExitInv, VerificationCompleted
    PROVE  ExitInv'
  <2> USE <1>ExitVerifications
  <2>1. Completes("Verification") /\ UNCHANGED <<frame, world, deferred>>
    BY DEF VerificationCompleted, VerificationIgnored, SettlementHolds, SettlementLost,
       SettlementRechecks, SettlementRepairs, BaselineVerified, InitialVerified,
       FailedUnderSettlement, BaselineRepairStarted, BaselineRepairFailed, InitialRetried,
       InitialFailed, Verified, FailedVerification
  <2>2. Running /\ frame.at = "idle"
    BY <2>1 DEF Completes, Idle
  <2>3. CASE VerificationIgnored
    BY <2>1, <2>3 DEF ExitInv, VerificationIgnored, Leaving, OnlyResets, Running
  <2>4. CASE VerificationCompleted /\ ~VerificationIgnored
    <3>1. Live(Front)
      BY <2>4 DEF VerificationCompleted, SettlementHolds, SettlementLost,
         SettlementRechecks, SettlementRepairs, BaselineVerified, InitialVerified,
         FailedUnderSettlement, BaselineRepairStarted, BaselineRepairFailed, InitialRetried,
         InitialFailed, Verified, FailedVerification
    <3>2. state = "Verification"
      BY <2>1, <3>1, CheckFront
    <3>3. ~Leaving
      BY <2>2, <3>2 DEF ExitInv
    <3>4. Undecided
      BY <2>4, BarrierUndecided DEF BarrierOnly, VerificationCompleted, SettlementHolds, SettlementLost,
         SettlementRechecks, SettlementRepairs, BaselineVerified, InitialVerified,
         FailedUnderSettlement, BaselineRepairStarted, BaselineRepairFailed, InitialRetried,
         InitialFailed, Verified, FailedVerification
    <3> QED BY <2>1, <2>2, <3>3, <3>4 DEF ExitInv, Leaving, Undecided
  <2> QED BY <2>3, <2>4
<1>ExitContinue.
    ASSUME TypeOK, FenceInv, ExitInv, Continue
    PROVE  ExitInv'
  <2> USE <1>ExitContinue
  <2>1. /\ frame \in FrameType /\ reset \in ResetType /\ world \in WorldType
        /\ IdleFrame.at = "idle" /\ [IdleFrame EXCEPT !.at = "resetTail"].at = "resetTail"
        /\ NoWorker.kind # "Apply"
    BY DEF TypeOK, IdleFrame, NoWorker
  <2>2. CASE AfterRestored
    <3>1. /\ Running /\ frame.at = "restored" /\ frame'.at = "idle" /\ UNCHANGED <<state, worker>>
          /\ reset' = [reset EXCEPT !.stray = reset.exitAfter /\ ~reset.pending]
          /\ IF reset.exitAfter THEN UNCHANGED world ELSE TRUE
      BY <2>1, <2>2 DEF AfterRestored, After, DrainedOut
    <3>2. /\ reset'.exitAfter = reset.exitAfter /\ reset'.pending = reset.pending
          /\ reset'.stray = (reset.exitAfter /\ ~reset.pending)
      BY <2>1, <3>1, SMTT(60) DEF ResetType
    <3>3. state = "Waiting" /\ worker.kind # "Apply" /\ ~world.owed
      BY <2>1, <3>1 DEF ExitInv
    <3> QED BY <3>1, <3>2, <3>3 DEF ExitInv, Leaving
  <2>3. CASE AfterRestoredFollowup \/ ResetExits
    <3>1. frame'.at = "idle" /\ reset' = [reset EXCEPT !.exitAfter = FALSE]
      BY <2>1, <2>3 DEF AfterRestoredFollowup, ResetExits
    <3>2. ~reset'.exitAfter
      BY <2>1, <3>1 DEF ResetType
    <3> QED BY <3>1, <3>2 DEF ExitInv, Leaving
  <2>4. CASE ResetResumes
    <3>1. /\ Running /\ frame.at = "resetTail" /\ frame'.at = "idle"
          /\ UNCHANGED <<worker, deferred, reset, world>> /\ ~(reset.exitAfter /\ ~reset.pending)
      BY <2>1, <2>4 DEF ResetResumes, At, ExitsAfterReset
    <3>2. Leaving => reset.pending /\ UNCHANGED state
      BY <2>4, <3>1 DEF Leaving, ResetResumes
    <3> QED BY <3>1, <3>2 DEF ExitInv, Leaving
  <2>5. CASE AfterReset
    <3>1. /\ Running /\ frame.at = "resetDone" /\ UNCHANGED <<state, worker, deferred, world>>
          /\ \/ reset.completion.held /\ reset' = [reset EXCEPT !.completion = NoneHeld]
                /\ \E d : frame' = [IdleFrame EXCEPT !.at = "finish", !.caller = "reset", !.done = d]
             \/ frame'.at = "resetTail" /\ UNCHANGED reset
      BY <2>1, <2>5 DEF AfterReset, After, DrainedOut
    <3>2. Undecided
      BY <3>1, BarrierUndecided DEF BarrierOnly
    <3>3. \A d : [IdleFrame EXCEPT !.at = "finish", !.caller = "reset", !.done = d].at = "finish"
      BY DEF IdleFrame
    <3>4. frame'.at \in {"finish", "resetTail"}
      BY <3>1, <3>3
    <3>5. CASE Leaving
      <4>1. state = "Waiting" /\ OnlyResets
        BY <3>1, <3>5 DEF ExitInv
      <4>2. frame'.at = "resetTail"
        BY <3>1, <4>1 DEF FenceInv, HeldInv
      <4> QED BY <3>1, <3>5, <4>1, <4>2 DEF ExitInv, OnlyResets
    <3>6. CASE ~Leaving
      BY <3>2, <3>4, <3>6 DEF ExitInv, Leaving, Undecided
    <3> QED BY <3>5, <3>6
  <2>6. CASE FinishApply
    <3>1. Running /\ frame.at \notin {"idle", "resetDone", "resetTail", "restored", "restoredFollowup"}
      BY <2>6 DEF FinishApply, Finish, RolledBack, AfterReturn, AfterRollback, AfterSuperseded,
         DecideBaselineFailed, DecideVerify, DecideSettling, DecideFailed, AfterSettling,
         AfterLastRepair, AfterLastFailure, ConcludeHdr, ConcludeFailed, At, After, DrainedOut
    <3>2. ~Leaving
      BY <3>1 DEF ExitInv
    <3>3. Undecided
      BY <2>6, BarrierUndecided DEF BarrierOnly, FinishApply, Finish, RolledBack, AfterReturn,
         AfterRollback, AfterSuperseded, DecideBaselineFailed, DecideVerify, DecideSettling,
         DecideFailed, AfterSettling, AfterLastRepair, AfterLastFailure, ConcludeHdr,
         ConcludeFailed
    <3>4. frame'.at # "restored"
      <4>1. \A p : DrainThen(p).at = p
        BY <2>1 DEF DrainThen, FrameType
      <4>2. Returned.at \in {"idle", "resetTail"}
        BY DEF Returned, IdleFrame
      <4>3. \A p, q : /\ [frame EXCEPT !.at = p].at = p
                      /\ [frame EXCEPT !.at = p, !.baseline = q].at = p
        BY <2>1 DEF FrameType
      <4>4. \/ frame' = Returned
            \/ \E p \in {"rolledBack", "superseded", "decide", "conclude", "rollback", "return",
                         "repairOk", "failed"} :
                 \/ frame' = DrainThen(p) \/ frame' = [frame EXCEPT !.at = p]
                 \/ \E q : frame' = [frame EXCEPT !.at = p, !.baseline = q]
        BY <2>6 DEF FinishApply, Finish, RolledBack, AfterReturn, AfterRollback, AfterSuperseded,
           DecideBaselineFailed, DecideVerify, DecideSettling, DecideFailed, AfterSettling,
           AfterLastRepair, AfterLastFailure, ConcludeHdr, ConcludeFailed
      <4>5. ASSUME NEW p \in {"rolledBack", "superseded", "decide", "conclude", "rollback",
                             "return", "repairOk", "failed"},
                   \/ frame' = DrainThen(p) \/ frame' = [frame EXCEPT !.at = p]
                   \/ \E q : frame' = [frame EXCEPT !.at = p, !.baseline = q]
            PROVE  frame'.at # "restored"
        <5>1. frame'.at = p
          BY <4>1, <4>3, <4>5
        <5> QED BY <5>1
      <4>6. CASE frame' = Returned
        BY <4>2, <4>6
      <4> QED BY <4>4, <4>5, <4>6
    <3> QED BY <3>2, <3>3, <3>4 DEF ExitInv, Leaving, Undecided
  <2> QED BY <2>2, <2>3, <2>4, <2>5, <2>6 DEF Continue

<1>ExitElsewhere.
    ASSUME TypeOK, FenceInv, WaitInv, ExitInv, Elsewhere
    PROVE  ExitInv'
  <2> USE <1>ExitElsewhere
  <2>1. UNCHANGED frame /\ Undecided
    BY BarrierUndecided DEF BarrierOnly, Elsewhere, ClientReactivate, ClientRevert, ClientRefreshRate,
       ClientSnapshot, ClientPark, ApplyReactivation, RefreshRateStarted, SnapshotTaken, Park,
       RevertStale, DrainDropsStale, DrainDropsRepair, DisplayEvent, BaselineReturned,
       IdentityUnchanged, IdentityQueued, IdentityReplaced, EventKept, EventReopens,
       RecoveryEvent, Tick, TickReconciles, TickDiscards, TickExpires, TickRetries, Ticks,
       RestartRecovery, Time, WindowCloses, QuietEnds, GraceEnds, notTime, Connection, Connect,
       Retire, Stop, DisconnectSettles, DisconnectReverts, DisconnectIdle, Disconnects, Worker,
       WorkerGuards, WorkerTouches, RecoveryEnters, RecoveryTouches, TimerFires, fsmVars
  <2>2. CASE frame.at = "restoredFollowup" \/ (frame.at # "restored" /\ ~Leaving)
    BY <2>1, <2>2 DEF ExitInv, Leaving, Undecided
  <2>3. CASE ~(frame.at = "restoredFollowup" \/ (frame.at # "restored" /\ ~Leaving)) /\ Running
    <3>1. /\ state = "Waiting" /\ worker.kind # "Apply" /\ ~world.owed
          /\ Idle => reset.pending
      <4>1. NoWorker.kind # "Apply"
        BY DEF NoWorker
      <4> QED BY <2>3, <4>1 DEF ExitInv, Idle
    <3>2. worker.kind # "Recovery"
      BY <3>1 DEF WaitInv, RecoveryInProgress
    <3>3. ~HasTask("Apply") /\ ~HasTask("Recovery")
      <4> SUFFICES ASSUME HasTask("Apply") \/ HasTask("Recovery") PROVE FALSE
        OBVIOUS
      <4>1. tasks # <<>> /\ IsMutation(Front) /\ KindOf(Front) \in {"Apply", "Recovery"}
        BY DEF HasTask, IsMutation, KindOf
      <4>2. worker = [kind |-> KindOf(Front), gen |-> Front.gen]
        BY <4>1, QueuePopped DEF FenceInv, QueueInv, Front
      <4> QED BY <3>1, <3>2, <4>1, <4>2
    <3>4. /\ UNCHANGED state
          /\ worker' = worker \/ (worker'.kind = "RefreshRate" /\ Idle)
      <4>1. CASE ClientRefreshRate
        <5>1. worker' = [kind |-> "RefreshRate", gen |-> gen'] /\ Idle /\ UNCHANGED state
          BY <4>1 DEF ClientRefreshRate, RefreshRateStarted, Deliver
        <5> QED BY <5>1
      <4>2. CASE \/ ClientReactivate \/ ClientRevert \/ ClientSnapshot \/ ClientPark
                 \/ RevertStale \/ DrainDropsStale \/ DrainDropsRepair \/ Time \/ Worker
        BY <3>1, <3>3, <4>2 DEF ClientReactivate, ClientRevert, ClientSnapshot, ClientPark,
           ApplyReactivation, SnapshotTaken, Park, RevertStale, DrainDropsStale,
           DrainDropsRepair, Time, WindowCloses, QuietEnds, GraceEnds, notTime, Worker,
           WorkerGuards, WorkerTouches, RecoveryEnters, RecoveryTouches, TimerFires, fsmVars
      <4>3. CASE DisplayEvent \/ Tick
        BY <3>1, <4>3 DEF DisplayEvent, BaselineReturned, IdentityUnchanged, IdentityQueued,
           IdentityReplaced, IdentityEvent, SessionStates, EventKept, EventReopens,
           RecoveryInProgress, RecoveryEvent, Tick, TickReconciles, TickDiscards, TickExpires,
           TickRetries, Ticks
      <4>4. CASE Connection
        BY <3>1, <4>4 DEF Connection, Connect, Retire, Stop, DisconnectSettles,
           DisconnectReverts, DisconnectIdle, Disconnects, Free
      <4> QED BY <4>1, <4>2, <4>3, <4>4 DEF Elsewhere
    <3>5. UNCHANGED reset
      BY <3>1 DEF Elsewhere, ClientReactivate, ClientRevert, ClientRefreshRate,
         ClientSnapshot, ClientPark, ApplyReactivation, RefreshRateStarted, SnapshotTaken, Park,
         RevertStale, DrainDropsStale, DrainDropsRepair, DisplayEvent, BaselineReturned,
         IdentityUnchanged, IdentityQueued, IdentityReplaced, EventKept, EventReopens,
         RecoveryEvent, Tick,
         TickReconciles, TickDiscards, TickExpires, TickRetries, Ticks, Time, WindowCloses,
         QuietEnds, GraceEnds, notTime, Connection, Connect, Retire, Stop, DisconnectSettles,
         DisconnectReverts, DisconnectIdle, Disconnects, Worker, WorkerGuards, WorkerTouches,
         RecoveryEnters, RecoveryTouches, TimerFires, fsmVars
    <3>6. ~world'.owed
      <4>1. \/ world' = world \/ world' = [world EXCEPT !.tiers = TRUE]
            \/ world' = [world EXCEPT !.running = FALSE]
        BY <3>3 DEF Elsewhere, ClientReactivate, ClientRevert, ClientRefreshRate,
           ClientSnapshot, ClientPark, ApplyReactivation, RefreshRateStarted, SnapshotTaken, Park,
           RevertStale, DrainDropsStale, DrainDropsRepair, DisplayEvent, BaselineReturned,
           IdentityUnchanged, IdentityQueued, IdentityReplaced, IdentityEvent, Notified,
           EventKept, EventReopens, RecoveryEvent, Tick, TickReconciles, TickDiscards,
           TickExpires, TickRetries, Ticks, Time, WindowCloses, QuietEnds, GraceEnds, notTime,
           Connection, Connect, Retire, Stop, DisconnectSettles, DisconnectReverts,
           DisconnectIdle, Disconnects, Worker, WorkerGuards, WorkerTouches, RecoveryEnters,
           RecoveryTouches, TimerFires, fsmVars
      <4>2. world \in WorldType
        BY DEF TypeOK
      <4> QED BY <3>1, <4>1, <4>2 DEF WorldType
    <3>7. /\ OnlyResets /\ ~Idle => OnlyResets'
          /\ deferred = <<>> /\ ~Idle => deferred' = <<>>
      <4>1. ~Idle => deferred' = deferred \/ (deferred # <<>> /\ deferred' = Tail(deferred))
        BY ElsewhereMoves
      <4>2. deferred \in Seq(IntentType)
        BY DEF TypeOK
      <4> QED BY <4>1, <4>2, TailWaiting DEF OnlyResets
    <3>8. CASE frame.at = "restored"
      <4>1. ~Idle
        BY <3>8 DEF Idle
      <4> QED BY <2>1, <2>3, <3>4, <3>5, <3>6, <3>7, <3>8, <4>1 DEF ExitInv
    <3>9. CASE frame.at # "restored"
      <4>1. Leaving /\ frame.at \notin {"restored", "restoredFollowup"}
        BY <2>3, <3>9
      <4>2. worker'.kind # "Apply"
        BY <3>1, <3>4
      <4>3. CASE frame.at = "idle"
        BY <2>1, <2>3, <3>1, <3>4, <3>5, <3>6, <4>1, <4>2, <4>3 DEF ExitInv, Idle
      <4>4. CASE frame.at # "idle"
        <5>1. ~Idle /\ OnlyResets /\ frame.at \in {"resetDone", "resetTail"}
          BY <2>3, <4>1, <4>4 DEF ExitInv, Idle
        <5> QED BY <2>1, <3>1, <3>4, <3>5, <3>6, <3>7, <4>2, <5>1 DEF ExitInv
      <4> QED BY <4>3, <4>4
    <3> QED BY <3>8, <3>9
  <2>4. CASE ~Running
    <3>1. ~Running'
      BY <2>4 DEF Elsewhere, ClientReactivate, ClientRevert, ClientRefreshRate, ClientSnapshot,
         ClientPark, Deliver, RevertStale, DrainDropsStale, DrainDropsRepair, Draining,
         DisplayEvent, BaselineReturned, IdentityUnchanged, IdentityQueued, IdentityReplaced,
         IdentityEvent, EventKept, EventReopens, RecoveryEvent, Notified, Tick, TickReconciles,
         TickDiscards, TickExpires, TickRetries, Ticks, Time, WindowCloses, QuietEnds, GraceEnds,
         Connection, Connect, Retire, Stop, DisconnectSettles, DisconnectReverts, DisconnectIdle,
         Disconnects, Worker, WorkerGuards, WorkerTouches, RecoveryEnters, RecoveryTouches,
         HasTask, TimerFires, Idle
    <3> QED BY <3>1 DEF ExitInv
  <2> QED BY <2>2, <2>3, <2>4

<1> SUFFICES ASSUME DutyInv, WaitInv, ExitInv, [Next]_vars PROVE ExitInv'
  OBVIOUS
<1>1. TypeOK /\ MailInv /\ EpochInv /\ FenceInv /\ OwnerInv
  BY DEF DutyInv, IInv, TypeInv
<1>2. CASE UNCHANGED vars
  BY <1>2 DEF vars, ExitInv, Leaving, OnlyResets, Running
<1> QED BY <1>1, <1>2, StepCases, <1>ExitCalls, <1>ExitMutations, <1>ExitVerifications,
           <1>ExitContinue, <1>ExitElsewhere

\* The first of the waiting commands, and those behind it.
LEMMA WaitingSplit ==
  ASSUME NEW q \in Seq(IntentType), q # <<>>
  PROVE  \A d \in Waiting(q) : d \in Waiting(Tail(q)) \/ d = Head(q)
<1>1. /\ DOMAIN q = 1..Len(q) /\ Len(q) \in Nat /\ Len(q) >= 1 /\ Head(q) = q[1]
      /\ DOMAIN Tail(q) = 1..(Len(q) - 1)
      /\ \A i \in DOMAIN Tail(q) : Tail(q)[i] = q[i + 1]
  BY HeadTailProperties, LenProperties, EmptySeq, SMTT(60)
<1> SUFFICES ASSUME NEW i \in DOMAIN q, i # 1 PROVE q[i] \in Waiting(Tail(q))
  BY <1>1 DEF Waiting
<1>2. i - 1 \in DOMAIN Tail(q) /\ Tail(q)[i - 1] = q[i]
  BY <1>1, SMTT(60)
<1> QED BY <1>2 DEF Waiting

LEMMA ExitInit == Init => ExitInv
<1> SUFFICES ASSUME Init PROVE ExitInv
  OBVIOUS
<1>1. frame.at = "idle" /\ ~reset.exitAfter
  BY DEF Init, IdleFrame
<1> QED BY <1>1 DEF ExitInv, Leaving

\* The steps that end the process.
LEMMA OnlyExits ==
  ASSUME TypeOK, MailInv, EpochInv, [Next]_vars, Running, ~Running'
  PROVE  \/ Stop
         \/ \E c, rest : Calls(c, rest) /\ c.cmd = "Revert" /\ RevertNothing(c, rest)
         \/ ResetCompleted /\ reset.exitAfter /\ world'.owed = world.owed /\ UNCHANGED worker
         \/ ResetExits
         \/ AfterRestored /\ ~reset.exitAfter
<1>1. world \in WorldType /\ world.running
  BY DEF TypeOK, Running
<1>2. ASSUME \/ UNCHANGED world
             \/ \E b : \/ world' = [world EXCEPT !.task = b] \/ world' = [world EXCEPT !.tiers = b]
                      \/ world' = [world EXCEPT !.owed = b]
             \/ world' = WorldCleared
      PROVE  FALSE
  BY <1>1, <1>2 DEF WorldType, WorldCleared, Running
<1>3. CASE \E c, rest : Calls(c, rest)
  <2>1. PICK c, rest : Calls(c, rest)
    BY <1>3
  <2>2. c.cmd = "Revert" /\ RevertNothing(c, rest)
    BY <1>2, <2>1 DEF Calls, Runs, HandleApply, HandleRevert, HandleDisarm, HandleReset,
       ApplyQueued, ApplyStarted, ApplyRejected, DisarmQueued, DisarmStarted,
       DisarmDropped, ResetQueued, ResetStarted, RevertDeclined, RevertJoined, RevertQueued,
       RevertStarted, RepairStarted
  <2> QED BY <2>1, <2>2
<1>4. CASE MutationCompleted
  <2>1. CASE ResetCompleted
    <3>1. PICK ok \in BOOLEAN :
            IF reset.exitAfter /\ ~ok THEN world' = [world EXCEPT !.running = FALSE]
            ELSE UNCHANGED world
      BY <2>1 DEF ResetCompleted
    <3>2. reset.exitAfter /\ world' = [world EXCEPT !.running = FALSE]
      BY <1>2, <3>1
    <3>3. world'.owed = world.owed
      BY <1>1, <3>2 DEF WorldType
    <3>4. UNCHANGED worker
      BY <2>1 DEF ResetCompleted
    <3> QED BY <2>1, <3>2, <3>3, <3>4
  <2>2. CASE ValidationSucceeded
    BY <1>2, <2>2 DEF ValidationSucceeded, WorldCleared
  <2>3. CASE StaleApplyCompleted
    <3>1. \E b : world' = [world EXCEPT !.task = b]
      BY <2>3 DEF StaleApplyCompleted
    <3> QED BY <1>2, <3>1
  <2> QED BY <1>2, <1>4, <2>1, <2>2, <2>3 DEF MutationCompleted, ReactivationCompleted,
          ApplyCompleted, RefreshRateCompleted, RecoveryCancelled, RecoverySucceeded,
          RecoveryFailed, ValidationCancelled, ValidationFailed
<1>5. CASE VerificationCompleted
  BY <1>2, <1>5 DEF VerificationCompleted, VerificationIgnored, SettlementHolds, SettlementLost,
     SettlementRechecks, SettlementRepairs, BaselineVerified, InitialVerified,
     FailedUnderSettlement, BaselineRepairStarted, BaselineRepairFailed, InitialRetried,
     InitialFailed, Verified, FailedVerification
<1>6. CASE Continue
  <2>1. CASE AfterRestored
    BY <1>2, <2>1 DEF AfterRestored
  <2>2. CASE Finish \/ ConcludeFailed
    <3>1. \E b : world' = [world EXCEPT !.task = b]
      BY <2>2 DEF Finish, ConcludeFailed
    <3> QED BY <1>2, <3>1
  <2>3. CASE FinishApply /\ ~Finish /\ ~ConcludeFailed
    BY <1>2, <2>3 DEF FinishApply, RolledBack, AfterReturn,
       AfterRollback, AfterSuperseded, DecideBaselineFailed, DecideVerify, DecideSettling,
       DecideFailed, AfterSettling, AfterLastRepair, AfterLastFailure, ConcludeHdr
  <2>4. CASE AfterReset \/ ResetResumes \/ AfterRestoredFollowup
    BY <1>2, <2>4 DEF AfterReset, ResetResumes, AfterRestoredFollowup
  <2>5. CASE ResetExits
    BY <2>5
  <2>6. \/ AfterRestored \/ Finish \/ ConcludeFailed \/ ResetExits
        \/ FinishApply /\ ~Finish /\ ~ConcludeFailed
        \/ AfterReset \/ ResetResumes \/ AfterRestoredFollowup
    BY <1>6 DEF Continue
  <2> QED BY <2>1, <2>2, <2>3, <2>4, <2>5, <2>6
<1>7. CASE Elsewhere
  <2>1. CASE WorkerGuards
    <3>1. \E b : world' = [world EXCEPT !.task = b]
      BY <2>1 DEF WorkerGuards
    <3> QED BY <1>2, <3>1
  <2> QED BY <1>2, <1>7, <2>1 DEF Elsewhere, ClientReactivate, ClientRevert, ClientRefreshRate,
          ClientSnapshot, ClientPark, ApplyReactivation, RefreshRateStarted, SnapshotTaken, Park,
          RevertStale, DrainDropsStale, DrainDropsRepair, DisplayEvent, BaselineReturned,
          IdentityUnchanged, IdentityQueued, IdentityReplaced, IdentityEvent, Notified,
          EventKept, EventReopens, RecoveryEvent, Tick, TickReconciles, TickDiscards,
          TickExpires, TickRetries, Ticks, Time, WindowCloses, QuietEnds, GraceEnds, notTime,
          Connection, Connect, Retire, DisconnectSettles, DisconnectReverts,
          DisconnectIdle, Disconnects, Worker, WorkerTouches, RecoveryEnters,
          RecoveryTouches, TimerFires, fsmVars
<1>8. CASE UNCHANGED vars
  BY <1>2, <1>8 DEF vars
<1> QED BY <1>3, <1>4, <1>5, <1>6, <1>7, <1>8, StepCases

\* The helper exits on its own account with nothing owed, no APPLY or recovery
\* running and no APPLY of the live client waiting, whatever the number of
\* commands and connections; a stray exit is the only exception.
THEOREM ExitCleanHolds == Spec => ExitClean
<1>1. ASSUME DutyInv, WaitInv, ExitInv, [Next]_vars, Running, ~Running', ~Stop, ~StrayExit
      PROVE  /\ ~world'.owed /\ worker'.kind \notin {"Apply", "Recovery"}
             /\ HasTask("Reset") \/ ~HasDeferredApply
  <2>1. /\ TypeOK /\ MailInv /\ EpochInv /\ FenceInv /\ OwnerInv /\ world \in WorldType
        /\ NoWorker.kind = "none"
    BY <1>1 DEF DutyInv, IInv, TypeInv, TypeOK, NoWorker
  <2>2. OnlyResets => ~HasDeferredApply
    BY DEF OnlyResets, HasDeferredApply, Waiting
  <2>3. ASSUME state = "Waiting", UNCHANGED worker, worker.kind # "Apply"
        PROVE  worker'.kind \notin {"Apply", "Recovery"}
    BY <1>1, <2>3 DEF WaitInv, RecoveryInProgress
  <2>4. CASE \E c, rest : Calls(c, rest) /\ c.cmd = "Revert" /\ RevertNothing(c, rest)
    <3>1. PICK c, rest : Calls(c, rest) /\ c.cmd = "Revert" /\ RevertNothing(c, rest)
      BY <2>4
    <3>2. Free /\ UNCHANGED worker /\ ExitProcess(0, WorldCleared)
      BY <3>1 DEF RevertNothing, RevertRuns
    <3>3. world' = WorldCleared \/ world' = [WorldCleared EXCEPT !.running = FALSE]
      BY <3>2 DEF ExitProcess
    <3>4. ~world'.owed
      BY <2>1, <3>3 DEF WorldCleared, WorldType
    <3>5. worker' = NoWorker
      BY <3>2 DEF Free, WorkerActive
    <3>6. \A d \in Waiting(deferred) : d.cmd \in {"Reset", "Revert"}
      <4>1. \A d \in Waiting(rest) : d.cmd = "Reset"
        BY <1>1, <2>1, <3>1, <3>2, CallMoves
      <4>2. deferred \in Seq(IntentType)
        BY <2>1 DEF TypeOK
      <4>3. \A d \in Waiting(deferred) : d \in Waiting(rest) \/ d = c
        BY <3>1, <4>2, WaitingSplit DEF Calls, Source, Draining
      <4> QED BY <3>1, <4>1, <4>3
    <3>7. ~HasDeferredApply
      BY <3>6 DEF HasDeferredApply, Waiting
    <3> QED BY <2>1, <3>4, <3>5, <3>7
  <2>5. CASE ResetCompleted /\ reset.exitAfter /\ world'.owed = world.owed /\ UNCHANGED worker
    <3>1. HasTask("Reset") /\ frame.at = "idle"
      BY <2>5 DEF ResetCompleted, Completes, Idle
    <3>2. Leaving
      BY <1>1, <2>5, <3>1 DEF StrayExit, Leaving
    <3>3. state = "Waiting" /\ worker.kind # "Apply" /\ ~world.owed
      BY <1>1, <3>1, <3>2 DEF ExitInv
    <3> QED BY <2>3, <2>5, <3>1, <3>3
  <2>6. CASE ResetExits
    <3>1. /\ frame.at = "resetTail" /\ reset.exitAfter /\ UNCHANGED worker /\ ExitProcess(0, world)
      BY <2>6 DEF ResetExits, At, ExitsAfterReset
    <3>2. Leaving
      BY <1>1, <3>1 DEF StrayExit, Leaving
    <3>3. state = "Waiting" /\ worker.kind # "Apply" /\ ~world.owed /\ OnlyResets
      BY <1>1, <3>1, <3>2 DEF ExitInv
    <3>4. world' = world \/ world' = [world EXCEPT !.running = FALSE]
      BY <3>1 DEF ExitProcess
    <3>5. ~world'.owed
      BY <2>1, <3>3, <3>4 DEF WorldType
    <3> QED BY <2>2, <2>3, <3>1, <3>3, <3>5
  <2>7. CASE AfterRestored /\ ~reset.exitAfter
    <3>1. /\ frame.at = "restored" /\ UNCHANGED worker /\ ExitProcess(0, world)
      BY <2>7 DEF AfterRestored, After
    <3>2. state = "Waiting" /\ worker = NoWorker /\ ~world.owed /\ deferred = <<>>
      BY <1>1, <2>7, <3>1 DEF ExitInv
    <3>3. world' = world \/ world' = [world EXCEPT !.running = FALSE]
      BY <3>1 DEF ExitProcess
    <3>4. ~world'.owed
      BY <2>1, <3>2, <3>3 DEF WorldType
    <3>5. OnlyResets
      BY <3>2, NothingWaits DEF OnlyResets
    <3> QED BY <2>1, <2>2, <3>1, <3>2, <3>4, <3>5
  <2> QED BY <1>1, <2>1, <2>4, <2>5, <2>6, <2>7, OnlyExits
<1> DEFINE I == DutyInv /\ WaitInv /\ ExitInv
<1>2. Init => I
  BY DutyInit, TicketInit, ExitInit DEF TicketIInv
<1>3. I /\ [Next]_vars => I'
  BY DutyStep, WaitStep, ExitStep DEF DutyInv
<1>4. I /\ [Next]_vars =>
        [Running /\ ~Running' =>
           \/ Stop \/ StrayExit
           \/ /\ ~world'.owed /\ worker'.kind \notin {"Apply", "Recovery"}
              /\ HasTask("Reset") \/ ~HasDeferredApply]_vars
  BY <1>1
<1> QED BY <1>2, <1>3, <1>4, PTL DEF Spec, ExitClean

----------------------------------------------------------------------------
(* The restore *)

Checking(m, g, q) == \E i \in DOMAIN q : LiveCheck(g, q[i]) /\ q[i].mode = m
Applying(m, q) == \E i \in DOMAIN q : q[i].op = "Apply" /\ q[i].mode = m

\* The lease has the policy of the current request.
Owned == lease.onDisconnect = session.request.restore
\* The request's own check is live or about to be dispatched.
Checks ==
  \/ Checking("Initial", gen, tasks)
  \/ frame.at \in {"superseded", "decide"} /\ frame.done.status = "Ok"
\* An Exclusive rollback runs or is about to be finished.
RollsBack ==
  \/ Applying("rollback", tasks)
  \/ frame.at = "finish" /\ frame.done.rollback

\* Only a rejected APPLY leaves the lease with an older policy, and it leaves no
\* topology to roll back to and no settlement. The final check of a settlement,
\* whose failure begins a recovery, belongs to a session that wants the restore.
RestoreInv ==
  /\ Accepted(session.request) => Owned
  /\ session.preTopology /\ Checks => Owned
  /\ RollsBack => Owned
  /\ settle.requested /\ (settle.topology \/ RollsBack) => lease.onDisconnect /\ Owned
  /\ settle.finalPending \/ settle.deferredFinal => settle.requested /\ settle.topology
  /\ Checking("TransientDisconnectFinal", gen, tasks) => settle.topology
  /\ ~reset.completion.done.rollback
  /\ \A i \in DOMAIN timers : timers[i].mode # "TransientDisconnectFinal"

\* What a step does to the dispatcher's queue.
Pops == tasks' = tasks \/ (tasks # <<>> /\ tasks' = Tail(tasks))
Dispatches(op, mode) ==
  \/ tasks' = Append(tasks, Task(op, mode))
  \/ tasks # <<>> /\ tasks' = Append(Tail(tasks), Task(op, mode))
Ages == gen' = gen \/ gen' = gen + 1

LEMMA ModesMove ==
  ASSUME TypeOK, FenceInv, Ages, NEW op, NEW mode, Pops \/ Dispatches(op, mode)
  PROVE  /\ \A m : Checking(m, gen', tasks') =>
                     \/ gen' = gen /\ Checking(m, gen, tasks)
                     \/ Dispatches(op, mode) /\ op = "Verification" /\ m = mode
         /\ \A m : Applying(m, tasks') =>
                     Applying(m, tasks) \/ (Dispatches(op, mode) /\ op = "Apply" /\ m = mode)
<1>1. /\ gen \in Nat /\ tasks \in Seq(TaskType)
      /\ \A i \in DOMAIN tasks : tasks[i].gen <= gen /\ tasks[i].gen \in Nat
  BY TasksTyped DEF FenceInv, QueueInv, QueueOK
<1>2. \A i \in DOMAIN tasks : tasks[i].gen = gen' => gen' = gen
  BY <1>1, SMTT(60) DEF Ages
<1>3. ASSUME NEW q, q = tasks \/ (tasks # <<>> /\ q = Tail(tasks))
      PROVE  /\ q \in Seq(TaskType)
             /\ \A i \in DOMAIN q : \E j \in DOMAIN tasks : q[i] = tasks[j]
  <2>1. CASE q = tasks
    BY <1>1, <2>1
  <2>2. CASE tasks # <<>> /\ q = Tail(tasks)
    <3>1. q \in Seq(TaskType) /\ \A i \in DOMAIN q : i + 1 \in DOMAIN tasks /\ q[i] = tasks[i + 1]
      BY <1>1, <2>2, HeadTailProperties, LenProperties, SMTT(60)
    <3> QED BY <3>1
  <2> QED BY <1>3, <2>1, <2>2
<1>4. ASSUME NEW q \in Seq(TaskType), NEW t, NEW i \in DOMAIN Append(q, t)
      PROVE  Append(q, t)[i] = t \/ (i \in DOMAIN q /\ Append(q, t)[i] = q[i])
  BY SMTT(60)
<1>5. ASSUME NEW i \in DOMAIN tasks'
      PROVE  \/ \E j \in DOMAIN tasks : tasks'[i] = tasks[j]
             \/ Dispatches(op, mode) /\ tasks'[i] = Task(op, mode)
  <2>1. CASE Pops
    BY <1>3, <2>1 DEF Pops
  <2>2. CASE Dispatches(op, mode)
    <3>1. PICK q : /\ q = tasks \/ (tasks # <<>> /\ q = Tail(tasks))
                   /\ tasks' = Append(q, Task(op, mode))
      BY <2>2 DEF Dispatches
    <3>2. q \in Seq(TaskType) /\ \A k \in DOMAIN q : \E j \in DOMAIN tasks : q[k] = tasks[j]
      BY <1>3, <3>1
    <3> QED BY <1>4, <1>5, <2>2, <3>1, <3>2
  <2> QED BY <2>1, <2>2
<1>6. Task(op, mode).op = op /\ Task(op, mode).mode = mode
  BY DEF Task
<1>7. ASSUME NEW m, Checking(m, gen', tasks')
      PROVE  \/ gen' = gen /\ Checking(m, gen, tasks)
             \/ Dispatches(op, mode) /\ op = "Verification" /\ m = mode
  <2>1. PICK i \in DOMAIN tasks' : LiveCheck(gen', tasks'[i]) /\ tasks'[i].mode = m
    BY <1>7 DEF Checking
  <2>2. CASE \E j \in DOMAIN tasks : tasks'[i] = tasks[j]
    BY <1>2, <2>1, <2>2 DEF Checking, LiveCheck
  <2>3. CASE Dispatches(op, mode) /\ tasks'[i] = Task(op, mode)
    BY <1>6, <2>1, <2>3 DEF LiveCheck
  <2> QED BY <1>5, <2>2, <2>3
<1>8. ASSUME NEW m, Applying(m, tasks')
      PROVE  Applying(m, tasks) \/ (Dispatches(op, mode) /\ op = "Apply" /\ m = mode)
  BY <1>5, <1>6, <1>8 DEF Applying
<1> QED BY <1>7, <1>8

\* Most steps begin no check and no rollback that RestoreInv speaks of.
Harmless ==
  \/ Pops
  \/ \E op \in {"Apply", "Reset", "Recovery", "RefreshRate", "Validation"},
        mode \in {"full", "repair", "reactivation", "none"} : Dispatches(op, mode)
  \/ \E mode \in {"BaselineTopologyReturn", "BaselineTopologyRepair"} :
        Dispatches("Verification", mode)
Quiet ==
  /\ Checking("Initial", gen', tasks') => gen' = gen /\ Checking("Initial", gen, tasks)
  /\ Checking("TransientDisconnectFinal", gen', tasks') =>
       gen' = gen /\ Checking("TransientDisconnectFinal", gen, tasks)
  /\ Applying("rollback", tasks') => Applying("rollback", tasks)

LEMMA HarmlessIsQuiet ==
  ASSUME TypeOK, FenceInv, Ages, Harmless
  PROVE  Quiet
<1>1. CASE Pops
  <2>1. PICK op, mode : op = "Reset" /\ mode = "none"
    OBVIOUS
  <2>2. op # "Verification" /\ op # "Apply"
    BY <2>1
  <2> QED BY <1>1, <2>2, ModesMove DEF Quiet
<1>2. ASSUME NEW op \in {"Apply", "Reset", "Recovery", "RefreshRate", "Validation"},
             NEW mode \in {"full", "repair", "reactivation", "none"}, Dispatches(op, mode)
      PROVE  Quiet
  <2>1. op # "Verification" /\ mode # "rollback"
    BY <1>2
  <2> QED BY <1>2, <2>1, ModesMove DEF Quiet
<1>3. ASSUME NEW mode \in {"BaselineTopologyReturn", "BaselineTopologyRepair"},
             Dispatches("Verification", mode)
      PROVE  Quiet
  <2>1. mode # "Initial" /\ mode # "TransientDisconnectFinal"
    BY <1>3
  <2> QED BY <1>3, <2>1, ModesMove DEF Quiet
<1> QED BY <1>1, <1>2, <1>3 DEF Harmless

\* A step that leaves the policy alone, or gives the lease the request's.
Keeps ==
  /\ session'.request.restore = session.request.restore
  /\ session'.request.layout = session.request.layout
  /\ \/ lease'.onDisconnect = lease.onDisconnect
     \/ lease'.onDisconnect = session.request.restore

\* A step that begins nothing a settlement, a check or a rollback could end.
Calm ==
  /\ session'.preTopology => session.preTopology
  /\ Checks' => Checks
  /\ RollsBack' => RollsBack
  /\ ~reset'.completion.done.rollback
  /\ \A i \in DOMAIN timers' : timers'[i].mode # "TransientDisconnectFinal"
SettleEnds ==
  /\ ~settle'.requested /\ ~settle'.finalPending /\ ~settle'.deferredFinal
  /\ ~Checking("TransientDisconnectFinal", gen', tasks')
SettleGoesOn ==
  /\ settle'.requested = settle.requested /\ settle'.topology = settle.topology
  /\ settle'.finalPending \/ settle'.deferredFinal =>
       \/ settle.finalPending \/ settle.deferredFinal
       \/ settle.requested /\ settle.topology
  /\ Checking("TransientDisconnectFinal", gen', tasks') =>
       Checking("TransientDisconnectFinal", gen, tasks) \/ settle.topology

LEMMA PolicyKept ==
  ASSUME Keeps
  PROVE  /\ Owned => Owned' /\ (lease.onDisconnect => lease'.onDisconnect)
         /\ Accepted(session.request)' => Accepted(session.request)
BY DEF Keeps, Owned, Accepted, HasConfiguration

LEMMA CalmKeeps ==
  ASSUME RestoreInv, Keeps, Calm, SettleEnds \/ SettleGoesOn
  PROVE  RestoreInv'
<1>1. /\ Owned => Owned' /\ (lease.onDisconnect => lease'.onDisconnect)
      /\ Accepted(session.request)' => Accepted(session.request)
  BY PolicyKept
<1>2. CASE SettleEnds
  BY <1>1, <1>2 DEF RestoreInv, Calm, SettleEnds
<1>3. CASE SettleGoesOn
  BY <1>1, <1>3 DEF RestoreInv, Calm, SettleGoesOn
<1> QED BY <1>2, <1>3
\* A live final check is a settlement's, and nothing mutates beside it.
LEMMA FinalIsFree ==
  ASSUME FenceInv, Checking("TransientDisconnectFinal", gen, tasks)
  PROVE  Free /\ settle.requested /\ settle.pending
<1>1. HasTransient(gen, tasks) /\ HasLive(gen, tasks)
  BY DEF Checking, HasTransient, HasLive, IsTransient
<1> QED BY <1>1 DEF FenceInv, ControlInv, AnyLive, TransientLive, Free

\* The next check of a settlement x is delayed, or final for an exact topology.
LEMMA NextCheckMoves ==
  ASSUME NEW x \in SettleType, NEW q, NextCheck(x, q) \/ (FinalCheck(x, q) /\ x.topology)
  PROVE  /\ settle'.requested = x.requested /\ settle'.topology = x.topology
         /\ settle'.deferredFinal = x.deferredFinal
         /\ settle'.finalPending => x.finalPending \/ x.topology
         /\ \/ tasks' = q
            \/ x.topology /\ tasks' = Append(q, Task("Verification", "TransientDisconnectFinal"))
         /\ \/ UNCHANGED timers
            \/ timers' = Append(timers, Task("Verification", "TransientDisconnect"))
<1>1. CASE CheckWaits(x, q)
  BY <1>1 DEF CheckWaits, SettleType
<1>2. CASE CheckDelayed(x, q)
  BY <1>2 DEF CheckDelayed, SettleType
<1>3. CASE FinalCheck(x, q) /\ x.topology
  BY <1>3 DEF FinalCheck, SettleType
<1> QED BY <1>1, <1>2, <1>3 DEF NextCheck, CheckFinal, ExactTopology

LEMMA TimersMove ==
  ASSUME TypeOK, \A i \in DOMAIN timers : timers[i].mode # "TransientDisconnectFinal",
         \/ UNCHANGED timers
         \/ timers' = Append(timers, Task("Verification", "TransientDisconnect"))
         \/ timers # <<>> /\ timers' = Tail(timers)
  PROVE  \A i \in DOMAIN timers' : timers'[i].mode # "TransientDisconnectFinal"
<1>1. timers \in Seq(TaskType)
  BY DEF TypeOK
<1>2. CASE timers' = Append(timers, Task("Verification", "TransientDisconnect"))
  <2> DEFINE t == Task("Verification", "TransientDisconnect")
  <2>1. t.mode # "TransientDisconnectFinal"
    BY DEF Task
  <2> HIDE DEF t
  <2>2. \A i \in DOMAIN timers' : timers'[i] = t \/ (i \in DOMAIN timers /\ timers'[i] = timers[i])
    BY <1>1, <1>2, SMTT(60) DEF t
  <2> QED BY <2>1, <2>2
<1>3. CASE timers # <<>> /\ timers' = Tail(timers)
  <2>1. \A i \in DOMAIN timers' : i + 1 \in DOMAIN timers /\ timers'[i] = timers[i + 1]
    BY <1>1, <1>3, HeadTailProperties, LenProperties, SMTT(60)
  <2> QED BY <2>1
<1> QED BY <1>2, <1>3

\* The completion that a RESET holds is not a rollback's.
LEMMA BarrierHolds ==
  ASSUME TypeOK, ~reset.completion.done.rollback,
         \/ UNCHANGED reset \/ reset' = BeginReset(reset)
         \/ \E x, y, z : reset' = [reset EXCEPT !.pending = x, !.exitAfter = y, !.stray = z]
         \/ \E x, y : reset' = [reset EXCEPT !.pending = x, !.exitAfter = y]
         \/ \E x : \/ reset' = [reset EXCEPT !.exitAfter = x]
                   \/ reset' = [reset EXCEPT !.stray = x]
                   \/ reset' = [reset EXCEPT !.recovery = x]
         \/ reset' = [reset EXCEPT !.completion = NoneHeld]
         \/ reset' = [reset EXCEPT !.completion = NoneHeld, !.recovery = "none"]
  PROVE  ~reset'.completion.done.rollback
<1>1. reset \in ResetType /\ ~NoneHeld.done.rollback
  BY DEF TypeOK, NoneHeld, NoCompletion
<1>2. reset'.completion = reset.completion \/ reset'.completion = NoneHeld
  BY <1>1 DEF ResetType, BeginReset
<1> QED BY <1>1, <1>2

\* The worker reports a rollback only for one.
LEMMA OnlyRollbacks ==
  ASSUME session \in SessionType, NEW t \in TaskType, NEW d \in Outcomes(t), d.rollback
  PROVE  t.mode = "rollback"
<1> DEFINE early == [NoCompletion EXCEPT !.rollback = t.mode = "rollback",
                                         !.topology = session.preTopology]
           guarded == [early EXCEPT !.attempted = TRUE, !.armed = t.armed,
                         !.topology = @ \/ IsExclusive(session.request)]
           full == [guarded EXCEPT !.changed = TRUE]
           other == [early EXCEPT !.changed = TRUE, !.attempted = t.mode = "repair",
                                  !.staged = t.mode = "repair"]
<1>1. \/ d = NoCompletion \/ d = early \/ d = guarded \/ d = full
      \/ \E st : d = [full EXCEPT !.staged = TRUE, !.status = st]
      \/ \E st : d = [other EXCEPT !.status = st]
  BY DEF Outcomes, ApplyOutcomes
<1>2. early \in Completion /\ early.rollback = (t.mode = "rollback") /\ ~NoCompletion.rollback
  <2>1. early \in Completion
    BY Constants DEF Completion, SessionType
  <2>2. early.rollback = (t.mode = "rollback") /\ ~NoCompletion.rollback
    BY DEF NoCompletion
  <2> QED BY <2>1, <2>2
<1> HIDE DEF early
<1>3. guarded \in Completion /\ guarded.rollback = early.rollback
  BY <1>2 DEF Completion, TaskType, IsExclusive
<1> HIDE DEF guarded
<1>4. full \in Completion /\ full.rollback = early.rollback
  BY <1>3 DEF Completion
<1>5. other \in Completion /\ other.rollback = early.rollback
  BY <1>2 DEF Completion
<1> HIDE DEF full, other
<1>6. d.rollback => early.rollback
  BY <1>1, <1>2, <1>3, <1>4, <1>5 DEF Completion
<1> QED BY <1>2, <1>6

\* A live check has reported: no other one is live.
LEMMA CheckGone ==
  ASSUME TypeOK, FenceInv, Completes("Verification"), Live(Front), gen' = gen,
         \/ tasks' = Tail(tasks)
         \/ tasks' = Append(Tail(tasks), Task("Recovery", "none"))
  PROVE  ~Checking("TransientDisconnectFinal", gen', tasks')
<1>1. Tail(tasks) \in Seq(TaskType) /\ ~HasLive(gen, Tail(tasks))
  BY CheckFront DEF QueueOK
<1> DEFINE t == Task("Recovery", "none")
<1>2. t.op # "Verification"
  BY DEF Task
<1> HIDE DEF t
<1>3. \A i \in DOMAIN Append(Tail(tasks), t) :
        \/ Append(Tail(tasks), t)[i] = t
        \/ i \in DOMAIN Tail(tasks) /\ Append(Tail(tasks), t)[i] = Tail(tasks)[i]
  BY <1>1, SMTT(60)
<1> QED BY <1>1, <1>2, <1>3 DEF Checking, HasLive, LiveCheck, t

\* Every step keeps the restore with the session that wants it.
LEMMA RestoreStep == DutyInv /\ WaitInv /\ RestoreInv /\ [Next]_vars => RestoreInv'

<1>RestoreApply.
    ASSUME TypeOK, FenceInv, RestoreInv, NEW c \in IntentType, NEW rest,
           frame.at = "idle" \/ frame.at \in DrainPoints,
           ApplyStarted(c, rest) \/ ApplyRejected(c, rest)
    PROVE  RestoreInv'
  <2> USE <1>RestoreApply
  <2> DEFINE ok == Accepted(c.request)
  <2>1. /\ lease \in LeaseType /\ session \in SessionType /\ c.request.restore \in BOOLEAN
        /\ ~NoSettle.requested /\ ~NoSettle.finalPending /\ ~NoSettle.deferredFinal
        /\ gen \in Nat /\ frame.at # "finish"
    <3>1. frame.at # "finish"
      BY DEF DrainPoints
    <3> QED BY <3>1 DEF TypeOK, NoSettle, IntentType, Request
  <2>2. ApplyBegins(c, rest)
    BY DEF ApplyStarted, ApplyRejected
  <2>3. /\ Free /\ gen' = gen + 1 /\ settle' = NoSettle /\ UNCHANGED <<frame, timers>>
        /\ lease' = [lease EXCEPT !.explicit = FALSE, !.attempted = FALSE, !.heartbeat = TRUE,
                                  !.onDisconnect = IF ok THEN c.request.restore ELSE @]
        /\ session'.request = c.request /\ session'.preTopology = FALSE
        /\ reset' = [reset EXCEPT !.completion = NoneHeld]
    BY <2>2 DEF ApplyBegins, Cancel
  <2>4. Accepted(session.request)' => Owned'
    BY <2>1, <2>3 DEF LeaseType, Owned
  <2>5. Harmless
    BY DEF ApplyStarted, ApplyRejected, DispatchApply, Harmless, Pops, Dispatches
  <2>6. Quiet /\ gen' # gen
    <3>1. gen' # gen
      BY <2>1, <2>3, SMTT(60)
    <3> QED BY <2>3, <2>5, <3>1, HarmlessIsQuiet DEF Ages
  <2>7. ~Applying("rollback", tasks)
    <3>1. worker = NoWorker
      BY <2>3 DEF Free, WorkerActive
    <3> QED BY <3>1 DEF Applying, FenceInv, QueueInv, QueueOK, HasMutation, IsMutation
  <2>8. ~reset'.completion.done.rollback
    BY <2>3, BarrierHolds DEF RestoreInv
  <2> QED BY <2>1, <2>3, <2>4, <2>6, <2>7, <2>8 DEF RestoreInv, RollsBack, Quiet

<1>RestoreCalls.
    ASSUME TypeOK, FenceInv, WaitInv, OwnerInv, RestoreInv, NEW c, NEW rest, Calls(c, rest)
    PROVE  RestoreInv'
  <2> USE <1>RestoreCalls
  <2>1. /\ UNCHANGED frame /\ (frame.at = "idle" \/ frame.at \in DrainPoints)
        /\ c \in IntentType /\ frame.at # "finish"
    <3>1. frame.at = "idle" \/ frame.at \in DrainPoints
      BY DEF Calls, Source, Draining, Idle
    <3>2. frame.at # "finish"
      BY <3>1 DEF DrainPoints
    <3> QED BY <3>1, <3>2, CallMoves DEF Calls
  <2>2. CASE ApplyStarted(c, rest) \/ ApplyRejected(c, rest)
    BY <2>1, <2>2, <1>RestoreApply
  <2>3. CASE ~ApplyStarted(c, rest) /\ ~ApplyRejected(c, rest)
    <3>1. /\ lease \in LeaseType /\ session \in SessionType /\ settle \in SettleType
          /\ gen \in Nat /\ NoSettle \in SettleType
          /\ ~NoSettle.requested /\ ~NoSettle.finalPending /\ ~NoSettle.deferredFinal
      BY SettleOps DEF TypeOK, NoSettle
    <3>2. Ages /\ UNCHANGED timers
      BY <2>3 DEF Ages, Calls, Runs, HandleApply, HandleRevert, HandleDisarm, HandleReset,
         ApplyQueued, DisarmQueued, DisarmStarted, DisarmDropped, ResetQueued, ResetStarted,
         DeferSettlement, RevertDeclined, RevertNothing, RevertJoined, RevertQueued,
         RevertStarted, RepairStarted, Cancel
    <3>3. Harmless
      BY <2>3 DEF Harmless, Pops, Dispatches, Calls, Runs, HandleApply, HandleRevert,
         HandleDisarm, HandleReset, ApplyQueued, DisarmQueued, DisarmStarted, DisarmDropped,
         ResetQueued, ResetStarted, RevertDeclined, RevertNothing, RevertJoined, RevertQueued,
         RevertStarted, StartRecovery, RepairStarted, ReapplyIdentity, DispatchApply
    <3>4. \/ lease' = lease
          \/ \E e : \/ lease' = [lease EXCEPT !.explicit = e]
                    \/ lease' = [[lease EXCEPT !.explicit = e] EXCEPT !.armed = TRUE,
                                   !.changesPending = TRUE, !.heartbeat = FALSE]
          \/ lease' = Cleared(lease)
      BY <2>3 DEF Calls, Runs, HandleApply, HandleRevert, HandleDisarm, HandleReset,
         ApplyQueued, DisarmQueued, DisarmStarted, DisarmDropped, ResetQueued, ResetStarted,
         RevertDeclined, RevertNothing, RevertJoined, RevertQueued, RevertStarted, RevertLease,
         RepairStarted, ClearRecoveryState
    <3>5. lease'.onDisconnect = lease.onDisconnect
      BY <3>1, <3>4 DEF LeaseType, Cleared
    <3>6. \/ session' = session
          \/ \E a : \/ session' = [session EXCEPT !.reapply = a]
                    \/ session' = [session EXCEPT !.recent = a]
          \/ session' = [session EXCEPT !.recent = FALSE, !.reapply = FALSE]
          \/ session' = [session EXCEPT !.verified = FALSE, !.applySent = FALSE,
                           !.verificationSent = FALSE, !.recent = FALSE, !.reapply = FALSE]
          \/ \E b : session' = [session EXCEPT !.preTopology = @ /\ b, !.reapply = TRUE]
      BY <2>3 DEF Calls, Runs, HandleApply, HandleRevert, HandleDisarm, HandleReset,
         ApplyQueued, DisarmQueued, DisarmStarted, DisarmDropped, ResetQueued, ResetStarted,
         RevertDeclined, RevertNothing, RevertJoined, RevertQueued, RevertStarted,
         RepairStarted, ReapplyIdentity
    <3>7. session'.request = session.request /\ (session'.preTopology => session.preTopology)
      BY <3>1, <3>6 DEF SessionType
    <3>8. \/ settle' = settle \/ settle' = SettleDeferred
          \/ settle' = NoSettle /\ (gen' = gen + 1 \/ ~Free)
      BY <2>3 DEF Calls, Runs, HandleApply, HandleRevert, HandleDisarm, HandleReset,
         ApplyQueued, DisarmQueued, DisarmStarted, DisarmDropped, ResetQueued, ResetStarted,
         DeferSettlement, RevertDeclined, RevertNothing, RevertJoined, RevertQueued,
         RevertStarted, RevertSettle, RepairStarted, ClearRecoveryState, Cancel
    <3>9. \/ UNCHANGED reset \/ reset' = BeginReset(reset)
          \/ reset' = [reset EXCEPT !.completion = NoneHeld]
          \/ reset' = [reset EXCEPT !.completion = NoneHeld, !.recovery = "none"]
      BY <2>3 DEF Calls, Runs, HandleApply, HandleRevert, HandleDisarm, HandleReset,
         ApplyQueued, DisarmQueued, DisarmStarted, DisarmDropped, ResetQueued, ResetStarted,
         RevertDeclined, RevertNothing, RevertJoined, RevertQueued, RevertStarted, RepairStarted
    <3>10. ~reset'.completion.done.rollback
      BY <3>9, BarrierHolds DEF RestoreInv
    <3>11. Quiet
      BY <3>2, <3>3, HarmlessIsQuiet
    <3>12. Keeps
      BY <3>5, <3>7 DEF Keeps
    <3>13. Calm
      BY <2>1, <3>2, <3>7, <3>10, <3>11 DEF Calm, Checks, RollsBack, Quiet, RestoreInv
    <3>14. CASE settle' = NoSettle /\ (gen' = gen + 1 \/ ~Free)
      <4>1. gen' = gen => ~Free
        BY <3>1, <3>14, SMTT(60)
      <4>2. ~Checking("TransientDisconnectFinal", gen', tasks')
        BY <3>11, <4>1, FinalIsFree DEF Quiet
      <4> QED BY <3>1, <3>12, <3>13, <3>14, <4>2, CalmKeeps DEF SettleEnds
    <3>15. CASE settle' = settle \/ settle' = SettleDeferred
      <4>1. /\ settle'.requested = settle.requested /\ settle'.topology = settle.topology
            /\ settle'.finalPending \/ settle'.deferredFinal =>
                 settle.finalPending \/ settle.deferredFinal
        BY <3>1, <3>15 DEF SettleDeferred, SettleType
      <4> QED BY <3>11, <3>12, <3>13, <4>1, CalmKeeps DEF SettleGoesOn, Quiet
    <3> QED BY <3>8, <3>14, <3>15
  <2> QED BY <2>2, <2>3
<1>RestoreMutations.
    ASSUME TypeOK, FenceInv, RestoreInv, MutationCompleted
    PROVE  RestoreInv'
  <2> USE <1>RestoreMutations
  <2>1. /\ Idle /\ tasks # <<>> /\ frame.at = "idle" /\ frame \in FrameType
        /\ lease \in LeaseType /\ session \in SessionType /\ settle \in SettleType
    BY DEF TypeOK, MutationCompleted, StaleApplyCompleted, ReactivationCompleted, ApplyCompleted,
       ResetCompleted, RefreshRateCompleted, RecoveryCancelled, RecoverySucceeded, RecoveryFailed,
       ValidationCancelled, ValidationFailed, ValidationSucceeded, Completes, HasTask, Idle
  <2>2. Ages
    BY DEF Ages, MutationCompleted, StaleApplyCompleted, ReactivationCompleted, ApplyCompleted,
       ResetCompleted, RefreshRateCompleted, PrepareCancel, RecoveryCancelled, RecoverySucceeded,
       RecoveryFailed, ValidationCancelled, ValidationFailed, ValidationSucceeded
  <2>3. Harmless
    BY <2>1 DEF Harmless, Pops, Dispatches, MutationCompleted, StaleApplyCompleted,
       ReactivationCompleted, ApplyCompleted, ResetCompleted, RefreshRateCompleted, CheckDelayed,
       RecoveryCancelled, RecoverySucceeded, RecoveryFailed, ValidationCancelled,
       ValidationFailed, ValidationSucceeded
  <2>4. Quiet
    BY <2>2, <2>3, HarmlessIsQuiet
  <2>5. \A i \in DOMAIN timers' : timers'[i].mode # "TransientDisconnectFinal"
    <3>1. UNCHANGED timers \/ timers' = Append(timers, Task("Verification", "TransientDisconnect"))
      BY DEF MutationCompleted, StaleApplyCompleted, ReactivationCompleted, ApplyCompleted,
         ResetCompleted, RefreshRateCompleted, CheckDelayed, RecoveryCancelled,
         RecoverySucceeded, RecoveryFailed, ValidationCancelled, ValidationFailed,
         ValidationSucceeded
    <3> QED BY <3>1, TimersMove DEF RestoreInv
  <2>6. SettleGoesOn
    <3>1. settle' = settle \/ CheckDelayed(settle, Tail(tasks))
      BY DEF MutationCompleted, StaleApplyCompleted, ReactivationCompleted, ApplyCompleted,
         ResetCompleted, RefreshRateCompleted, RecoveryCancelled, RecoverySucceeded,
         RecoveryFailed, ValidationCancelled, ValidationFailed, ValidationSucceeded
    <3>2. /\ settle'.requested = settle.requested /\ settle'.topology = settle.topology
          /\ settle'.finalPending = settle.finalPending
          /\ settle'.deferredFinal = settle.deferredFinal
      BY <2>1, <3>1 DEF CheckDelayed, SettleType
    <3> QED BY <2>4, <3>2 DEF SettleGoesOn, Quiet
  <2>7. ~reset'.completion.done.rollback
    <3>1. CASE ValidationSucceeded
      <4>1. \E x, y, z : reset' = [reset EXCEPT !.pending = x, !.exitAfter = y, !.stray = z]
        BY <3>1 DEF ValidationSucceeded
      <4> QED BY <4>1, BarrierHolds DEF RestoreInv
    <3>2. CASE ResetCompleted
      <4>1. \E x, y : reset' = [reset EXCEPT !.pending = x, !.exitAfter = y]
        BY <3>2 DEF ResetCompleted
      <4> QED BY <4>1, BarrierHolds DEF RestoreInv
    <3>3. CASE ~ValidationSucceeded /\ ~ResetCompleted
      <4>1. \/ UNCHANGED reset \/ reset' = BeginReset(reset)
            \/ \E x : reset' = [reset EXCEPT !.recovery = x]
        BY <3>3 DEF MutationCompleted, StaleApplyCompleted, ReactivationCompleted,
           ApplyCompleted, RefreshRateCompleted, RecoveryCancelled, RecoverySucceeded,
           RecoveryFailed, ValidationCancelled, ValidationFailed
      <4> QED BY <4>1, BarrierHolds DEF RestoreInv
    <3> QED BY <3>1, <3>2, <3>3
  <2>8. Keeps /\ session'.preTopology = session.preTopology
    <3>1. \/ session' = session
          \/ \E b : \/ session' = [session EXCEPT !.reactivating = b]
                    \/ session' = [session EXCEPT !.reapply = b]
      BY DEF MutationCompleted, StaleApplyCompleted, ReactivationCompleted, ApplyCompleted,
         ResetCompleted, RefreshRateCompleted, RecoveryCancelled, RecoverySucceeded,
         RecoveryFailed, ValidationCancelled, ValidationFailed, ValidationSucceeded
    <3>2. session'.request = session.request /\ session'.preTopology = session.preTopology
      BY <2>1, <3>1 DEF SessionType
    <3>3. CASE StaleApplyCompleted
      <4>1. PICK d \in Outcomes(Front) :
              LET staged == [lease EXCEPT !.staged = @ \/ d.staged, !.taskCreated = @ \/ d.armed]
              IN \/ \E x \in BOOLEAN :
                      lease' = [Activated(staged) EXCEPT !.taskCreated = @ \/ x,
                                  !.unconfirmed = TRUE, !.heartbeat = TRUE]
                 \/ \E x : lease' = [staged EXCEPT !.taskCreated = @ /\ ~x]
        BY <3>3 DEF StaleApplyCompleted
      <4> DEFINE staged == [lease EXCEPT !.staged = @ \/ d.staged, !.taskCreated = @ \/ d.armed]
      <4>2. DOMAIN staged = DOMAIN lease /\ staged.onDisconnect = lease.onDisconnect
        BY <2>1 DEF LeaseType
      <4>3. \/ \E x : lease' = [Activated(staged) EXCEPT !.taskCreated = x,
                                  !.unconfirmed = TRUE, !.heartbeat = TRUE]
            \/ \E x : lease' = [staged EXCEPT !.taskCreated = x]
        BY <4>1
      <4> HIDE DEF staged
      <4>4. \/ lease'.onDisconnect = staged.onDisconnect
            \/ lease'.onDisconnect = session.request.restore
        BY <2>1, <4>2, <4>3 DEF LeaseType, Activated
      <4> QED BY <3>2, <4>2, <4>4 DEF Keeps
    <3>4. CASE ~StaleApplyCompleted
      <4>1. \/ lease' = lease
            \/ \E x : \/ lease' = [lease EXCEPT !.staged = x]
                      \/ lease' = [lease EXCEPT !.attempted = x]
            \/ lease' = Retained(lease) \/ ValidationSucceeded
        BY <3>4 DEF MutationCompleted, ReactivationCompleted, ApplyCompleted,
           ResetCompleted, RefreshRateCompleted, RecoveryCancelled, RecoverySucceeded,
           RecoveryFailed, ValidationCancelled, ValidationFailed
      <4>2. ValidationSucceeded => lease'.onDisconnect = lease.onDisconnect
        <5> SUFFICES ASSUME ValidationSucceeded PROVE lease'.onDisconnect = lease.onDisconnect
          OBVIOUS
        <5>1. PICK r : lease' = [armed |-> FALSE, changesPending |-> FALSE,
                         explicit |-> lease.explicit, taskCreated |-> FALSE,
                         unconfirmed |-> FALSE, staged |-> r,
                         onDisconnect |-> lease.onDisconnect, attempted |-> FALSE,
                         heartbeat |-> FALSE]
          BY DEF ValidationSucceeded
        <5> QED BY <5>1
      <4>3. lease'.onDisconnect = lease.onDisconnect
        BY <2>1, <4>1, <4>2 DEF LeaseType, Retained
      <4> QED BY <3>2, <4>3 DEF Keeps
    <3> QED BY <3>2, <3>3, <3>4
  <2>9. frame'.at \notin {"superseded", "decide"} /\ (RollsBack' => RollsBack)
    <3>1. CASE ApplyCompleted
      <4>1. PICK d \in Outcomes(Front) : frame' = [IdleFrame EXCEPT !.at = "finish", !.done = d]
        BY <3>1 DEF ApplyCompleted
      <4>2. frame'.at = "finish" /\ frame'.done = d
        BY <4>1 DEF IdleFrame
      <4>3. d.rollback => Applying("rollback", tasks)
        <5>1. 1 \in DOMAIN tasks /\ Front = tasks[1]
          BY <2>1, SMTT(60) DEF TypeOK, Front
        <5>2. Front \in TaskType
          BY <2>1, FrontTypes DEF TypeOK, Completes, HasTask
        <5> QED BY <2>1, <3>1, <5>1, <5>2, OnlyRollbacks DEF ApplyCompleted, Completes, HasTask,
               Applying
      <4> QED BY <2>4, <4>2, <4>3 DEF RollsBack, Quiet
    <3>2. CASE ~ApplyCompleted
      <4>1. \/ UNCHANGED frame
            \/ \E p \in {"return", "resetDone", "restored", "restoredFollowup"} : frame' = DrainThen(p)
        BY <3>2 DEF MutationCompleted, StaleApplyCompleted, ReactivationCompleted,
           ResetCompleted, RefreshRateCompleted, RecoveryCancelled, RecoverySucceeded,
           RecoveryFailed, ValidationCancelled, ValidationFailed, ValidationSucceeded
      <4>2. \A p : DrainThen(p).at = p
        BY <2>1 DEF DrainThen, FrameType
      <4>3. frame'.at \notin {"superseded", "decide", "finish"}
        <5>1. CASE UNCHANGED frame
          BY <2>1, <5>1
        <5>2. ASSUME NEW p \in {"return", "resetDone", "restored", "restoredFollowup"},
                     frame' = DrainThen(p)
              PROVE  frame'.at \notin {"superseded", "decide", "finish"}
          BY <4>2, <5>2
        <5> QED BY <4>1, <5>1, <5>2
      <4> QED BY <2>4, <4>3 DEF RollsBack, Quiet
    <3> QED BY <3>1, <3>2
  <2>10. Calm
    BY <2>4, <2>5, <2>7, <2>8, <2>9 DEF Calm, Checks, Quiet
  <2> QED BY <2>6, <2>8, <2>10, CalmKeeps

<1>RestoreVerifications.
    ASSUME TypeOK, FenceInv, RestoreInv, VerificationCompleted
    PROVE  RestoreInv'
  <2> USE <1>RestoreVerifications
  <2>1. /\ Completes("Verification") /\ tasks # <<>> /\ UNCHANGED frame /\ frame.at = "idle"
        /\ Ages
    BY DEF Ages, VerificationCompleted, VerificationIgnored, SettlementHolds, SettlementLost,
       SettlementRechecks, SettlementRepairs, BaselineVerified, InitialVerified,
       FailedUnderSettlement, BaselineRepairStarted, BaselineRepairFailed, InitialRetried,
       InitialFailed, Verified, FailedVerification, Completes, HasTask, Idle, Cancel
  <2>2. /\ lease \in LeaseType /\ session \in SessionType /\ settle \in SettleType
        /\ CheckDone \in SettleType
        /\ ~NoSettle.requested /\ ~NoSettle.finalPending /\ ~NoSettle.deferredFinal
    BY SettleOps DEF TypeOK, NoSettle
  <2>3. ~reset'.completion.done.rollback
    <3>1. UNCHANGED reset \/ \E x : reset' = [reset EXCEPT !.recovery = x]
      BY DEF VerificationCompleted, VerificationIgnored, SettlementHolds, SettlementLost,
         SettlementRechecks, SettlementRepairs, BaselineVerified, InitialVerified,
         FailedUnderSettlement, BaselineRepairStarted, BaselineRepairFailed, InitialRetried,
         InitialFailed, Verified, FailedVerification
    <3> QED BY <3>1, BarrierHolds DEF RestoreInv
  <2>4. Keeps /\ session'.preTopology = session.preTopology
    <3>1. \/ session' = session
          \/ \E b : \/ session' = [session EXCEPT !.verified = b]
                    \/ session' = [session EXCEPT !.reapply = b]
          \/ session' = [session EXCEPT !.verified = TRUE, !.applySent = TRUE,
                                        !.verificationSent = TRUE]
          \/ session' = [session EXCEPT !.applySent = TRUE, !.verificationSent = TRUE]
      BY DEF VerificationCompleted, VerificationIgnored, SettlementHolds, SettlementLost,
         SettlementRechecks, SettlementRepairs, BaselineVerified, InitialVerified,
         FailedUnderSettlement, BaselineRepairStarted, BaselineRepairFailed, InitialRetried,
         InitialFailed, FailedReplies, Verified, FailedVerification
    <3>2. session'.request = session.request /\ session'.preTopology = session.preTopology
      BY <2>2, <3>1 DEF SessionType
    <3>3. \/ lease' = lease \/ lease' = [Activated(lease) EXCEPT !.unconfirmed = FALSE]
          \/ \E h : lease' = [Activated(lease) EXCEPT !.unconfirmed = FALSE, !.heartbeat = h]
      BY DEF VerificationCompleted, VerificationIgnored, SettlementHolds, SettlementLost,
         SettlementRechecks, SettlementRepairs, BaselineVerified, InitialVerified,
         FailedUnderSettlement, BaselineRepairStarted, BaselineRepairFailed, InitialRetried,
         InitialFailed, Verified, FailedVerification
    <3>4. lease'.onDisconnect = lease.onDisconnect \/ lease'.onDisconnect = session.request.restore
      BY <2>2, <3>3 DEF LeaseType, Activated
    <3> QED BY <3>2, <3>4 DEF Keeps
  <2>5. ASSUME Quiet, \A i \in DOMAIN timers' : timers'[i].mode # "TransientDisconnectFinal"
        PROVE  Calm
    BY <2>1, <2>3, <2>4, <2>5 DEF Calm, Checks, RollsBack, Quiet
  <2>6. CASE \/ VerificationIgnored \/ BaselineVerified \/ BaselineRepairStarted
             \/ BaselineRepairFailed \/ InitialFailed \/ SettlementRepairs
    <3>1. Harmless
      BY <2>1, <2>6 DEF Harmless, Pops, Dispatches, VerificationIgnored, BaselineVerified,
         BaselineRepairStarted, BaselineRepairFailed, InitialFailed, SettlementRepairs
    <3>2. Quiet /\ Calm
      <4>1. UNCHANGED timers
        BY <2>6 DEF VerificationIgnored, BaselineVerified, BaselineRepairStarted,
           BaselineRepairFailed, InitialFailed, SettlementRepairs, FailedVerification
      <4> QED BY <2>1, <2>5, <3>1, <4>1, HarmlessIsQuiet DEF RestoreInv
    <3>3. settle' = settle \/ settle' = [CheckDone EXCEPT !.repair = TRUE]
      BY <2>6 DEF VerificationIgnored, BaselineVerified, BaselineRepairStarted,
         BaselineRepairFailed, InitialFailed, SettlementRepairs, FailedVerification
    <3>4. /\ settle'.requested = settle.requested /\ settle'.topology = settle.topology
          /\ settle'.deferredFinal = settle.deferredFinal
          /\ settle'.finalPending => settle.finalPending
      BY <2>2, <3>3 DEF CheckDone, SettleType
    <3> QED BY <2>4, <3>2, <3>4, CalmKeeps DEF SettleGoesOn, Quiet
  <2>7. CASE /\ SettlementHolds \/ SettlementLost \/ InitialVerified \/ FailedUnderSettlement
             /\ settle' = NoSettle /\ UNCHANGED timers
             /\ \/ tasks' = Tail(tasks)
                \/ tasks' = Append(Tail(tasks), Task("Recovery", "none"))
    <3>1. Live(Front) /\ gen' = gen
      BY <2>7 DEF SettlementHolds, SettlementLost, InitialVerified, FailedUnderSettlement, Verified
    <3>2. ~Checking("TransientDisconnectFinal", gen', tasks')
      BY <2>1, <2>7, <3>1, CheckGone
    <3>3. Harmless
      BY <2>1, <2>7 DEF Harmless, Pops, Dispatches
    <3>4. Calm
      BY <2>1, <2>5, <2>7, <3>3, HarmlessIsQuiet DEF RestoreInv
    <3> QED BY <2>2, <2>4, <2>7, <3>2, <3>4, CalmKeeps DEF SettleEnds
  <2>8. CASE \/ /\ settle.requested
                /\ NextCheck(settle, Tail(tasks)) \/ NextCheck(CheckDone, Tail(tasks))
             \/ settle' = settle /\ tasks' = Tail(tasks) /\ UNCHANGED timers
    <3>1. /\ settle'.requested = settle.requested /\ settle'.topology = settle.topology
          /\ settle'.deferredFinal = settle.deferredFinal
          /\ settle'.finalPending => settle.finalPending \/ (settle.requested /\ settle.topology)
          /\ \/ tasks' = Tail(tasks)
             \/ /\ settle.topology
                /\ tasks' = Append(Tail(tasks), Task("Verification", "TransientDisconnectFinal"))
          /\ \/ UNCHANGED timers
             \/ timers' = Append(timers, Task("Verification", "TransientDisconnect"))
      <4>1. /\ CheckDone.requested = settle.requested /\ CheckDone.topology = settle.topology
            /\ CheckDone.deferredFinal = settle.deferredFinal
            /\ CheckDone.finalPending => settle.finalPending
        BY <2>2 DEF CheckDone, SettleType
      <4> QED BY <2>2, <2>8, <4>1, NextCheckMoves
    <3>2. /\ Checking("Initial", gen', tasks') => gen' = gen /\ Checking("Initial", gen, tasks)
          /\ Checking("TransientDisconnectFinal", gen', tasks') =>
               \/ gen' = gen /\ Checking("TransientDisconnectFinal", gen, tasks)
               \/ settle.topology
          /\ Applying("rollback", tasks') => Applying("rollback", tasks)
      <4>1. PICK op, mode : op = "Verification" /\ mode = "TransientDisconnectFinal"
        OBVIOUS
      <4>2. op # "Apply" /\ mode # "Initial"
        BY <4>1
      <4>3. Pops \/ (Dispatches(op, mode) /\ settle.topology)
        BY <2>1, <3>1, <4>1 DEF Pops, Dispatches
      <4> QED BY <2>1, <3>1, <4>2, <4>3, ModesMove
    <3>3. \A i \in DOMAIN timers' : timers'[i].mode # "TransientDisconnectFinal"
      BY <3>1, TimersMove DEF RestoreInv
    <3>4. Calm
      BY <2>1, <2>3, <2>4, <3>2, <3>3 DEF Calm, Checks, RollsBack
    <3> QED BY <2>4, <3>1, <3>2, <3>4, CalmKeeps DEF SettleGoesOn
  <2>9. CASE InitialRetried
    <3>1. /\ Live(Front) /\ Front.mode = "Initial" /\ ~settle.requested /\ gen' = gen
          /\ UNCHANGED <<settle, timers, lease>>
          /\ session.reapply \/ session.preTopology
          /\ \/ session.reapply /\ tasks' = Append(Tail(tasks), Task("Apply", "repair"))
             \/ ~session.reapply /\ tasks' = Append(Tail(tasks), Task("Apply", "rollback"))
      BY <2>9 DEF InitialRetried, FailedVerification, Verified
    <3>2. CASE tasks' = Append(Tail(tasks), Task("Apply", "repair"))
      <4>1. Harmless
        BY <2>1, <3>2 DEF Harmless, Dispatches
      <4>2. Quiet /\ Calm
        BY <2>1, <2>5, <3>1, <4>1, HarmlessIsQuiet DEF RestoreInv
      <4> QED BY <2>4, <3>1, <4>2, CalmKeeps DEF SettleGoesOn, Quiet
    <3>3. CASE ~session.reapply /\ tasks' = Append(Tail(tasks), Task("Apply", "rollback"))
      <4>1. Checking("Initial", gen, tasks)
        <5>1. 1 \in DOMAIN tasks /\ Front = tasks[1]
          BY <2>1, SMTT(60) DEF TypeOK, Front
        <5> QED BY <2>1, <3>1, <5>1 DEF Checking, LiveCheck, Live, Completes, HasTask
      <4>2. Owned'
        BY <2>4, <3>1, <3>3, <4>1, PolicyKept DEF RestoreInv, Checks
      <4>3. \A m : Checking(m, gen', tasks') => Checking(m, gen, tasks)
        <5>1. PICK op, mode : op = "Apply" /\ mode = "rollback"
          OBVIOUS
        <5>2. Dispatches(op, mode) /\ op # "Verification"
          BY <2>1, <3>3, <5>1 DEF Dispatches
        <5> QED BY <2>1, <5>2, ModesMove
      <4> QED BY <2>1, <2>3, <2>4, <3>1, <4>2, <4>3, PolicyKept DEF RestoreInv, Checks
    <3> QED BY <3>1, <3>2, <3>3
  <2>10. CASE SettlementHolds \/ SettlementLost
    <3>1. /\ settle' = NoSettle /\ UNCHANGED timers
          /\ tasks' = Tail(tasks) \/ tasks' = Append(Tail(tasks), Task("Recovery", "none"))
      BY <2>10 DEF SettlementHolds, SettlementLost
    <3> QED BY <2>7, <2>10, <3>1
  <2>11. CASE InitialVerified \/ FailedUnderSettlement
    <3>1. \/ settle.requested /\ NextCheck(settle, Tail(tasks))
          \/ /\ settle' = NoSettle \/ settle' = settle
             /\ tasks' = Tail(tasks) /\ UNCHANGED timers
      BY <2>11 DEF InitialVerified, FailedUnderSettlement
    <3> QED BY <2>7, <2>8, <2>11, <3>1
  <2>12. CASE SettlementRechecks
    <3>1. NextCheck(CheckDone, Tail(tasks)) /\ Live(Front) /\ IsTransient(Front)
      BY <2>12 DEF SettlementRechecks, Verified, IsTransient
    <3>2. settle.requested
      BY <2>1, <3>1, CheckFront
    <3> QED BY <2>8, <3>1, <3>2
  <2> QED BY <2>6, <2>9, <2>10, <2>11, <2>12 DEF VerificationCompleted

<1>RestoreFinish.
    ASSUME TypeOK, FenceInv, RestoreInv, Finish
    PROVE  RestoreInv'
  <2> USE <1>RestoreFinish
  <2> DEFINE d == frame.done
             mutated == d.status = "Ok" \/ d.changed
  <2>1. /\ frame \in FrameType /\ lease \in LeaseType /\ session \in SessionType
        /\ settle \in SettleType /\ reset \in ResetType /\ d.armed \in BOOLEAN
        /\ frame.at = "finish" /\ UNCHANGED <<gen, tasks, timers>>
    BY DEF TypeOK, FrameType, Completion, Finish, At
  <2>2. \A m : ~Checking(m, gen, tasks)
    <3>1. ~HasLive(gen, tasks)
      BY <2>1 DEF FenceInv, FrameInv, AnyLive
    <3> QED BY <3>1 DEF Checking, HasLive
  <2>3. PICK next \in {"rolledBack", "superseded", "decide"} :
          /\ frame' = [frame EXCEPT !.at = next, !.baseline = identity.inFlight]
          /\ next = "superseded" => ~d.rollback
          /\ \/ UNCHANGED reset
             \/ next = "superseded" /\ reset' = [reset EXCEPT !.completion = [held |-> TRUE, done |-> d]]
    BY DEF Finish
  <2>4. frame'.at = next /\ frame'.at # "finish" /\ frame'.done = d
    <3>1. frame'.at = next /\ frame'.done = d
      BY <2>1, <2>3 DEF FrameType
    <3> QED BY <2>3, <3>1
  <2>5. ~reset'.completion.done.rollback
    <3>1. CASE UNCHANGED reset
      BY <3>1 DEF RestoreInv
    <3>2. CASE next = "superseded" /\ reset' = [reset EXCEPT !.completion = [held |-> TRUE, done |-> d]]
      <4>1. reset'.completion.done = d
        BY <2>1, <3>2 DEF ResetType
      <4> QED BY <2>3, <3>2, <4>1
    <3> QED BY <2>3, <3>1, <3>2
  <2>6. session'.request = session.request
    BY <2>1 DEF Finish, SessionType
  <2>7. /\ mutated => lease'.onDisconnect = session.request.restore
        /\ ~mutated => lease'.onDisconnect = lease.onDisconnect
    <3> DEFINE guarded == [lease EXCEPT !.taskCreated = @ \/ d.armed]
    <3>1. PICK created \in BOOLEAN :
            lease' = IF mutated THEN [Activated(guarded) EXCEPT !.taskCreated = @ \/ created]
                     ELSE guarded
      BY DEF Finish
    <3>2. guarded \in LeaseType /\ guarded.onDisconnect = lease.onDisconnect
      BY <2>1 DEF LeaseType
    <3> HIDE DEF guarded, mutated
    <3>3. \/ mutated /\ lease' = [Activated(guarded) EXCEPT !.taskCreated = @ \/ created]
          \/ ~mutated /\ lease' = guarded
      BY <3>1
    <3> QED BY <3>2, <3>3 DEF LeaseType, Activated
  <2>8. Keeps /\ (mutated => Owned')
    BY <2>6, <2>7 DEF Keeps, Owned
  <2>9. /\ settle'.requested = settle.requested /\ settle'.finalPending = settle.finalPending
        /\ settle'.deferredFinal = settle.deferredFinal
        /\ settle.topology => settle'.topology
        /\ settle'.topology => settle.topology \/ (d.rollback /\ settle.requested)
    <3>1. \/ settle' = settle
          \/ /\ d.rollback /\ settle.requested
             /\ settle' = [settle EXCEPT !.topology = TRUE, !.rollback = TRUE]
      BY DEF Finish
    <3> QED BY <2>1, <3>1 DEF SettleType
  <2>10. d.status = "Ok" => Owned'
    BY <2>8
  <2>11. RollsBack' => RollsBack
    BY <2>1, <2>4 DEF RollsBack
  <2>12. d.rollback => RollsBack
    BY <2>1 DEF RollsBack
  <2>13. Checks' => d.status = "Ok"
    BY <2>1, <2>2, <2>4 DEF Checks
  <2> HIDE DEF d, mutated
  <2>14. Accepted(session.request)' => Owned'
    BY <2>8, PolicyKept DEF RestoreInv
  <2>15. RollsBack' => Owned'
    BY <2>8, <2>11, PolicyKept DEF RestoreInv
  <2>16. /\ settle'.requested /\ (settle'.topology \/ RollsBack') => lease'.onDisconnect /\ Owned'
    BY <2>8, <2>9, <2>11, <2>12, PolicyKept DEF RestoreInv
  <2> QED BY <2>1, <2>2, <2>5, <2>9, <2>10, <2>13, <2>14, <2>15, <2>16 DEF RestoreInv

<1>RestoreContinue.
    ASSUME TypeOK, FenceInv, RestoreInv, Continue
    PROVE  RestoreInv'
  <2> USE <1>RestoreContinue
  <2>1. CASE Finish
    BY <2>1, <1>RestoreFinish
  <2>2. CASE ~Finish
    <3>1. /\ frame \in FrameType /\ lease \in LeaseType /\ session \in SessionType
          /\ settle \in SettleType /\ reset \in ResetType /\ Resumed \in SettleType
          /\ [Resumed EXCEPT !.deferredFinal = FALSE] \in SettleType
          /\ ~NoSettle.requested /\ ~NoSettle.finalPending /\ ~NoSettle.deferredFinal
      <4>1. settle \in SettleType /\ Resumed \in SettleType
        BY SettleOps DEF TypeOK
      <4>2. [Resumed EXCEPT !.deferredFinal = FALSE] \in SettleType
        <5> HIDE DEF Resumed
        <5> QED BY <4>1 DEF SettleType
      <4> QED BY <4>1, <4>2 DEF TypeOK, NoSettle
    <3>2. Ages
      BY <2>2 DEF Ages, Continue, FinishApply, RolledBack, AfterReturn, AfterRollback,
         AfterSuperseded, DecideBaselineFailed, DecideVerify, DecideSettling, DecideFailed,
         AfterSettling, AfterLastRepair, AfterLastFailure, ConcludeHdr, ConcludeFailed,
         AfterReset, ResetExits, ResetResumes, AfterRestored, AfterRestoredFollowup,
         PrepareCancel, DeferSettlement, Cancel
    <3>3. Keeps /\ session'.preTopology = session.preTopology
      <4>1. \/ session' = session
            \/ \E b : \/ session' = [session EXCEPT !.reapply = b]
                      \/ session' = [session EXCEPT !.verified = b]
            \/ session' = [session EXCEPT !.applySent = TRUE, !.verificationSent = TRUE]
            \/ session' = [session EXCEPT !.hdrTried = TRUE, !.request.hdr = FALSE]
        BY <2>2 DEF Continue, FinishApply, RolledBack, AfterReturn, AfterRollback,
           AfterSuperseded, DecideBaselineFailed, DecideVerify, DecideSettling, DecideFailed,
           AfterSettling, AfterLastRepair, AfterLastFailure, ConcludeHdr, ConcludeFailed,
           AfterReset, ResetExits, ResetResumes, AfterRestored, AfterRestoredFollowup,
           FailedReplies
      <4>2. /\ session'.request.restore = session.request.restore
            /\ session'.request.layout = session.request.layout
            /\ session'.preTopology = session.preTopology
        BY <3>1, <4>1 DEF SessionType, Request
      <4>3. \/ lease' = lease \/ lease' = [Activated(lease) EXCEPT !.unconfirmed = FALSE]
            \/ \E a : lease' = [lease EXCEPT !.heartbeat = a]
            \/ \E a, b : lease' = [lease EXCEPT !.heartbeat = a, !.taskCreated = b]
        BY <2>2 DEF Continue, FinishApply, RolledBack, AfterReturn, AfterRollback,
           AfterSuperseded, DecideBaselineFailed, DecideVerify, DecideSettling, DecideFailed,
           AfterSettling, AfterLastRepair, AfterLastFailure, ConcludeHdr, ConcludeFailed,
           AfterReset, ResetExits, ResetResumes, AfterRestored, AfterRestoredFollowup
      <4>4. lease'.onDisconnect = lease.onDisconnect \/ lease'.onDisconnect = session.request.restore
        BY <3>1, <4>3 DEF LeaseType, Activated
      <4> QED BY <4>2, <4>4 DEF Keeps
    <3>4. ~reset'.completion.done.rollback
      <4>1. \/ UNCHANGED reset \/ reset' = BeginReset(reset)
            \/ \E x : \/ reset' = [reset EXCEPT !.exitAfter = x]
                      \/ reset' = [reset EXCEPT !.stray = x]
            \/ reset' = [reset EXCEPT !.completion = NoneHeld]
        BY <2>2 DEF Continue, FinishApply, RolledBack, AfterReturn, AfterRollback,
           AfterSuperseded, DecideBaselineFailed, DecideVerify, DecideSettling, DecideFailed,
           AfterSettling, AfterLastRepair, AfterLastFailure, ConcludeHdr, ConcludeFailed,
           AfterReset, ResetExits, ResetResumes, AfterRestored, AfterRestoredFollowup
      <4> QED BY <4>1, BarrierHolds DEF RestoreInv
    <3>5. /\ frame'.at = "finish" => AfterReset
          /\ frame'.at \in {"superseded", "decide"} => frame'.at = "decide" /\ AfterSuperseded
      BY <2>2, ContinueBusy DEF Busy
    <3>6. /\ Applying("rollback", tasks') => Applying("rollback", tasks)
          => (RollsBack' => RollsBack)
      <4>1. AfterReset => ~(frame'.at = "finish" /\ frame'.done.rollback)
        <5> SUFFICES ASSUME AfterReset, frame'.at = "finish" PROVE ~frame'.done.rollback
          OBVIOUS
        <5>1. \/ frame' = [IdleFrame EXCEPT !.at = "finish", !.caller = "reset",
                                            !.done = reset.completion.done]
              \/ frame' = [IdleFrame EXCEPT !.at = "resetTail"]
          BY DEF AfterReset
        <5>2. frame'.done = reset.completion.done
          BY <5>1 DEF IdleFrame
        <5> QED BY <5>2 DEF RestoreInv
      <4> QED BY <3>5, <4>1 DEF RollsBack
    <3>7. (Checking("Initial", gen', tasks') => Checking("Initial", gen, tasks)) => (Checks' => Checks)
      <4>1. AfterSuperseded /\ frame'.at = "decide" => frame.at = "superseded" /\ frame'.done = frame.done
        <5> SUFFICES ASSUME AfterSuperseded, frame'.at = "decide"
                     PROVE  frame.at = "superseded" /\ frame'.done = frame.done
          OBVIOUS
        <5>1. /\ frame.at = "superseded"
              /\ frame' = [frame EXCEPT !.at = "decide"] \/ frame' = Returned
          BY DEF AfterSuperseded, After
        <5>2. Returned.at # "decide"
          BY DEF Returned, IdleFrame
        <5> QED BY <3>1, <5>1, <5>2 DEF FrameType
      <4> QED BY <3>5, <4>1 DEF Checks
    <3>8. ASSUME Quiet, UNCHANGED timers PROVE Calm
      BY <3>3, <3>4, <3>6, <3>7, <3>8 DEF Calm, Quiet, RestoreInv
    <3>9. ASSUME Harmless, UNCHANGED timers,
                 \/ settle' = settle \/ settle' = SettleDeferred \/ settle' = Resumed
                 \/ \E b : \/ settle' = [settle EXCEPT !.repair = b]
                           \/ settle' = [settle EXCEPT !.deferredByReset = b]
          PROVE  RestoreInv'
      <4>1. Quiet /\ Calm
        BY <3>2, <3>8, <3>9, HarmlessIsQuiet
      <4>2. /\ settle'.requested = settle.requested /\ settle'.topology = settle.topology
            /\ settle'.finalPending \/ settle'.deferredFinal =>
                 settle.finalPending \/ settle.deferredFinal
        BY <3>1, <3>9 DEF SettleDeferred, Resumed, SettleType
      <4> QED BY <3>3, <4>1, <4>2, CalmKeeps DEF SettleGoesOn, Quiet
    <3>10. ASSUME Harmless, UNCHANGED timers, settle' = NoSettle,
                  ~settle.pending \/ ~HasLive(gen, tasks)
           PROVE  RestoreInv'
      <4>1. Quiet /\ Calm
        BY <3>2, <3>8, <3>10, HarmlessIsQuiet
      <4>2. ~Checking("TransientDisconnectFinal", gen, tasks)
        BY <3>10, FinalIsFree DEF Checking, HasLive
      <4> QED BY <3>1, <3>3, <3>10, <4>1, <4>2, CalmKeeps DEF SettleEnds, Quiet
    <3>11. ASSUME settle.requested,
                  \/ NextCheck(settle, tasks) \/ NextCheck(Resumed, tasks)
                  \/ /\ settle.deferredFinal
                     /\ FinalCheck([Resumed EXCEPT !.deferredFinal = FALSE], tasks)
           PROVE  RestoreInv'
      <4> DEFINE x == [Resumed EXCEPT !.deferredFinal = FALSE]
      <4>1. /\ Resumed.requested = settle.requested /\ Resumed.topology = settle.topology
            /\ Resumed.deferredFinal = settle.deferredFinal
            /\ Resumed.finalPending = settle.finalPending
        BY <3>1 DEF Resumed, SettleType
      <4>2. /\ x.requested = settle.requested /\ x.topology = settle.topology
            /\ x.finalPending = settle.finalPending /\ ~x.deferredFinal /\ x \in SettleType
        <5> HIDE DEF Resumed
        <5> QED BY <3>1, <4>1 DEF SettleType
      <4> HIDE DEF x
      <4>3. settle.deferredFinal => settle.topology
        BY DEF RestoreInv
      <4>4. /\ settle'.requested = settle.requested /\ settle'.topology = settle.topology
            /\ settle'.deferredFinal => settle.deferredFinal
            /\ settle'.finalPending => settle.finalPending \/ settle.topology
            /\ \/ tasks' = tasks
               \/ /\ settle.topology
                  /\ tasks' = Append(tasks, Task("Verification", "TransientDisconnectFinal"))
            /\ \/ UNCHANGED timers
               \/ timers' = Append(timers, Task("Verification", "TransientDisconnect"))
        <5>1. CASE NextCheck(settle, tasks)
          BY <3>1, <5>1, NextCheckMoves
        <5>2. CASE NextCheck(Resumed, tasks)
          BY <3>1, <4>1, <5>2, NextCheckMoves
        <5>3. CASE settle.deferredFinal /\ FinalCheck(x, tasks)
          BY <4>2, <4>3, <5>3, NextCheckMoves
        <5> QED BY <3>11, <5>1, <5>2, <5>3 DEF x
      <4>5. /\ Checking("Initial", gen', tasks') => Checking("Initial", gen, tasks)
            /\ Checking("TransientDisconnectFinal", gen', tasks') =>
                 Checking("TransientDisconnectFinal", gen, tasks) \/ settle.topology
            /\ Applying("rollback", tasks') => Applying("rollback", tasks)
        <5>1. PICK op, mode : op = "Verification" /\ mode = "TransientDisconnectFinal"
          OBVIOUS
        <5>2. op # "Apply" /\ mode # "Initial"
          BY <5>1
        <5>3. Pops \/ (Dispatches(op, mode) /\ settle.topology)
          BY <4>4, <5>1 DEF Pops, Dispatches
        <5> QED BY <3>2, <4>4, <5>2, <5>3, ModesMove
      <4>6. \A i \in DOMAIN timers' : timers'[i].mode # "TransientDisconnectFinal"
        BY <4>4, TimersMove DEF RestoreInv
      <4>7. Calm
        BY <3>3, <3>4, <3>6, <3>7, <4>5, <4>6 DEF Calm
      <4> QED BY <3>3, <3>11, <4>4, <4>5, <4>7, CalmKeeps DEF SettleGoesOn
    <3>12. CASE DecideVerify
      <4>1. /\ frame.at = "decide" /\ frame.done.status = "Ok" /\ UNCHANGED <<settle, timers>>
            /\ \E op, mode : /\ Dispatches(op, mode)
                             /\ op # "Apply" /\ mode # "TransientDisconnectFinal"
        <5>1. /\ frame.at = "decide" /\ frame.done.status = "Ok" /\ UNCHANGED <<settle, timers>>
              /\ \/ tasks' = Append(tasks, Task("Verification", "BaselineTopologyRepair"))
                 \/ tasks' = Append(tasks, Task("Verification", "Initial"))
          BY <3>12 DEF DecideVerify, At, Failed
        <5>2. PICK op, mode : /\ op = "Verification" /\ tasks' = Append(tasks, Task(op, mode))
                              /\ mode = "BaselineTopologyRepair" \/ mode = "Initial"
          BY <5>1
        <5>3. op # "Apply" /\ mode # "TransientDisconnectFinal"
          BY <5>2
        <5> QED BY <5>1, <5>2, <5>3 DEF Dispatches
      <4>2. Checks
        BY <4>1 DEF Checks
      <4>3. /\ Applying("rollback", tasks') => Applying("rollback", tasks)
            /\ Checking("TransientDisconnectFinal", gen', tasks') =>
                 Checking("TransientDisconnectFinal", gen, tasks)
        <5>1. PICK op, mode : /\ Dispatches(op, mode)
                              /\ op # "Apply" /\ mode # "TransientDisconnectFinal"
          BY <4>1
        <5> QED BY <3>2, <5>1, ModesMove
      <4>4. Calm
        BY <3>3, <3>4, <3>6, <4>1, <4>2, <4>3 DEF Calm, RestoreInv
      <4> QED BY <3>3, <4>1, <4>3, <4>4, CalmKeeps DEF SettleGoesOn
    <3>13. CASE AfterLastRepair \/ AfterLastFailure
      <4>1. /\ frame.at \in {"repairOk", "failed"} /\ UNCHANGED <<tasks, timers>>
            /\ settle' = NoSettle
        BY <3>13 DEF AfterLastRepair, AfterLastFailure, After
      <4>2. ~HasLive(gen, tasks)
        BY <4>1, SMTT(60) DEF FenceInv, FrameInv, AnyLive
      <4> QED BY <3>10, <4>1, <4>2 DEF Harmless, Pops
    <3>14. CASE \/ RolledBack \/ AfterReturn \/ AfterSuperseded \/ DecideBaselineFailed
                \/ DecideSettling \/ DecideFailed \/ ConcludeHdr \/ ConcludeFailed \/ AfterReset
                \/ ResetExits \/ AfterRestored \/ AfterRestoredFollowup
      <4>1. Harmless /\ UNCHANGED timers
        BY <3>14 DEF Harmless, Pops, Dispatches, RolledBack, AfterReturn, AfterSuperseded,
           DecideBaselineFailed, DecideSettling, DecideFailed, ConcludeHdr, ConcludeFailed,
           AfterReset, ResetExits, AfterRestored, AfterRestoredFollowup, DispatchApply
      <4>2. settle' = settle \/ \E b : settle' = [settle EXCEPT !.repair = b]
        BY <3>14 DEF RolledBack, AfterReturn, AfterSuperseded,
           DecideBaselineFailed, DecideSettling, DecideFailed, ConcludeHdr, ConcludeFailed,
           AfterReset, ResetExits, AfterRestored, AfterRestoredFollowup
      <4> QED BY <3>9, <4>1, <4>2
    <3>15. CASE AfterRollback \/ AfterSettling \/ ResetResumes
      <4>1. \/ /\ UNCHANGED <<tasks, timers>>
               /\ \/ settle' = settle \/ settle' = SettleDeferred \/ settle' = Resumed
                  \/ \E b : settle' = [settle EXCEPT !.deferredByReset = b]
            \/ UNCHANGED <<tasks, timers>> /\ settle' = NoSettle /\ CheckRefused(Resumed)
            \/ /\ settle.requested
               /\ \/ NextCheck(settle, tasks) \/ NextCheck(Resumed, tasks)
                  \/ /\ settle.deferredFinal
                     /\ FinalCheck([Resumed EXCEPT !.deferredFinal = FALSE], tasks)
        <5>1. CASE AfterRollback
          BY <5>1 DEF AfterRollback, SettlesNow, NextCheck
        <5>2. CASE AfterSettling
          BY <5>2 DEF AfterSettling, SettlesNow, DeferSettlement
        <5>3. CASE ResetResumes
          BY <5>3 DEF ResetResumes, ResumesSettlement, SettlesNow
        <5> QED BY <3>15, <5>1, <5>2, <5>3
      <4>2. CheckRefused(Resumed) => ~settle.pending
        BY <3>1 DEF CheckRefused, Resumed, SettleType
      <4>3. UNCHANGED tasks => Harmless
        BY DEF Harmless, Pops
      <4> QED BY <3>9, <3>10, <3>11, <4>1, <4>2, <4>3
    <3> QED BY <2>2, <3>12, <3>13, <3>14, <3>15 DEF Continue, FinishApply
  <2> QED BY <2>1, <2>2

<1>RestoreElsewhere.
    ASSUME TypeOK, FenceInv, RestoreInv, Elsewhere
    PROVE  RestoreInv'
  <2> USE <1>RestoreElsewhere
  <2>1. /\ lease \in LeaseType /\ session \in SessionType /\ settle \in SettleType
        /\ reset \in ResetType /\ tasks \in Seq(TaskType) /\ timers \in Seq(TaskType)
    BY DEF TypeOK
  <2>2. UNCHANGED frame /\ Ages
    BY DEF Ages, Elsewhere, ClientReactivate, ClientRevert, ClientRefreshRate,
       ClientSnapshot, ClientPark, ApplyReactivation, RefreshRateStarted, SnapshotTaken, Park,
       RevertStale, DrainDropsStale, DrainDropsRepair, DisplayEvent, BaselineReturned,
       IdentityUnchanged, IdentityQueued, IdentityReplaced, EventKept, EventReopens,
       RecoveryEvent, Tick, TickReconciles, TickDiscards, TickExpires, TickRetries, Ticks,
       RestartRecovery, Time, WindowCloses, QuietEnds, GraceEnds, notTime, Connection, Connect,
       Retire, Stop, DisconnectSettles, DisconnectReverts, DisconnectIdle, Disconnects, Worker,
       WorkerGuards, WorkerTouches, RecoveryEnters, RecoveryTouches, TimerFires, fsmVars,
       Cancel, PrepareCancel
  <2>3. /\ session'.request = session.request
        /\ session'.preTopology => session.preTopology
        /\ lease'.onDisconnect = lease.onDisconnect
    <3>1. \/ session' = session
          \/ \E b : \/ session' = [session EXCEPT !.reapply = b]
                    \/ session' = [session EXCEPT !.reactivating = b]
                    \/ session' = [session EXCEPT !.recent = b]
          \/ session' = [session EXCEPT
               !.preTopology = @ /\ ~(session.verified /\ IsExclusive(session.request)),
               !.reapply = TRUE]
      BY DEF Elsewhere, ClientReactivate, ClientRevert, ClientRefreshRate,
         ClientSnapshot, ClientPark, ApplyReactivation, RefreshRateStarted, SnapshotTaken, Park,
         RevertStale, DrainDropsStale, DrainDropsRepair, DisplayEvent, BaselineReturned,
         IdentityUnchanged, IdentityQueued, IdentityReplaced, ReapplyIdentity, EventKept,
         EventReopens, RecoveryEvent, Tick, TickReconciles, TickDiscards, TickExpires,
         TickRetries, Ticks, Time, WindowCloses, QuietEnds, GraceEnds, notTime, Connection,
         Connect, Retire, Stop, DisconnectSettles, DisconnectReverts, DisconnectIdle,
         Disconnects, Worker, WorkerGuards, WorkerTouches, RecoveryEnters, RecoveryTouches,
         TimerFires, fsmVars
    <3>2. session'.request = session.request /\ (session'.preTopology => session.preTopology)
      <4> DEFINE kept == session.preTopology /\ ~(session.verified /\ IsExclusive(session.request))
      <4>1. kept => session.preTopology
        OBVIOUS
      <4>2. \/ session' = session
            \/ \E b : \/ session' = [session EXCEPT !.reapply = b]
                      \/ session' = [session EXCEPT !.reactivating = b]
                      \/ session' = [session EXCEPT !.recent = b]
            \/ session' = [session EXCEPT !.preTopology = kept, !.reapply = TRUE]
        BY <2>1, <3>1
      <4> HIDE DEF kept
      <4> QED BY <2>1, <4>1, <4>2 DEF SessionType
    <3>3. \/ lease' = lease
          \/ \E b : lease' = [lease EXCEPT !.heartbeat = b] \/ lease' = [lease EXCEPT !.attempted = b]
      BY DEF Elsewhere, ClientReactivate, ClientRevert, ClientRefreshRate,
         ClientSnapshot, ClientPark, ApplyReactivation, RefreshRateStarted, SnapshotTaken, Park,
         RevertStale, DrainDropsStale, DrainDropsRepair, DisplayEvent, BaselineReturned,
         IdentityUnchanged, IdentityQueued, IdentityReplaced, EventKept,
         EventReopens, RecoveryEvent, Tick, TickReconciles, TickDiscards, TickExpires,
         TickRetries, Ticks, Time, WindowCloses, QuietEnds, GraceEnds, notTime, Connection,
         Connect, Retire, Stop, DisconnectSettles, DisconnectReverts, DisconnectIdle,
         Disconnects, Worker, WorkerGuards, WorkerTouches, RecoveryEnters, RecoveryTouches,
         TimerFires, fsmVars
    <3> QED BY <2>1, <3>2, <3>3 DEF LeaseType
  <2>4. Keeps
    BY <2>3 DEF Keeps
  <2>5. ~reset'.completion.done.rollback
    <3>1. UNCHANGED reset \/ \E x : reset' = [reset EXCEPT !.recovery = x]
      BY DEF Elsewhere, ClientReactivate, ClientRevert, ClientRefreshRate,
         ClientSnapshot, ClientPark, ApplyReactivation, RefreshRateStarted, SnapshotTaken, Park,
         RevertStale, DrainDropsStale, DrainDropsRepair, DisplayEvent, BaselineReturned,
         IdentityUnchanged, IdentityQueued, IdentityReplaced, EventKept, EventReopens,
         RestartRecovery, RecoveryEvent, Tick, TickReconciles, TickDiscards, TickExpires,
         TickRetries, Ticks, Time, WindowCloses, QuietEnds, GraceEnds, notTime, Connection,
         Connect, Retire, Stop, DisconnectSettles, DisconnectReverts, DisconnectIdle,
         Disconnects, Worker, WorkerGuards, WorkerTouches, RecoveryEnters, RecoveryTouches,
         TimerFires, fsmVars
    <3> QED BY <3>1, BarrierHolds DEF RestoreInv
  <2>6. ASSUME /\ Checking("Initial", gen', tasks') => Checking("Initial", gen, tasks)
               /\ Checking("TransientDisconnectFinal", gen', tasks') =>
                    Checking("TransientDisconnectFinal", gen, tasks)
               /\ Applying("rollback", tasks') => Applying("rollback", tasks),
               \A i \in DOMAIN timers' : timers'[i].mode # "TransientDisconnectFinal",
               UNCHANGED settle
        PROVE  RestoreInv'
    <3>1. (Checks' => Checks) /\ (RollsBack' => RollsBack)
      BY <2>2, <2>6 DEF Checks, RollsBack
    <3>2. Calm
      BY <2>3, <2>5, <2>6, <3>1 DEF Calm
    <3> QED BY <2>4, <2>6, <3>2, CalmKeeps DEF SettleGoesOn
  <2>7. CASE DisconnectSettles
    <3>1. /\ ~settle.requested /\ lease.onDisconnect /\ UNCHANGED tasks
          /\ \/ UNCHANGED timers
             \/ timers' = Append(timers, Task("Verification", "TransientDisconnect"))
          /\ \/ settle' = Claimed \/ settle' = [Claimed EXCEPT !.deferredByReset = TRUE]
             \/ settle' = [Claimed EXCEPT !.next = @ + 1, !.pending = TRUE]
      BY <2>7 DEF DisconnectSettles, Settles, CheckDelayed
    <3>2. /\ Claimed \in SettleType /\ Claimed.topology = HasTopology(session.request)
          /\ Claimed.finalPending = settle.finalPending
          /\ Claimed.deferredFinal = settle.deferredFinal
      <4>1. Claimed \in SettleType
        BY <2>1, SettleOps
      <4> QED BY <2>1, <4>1 DEF Claimed, SettleType
    <3>3. /\ settle'.topology = Claimed.topology /\ settle'.finalPending = Claimed.finalPending
          /\ settle'.deferredFinal = Claimed.deferredFinal
      <4> HIDE DEF Claimed
      <4> QED BY <3>1, <3>2 DEF SettleType
    <3>4. ~settle'.finalPending /\ ~settle'.deferredFinal
      BY <3>1, <3>2, <3>3 DEF RestoreInv
    <3>5. settle'.topology => Owned
      BY <3>2, <3>3 DEF RestoreInv, HasTopology, Accepted, HasConfiguration
    <3>6. Quiet /\ ~Checking("TransientDisconnectFinal", gen, tasks)
      BY <2>2, <3>1, HarmlessIsQuiet, FinalIsFree DEF Harmless, Pops
    <3>7. (Checks' => Checks) /\ (RollsBack' => RollsBack)
      BY <2>2, <3>6 DEF Quiet, Checks, RollsBack
    <3>8. \A i \in DOMAIN timers' : timers'[i].mode # "TransientDisconnectFinal"
      BY <3>1, TimersMove DEF RestoreInv
    <3>9. (Owned => Owned') /\ (Accepted(session.request)' => Accepted(session.request))
      BY <2>4, PolicyKept
    <3>10. settle'.requested /\ (settle'.topology \/ RollsBack') => lease'.onDisconnect /\ Owned'
      BY <2>3, <3>1, <3>5, <3>7, <3>9 DEF RestoreInv
    <3> QED BY <2>3, <2>5, <3>4, <3>6, <3>7, <3>8, <3>9, <3>10 DEF RestoreInv, Quiet
  <2>8. CASE WorkerGuards \/ WorkerTouches \/ RecoveryEnters \/ RecoveryTouches
    <3>1. /\ tasks # <<>> /\ gen' = gen /\ UNCHANGED <<settle, timers>>
          /\ \E p, armed : tasks' = [tasks EXCEPT ![1].phase = p, ![1].armed = armed]
      BY <2>8 DEF WorkerGuards, WorkerTouches, RecoveryEnters, RecoveryTouches, FrontPhase,
         HasTask, fsmVars
    <3>2. /\ DOMAIN tasks' = DOMAIN tasks
          /\ \A i \in DOMAIN tasks : /\ tasks'[i].op = tasks[i].op /\ tasks'[i].mode = tasks[i].mode
                                     /\ tasks'[i].gen = tasks[i].gen
      BY <2>1, <3>1, SMTT(60) DEF TaskType
    <3>3. /\ \A m : Checking(m, gen', tasks') => Checking(m, gen, tasks)
          /\ Applying("rollback", tasks') => Applying("rollback", tasks)
      BY <3>1, <3>2 DEF Checking, Applying, LiveCheck
    <3> QED BY <2>6, <3>1, <3>3 DEF RestoreInv
  <2>9. CASE TimerFires
    <3>1. /\ timers # <<>> /\ gen' = gen /\ UNCHANGED settle /\ timers' = Tail(timers)
          /\ tasks' = tasks \/ tasks' = Append(tasks, Head(timers))
      BY <2>9 DEF TimerFires
    <3>2. PICK t : t = Head(timers)
      OBVIOUS
    <3>3. t.op = "Verification" /\ t.mode = "TransientDisconnect"
      <4>1. 1 \in DOMAIN timers /\ t = timers[1]
        BY <2>1, <3>1, <3>2, SMTT(60)
      <4>2. t.op = "Verification" /\ IsTransient(t)
        BY <4>1 DEF FenceInv, QueueInv, QueueOK
      <4> QED BY <4>1, <4>2 DEF IsTransient, RestoreInv
    <3>4. t.op # "Apply" /\ t.mode # "Initial" /\ t.mode # "TransientDisconnectFinal"
      BY <3>3
    <3>5. \A i \in DOMAIN tasks' : tasks'[i] = t \/ (i \in DOMAIN tasks /\ tasks'[i] = tasks[i])
      BY <2>1, <3>1, <3>2, SMTT(60)
    <3>6. \A i \in DOMAIN timers' : timers'[i].mode # "TransientDisconnectFinal"
      BY <3>1, TimersMove DEF RestoreInv
    <3> QED BY <2>6, <3>1, <3>4, <3>5, <3>6 DEF Checking, Applying
  <2>10. CASE ~(DisconnectSettles \/ Worker)
    <3>1. Harmless /\ UNCHANGED <<settle, timers>>
      <4>1. UNCHANGED <<settle, timers>>
        BY <2>10 DEF Elsewhere, ClientReactivate, ClientRevert, ClientRefreshRate,
           ClientSnapshot, ClientPark, ApplyReactivation, RefreshRateStarted, SnapshotTaken, Park,
           RevertStale, DrainDropsStale, DrainDropsRepair, DisplayEvent, BaselineReturned,
           IdentityUnchanged, IdentityQueued, IdentityReplaced, EventKept, EventReopens,
           RecoveryEvent, Tick, TickReconciles, TickDiscards, TickExpires,
           TickRetries, Ticks, Time, WindowCloses, QuietEnds, GraceEnds, notTime, Connection,
           Connect, Retire, Stop, DisconnectReverts, DisconnectIdle
      <4>2. CASE ClientReactivate \/ IdentityReplaced \/ ClientRefreshRate
        BY <4>2 DEF ClientReactivate, ApplyReactivation, IdentityReplaced, ReapplyIdentity,
           DispatchApply, ClientRefreshRate, RefreshRateStarted, Harmless, Dispatches
      <4>3. CASE BaselineReturned
        BY <4>3 DEF BaselineReturned, Harmless, Dispatches
      <4>4. CASE EventReopens \/ TickReconciles \/ TickRetries
        <5>1. tasks' = Append(tasks, Task("Recovery", "none"))
          BY <4>4 DEF EventReopens, TickReconciles, TickRetries, RestartRecovery, StartRecovery
        <5> QED BY <4>1, <5>1 DEF Harmless, Dispatches
      <4>5. CASE ~(\/ ClientReactivate \/ IdentityReplaced \/ ClientRefreshRate
                   \/ BaselineReturned \/ EventReopens \/ TickReconciles \/ TickRetries)
        BY <2>10, <4>5 DEF Harmless, Pops, Elsewhere, ClientRevert,
           ClientSnapshot, ClientPark, SnapshotTaken, Park,
           RevertStale, DrainDropsStale, DrainDropsRepair, DisplayEvent,
           IdentityUnchanged, IdentityQueued, EventKept,
           RecoveryEvent, Tick, TickDiscards, TickExpires,
           Ticks, Time, WindowCloses, QuietEnds, GraceEnds, notTime, Connection,
           Connect, Retire, Stop, DisconnectReverts, DisconnectIdle
      <4> QED BY <4>1, <4>2, <4>3, <4>4, <4>5
    <3>2. Quiet
      BY <2>2, <3>1, HarmlessIsQuiet
    <3> QED BY <2>6, <3>1, <3>2 DEF Quiet, RestoreInv
  <2> QED BY <2>7, <2>8, <2>9, <2>10 DEF Worker

<1> SUFFICES ASSUME DutyInv, WaitInv, RestoreInv, [Next]_vars PROVE RestoreInv'
  OBVIOUS
<1>1. TypeOK /\ MailInv /\ EpochInv /\ FenceInv /\ OwnerInv
  BY DEF DutyInv, IInv, TypeInv
<1>2. CASE UNCHANGED vars
  BY <1>2 DEF vars, RestoreInv, Owned, Checks, RollsBack
<1> QED BY <1>1, <1>2, StepCases, <1>RestoreCalls, <1>RestoreMutations, <1>RestoreVerifications,
           <1>RestoreContinue, <1>RestoreElsewhere

LEMMA RestoreInit == Init => RestoreInv
<1> SUFFICES ASSUME Init PROVE RestoreInv
  OBVIOUS
<1>1. /\ session.request.layout = "none" /\ ~session.preTopology /\ frame.at = "idle"
      /\ ~settle.requested /\ ~settle.finalPending /\ ~settle.deferredFinal
      /\ ~reset.completion.done.rollback /\ tasks = <<>> /\ timers = <<>>
  BY DEF Init, NoRequest, IdleFrame, NoSettle, NoneHeld, NoCompletion
<1>2. DOMAIN tasks = {} /\ DOMAIN timers = {}
  BY <1>1, SMTT(60)
<1>3. ~Accepted(session.request)
  BY <1>1 DEF Accepted, HasConfiguration
<1>4. frame.at # "finish"
  BY <1>1
<1> QED BY <1>1, <1>2, <1>3, <1>4 DEF RestoreInv, RollsBack, Checking, Applying

\* Where a recovery begins that continues none.
LEMMA OnlyRestores ==
  ASSUME TypeOK, MailInv, EpochInv, [Next]_vars,
         worker'.kind = "Recovery", ~WorkerActive, ~RestorePending
  PROVE  (\E c, rest : RevertStarted(c, rest)) \/ SettlementLost
<1> DEFINE Other == \/ UNCHANGED worker \/ worker' = NoWorker
                    \/ \E g : \/ worker' = [worker EXCEPT !.gen = g]
                              \/ worker' = [kind |-> "Apply", gen |-> g]
                              \/ worker' = [kind |-> "RefreshRate", gen |-> g]
<1>1. ~Other
  <2>1. worker = NoWorker
    BY DEF WorkerActive
  <2>2. NoWorker.kind # "Recovery"
    BY DEF NoWorker
  <2>3. \A g : /\ [NoWorker EXCEPT !.gen = g].kind # "Recovery"
               /\ [kind |-> "Apply", gen |-> g].kind # "Recovery"
               /\ [kind |-> "RefreshRate", gen |-> g].kind # "Recovery"
    BY DEF NoWorker
  <2> QED BY <2>1, <2>2, <2>3
<1>2. CASE \E c, rest : Calls(c, rest)
  <2>1. PICK c, rest : Calls(c, rest)
    BY <1>2
  <2>2. Other \/ RevertStarted(c, rest)
    BY <2>1 DEF Calls, Runs, HandleApply, HandleRevert, HandleDisarm, HandleReset,
       ApplyQueued, ApplyStarted, ApplyRejected, DisarmQueued, DisarmStarted,
       DisarmDropped, ResetQueued, ResetStarted, RevertDeclined, RevertJoined, RevertQueued,
       RevertNothing, RepairStarted, ReapplyIdentity, DispatchApply
  <2> QED BY <1>1, <2>2
<1>3. CASE MutationCompleted
  BY <1>1, <1>3 DEF MutationCompleted, StaleApplyCompleted, ReactivationCompleted,
     ApplyCompleted, ResetCompleted, RefreshRateCompleted, RecoveryCancelled,
     RecoverySucceeded, RecoveryFailed, ValidationCancelled, ValidationFailed,
     ValidationSucceeded
<1>4. CASE VerificationCompleted
  BY <1>1, <1>4 DEF VerificationCompleted, VerificationIgnored, SettlementHolds,
     SettlementRechecks, SettlementRepairs, BaselineVerified, InitialVerified,
     FailedUnderSettlement, BaselineRepairStarted, BaselineRepairFailed, InitialRetried,
     InitialFailed
<1>5. CASE Continue
  BY <1>1, <1>5 DEF Continue, FinishApply, Finish, RolledBack, AfterReturn,
     AfterRollback, AfterSuperseded, DecideBaselineFailed, DecideVerify, DecideSettling,
     DecideFailed, AfterSettling, AfterLastRepair, AfterLastFailure, ConcludeHdr,
     ConcludeFailed, AfterReset, ResetExits, ResetResumes, AfterRestored,
     AfterRestoredFollowup, DispatchApply
<1>6. CASE Elsewhere
  BY <1>1, <1>6 DEF Elsewhere, ClientReactivate, ClientRevert, ClientRefreshRate,
     ClientSnapshot, ClientPark, ApplyReactivation, RefreshRateStarted, SnapshotTaken, Park,
     RevertStale, DrainDropsStale, DrainDropsRepair, DisplayEvent, BaselineReturned,
     IdentityUnchanged, IdentityQueued, IdentityReplaced, ReapplyIdentity, DispatchApply,
     EventKept, EventReopens, RestorePending, Tick, TickReconciles, TickDiscards,
     TickExpires, TickRetries, Ticks, Time, WindowCloses, QuietEnds, GraceEnds, notTime,
     Connection, Connect, Retire, Stop, DisconnectSettles, DisconnectReverts,
     DisconnectIdle, Disconnects, Worker, WorkerGuards, WorkerTouches, RecoveryEnters,
     RecoveryTouches, TimerFires, fsmVars
<1>7. CASE UNCHANGED vars
  BY <1>1, <1>7 DEF vars
<1> QED BY <1>2, <1>3, <1>4, <1>5, <1>6, <1>7, StepCases

\* A recovery that continues none begins only for a client's REVERT or for a
\* session that wants the restore on disconnect: neither a rejected APPLY nor a
\* settlement or a reconnect brings an older session's policy back.
THEOREM NoUnwantedRestoreHolds == Spec => NoUnwantedRestore
<1>1. ASSUME DutyInv, RestoreInv, [Next]_vars,
             worker'.kind = "Recovery", ~WorkerActive, ~RestorePending
      PROVE  lease'.explicit \/ lease'.onDisconnect
  <2>1. TypeOK /\ MailInv /\ EpochInv /\ FenceInv
    BY <1>1 DEF DutyInv, IInv, TypeInv
  <2>2. ASSUME NEW c, NEW rest, RevertStarted(c, rest)
        PROVE  lease'.explicit \/ lease'.onDisconnect
    <3> DEFINE asked == lease.explicit \/ ~c.disconnect
    <3>1. asked \/ lease.onDisconnect
      BY <2>2 DEF RevertStarted, RevertOptedOut
    <3>2. lease \in LeaseType
      BY <2>1 DEF TypeOK
    <3>3. lease' = [[lease EXCEPT !.explicit = asked]
                      EXCEPT !.armed = TRUE, !.changesPending = TRUE, !.heartbeat = FALSE]
      BY <2>2, <3>2 DEF RevertStarted, RevertLease
    <3> HIDE DEF asked
    <3>4. lease'.explicit = asked /\ lease'.onDisconnect = lease.onDisconnect
      BY <3>2, <3>3 DEF LeaseType
    <3> QED BY <3>1, <3>4
  <2>3. CASE SettlementLost
    <3>1. /\ tasks # <<>> /\ Front.op = "Verification" /\ Front.gen = gen
          /\ Front.mode = "TransientDisconnectFinal" /\ UNCHANGED lease
      BY <2>3 DEF SettlementLost, Verified, Completes, HasTask, Live
    <3>2. 1 \in DOMAIN tasks /\ Front = tasks[1]
      BY <2>1, <3>1, SMTT(60) DEF TypeOK, Front
    <3>3. Checking("TransientDisconnectFinal", gen, tasks)
      BY <3>1, <3>2 DEF Checking, LiveCheck
    <3>4. settle.requested
      BY <2>1, <3>3, FinalIsFree
    <3> QED BY <1>1, <3>1, <3>3, <3>4 DEF RestoreInv
  <2> QED BY <1>1, <2>1, <2>2, <2>3, OnlyRestores
<1> DEFINE I == DutyInv /\ WaitInv /\ RestoreInv
<1>2. Init => I
  BY DutyInit, TicketInit, RestoreInit DEF TicketIInv
<1>3. I /\ [Next]_vars => I'
  BY DutyStep, WaitStep, RestoreStep DEF DutyInv
<1>4. I /\ [Next]_vars =>
        [worker'.kind = "Recovery" /\ ~WorkerActive /\ ~RestorePending
           => lease'.explicit \/ lease'.onDisconnect]_vars
  BY <1>1
<1> QED BY <1>2, <1>3, <1>4, PTL DEF Spec, NoUnwantedRestore
=============================================================================
