------------------------------ MODULE AudioProofs ------------------------------
(***************************************************************************)
(* The shared audio context, for any number of captures, launches and      *)
(* sinks: what is retained belongs to a running application, and the sound *)
(* of the host comes back to the user's sink.                              *)
(*                                                                         *)
(* Neither is inductive.  The first needs that the application is gone     *)
(* only while its termination is pending, so that what a thread read of it *)
(* before retain() took the mutex is still right when the flag is down     *)
(* (Lifecycle, Reads).  The second needs that a new context notes the      *)
(* user's sink (Sound), because nothing is retained when one is created:   *)
(* retain() runs inside shared_t's lock, and so does the decision to       *)
(* create (Locked, Reads).                                                 *)
(***************************************************************************)
EXTENDS AudioContext, FiniteSetTheorems, TLAPS

\* A leaf that names no prover is given to Zenon; those that need arithmetic,
\* records or sequences name the SMT solver.
USE ZenonT(60)

Spots == {"idle", "waiting", "deciding", "reclaimable", "reclaiming", "creating", "referenced",
          "owning", "capturing", "releasing", "stopping", "retainable", "retaining", "restoring"}
Places == Sinks \union {UserSink}
Contexts == [control : BOOLEAN, host : Places \union {None}, restore : BOOLEAN, assigned : BOOLEAN]
Values == [host : Places \union {None}, restore : BOOLEAN]
Readings == [what : {"nothing", "app", "terminal"}, good : BOOLEAN]

Typed ==
    /\ device \in Places
    /\ app \in BOOLEAN /\ terminal \in BOOLEAN /\ handoff \in BOOLEAN /\ restoring \in BOOLEAN /\ hasty \in BOOLEAN
    /\ step \in {"idle", "restoring", "restored", "ending", "executing", "starting"}
    /\ claimed \in Values /\ retained \in Values
    /\ lock \in Threads \union {None}
    /\ ctx \in Contexts
    /\ pc \in [Threads -> Spots]
    /\ seen \in [Threads -> Readings]

\* Where a thread is inside the lock of shared_t, and where it has a reference.
Constructing == {"waiting", "deciding", "reclaimable", "reclaiming", "creating"}
Destroying == {"stopping", "retainable", "retaining", "restoring"}
Inside == Constructing \union Destroying
RefSpots == {"referenced", "owning", "capturing", "releasing"}
OwnSpots == {"owning", "capturing"}
Referring == {t \in Threads : pc[t] \in RefSpots}
Owning == {t \in Threads : pc[t] \in OwnSpots}

Locked ==
    /\ \A t \in Threads : pc[t] \in Inside <=> lock = t
    /\ lock # None => count = 0
    /\ (\A t \in Threads : pc[t] \notin Destroying) /\ count = 0 => ctx = NoContext

Counted ==
    /\ count = Cardinality(Referring)
    /\ ownerCount = Cardinality(Owning)
    /\ Owning \subseteq Captures

Lifecycle ==
    /\ step # "idle" => terminal /\ ~handoff
    /\ step = "starting" => app
    /\ handoff => app
    /\ restoring <=> step \in {"restoring", "restored"}
    /\ claimed # Nothing => step = "restoring"
    /\ RetainedForApp

Reading == {"deciding", "reclaiming", "stopping", "retaining", "restoring"}

\* What a thread at spot p, with reading r, can rely on.
ReadsAt(p, r) ==
    /\ r.what = "app" /\ r.good => app \/ terminal
    /\ p \notin Reading => r = Unread
    /\ p \in {"retaining", "reclaiming"} => r.what = "app"
    /\ p \in {"deciding", "reclaiming"} /\ r # Unread /\ retained # Nothing => r.good
    /\ p = "creating" => retained = Nothing
    /\ p = "stopping" /\ r # Unread => ctx.restore
    /\ p \in {"retainable", "retaining", "restoring"} => ctx.restore

Reads == \A t \in Threads : ReadsAt(pc[t], seen[t])

\* Who has a duty to restore knows a sink to restore.
Noted ==
    /\ ctx.control => ctx.host \in Places
    /\ ctx.restore => ctx.control /\ ctx.assigned
    /\ retained # Nothing => retained.restore /\ retained.host \in Places
    /\ claimed # Nothing => claimed.restore /\ claimed.host \in Places

Sound ==
    ~hasty =>
        /\ ctx.control => ctx.host = UserSink
        /\ retained # Nothing => retained.host = UserSink
        /\ claimed # Nothing => claimed.host = UserSink
        /\ device # UserSink => ctx.restore \/ retained # Nothing \/ claimed # Nothing

IInv == Typed /\ Locked /\ Counted /\ Lifecycle /\ Reads /\ Noted /\ Sound

-------------------------------------------------------------------------------
(* One thread moves                                                        *)

Moves(t, p) ==
    /\ pc' \in [Threads -> Spots] /\ pc'[t] = p
    /\ \A u \in Threads : u # t => pc'[u] = pc[u]

LEMMA GotoMoves ==
    ASSUME Typed, NEW t \in Threads, NEW p \in Spots, Goto(t, p)
    PROVE  Moves(t, p)
BY DEF Goto, Moves, Typed

\* One thread has the reading r.
Sees(t, r) ==
    /\ seen' \in [Threads -> Readings] /\ seen'[t] = r
    /\ \A u \in Threads : u # t => seen'[u] = seen[u]

LEMMA OneSees ==
    ASSUME Typed, NEW t \in Threads
    PROVE  /\ \A r \in Readings : seen' = [seen EXCEPT ![t] = r] => Sees(t, r)
           /\ UNCHANGED seen => Sees(t, seen[t])
           /\ Unread \in Readings
BY DEF Typed, Sees, Unread, Readings

\* Every set of threads is finite.
LEMMA FiniteThreads ==
    /\ IsFiniteSet(Threads) /\ IsFiniteSet(Referring) /\ IsFiniteSet(Owning)
    /\ IsFiniteSet(Referring)' /\ IsFiniteSet(Owning)'
<1>1. IsFiniteSet(Threads)
  BY ThreadsAreFinite, FS_Union DEF Threads
<1>2. Referring \subseteq Threads /\ Owning \subseteq Threads /\ Referring' \subseteq Threads /\ Owning' \subseteq Threads
  BY DEF Referring, Owning
<1> QED
  BY <1>1, <1>2, FS_Subset

\* The counts while a thread keeps its reference and its ownership, ...
LEMMA CountedKept ==
    ASSUME Counted, NEW t \in Threads, NEW p, Moves(t, p), UNCHANGED <<count, ownerCount>>,
           pc[t] \in RefSpots <=> p \in RefSpots, pc[t] \in OwnSpots <=> p \in OwnSpots
    PROVE  Counted'
<1>1. Referring' = Referring /\ Owning' = Owning
  BY DEF Referring, Owning, Moves
<1> QED
  BY <1>1 DEF Counted

\* ... gets a reference, ...
LEMMA CountedRefers ==
    ASSUME Counted, NEW t \in Threads, NEW p, Moves(t, p), count' = count + 1, UNCHANGED ownerCount,
           pc[t] \notin RefSpots, p \in RefSpots, pc[t] \in OwnSpots <=> p \in OwnSpots
    PROVE  Counted'
<1>1. Referring' = Referring \union {t} /\ t \notin Referring /\ Owning' = Owning
  BY DEF Referring, Owning, Moves
<1>2. Cardinality(Referring') = Cardinality(Referring) + 1
  BY <1>1, FiniteThreads, FS_AddElement
<1> QED
  BY <1>1, <1>2 DEF Counted

\* ... or gives it back.
LEMMA CountedLeaves ==
    ASSUME Counted, NEW t \in Threads, NEW p, Moves(t, p), count' = count - 1, UNCHANGED ownerCount,
           pc[t] \in RefSpots, p \notin RefSpots, pc[t] \in OwnSpots <=> p \in OwnSpots
    PROVE  Counted'
<1>1. Referring' = Referring \ {t} /\ t \in Referring /\ Owning' = Owning
  BY DEF Referring, Owning, Moves
<1>2. Cardinality(Referring') = Cardinality(Referring) - 1
  BY <1>1, FiniteThreads, FS_RemoveElement
<1> QED
  BY <1>1, <1>2 DEF Counted

\* A reference that is counted keeps the context from being destroyed or
\* constructed.
LEMMA ReferenceCounts ==
    ASSUME IInv, NEW t \in Threads, pc[t] \in RefSpots
    PROVE  count > 0 /\ count \in Nat /\ lock = None /\ \A u \in Threads : pc[u] \notin Inside
<1>1. Referring # {}
  BY DEF Referring
<1>2. Cardinality(Referring) \in Nat /\ Cardinality(Referring) # 0
  BY <1>1, FiniteThreads, FS_CardinalityType, FS_EmptySet
<1>3. count > 0 /\ count \in Nat
  BY <1>2, SMTT(60) DEF IInv, Counted
<1>4. lock = None
  BY <1>3, SMTT(60) DEF IInv, Locked
<1> QED
  BY <1>3, <1>4, ThreadsDiffer DEF IInv, Locked, Threads

\* The thread inside the lock is alone there.
LEMMA InsideAlone ==
    ASSUME IInv, NEW t \in Threads, pc[t] \in Inside
    PROVE  lock = t /\ count = 0 /\ \A u \in Threads : u # t => pc[u] \notin Inside
<1>1. lock = t
  BY DEF IInv, Locked
<1>2. t # None
  BY ThreadsDiffer DEF Threads
<1> QED
  BY <1>1, <1>2 DEF IInv, Locked

\* The other threads can rely on what they read, unless the application's end
\* is forgotten, or the context or the retained value changes under them.
LEMMA ReadsKept ==
    ASSUME IInv, NEW t \in Threads,
           \A u \in Threads : u # t => pc'[u] = pc[u] /\ seen'[u] = seen[u],
           app \/ terminal => app' \/ terminal',
           \/ \A u \in Threads : u # t => pc[u] \notin Inside
           \/ ctx' = ctx /\ retained' \in {retained, Nothing},
           ReadsAt(pc[t], seen[t])'
    PROVE  Reads'
<1> SUFFICES ASSUME NEW u \in Threads, u # t PROVE ReadsAt(pc[u], seen[u])'
  BY DEF Reads
<1>1. ReadsAt(pc[u], seen[u]) /\ pc'[u] = pc[u] /\ seen'[u] = seen[u]
  BY DEF IInv, Reads
<1>2. CASE pc[u] \notin Inside
  <2>1. pc[u] \notin Reading /\ pc[u] \notin {"retaining", "reclaiming", "deciding", "creating",
                                                  "stopping", "retainable", "restoring"}
    BY <1>2 DEF Inside, Constructing, Destroying, Reading
  <2> QED
    BY <1>1, <2>1 DEF ReadsAt
<1>3. CASE ctx' = ctx /\ retained' \in {retained, Nothing}
  BY <1>1, <1>3 DEF ReadsAt
<1> QED
  BY <1>2, <1>3

\* The duties stand while nothing they name changes.
LEMMA DutiesKept ==
    ASSUME Noted, Sound, UNCHANGED <<device, claimed, retained, ctx, hasty>>
    PROVE  Noted' /\ Sound'
<1>1. Noted'
  BY DEF Noted, Nothing
<1>2. Sound'
  BY DEF Sound, Nothing
<1> QED
  BY <1>1, <1>2

\* A thread moves between two spots of a kind and touches nothing shared.
LEMMA QuietMove ==
    ASSUME IInv, NEW t \in Threads, NEW p \in Spots, NEW r \in Readings, Moves(t, p), Sees(t, r),
           UNCHANGED <<device, appVars, stateVars, sharedVars, hasty>>,
           pc[t] \in Inside <=> p \in Inside, pc[t] \in Destroying <=> p \in Destroying,
           pc[t] \in RefSpots <=> p \in RefSpots, pc[t] \in OwnSpots <=> p \in OwnSpots,
           ReadsAt(p, r)
    PROVE  IInv'
<1>1. /\ UNCHANGED <<device, app, step, claimed, retained, terminal, handoff, restoring, ownerCount>>
      /\ UNCHANGED <<lock, count, ctx, hasty>>
  BY DEF appVars, stateVars, sharedVars
<1>2. Typed'
  BY <1>1 DEF IInv, Typed, Moves, Sees
<1>3. Locked'
  BY <1>1 DEF IInv, Locked, Moves
<1>4. Counted'
  BY <1>1, CountedKept DEF IInv
<1>5. Lifecycle'
  BY <1>1 DEF IInv, Lifecycle, RetainedForApp
<1>6. Noted' /\ Sound'
  BY <1>1, DutiesKept DEF IInv
<1>7. ReadsAt(pc[t], seen[t])'
  BY <1>1 DEF ReadsAt, Moves, Sees
<1>8. Reads'
  BY <1>1, <1>7, ReadsKept DEF Moves, Sees
<1> QED
  BY <1>2, <1>3, <1>4, <1>5, <1>6, <1>8 DEF IInv

\* What t can rely on, spelled out.
LEMMA ReadsNow == ASSUME IInv, NEW t \in Threads PROVE ReadsAt(pc[t], seen[t])
BY DEF IInv, Reads

LEMMA PolicyReadsStep ==
    ASSUME IInv, NEW t \in Threads, NEW p \in {"deciding", "stopping"}, PolicyReads(t, p), p = "stopping" => ctx.restore
    PROVE  IInv'
<1>1. PICK r \in {[what |-> "app", good |-> app], [what |-> "terminal", good |-> ~terminal]} :
         seen' = [seen EXCEPT ![t] = r]
  BY DEF PolicyReads
<1>2. /\ r \in Readings /\ r.what \in {"app", "terminal"}
      /\ r.what = "app" => (r.good <=> app)
      /\ r.what = "terminal" => (r.good <=> ~terminal)
  <2>1. CASE r = [what |-> "app", good |-> app]
    <3>1. r.what = "app" /\ (r.good <=> app)
      BY <2>1
    <3> QED
      BY <2>1, <3>1 DEF Readings, IInv, Typed
  <2>2. CASE r = [what |-> "terminal", good |-> ~terminal]
    <3>1. r.what = "terminal" /\ (r.good <=> ~terminal)
      BY <2>2
    <3> QED
      BY <2>2, <3>1 DEF Readings, IInv, Typed
  <2> QED
    BY <1>1, <2>1, <2>2
<1>3. Typed
  BY DEF IInv
<1>4. Sees(t, r)
  BY <1>1, <1>2, <1>3, OneSees
<1>5. /\ pc[t] = p /\ Moves(t, p) /\ p \in Spots
      /\ UNCHANGED <<device, appVars, stateVars, sharedVars, hasty>>
  BY DEF PolicyReads, At, Moves, IInv, Typed, Spots
<1>6. retained # Nothing => r.good
  BY <1>2 DEF IInv, Lifecycle, RetainedForApp
<1>7. ReadsAt(p, r)
  BY <1>2, <1>6 DEF ReadsAt, Reading
<1> QED
  BY <1>2, <1>4, <1>5, <1>7, QuietMove

LEMMA PolicyAnswersStep ==
    ASSUME IInv, NEW t \in Threads,
           \/ PolicyAnswers(t, "deciding", "reclaimable", "creating")
           \/ PolicyAnswers(t, "stopping", "retainable", "restoring")
    PROVE  IInv'
<1>1. PICK p \in Spots : Goto(t, p) /\ p \in {"reclaimable", "creating", "retainable", "restoring"}
  BY DEF PolicyAnswers, Spots
<1>2. /\ seen[t] # Unread /\ seen' = [seen EXCEPT ![t] = Unread]
      /\ UNCHANGED <<device, appVars, stateVars, sharedVars, hasty>>
  BY DEF PolicyAnswers
<1>3. Typed /\ Moves(t, p) /\ Sees(t, Unread) /\ Unread \in Readings
  BY <1>1, <1>2, GotoMoves, OneSees DEF IInv
<1>4. ReadsAt(pc[t], seen[t])
  BY ReadsNow
<1>5. ~(Unread.what = "app")
  BY DEF Unread
<1>6. CASE PolicyAnswers(t, "deciding", "reclaimable", "creating")
  <2>1. pc[t] = "deciding" /\ p \in {"reclaimable", "creating"}
    <3>1. pc[t] = "deciding" /\ pc' = [pc EXCEPT ![t] = p]
      BY <1>1, <1>6 DEF PolicyAnswers, At, Goto
    <3>2. pc'[t] \in {"reclaimable", "creating"}
      BY <1>3, <1>6 DEF PolicyAnswers, Goto, Typed
    <3> QED
      BY <1>3, <3>1, <3>2 DEF Moves
  <2>2. p = "creating" => retained = Nothing
    <3> SUFFICES ASSUME p = "creating", retained # Nothing PROVE FALSE
      OBVIOUS
    <3>1. app /\ ~terminal
      BY DEF IInv, Lifecycle, RetainedForApp
    <3>2. seen[t].good
      BY <1>2, <1>4, <2>1 DEF ReadsAt
    <3>3. pc'[t] = "reclaimable"
      BY <1>3, <1>6, <3>1, <3>2 DEF PolicyAnswers, Goto, Typed
    <3> QED
      BY <1>3, <3>3 DEF Moves
  <2>3. ReadsAt(p, Unread)
    BY <1>5, <2>1, <2>2 DEF ReadsAt, Reading
  <2> QED
    BY <1>2, <1>3, <2>1, <2>3, QuietMove DEF Inside, Constructing, Destroying, RefSpots, OwnSpots
<1>7. CASE PolicyAnswers(t, "stopping", "retainable", "restoring")
  <2>1. pc[t] = "stopping" /\ p \in {"retainable", "restoring"}
    <3>1. pc[t] = "stopping" /\ pc' = [pc EXCEPT ![t] = p]
      BY <1>1, <1>7 DEF PolicyAnswers, At, Goto
    <3>2. pc'[t] \in {"retainable", "restoring"}
      BY <1>3, <1>7 DEF PolicyAnswers, Goto, Typed
    <3> QED
      BY <1>3, <3>1, <3>2 DEF Moves
  <2>2. ctx.restore
    BY <1>2, <1>4, <2>1 DEF ReadsAt
  <2>3. ReadsAt(p, Unread)
    BY <1>5, <2>1, <2>2 DEF ReadsAt, Reading
  <2> QED
    BY <1>2, <1>3, <2>1, <2>3, QuietMove DEF Inside, Constructing, Destroying, RefSpots, OwnSpots
<1> QED
  BY <1>6, <1>7

LEMMA ReadAppStep ==
    ASSUME IInv, NEW t \in Threads,
           ReadApp(t, "reclaimable", "reclaiming") \/ ReadApp(t, "retainable", "retaining")
    PROVE  IInv'
<1>1. PICK r : r = [what |-> "app", good |-> app]
  OBVIOUS
<1>2. r \in Readings /\ r.what = "app" /\ (r.good <=> app)
  BY <1>1 DEF Readings, IInv, Typed
<1>3. /\ seen' = [seen EXCEPT ![t] = r]
      /\ UNCHANGED <<device, appVars, stateVars, sharedVars, hasty>>
  BY <1>1 DEF ReadApp
<1>4. Typed /\ Sees(t, r)
  BY <1>2, <1>3, OneSees DEF IInv
<1>5. ReadsAt(pc[t], seen[t])
  BY ReadsNow
<1>6. retained # Nothing => app
  BY DEF IInv, Lifecycle, RetainedForApp
<1>7. CASE ReadApp(t, "reclaimable", "reclaiming")
  <2>1. pc[t] = "reclaimable" /\ Goto(t, "reclaiming") /\ "reclaiming" \in Spots
    BY <1>7 DEF ReadApp, At, Spots
  <2>2. Moves(t, "reclaiming")
    BY <1>4, <2>1, GotoMoves
  <2>3. ReadsAt("reclaiming", r)
    BY <1>2, <1>6 DEF ReadsAt, Reading
  <2> QED
    BY <1>2, <1>3, <1>4, <2>1, <2>2, <2>3, QuietMove DEF Inside, Constructing, Destroying, RefSpots, OwnSpots
<1>8. CASE ReadApp(t, "retainable", "retaining")
  <2>1. pc[t] = "retainable" /\ Goto(t, "retaining") /\ "retaining" \in Spots
    BY <1>8 DEF ReadApp, At, Spots
  <2>2. Moves(t, "retaining")
    BY <1>4, <2>1, GotoMoves
  <2>3. ctx.restore
    BY <1>5, <2>1 DEF ReadsAt
  <2>4. ReadsAt("retaining", r)
    BY <1>2, <1>6, <2>3 DEF ReadsAt, Reading
  <2> QED
    BY <1>2, <1>3, <1>4, <2>1, <2>2, <2>4, QuietMove DEF Inside, Constructing, Destroying, RefSpots, OwnSpots
<1> QED
  BY <1>7, <1>8

\* The steps that only move on, with what was read or without.
LEMMA MoveStep ==
    ASSUME IInv, NEW t \in Threads,
           StartWait(t) \/ StartNoReclaim(t) \/ HoldDropped(t) \/ AssignSkipped(t) \/ StopNoRetain(t)
    PROVE  IInv'
<1>1. UNCHANGED <<device, appVars, stateVars, sharedVars, hasty>> /\ Typed
  BY DEF StartWait, StartNoReclaim, HoldDropped, AssignSkipped, StopNoRetain, IInv
<1>2. ReadsAt(pc[t], seen[t]) /\ Unread \in Readings /\ seen[t] \in Readings
  BY <1>1, ReadsNow, OneSees DEF Typed
<1>3. ~(Unread.what = "app")
  BY DEF Unread
<1>5. PICK r \in Readings : r = seen[t]
  BY <1>2
<1>6. CASE StartWait(t)
  <2>1. pc[t] = "waiting" /\ Goto(t, "deciding") /\ "deciding" \in Spots /\ UNCHANGED seen
    BY <1>6 DEF StartWait, At, Spots
  <2>2. Moves(t, "deciding") /\ Sees(t, r)
    BY <1>1, <1>5, <2>1, GotoMoves, OneSees
  <2>3. ReadsAt("deciding", r)
    BY <1>2, <1>3, <1>5, <2>1 DEF ReadsAt, Reading
  <2> QED
    BY <1>1, <2>1, <2>2, <2>3, QuietMove DEF Inside, Constructing, Destroying, RefSpots, OwnSpots
<1>7. CASE StartNoReclaim(t)
  <2>1. /\ pc[t] = "reclaiming" /\ Goto(t, "creating") /\ "creating" \in Spots
        /\ ~(seen[t].good /\ ~terminal /\ retained # Nothing) /\ seen' = [seen EXCEPT ![t] = Unread]
    BY <1>7 DEF StartNoReclaim, At, Spots
  <2>2. Moves(t, "creating") /\ Sees(t, Unread)
    BY <1>1, <1>2, <2>1, GotoMoves, OneSees
  <2>3. retained = Nothing
    <3> SUFFICES ASSUME retained # Nothing PROVE FALSE
      OBVIOUS
    <3>1. ~terminal
      BY DEF IInv, Lifecycle, RetainedForApp
    <3>2. seen[t].what = "app" /\ seen[t] # Unread
      BY <1>2, <1>3, <2>1 DEF ReadsAt
    <3> QED
      BY <1>2, <2>1, <3>1, <3>2 DEF ReadsAt
  <2>4. ReadsAt("creating", Unread)
    BY <1>3, <2>3 DEF ReadsAt, Reading
  <2> QED
    BY <1>1, <1>2, <2>1, <2>2, <2>4, QuietMove DEF Inside, Constructing, Destroying, RefSpots, OwnSpots
<1>8. CASE HoldDropped(t)
  <2>1. pc[t] = "referenced" /\ Goto(t, "releasing") /\ "releasing" \in Spots /\ UNCHANGED seen
    BY <1>8 DEF HoldDropped, At, Spots
  <2>2. Moves(t, "releasing") /\ Sees(t, r)
    BY <1>1, <1>5, <2>1, GotoMoves, OneSees
  <2>3. ReadsAt("releasing", r)
    BY <1>2, <1>3, <1>5, <2>1 DEF ReadsAt, Reading
  <2> QED
    BY <1>1, <2>1, <2>2, <2>3, QuietMove DEF Inside, Constructing, Destroying, RefSpots, OwnSpots
<1>9. CASE AssignSkipped(t)
  <2>1. pc[t] = "owning" /\ Goto(t, "capturing") /\ "capturing" \in Spots /\ UNCHANGED seen
    BY <1>9 DEF AssignSkipped, At, Spots
  <2>2. Moves(t, "capturing") /\ Sees(t, r)
    BY <1>1, <1>5, <2>1, GotoMoves, OneSees
  <2>3. ReadsAt("capturing", r)
    BY <1>2, <1>3, <1>5, <2>1 DEF ReadsAt, Reading
  <2> QED
    BY <1>1, <2>1, <2>2, <2>3, QuietMove DEF Inside, Constructing, Destroying, RefSpots, OwnSpots
<1>10. CASE StopNoRetain(t)
  <2>1. pc[t] = "retaining" /\ Goto(t, "restoring") /\ "restoring" \in Spots /\ UNCHANGED seen
    BY <1>10 DEF StopNoRetain, At, Spots
  <2>2. Moves(t, "restoring") /\ Sees(t, r)
    BY <1>1, <1>5, <2>1, GotoMoves, OneSees
  <2>3. ReadsAt("restoring", r)
    BY <1>2, <1>5, <2>1 DEF ReadsAt, Reading
  <2> QED
    BY <1>1, <2>1, <2>2, <2>3, QuietMove DEF Inside, Constructing, Destroying, RefSpots, OwnSpots
<1> QED
  BY <1>6, <1>7, <1>8, <1>9, <1>10

-------------------------------------------------------------------------------
(* References come and go                                                  *)

LEMMA CountIsNat == ASSUME IInv PROVE count \in Nat /\ ownerCount \in Nat
BY FiniteThreads, FS_CardinalityType DEF IInv, Counted

\* Nobody is inside a lock that is free.
LEMMA NobodyInside == ASSUME IInv, lock = None PROVE \A u \in Threads : pc[u] \notin Inside
BY ThreadsDiffer DEF IInv, Locked, Threads

LEMMA RefExistingStep == ASSUME IInv, NEW t \in Threads, RefExisting(t) PROVE IInv'
<1>1. /\ pc[t] = "idle" /\ lock = None /\ count # 0 /\ count' = count + 1
      /\ Goto(t, "referenced") /\ "referenced" \in Spots
      /\ UNCHANGED <<device, app, step, claimed, retained, terminal, handoff, restoring, ownerCount>>
      /\ UNCHANGED <<lock, ctx, seen, hasty>>
  BY DEF RefExisting, At, Spots, appVars, stateVars
<1>2. Moves(t, "referenced") /\ Sees(t, seen[t])
  BY <1>1, GotoMoves, OneSees DEF IInv
<1>3. Typed'
  BY <1>1, <1>2 DEF IInv, Typed, Moves, Sees
<1>4. count' # 0
  BY <1>1, CountIsNat, SMTT(60)
<1>5. \A u \in Threads : pc[u] \notin Inside /\ pc'[u] \notin Inside
  BY <1>1, <1>2, NobodyInside DEF Moves, Inside, Constructing, Destroying
<1>6. Locked'
  BY <1>1, <1>4, <1>5, ThreadsDiffer DEF IInv, Locked, Threads
<1>7. Counted'
  BY <1>1, <1>2, CountedRefers DEF IInv, RefSpots, OwnSpots
<1>8. Lifecycle'
  BY <1>1 DEF IInv, Lifecycle, RetainedForApp
<1>9. Noted' /\ Sound'
  BY <1>1, DutiesKept DEF IInv
<1>10. ReadsAt(pc[t], seen[t])'
  BY <1>1, <1>2, ReadsNow DEF ReadsAt, Reading, Moves, Sees, Unread
<1>11. Reads'
  BY <1>1, <1>2, <1>10, ReadsKept DEF Moves, Sees
<1> QED
  BY <1>3, <1>6, <1>7, <1>8, <1>9, <1>11 DEF IInv

LEMMA RefConstructStep == ASSUME IInv, NEW t \in Threads, RefConstruct(t) PROVE IInv'
<1>1. /\ pc[t] = "idle" /\ lock = None /\ count = 0 /\ lock' = t /\ ctx' = NoContext
      /\ Goto(t, "waiting") /\ "waiting" \in Spots
      /\ UNCHANGED <<device, app, step, claimed, retained, terminal, handoff, restoring, ownerCount>>
      /\ UNCHANGED <<count, seen, hasty>>
  BY DEF RefConstruct, At, Spots, appVars, stateVars
<1>2. Moves(t, "waiting") /\ Sees(t, seen[t])
  BY <1>1, GotoMoves, OneSees DEF IInv
<1>3. \A u \in Threads : pc[u] \notin Inside
  BY <1>1, NobodyInside
<1>4. UNCHANGED ctx
  BY <1>1, <1>3 DEF IInv, Locked, Inside
<1>5. Typed'
  BY <1>1, <1>2, <1>4 DEF IInv, Typed, Moves, Sees
<1>6. Locked'
  BY <1>1, <1>2, <1>3 DEF IInv, Locked, Moves, Inside, Constructing
<1>7. Counted'
  BY <1>1, <1>2, CountedKept DEF IInv, RefSpots, OwnSpots
<1>8. Lifecycle'
  BY <1>1 DEF IInv, Lifecycle, RetainedForApp
<1>9. Noted' /\ Sound'
  BY <1>1, <1>4, DutiesKept DEF IInv
<1>10. ReadsAt(pc[t], seen[t])'
  BY <1>1, <1>2, ReadsNow DEF ReadsAt, Reading, Moves, Sees, Unread
<1>11. Reads'
  BY <1>1, <1>2, <1>4, <1>10, ReadsKept DEF Moves, Sees
<1> QED
  BY <1>5, <1>6, <1>7, <1>8, <1>9, <1>11 DEF IInv

\* A thread outside the lock that has read nothing can rely on nothing.
LEMMA ReadsNothing ==
    ASSUME NEW t \in Threads, pc'[t] \notin Inside, seen'[t] = Unread
    PROVE  ReadsAt(pc[t], seen[t])'
<1>1. ~(Unread.what = "app")
  BY DEF Unread
<1>2. pc'[t] \notin {"retaining", "reclaiming", "deciding", "creating", "stopping", "retainable", "restoring"}
  BY DEF Inside, Constructing, Destroying
<1> QED
  BY <1>1, <1>2 DEF ReadsAt

\* start() ends with a context c, and t has the first reference.
LEMMA ConstructedStep ==
    ASSUME IInv, NEW t \in Threads, NEW c \in Contexts, pc[t] \in Constructing, Constructed(t, c),
           UNCHANGED <<device, app, step, claimed, terminal, handoff, restoring, ownerCount>>,
           retained' \in {retained, Nothing}, hasty' \in BOOLEAN,
           c.control => c.host \in Places, c.restore => c.control /\ c.assigned, Sound'
    PROVE  IInv'
<1>1. /\ ctx' = c /\ count' = 1 /\ lock' = None /\ Goto(t, "referenced") /\ "referenced" \in Spots
      /\ seen' = [seen EXCEPT ![t] = Unread]
  BY DEF Constructed, Spots
<1>2. Moves(t, "referenced") /\ Sees(t, Unread)
  BY <1>1, GotoMoves, OneSees DEF IInv
<1>3. /\ pc[t] \in Inside /\ pc[t] \notin RefSpots /\ pc[t] \notin OwnSpots
  BY DEF Inside, Constructing, RefSpots, OwnSpots
<1>4. count = 0 /\ \A u \in Threads : u # t => pc[u] \notin Inside
  BY <1>3, InsideAlone
<1>5. Typed'
  <2>1. Nothing \in Values
    BY DEF Nothing, Values
  <2> QED
    BY <1>1, <1>2, <2>1 DEF IInv, Typed, Moves, Sees
<1>6. \A u \in Threads : pc'[u] \notin Inside
  BY <1>2, <1>4 DEF Moves, Inside, Constructing, Destroying
<1>7. count' # 0 /\ count' = count + 1
  BY <1>1, <1>4, SMTT(60)
<1>8. Locked'
  BY <1>1, <1>6, <1>7, ThreadsDiffer DEF Locked, Threads
<1>9. Counted'
  BY <1>2, <1>3, <1>7, CountedRefers DEF IInv, RefSpots, OwnSpots
<1>10. Lifecycle'
  BY DEF IInv, Lifecycle, RetainedForApp
<1>11. Noted'
  BY <1>1 DEF IInv, Noted
<1>12. ReadsAt(pc[t], seen[t])'
  BY <1>2, <1>6, ReadsNothing DEF Sees
<1>13. Reads'
  BY <1>2, <1>4, <1>12, ReadsKept DEF Moves, Sees
<1> QED
  BY <1>5, <1>8, <1>9, <1>10, <1>11, <1>13 DEF IInv

\* reclaim() moves the retained value into the context ...
LEMMA StartReclaimStep == ASSUME IInv, NEW t \in Threads, StartReclaim(t) PROVE IInv'
<1>1. PICK c : c = [control |-> TRUE, host |-> retained.host, restore |-> retained.restore, assigned |-> TRUE]
  OBVIOUS
<1>2. /\ pc[t] = "reclaiming" /\ retained # Nothing /\ retained' = Nothing /\ Constructed(t, c)
      /\ UNCHANGED <<device, app, step, claimed, terminal, handoff, restoring, ownerCount, hasty>>
  BY <1>1 DEF StartReclaim, At, appVars
<1>3. retained.restore /\ retained.host \in Places /\ retained \in Values
  BY <1>2 DEF IInv, Noted, Typed
<1>4. c \in Contexts /\ c.control /\ c.host = retained.host /\ (c.restore <=> retained.restore) /\ c.assigned
  BY <1>1, <1>3 DEF Contexts, Values
<1>5. Sound'
  <2>1. ctx' = c
    BY <1>2 DEF Constructed
  <2> QED
    BY <1>2, <1>3, <1>4, <2>1 DEF IInv, Sound
<1> QED
  BY <1>2, <1>3, <1>4, <1>5, ConstructedStep DEF Constructing, IInv, Typed

\* ... and a new context notes the user's sink, unless it is created during a
\* terminal restore: the context was empty, nothing is retained, nothing is
\* claimed, so the sound was not redirected.
LEMMA StartCreateStep == ASSUME IInv, NEW t \in Threads, StartCreate(t) \/ StartSilent(t) PROVE IInv'
<1>1. /\ pc[t] = "creating" /\ UNCHANGED <<device, app, step, claimed, retained, terminal, handoff, restoring, ownerCount>>
  BY DEF StartCreate, StartSilent, At, appVars, stateVars
<1>2. retained = Nothing
  BY <1>1, ReadsNow DEF ReadsAt
<1>3. ctx = NoContext /\ ~NoContext.restore /\ ~NoContext.control
  <2>1. pc[t] \in Inside /\ pc[t] \notin Destroying
    BY <1>1 DEF Inside, Constructing, Destroying
  <2>2. count = 0 /\ \A u \in Threads : pc[u] \notin Destroying
    BY <2>1, InsideAlone DEF Inside
  <2> QED
    BY <2>2 DEF IInv, Locked, NoContext
<1>4. CASE StartCreate(t)
  <2>1. PICK c : c = [NoContext EXCEPT !.control = TRUE, !.host = device]
    OBVIOUS
  <2>2. Constructed(t, c) /\ hasty' = (hasty \/ restoring)
    BY <1>4, <2>1 DEF StartCreate
  <2>3. c \in Contexts /\ c.control /\ c.host = device /\ ~c.restore
    BY <2>1 DEF NoContext, Contexts, IInv, Typed
  <2>4. device \in Places /\ hasty' \in BOOLEAN
    BY <2>2 DEF IInv, Typed
  <2>5. Sound'
    <3> SUFFICES ASSUME ~hasty' PROVE device = UserSink /\ retained' = Nothing /\ claimed' = Nothing
      BY <1>1, <2>2, <2>3 DEF Sound, Constructed
    <3>1. ~hasty /\ ~restoring
      BY <2>2
    <3>2. claimed = Nothing
      BY <3>1 DEF IInv, Lifecycle
    <3> QED
      BY <1>1, <1>2, <1>3, <3>1, <3>2 DEF IInv, Sound
  <2> QED
    BY <1>1, <2>2, <2>3, <2>4, <2>5, ConstructedStep DEF Constructing
<1>5. CASE StartSilent(t)
  <2>1. PICK c : c = NoContext
    OBVIOUS
  <2>2. Constructed(t, c) /\ UNCHANGED hasty
    BY <1>5, <2>1 DEF StartSilent
  <2>3. c \in Contexts /\ hasty \in BOOLEAN
    BY <1>3, <2>1 DEF IInv, Typed
  <2>4. UNCHANGED ctx
    BY <1>3, <2>1, <2>2 DEF Constructed
  <2>5. Sound'
    BY <1>1, <2>2, <2>4, DutiesKept DEF IInv
  <2> QED
    BY <1>1, <1>3, <2>1, <2>2, <2>3, <2>5, ConstructedStep DEF Constructing
<1> QED
  BY <1>4, <1>5

-------------------------------------------------------------------------------
(* Captures                                                                *)

\* The first capture routes the sound: the context's host is the user's sink
\* and it knows whether to go back to it.
LEMMA AssignStep == ASSUME IInv, NEW t \in Threads, Assign(t) \/ AssignCaptureOnly(t) PROVE IInv'
<1>1. /\ pc[t] = "owning" /\ Goto(t, "capturing") /\ "capturing" \in Spots /\ ctx.control /\ ~ctx.assigned
      /\ UNCHANGED <<app, step, claimed, retained, terminal, handoff, restoring, ownerCount, lock, count, seen, hasty>>
  BY DEF Assign, AssignCaptureOnly, At, Spots, appVars, stateVars
<1>2. Typed /\ ctx \in Contexts
  BY DEF IInv, Typed
<1>3. Moves(t, "capturing") /\ Sees(t, seen[t])
  BY <1>1, <1>2, GotoMoves, OneSees
<1>4. ctx.host \in Places /\ ~ctx.restore
  BY <1>1 DEF IInv, Noted
<1>5. /\ ctx' \in Contexts /\ ctx'.control /\ ctx'.host = ctx.host /\ ctx'.assigned
      /\ device' \in Places /\ (ctx'.restore \/ device' = device)
  <2>1. CASE Assign(t)
    <3>1. PICK sink \in Sinks \union {ctx.host} :
            /\ ctx' = [ctx EXCEPT !.assigned = TRUE, !.restore = (ctx.host # sink)]
            /\ device' \in (IF ctx.host # sink THEN {sink, device} ELSE {device})
      BY <2>1 DEF Assign
    <3>2. ctx' \in Contexts
      BY <1>2, <3>1 DEF Contexts
    <3>3. ctx'.control
      BY <1>1, <1>2, <3>1 DEF Contexts
    <3>4. ctx'.host = ctx.host
      BY <1>2, <3>1 DEF Contexts
    <3>5. ctx'.assigned
      BY <1>2, <3>1 DEF Contexts
    <3>6. ctx'.restore <=> ctx.host # sink
      BY <1>2, <3>1 DEF Contexts
    <3>7. device' \in Places
      BY <1>2, <1>4, <3>1 DEF Typed, Places
    <3>8. ctx'.restore \/ device' = device
      BY <3>1, <3>6
    <3> QED
      BY <3>2, <3>3, <3>4, <3>5, <3>7, <3>8
  <2>2. CASE AssignCaptureOnly(t)
    <3>1. ctx' = [ctx EXCEPT !.assigned = TRUE] /\ device' = device
      BY <2>2 DEF AssignCaptureOnly
    <3>2. ctx' \in Contexts
      BY <1>2, <3>1 DEF Contexts
    <3>3. ctx'.control
      BY <1>1, <1>2, <3>1 DEF Contexts
    <3>4. ctx'.host = ctx.host
      BY <1>2, <3>1 DEF Contexts
    <3>5. ctx'.assigned
      BY <1>2, <3>1 DEF Contexts
    <3> QED
      BY <1>2, <3>1, <3>2, <3>3, <3>4, <3>5 DEF Typed
  <2> QED
    BY <2>1, <2>2
<1>6. count # 0 /\ \A u \in Threads : pc[u] \notin Inside
  <2>1. pc[t] \in RefSpots
    BY <1>1 DEF RefSpots
  <2>2. count > 0 /\ count \in Nat /\ \A u \in Threads : pc[u] \notin Inside
    BY <2>1, ReferenceCounts
  <2> QED
    BY <2>2, SMTT(60)
<1>7. \A u \in Threads : pc'[u] \notin Inside
  BY <1>3, <1>6 DEF Moves, Inside, Constructing, Destroying
<1>8. Typed'
  BY <1>1, <1>3, <1>5 DEF IInv, Typed, Moves, Sees
<1>9. Locked'
  BY <1>1, <1>6, <1>7 DEF IInv, Locked
<1>10. Counted'
  BY <1>1, <1>3, CountedKept DEF IInv, RefSpots, OwnSpots
<1>11. Lifecycle'
  BY <1>1 DEF IInv, Lifecycle, RetainedForApp
<1>12. Noted'
  BY <1>1, <1>4, <1>5 DEF IInv, Noted
<1>13. Sound'
  BY <1>1, <1>4, <1>5 DEF IInv, Sound
<1>14. seen'[t] = Unread
  BY <1>1, ReadsNow DEF ReadsAt, Reading
<1>15. ReadsAt(pc[t], seen[t])'
  BY <1>7, <1>14, ReadsNothing
<1>16. Reads'
  BY <1>1, <1>3, <1>6, <1>15, ReadsKept DEF Moves, Sees
<1> QED
  BY <1>8, <1>9, <1>10, <1>11, <1>12, <1>13, <1>16 DEF IInv

\* owner_acquired() ends a termination only for the application that follows.
LEMMA OwnerStep == ASSUME IInv, NEW t \in Threads, OwnerAcquired(t) \/ OwnerReleased(t) PROVE IInv'
<1>1. PICK p \in Spots : /\ Goto(t, p) /\ p \in {"owning", "releasing"} /\ pc[t] \in {"referenced", "capturing"}
                         /\ p = "owning" <=> OwnerAcquired(t)
                         /\ p = "owning" <=> pc[t] = "referenced"
  <2>1. CASE OwnerAcquired(t)
    BY <2>1 DEF OwnerAcquired, At, Spots
  <2>2. CASE OwnerReleased(t)
    <3>1. ~OwnerAcquired(t)
      BY <2>2 DEF OwnerReleased, OwnerAcquired, At
    <3> QED
      BY <2>2, <3>1 DEF OwnerReleased, At, Spots
  <2> QED
    BY <2>1, <2>2
<1>2. /\ UNCHANGED <<device, app, step, claimed, retained, restoring, lock, count, ctx, seen, hasty>>
  BY DEF OwnerAcquired, OwnerReleased, appVars, sharedVars
<1>3. Typed /\ Moves(t, p) /\ Sees(t, seen[t])
  BY <1>1, <1>2, GotoMoves, OneSees DEF IInv
<1>4. /\ terminal' \in BOOLEAN /\ handoff' \in BOOLEAN /\ (terminal' => terminal) /\ (handoff' => handoff)
      /\ (terminal => terminal' \/ handoff) /\ (~handoff => (terminal' <=> terminal))
  <2>1. CASE OwnerAcquired(t)
    <3>1. (terminal' <=> terminal /\ ~handoff) /\ terminal' \in BOOLEAN /\ handoff' = FALSE
      BY <2>1 DEF OwnerAcquired
    <3> QED
      BY <3>1
  <2>2. CASE OwnerReleased(t)
    BY <1>3, <2>2 DEF OwnerReleased, Typed
  <2> QED
    BY <2>1, <2>2
<1>5. \A u \in Threads : pc[u] \notin Inside /\ pc'[u] \notin Inside
  <2>1. pc[t] \in RefSpots
    BY <1>1 DEF RefSpots
  <2>2. p \notin Inside
    BY <1>1 DEF Inside, Constructing, Destroying
  <2> QED
    BY <1>3, <2>1, <2>2, ReferenceCounts DEF Moves
<1>6. Typed'
  BY <1>2, <1>3, <1>4 DEF Typed, Moves, Sees
<1>7. Locked'
  BY <1>2, <1>5 DEF IInv, Locked, Inside
<1>8. Counted'
  <2>1. Referring' = Referring
    BY <1>1, <1>3 DEF Referring, Moves, RefSpots
  <2>2. ownerCount' = Cardinality(Owning') /\ Owning' \subseteq Captures
    <3>1. CASE OwnerAcquired(t)
      <4>1. Owning' = Owning \union {t} /\ t \notin Owning /\ t \in Captures
        BY <1>1, <1>3, <3>1 DEF Owning, Moves, OwnSpots, OwnerAcquired, At
      <4>2. Cardinality(Owning') = Cardinality(Owning) + 1
        BY <4>1, FiniteThreads, FS_AddElement
      <4> QED
        BY <3>1, <4>1, <4>2 DEF OwnerAcquired, IInv, Counted
    <3>2. CASE OwnerReleased(t)
      <4>1. Owning' = Owning \ {t} /\ t \in Owning
        <5>1. p = "releasing" /\ pc[t] = "capturing"
          BY <1>1, <3>2 DEF OwnerReleased, At
        <5> QED
          BY <1>3, <5>1 DEF Owning, Moves, OwnSpots
      <4>2. Cardinality(Owning') = Cardinality(Owning) - 1
        BY <4>1, FiniteThreads, FS_RemoveElement
      <4>3. ownerCount # 0
        BY <4>1, FiniteThreads, FS_EmptySet DEF IInv, Counted
      <4> QED
        BY <3>2, <4>1, <4>2, <4>3 DEF OwnerReleased, IInv, Counted
    <3> QED
      BY <3>1, <3>2
  <2> QED
    BY <1>2, <2>1, <2>2 DEF IInv, Counted
<1>9. Lifecycle'
  BY <1>2, <1>4 DEF IInv, Lifecycle, RetainedForApp
<1>10. Noted' /\ Sound'
  BY <1>2, DutiesKept DEF IInv
<1>11. seen'[t] = Unread
  BY <1>1, <1>2, ReadsNow DEF ReadsAt, Reading
<1>12. ReadsAt(pc[t], seen[t])'
  BY <1>5, <1>11, ReadsNothing
<1>13. app \/ terminal => app' \/ terminal'
  BY <1>2, <1>4 DEF IInv, Lifecycle
<1>14. Reads'
  BY <1>2, <1>3, <1>12, <1>13, ReadsKept DEF Moves, Sees
<1> QED
  BY <1>6, <1>7, <1>8, <1>9, <1>10, <1>14 DEF IInv

-------------------------------------------------------------------------------
(* References are released, and the last one destroys the context          *)

LEMMA ReleaseSharedStep == ASSUME IInv, NEW t \in Threads, ReleaseShared(t) PROVE IInv'
<1>1. /\ pc[t] = "releasing" /\ lock = None /\ count > 1 /\ count' = count - 1
      /\ Goto(t, "idle") /\ "idle" \in Spots
      /\ UNCHANGED <<device, app, step, claimed, retained, terminal, handoff, restoring, ownerCount>>
      /\ UNCHANGED <<lock, ctx, seen, hasty>>
  BY DEF ReleaseShared, At, Spots, appVars, stateVars
<1>2. Moves(t, "idle") /\ Sees(t, seen[t])
  BY <1>1, GotoMoves, OneSees DEF IInv
<1>3. Typed'
  BY <1>1, <1>2 DEF IInv, Typed, Moves, Sees
<1>4. count' # 0
  BY <1>1, CountIsNat, SMTT(60)
<1>5. \A u \in Threads : pc[u] \notin Inside /\ pc'[u] \notin Inside
  BY <1>1, <1>2, NobodyInside DEF Moves, Inside, Constructing, Destroying
<1>6. Locked'
  BY <1>1, <1>4, <1>5, ThreadsDiffer DEF IInv, Locked, Threads
<1>7. Counted'
  BY <1>1, <1>2, CountedLeaves DEF IInv, RefSpots, OwnSpots
<1>8. Lifecycle'
  BY <1>1 DEF IInv, Lifecycle, RetainedForApp
<1>9. Noted' /\ Sound'
  BY <1>1, DutiesKept DEF IInv
<1>10. seen'[t] = Unread
  BY <1>1, ReadsNow DEF ReadsAt, Reading
<1>11. ReadsAt(pc[t], seen[t])'
  BY <1>5, <1>10, ReadsNothing
<1>12. Reads'
  BY <1>1, <1>2, <1>11, ReadsKept DEF Moves, Sees
<1> QED
  BY <1>3, <1>6, <1>7, <1>8, <1>9, <1>12 DEF IInv

LEMMA ReleaseLastStep == ASSUME IInv, NEW t \in Threads, ReleaseLast(t) PROVE IInv'
<1>1. /\ pc[t] = "releasing" /\ lock = None /\ count = 1 /\ count' = 0 /\ lock' = t
      /\ Goto(t, "stopping") /\ "stopping" \in Spots
      /\ UNCHANGED <<device, app, step, claimed, retained, terminal, handoff, restoring, ownerCount>>
      /\ UNCHANGED <<ctx, seen, hasty>>
  BY DEF ReleaseLast, At, Spots, appVars, stateVars
<1>2. Moves(t, "stopping") /\ Sees(t, seen[t])
  BY <1>1, GotoMoves, OneSees DEF IInv
<1>3. Typed'
  BY <1>1, <1>2 DEF IInv, Typed, Moves, Sees
<1>4. \A u \in Threads : pc[u] \notin Inside
  BY <1>1, NobodyInside
<1>5. Locked'
  <2>1. pc'[t] \in Inside /\ pc'[t] \in Destroying
    BY <1>2 DEF Moves, Inside, Destroying
  <2> QED
    BY <1>1, <1>2, <1>4, <2>1 DEF Locked, Moves
<1>6. count' = count - 1
  BY <1>1, SMTT(60)
<1>7. Counted'
  BY <1>1, <1>2, <1>6, CountedLeaves DEF IInv, RefSpots, OwnSpots
<1>8. Lifecycle'
  BY <1>1 DEF IInv, Lifecycle, RetainedForApp
<1>9. Noted' /\ Sound'
  BY <1>1, DutiesKept DEF IInv
<1>10. seen'[t] = Unread /\ pc'[t] = "stopping"
  BY <1>1, <1>2, ReadsNow DEF ReadsAt, Reading, Moves
<1>11. ReadsAt(pc[t], seen[t])'
  <2>1. ~(Unread.what = "app")
    BY DEF Unread
  <2> QED
    BY <1>10, <2>1 DEF ReadsAt, Reading
<1>12. Reads'
  BY <1>1, <1>2, <1>11, ReadsKept DEF Moves, Sees
<1> QED
  BY <1>3, <1>5, <1>7, <1>8, <1>9, <1>12 DEF IInv

\* stop() ends with no context: its duty has been done, or handed on to the
\* retained value.
LEMMA DestroyedStep ==
    ASSUME IInv, NEW t \in Threads, pc[t] \in Destroying, Destroyed(t),
           UNCHANGED <<app, step, claimed, terminal, handoff, restoring, ownerCount, count, hasty>>,
           device' \in Places, retained' \in Values, RetainedForApp', Noted', Sound'
    PROVE  IInv'
<1>1. /\ ctx' = NoContext /\ lock' = None /\ Goto(t, "idle") /\ "idle" \in Spots
      /\ seen' = [seen EXCEPT ![t] = Unread]
  BY DEF Destroyed, Spots
<1>2. Moves(t, "idle") /\ Sees(t, Unread)
  BY <1>1, GotoMoves, OneSees DEF IInv
<1>3. pc[t] \in Inside /\ pc[t] \notin RefSpots /\ pc[t] \notin OwnSpots
  BY DEF Inside, Destroying, RefSpots, OwnSpots
<1>4. count = 0 /\ \A u \in Threads : u # t => pc[u] \notin Inside
  BY <1>3, InsideAlone
<1>5. Typed'
  <2>1. NoContext \in Contexts
    BY DEF NoContext, Contexts
  <2> QED
    BY <1>1, <1>2, <2>1 DEF IInv, Typed, Moves, Sees
<1>6. \A u \in Threads : pc'[u] \notin Inside
  BY <1>2, <1>4 DEF Moves, Inside, Constructing, Destroying
<1>7. Locked'
  BY <1>1, <1>6, ThreadsDiffer DEF Locked, Threads
<1>8. Counted'
  BY <1>2, <1>3, CountedKept DEF IInv, RefSpots, OwnSpots
<1>9. Lifecycle'
  BY DEF IInv, Lifecycle
<1>10. ReadsAt(pc[t], seen[t])'
  BY <1>2, <1>6, ReadsNothing DEF Sees
<1>11. Reads'
  BY <1>2, <1>4, <1>10, ReadsKept DEF Moves, Sees
<1> QED
  BY <1>5, <1>7, <1>8, <1>9, <1>11 DEF IInv

LEMMA StopStep ==
    ASSUME IInv, NEW t \in Threads, StopUnrouted(t) \/ StopRetain(t) \/ StopRestore(t)
    PROVE  IInv'
<1>1. /\ Destroyed(t) /\ ctx' = NoContext
      /\ UNCHANGED <<app, step, claimed, terminal, handoff, restoring, ownerCount, count, hasty>>
  BY DEF StopUnrouted, StopRetain, StopRestore, Destroyed, appVars, stateVars
<1>2. ~NoContext.control /\ ~NoContext.restore
  BY DEF NoContext
<1>3. ReadsAt(pc[t], seen[t]) /\ Typed
  BY ReadsNow DEF IInv
<1>4. CASE StopUnrouted(t)
  <2>1. pc[t] \in Destroying /\ ~ctx.restore /\ UNCHANGED <<device, retained>>
    BY <1>4 DEF StopUnrouted, At, stateVars, Destroying
  <2>2. RetainedForApp'
    BY <1>1, <2>1 DEF IInv, Lifecycle, RetainedForApp
  <2>3. Noted'
    BY <1>1, <1>2, <2>1 DEF IInv, Noted
  <2>4. Sound'
    BY <1>1, <1>2, <2>1 DEF IInv, Sound
  <2> QED
    BY <1>1, <1>3, <2>1, <2>2, <2>3, <2>4, DestroyedStep DEF Typed
<1>5. CASE StopRetain(t)
  <2>1. /\ pc[t] = "retaining" /\ seen[t].good /\ ~terminal
        /\ retained' = [host |-> ctx.host, restore |-> ctx.restore] /\ UNCHANGED device
    BY <1>5 DEF StopRetain, CanRetain, At
  <2>2. ctx.restore /\ app
    BY <1>3, <2>1 DEF ReadsAt
  <2>3. ctx \in Contexts /\ ctx.control /\ ctx.host \in Places
    BY <1>3, <2>2 DEF IInv, Noted, Typed
  <2>4. retained' \in Values /\ retained'.host = ctx.host /\ (retained'.restore <=> ctx.restore)
    BY <2>1, <2>3 DEF Values, Contexts
  <2>5. retained' # Nothing
    <3>1. ~Nothing.restore
      BY DEF Nothing
    <3> QED
      BY <2>2, <2>4, <3>1
  <2>6. RetainedForApp'
    BY <1>1, <2>1, <2>2 DEF RetainedForApp
  <2>7. Noted'
    BY <1>1, <1>2, <2>2, <2>3, <2>4 DEF IInv, Noted
  <2>8. Sound'
    BY <1>1, <1>2, <2>1, <2>3, <2>4, <2>5 DEF IInv, Sound
  <2>9. pc[t] \in Destroying
    BY <2>1 DEF Destroying
  <2> QED
    BY <1>1, <1>3, <2>1, <2>4, <2>6, <2>7, <2>8, <2>9, DestroyedStep DEF Typed
<1>6. CASE StopRestore(t)
  <2>1. pc[t] = "restoring" /\ device' = ctx.host /\ UNCHANGED retained
    BY <1>6 DEF StopRestore, At, stateVars
  <2>2. ctx.restore
    BY <1>3, <2>1 DEF ReadsAt
  <2>3. ctx.control /\ ctx.host \in Places
    BY <2>2 DEF IInv, Noted
  <2>4. RetainedForApp'
    BY <1>1, <2>1 DEF IInv, Lifecycle, RetainedForApp
  <2>5. Noted'
    BY <1>1, <1>2, <2>1 DEF IInv, Noted
  <2>6. Sound'
    BY <1>1, <1>2, <2>1, <2>3 DEF IInv, Sound
  <2>7. pc[t] \in Destroying
    BY <2>1 DEF Destroying
  <2> QED
    BY <1>1, <1>3, <2>1, <2>3, <2>4, <2>5, <2>6, <2>7, DestroyedStep DEF Typed
<1> QED
  BY <1>4, <1>5, <1>6

-------------------------------------------------------------------------------
(* The application's lifecycle                                             *)

\* No thread moves, and nothing a thread relies on is withdrawn.
LEMMA LifecycleStep ==
    ASSUME IInv, UNCHANGED <<ownerCount, lock, count, ctx, pc, seen, hasty>>,
           Typed', Lifecycle', Noted', Sound',
           app \/ terminal => app' \/ terminal', retained' \in {retained, Nothing}
    PROVE  IInv'
<1>1. Locked'
  BY DEF IInv, Locked
<1>2. Counted'
  BY DEF IInv, Counted, Referring, Owning
<1>3. Reads'
  <2> SUFFICES ASSUME NEW t \in Threads PROVE ReadsAt(pc[t], seen[t])'
    BY DEF Reads
  <2>1. ReadsAt(pc[t], seen[t])
    BY ReadsNow
  <2> QED
    BY <2>1 DEF ReadsAt
<1> QED
  BY <1>1, <1>2, <1>3 DEF IInv

LEMMA TerminateStep == ASSUME IInv, Terminate PROVE IInv'
<1>1. /\ step = "idle" /\ terminal' = TRUE /\ handoff' = FALSE
      /\ UNCHANGED <<device, app, ownerCount, lock, count, ctx, pc, seen, hasty>>
  BY DEF Terminate, sharedVars
<1>2. ~restoring /\ claimed = Nothing
  BY <1>1 DEF IInv, Lifecycle
<1>3. Nothing \in Values
  BY DEF Nothing, Values
<1>4. CASE retained = Nothing
  <2>1. step' = "ending" /\ UNCHANGED <<claimed, retained, restoring>>
    BY <1>4 DEF Terminate
  <2>2. Typed'
    BY <1>1, <2>1 DEF IInv, Typed
  <2>3. Lifecycle'
    BY <1>1, <1>2, <1>4, <2>1 DEF Lifecycle, RetainedForApp, Nothing
  <2>4. Noted' /\ Sound'
    BY <1>1, <2>1, DutiesKept DEF IInv
  <2> QED
    BY <1>1, <2>1, <2>2, <2>3, <2>4, LifecycleStep
<1>5. CASE retained # Nothing
  <2>1. step' = "restoring" /\ restoring' = TRUE /\ claimed' = retained /\ retained' = Nothing
    BY <1>2, <1>5 DEF Terminate
  <2>2. Typed'
    BY <1>1, <1>3, <2>1 DEF IInv, Typed
  <2>3. Lifecycle'
    BY <1>1, <2>1 DEF Lifecycle, RetainedForApp, Nothing
  <2>4. Noted'
    BY <1>1, <1>5, <2>1 DEF IInv, Noted
  <2>5. Sound'
    BY <1>1, <1>5, <2>1 DEF IInv, Sound
  <2> QED
    BY <1>1, <2>1, <2>2, <2>3, <2>4, <2>5, LifecycleStep
<1> QED
  BY <1>4, <1>5

\* The terminal restore puts the sound back where the claimed value says.
LEMMA TerminalRestoreStep == ASSUME IInv, TerminalRestore PROVE IInv'
<1>1. /\ step = "restoring" /\ device' = (IF claimed.restore THEN claimed.host ELSE device)
      /\ claimed' = Nothing /\ step' = "restored"
      /\ UNCHANGED <<app, retained, terminal, handoff, restoring, ownerCount, lock, count, ctx, pc, seen, hasty>>
  BY DEF TerminalRestore, sharedVars, stateVars
<1>2. claimed = Nothing => device' = device
  <2>1. ~Nothing.restore
    BY DEF Nothing
  <2> QED
    BY <1>1, <2>1
<1>3. claimed # Nothing => claimed.restore /\ claimed.host \in Places /\ device' = claimed.host
  BY <1>1 DEF IInv, Noted
<1>4. Nothing \in Values
  BY DEF Nothing, Values
<1>5. Typed'
  BY <1>1, <1>2, <1>3, <1>4 DEF IInv, Typed
<1>6. Lifecycle'
  BY <1>1 DEF IInv, Lifecycle, RetainedForApp, Nothing
<1>7. Noted'
  BY <1>1 DEF IInv, Noted, Nothing
<1>8. Sound'
  BY <1>1, <1>2, <1>3 DEF IInv, Sound, Nothing
<1> QED
  BY <1>1, <1>5, <1>6, <1>7, <1>8, LifecycleStep

\* An application goes only after its termination was noted, and the next one
\* is handed over to only once it is there.
LEMMA AppStep ==
    ASSUME IInv, CompleteTerminalRestore \/ AppGone \/ AppSet \/ AppStarted
    PROVE  IInv'
<1>1. UNCHANGED <<device, claimed, retained, terminal, ownerCount, lock, count, ctx, pc, seen, hasty>>
  BY DEF CompleteTerminalRestore, AppGone, AppSet, AppStarted, stateVars, sharedVars
<1>2. step # "idle" /\ terminal
  BY DEF CompleteTerminalRestore, AppGone, AppSet, AppStarted, IInv, Lifecycle
<1>3. Typed'
  BY <1>1 DEF CompleteTerminalRestore, AppGone, AppSet, AppStarted, stateVars, IInv, Typed
<1>4. retained = Nothing
  BY <1>2 DEF IInv, Lifecycle, RetainedForApp
<1>5. claimed = Nothing /\ ~handoff /\ (AppStarted => app)
  <2>1. step # "restoring"
    BY DEF CompleteTerminalRestore, AppGone, AppSet, AppStarted
  <2> QED
    BY <1>2, <2>1 DEF AppStarted, IInv, Lifecycle
<1>6. Lifecycle'
  <2>1. CASE CompleteTerminalRestore
    <3>1. step' = "ending" /\ ~restoring' /\ UNCHANGED <<app, handoff>>
      BY <2>1 DEF CompleteTerminalRestore
    <3> QED
      BY <1>1, <1>2, <1>4, <1>5, <3>1 DEF Lifecycle, RetainedForApp
  <2>2. CASE AppGone
    <3>1. step' \in {"idle", "executing"} /\ UNCHANGED <<restoring, handoff>> /\ ~restoring
      BY <2>2 DEF AppGone, stateVars, IInv, Lifecycle
    <3> QED
      BY <1>1, <1>2, <1>4, <1>5, <3>1 DEF Lifecycle, RetainedForApp
  <2>3. CASE AppSet
    <3>1. step' = "starting" /\ app' /\ UNCHANGED <<restoring, handoff>> /\ ~restoring
      BY <2>3 DEF AppSet, stateVars, IInv, Lifecycle
    <3> QED
      BY <1>1, <1>2, <1>4, <1>5, <3>1 DEF Lifecycle, RetainedForApp
  <2>4. CASE AppStarted
    <3>1. step' = "idle" /\ app' /\ UNCHANGED restoring /\ ~restoring
      BY <1>5, <2>4 DEF AppStarted, IInv, Lifecycle
    <3> QED
      BY <1>1, <1>2, <1>4, <1>5, <3>1 DEF Lifecycle, RetainedForApp
  <2> QED
    BY <2>1, <2>2, <2>3, <2>4
<1>7. Noted' /\ Sound'
  BY <1>1, DutiesKept DEF IInv
<1> QED
  BY <1>1, <1>2, <1>3, <1>4, <1>6, <1>7, LifecycleStep

-------------------------------------------------------------------------------
(* The theorems                                                            *)

LEMMA InitIInv == Init => IInv
<1> SUFFICES ASSUME Init PROVE IInv
  OBVIOUS
<1>1. Typed
  BY DEF Init, Typed, Places, Nothing, Values, NoContext, Contexts, Unread, Readings, Spots
<1>2. Locked
  <2>1. \A t \in Threads : pc[t] \notin Inside /\ t # None
    BY ThreadsDiffer DEF Init, Inside, Constructing, Destroying, Threads
  <2> QED
    BY <2>1 DEF Init, Locked
<1>3. Counted
  <2>1. Referring = {} /\ Owning = {}
    BY DEF Init, Referring, Owning, RefSpots, OwnSpots
  <2> QED
    BY <2>1, FS_EmptySet DEF Init, Counted
<1>4. Lifecycle
  BY DEF Init, Lifecycle, RetainedForApp
<1>5. Reads
  <2> SUFFICES ASSUME NEW t \in Threads PROVE ReadsAt(pc[t], seen[t])
    BY DEF Reads
  <2>1. pc[t] = "idle" /\ seen[t] = Unread
    BY DEF Init
  <2>2. ~(Unread.what = "app")
    BY DEF Unread
  <2> QED
    BY <2>1, <2>2 DEF ReadsAt
<1>6. ~NoContext.control /\ ~NoContext.restore
  BY DEF NoContext
<1>7. Noted
  BY <1>6 DEF Init, Noted
<1>8. Sound
  BY <1>6 DEF Init, Sound
<1> QED
  BY <1>1, <1>2, <1>3, <1>4, <1>5, <1>7, <1>8 DEF IInv

LEMMA NextIInv == IInv /\ [Next]_vars => IInv'
<1> SUFFICES ASSUME IInv, [Next]_vars PROVE IInv'
  OBVIOUS
<1>1. ASSUME NEW t \in Threads, RefExisting(t) \/ RefConstruct(t) PROVE IInv'
  BY <1>1, RefExistingStep, RefConstructStep
<1>2. ASSUME NEW t \in Threads, Start(t) PROVE IInv'
  <2>1. CASE PolicyReads(t, "deciding")
    BY <2>1, PolicyReadsStep
  <2>2. CASE PolicyAnswers(t, "deciding", "reclaimable", "creating")
    BY <2>2, PolicyAnswersStep
  <2>3. CASE ReadApp(t, "reclaimable", "reclaiming")
    BY <2>3, ReadAppStep
  <2>4. CASE StartWait(t) \/ StartNoReclaim(t)
    BY <2>4, MoveStep
  <2>5. CASE StartReclaim(t) \/ StartCreate(t) \/ StartSilent(t)
    BY <2>5, StartReclaimStep, StartCreateStep
  <2> QED
    BY <1>2, <2>1, <2>2, <2>3, <2>4, <2>5 DEF Start, StartDecide
<1>3. ASSUME NEW t \in Threads,
             \/ OwnerAcquired(t) \/ HoldDropped(t) \/ AssignSkipped(t) \/ Assign(t)
             \/ AssignCaptureOnly(t) \/ OwnerReleased(t)
      PROVE  IInv'
  BY <1>3, OwnerStep, MoveStep, AssignStep
<1>4. ASSUME NEW t \in Threads, Stop(t) PROVE IInv'
  <2>1. CASE ReleaseShared(t) \/ ReleaseLast(t)
    BY <2>1, ReleaseSharedStep, ReleaseLastStep
  <2>2. CASE ctx.restore /\ PolicyReads(t, "stopping")
    BY <2>2, PolicyReadsStep
  <2>3. CASE PolicyAnswers(t, "stopping", "retainable", "restoring")
    BY <2>3, PolicyAnswersStep
  <2>4. CASE ReadApp(t, "retainable", "retaining")
    BY <2>4, ReadAppStep
  <2>5. CASE StopNoRetain(t)
    BY <2>5, MoveStep
  <2>6. CASE StopUnrouted(t) \/ StopRetain(t) \/ StopRestore(t)
    BY <2>6, StopStep
  <2> QED
    BY <1>4, <2>1, <2>2, <2>3, <2>4, <2>5, <2>6 DEF Stop, StopDecide
<1>5. CASE Terminate \/ Ending \/ AppSet \/ AppStarted
  BY <1>5, TerminateStep, TerminalRestoreStep, AppStep DEF Ending
<1>6. CASE UNCHANGED vars
  <2>1. UNCHANGED <<device, app, step, claimed, retained, terminal, handoff, restoring,
                    ownerCount, lock, count, ctx, pc, seen, hasty>>
    BY <1>6 DEF vars, appVars, stateVars, sharedVars
  <2>2. Typed'
    BY <2>1 DEF IInv, Typed
  <2>3. Lifecycle'
    BY <2>1 DEF IInv, Lifecycle, RetainedForApp
  <2>4. Noted' /\ Sound'
    BY <2>1, DutiesKept DEF IInv
  <2> QED
    BY <2>1, <2>2, <2>3, <2>4, LifecycleStep
<1> QED
  BY <1>1, <1>2, <1>3, <1>4, <1>5, <1>6 DEF Next

LEMMA Invariance == Spec => []IInv
BY InitIInv, NextIInv, PTL DEF Spec

\* Every variable keeps its type, and the reference count of shared_t and
\* state_t's count of owners never exceed the threads there are.
THEOREM AudioTypes == Spec => []TypeOK
<1>1. IInv => TypeOK
  <2> SUFFICES ASSUME IInv PROVE TypeOK
    OBVIOUS
  <2>1. /\ Cardinality(Referring) \in Nat /\ Cardinality(Threads) \in Nat
        /\ Cardinality(Referring) <= Cardinality(Threads)
    <3>1. Referring \subseteq Threads
      BY DEF Referring
    <3> QED
      BY <3>1, FiniteThreads, FS_Subset, FS_CardinalityType
  <2>2. /\ Cardinality(Owning) \in Nat /\ Cardinality(Captures) \in Nat
        /\ Cardinality(Owning) <= Cardinality(Captures)
    <3>1. Owning \subseteq Captures
      BY DEF IInv, Counted
    <3> QED
      BY <3>1, ThreadsAreFinite, FS_Subset, FS_CardinalityType
  <2>3. count \in 0 .. Cardinality(Threads) /\ ownerCount \in 0 .. Cardinality(Captures)
    BY <2>1, <2>2, SMTT(60) DEF IInv, Counted
  <2>4. Places \union {None} = Sinks \union {UserSink, None}
    BY DEF Places
  <2> QED
    BY <2>3, <2>4 DEF TypeOK, IInv, Typed, Places, Values, Contexts, Readings, Spots
<1> QED
  BY <1>1, Invariance, PTL

\* What stop() retains belongs to an application that runs and that nobody
\* has asked to end, at every moment, although stop(), retain() and the
\* termination read and write that at different times.
THEOREM RetainedForAppHolds == Spec => []RetainedForApp
<1>1. IInv => RetainedForApp
  BY DEF IInv, Lifecycle
<1> QED
  BY <1>1, Invariance, PTL

\* While the sound of the host goes elsewhere, somebody is going to bring it
\* back to the user's sink: the context, the retained value or the terminal
\* restore. A context that was created during a terminal restore (hasty) is
\* the exception.
THEOREM SoundComesBackHolds == Spec => []SoundComesBack
<1>1. IInv => SoundComesBack
  <2> SUFFICES ASSUME IInv, device # UserSink, ~hasty
               PROVE  \E duty \in {ctx, retained, claimed} : duty.restore /\ duty.host = UserSink
    BY DEF SoundComesBack
  <2>1. CASE ctx.restore
    BY <2>1 DEF IInv, Noted, Sound
  <2>2. CASE retained # Nothing
    BY <2>2 DEF IInv, Noted, Sound
  <2>3. CASE claimed # Nothing
    BY <2>3 DEF IInv, Noted, Sound
  <2> QED
    BY <2>1, <2>2, <2>3 DEF IInv, Sound
<1> QED
  BY <1>1, Invariance, PTL

===============================================================================
