-------------------------- MODULE StreamControlProofs --------------------------
(***************************************************************************)
(* The end-all-streams action of StreamControl is alone, no start survives *)
(* it, the reservations count the starts that have not retired, and the    *)
(* boundary with its two queues implements StreamGate, for any number of   *)
(* host threads, starts, epochs and callbacks.                             *)
(*                                                                         *)
(* TerminalAlone is not inductive: that nobody is inside while the action  *)
(* runs rests on active counting exactly the registered threads and the    *)
(* callbacks (Counted), on a thread inside an activity being registered or *)
(* ending (Nesting), on one host at a time being past the terminal mutex   *)
(* with the epoch odd from its close to its reopen (Exclusive), and on an  *)
(* admitted start running on a registered worker that runs nothing else    *)
(* (Placed).                                                               *)
(*                                                                         *)
(* The admission of HTTP mutations (Handoff) follows at the end.           *)
(***************************************************************************)
EXTENDS StreamControl, FiniteSetTheorems, TLAPS

\* A leaf that names no prover is given to Zenon; those that need arithmetic,
\* records or sequences name the SMT solver.
USE ZenonT(60)

Typed ==
    /\ epoch \in Nat /\ callbacks \in Nat /\ active \in Nat /\ lastEnded \in Nat
    /\ depth \in [Threads -> Nat]
    /\ registered \subseteq Threads
    /\ ending \subseteq Hosts
    /\ step \in [Hosts -> {"free", "locked", "draining", "drained", "acting"}]
    /\ start \in [Starts -> [phase : Phases, ticket : Nat, by : Threads \union {Nobody}]]
    /\ queue \in [Workers -> Seq(Starts)]

Counted ==
    /\ IsFiniteSet(registered)
    /\ active = Cardinality(registered) + callbacks

Nesting ==
    /\ \A t \in registered : depth[t] > 0
    /\ \A t \in Threads : depth[t] > 0 => t \in registered \/ t \in ending

Terminal(h) == step[h] \in {"draining", "drained", "acting"}

Exclusive ==
    /\ \A h \in Hosts : step[h] # "free" => terminal = h
    /\ \A h \in Hosts : h \in ending <=> step[h] = "acting"
    /\ Odd(epoch) <=> \E h \in Hosts : Terminal(h)
    /\ \A h \in Hosts : step[h] \in {"drained", "acting"} => active = 0

\* Starts that no thread has taken, and starts that wait in a queue.
Untaken == {"new", "ticketed", "queued", "failed", "done"}

Placed ==
    /\ \A s \in Starts : IF start[s].phase \in Untaken
                         THEN start[s].by = Nobody
                         ELSE start[s].by \in Threads \ Hosts
    /\ \A r, s \in Starts : start[r].by = start[s].by /\ start[r].by # Nobody => r = s
    /\ \A s \in Starts : Running(s) => start[s].by \in registered

Lined(w) ==
    /\ \A i \in 1 .. Len(queue[w]) : start[queue[w][i]].phase = "queued"
    /\ \A i, j \in 1 .. Len(queue[w]) : queue[w][i] = queue[w][j] => i = j

Queued ==
    /\ \A w \in Workers : Lined(w)
    /\ \A i \in 1 .. Len(queue[RouteWorker]) : queue[RouteWorker][i] \in Routes
    /\ \A i \in 1 .. Len(queue[StartupWorker]) : queue[StartupWorker][i] \in Startups

Dated ==
    /\ lastEnded <= epoch
    /\ \A s \in Starts : start[s].ticket <= epoch
    /\ NoStaleStart

IInv == Typed /\ Counted /\ Nesting /\ Exclusive /\ Placed /\ Queued /\ Dated

-------------------------------------------------------------------------------
(* The counter and the two guards                                          *)

\* Closing and reopening admission each flip the parity of the epoch.
LEMMA Parity == \A n \in Nat : Odd(n + 1) <=> ~Odd(n)
BY SMTT(60) DEF Odd

\* The counter is zero only when no thread is registered and no callback is
\* alive, and covers each registered thread.
LEMMA CounterExact ==
    ASSUME Typed, Counted
    PROVE  /\ active = 0 => registered = {} /\ callbacks = 0
           /\ registered # {} => active > 0
           /\ callbacks > 0 => active > 0
<1>1. Cardinality(registered) \in Nat
  BY FS_CardinalityType DEF Counted
<1>2. Cardinality(registered) = 0 <=> registered = {}
  BY FS_EmptySet DEF Counted
<1> QED
  BY <1>1, <1>2, SMTT(60) DEF Typed, Counted

\* activity_guard_t's constructor keeps the count exact, and counts nobody
\* while the epoch is odd.
LEMMA ConstructExact ==
    ASSUME Typed, Counted, Nesting, NEW t \in Threads, Construct(t),
           UNCHANGED <<callbacks, ending>>
    PROVE  /\ active' \in Nat /\ depth' \in [Threads -> Nat] /\ registered' \subseteq Threads
           /\ Counted' /\ Nesting'
           /\ registered \subseteq registered'
           /\ Odd(epoch) => active' = active /\ registered' = registered
<1>1. CASE Nested(t) /\ depth' = [depth EXCEPT ![t] = @ + 1] /\ UNCHANGED <<active, registered>>
  <2>1. depth' \in [Threads -> Nat] /\ \A u \in Threads : u # t => depth'[u] = depth[u]
    BY <1>1, SMTT(60) DEF Typed
  <2>2. depth'[t] = depth[t] + 1 /\ depth[t] \in Nat
    BY <1>1 DEF Typed
  <2>3. t \in registered \/ t \in ending
    BY <1>1, <2>2, SMTT(60) DEF Nested, Nesting, Typed
  <2>4. Nesting'
    BY <1>1, <2>1, <2>2, <2>3, SMTT(60) DEF Nesting, Typed
  <2> QED
    BY <1>1, <2>1, <2>4 DEF Typed, Counted
<1>3. CASE UNCHANGED <<active, registered, depth>>
  BY <1>3 DEF Typed, Counted, Nesting
<1>2. CASE /\ Admissible(t)
           /\ active' = active + 1
           /\ registered' = registered \union {t}
           /\ depth' = [depth EXCEPT ![t] = @ + 1]
  <2>1. t \notin registered
    BY <1>2, SMTT(60) DEF Admissible, Nested, Nesting, Typed
  <2>2. IsFiniteSet(registered') /\ Cardinality(registered') = Cardinality(registered) + 1
    BY <1>2, <2>1, FS_AddElement DEF Counted
  <2>3. Cardinality(registered) \in Nat
    BY FS_CardinalityType DEF Counted
  <2>4. Counted' /\ active' \in Nat
    BY <1>2, <2>2, <2>3, SMTT(60) DEF Counted, Typed
  <2> QED
    BY <1>2, <2>4, SMTT(60) DEF Typed, Nesting, Admissible
<1> QED
  BY <1>1, <1>2, <1>3 DEF Construct

\* unlock keeps the count exact, and only the outermost guard of a registered
\* thread gives the registration up.
LEMMA UnlockExact ==
    ASSUME Typed, Counted, Nesting, NEW t \in Threads, depth[t] > 0, Unlock(t),
           UNCHANGED <<callbacks, ending>>
    PROVE  /\ active' \in Nat /\ depth' \in [Threads -> Nat] /\ registered' \subseteq Threads
           /\ Counted' /\ Nesting'
           /\ registered' \subseteq registered /\ registered \ {t} \subseteq registered'
           /\ depth[t] > 1 => registered' = registered
           /\ active = 0 => active' = 0
           /\ active' = active \/ (active' = active - 1 /\ active > 0)
<1>1. CASE depth[t] = 1 /\ t \in registered
  <2>1. active' = active - 1 /\ registered' = registered \ {t}
    BY <1>1 DEF Unlock
  <2>2. IsFiniteSet(registered') /\ Cardinality(registered') = Cardinality(registered) - 1
    BY <1>1, <2>1, FS_RemoveElement DEF Counted
  <2>3. Cardinality(registered) \in Nat /\ Cardinality(registered') \in Nat
    BY <2>2, FS_CardinalityType DEF Counted
  <2>4. Counted' /\ active' \in Nat
    BY <2>1, <2>2, <2>3, SMTT(60) DEF Counted, Typed
  <2>5. active > 0
    BY <1>1, CounterExact
  <2>6. depth' = [depth EXCEPT ![t] = @ - 1]
    BY DEF Unlock
  <2>7. Nesting' /\ depth' \in [Threads -> Nat]
    BY <1>1, <2>1, <2>6, SMTT(60) DEF Nesting, Typed
  <2> QED
    BY <1>1, <2>1, <2>4, <2>5, <2>7, SMTT(60) DEF Typed
<1>2. CASE ~(depth[t] = 1 /\ t \in registered)
  <2>1. UNCHANGED <<active, registered>> /\ depth' = [depth EXCEPT ![t] = @ - 1]
    BY <1>2 DEF Unlock
  <2>2. depth' \in [Threads -> Nat] /\ \A u \in Threads : u # t => depth'[u] = depth[u]
    BY <2>1, SMTT(60) DEF Typed
  <2>3. depth'[t] = depth[t] - 1 /\ depth[t] \in Nat
    BY <2>1 DEF Typed
  <2>4. \A u \in registered' : depth'[u] > 0
    BY <1>2, <2>1, <2>2, <2>3, SMTT(60) DEF Nesting, Typed
  <2>5. \A u \in Threads : depth'[u] > 0 => u \in registered' \/ u \in ending'
    BY <2>1, <2>2 DEF Nesting, Typed
  <2>6. Nesting'
    BY <2>4, <2>5 DEF Nesting
  <2>7. Counted'
    BY <2>1 DEF Counted
  <2>8. registered' \subseteq Threads /\ active' \in Nat
    BY <2>1 DEF Typed
  <2> QED
    BY <2>1, <2>2, <2>6, <2>7, <2>8
<1> QED
  BY <1>1, <1>2

-------------------------------------------------------------------------------
(* Each conjunct, for the steps that leave what it speaks of alone         *)

\* Steps of the queues alone do not disturb the boundary.
LEMMA GateKept ==
    ASSUME IInv, UNCHANGED gateVars
    PROVE  Counted' /\ Nesting' /\ Exclusive'
BY DEF IInv, gateVars, Counted, Nesting, Exclusive, Terminal, Odd

\* Steps of the boundary do not disturb the starts, as long as no thread that
\* runs one loses its registration.
LEMMA StartsKept ==
    ASSUME IInv, UNCHANGED <<startVars, lastEnded>>, epoch' \in Nat, epoch <= epoch',
           \A s \in Starts : Running(s) => start[s].by \in registered'
    PROVE  Placed' /\ Queued' /\ Dated'
<1>1. Placed'
  BY DEF IInv, startVars, Placed, Running
<1>2. Queued'
  BY DEF IInv, startVars, Queued, Lined
<1>3. Dated'
  BY SMTT(60) DEF IInv, Typed, startVars, Dated, NoStaleStart, Running
<1> QED
  BY <1>1, <1>2, <1>3

\* A step that changes neither the epoch, the terminal mutex nor the steps of
\* terminate() keeps Exclusive, if it leaves a drained boundary drained.
LEMMA ExclusiveKept ==
    ASSUME IInv, UNCHANGED <<epoch, terminal, ending, step>>,
           Odd(epoch) /\ active = 0 => active' = 0
    PROVE  Exclusive'
BY DEF IInv, Exclusive, Terminal, Odd

-------------------------------------------------------------------------------
(* The steps of activities and callbacks                                   *)

LEMMA EnterActivityStep ==
    ASSUME IInv, NEW t \in Threads, EnterActivity(t)
    PROVE  IInv'
<1>1. Typed /\ Counted /\ Nesting /\ Construct(t) /\ UNCHANGED <<callbacks, ending>>
  BY DEF IInv, EnterActivity
<1>2. /\ active' \in Nat /\ depth' \in [Threads -> Nat] /\ registered' \subseteq Threads
      /\ Counted' /\ Nesting'
      /\ registered \subseteq registered'
      /\ Odd(epoch) => active' = active /\ registered' = registered
  BY <1>1, ConstructExact
<1>3. Typed'
  BY <1>1, <1>2 DEF EnterActivity, startVars, Typed
<1>4. Exclusive'
  BY <1>2, ExclusiveKept DEF EnterActivity
<1>5. Placed' /\ Queued' /\ Dated'
  BY <1>2, StartsKept, SMTT(60) DEF EnterActivity, IInv, Typed, Placed
<1> QED
  BY <1>2, <1>3, <1>4, <1>5 DEF IInv

LEMMA LeaveActivityStep ==
    ASSUME IInv, NEW t \in Threads, LeaveActivity(t)
    PROVE  IInv'
<1>1. Typed /\ Counted /\ Nesting /\ Unlock(t) /\ UNCHANGED <<callbacks, ending>>
  BY DEF IInv, LeaveActivity
<1>2. depth[t] > 0 /\ (t \notin Hosts => depth[t] > 1)
  BY SMTT(60) DEF LeaveActivity, OwnDepth, IInv, Typed
<1>3. /\ active' \in Nat /\ depth' \in [Threads -> Nat] /\ registered' \subseteq Threads
      /\ Counted' /\ Nesting'
      /\ registered' \subseteq registered /\ registered \ {t} \subseteq registered'
      /\ depth[t] > 1 => registered' = registered
      /\ active = 0 => active' = 0
  BY <1>1, <1>2, UnlockExact
<1>4. Typed'
  BY <1>1, <1>3 DEF LeaveActivity, startVars, Typed
<1>5. Exclusive'
  BY <1>3, ExclusiveKept DEF LeaveActivity
<1>6. \A s \in Starts : Running(s) => start[s].by \in registered'
  <2> SUFFICES ASSUME NEW s \in Starts, Running(s) PROVE start[s].by \in registered'
    OBVIOUS
  <2>1. start[s].by \in registered /\ start[s].by \notin Hosts
    BY DEF IInv, Placed, Running, Untaken
  <2> QED
    BY <1>2, <1>3, <2>1
<1>7. Placed' /\ Queued' /\ Dated'
  BY <1>6, StartsKept, SMTT(60) DEF LeaveActivity, IInv, Typed
<1> QED
  BY <1>3, <1>4, <1>5, <1>7 DEF IInv

LEMMA EnterCallbackStep ==
    ASSUME IInv, NEW t \in Threads, EnterCallback(t)
    PROVE  IInv'
<1>1. Odd(epoch) => active > 0
  BY CounterExact DEF EnterCallback, IInv
<1>2. Cardinality(registered) \in Nat
  BY FS_CardinalityType DEF IInv, Counted
<1>3. Typed' /\ Counted'
  BY <1>2, SMTT(60) DEF EnterCallback, startVars, IInv, Typed, Counted
<1>4. Nesting'
  BY DEF EnterCallback, IInv, Nesting
<1>5. Exclusive'
  BY <1>1, ExclusiveKept, SMTT(60) DEF EnterCallback
<1>6. Placed' /\ Queued' /\ Dated'
  BY StartsKept, SMTT(60) DEF EnterCallback, IInv, Typed, Placed
<1> QED
  BY <1>3, <1>4, <1>5, <1>6 DEF IInv

LEMMA LeaveCallbackStep ==
    ASSUME IInv, LeaveCallback
    PROVE  IInv'
<1>1. active > 0
  BY CounterExact DEF LeaveCallback, IInv
<1>2. Cardinality(registered) \in Nat
  BY FS_CardinalityType DEF IInv, Counted
<1>3. Typed' /\ Counted'
  BY <1>1, <1>2, SMTT(60) DEF LeaveCallback, startVars, IInv, Typed, Counted
<1>4. Nesting'
  BY DEF LeaveCallback, IInv, Nesting
<1>5. Exclusive'
  BY <1>1, ExclusiveKept, SMTT(60) DEF LeaveCallback, IInv, Typed
<1>6. Placed' /\ Queued' /\ Dated'
  BY StartsKept, SMTT(60) DEF LeaveCallback, IInv, Typed, Placed
<1> QED
  BY <1>3, <1>4, <1>5, <1>6 DEF IInv

-------------------------------------------------------------------------------
(* The steps of terminate()                                                *)

LEMMA LockTerminalStep ==
    ASSUME IInv, NEW h \in Hosts, LockTerminal(h)
    PROVE  IInv'
<1>1. Typed' /\ Counted' /\ Nesting'
  BY DEF LockTerminal, startVars, IInv, Typed, Counted, Nesting
<1>2. \A g \in Hosts : step[g] = "free"
  BY ThreadsDiffer DEF LockTerminal, IInv, Exclusive
<1>3. Exclusive'
  BY <1>2 DEF LockTerminal, IInv, Typed, Exclusive, Terminal, Odd
<1>4. Placed' /\ Queued' /\ Dated'
  BY StartsKept, SMTT(60) DEF LockTerminal, IInv, Typed, Placed
<1> QED
  BY <1>1, <1>3, <1>4 DEF IInv

LEMMA CloseAdmissionStep ==
    ASSUME IInv, NEW h \in Hosts, CloseAdmission(h)
    PROVE  IInv'
<1>1. Typed' /\ Counted' /\ Nesting'
  BY SMTT(60) DEF CloseAdmission, startVars, IInv, Typed, Counted, Nesting
<1>2. \A g \in Hosts : g # h => step[g] = "free"
  BY DEF CloseAdmission, IInv, Exclusive
<1>3. ~Odd(epoch)
  BY <1>2 DEF CloseAdmission, IInv, Exclusive, Terminal
<1>4. Odd(epoch')
  BY <1>3, Parity DEF CloseAdmission, IInv, Typed
<1>5. step' = [step EXCEPT ![h] = "draining"] /\ UNCHANGED <<terminal, ending, active>>
  BY DEF CloseAdmission
<1>6. Exclusive'
  BY <1>2, <1>4, <1>5 DEF CloseAdmission, IInv, Typed, Exclusive, Terminal, Odd
<1>7. Placed' /\ Queued' /\ Dated'
  BY StartsKept, SMTT(60) DEF CloseAdmission, IInv, Typed, Placed
<1> QED
  BY <1>1, <1>6, <1>7 DEF IInv

LEMMA DrainedStep ==
    ASSUME IInv, NEW h \in Hosts, Drained(h)
    PROVE  IInv'
<1>1. Typed' /\ Counted' /\ Nesting'
  BY DEF Drained, startVars, IInv, Typed, Counted, Nesting
<1>2. Exclusive'
  BY DEF Drained, IInv, Typed, Exclusive, Terminal, Odd
<1>3. Placed' /\ Queued' /\ Dated'
  BY StartsKept, SMTT(60) DEF Drained, IInv, Typed, Placed
<1> QED
  BY <1>1, <1>2, <1>3 DEF IInv

\* When the action begins nobody is registered, so no start is running and
\* the new lastEnded binds none.
LEMMA RunActionStep ==
    ASSUME IInv, NEW h \in Hosts, RunAction(h)
    PROVE  IInv'
<1>1. Typed' /\ Counted'
  BY DEF RunAction, startVars, IInv, Typed, Counted
<1>2. Nesting'
  BY DEF RunAction, IInv, Nesting
<1>3. Exclusive'
  BY DEF RunAction, IInv, Typed, Exclusive, Terminal, Odd
<1>4. registered = {}
  BY CounterExact DEF RunAction, IInv, Exclusive
<1>5. \A s \in Starts : ~Running(s)
  BY <1>4 DEF IInv, Placed
<1>6. Placed' /\ Queued'
  BY DEF RunAction, startVars, IInv, Placed, Queued, Lined, Running
<1>7. Dated'
  BY <1>5, SMTT(60) DEF RunAction, startVars, IInv, Typed, Dated, NoStaleStart, Running
<1> QED
  BY <1>1, <1>2, <1>3, <1>6, <1>7 DEF IInv

\* Admission reopens: after a timeout, after the second authorization failed
\* and after the action.
LEMMA ReopenStep ==
    ASSUME IInv, NEW h \in Hosts, Reopen(h), UNCHANGED lastEnded, Terminal(h), 
           h \in ending => depth[h] = 0
    PROVE  IInv'
<1>1. Typed' /\ Counted'
  BY SMTT(60) DEF Reopen, startVars, IInv, Typed, Counted
<1>2. Nesting'
  BY SMTT(60) DEF Reopen, IInv, Typed, Nesting
<1>3. \A g \in Hosts : g # h => step[g] = "free"
  BY DEF IInv, Exclusive, Terminal
<1>4. Odd(epoch)
  BY DEF IInv, Exclusive
<1>5. ~Odd(epoch')
  BY <1>4, Parity DEF Reopen, IInv, Typed
<1>6. \A g \in Hosts : step'[g] = "free"
  BY <1>3 DEF Reopen, IInv, Typed
<1>7. ending' = {}
  BY <1>3 DEF Reopen, IInv, Typed, Exclusive
<1>8. Exclusive'
  BY <1>5, <1>6, <1>7 DEF Exclusive, Terminal, Odd
<1>9. Placed' /\ Queued' /\ Dated'
  BY StartsKept, SMTT(60) DEF Reopen, IInv, Typed, Placed
<1> QED
  BY <1>1, <1>2, <1>8, <1>9 DEF IInv

LEMMA TerminatingStep ==
    ASSUME IInv, NEW h \in Hosts, Terminating(h)
    PROVE  IInv'
<1>1. CASE DrainTimeout(h)
  <2>1. Reopen(h) /\ UNCHANGED lastEnded /\ Terminal(h) /\ h \notin ending
    BY <1>1 DEF DrainTimeout, Terminal, IInv, Exclusive
  <2> QED
    BY <2>1, ReopenStep
<1>2. CASE Deauthorized(h)
  <2>1. Reopen(h) /\ UNCHANGED lastEnded /\ Terminal(h) /\ h \notin ending
    BY <1>2 DEF Deauthorized, Terminal, IInv, Exclusive
  <2> QED
    BY <2>1, ReopenStep
<1>3. CASE ActionDone(h)
  BY <1>3, ReopenStep DEF ActionDone, Terminal
<1> QED
  BY <1>1, <1>2, <1>3, CloseAdmissionStep, DrainedStep, RunActionStep DEF Terminating

-------------------------------------------------------------------------------
(* The steps of the starts, each of which gives one start a phase, a       *)
(* ticket and a thread.                                                    *)

Becomes(s, p, k, t) == start' = [start EXCEPT ![s] = [phase |-> p, ticket |-> k, by |-> t]]

\* A start that is in no queue may change its phase.
LEMMA QueuedKept ==
    ASSUME IInv, NEW s \in Starts, NEW p, NEW k, NEW t, Becomes(s, p, k, t),
           start[s].phase # "queued", UNCHANGED queue
    PROVE  Queued'
<1>1. \A r \in Starts : r # s => start'[r] = start[r]
  BY DEF Becomes, IInv, Typed
<1>2. \A w \in Workers : \A i \in 1 .. Len(queue[w]) : queue[w][i] \in Starts /\ queue[w][i] # s
  BY SMTT(60) DEF IInv, Typed, Queued, Lined
<1> QED
  BY <1>1, <1>2, SMTT(60) DEF IInv, Queued, Lined, Workers

\* A start changes place: it gets a thread nobody else runs on, or none.
LEMMA PlacedKept ==
    ASSUME IInv, NEW s \in Starts, NEW p \in Phases, NEW k \in Nat, NEW t \in Threads \union {Nobody},
           Becomes(s, p, k, t),
           IF p \in Untaken THEN t = Nobody ELSE t \in Threads \ Hosts,
           \A r \in Starts : r # s => start[r].by # t \/ t = Nobody,
           p \in {"running", "finalizing"} => t \in registered',
           \A r \in Starts : r # s /\ Running(r) => start[r].by \in registered'
    PROVE  Placed' /\ start' \in [Starts -> [phase : Phases, ticket : Nat, by : Threads \union {Nobody}]]
<1>1. /\ start'[s] = [phase |-> p, ticket |-> k, by |-> t]
      /\ \A r \in Starts : r # s => start'[r] = start[r]
      /\ start' \in [Starts -> [phase : Phases, ticket : Nat, by : Threads \union {Nobody}]]
  BY DEF Becomes, IInv, Typed
<1>2. \A r \in Starts : IF start'[r].phase \in Untaken
                         THEN start'[r].by = Nobody
                         ELSE start'[r].by \in Threads \ Hosts
  BY <1>1, SMTT(60) DEF IInv, Placed
<1>3. \A q, r \in Starts : start'[q].by = start'[r].by /\ start'[q].by # Nobody => q = r
  BY <1>1, SMTT(60) DEF IInv, Placed
<1>4. \A r \in Starts : Running(r)' => start'[r].by \in registered'
  BY <1>1, SMTT(60) DEF IInv, Placed, Running
<1> QED
  BY <1>1, <1>2, <1>3, <1>4 DEF Placed

\* A start keeps its ticket, or gets the current epoch; it runs only when its
\* ticket is not older than the last action.
LEMMA DatedKept ==
    ASSUME IInv, NEW s \in Starts, NEW p, NEW k \in Nat, NEW t, Becomes(s, p, k, t),
           UNCHANGED <<epoch, lastEnded>>, k <= epoch,
           p \in {"running", "finalizing"} => lastEnded <= k
    PROVE  Dated'
<1>1. /\ start'[s] = [phase |-> p, ticket |-> k, by |-> t]
      /\ \A r \in Starts : r # s => start'[r] = start[r]
  BY DEF Becomes, IInv, Typed
<1>2. lastEnded' <= epoch'
  BY DEF IInv, Dated
<1>3. \A r \in Starts : start'[r].ticket <= epoch'
  BY <1>1, SMTT(60) DEF IInv, Dated
<1>4. NoStaleStart'
  BY <1>1, SMTT(60) DEF IInv, Dated, NoStaleStart, Running
<1> QED
  BY <1>2, <1>3, <1>4 DEF Dated

\* The steps of the starts that leave the boundary and the queues alone.
LEMMA PhaseStep ==
    ASSUME IInv, NEW s \in Starts, NEW p \in Phases, NEW k \in Nat, NEW t \in Threads \union {Nobody},
           Becomes(s, p, k, t), UNCHANGED <<gateVars, queue>>, k <= epoch,
           start[s].phase # "queued",
           IF p \in Untaken THEN t = Nobody ELSE t \in Threads \ Hosts,
           t = Nobody \/ t = start[s].by,
           p \in {"running", "finalizing"} => t \in registered /\ lastEnded <= k
    PROVE  IInv'
<1>1. UNCHANGED <<epoch, active, terminal, depth, registered, ending, callbacks, step, lastEnded>>
  BY DEF gateVars
<1>2. Counted' /\ Nesting' /\ Exclusive'
  BY GateKept
<1>3. \A r \in Starts : r # s => start[r].by # t \/ t = Nobody
  BY DEF IInv, Placed
<1>4. \A r \in Starts : r # s /\ Running(r) => start[r].by \in registered'
  BY <1>1 DEF IInv, Placed
<1>5. Placed' /\ start' \in [Starts -> [phase : Phases, ticket : Nat, by : Threads \union {Nobody}]]
  BY <1>1, <1>3, <1>4, PlacedKept
<1>6. Queued'
  BY QueuedKept
<1>7. Dated'
  BY <1>1, DatedKept
<1>8. Typed'
  BY <1>1, <1>5 DEF IInv, Typed
<1> QED
  BY <1>2, <1>5, <1>6, <1>7, <1>8 DEF IInv

\* To moves a start to phase p and keeps its ticket and thread.
LEMMA ToStep ==
    ASSUME IInv, NEW s \in Starts, NEW p \in Phases, To(s, p)
    PROVE  /\ Becomes(s, p, start[s].ticket, start[s].by)
           /\ start[s].ticket \in Nat /\ start[s].ticket <= epoch
           /\ start[s].by \in Threads \union {Nobody}
<1>1. start[s] \in [phase : Phases, ticket : Nat, by : Threads \union {Nobody}]
  BY DEF IInv, Typed
<1>2. [start[s] EXCEPT !.phase = p] = [phase |-> p, ticket |-> start[s].ticket, by |-> start[s].by]
  BY <1>1, SMTT(60)
<1>3. start' = [start EXCEPT ![s] = [start[s] EXCEPT !.phase = p]]
  BY DEF To
<1>4. Becomes(s, p, start[s].ticket, start[s].by)
  BY <1>2, <1>3 DEF Becomes
<1> QED
  BY <1>1, <1>4 DEF IInv, Dated

\* Discard forgets the ticket and the thread.
LEMMA DiscardStep ==
    ASSUME IInv, NEW s \in Starts, Discard(s), start[s].phase # "queued", UNCHANGED <<gateVars, queue>>
    PROVE  IInv'
<1>1. Becomes(s, "done", 0, Nobody) /\ 0 \in Nat /\ 0 <= epoch
  BY SMTT(60) DEF Discard, Becomes, IInv, Typed
<1>2. "done" \in Phases /\ "done" \in Untaken
  BY DEF Phases, Untaken
<1> QED
  BY <1>1, <1>2, PhaseStep

LEMMA TakeTicketStep ==
    ASSUME IInv, NEW s \in Starts, TakeTicket(s)
    PROVE  IInv'
<1>1. Becomes(s, "ticketed", epoch, Nobody) /\ epoch \in Nat /\ epoch <= epoch
  BY SMTT(60) DEF TakeTicket, Becomes, IInv, Typed
<1>2. "ticketed" \in Phases /\ "ticketed" \in Untaken
  BY DEF Phases, Untaken
<1>3. start[s].phase # "queued" /\ UNCHANGED <<gateVars, queue>>
  BY DEF TakeTicket
<1> QED
  BY <1>1, <1>2, <1>3, PhaseStep

\* Appending to a worker's queue a start that waits for nobody.
LEMMA AppendStep ==
    ASSUME IInv, NEW s \in Starts, NEW w \in Workers, start[s].phase = "ticketed", To(s, "queued"),
           IF s \in Routes THEN w = RouteWorker ELSE w = StartupWorker,
           queue' = [queue EXCEPT ![w] = Append(@, s)], UNCHANGED gateVars
    PROVE  IInv'
<1>1. UNCHANGED <<epoch, active, terminal, depth, registered, ending, callbacks, step, lastEnded>>
  BY DEF gateVars
<1>2. Counted' /\ Nesting' /\ Exclusive'
  BY GateKept
<1>3. "queued" \in Phases /\ "queued" \in Untaken /\ "ticketed" \in Untaken
  BY DEF Phases, Untaken
<1>4. /\ Becomes(s, "queued", start[s].ticket, start[s].by)
      /\ start[s].ticket \in Nat /\ start[s].ticket <= epoch
      /\ start[s].by = Nobody
  BY <1>3, ToStep DEF IInv, Placed
<1>5. \A r \in Starts : r # s /\ Running(r) => start[r].by \in registered'
  BY <1>1 DEF IInv, Placed
<1>6. Placed' /\ start' \in [Starts -> [phase : Phases, ticket : Nat, by : Threads \union {Nobody}]]
  BY <1>3, <1>4, <1>5, PlacedKept
<1>7. Dated'
  BY <1>1, <1>4, DatedKept
<1>8. queue' \in [Workers -> Seq(Starts)]
  BY SMTT(60) DEF IInv, Typed
<1>9. Typed'
  BY <1>1, <1>6, <1>8 DEF IInv, Typed
<1>10. /\ start'[s].phase = "queued"
       /\ \A r \in Starts : r # s => start'[r] = start[r]
  BY <1>4 DEF Becomes, IInv, Typed
<1>11. \A v \in Workers : \A i \in 1 .. Len(queue[v]) :
          queue[v][i] \in Starts /\ queue[v][i] # s /\ start'[queue[v][i]].phase = "queued"
  BY <1>10, SMTT(60) DEF IInv, Typed, Queued, Lined
<1>12. /\ queue[w] \in Seq(Starts)
       /\ queue'[w] = Append(queue[w], s)
       /\ \A v \in Workers : v # w => queue'[v] = queue[v]
  BY DEF IInv, Typed
<1>13. /\ Len(queue'[w]) = Len(queue[w]) + 1
       /\ queue'[w][Len(queue[w]) + 1] = s
       /\ \A i \in 1 .. Len(queue[w]) : queue'[w][i] = queue[w][i]
  BY <1>12, SMTT(60)
<1>14. Len(queue[w]) \in Nat /\ \A i \in 1 .. Len(queue'[w]) : i \in 1 .. Len(queue[w]) \/ i = Len(queue[w]) + 1
  BY <1>12, <1>13, SMTT(60)
<1>15. \A i \in 1 .. Len(queue'[w]) : start'[queue'[w][i]].phase = "queued"
  BY <1>10, <1>11, <1>13, <1>14, SMTT(60)
<1>16. \A i, j \in 1 .. Len(queue'[w]) : queue'[w][i] = queue'[w][j] => i = j
  BY <1>11, <1>13, <1>14, SMTT(60) DEF IInv, Queued, Lined
<1>17. \A v \in Workers : Lined(v)'
  BY <1>11, <1>12, <1>15, <1>16, SMTT(60) DEF IInv, Queued, Lined
<1>18. \A i \in 1 .. Len(queue'[RouteWorker]) : queue'[RouteWorker][i] \in Routes
  BY <1>12, <1>13, <1>14, ThreadsDiffer DEF IInv, Queued, Workers
<1>19. \A i \in 1 .. Len(queue'[StartupWorker]) : queue'[StartupWorker][i] \in Startups
  BY <1>12, <1>13, <1>14, ThreadsDiffer DEF IInv, Queued, Workers, Starts
<1>20. Queued'
  BY <1>17, <1>18, <1>19 DEF Queued
<1> QED
  BY <1>2, <1>6, <1>7, <1>9, <1>20 DEF IInv

LEMMA SubmittingStep ==
    ASSUME IInv, NEW s \in Starts, Submitting(s)
    PROVE  IInv'
<1>1. CASE RouteBusy(s)
  BY <1>1, DiscardStep DEF RouteBusy
<1>2. CASE SubmitRoute(s)
  BY <1>2, AppendStep DEF SubmitRoute, Workers
<1>3. CASE SubmitStartup(s)
  BY <1>3, AppendStep, StartsDiffer DEF SubmitStartup, Workers
<1>4. CASE SubmitFails(s)
  <2>1. "failed" \in Phases /\ "failed" \in Untaken /\ "ticketed" \in Untaken
    BY DEF Phases, Untaken
  <2>2. start[s].by = Nobody /\ start[s].phase = "ticketed" /\ To(s, "failed")
    BY <1>4, <2>1 DEF SubmitFails, IInv, Placed
  <2>3. UNCHANGED <<gateVars, queue>>
    BY <1>4 DEF SubmitFails
  <2>4. /\ Becomes(s, "failed", start[s].ticket, Nobody)
        /\ start[s].ticket \in Nat /\ start[s].ticket <= epoch
    BY <2>1, <2>2, ToStep
  <2> QED
    BY <2>1, <2>2, <2>3, <2>4, PhaseStep
<1> QED
  BY <1>1, <1>2, <1>3, <1>4 DEF Submitting

-------------------------------------------------------------------------------
(* The steps of start_guard_t and of the task it admits                    *)

\* The guard of a start is constructed on a thread that serves no other
\* start; the queue is dealt with by the caller.
LEMMA GuardOnStep ==
    ASSUME IInv, NEW s \in Starts, NEW t \in Threads \ Hosts, GuardOn(s, t)
    PROVE  /\ Counted' /\ Nesting' /\ Exclusive' /\ Placed' /\ Dated'
           /\ queue' \in [Workers -> Seq(Starts)] => Typed'
           /\ Becomes(s, "guarded", start[s].ticket, t)
<1>1. Typed /\ Counted /\ Nesting /\ Construct(t) /\ UNCHANGED <<callbacks, ending>>
  BY DEF IInv, GuardOn
<1>2. /\ active' \in Nat /\ depth' \in [Threads -> Nat] /\ registered' \subseteq Threads
      /\ Counted' /\ Nesting'
      /\ registered \subseteq registered'
      /\ Odd(epoch) => active' = active /\ registered' = registered
  BY <1>1, ConstructExact
<1>3. Exclusive'
  BY <1>2, ExclusiveKept DEF GuardOn
<1>4. /\ Becomes(s, "guarded", start[s].ticket, t)
      /\ start[s].ticket \in Nat /\ start[s].ticket <= epoch
      /\ UNCHANGED <<epoch, lastEnded, terminal, ending, callbacks, step>>
  BY DEF GuardOn, Becomes, IInv, Typed, Dated
<1>5. "guarded" \in Phases /\ "guarded" \notin Untaken
  BY DEF Phases, Untaken
<1>6. \A r \in Starts : start[r].by # t
  BY DEF GuardOn, Idle
<1>7. \A r \in Starts : r # s /\ Running(r) => start[r].by \in registered'
  BY <1>2 DEF IInv, Placed
<1>8. Placed' /\ start' \in [Starts -> [phase : Phases, ticket : Nat, by : Threads \union {Nobody}]]
  BY <1>4, <1>5, <1>6, <1>7, PlacedKept
<1>9. Dated'
  BY <1>4, DatedKept
<1>10. queue' \in [Workers -> Seq(Starts)] => Typed'
  BY <1>1, <1>2, <1>4, <1>8 DEF Typed
<1> QED
  BY <1>2, <1>3, <1>4, <1>8, <1>9, <1>10

\* A worker takes the oldest task of its pool.
LEMMA PopTaskStep ==
    ASSUME IInv, NEW w \in Workers, PopTask(w)
    PROVE  IInv'
<1> DEFINE s == Head(queue[w])
<1>1. queue[w] \in Seq(Starts) /\ queue[w] # <<>>
  BY DEF PopTask, IInv, Typed
<1>2. /\ Len(queue[w]) \in Nat /\ Len(queue[w]) > 0
      /\ s \in Starts /\ s = queue[w][1]
  BY <1>1, SMTT(60)
<1>3. w \in Threads \ Hosts
  BY ThreadsDiffer DEF Workers, Threads
<1>4. GuardOn(s, w)
  BY DEF PopTask
<1>5. queue' = [queue EXCEPT ![w] = Tail(queue[w])]
  BY DEF PopTask
<1>6. /\ queue'[w] = Tail(queue[w])
      /\ \A v \in Workers : v # w => queue'[v] = queue[v]
      /\ queue' \in [Workers -> Seq(Starts)]
  BY <1>1, <1>5, SMTT(60) DEF IInv, Typed
<1> HIDE DEF s
<1>7. /\ Counted' /\ Nesting' /\ Exclusive' /\ Placed' /\ Dated' /\ Typed'
      /\ Becomes(s, "guarded", start[s].ticket, w)
  BY <1>2, <1>3, <1>4, <1>6, GuardOnStep
<1>8. \A r \in Starts : r # s => start'[r] = start[r]
  BY <1>2, <1>7 DEF Becomes, IInv, Typed
<1>9. /\ Len(queue'[w]) = Len(queue[w]) - 1
      /\ \A i \in 1 .. Len(queue'[w]) : i + 1 \in 2 .. Len(queue[w]) /\ queue'[w][i] = queue[w][i + 1]
  BY <1>1, <1>2, <1>6, SMTT(60)
<1>10. \A i \in 2 .. Len(queue[w]) : queue[w][i] \in Starts /\ queue[w][i] # s
  BY <1>1, <1>2, SMTT(60) DEF IInv, Queued, Lined
<1>11. \A v \in Workers : v # w => \A i \in 1 .. Len(queue[v]) : queue[v][i] \in Starts /\ queue[v][i] # s
  <2>1. \A v \in Workers : \A i \in 1 .. Len(queue[v]) : queue[v][i] \in Starts
    BY SMTT(60) DEF IInv, Typed
  <2> QED
    BY <1>2, <2>1, StartsDiffer, SMTT(60) DEF IInv, Queued, Workers
<1>12. Lined(w)'
  <2>1. Lined(w)
    BY <1>2 DEF IInv, Queued
  <2>2. ASSUME NEW i \in 1 .. Len(queue'[w]) PROVE start'[queue'[w][i]].phase = "queued"
    <3>1. i + 1 \in 2 .. Len(queue[w]) /\ i + 1 \in 1 .. Len(queue[w]) /\ queue'[w][i] = queue[w][i + 1]
      BY <1>9, <2>2, SMTT(60)
    <3> QED
      BY <1>8, <1>10, <2>1, <3>1 DEF Lined
  <2>3. ASSUME NEW i \in 1 .. Len(queue'[w]), NEW j \in 1 .. Len(queue'[w]), queue'[w][i] = queue'[w][j]
        PROVE  i = j
    <3>1. /\ i + 1 \in 1 .. Len(queue[w]) /\ queue'[w][i] = queue[w][i + 1]
          /\ j + 1 \in 1 .. Len(queue[w]) /\ queue'[w][j] = queue[w][j + 1]
      BY <1>9, <2>3, SMTT(60)
    <3>2. i + 1 = j + 1
      BY <2>1, <2>3, <3>1 DEF Lined
    <3> QED
      BY <3>2, SMTT(60)
  <2> QED
    BY <2>2, <2>3 DEF Lined
<1>13. ASSUME NEW v \in Workers, v # w PROVE Lined(v)'
  <2>1. queue'[v] = queue[v] /\ Lined(v)
    BY <1>6, <1>13 DEF IInv, Queued
  <2>2. \A i \in 1 .. Len(queue[v]) : start'[queue[v][i]] = start[queue[v][i]]
    BY <1>8, <1>11, <1>13
  <2> QED
    BY <2>1, <2>2 DEF Lined
<1>14. \A v \in Workers : \A i \in 1 .. Len(queue'[v]) : \E j \in 1 .. Len(queue[v]) : queue'[v][i] = queue[v][j]
  <2>1. \A i \in 1 .. Len(queue'[w]) : i + 1 \in 1 .. Len(queue[w]) /\ queue'[w][i] = queue[w][i + 1]
    BY <1>2, <1>9, SMTT(60)
  <2>2. \A i \in 1 .. Len(queue'[w]) : \E j \in 1 .. Len(queue[w]) : queue'[w][i] = queue[w][j]
    BY <2>1
  <2> QED
    BY <1>6, <2>2
<1>15. Queued'
  BY <1>12, <1>13, <1>14 DEF IInv, Queued, Workers
<1> QED
  BY <1>7, <1>15 DEF IInv

LEMMA GuardFailedStep ==
    ASSUME IInv, NEW s \in Starts, GuardFailed(s)
    PROVE  IInv'
<1>1. IoThread \in Threads \ Hosts
  BY ThreadsDiffer DEF Threads
<1>2. GuardOn(s, IoThread) /\ UNCHANGED queue /\ start[s].phase # "queued"
  BY DEF GuardFailed
<1>3. queue' \in [Workers -> Seq(Starts)]
  BY <1>2 DEF IInv, Typed
<1>4. /\ Counted' /\ Nesting' /\ Exclusive' /\ Placed' /\ Dated' /\ Typed'
      /\ Becomes(s, "guarded", start[s].ticket, IoThread)
  BY <1>1, <1>2, <1>3, GuardOnStep
<1>5. Queued'
  BY <1>2, <1>4, QueuedKept
<1> QED
  BY <1>4, <1>5 DEF IInv

\* A start whose thread stays the same moves on, with the boundary untouched.
LEMMA AdvanceStep ==
    ASSUME IInv, NEW s \in Starts, NEW p \in Phases \ Untaken, To(s, p), UNCHANGED <<gateVars, queue>>,
           start[s].phase \notin Untaken,
           p \in {"running", "finalizing"} => start[s].by \in registered /\ lastEnded <= start[s].ticket
    PROVE  IInv'
<1>1. /\ Becomes(s, p, start[s].ticket, start[s].by)
      /\ start[s].ticket \in Nat /\ start[s].ticket <= epoch
      /\ start[s].by \in Threads \union {Nobody}
  BY ToStep
<1>2. start[s].by \in Threads \ Hosts /\ start[s].phase # "queued"
  BY DEF IInv, Placed, Untaken
<1> QED
  BY <1>1, <1>2, PhaseStep

\* A start is admitted only on a registered thread and with the current
\* ticket, which no action is newer than.
LEMMA CompareStep ==
    ASSUME IInv, NEW s \in Starts, Compare(s)
    PROVE  IInv'
<1>1. start[s].phase \notin Untaken /\ UNCHANGED <<gateVars, queue>>
  BY DEF Compare, Untaken
<1>2. CASE Admitted(s)
  <2>1. To(s, "running") /\ "running" \in Phases \ Untaken
    BY <1>2 DEF Compare, Phases, Untaken
  <2>2. start[s].by \in Threads \ Hosts
    BY <1>1 DEF IInv, Placed
  <2>3. start[s].by \in registered
    BY <1>2, <2>2 DEF Admitted, Entered, IInv, Typed, Nesting
  <2>4. lastEnded <= start[s].ticket
    BY <1>2 DEF Admitted, IInv, Dated
  <2> QED
    BY <1>1, <2>1, <2>3, <2>4, AdvanceStep
<1>3. CASE ~Admitted(s)
  <2>1. To(s, "refused") /\ "refused" \in Phases \ Untaken
    BY <1>3 DEF Compare, Phases, Untaken
  <2> QED
    BY <1>1, <2>1, AdvanceStep
<1> QED
  BY <1>2, <1>3

\* An admitted task that ends keeps its registration until it has finalized.
LEMMA TaskStep ==
    ASSUME IInv, NEW s \in Starts, TaskDone(s) \/ Finalized(s) \/ RejectStart(s)
    PROVE  IInv'
<1>1. start[s].phase \in {"running", "finalizing", "refused"} /\ UNCHANGED <<gateVars, queue>>
  BY DEF TaskDone, Finalized, RejectStart
<1>2. start[s].phase \notin Untaken /\ {"finalizing", "leaving"} \subseteq Phases \ Untaken
  BY <1>1 DEF Phases, Untaken
<1>3. CASE TaskDone(s) /\ s \in Startups
  <2>1. To(s, "finalizing") /\ Running(s)
    BY <1>3 DEF TaskDone, Running
  <2>2. start[s].by \in registered /\ lastEnded <= start[s].ticket
    BY <2>1 DEF IInv, Placed, Dated, NoStaleStart
  <2> QED
    BY <1>1, <1>2, <2>1, <2>2, AdvanceStep
<1>4. CASE ~(TaskDone(s) /\ s \in Startups)
  <2>1. To(s, "leaving")
    BY <1>4 DEF TaskDone, Finalized, RejectStart
  <2> QED
    BY <1>1, <1>2, <2>1, AdvanceStep
<1> QED
  BY <1>3, <1>4

\* The guard of a start is destroyed: its thread runs no other start.
LEMMA LeaveStartStep ==
    ASSUME IInv, NEW s \in Starts, LeaveStart(s)
    PROVE  IInv'
<1> DEFINE t == start[s].by
<1>1. start[s].phase = "leaving" /\ "leaving" \notin Untaken
  BY DEF LeaveStart, Untaken
<1>2. t \in Threads \ Hosts /\ t \in Threads
  BY <1>1 DEF IInv, Placed
<1>3. Typed /\ Counted /\ Nesting /\ UNCHANGED <<callbacks, ending>>
  BY DEF IInv, LeaveStart
<1>4. UNCHANGED <<epoch, lastEnded, terminal, step, queue>>
  BY DEF LeaveStart
<1> HIDE DEF t
<1>5. /\ active' \in Nat /\ depth' \in [Threads -> Nat] /\ registered' \subseteq Threads
      /\ Counted' /\ Nesting'
      /\ registered \ {t} \subseteq registered'
      /\ active = 0 => active' = 0
  <2>1. CASE depth[t] > 0
    <3>1. Unlock(t)
      BY <2>1 DEF LeaveStart, Entered, t
    <3> QED
      BY <1>2, <1>3, <2>1, <3>1, UnlockExact
  <2>2. CASE ~(depth[t] > 0)
    <3>1. UNCHANGED <<active, registered, depth>>
      BY <2>2 DEF LeaveStart, Entered, t
    <3>2. Counted' /\ Nesting'
      BY <1>3, <3>1 DEF Counted, Nesting
    <3> QED
      BY <1>3, <3>1, <3>2 DEF Typed
  <2> QED
    BY <2>1, <2>2
<1>6. Exclusive'
  BY <1>3, <1>4, <1>5, ExclusiveKept
<1>7. \A r \in Starts : r # s => start[r].by # t
  BY <1>2, ThreadsDiffer DEF IInv, Placed, Threads, t
<1>8. \A r \in Starts : r # s /\ Running(r) => start[r].by \in registered'
  BY <1>5, <1>7 DEF IInv, Placed
<1>9. ASSUME NEW p \in {"left", "done"}, NEW k \in Nat, k <= epoch, NEW u \in {t, Nobody},
             Becomes(s, p, k, u), IF p = "done" THEN u = Nobody ELSE u = t
      PROVE  IInv'
  <2>1. p \in Phases /\ (IF p \in Untaken THEN u = Nobody ELSE u \in Threads \ Hosts)
    BY <1>2, <1>9 DEF Phases, Untaken
  <2>2. u \in Threads \union {Nobody} /\ p \notin {"running", "finalizing"}
    BY <1>2
  <2>3. Placed' /\ start' \in [Starts -> [phase : Phases, ticket : Nat, by : Threads \union {Nobody}]]
    BY <1>7, <1>8, <1>9, <2>1, <2>2, PlacedKept
  <2>4. Dated'
    BY <1>4, <1>9, <2>2, DatedKept
  <2>5. Queued'
    BY <1>1, <1>4, <1>9, QueuedKept
  <2>6. Typed'
    BY <1>3, <1>4, <1>5, <2>3 DEF Typed
  <2> QED
    BY <1>5, <1>6, <2>3, <2>4, <2>5, <2>6 DEF IInv
<1>10. CASE s \in Routes
  <2>1. To(s, "left") /\ "left" \in Phases
    BY <1>10 DEF LeaveStart, Phases
  <2>2. Becomes(s, "left", start[s].ticket, t) /\ start[s].ticket \in Nat /\ start[s].ticket <= epoch
    BY <2>1, ToStep DEF t
  <2> QED
    BY <1>9, <2>2
<1>11. CASE s \notin Routes
  <2>1. Becomes(s, "done", 0, Nobody) /\ 0 <= epoch
    BY <1>3, <1>11, SMTT(60) DEF LeaveStart, Discard, Becomes, Typed
  <2> QED
    BY <1>9, <2>1
<1> QED
  BY <1>10, <1>11

LEMMA ServingStep ==
    ASSUME IInv, NEW s \in Starts, Serving(s)
    PROVE  IInv'
<1>1. CASE ReleaseFlight(s)
  BY <1>1, DiscardStep DEF ReleaseFlight
<1> QED
  BY <1>1, GuardFailedStep, CompareStep, TaskStep, LeaveStartStep DEF Serving

-------------------------------------------------------------------------------
(* The invariant                                                           *)

LEMMA InitInvariant == Init => IInv
<1> SUFFICES ASSUME Init PROVE IInv
  OBVIOUS
<1>1. Typed
  BY SMTT(60) DEF Init, Typed, Phases
<1>2. Counted
  BY FS_EmptySet, SMTT(60) DEF Init, Counted
<1>3. Nesting
  BY SMTT(60) DEF Init, Nesting
<1>4. Exclusive
  BY SMTT(60) DEF Init, Exclusive, Terminal, Odd
<1>5. Placed
  BY DEF Init, Placed, Untaken, Running
<1>6. Queued
  BY SMTT(60) DEF Init, Queued, Lined, Workers
<1>7. Dated
  BY SMTT(60) DEF Init, Dated, NoStaleStart, Running
<1> QED
  BY <1>1, <1>2, <1>3, <1>4, <1>5, <1>6, <1>7 DEF IInv

LEMMA NextInvariant == IInv /\ [Next]_vars => IInv'
<1> SUFFICES ASSUME IInv, [Next]_vars PROVE IInv'
  OBVIOUS
<1>1. CASE UNCHANGED vars
  <2>1. UNCHANGED gateVars /\ UNCHANGED startVars
    BY <1>1 DEF vars
  <2>2. Counted' /\ Nesting' /\ Exclusive'
    BY <2>1, GateKept
  <2>3. Typed'
    BY <2>1 DEF IInv, Typed, gateVars, startVars
  <2>4. Placed' /\ Queued' /\ Dated'
    BY <2>1, StartsKept, SMTT(60) DEF gateVars, IInv, Typed, Placed
  <2> QED
    BY <2>2, <2>3, <2>4 DEF IInv
<1>2. ASSUME NEW t \in Threads, Activity(t) PROVE IInv'
  BY <1>2, EnterActivityStep, LeaveActivityStep, EnterCallbackStep DEF Activity
<1>3. CASE LeaveCallback
  BY <1>3, LeaveCallbackStep
<1>4. ASSUME NEW h \in Hosts, LockTerminal(h) \/ Terminating(h) PROVE IInv'
  BY <1>4, LockTerminalStep, TerminatingStep
<1>5. ASSUME NEW s \in Starts, TakeTicket(s) \/ Submitting(s) \/ Serving(s) PROVE IInv'
  BY <1>5, TakeTicketStep, SubmittingStep, ServingStep
<1>6. ASSUME NEW w \in Workers, PopTask(w) PROVE IInv'
  BY <1>6, PopTaskStep
<1> QED
  BY <1>1, <1>2, <1>3, <1>4, <1>5, <1>6 DEF Next

\* The invariant the three results below rest on.
THEOREM Invariance == Spec => []IInv
BY InitInvariant, NextInvariant, PTL DEF Spec

\* While terminate() runs the end-all-streams action it is alone: nothing is
\* inside the boundary, no other host is in an action and no admitted start is
\* unfinished, for any number of threads and starts.
THEOREM ActionAlone == Spec => []TerminalAlone
<1>1. IInv => TerminalAlone
  <2> SUFFICES ASSUME IInv, NEW h \in ending PROVE TerminalAlone
    BY DEF TerminalAlone
  <2>1. h \in Hosts /\ step[h] = "acting"
    BY DEF IInv, Typed, Exclusive
  <2>2. active = 0 /\ Odd(epoch) /\ terminal = h
    BY <2>1 DEF IInv, Exclusive, Terminal
  <2>3. ending = {h}
    BY <2>1, <2>2 DEF IInv, Typed, Exclusive
  <2>4. \A s \in Starts : ~Running(s)
    BY <2>2, CounterExact DEF IInv, Placed
  <2> QED
    BY <2>2, <2>3, <2>4 DEF TerminalAlone
<1> QED
  BY <1>1, Invariance, PTL

\* No start that took its ticket before an end-all-streams action runs after
\* it, however long it waited in a queue.
THEOREM StaleStartsRefused == Spec => []NoStaleStart
<1>1. IInv => NoStaleStart
  BY DEF IInv, Dated
<1> QED
  BY <1>1, Invariance, PTL

-------------------------------------------------------------------------------
(* The refinement                                                          *)

GateWaiting == {s \in Starts : Waiting(s)}
GateRunning == {s \in Starts : Running(s)}

\* The boundary is open exactly when the epoch is even.
LEMMA OpenIsEven ==
    ASSUME IInv
    PROVE  /\ Boundary = "open" <=> ~Odd(epoch)
           /\ ~Odd(epoch) => ending = {}
BY DEF IInv, Typed, Exclusive, Terminal, Boundary

\* A step that only counts an operation in or out.
LEMMA CountingStep ==
    ASSUME IInv, UNCHANGED <<epoch, ending>>,
           GateWaiting' = GateWaiting, GateRunning' = GateRunning,
           \/ active' = active
           \/ active' = active + 1 /\ (~Odd(epoch) \/ active > 0)
           \/ active' = active - 1 /\ active > 0
    PROVE  [Gate!Next]_(Gate!vars)
<1>1. Boundary' = Boundary
  BY DEF Boundary, Odd
<1>2. CASE active' = active
  BY <1>1, <1>2 DEF Gate!vars, GateWaiting, GateRunning
<1>3. CASE active' = active + 1 /\ (~Odd(epoch) \/ active > 0)
  <2>1. Gate!Enter
    BY <1>1, <1>3, OpenIsEven DEF Gate!Enter, GateWaiting, GateRunning
  <2> QED
    BY <2>1 DEF Gate!Next
<1>4. CASE active' = active - 1 /\ active > 0
  <2>1. Gate!Leave
    BY <1>1, <1>4 DEF Gate!Leave, GateWaiting, GateRunning
  <2> QED
    BY <2>1 DEF Gate!Next
<1> QED
  BY <1>2, <1>3, <1>4

\* Starts and epoch unchanged, nothing waits or runs that did not before.
LEMMA StartsSeen ==
    ASSUME UNCHANGED <<epoch, start>>
    PROVE  GateWaiting' = GateWaiting /\ GateRunning' = GateRunning
BY DEF GateWaiting, GateRunning, Waiting, Running, Odd

\* A step that moves one start and leaves the boundary alone.
LEMMA MovingStep ==
    ASSUME IInv, NEW s \in Starts, UNCHANGED gateVars,
           \A r \in Starts : r # s => start'[r] = start[r],
           \/ (Waiting(s)' <=> Waiting(s)) /\ (Running(s)' <=> Running(s))
           \/ Waiting(s)' /\ ~Running(s) /\ ~Running(s)' /\ ~Odd(epoch)
           \/ Waiting(s) /\ ~Waiting(s)' /\ Running(s)' /\ ~Odd(epoch) /\ active > 0
           \/ Waiting(s) /\ ~Waiting(s)' /\ (Running(s)' <=> Running(s))
           \/ Running(s) /\ ~Running(s)' /\ (Waiting(s)' <=> Waiting(s))
    PROVE  [Gate!Next]_(Gate!vars)
<1>1. UNCHANGED <<epoch, ending, active, Boundary>>
  BY DEF gateVars, Boundary, Odd
<1>2. \A r \in Starts : r # s => (Waiting(r)' <=> Waiting(r)) /\ (Running(r)' <=> Running(r))
  BY <1>1 DEF Waiting, Running, Odd
<1>3. CASE (Waiting(s)' <=> Waiting(s)) /\ (Running(s)' <=> Running(s))
  <2>1. GateWaiting' = GateWaiting /\ GateRunning' = GateRunning
    BY <1>2, <1>3 DEF GateWaiting, GateRunning
  <2> QED
    BY <1>1, <2>1, CountingStep
<1>4. CASE Waiting(s)' /\ ~Running(s) /\ ~Running(s)' /\ ~Odd(epoch)
  <2>1. GateWaiting' = GateWaiting \union {s} /\ GateRunning' = GateRunning /\ s \notin GateRunning
    BY <1>2, <1>4 DEF GateWaiting, GateRunning
  <2>2. Gate!Ask(s)
    BY <1>1, <1>4, <2>1, OpenIsEven DEF Gate!Ask, GateWaiting, GateRunning
  <2> QED
    BY <2>2 DEF Gate!Next
<1>5. CASE Waiting(s) /\ ~Waiting(s)' /\ Running(s)' /\ ~Odd(epoch) /\ active > 0
  <2>1. GateWaiting' = GateWaiting \ {s} /\ GateRunning' = GateRunning \union {s} /\ s \in GateWaiting
    BY <1>2, <1>5 DEF GateWaiting, GateRunning
  <2>2. Gate!Begin(s)
    BY <1>1, <1>5, <2>1, OpenIsEven DEF Gate!Begin, GateWaiting, GateRunning
  <2> QED
    BY <2>2 DEF Gate!Next
<1>6. CASE Waiting(s) /\ ~Waiting(s)' /\ (Running(s)' <=> Running(s))
  <2>1. GateWaiting' = GateWaiting \ {s} /\ GateRunning' = GateRunning /\ s \in GateWaiting
    BY <1>2, <1>6 DEF GateWaiting, GateRunning
  <2>2. Gate!Withdraw(s)
    BY <1>1, <2>1 DEF Gate!Withdraw, GateWaiting, GateRunning
  <2> QED
    BY <2>2 DEF Gate!Next
<1>7. CASE Running(s) /\ ~Running(s)' /\ (Waiting(s)' <=> Waiting(s))
  <2>1. GateWaiting' = GateWaiting /\ GateRunning' = GateRunning \ {s} /\ s \in GateRunning
    BY <1>2, <1>7 DEF GateWaiting, GateRunning
  <2>2. Gate!Finish(s)
    BY <1>1, <2>1 DEF Gate!Finish, GateWaiting, GateRunning
  <2> QED
    BY <2>2 DEF Gate!Next
<1> QED
  BY <1>3, <1>4, <1>5, <1>6, <1>7

LEMMA ActivityRefines ==
    ASSUME IInv, NEW t \in Threads, Activity(t)
    PROVE  [Gate!Next]_(Gate!vars)
<1>1. UNCHANGED <<epoch, ending, start>>
  BY DEF Activity, EnterActivity, LeaveActivity, EnterCallback, startVars
<1>2. GateWaiting' = GateWaiting /\ GateRunning' = GateRunning
  BY <1>1, StartsSeen
<1>3. CASE EnterActivity(t)
  <2>1. active' = active \/ (active' = active + 1 /\ ~Odd(epoch))
    BY <1>3 DEF EnterActivity, Construct, Admissible
  <2> QED
    BY <1>1, <1>2, <2>1, CountingStep
<1>4. CASE LeaveActivity(t)
  <2>1. Typed /\ Counted /\ Nesting /\ Unlock(t) /\ UNCHANGED <<callbacks, ending>> /\ depth[t] > 0
    BY <1>4, SMTT(60) DEF IInv, LeaveActivity, OwnDepth, Typed
  <2>2. active' = active \/ (active' = active - 1 /\ active > 0)
    BY <2>1, UnlockExact
  <2> QED
    BY <1>1, <1>2, <2>2, CountingStep
<1>5. CASE EnterCallback(t)
  <2>1. active' = active + 1 /\ (~Odd(epoch) \/ active > 0)
    BY <1>5, CounterExact DEF EnterCallback, IInv
  <2> QED
    BY <1>1, <1>2, <2>1, CountingStep
<1> QED
  BY <1>3, <1>4, <1>5 DEF Activity

LEMMA CallbackRefines ==
    ASSUME IInv, LeaveCallback
    PROVE  [Gate!Next]_(Gate!vars)
<1>1. GateWaiting' = GateWaiting /\ GateRunning' = GateRunning
  BY StartsSeen DEF LeaveCallback, startVars
<1>2. active' = active - 1 /\ active > 0 /\ UNCHANGED <<epoch, ending>>
  BY CounterExact DEF LeaveCallback, IInv
<1> QED
  BY <1>1, <1>2, CountingStep

\* Reopening invalidates every ticket: none is as new as the new epoch.
LEMMA ReopenRefines ==
    ASSUME IInv, IInv', NEW h \in Hosts, Reopen(h), Terminal(h)
    PROVE  [Gate!Next]_(Gate!vars)
<1>1. Odd(epoch) /\ ~Odd(epoch') /\ epoch' = epoch + 1 /\ UNCHANGED <<active, start>>
  BY Parity DEF IInv, Typed, Exclusive, Reopen, startVars
<1>2. GateWaiting = {} /\ GateWaiting' = {}
  BY <1>1, SMTT(60) DEF GateWaiting, Waiting, IInv, Typed, Dated
<1>3. GateRunning' = GateRunning
  BY <1>1 DEF GateRunning, Running
<1>4. Boundary \in {"closed", "ending"} /\ Boundary' = "open"
  BY <1>1 DEF Boundary, IInv, Typed, Exclusive, Terminal
<1>5. Gate!Reopen
  BY <1>1, <1>2, <1>3, <1>4 DEF Gate!Reopen, GateWaiting, GateRunning
<1> QED
  BY <1>5 DEF Gate!Next

LEMMA TerminatingRefines ==
    ASSUME IInv, IInv', NEW h \in Hosts, LockTerminal(h) \/ Terminating(h)
    PROVE  [Gate!Next]_(Gate!vars)
<1>1. CASE LockTerminal(h) \/ Drained(h)
  <2>1. UNCHANGED <<epoch, ending, active, start>>
    BY <1>1 DEF LockTerminal, Drained, startVars
  <2> QED
    BY <2>1, StartsSeen, CountingStep
<1>2. CASE CloseAdmission(h)
  <2>1. step[h] = "locked" /\ epoch' = epoch + 1 /\ UNCHANGED <<active, ending, start>>
    BY <1>2 DEF CloseAdmission, startVars
  <2>2. ~Odd(epoch) /\ Odd(epoch')
    BY <2>1, Parity DEF IInv, Typed, Exclusive, Terminal
  <2>3. Boundary = "open" /\ Boundary' = "closed"
    BY <2>1, <2>2, OpenIsEven DEF Boundary
  <2>4. GateWaiting' = {} /\ GateRunning' = GateRunning
    BY <2>1, <2>2 DEF GateWaiting, GateRunning, Waiting, Running
  <2>5. Gate!Close
    BY <2>1, <2>3, <2>4 DEF Gate!Close, GateWaiting, GateRunning
  <2> QED
    BY <2>5 DEF Gate!Next
<1>3. CASE RunAction(h)
  <2>1. step[h] = "drained" /\ ending' = ending \union {h} /\ UNCHANGED <<epoch, active, start>>
    BY <1>3 DEF RunAction, startVars
  <2>2. Odd(epoch) /\ active = 0 /\ ending = {}
    BY <2>1 DEF IInv, Typed, Exclusive, Terminal
  <2>3. Boundary = "closed" /\ Boundary' = "ending"
    BY <2>1, <2>2 DEF Boundary
  <2>4. GateWaiting' = GateWaiting /\ GateRunning' = GateRunning
    BY <2>1, StartsSeen
  <2>5. GateRunning = {}
    BY <2>2, CounterExact DEF GateRunning, IInv, Placed
  <2>6. Gate!End
    BY <2>1, <2>2, <2>3, <2>4, <2>5 DEF Gate!End, GateWaiting, GateRunning
  <2> QED
    BY <2>6 DEF Gate!Next
<1>4. CASE DrainTimeout(h) \/ Deauthorized(h) \/ ActionDone(h)
  BY <1>4, ReopenRefines DEF DrainTimeout, Deauthorized, ActionDone, Terminal
<1> QED
  BY <1>1, <1>2, <1>3, <1>4 DEF Terminating

\* Constructing the guard of a start only counts its thread in.
LEMMA GuardRefines ==
    ASSUME IInv, NEW s \in Starts, NEW t \in Threads \ Hosts, GuardOn(s, t),
           start[s].phase \in {"queued", "failed"}
    PROVE  [Gate!Next]_(Gate!vars)
<1>1. Becomes(s, "guarded", start[s].ticket, t) /\ UNCHANGED <<epoch, ending>>
  BY GuardOnStep DEF GuardOn
<1>2. /\ start'[s] = [phase |-> "guarded", ticket |-> start[s].ticket, by |-> t]
      /\ \A r \in Starts : r # s => start'[r] = start[r]
  BY <1>1 DEF Becomes, IInv, Typed
<1>3. \A r \in Starts : (Waiting(r)' <=> Waiting(r)) /\ (Running(r)' <=> Running(r))
  BY <1>1, <1>2, SMTT(60) DEF Waiting, Running, Odd
<1>4. GateWaiting' = GateWaiting /\ GateRunning' = GateRunning
  BY <1>3 DEF GateWaiting, GateRunning
<1>5. active' = active \/ (active' = active + 1 /\ ~Odd(epoch))
  BY DEF GuardOn, Construct, Admissible
<1> QED
  BY <1>1, <1>4, <1>5, CountingStep

\* What To and Discard do to the start they name and to the others.
LEMMA OneStart ==
    ASSUME IInv, NEW s \in Starts
    PROVE  /\ Discard(s) => start'[s].phase = "done"
           /\ \A p \in Phases : To(s, p) => start'[s].phase = p /\ start'[s].ticket = start[s].ticket
           /\ \A p \in Phases : To(s, p) \/ Discard(s) => \A r \in Starts : r # s => start'[r] = start[r]
<1>1. Discard(s) => start'[s].phase = "done" /\ \A r \in Starts : r # s => start'[r] = start[r]
  BY SMTT(60) DEF Discard, IInv, Typed
<1>2. ASSUME NEW p \in Phases, To(s, p)
      PROVE  /\ start'[s].phase = p /\ start'[s].ticket = start[s].ticket
             /\ \A r \in Starts : r # s => start'[r] = start[r]
  BY <1>2, ToStep, SMTT(60) DEF Becomes, IInv, Typed
<1> QED
  BY <1>1, <1>2

LEMMA IntakeRefines ==
    ASSUME IInv, NEW s \in Starts, TakeTicket(s) \/ Submitting(s)
    PROVE  [Gate!Next]_(Gate!vars)
<1>1. UNCHANGED gateVars /\ UNCHANGED epoch
  BY DEF TakeTicket, Submitting, RouteBusy, SubmitRoute, SubmitStartup, SubmitFails, gateVars
<1>2. "queued" \in Phases /\ "failed" \in Phases
  BY DEF Phases
<1>3. CASE TakeTicket(s)
  <2>1. /\ start'[s] = [phase |-> "ticketed", ticket |-> epoch, by |-> Nobody]
        /\ \A r \in Starts : r # s => start'[r] = start[r]
    BY <1>3 DEF TakeTicket, IInv, Typed
  <2>2. ~Waiting(s) /\ ~Running(s) /\ ~Running(s)' /\ (Waiting(s)' <=> ~Odd(epoch))
    BY <1>1, <1>3, <2>1, SMTT(60) DEF TakeTicket, Waiting, Running, Odd
  <2> QED
    BY <1>1, <2>1, <2>2, MovingStep
<1>4. CASE RouteBusy(s)
  <2>1. /\ start'[s].phase = "done" /\ start[s].phase = "ticketed"
        /\ \A r \in Starts : r # s => start'[r] = start[r]
    BY <1>2, <1>4, OneStart DEF RouteBusy
  <2>2. ~Waiting(s)' /\ ~Running(s) /\ ~Running(s)'
    BY <2>1 DEF Waiting, Running
  <2> QED
    BY <1>1, <2>1, <2>2, MovingStep
<1>5. CASE SubmitRoute(s) \/ SubmitStartup(s) \/ SubmitFails(s)
  <2>1. /\ start[s].phase = "ticketed" /\ start'[s].phase \in {"queued", "failed"}
        /\ start'[s].ticket = start[s].ticket
        /\ \A r \in Starts : r # s => start'[r] = start[r]
    BY <1>2, <1>5, OneStart DEF SubmitRoute, SubmitStartup, SubmitFails
  <2>2. (Waiting(s)' <=> Waiting(s)) /\ (Running(s)' <=> Running(s))
    BY <1>1, <2>1 DEF Waiting, Running, Odd
  <2> QED
    BY <1>1, <2>1, <2>2, MovingStep
<1> QED
  BY <1>3, <1>4, <1>5 DEF Submitting

\* An admitted start was waiting, on a thread that is inside.
LEMMA CompareRefines ==
    ASSUME IInv, NEW s \in Starts, Compare(s)
    PROVE  [Gate!Next]_(Gate!vars)
<1>1. UNCHANGED gateVars /\ UNCHANGED epoch /\ start[s].phase = "guarded"
  BY DEF Compare, gateVars
<1>2. "running" \in Phases /\ "refused" \in Phases
  BY DEF Phases
<1>3. CASE Admitted(s)
  <2>1. start'[s].phase = "running" /\ \A r \in Starts : r # s => start'[r] = start[r]
    BY <1>2, <1>3, OneStart DEF Compare
  <2>2. Waiting(s) /\ ~Waiting(s)' /\ Running(s)' /\ ~Odd(epoch)
    BY <1>1, <1>3, <2>1 DEF Admitted, Waiting, Running
  <2>3. start[s].by \in Threads \ Hosts
    BY <1>1 DEF IInv, Placed, Untaken
  <2>4. start[s].by \in registered
    BY <1>3, <2>3 DEF Admitted, Entered, IInv, Typed, Nesting
  <2>5. active > 0
    BY <2>4, CounterExact DEF IInv
  <2> QED
    BY <1>1, <2>1, <2>2, <2>5, MovingStep
<1>4. CASE ~Admitted(s)
  <2>1. start'[s].phase = "refused" /\ \A r \in Starts : r # s => start'[r] = start[r]
    BY <1>2, <1>4, OneStart DEF Compare
  <2>2. ~Waiting(s)' /\ ~Running(s) /\ ~Running(s)'
    BY <1>1, <2>1 DEF Waiting, Running
  <2> QED
    BY <1>1, <2>1, <2>2, MovingStep
<1> QED
  BY <1>3, <1>4

LEMMA TaskRefines ==
    ASSUME IInv, NEW s \in Starts, TaskDone(s) \/ Finalized(s) \/ RejectStart(s) \/ ReleaseFlight(s)
    PROVE  [Gate!Next]_(Gate!vars)
<1>1. /\ UNCHANGED gateVars
      /\ start[s].phase \in {"running", "finalizing", "refused", "left"}
  BY DEF TaskDone, Finalized, RejectStart, ReleaseFlight
<1>2. "finalizing" \in Phases /\ "leaving" \in Phases
  BY DEF Phases
<1>3. /\ start'[s].phase \in {"finalizing", "leaving", "done"}
      /\ start'[s].phase = "finalizing" => start[s].phase = "running"
      /\ \A r \in Starts : r # s => start'[r] = start[r]
  BY <1>2, OneStart DEF TaskDone, Finalized, RejectStart, ReleaseFlight
<1>4. ~Waiting(s) /\ ~Waiting(s)' /\ (Running(s)' => Running(s))
  BY <1>1, <1>3 DEF Waiting, Running
<1> QED
  BY <1>1, <1>3, <1>4, MovingStep

LEMMA LeaveStartRefines ==
    ASSUME IInv, NEW s \in Starts, LeaveStart(s)
    PROVE  [Gate!Next]_(Gate!vars)
<1> DEFINE t == start[s].by
<1>1. start[s].phase = "leaving" /\ UNCHANGED <<epoch, ending, callbacks>>
  BY DEF LeaveStart
<1>2. "left" \in Phases
  BY DEF Phases
<1>3. start'[s].phase \in {"left", "done"} /\ \A r \in Starts : r # s => start'[r] = start[r]
  BY <1>2, OneStart DEF LeaveStart
<1>4. \A r \in Starts : (Waiting(r)' <=> Waiting(r)) /\ (Running(r)' <=> Running(r))
  BY <1>1, <1>3 DEF Waiting, Running, Odd
<1>5. GateWaiting' = GateWaiting /\ GateRunning' = GateRunning
  BY <1>4 DEF GateWaiting, GateRunning
<1>6. t \in Threads
  BY <1>1 DEF IInv, Placed, Untaken
<1>7. Typed /\ Counted /\ Nesting /\ (IF depth[t] > 0 THEN Unlock(t) ELSE active' = active)
  BY DEF LeaveStart, Entered, IInv
<1>8. active' = active \/ (active' = active - 1 /\ active > 0)
  BY <1>1, <1>6, <1>7, UnlockExact
<1> QED
  BY <1>1, <1>5, <1>8, CountingStep

LEMMA PopTaskRefines ==
    ASSUME IInv, NEW w \in Workers, PopTask(w)
    PROVE  [Gate!Next]_(Gate!vars)
<1> DEFINE s == Head(queue[w])
<1>1. queue[w] \in Seq(Starts) /\ queue[w] # <<>>
  BY DEF PopTask, IInv, Typed
<1>2. s \in Starts /\ s = queue[w][1] /\ 1 \in 1 .. Len(queue[w])
  BY <1>1, SMTT(60)
<1>3. start[s].phase = "queued" /\ w \in Threads \ Hosts /\ GuardOn(s, w)
  BY <1>2, ThreadsDiffer DEF IInv, Queued, Lined, Workers, Threads, PopTask
<1> HIDE DEF s
<1> QED
  BY <1>2, <1>3, GuardRefines

LEMMA ServingRefines ==
    ASSUME IInv, NEW s \in Starts, Serving(s)
    PROVE  [Gate!Next]_(Gate!vars)
<1>1. CASE GuardFailed(s)
  BY <1>1, GuardRefines, ThreadsDiffer DEF GuardFailed, Threads
<1> QED
  BY <1>1, CompareRefines, TaskRefines, LeaveStartRefines DEF Serving

\* host_stream_control.h with its two queues keeps the promise of StreamGate:
\* every step is a step of the abstract boundary, or none.
THEOREM Refinement == Spec => ImplementsGate
<1>1. Init => Gate!Init
  BY SMTT(60) DEF Init, Gate!Init, Boundary, Odd, Waiting, Running
<1>2. IInv /\ IInv' /\ [Next]_vars => [Gate!Next]_(Gate!vars)
  <2> SUFFICES ASSUME IInv, IInv', [Next]_vars PROVE [Gate!Next]_(Gate!vars)
    OBVIOUS
  <2>1. CASE UNCHANGED vars
    <3>1. UNCHANGED <<epoch, ending, active, start>>
      BY <2>1 DEF vars, gateVars, startVars
    <3> QED
      BY <3>1, StartsSeen, CountingStep
  <2>2. ASSUME NEW t \in Threads, Activity(t) PROVE [Gate!Next]_(Gate!vars)
    BY <2>2, ActivityRefines
  <2>3. ASSUME NEW h \in Hosts, LockTerminal(h) \/ Terminating(h) PROVE [Gate!Next]_(Gate!vars)
    BY <2>3, TerminatingRefines
  <2>4. ASSUME NEW s \in Starts, TakeTicket(s) \/ Submitting(s) \/ Serving(s)
        PROVE  [Gate!Next]_(Gate!vars)
    BY <2>4, IntakeRefines, ServingRefines
  <2>5. ASSUME NEW w \in Workers, PopTask(w) PROVE [Gate!Next]_(Gate!vars)
    BY <2>5, PopTaskRefines
  <2> QED
    BY <2>1, <2>2, <2>3, <2>4, <2>5, CallbackRefines DEF Next
<1> QED
  BY <1>1, <1>2, Invariance, PTL DEF Spec, ImplementsGate, Gate!Spec

-------------------------------------------------------------------------------
(* The reservations                                                        *)

\* The startups a ticket's reservation stands for, and the routes in flight.
Outstanding(k) == {s \in Startups : Unretired(s) /\ start[s].ticket = k}
InFlight == {s \in Routes : start[s].phase \notin {"new", "ticketed", "done"}}

\* Tickets are epochs, and the epoch stays under its bound: a host that has
\* the terminal mutex has room for its close and its reopen.
Bounded ==
    /\ epoch <= MaxEpoch
    /\ \A h \in Hosts : step[h] = "locked" => epoch + 2 <= MaxEpoch
    /\ \A h \in Hosts : Terminal(h) => epoch + 1 <= MaxEpoch

Retiring ==
    /\ pending \in [0 .. MaxEpoch -> Nat]
    /\ \A k \in 0 .. MaxEpoch : /\ IsFiniteSet(Outstanding(k))
                                /\ pending[k] = Cardinality(Outstanding(k))

SingleFlight ==
    /\ busy \in BOOLEAN
    /\ ~busy => InFlight = {}
    /\ busy => \E r \in Routes : InFlight = {r}
    /\ \A s \in Startups : start[s].phase # "left"

ReserveInv == Bounded /\ Retiring /\ SingleFlight

\* What a step that gives one start a record does to the other starts.
LEMMA OneBecomes ==
    ASSUME IInv, NEW s \in Starts, NEW p, NEW k, NEW t, Becomes(s, p, k, t)
    PROVE  /\ start'[s].phase = p /\ start'[s].ticket = k
           /\ \A r \in Starts : r # s => start'[r] = start[r]
<1>1. /\ start'[s] = [phase |-> p, ticket |-> k, by |-> t]
      /\ \A r \in Starts : r # s => start'[r] = start[r]
  BY DEF Becomes, IInv, Typed
<1> QED
  BY <1>1, SMTT(60)

LEMMA OneMoves ==
    ASSUME IInv, NEW s \in Starts, NEW p \in Phases, To(s, p)
    PROVE  /\ start'[s].phase = p /\ start'[s].ticket = start[s].ticket
           /\ \A r \in Starts : r # s => start'[r] = start[r]
<1>1. PICK k : k = start[s].ticket
  OBVIOUS
<1>2. PICK t : t = start[s].by
  OBVIOUS
<1>3. Becomes(s, p, k, t)
  BY <1>1, <1>2, ToStep
<1> QED
  BY <1>1, <1>3, OneBecomes

\* The counts stand when the start stays reserved with its ticket, or is
\* unreserved before and after.
LEMMA RetiringKept ==
    ASSUME IInv, Retiring, NEW s \in Starts, UNCHANGED pending,
           \A r \in Starts : r # s => start'[r] = start[r],
           s \in Routes \/ (Unretired(s) <=> Unretired(s)'),
           s \in Routes \/ ~Unretired(s) \/ start'[s].ticket = start[s].ticket
    PROVE  Retiring'
<1>1. \A k : Outstanding(k)' = Outstanding(k)
  BY StartsDiffer, SMTT(60) DEF Outstanding, Unretired, Starts
<1> QED
  BY <1>1 DEF Retiring

\* A start is reserved ...
LEMMA RetiringReserve ==
    ASSUME IInv, Bounded, Retiring, NEW s \in Startups, ~Unretired(s), Unretired(s)',
           start'[s].ticket = start[s].ticket,
           \A r \in Starts : r # s => start'[r] = start[r],
           pending' = [pending EXCEPT ![start[s].ticket] = @ + 1]
    PROVE  Retiring'
<1>1. PICK k : k = start[s].ticket
  OBVIOUS
<1>2. s \in Starts
  BY DEF Starts
<1>3. k \in 0 .. MaxEpoch
  BY <1>1, <1>2, BoundsAreNumbers, SMTT(60) DEF IInv, Typed, Dated, Bounded
<1>4. Outstanding(k)' = Outstanding(k) \union {s} /\ s \notin Outstanding(k)
  BY <1>1, <1>2, SMTT(60) DEF Outstanding, Unretired, Starts
<1>5. \A j : j # k => Outstanding(j)' = Outstanding(j)
  BY <1>1, <1>2, SMTT(60) DEF Outstanding, Unretired, Starts
<1>6. IsFiniteSet(Outstanding(k)') /\ Cardinality(Outstanding(k)') = Cardinality(Outstanding(k)) + 1
  BY <1>3, <1>4, FS_AddElement DEF Retiring
<1>7. /\ pending' \in [0 .. MaxEpoch -> Nat] /\ pending'[k] = pending[k] + 1
      /\ \A j \in 0 .. MaxEpoch : j # k => pending'[j] = pending[j]
  BY <1>1, <1>3, SMTT(60) DEF Retiring
<1>8. \A j \in 0 .. MaxEpoch : IsFiniteSet(Outstanding(j)') /\ pending'[j] = Cardinality(Outstanding(j)')
  BY <1>3, <1>5, <1>6, <1>7 DEF Retiring
<1> QED
  BY <1>7, <1>8 DEF Retiring

\* ... and retires once.
LEMMA RetiringRetire ==
    ASSUME IInv, Bounded, Retiring, NEW s \in Startups, Unretired(s), ~Unretired(s)',
           \A r \in Starts : r # s => start'[r] = start[r],
           pending' = [pending EXCEPT ![start[s].ticket] = @ - 1]
    PROVE  Retiring'
<1>1. PICK k : k = start[s].ticket
  OBVIOUS
<1>2. s \in Starts
  BY DEF Starts
<1>3. k \in 0 .. MaxEpoch
  BY <1>1, <1>2, BoundsAreNumbers, SMTT(60) DEF IInv, Typed, Dated, Bounded
<1>4. Outstanding(k)' = Outstanding(k) \ {s} /\ s \in Outstanding(k)
  BY <1>1, <1>2, SMTT(60) DEF Outstanding, Unretired, Starts
<1>5. \A j : j # k => Outstanding(j)' = Outstanding(j)
  BY <1>1, <1>2, SMTT(60) DEF Outstanding, Unretired, Starts
<1>6. IsFiniteSet(Outstanding(k)') /\ Cardinality(Outstanding(k)') = Cardinality(Outstanding(k)) - 1
  BY <1>3, <1>4, FS_RemoveElement DEF Retiring
<1>7. Cardinality(Outstanding(k)') \in Nat
  BY <1>6, FS_CardinalityType
<1>8. pending[k] - 1 \in Nat
  BY <1>3, <1>6, <1>7 DEF Retiring
<1>9. /\ pending' \in [0 .. MaxEpoch -> Nat] /\ pending'[k] = pending[k] - 1
      /\ \A j \in 0 .. MaxEpoch : j # k => pending'[j] = pending[j]
  BY <1>1, <1>3, <1>8, SMTT(60) DEF Retiring
<1>10. \A j \in 0 .. MaxEpoch : IsFiniteSet(Outstanding(j)') /\ pending'[j] = Cardinality(Outstanding(j)')
  BY <1>3, <1>5, <1>6, <1>9 DEF Retiring
<1> QED
  BY <1>9, <1>10 DEF Retiring

\* The single-flight flag stands when no route enters or leaves the flight.
LEMMA FlightKept ==
    ASSUME SingleFlight, NEW s \in Starts, UNCHANGED busy,
           \A r \in Starts : r # s => start'[r] = start[r],
           s \in Startups => start'[s].phase # "left",
           s \in Routes => (s \in InFlight <=> s \in InFlight')
    PROVE  SingleFlight'
<1>1. InFlight' = InFlight
  <2>1. \A r \in Routes : r # s => (r \in InFlight <=> r \in InFlight')
    BY DEF InFlight, Starts
  <2> QED
    BY <2>1, StartsDiffer DEF InFlight, Starts
<1>2. \A r \in Startups : start'[r].phase # "left"
  BY DEF SingleFlight, Starts
<1> QED
  BY <1>1, <1>2 DEF SingleFlight

LEMMA BoundedKept == ASSUME Bounded, UNCHANGED <<epoch, step>> PROVE Bounded'
BY DEF Bounded, Terminal

\* A step that leaves the starts, their counts and the flag alone.
LEMMA ReservedKept ==
    ASSUME IInv, Retiring, SingleFlight, UNCHANGED <<start, pending, busy>>
    PROVE  Retiring' /\ SingleFlight'
BY DEF Retiring, SingleFlight, Outstanding, InFlight, Unretired

\* Closing and reopening stay under the bound of the epoch.
LEMMA TerminatingBounded ==
    ASSUME IInv, Bounded, NEW h \in Hosts, LockTerminal(h) \/ Terminating(h)
    PROVE  Bounded' /\ UNCHANGED startVars
<1>1. \A g \in Hosts : step[g] \in {"free", "locked", "draining", "drained", "acting"}
  BY DEF IInv, Typed
<1>2. \A g \in Hosts : g # h /\ step[h] # "free" => step[g] = "free"
  BY DEF IInv, Exclusive
<1>3. epoch \in Nat /\ MaxEpoch \in Nat
  BY BoundsAreNumbers DEF IInv, Typed
<1>4. CASE LockTerminal(h)
  <2>1. /\ epoch' = epoch /\ epoch + 2 <= MaxEpoch /\ step'[h] = "locked" /\ UNCHANGED startVars
        /\ \A g \in Hosts : g # h => step'[g] = step[g]
    BY <1>4 DEF LockTerminal, IInv, Typed
  <2>2. \A g \in Hosts : step'[g] = "locked" => epoch' + 2 <= MaxEpoch
    BY <2>1 DEF Bounded
  <2>3. \A g \in Hosts : Terminal(g)' => epoch' + 1 <= MaxEpoch
    BY <2>1, SMTT(60) DEF Bounded, Terminal
  <2> QED
    BY <2>1, <2>2, <2>3 DEF Bounded
<1>5. CASE CloseAdmission(h)
  <2>1. /\ epoch' = epoch + 1 /\ step[h] = "locked" /\ step'[h] = "draining" /\ UNCHANGED startVars
        /\ \A g \in Hosts : g # h => step'[g] = step[g]
    BY <1>5 DEF CloseAdmission, IInv, Typed
  <2>2. epoch + 2 <= MaxEpoch /\ \A g \in Hosts : g # h => step'[g] = "free"
    BY <1>2, <2>1 DEF Bounded
  <2> QED
    BY <1>3, <2>1, <2>2, SMTT(60) DEF Bounded, Terminal
<1>6. CASE Reopen(h) /\ step[h] \in {"draining", "drained", "acting"}
  <2>1. /\ epoch' = epoch + 1 /\ step'[h] = "free" /\ UNCHANGED startVars
        /\ \A g \in Hosts : g # h => step'[g] = step[g]
    BY <1>6 DEF Reopen, IInv, Typed
  <2>2. epoch + 1 <= MaxEpoch /\ \A g \in Hosts : step'[g] = "free"
    BY <1>2, <1>6, <2>1 DEF Bounded, Terminal
  <2> QED
    BY <1>3, <2>1, <2>2, SMTT(60) DEF Bounded, Terminal
<1>7. CASE Drained(h) \/ RunAction(h)
  <2>1. /\ epoch' = epoch /\ Terminal(h) /\ step'[h] # "locked" /\ UNCHANGED startVars
        /\ \A g \in Hosts : g # h => step'[g] = step[g]
    BY <1>7 DEF Drained, RunAction, IInv, Typed, Terminal
  <2> QED
    BY <2>1, SMTT(60) DEF Bounded, Terminal
<1> QED
  BY <1>4, <1>5, <1>6, <1>7 DEF Terminating, DrainTimeout, Deauthorized, ActionDone

\* A start changes its phase without being reserved, retired or released.
LEMMA PhaseReserved ==
    ASSUME IInv, ReserveInv, NEW s \in Starts, NEW p, NEW k, NEW t, Becomes(s, p, k, t),
           UNCHANGED <<epoch, step, pending, busy>>,
           s \in Startups => p # "left",
           s \in Routes => (start[s].phase \in {"new", "ticketed", "done"} <=> p \in {"new", "ticketed", "done"}),
           s \in Startups => (Unretired(s) <=> p \in {"queued", "failed", "guarded", "running", "refused"}),
           s \in Startups /\ Unretired(s) => k = start[s].ticket
    PROVE  ReserveInv'
<1>1. /\ start'[s].phase = p /\ start'[s].ticket = k
      /\ \A r \in Starts : r # s => start'[r] = start[r]
  BY OneBecomes
<1>2. s \in Routes \/ s \in Startups
  BY DEF Starts
<1>3. s \in Routes \/ (Unretired(s) <=> Unretired(s)')
  BY <1>1, <1>2 DEF Unretired
<1>4. s \in Routes \/ ~Unretired(s) \/ start'[s].ticket = start[s].ticket
  BY <1>1, <1>2
<1>5. Retiring'
  BY <1>1, <1>3, <1>4, RetiringKept DEF ReserveInv
<1>6. s \in Routes => (s \in InFlight <=> s \in InFlight')
  BY <1>1 DEF InFlight
<1>7. SingleFlight'
  BY <1>1, <1>6, FlightKept DEF ReserveInv
<1> QED
  BY <1>5, <1>7, BoundedKept DEF ReserveInv

\* The intake of a start.
LEMMA IntakeReserved ==
    ASSUME IInv, ReserveInv, NEW s \in Starts, TakeTicket(s) \/ Submitting(s)
    PROVE  ReserveInv'
<1>1. UNCHANGED gateVars => UNCHANGED <<epoch, step>>
  BY DEF gateVars
<1>2. CASE TakeTicket(s)
  <2>1. /\ Becomes(s, "ticketed", epoch, Nobody) /\ start[s].phase = "new"
        /\ UNCHANGED <<epoch, step, pending, busy>>
    BY <1>1, <1>2 DEF TakeTicket, Becomes
  <2>2. ~Unretired(s)
    BY <2>1 DEF Unretired
  <2> QED
    BY <2>1, <2>2, PhaseReserved
<1>3. CASE RouteBusy(s)
  <2>1. /\ Becomes(s, "done", 0, Nobody) /\ start[s].phase = "ticketed"
        /\ UNCHANGED <<epoch, step, pending, busy>>
    BY <1>1, <1>3 DEF RouteBusy, Discard, Becomes
  <2>2. ~Unretired(s)
    BY <2>1 DEF Unretired
  <2> QED
    BY <2>1, <2>2, PhaseReserved
<1>4. "queued" \in Phases /\ "failed" \in Phases
  BY DEF Phases
<1>5. CASE SubmitRoute(s)
  <2>1. /\ s \in Routes /\ ~busy /\ busy' = TRUE /\ To(s, "queued") /\ start[s].phase = "ticketed"
        /\ UNCHANGED <<epoch, step, pending>>
    BY <1>1, <1>5 DEF SubmitRoute
  <2>2. /\ start'[s].phase = "queued"
        /\ \A r \in Starts : r # s => start'[r] = start[r]
    BY <1>4, <2>1, OneMoves
  <2>3. Retiring'
    BY <2>1, <2>2, RetiringKept DEF ReserveInv
  <2>4. InFlight' = {s}
    <3>1. InFlight = {}
      BY <2>1 DEF ReserveInv, SingleFlight
    <3>2. \A r \in Routes : r # s => r \notin InFlight'
      BY <2>2, <3>1 DEF InFlight, Starts
    <3>3. s \in InFlight'
      BY <2>1, <2>2 DEF InFlight
    <3> QED
      BY <3>2, <3>3 DEF InFlight
  <2>5. \A r \in Startups : start'[r].phase # "left"
    BY <2>2 DEF ReserveInv, SingleFlight, Starts
  <2> QED
    BY <2>1, <2>3, <2>4, <2>5, BoundedKept DEF ReserveInv, SingleFlight
<1>6. CASE SubmitStartup(s) \/ SubmitFails(s)
  <2>1. /\ s \in Startups /\ start[s].phase = "ticketed"
        /\ pending' = [pending EXCEPT ![start[s].ticket] = @ + 1]
        /\ UNCHANGED <<epoch, step, busy>>
    BY <1>1, <1>6 DEF SubmitStartup, SubmitFails
  <2>2. PICK p \in {"queued", "failed"} : To(s, p)
    BY <1>6 DEF SubmitStartup, SubmitFails
  <2>3. /\ start'[s].phase = p /\ start'[s].ticket = start[s].ticket
        /\ \A r \in Starts : r # s => start'[r] = start[r]
    BY <1>4, <2>2, OneMoves
  <2>4. ~Unretired(s) /\ Unretired(s)'
    BY <2>1, <2>3 DEF Unretired
  <2>5. Retiring'
    BY <2>1, <2>3, <2>4, RetiringReserve DEF ReserveInv
  <2>6. SingleFlight'
    BY <2>1, <2>3, StartsDiffer, FlightKept DEF ReserveInv
  <2> QED
    BY <2>1, <2>5, <2>6, BoundedKept DEF ReserveInv
<1> QED
  BY <1>2, <1>3, <1>5, <1>6 DEF Submitting

\* A worker, or the io thread, takes a start.
LEMMA GuardReserved ==
    ASSUME IInv, ReserveInv, NEW s \in Starts, NEW t, GuardOn(s, t), start[s].phase \in {"queued", "failed"}
    PROVE  ReserveInv'
<1>1. Becomes(s, "guarded", start[s].ticket, t) /\ UNCHANGED <<epoch, step, pending, busy>>
  BY DEF GuardOn, Becomes
<1>2. Unretired(s)
  BY DEF Unretired
<1>3. PICK k : k = start[s].ticket
  OBVIOUS
<1> QED
  BY <1>1, <1>2, <1>3, PhaseReserved

LEMMA PopReserved ==
    ASSUME IInv, ReserveInv, NEW w \in Workers, PopTask(w)
    PROVE  ReserveInv'
<1>1. PICK s : s = Head(queue[w])
  OBVIOUS
<1>2. queue[w] \in Seq(Starts) /\ queue[w] # <<>>
  BY DEF PopTask, IInv, Typed
<1>3. s \in Starts /\ 1 \in 1 .. Len(queue[w]) /\ s = queue[w][1]
  BY <1>1, <1>2, SMTT(60)
<1>4. start[s].phase = "queued"
  BY <1>3 DEF IInv, Queued, Lined
<1>5. GuardOn(s, w)
  BY <1>1 DEF PopTask
<1> QED
  BY <1>3, <1>4, <1>5, GuardReserved

\* A start is served: it is decided on, runs, retires, leaves and releases.
LEMMA ServingReserved ==
    ASSUME IInv, ReserveInv, NEW s \in Starts, Serving(s)
    PROVE  ReserveInv'
<1>1. UNCHANGED gateVars => UNCHANGED <<epoch, step>>
  BY DEF gateVars
<1>2. CASE GuardFailed(s)
  BY <1>2, GuardReserved DEF GuardFailed
<1>3. {"running", "refused", "finalizing", "leaving", "left"} \subseteq Phases
  BY DEF Phases
<1>4. CASE Compare(s)
  <2>1. start[s].phase = "guarded" /\ UNCHANGED <<epoch, step, pending, busy>>
    BY <1>1, <1>4 DEF Compare
  <2>2. PICK p \in {"running", "refused"} : To(s, p)
    BY <1>4 DEF Compare
  <2>3. PICK k : k = start[s].ticket
    OBVIOUS
  <2>4. PICK t : t = start[s].by
    OBVIOUS
  <2>5. Becomes(s, p, k, t)
    BY <1>3, <2>2, <2>3, <2>4, ToStep
  <2>6. Unretired(s)
    BY <2>1 DEF Unretired
  <2> QED
    BY <2>1, <2>2, <2>3, <2>5, <2>6, PhaseReserved
<1>5. CASE TaskDone(s) \/ RejectStart(s)
  <2>1. start[s].phase \in {"running", "refused"} /\ UNCHANGED <<epoch, step, busy>> /\ Retire(s)
    BY <1>1, <1>5 DEF TaskDone, RejectStart
  <2>2. PICK p \in {"finalizing", "leaving"} : To(s, p)
    BY <1>5 DEF TaskDone, RejectStart
  <2>3. /\ start'[s].phase = p /\ start'[s].ticket = start[s].ticket
        /\ \A r \in Starts : r # s => start'[r] = start[r]
    BY <1>3, <2>2, OneMoves
  <2>4. Unretired(s) /\ ~Unretired(s)'
    BY <2>1, <2>2, <2>3 DEF Unretired
  <2>5. Retiring'
    <3>1. CASE s \in Startups
      BY <2>1, <2>3, <2>4, <3>1, RetiringRetire DEF ReserveInv, Retire
    <3>2. CASE s \notin Startups
      <4>1. s \in Routes /\ UNCHANGED pending
        BY <2>1, <3>2 DEF Retire, Starts
      <4> QED
        BY <2>3, <4>1, RetiringKept DEF ReserveInv
    <3> QED
      BY <3>1, <3>2
  <2>6. s \in Routes => s \in InFlight /\ s \in InFlight'
    BY <2>1, <2>2, <2>3 DEF InFlight
  <2>7. SingleFlight'
    BY <2>1, <2>2, <2>3, <2>6, FlightKept DEF ReserveInv
  <2> QED
    BY <2>1, <2>5, <2>7, BoundedKept DEF ReserveInv
<1>6. CASE Finalized(s) \/ LeaveStart(s)
  <2>1. start[s].phase \in {"finalizing", "leaving"} /\ UNCHANGED <<epoch, step, pending, busy>>
    BY <1>1, <1>6 DEF Finalized, LeaveStart
  <2>2. ~Unretired(s)
    BY <2>1 DEF Unretired
  <2>3. CASE Discard(s) /\ s \notin Routes
    <3>1. Becomes(s, "done", 0, Nobody)
      BY <2>3 DEF Discard, Becomes
    <3> QED
      BY <2>1, <2>2, <2>3, <3>1, PhaseReserved
  <2>4. ASSUME NEW p \in {"leaving", "left"}, To(s, p), p = "left" => s \in Routes PROVE ReserveInv'
    <3>1. PICK k : k = start[s].ticket
      OBVIOUS
    <3>2. PICK t : t = start[s].by
      OBVIOUS
    <3>3. Becomes(s, p, k, t)
      BY <1>3, <2>4, <3>1, <3>2, ToStep
    <3>4. s \in Startups => p # "left"
      BY <2>4, StartsDiffer
    <3> QED
      BY <2>1, <2>2, <2>4, <3>3, <3>4, PhaseReserved
  <2> QED
    BY <1>6, <2>3, <2>4 DEF Finalized, LeaveStart
<1>7. CASE ReleaseFlight(s)
  <2>1. /\ start[s].phase = "left" /\ busy' = FALSE /\ Becomes(s, "done", 0, Nobody)
        /\ UNCHANGED <<epoch, step, pending>>
    BY <1>1, <1>7 DEF ReleaseFlight, Discard, Becomes
  <2>2. /\ start'[s].phase = "done"
        /\ \A r \in Starts : r # s => start'[r] = start[r]
    BY <2>1, OneBecomes
  <2>3. s \in Routes /\ s \in InFlight
    BY <2>1 DEF ReserveInv, SingleFlight, Starts, InFlight
  <2>4. InFlight' = {}
    <3>1. InFlight \subseteq {s}
      BY <2>3 DEF ReserveInv, SingleFlight
    <3>2. \A r \in Routes : r # s => r \notin InFlight'
      BY <2>2, <3>1 DEF InFlight, Starts
    <3>3. s \notin InFlight'
      BY <2>2 DEF InFlight
    <3> QED
      BY <3>2, <3>3 DEF InFlight
  <2>5. Retiring'
    BY <2>1, <2>2, <2>3, RetiringKept DEF ReserveInv
  <2>6. \A r \in Startups : start'[r].phase # "left"
    BY <2>2 DEF ReserveInv, SingleFlight, Starts
  <2> QED
    BY <2>1, <2>4, <2>5, <2>6, BoundedKept DEF ReserveInv, SingleFlight
<1> QED
  BY <1>2, <1>4, <1>5, <1>6, <1>7 DEF Serving

LEMMA InitReserved == Init => ReserveInv
<1> SUFFICES ASSUME Init PROVE ReserveInv
  OBVIOUS
<1>1. Bounded
  BY BoundsAreNumbers, SMTT(60) DEF Init, Bounded, Terminal
<1>2. \A k : Outstanding(k) = {}
  BY DEF Init, Outstanding, Unretired, Starts
<1>3. IsFiniteSet({}) /\ Cardinality({}) = 0
  BY FS_EmptySet
<1>4. pending \in [0 .. MaxEpoch -> Nat] /\ \A k \in 0 .. MaxEpoch : pending[k] = 0
  BY SMTT(60) DEF Init
<1>5. Retiring
  BY <1>2, <1>3, <1>4 DEF Retiring
<1>6. InFlight = {} /\ \A s \in Startups : start[s].phase # "left"
  BY DEF Init, InFlight, Starts
<1> QED
  BY <1>1, <1>5, <1>6 DEF ReserveInv, SingleFlight, Init

LEMMA NextReserved == IInv /\ ReserveInv /\ [Next]_vars => ReserveInv'
<1> SUFFICES ASSUME IInv, ReserveInv, [Next]_vars PROVE ReserveInv'
  OBVIOUS
<1>1. ASSUME UNCHANGED <<epoch, step>>, UNCHANGED startVars PROVE ReserveInv'
  BY <1>1, BoundedKept, ReservedKept DEF ReserveInv, startVars
<1>2. ASSUME NEW t \in Threads, Activity(t) PROVE ReserveInv'
  BY <1>1, <1>2 DEF Activity, EnterActivity, LeaveActivity, EnterCallback
<1>3. CASE LeaveCallback
  BY <1>1, <1>3 DEF LeaveCallback
<1>4. ASSUME NEW h \in Hosts, LockTerminal(h) \/ Terminating(h) PROVE ReserveInv'
  BY <1>4, TerminatingBounded, ReservedKept DEF ReserveInv, startVars
<1>5. ASSUME NEW s \in Starts, TakeTicket(s) \/ Submitting(s) \/ Serving(s) PROVE ReserveInv'
  BY <1>5, IntakeReserved, ServingReserved
<1>6. ASSUME NEW w \in Workers, PopTask(w) PROVE ReserveInv'
  BY <1>6, PopReserved
<1>7. CASE UNCHANGED vars
  BY <1>1, <1>7 DEF vars, gateVars
<1> QED
  BY <1>2, <1>3, <1>4, <1>5, <1>6, <1>7 DEF Next

\* startup_dispatch_t's count of each ticket is the number of its startups that
\* have not retired, and the single-flight flag is held by the one route that
\* is queued or executing, for any number of starts.
THEOREM ReservationsAreExact == Spec => []ReservationsExact
<1>1. ReserveInv => ReservationsExact
  <2> SUFFICES ASSUME ReserveInv PROVE ReservationsExact
    OBVIOUS
  <2>1. \A k \in 0 .. MaxEpoch :
           pending[k] = Cardinality({s \in Startups : Unretired(s) /\ start[s].ticket = k})
    BY DEF ReserveInv, Retiring, Outstanding
  <2>2. Cardinality(InFlight) = IF busy THEN 1 ELSE 0
    BY FS_EmptySet, FS_Singleton DEF ReserveInv, SingleFlight
  <2> QED
    BY <2>1, <2>2 DEF ReservationsExact, InFlight
<1>2. Spec => []ReserveInv
  BY InitInvariant, NextInvariant, InitReserved, NextReserved, PTL DEF Spec
<1> QED
  BY <1>1, <1>2, PTL

-------------------------------------------------------------------------------
(* On Linux the launch, resume and cancel routes pass admission_t instead  *)
(* of the single flight (Handoff).  That abort(), which six callers race   *)
(* for, ends a job once and frees the slot only when the job had it rests  *)
(* on pending and reserved naming exactly the jobs in those phases         *)
(* (Named), and that on the slot being free of a reserved job whenever     *)
(* finish() hands it over.  Handoff's active, pending and queue, which     *)
(* this boundary has too, are called slot, waiter and tasks here.          *)

CONSTANTS StartJobs, Cancels, Others, Nothing
VARIABLES stopping, slot, waiter, reserved, phase, watched, preparing, tasks, rejecting, doomed, answers

Admission == INSTANCE Handoff WITH Starts <- StartJobs, active <- slot, pending <- waiter, queue <- tasks

JobPhases == {"new", "direct", "executing", "pending", "reserved", "running", "done"}
Told == {"busy", "ran", "disconnected", "expired", "rejected", "stopping"}

Live(j) == phase[j] \in {"direct", "executing", "reserved", "running"}

Slot == \A j \in Admission!Jobs : Live(j) <=> slot = j

Named ==
    /\ \A j \in Admission!Jobs : phase[j] = "pending" <=> waiter = j
    /\ \A j \in Admission!Jobs : phase[j] = "reserved" <=> reserved = j

SlotInv == Admission!TypeOK /\ Slot /\ Named /\ Admission!AnsweredOnce

-------------------------------------------------------------------------------
(* Handoff: what the parts of its steps do                                *)

\* Become moves one job.
LEMMA JobBecomes ==
    ASSUME SlotInv, NEW j \in Admission!Jobs, NEW p \in JobPhases, Admission!Become(j, p)
    PROVE  /\ phase' \in [Admission!Jobs -> JobPhases] /\ phase'[j] = p
           /\ \A k \in Admission!Jobs : k # j => phase'[k] = phase[k]
BY DEF SlotInv, Admission!TypeOK, Admission!Become, JobPhases

\* An answer given to a job that is not over, and now is, is its only one.
LEMMA ToldOnce ==
    ASSUME SlotInv, NEW j \in Admission!Jobs, NEW a \in Told, Admission!Tell(j, a), phase[j] # "done", phase'[j] = "done",
           \A k \in Admission!Jobs : k # j => (phase'[k] = "done" <=> phase[k] = "done")
    PROVE  Admission!AnsweredOnce' /\ answers' \in [Admission!Jobs -> Seq(Told)]
<1>1. answers \in [Admission!Jobs -> Seq(Told)]
  BY DEF SlotInv, Admission!TypeOK, Told
<1>2. answers' = [answers EXCEPT ![j] = Append(answers[j], a)]
  BY DEF Admission!Tell
<1>3. answers[j] \in Seq(Told) /\ Len(answers[j]) = 0
  BY <1>1 DEF SlotInv, Admission!AnsweredOnce
<1>4. Append(answers[j], a) \in Seq(Told) /\ Len(Append(answers[j], a)) = 1
  BY <1>3, SMTT(60)
<1>5. answers' \in [Admission!Jobs -> Seq(Told)]
  BY <1>1, <1>2, <1>4
<1>6. answers'[j] = Append(answers[j], a) /\ \A k \in Admission!Jobs : k # j => answers'[k] = answers[k]
  BY <1>1, <1>2
<1>7. \A k \in Admission!Jobs : Len(answers'[k]) = IF phase'[k] = "done" THEN 1 ELSE 0
  BY <1>4, <1>6 DEF SlotInv, Admission!AnsweredOnce
<1> QED
  BY <1>5, <1>7 DEF Admission!AnsweredOnce

\* The answers stand while no job gets to its end.
LEMMA NoneTold ==
    ASSUME SlotInv, UNCHANGED answers, \A k \in Admission!Jobs : phase'[k] = "done" <=> phase[k] = "done"
    PROVE  Admission!AnsweredOnce' /\ answers' \in [Admission!Jobs -> Seq(Told)]
<1>1. answers' \in [Admission!Jobs -> Seq(Told)]
  BY DEF SlotInv, Admission!TypeOK, Told
<1>2. \A k \in Admission!Jobs : Len(answers'[k]) = IF phase'[k] = "done" THEN 1 ELSE 0
  BY DEF SlotInv, Admission!AnsweredOnce
<1> QED
  BY <1>1, <1>2 DEF Admission!AnsweredOnce

\* The parts of the type that most steps leave alone.
LEMMA JobTypesFrom ==
    ASSUME stopping' \in BOOLEAN, slot' \in Admission!Jobs \union {Nothing}, waiter' \in Admission!Jobs \union {Nothing},
           reserved' \in Admission!Jobs \union {Nothing}, rejecting' \in Admission!Jobs \union {Nothing},
           phase' \in [Admission!Jobs -> JobPhases], watched' \subseteq Admission!Jobs, preparing' \subseteq Admission!Jobs,
           doomed' \subseteq Admission!Jobs, tasks' \in Seq(Admission!Jobs), answers' \in [Admission!Jobs -> Seq(Told)]
    PROVE  Admission!TypeOK'
BY DEF Admission!TypeOK, JobPhases, Told

LEMMA JobTypeParts ==
    ASSUME Admission!TypeOK
    PROVE  /\ stopping \in BOOLEAN /\ slot \in Admission!Jobs \union {Nothing} /\ waiter \in Admission!Jobs \union {Nothing}
           /\ reserved \in Admission!Jobs \union {Nothing} /\ rejecting \in Admission!Jobs \union {Nothing}
           /\ phase \in [Admission!Jobs -> JobPhases] /\ watched \subseteq Admission!Jobs /\ preparing \subseteq Admission!Jobs
           /\ doomed \subseteq Admission!Jobs /\ tasks \in Seq(Admission!Jobs) /\ answers \in [Admission!Jobs -> Seq(Told)]
BY DEF Admission!TypeOK, JobPhases, Told

\* A job taken off the queue is a job, and the rest is a queue.
LEMMA TakenIsJob ==
    ASSUME SlotInv, tasks # <<>>
    PROVE  Head(tasks) \in Admission!Jobs /\ Tail(tasks) \in Seq(Admission!Jobs)
BY JobTypeParts, SMTT(60) DEF SlotInv

-------------------------------------------------------------------------------
(* Handoff: abort()                                                        *)

\* Whoever calls it, abort() ends a job that is pending or reserved, with its
\* only answer and its slot, and otherwise does nothing.
LEMMA AbortStep ==
    ASSUME Nothing \notin Admission!Jobs, SlotInv, NEW j \in Admission!Jobs, NEW a \in Told, Admission!Abort(j, a),
           stopping' \in BOOLEAN, rejecting' \in Admission!Jobs \union {Nothing}, preparing' \subseteq Admission!Jobs,
           doomed' \subseteq Admission!Jobs, tasks' \in Seq(Admission!Jobs)
    PROVE  SlotInv'
<1>1. CASE ~Admission!Abortable(j) /\ UNCHANGED <<waiter, reserved, slot, phase, watched, answers>>
  <2>1. Admission!TypeOK'
    BY <1>1, JobTypeParts, JobTypesFrom DEF SlotInv
  <2>2. Slot' /\ Named' /\ Admission!AnsweredOnce'
    BY <1>1 DEF SlotInv, Slot, Live, Named, Admission!AnsweredOnce
  <2> QED
    BY <2>1, <2>2 DEF SlotInv
<1>2. CASE /\ Admission!Abortable(j)
           /\ waiter' = IF phase[j] = "pending" THEN Nothing ELSE waiter
           /\ reserved' = IF phase[j] = "reserved" THEN Nothing ELSE reserved
           /\ slot' = IF phase[j] = "reserved" THEN Nothing ELSE slot
           /\ Admission!Become(j, "done")
           /\ watched' = watched \ {j}
           /\ Admission!Tell(j, a)
  <2>1. /\ phase' \in [Admission!Jobs -> JobPhases] /\ phase'[j] = "done"
        /\ \A k \in Admission!Jobs : k # j => phase'[k] = phase[k]
    <3>1. "done" \in JobPhases
      BY DEF JobPhases
    <3> QED
      BY <1>2, <3>1, JobBecomes
  <2>2. phase[j] \in {"pending", "reserved"} /\ j # Nothing
    BY <1>2 DEF Admission!Abortable
  <2>3. phase[j] # "done"
    BY <2>2
  <2>4. Admission!AnsweredOnce' /\ answers' \in [Admission!Jobs -> Seq(Told)]
    BY <1>2, <2>1, <2>3, ToldOnce
  <2>5. Admission!TypeOK'
    BY <1>2, <2>1, <2>4, JobTypeParts, JobTypesFrom DEF SlotInv
  <2>6. CASE phase[j] = "pending"
    <3>1. waiter = j /\ waiter' = Nothing /\ UNCHANGED <<reserved, slot>> /\ slot # j /\ reserved # j
      BY <1>2, <2>6 DEF SlotInv, Slot, Live, Named
    <3>2. Slot'
      BY <2>1, <3>1 DEF SlotInv, Slot, Live
    <3>3. Named'
      BY <2>1, <3>1 DEF SlotInv, Named
    <3> QED
      BY <2>4, <2>5, <3>2, <3>3 DEF SlotInv
  <2>7. CASE phase[j] = "reserved"
    <3>1. reserved = j /\ slot = j /\ reserved' = Nothing /\ slot' = Nothing /\ UNCHANGED waiter /\ waiter # j
      BY <1>2, <2>7 DEF SlotInv, Slot, Live, Named
    <3>2. Slot'
      BY <2>1, <3>1 DEF SlotInv, Slot, Live
    <3>3. Named'
      BY <2>1, <3>1 DEF SlotInv, Named
    <3> QED
      BY <2>4, <2>5, <3>2, <3>3 DEF SlotInv
  <2> QED
    BY <2>2, <2>6, <2>7
<1> QED
  BY <1>1, <1>2 DEF Admission!Abort

-------------------------------------------------------------------------------
(* Handoff: the steps                                                      *)

LEMMA AdmitStep == ASSUME Nothing \notin Admission!Jobs, SlotInv, NEW j \in Admission!Jobs, Admission!Admit(j) PROVE SlotInv'
<1>1. /\ phase[j] = "new" /\ slot = Nothing /\ slot' = j /\ tasks' = Append(tasks, j)
      /\ UNCHANGED <<stopping, waiter, reserved, watched, preparing, rejecting, doomed, answers>>
  BY DEF Admission!Admit
<1>2. /\ phase' \in [Admission!Jobs -> JobPhases] /\ phase'[j] = "direct"
      /\ \A k \in Admission!Jobs : k # j => phase'[k] = phase[k]
  <2>1. "direct" \in JobPhases
    BY DEF JobPhases
  <2> QED
    BY <2>1, JobBecomes DEF Admission!Admit
<1>3. tasks' \in Seq(Admission!Jobs)
  BY <1>1, JobTypeParts, SMTT(60) DEF SlotInv
<1>4. Admission!AnsweredOnce' /\ answers' \in [Admission!Jobs -> Seq(Told)]
  BY <1>1, <1>2, NoneTold
<1>5. Admission!TypeOK'
  BY <1>1, <1>2, <1>3, <1>4, JobTypeParts, JobTypesFrom DEF SlotInv
<1>6. Slot'
  BY <1>1, <1>2 DEF SlotInv, Slot, Live
<1>7. Named'
  BY <1>1, <1>2 DEF SlotInv, Named
<1> QED
  BY <1>4, <1>5, <1>6, <1>7 DEF SlotInv

LEMMA RefuseStep == ASSUME SlotInv, NEW j \in Admission!Jobs, Admission!RefuseBusy(j) PROVE SlotInv'
<1>1. /\ phase[j] = "new" /\ Admission!Tell(j, "busy") /\ "busy" \in Told
      /\ UNCHANGED <<stopping, slot, waiter, reserved, watched, preparing, tasks, rejecting, doomed>>
  BY DEF Admission!RefuseBusy, Told
<1>2. /\ phase' \in [Admission!Jobs -> JobPhases] /\ phase'[j] = "done"
      /\ \A k \in Admission!Jobs : k # j => phase'[k] = phase[k]
  <2>1. "done" \in JobPhases
    BY DEF JobPhases
  <2> QED
    BY <2>1, JobBecomes DEF Admission!RefuseBusy
<1>3. Admission!AnsweredOnce' /\ answers' \in [Admission!Jobs -> Seq(Told)]
  BY <1>1, <1>2, ToldOnce
<1>4. Admission!TypeOK'
  BY <1>1, <1>2, <1>3, JobTypeParts, JobTypesFrom DEF SlotInv
<1>5. Slot' /\ Named'
  BY <1>1, <1>2 DEF SlotInv, Slot, Live, Named
<1> QED
  BY <1>3, <1>4, <1>5 DEF SlotInv

LEMMA WaitStep == ASSUME Nothing \notin Admission!Jobs, SlotInv, NEW j \in Admission!Jobs, Admission!Wait(j) PROVE SlotInv'
<1>1. /\ phase[j] = "new" /\ waiter = Nothing /\ waiter' = j /\ watched' = watched \union {j}
      /\ UNCHANGED <<stopping, slot, reserved, preparing, tasks, rejecting, doomed, answers>>
  BY DEF Admission!Wait, Admission!MayWait
<1>2. /\ phase' \in [Admission!Jobs -> JobPhases] /\ phase'[j] = "pending"
      /\ \A k \in Admission!Jobs : k # j => phase'[k] = phase[k]
  <2>1. "pending" \in JobPhases
    BY DEF JobPhases
  <2> QED
    BY <2>1, JobBecomes DEF Admission!Wait
<1>3. Admission!AnsweredOnce' /\ answers' \in [Admission!Jobs -> Seq(Told)]
  BY <1>1, <1>2, NoneTold
<1>4. Admission!TypeOK'
  BY <1>1, <1>2, <1>3, JobTypeParts, JobTypesFrom DEF SlotInv
<1>5. Slot'
  BY <1>1, <1>2 DEF SlotInv, Slot, Live
<1>6. Named'
  BY <1>1, <1>2 DEF SlotInv, Named
<1> QED
  BY <1>3, <1>4, <1>5, <1>6 DEF SlotInv

\* The worker takes the first task: it moves on by one phase, or is left.
LEMMA TakeStep ==
    ASSUME Nothing \notin Admission!Jobs, SlotInv,
           \/ Admission!TakeDirect \/ Admission!TakeGone
           \/ Admission!TakeRejected \/ Admission!TakeClaimed
    PROVE  SlotInv'
<1>1. PICK j : j = Head(tasks)
  OBVIOUS
<1>2. /\ tasks # <<>> /\ tasks' = Tail(tasks)
      /\ UNCHANGED <<stopping, slot, waiter, preparing, doomed, answers>>
  BY DEF Admission!TakeDirect, Admission!TakeGone, Admission!TakeRejected, Admission!TakeClaimed
<1>3. j \in Admission!Jobs /\ tasks' \in Seq(Admission!Jobs)
  BY <1>1, <1>2, TakenIsJob
<1>4. CASE Admission!TakeGone \/ Admission!TakeRejected
  <2>1. /\ UNCHANGED <<reserved, phase, watched>> /\ rejecting' \in {rejecting, j}
    BY <1>1, <1>4 DEF Admission!TakeGone, Admission!TakeRejected
  <2>2. Admission!TypeOK'
    BY <1>2, <1>3, <2>1, JobTypeParts, JobTypesFrom DEF SlotInv
  <2>3. Slot' /\ Named' /\ Admission!AnsweredOnce'
    BY <1>2, <2>1 DEF SlotInv, Slot, Live, Named, Admission!AnsweredOnce
  <2> QED
    BY <2>2, <2>3 DEF SlotInv
<1>5. CASE Admission!TakeDirect
  <2>1. /\ phase[j] = "direct" /\ Admission!Become(j, "executing") /\ "executing" \in JobPhases
        /\ UNCHANGED <<reserved, watched, rejecting>>
    BY <1>1, <1>5 DEF Admission!TakeDirect, JobPhases
  <2>2. /\ phase' \in [Admission!Jobs -> JobPhases] /\ phase'[j] = "executing"
        /\ \A k \in Admission!Jobs : k # j => phase'[k] = phase[k]
    BY <1>3, <2>1, JobBecomes
  <2>3. Admission!AnsweredOnce' /\ answers' \in [Admission!Jobs -> Seq(Told)]
    BY <1>2, <2>1, <2>2, NoneTold
  <2>4. Admission!TypeOK'
    BY <1>2, <1>3, <2>1, <2>2, <2>3, JobTypeParts, JobTypesFrom DEF SlotInv
  <2>5. Slot' /\ Named'
    BY <1>2, <2>1, <2>2 DEF SlotInv, Slot, Live, Named
  <2> QED
    BY <2>3, <2>4, <2>5 DEF SlotInv
<1>6. CASE Admission!TakeClaimed
  <2>1. /\ phase[j] = "reserved" /\ reserved = j /\ Admission!Become(j, "running") /\ "running" \in JobPhases
        /\ reserved' = Nothing /\ watched' = watched \ {j} /\ UNCHANGED rejecting
    BY <1>1, <1>6 DEF Admission!TakeClaimed, Admission!Claimable, JobPhases
  <2>2. /\ phase' \in [Admission!Jobs -> JobPhases] /\ phase'[j] = "running"
        /\ \A k \in Admission!Jobs : k # j => phase'[k] = phase[k]
    BY <1>3, <2>1, JobBecomes
  <2>3. Admission!AnsweredOnce' /\ answers' \in [Admission!Jobs -> Seq(Told)]
    BY <1>2, <2>1, <2>2, NoneTold
  <2>4. Admission!TypeOK'
    BY <1>2, <1>3, <2>1, <2>2, <2>3, JobTypeParts, JobTypesFrom DEF SlotInv
  <2>5. Slot'
    BY <1>2, <2>1, <2>2 DEF SlotInv, Slot, Live
  <2>6. Named'
    BY <1>2, <2>1, <2>2 DEF SlotInv, Named
  <2> QED
    BY <2>3, <2>4, <2>5, <2>6 DEF SlotInv
<1> QED
  BY <1>4, <1>5, <1>6

\* finish() frees the slot, or hands it to the one job that waits for it.
LEMMA DoneStep ==
    ASSUME Nothing \notin Admission!Jobs, SlotInv, NEW j \in Admission!Jobs, Admission!TaskDone(j)
    PROVE  SlotInv'
<1>1. PICK next : next = IF slot = j /\ ~stopping THEN waiter ELSE Nothing
  OBVIOUS
<1>2. /\ Admission!Running(j) /\ Admission!Tell(j, "ran") /\ "ran" \in Told
      /\ slot' = IF slot = j THEN next ELSE slot
      /\ reserved' = IF next = Nothing THEN reserved ELSE next
      /\ waiter' = IF next = Nothing THEN waiter ELSE Nothing
      /\ preparing' = preparing \union ({next} \ {Nothing})
      /\ phase' = [k \in Admission!Jobs |-> CASE k = j -> "done" [] k = next -> "reserved" [] OTHER -> phase[k]]
      /\ UNCHANGED <<stopping, watched, tasks, rejecting, doomed>>
  BY <1>1, SMTT(60) DEF Admission!TaskDone, Admission!HandOver, Told
<1>3. phase[j] \in {"executing", "running"} /\ slot = j /\ slot' = next /\ j # Nothing
  BY <1>2 DEF Admission!Running, SlotInv, Slot, Live
<1>4. reserved = Nothing
  <2>1. \A k \in Admission!Jobs : reserved # k
    BY <1>3 DEF SlotInv, Named, Slot, Live
  <2> QED
    BY <2>1, JobTypeParts DEF SlotInv
<1>5. next = Nothing \/ (next \in Admission!Jobs /\ next = waiter /\ phase[next] = "pending" /\ next # j)
  BY <1>1, <1>3, JobTypeParts DEF SlotInv, Named
<1>6. /\ phase'[j] = "done"
      /\ next # Nothing => phase'[next] = "reserved"
      /\ \A k \in Admission!Jobs : k # j /\ k # next => phase'[k] = phase[k]
  BY <1>2, <1>3, <1>5, SMTT(60)
<1>7. phase' \in [Admission!Jobs -> JobPhases]
  <2>1. \A k \in Admission!Jobs : phase[k] \in JobPhases
    BY JobTypeParts DEF SlotInv
  <2>2. {"done", "reserved"} \subseteq JobPhases
    BY DEF JobPhases
  <2>3. \A k \in Admission!Jobs : phase'[k] \in JobPhases
    BY <1>5, <1>6, <2>1, <2>2
  <2> QED
    BY <1>2, <2>3
<1>8. Admission!AnsweredOnce' /\ answers' \in [Admission!Jobs -> Seq(Told)]
  <2>1. phase[j] # "done"
    BY <1>3
  <2>2. \A k \in Admission!Jobs : k # j => (phase'[k] = "done" <=> phase[k] = "done")
    BY <1>5, <1>6
  <2> QED
    BY <1>2, <1>6, <2>1, <2>2, ToldOnce
<1>9. Admission!TypeOK'
  BY <1>2, <1>3, <1>5, <1>7, <1>8, JobTypeParts, JobTypesFrom DEF SlotInv
<1>10. Slot'
  BY <1>3, <1>5, <1>6 DEF SlotInv, Slot, Live
<1>11. CASE next = Nothing
  <2>1. UNCHANGED <<waiter, reserved>> /\ waiter # j
    BY <1>2, <1>3, <1>11 DEF SlotInv, Named
  <2>2. Named'
    BY <1>3, <1>4, <1>6, <1>11, <2>1 DEF SlotInv, Named
  <2> QED
    BY <1>8, <1>9, <1>10, <2>2 DEF SlotInv
<1>12. CASE next # Nothing
  <2>1. waiter' = Nothing /\ reserved' = next /\ waiter = next
    BY <1>2, <1>5, <1>12
  <2>2. \A k \in Admission!Jobs : phase'[k] = "pending" <=> waiter' = k
    BY <1>5, <1>6, <1>12, <2>1 DEF SlotInv, Named
  <2>3. \A k \in Admission!Jobs : phase'[k] = "reserved" <=> reserved' = k
    BY <1>4, <1>5, <1>6, <1>12, <2>1 DEF SlotInv, Named
  <2> QED
    BY <1>8, <1>9, <1>10, <2>2, <2>3 DEF SlotInv, Named
<1> QED
  BY <1>11, <1>12

\* The callers of abort().
LEMMA AbortersStep ==
    ASSUME Nothing \notin Admission!Jobs, SlotInv,
           \/ Admission!AbortRejected
           \/ \E j \in Admission!Jobs :
                 \/ Admission!PeerEnds(j, "disconnected") \/ Admission!PeerEnds(j, "expired")
                 \/ Admission!NotPrepared(j) \/ Admission!StopAborts(j)
    PROVE  SlotInv'
<1>1. PICK j \in Admission!Jobs, a \in Told : Admission!Abort(j, a)
  BY JobTypeParts DEF Admission!AbortRejected, Admission!PeerEnds, Admission!NotPrepared, Admission!StopAborts, Told, SlotInv
<1>2. /\ UNCHANGED <<stopping, tasks>> /\ rejecting' \in {rejecting, Nothing}
      /\ preparing' \subseteq preparing /\ doomed' \subseteq doomed
  BY DEF Admission!AbortRejected, Admission!PeerEnds, Admission!NotPrepared, Admission!StopAborts
<1> QED
  BY <1>1, <1>2, JobTypeParts, AbortStep DEF SlotInv

LEMMA StopStep == ASSUME SlotInv, Admission!Stop PROVE SlotInv'
<1>1. /\ stopping' = TRUE /\ doomed' = {waiter, reserved} \ {Nothing}
      /\ UNCHANGED <<slot, waiter, reserved, phase, watched, preparing, tasks, rejecting, answers>>
  BY DEF Admission!Stop
<1>2. Admission!TypeOK'
  BY <1>1, JobTypeParts, JobTypesFrom DEF SlotInv
<1> QED
  BY <1>1, <1>2 DEF SlotInv, Slot, Live, Named, Admission!AnsweredOnce

LEMMA PreparedStep == ASSUME SlotInv, NEW j \in Admission!Jobs, Admission!Prepared(j) PROVE SlotInv'
<1>1. /\ preparing' \subseteq preparing /\ tasks' \in {tasks, Append(tasks, j)}
      /\ UNCHANGED <<stopping, slot, waiter, reserved, phase, watched, rejecting, doomed, answers>>
  BY DEF Admission!Prepared
<1>2. tasks' \in Seq(Admission!Jobs)
  BY <1>1, JobTypeParts, SMTT(60) DEF SlotInv
<1>3. Admission!TypeOK'
  BY <1>1, <1>2, JobTypeParts, JobTypesFrom DEF SlotInv
<1> QED
  BY <1>1, <1>3 DEF SlotInv, Slot, Live, Named, Admission!AnsweredOnce

-------------------------------------------------------------------------------
(* Handoff: the theorems                                                   *)

LEMMA SlotInit == Nothing \notin Admission!Jobs /\ Admission!Init => SlotInv
<1> SUFFICES ASSUME Nothing \notin Admission!Jobs, Admission!Init PROVE SlotInv
  OBVIOUS
<1>1. Admission!TypeOK
  <2>1. <<>> \in Seq(Admission!Jobs) /\ <<>> \in Seq({"busy", "ran", "disconnected", "expired", "rejected", "stopping"})
    BY SMTT(60)
  <2> QED
    BY <2>1 DEF Admission!Init, Admission!TypeOK
<1>2. Slot /\ Named
  BY DEF Admission!Init, Slot, Live, Named
<1>3. Len(<<>>) = 0
  BY SMTT(60)
<1>4. \A j \in Admission!Jobs : answers[j] = <<>> /\ phase[j] # "done"
  BY DEF Admission!Init
<1>5. Admission!AnsweredOnce
  BY <1>3, <1>4 DEF Admission!AnsweredOnce
<1> QED
  BY <1>1, <1>2, <1>5 DEF SlotInv

LEMMA SlotNext == Nothing \notin Admission!Jobs /\ SlotInv /\ [Admission!Next]_(Admission!vars) => SlotInv'
<1> SUFFICES ASSUME Nothing \notin Admission!Jobs, SlotInv, [Admission!Next]_(Admission!vars) PROVE SlotInv'
  OBVIOUS
<1>1. CASE \E j \in Admission!Jobs : Admission!Admit(j) \/ Admission!RefuseBusy(j) \/ Admission!Wait(j) \/ Admission!TaskDone(j)
  BY <1>1, AdmitStep, RefuseStep, WaitStep, DoneStep
<1>2. CASE \E j \in Admission!Jobs : Admission!PeerEnds(j, "disconnected") \/ Admission!PeerEnds(j, "expired")
  BY <1>2, AbortersStep
<1>3. CASE \E j \in Admission!Jobs : Admission!Prepared(j) \/ Admission!NotPrepared(j) \/ Admission!StopAborts(j)
  BY <1>3, PreparedStep, AbortersStep
<1>4. CASE Admission!Worker
  BY <1>4, TakeStep, AbortersStep DEF Admission!Worker
<1>5. CASE Admission!Stop
  BY <1>5, StopStep
<1>6. CASE UNCHANGED Admission!vars
  BY <1>6 DEF Admission!vars, SlotInv, Admission!TypeOK, Slot, Live, Named, Admission!AnsweredOnce
<1> QED
  BY <1>1, <1>2, <1>3, <1>4, <1>5, <1>6 DEF Admission!Next

LEMMA SlotInvariance == ASSUME Admission!NothingIsNoJob PROVE Admission!Spec => []SlotInv
<1>1. Nothing \notin Admission!Jobs
  BY DEF Admission!NothingIsNoJob
<1>2. Admission!Init => SlotInv
  BY <1>1, SlotInit
<1>3. SlotInv /\ [Admission!Next]_(Admission!vars) => SlotInv'
  BY <1>1, SlotNext
<1> QED
  BY <1>2, <1>3, PTL DEF Admission!Spec

\* No path of admission_t puts anything but jobs, or nothing, in its fields:
\* stop() finds no null job to abort.
THEOREM HandoffTypes == ASSUME Admission!NothingIsNoJob PROVE Admission!Spec => []Admission!TypeOK
<1>1. SlotInv => Admission!TypeOK
  BY DEF SlotInv
<1> QED
  BY <1>1, SlotInvariance, PTL

\* active_id stands for the one mutation that was admitted or handed over, for
\* any number of requests and whichever of the peer, the worker, the deadline
\* and stop() end the waiter.
THEOREM OneMutationHolds == ASSUME Admission!NothingIsNoJob PROVE Admission!Spec => []Admission!OneMutation
<1>1. SlotInv => Admission!OneMutation
  <2> SUFFICES ASSUME SlotInv PROVE Admission!OneMutation
    OBVIOUS
  <2>1. Nothing \notin Admission!Jobs
    BY DEF Admission!NothingIsNoJob
  <2>2. {j \in Admission!Jobs : phase[j] \in {"direct", "executing", "reserved", "running"}} = {slot} \ {Nothing}
    BY <2>1, JobTypeParts DEF SlotInv, Slot, Live
  <2> QED
    BY <2>2 DEF Admission!OneMutation
<1> QED
  BY <1>1, SlotInvariance, PTL

\* No request is answered twice, and one that is over was answered.
THEOREM AnsweredOnceHolds == ASSUME Admission!NothingIsNoJob PROVE Admission!Spec => []Admission!AnsweredOnce
<1>1. SlotInv => Admission!AnsweredOnce
  BY DEF SlotInv
<1> QED
  BY <1>1, SlotInvariance, PTL

===============================================================================
