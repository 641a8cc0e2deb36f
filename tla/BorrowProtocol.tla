---------------------------- MODULE BorrowProtocol ----------------------------
(***************************************************************************)
(* How the host borrows an existing display without changing it, while the *)
(* display helper process may be changing displays.  The host's consumer_t *)
(* (display_helper_borrow_consumer.h) closes the gate_t of its own process,*)
(* asks the helper's control_t over the pipe to close the helper's gate_t, *)
(* and then owns the machine-wide mutation mutex (kernel_hold_t) for as    *)
(* long as the borrow lasts.  The model has both processes, the pipe that  *)
(* may break at any moment, every timeout of the handshake, writers in     *)
(* both processes, and the death and restart of either process.            *)
(*                                                                         *)
(* Process contexts (pid and creation time) are numbers, one per process   *)
(* started.  A request is a host context and an id; a token adds the       *)
(* helper context and the connection epoch of its acquire.                 *)
(***************************************************************************)
EXTENDS Naturals, FiniteSets, Sequences

CONSTANTS
    HostWriters,      \* host threads that change displays
    HelperWriters,    \* helper threads that change displays
    MaxHost,          \* bound on host processes started
    MaxHelper,        \* bound on helper processes started
    MaxId,            \* bound on borrow requests of one host process
    MaxEpoch          \* bound on connections of one helper process

ASSUME BoundsAssumption ==
    /\ MaxHost \in Nat \ {0} /\ MaxHelper \in Nat \ {0}
    /\ MaxId \in Nat /\ MaxEpoch \in Nat

VARIABLES
    host,             \* context of the running host process
    helper,           \* context of the running helper process
    hostGate,         \* process_gate() of the host
    helperGate,       \* process_gate() of the helper
    nextId,           \* consumer_t::next_id_
    borrow,           \* the consumer's borrow: step, request, token
    conn,             \* epoch of the live connection, 0 when there is none
    epochs,           \* connections the helper process has accepted
    mailbox,          \* mailbox_t::queue_
    tokens,           \* control_t::tokens_
    serving,          \* the acquire the helper's main thread is draining for
    replies,          \* results sent on the live connection
    mutex,            \* the mutation mutex: owner and whether abandoned
    writing           \* helper writers that own the mutation mutex

hostVars == <<host, hostGate, nextId, borrow>>
pipeVars == <<conn, epochs, replies>>
helperVars == <<helper, helperGate, mailbox, tokens, serving, writing>>
vars == <<hostVars, pipeVars, helperVars, mutex>>

Requests == [host : 1 .. MaxHost, id : 1 .. MaxId]
NoRequest == [host |-> 0, id |-> 0]
Tokens == [request : Requests, helper : 1 .. MaxHelper, epoch : 1 .. MaxEpoch]
NoToken == [request |-> NoRequest, helper |-> 0, epoch |-> 0]
NotServing == [request |-> NoRequest, epoch |-> 0]

Open == [held |-> {}, retired |-> [h \in 1 .. MaxHost |-> 0], inside |-> {}, permanent |-> FALSE]
NoBorrow == [step |-> "idle", request |-> NoRequest, token |-> NoToken]

Init ==
    /\ host = 1
    /\ helper = 1
    /\ hostGate = Open
    /\ helperGate = Open
    /\ nextId = 1
    /\ borrow = NoBorrow
    /\ conn = 0
    /\ epochs = 0
    /\ mailbox = <<>>
    /\ tokens = {}
    /\ serving = NotServing
    /\ replies = {}
    /\ mutex = [owner |-> "none", abandoned |-> FALSE]
    /\ writing = {}

-------------------------------------------------------------------------------
(* gate_t, the same class in both processes                                *)

Inhibited(g) == g.permanent \/ g.held # {}

\* try_enter and wait_enter, once they do not refuse or wait
Entering(g, w) == [g EXCEPT !.inside = @ \union {w}]
Leaving(g, w) == [g EXCEPT !.inside = @ \ {w}]

\* The first half of acquire() refuses, or closes admission.
Closable(g, r) == ~g.permanent /\ r.id > g.retired[r.host]
Closing(g, r) == [g EXCEPT !.held = @ \union {r}]

\* release(), and the failure path of acquire()
Releasing(g, R) ==
    [g EXCEPT !.held = @ \ R,
              !.retired = [h \in DOMAIN @ |->
                 LET ids == {r.id : r \in {q \in R : q.host = h}} \union {@[h]}
                 IN  CHOOSE i \in ids : \A j \in ids : j <= i]]

Fencing(g) == [g EXCEPT !.permanent = TRUE]

-------------------------------------------------------------------------------
(* Writers.  A host writer only needs its own gate; a helper writer needs  *)
(* its gate and then the mutation mutex.                                   *)

HostWrite(w) ==
    /\ w \notin hostGate.inside
    /\ ~Inhibited(hostGate)
    /\ hostGate' = Entering(hostGate, w)
    /\ UNCHANGED <<host, nextId, borrow, pipeVars, helperVars, mutex>>

HostWritten(w) ==
    /\ w \in hostGate.inside
    /\ hostGate' = Leaving(hostGate, w)
    /\ UNCHANGED <<host, nextId, borrow, pipeVars, helperVars, mutex>>

WriterEnter(w) ==
    /\ w \notin helperGate.inside
    /\ ~Inhibited(helperGate)
    /\ helperGate' = Entering(helperGate, w)
    /\ UNCHANGED <<hostVars, pipeVars, helper, mailbox, tokens, serving, writing, mutex>>

\* WAIT_OBJECT_0 or WAIT_ABANDONED
WriterLock(w) ==
    /\ w \in helperGate.inside \ writing
    /\ mutex.owner = "none"
    /\ mutex' = [owner |-> "helper", abandoned |-> FALSE]
    /\ writing' = writing \union {w}
    /\ UNCHANGED <<hostVars, pipeVars, helper, helperGate, mailbox, tokens, serving>>

\* The 25 ms wait ran out and a borrow closed the gate meanwhile: the task
\* goes back to the front of the dispatcher's queue.
WriterYield(w) ==
    /\ w \in helperGate.inside \ writing
    /\ mutex.owner # "none"
    /\ Inhibited(helperGate)
    /\ helperGate' = Leaving(helperGate, w)
    /\ UNCHANGED <<hostVars, pipeVars, helper, mailbox, tokens, serving, writing, mutex>>

WriterDone(w) ==
    /\ w \in writing
    /\ mutex' = [mutex EXCEPT !.owner = "none"]
    /\ writing' = writing \ {w}
    /\ helperGate' = Leaving(helperGate, w)
    /\ UNCHANGED <<hostVars, pipeVars, helper, mailbox, tokens, serving>>

-------------------------------------------------------------------------------
(* The pipe                                                                *)

Connect ==
    /\ conn = 0
    /\ epochs < MaxEpoch
    /\ epochs' = epochs + 1
    /\ conn' = epochs + 1
    /\ UNCHANGED <<replies, hostVars, helperVars, mutex>>

\* Results not yet read are gone with their session.
Disconnect ==
    /\ conn # 0
    /\ conn' = 0
    /\ replies' = {}
    /\ UNCHANGED <<epochs, hostVars, helperVars, mutex>>

\* Mutant: a frame is sent without looking for a session.
WriteUnconnected(m) ==
    /\ \/ mailbox' = Append(mailbox, m) /\ UNCHANGED <<conn, replies>>
       \/ conn' = 0 /\ replies' = {} /\ UNCHANGED mailbox
    /\ UNCHANGED epochs

\* A frame is written: it reaches the mailbox, or the connection breaks
\* with the write attempted.
Write(m) ==
    /\ conn # 0
    /\ \/ mailbox' = Append(mailbox, m) /\ UNCHANGED <<conn, replies>>
       \/ conn' = 0 /\ replies' = {} /\ UNCHANGED mailbox
    /\ UNCHANGED epochs

\* send_for_epoch drops a result whose connection is gone
Reply(epoch, m) ==
    replies' = IF conn = epoch THEN replies \union {m} ELSE replies

-------------------------------------------------------------------------------
(* consumer_t::observe and ~context_hold_t in the host                     *)

At(s) == borrow.step = s
Goto(s) == borrow' = [borrow EXCEPT !.step = s]

\* unknown(): the gate and the lease registry stay fenced
Unknown == hostGate' = Fencing(hostGate)

ObserveBegin ==
    LET r == [host |-> host, id |-> nextId] IN
    /\ At("idle")
    /\ nextId <= MaxId
    /\ Closable(hostGate, r)
    /\ nextId' = nextId + 1
    /\ hostGate' = Closing(hostGate, r)
    /\ borrow' = [NoBorrow EXCEPT !.step = "closing", !.request = r]
    /\ UNCHANGED <<host, pipeVars, helperVars, mutex>>

\* Mutant: the host's writers inside the gate are not waited for.
HostDrainedOrNot ==
    /\ At("closing")
    /\ Goto("closed")
    /\ UNCHANGED <<host, hostGate, nextId, pipeVars, helperVars, mutex>>

HostDrained ==
    /\ At("closing")
    /\ hostGate.inside = {}
    /\ Goto("closed")
    /\ UNCHANGED <<host, hostGate, nextId, pipeVars, helperVars, mutex>>

\* The host's writers did not drain before the deadline, the acquire was
\* never written, or the helper answered that it failed.
Refused ==
    /\ \/ At("closing") /\ hostGate.inside # {}
       \/ At("closed")
       \/ /\ At("asked")
          /\ [type |-> "acquired", request |-> borrow.request, token |-> NoToken, ok |-> FALSE] \in replies
    /\ hostGate' = Releasing(hostGate, {borrow.request})
    /\ borrow' = NoBorrow
    /\ UNCHANGED <<host, nextId, pipeVars, helperVars, mutex>>

AskHelper ==
    /\ At("closed")
    /\ Write([type |-> "acquire", request |-> borrow.request, token |-> NoToken, epoch |-> conn])
    /\ Goto("asked")
    /\ UNCHANGED <<host, hostGate, nextId, helper, helperGate, tokens, serving, writing, mutex>>

Acknowledged ==
    /\ At("asked")
    /\ \E m \in replies :
          /\ m.type = "acquired" /\ m.request = borrow.request /\ m.ok
          /\ borrow' = [borrow EXCEPT !.step = "pinning", !.token = m.token]
    /\ UNCHANGED <<host, hostGate, nextId, pipeVars, helperVars, mutex>>

\* Mutant: the wait for the result has no deadline once the session is gone.
AcquireTimeoutConnected ==
    /\ At("asked")
    /\ conn # 0
    /\ Goto("canceling")
    /\ UNCHANGED <<host, hostGate, nextId, pipeVars, helperVars, mutex>>

\* No result before the deadline, or the session ended: cancel the request.
AcquireTimeout ==
    /\ At("asked")
    /\ Goto("canceling")
    /\ UNCHANGED <<host, hostGate, nextId, pipeVars, helperVars, mutex>>

CancelHelper ==
    /\ At("canceling")
    /\ Write([type |-> "release", request |-> borrow.request, token |-> NoToken, epoch |-> conn])
    /\ Goto("canceled")
    /\ UNCHANGED <<host, hostGate, nextId, helper, helperGate, tokens, serving, writing, mutex>>

\* Mutant: a cancellation that was written counts as acknowledged.
CancelAssumed ==
    /\ At("canceled")
    /\ hostGate' = Releasing(hostGate, {borrow.request})
    /\ borrow' = NoBorrow
    /\ UNCHANGED <<host, nextId, pipeVars, helperVars, mutex>>

CancelAcknowledged ==
    /\ At("canceled")
    /\ \E m \in replies : m.type = "released" /\ m.request = borrow.request /\ m.ok
    /\ hostGate' = Releasing(hostGate, {borrow.request})
    /\ borrow' = NoBorrow
    /\ UNCHANGED <<host, nextId, pipeVars, helperVars, mutex>>

\* Without that acknowledgement nothing proves that the helper forgot it.
CancelUnknown ==
    /\ At("canceling") \/ At("canceled")
    /\ Unknown
    /\ borrow' = NoBorrow
    /\ UNCHANGED <<host, nextId, pipeVars, helperVars, mutex>>

\* The native handle was duplicated; inhibit_kernel waits for the mutex.
Pinned ==
    /\ At("pinning")
    /\ Goto("locking")
    /\ UNCHANGED <<host, hostGate, nextId, pipeVars, helperVars, mutex>>

HostLock ==
    /\ At("locking")
    /\ mutex = [owner |-> "none", abandoned |-> FALSE]
    /\ mutex' = [mutex EXCEPT !.owner = "host"]
    /\ Goto("observing")
    /\ UNCHANGED <<host, hostGate, nextId, pipeVars, helperVars>>

\* WAIT_ABANDONED is uncertainty: release the mutex and reject the borrow.
HostLockAbandoned ==
    /\ At("locking")
    /\ mutex = [owner |-> "none", abandoned |-> TRUE]
    /\ mutex' = [mutex EXCEPT !.abandoned = FALSE]
    /\ Unknown
    /\ Goto("releasing")
    /\ UNCHANGED <<host, nextId, pipeVars, helperVars>>

Alive(ctx) == ctx = helper

\* Pinning failed, the mutex could not be opened or was not free before the
\* deadline, or the exact target was not there: the hold is destroyed.
BorrowFails ==
    /\ \/ At("pinning")
       \/ At("locking")
       \/ At("observing") /\ Alive(borrow.token.helper)
    /\ Goto("releasing")
    /\ UNCHANGED <<host, hostGate, nextId, pipeVars, helperVars, mutex>>

\* The helper died, or its state cannot be queried, after the acknowledgement.
HelperLost ==
    /\ At("observing")
    /\ Unknown
    /\ Goto("releasing")
    /\ UNCHANGED <<host, nextId, pipeVars, helperVars, mutex>>

Publish ==
    /\ At("observing")
    /\ Alive(borrow.token.helper)
    /\ Goto("published")
    /\ UNCHANGED <<host, hostGate, nextId, pipeVars, helperVars, mutex>>

\* Another observe() of a live hold finds the helper gone.
ReobserveLost ==
    /\ At("published")
    /\ ~Alive(borrow.token.helper)
    /\ Unknown
    /\ UNCHANGED <<host, nextId, borrow, pipeVars, helperVars, mutex>>

\* The last owner of the lease drops it.
DropLease ==
    /\ At("published")
    /\ Goto("releasing")
    /\ UNCHANGED <<host, hostGate, nextId, pipeVars, helperVars, mutex>>

ReleaseHelper ==
    /\ At("releasing")
    /\ Write([type |-> "release", request |-> borrow.request, token |-> borrow.token, epoch |-> conn])
    /\ Goto("released")
    /\ UNCHANGED <<host, hostGate, nextId, helper, helperGate, tokens, serving, writing, mutex>>

Unlocked == IF mutex.owner = "host" THEN [mutex EXCEPT !.owner = "none"] ELSE mutex

\* resource, then mutex, then the host's own gate
ReleaseAcknowledged ==
    /\ At("released")
    /\ \E m \in replies :
          m.type = "released" /\ m.request = borrow.request /\ m.ok /\ m.token = borrow.token
    /\ mutex' = Unlocked
    /\ hostGate' = Releasing(hostGate, {borrow.request})
    /\ borrow' = NoBorrow
    /\ UNCHANGED <<host, nextId, pipeVars, helperVars>>

\* The mutex and the native handle are kept until the process dies.
ReleaseUnknown ==
    /\ At("releasing") \/ At("released")
    /\ Unknown
    /\ Goto("retained")
    /\ UNCHANGED <<host, nextId, pipeVars, helperVars, mutex>>

-------------------------------------------------------------------------------
(* mailbox_t::service and control_t on the helper's main thread.  Every    *)
(* call ends with reap_dead_controllers, which skips a controller whose    *)
(* state it cannot query.                                                  *)

Dead(t) == t.request.host # host

\* Tokens ts and gate g as the command left them; R are the dead controllers'
\* tokens that the queries identified.
Reap(ts, g, R) ==
    /\ tokens' = ts \ R
    /\ helperGate' = Releasing(g, {t.request : t \in R})

TokenOf(r) == CHOOSE t \in tokens : t.request = r
Has(r) == \E t \in tokens : t.request = r

Service(type) ==
    /\ serving = NotServing
    /\ mailbox # <<>>
    /\ Head(mailbox).type = type
    /\ mailbox' = Tail(mailbox)

Answer(type, r, t, ok, epoch) ==
    Reply(epoch, [type |-> type, request |-> r, token |-> t, ok |-> ok])

\* The controller is dead or unknown, or the request was already retired.
AcquireRefused(R) ==
    LET m == Head(mailbox) IN
    /\ Service("acquire")
    /\ ~Has(m.request)
    /\ Answer("acquired", m.request, NoToken, FALSE, m.epoch)
    /\ Reap(tokens, helperGate, R)
    /\ UNCHANGED <<serving, conn, epochs, helper, writing, hostVars, mutex>>

AcquireBegin ==
    LET m == Head(mailbox) IN
    /\ Service("acquire")
    /\ m.request.host = host
    /\ ~Has(m.request)
    /\ Closable(helperGate, m.request)
    /\ helperGate' = Closing(helperGate, m.request)
    /\ serving' = [request |-> m.request, epoch |-> m.epoch]
    /\ UNCHANGED <<tokens, pipeVars, helper, writing, hostVars, mutex>>

AcquireDrained(R) ==
    LET t == [request |-> serving.request, helper |-> helper, epoch |-> serving.epoch] IN
    /\ serving # NotServing
    /\ helperGate.inside = {}
    /\ Answer("acquired", t.request, t, TRUE, t.epoch)
    /\ Reap(tokens \union {t}, helperGate, R)
    /\ serving' = NotServing
    /\ UNCHANGED <<conn, epochs, helper, mailbox, writing, hostVars, mutex>>

\* one second passed, or the controller is not known to be alive
AcquireExpired(R) ==
    /\ serving # NotServing
    /\ Answer("acquired", serving.request, NoToken, FALSE, serving.epoch)
    /\ Reap(tokens, Releasing(helperGate, {serving.request}), R)
    /\ serving' = NotServing
    /\ UNCHANGED <<conn, epochs, helper, mailbox, writing, hostVars, mutex>>

\* A cancellation names no token and counts only on the acquire's connection.
ServeCancel(R) ==
    LET m == Head(mailbox)
        stale == Has(m.request) /\ TokenOf(m.request).epoch # m.epoch
        known == {t \in tokens : t.request = m.request}
        t == IF known = {} THEN [request |-> m.request, helper |-> helper, epoch |-> m.epoch]
             ELSE TokenOf(m.request)
    IN
    /\ Service("release")
    /\ m.token = NoToken
    /\ Answer("released", m.request, IF stale THEN NoToken ELSE t, ~stale, m.epoch)
    /\ IF stale THEN Reap(tokens, helperGate, R)
       ELSE Reap(tokens \ known, Releasing(helperGate, {m.request}), R)
    /\ UNCHANGED <<serving, conn, epochs, helper, writing, hostVars, mutex>>

\* A release must name exactly the token that is held.
ServeRelease(R) ==
    LET m == Head(mailbox) IN
    /\ Service("release")
    /\ m.token # NoToken
    /\ Answer("released", m.request, m.token, m.token \in tokens, m.epoch)
    /\ IF m.token \in tokens
       THEN Reap(tokens \ {m.token}, Releasing(helperGate, {m.request}), R)
       ELSE Reap(tokens, helperGate, R)
    /\ UNCHANGED <<serving, conn, epochs, helper, writing, hostVars, mutex>>

\* Mutant: service() returns early when its queue is empty.
ServeIdleOnly(R) ==
    /\ serving = NotServing
    /\ mailbox = <<>>
    /\ UNCHANGED vars

\* service() with an empty queue
ServeIdle(R) ==
    /\ serving = NotServing
    /\ mailbox = <<>>
    /\ Reap(tokens, helperGate, R)
    /\ UNCHANGED <<serving, mailbox, pipeVars, helper, writing, hostVars, mutex>>

-------------------------------------------------------------------------------
(* Death and restart                                                       *)

Abandon(who) ==
    mutex' = IF mutex.owner = who THEN [owner |-> "none", abandoned |-> TRUE] ELSE mutex

HostDies ==
    /\ host < MaxHost
    /\ host' = host + 1
    /\ hostGate' = Open
    /\ nextId' = 1
    /\ borrow' = NoBorrow
    /\ conn' = 0
    /\ replies' = {}
    /\ Abandon("host")
    /\ UNCHANGED <<epochs, helperVars>>

HelperDies ==
    /\ helper < MaxHelper
    /\ helper' = helper + 1
    /\ helperGate' = Open
    /\ mailbox' = <<>>
    /\ tokens' = {}
    /\ serving' = NotServing
    /\ writing' = {}
    /\ conn' = 0
    /\ epochs' = 0
    /\ replies' = {}
    /\ Abandon("helper")
    /\ UNCHANGED hostVars

-------------------------------------------------------------------------------
Writers ==
    \/ \E w \in HostWriters : HostWrite(w) \/ HostWritten(w)
    \/ \E w \in HelperWriters : WriterEnter(w) \/ WriterLock(w) \/ WriterYield(w) \/ WriterDone(w)

Consumer ==
    \/ HostDrained \/ Refused \/ AskHelper \/ Acknowledged \/ AcquireTimeout
    \/ CancelHelper \/ CancelAcknowledged \/ CancelUnknown
    \/ Pinned \/ HostLock \/ HostLockAbandoned \/ BorrowFails \/ HelperLost \/ Publish
    \/ ReleaseHelper \/ ReleaseAcknowledged \/ ReleaseUnknown

Control(R) ==
    \/ AcquireRefused(R) \/ AcquireDrained(R) \/ AcquireExpired(R)
    \/ ServeCancel(R) \/ ServeRelease(R) \/ ServeIdle(R)

AllDead == {t \in tokens : Dead(t)}

Next ==
    \/ Writers
    \/ Connect \/ Disconnect
    \/ ObserveBegin \/ Consumer \/ ReobserveLost \/ DropLease
    \/ AcquireBegin \/ \E R \in SUBSET AllDead : Control(R)
    \/ HostDies \/ HelperDies

Spec == Init /\ [][Next]_vars

\* The host's waits end by their deadlines, the helper's main loop keeps
\* serving its mailbox, and whether a dead process is dead can be told
\* eventually.  Writers, connections and lease owners are left alone.
FairSpec ==
    /\ Spec
    /\ WF_vars(Consumer)
    /\ WF_vars(AcquireBegin \/ Control(AllDead))

-------------------------------------------------------------------------------
GateType == [held : SUBSET Requests, retired : [1 .. MaxHost -> 0 .. MaxId],
             inside : SUBSET (HostWriters \union HelperWriters), permanent : BOOLEAN]

Steps == {"idle", "closing", "closed", "asked", "canceling", "canceled", "pinning", "locking",
          "observing", "published", "releasing", "released", "retained"}

TypeOK ==
    /\ host \in 1 .. MaxHost
    /\ helper \in 1 .. MaxHelper
    /\ hostGate \in GateType
    /\ helperGate \in GateType
    /\ nextId \in 1 .. MaxId + 1
    /\ borrow \in [step : Steps, request : Requests \union {NoRequest}, token : Tokens \union {NoToken}]
    /\ conn \in 0 .. MaxEpoch
    /\ epochs \in 0 .. MaxEpoch
    /\ \A i \in DOMAIN mailbox :
          mailbox[i] \in [type : {"acquire", "release"}, request : Requests,
                          token : Tokens \union {NoToken}, epoch : 1 .. MaxEpoch]
    /\ tokens \subseteq Tokens
    /\ serving \in [request : Requests, epoch : 1 .. MaxEpoch] \union {NotServing}
    /\ replies \subseteq [type : {"acquired", "released"}, request : Requests,
                          token : Tokens \union {NoToken}, ok : BOOLEAN]
    /\ mutex \in [owner : {"none", "host", "helper"}, abandoned : BOOLEAN]
    /\ writing \subseteq HelperWriters

\* While a borrow is published nobody changes a display: no host thread is in
\* a mutation, no helper thread of this or of a restarted helper owns the
\* mutation mutex, and the host's gate admits nobody.
BorrowedIsStill ==
    At("published") => /\ hostGate.inside = {}
                       /\ Inhibited(hostGate)
                       /\ writing = {}
                       /\ mutex.owner = "host"

\* Host and helper agree on what is held.  Cancellations, late acquires and
\* stale releases never clear the token of a borrow the host relies on: as long
\* as its helper lives, it is held.  The helper is never parked by a request
\* its live host has forgotten: the host is still dealing with it, or has
\* fenced itself for good.
HoldersAgree ==
    /\ At("published") /\ Alive(borrow.token.helper) =>
          borrow.token \in tokens /\ borrow.request \in helperGate.held
    /\ \A r \in helperGate.held :
          r.host = host => r \in hostGate.held \/ hostGate.permanent

\* A host that dies with a borrow, whatever it was doing, does not leave the
\* helper parked.
DeadHostReaped ==
    \A h \in 1 .. MaxHost :
        host > h ~> \A r \in helperGate.held : r.host # h

\* An attempt to borrow, and the release of a borrow, always come to an end.
BorrowDecided ==
    borrow.step \notin {"idle", "published", "retained"} ~> borrow.step \in {"idle", "published", "retained"}
===============================================================================
