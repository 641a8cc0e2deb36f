----------------------------- MODULE BorrowProofs -----------------------------
(***************************************************************************)
(* A borrowed display stands still, and the host and the helper agree on   *)
(* who holds it, for any number of writers, of requests and connections,   *)
(* and of deaths of either process.                                        *)
(*                                                                         *)
(* Stillness needs the two gates and the mutation mutex only (Still).      *)
(* That the two sides agree needs the pipe between them: a request is used *)
(* once (Numbered); its acquire is in the mailbox once, ahead of its       *)
(* release, and is gone before the helper parks or answers it (Served); a  *)
(* token the host relies on is held unless the helper that gave it died    *)
(* (Relied); and a request that parks the helper is one the live host      *)
(* still deals with (Owned).                                               *)
(*                                                                         *)
(* The lease registry of the host (TargetLease) follows at the end.        *)
(***************************************************************************)
EXTENDS BorrowProtocol, FiniteSetTheorems, WellFoundedInduction, TLAPS

\* A leaf that names no prover is given to Zenon; those that need arithmetic,
\* records or sequences name the SMT solver.
USE ZenonT(60)

\* The frames of the pipe and what comes back on it.
Messages == [type : {"acquire", "release"}, request : Requests,
             token : Tokens \union {NoToken}, epoch : 1 .. MaxEpoch]
Results == [type : {"acquired", "released"}, request : Requests,
            token : Tokens \union {NoToken}, ok : BOOLEAN]

\* TypeOK does not say that the mailbox is a sequence; the proofs need it.
Typed == TypeOK /\ mailbox \in Seq(Messages)

\* The steps at which the host relies on the helper's token, and those at
\* which it has one.
Relying == {"pinning", "locking", "observing", "published"}
Tokened == Relying \union {"releasing", "released", "retained"}

\* Where a request can be found: in the queue of frames q, with the helper as
\* the command it serves or as a token, and among the results.
Sent(q, type, r) == \E i \in DOMAIN q : q[i].type = type /\ q[i].request = r
Parked(r) == serving.request = r \/ Has(r)
Replied(r) == \E m \in replies : m.request = r
Known(r) == Sent(mailbox, "acquire", r) \/ Sent(mailbox, "release", r) \/ Parked(r) \/ Replied(r)

\* The host has drained its own gate before it goes on, and the mutex belongs
\* to the one helper thread that writes or to the host that observes.
Still ==
    /\ borrow.step # "idle" => borrow.request \in hostGate.held
    /\ borrow.step \notin {"idle", "closing"} => hostGate.inside = {}
    /\ mutex.owner = "helper" <=> writing # {}
    /\ \A v, w \in writing : v = w
    /\ borrow.step \in {"observing", "published"} => mutex.owner = "host"

\* A request in use bears the number of its host and one already given away;
\* nothing is known of one before it is sent.
Numbered ==
    /\ borrow.step # "idle" => borrow.request.host = host /\ borrow.request.id < nextId
    /\ borrow.step = "idle" => borrow.request = NoRequest
    /\ borrow.step \in Tokened => /\ borrow.token \in Tokens
                                  /\ borrow.token.request = borrow.request
                                  /\ borrow.token.helper <= helper
    /\ \A r \in Requests : Known(r) => r.host < host \/ (r.host = host /\ r.id < nextId)
    /\ borrow.step \in {"closing", "closed"} => ~Known(borrow.request)

\* An acquire is in the mailbox once, and before the release of its request.
Ordered(q) ==
    \A i, j \in DOMAIN q :
        q[i].request = q[j].request /\ q[j].type = "acquire" /\ i # j => q[i].type = "release" /\ j < i

\* A request passes from the mailbox to the gate and its token and from there
\* to the results; the gate is held for what is parked and nothing else.
Served ==
    /\ Ordered(mailbox)
    /\ \A i \in DOMAIN mailbox : mailbox[i].token # NoToken => mailbox[i].token.request = mailbox[i].request
    /\ \A r \in Requests : Sent(mailbox, "acquire", r) => ~Parked(r) /\ ~Replied(r)
    /\ serving # NotServing => ~Has(serving.request) /\ ~Replied(serving.request)
    /\ \A t, u \in tokens : t.request = u.request => t = u
    /\ \A t \in tokens : t.helper = helper
    /\ \A r \in Requests : r \in helperGate.held <=> Parked(r)
    /\ \A m \in replies : (m.ok <=> m.type = "released") => ~Parked(m.request)

\* The host has the token it relies on as long as the helper that gave it
\* lives, because it alone sends the release.
Relied ==
    /\ Sent(mailbox, "release", borrow.request) => borrow.step \in {"canceled", "released", "retained"}
    /\ \A m \in replies :
          m.type = "acquired" /\ m.ok =>
             /\ m.token \in Tokens /\ m.token.request = m.request /\ m.token.helper = helper
             /\ m.request = borrow.request /\ borrow.step = "asked" => m.token \in tokens
    /\ borrow.step \in Relying /\ borrow.token.helper = helper => borrow.token \in tokens

\* What the live host has asked for it still deals with, or it is fenced.
Owned ==
    \A r \in Requests :
        r.host = host /\ (Sent(mailbox, "acquire", r) \/ Parked(r)) => r \in hostGate.held \/ hostGate.permanent

\* The inductive invariant.
IInv == Typed /\ Still /\ Numbered /\ Served /\ Relied /\ Owned

-------------------------------------------------------------------------------
(* Numbers                                                                 *)

\* A set of naturals has a least element: the order is well-founded.
LEMMA Least ==
    ASSUME NEW T, T \subseteq Nat, T # {}
    PROVE  \E x \in T : \A y \in T : x <= y
<1>1. PICK R : R = {ss \in Nat \X Nat : ss[1] < ss[2]}
  OBVIOUS
<1>2. IsWellFoundedOn(R, Nat)
  BY <1>1, NatLessThanWellFounded, SMTT(60) DEF OpToRel
<1>3. PICK x \in T : \A y \in T : ~(<<y, x>> \in R)
  BY <1>2, WFMin
<1>4. ASSUME NEW y \in T PROVE x <= y
  <2>1. x \in Nat /\ y \in Nat
    OBVIOUS
  <2>2. y < x => <<y, x>> \in R
    BY <1>1, <2>1, SMTT(60)
  <2> QED
    BY <1>3, <2>1, <2>2, SMTT(60)
<1> QED
  BY <1>4

\* So a set of naturals with a bound has a greatest one.
LEMMA Greatest ==
    ASSUME NEW n \in Nat, NEW T, T \subseteq 0 .. n, T # {}
    PROVE  \E x \in T : \A y \in T : y <= x
<1>1. PICK U : U = {n - i : i \in T}
  OBVIOUS
<1>2. U \subseteq Nat
  BY <1>1, SMTT(60)
<1>3. U # {}
  <2>1. PICK i \in T : TRUE
    OBVIOUS
  <2>2. n - i \in U
    BY <1>1
  <2> QED
    BY <2>2
<1>4. PICK u \in U : \A y \in U : u <= y
  BY <1>2, <1>3, Least
<1>5. PICK x \in T : u = n - x
  BY <1>1
<1>6. ASSUME NEW y \in T PROVE y <= x
  <2>1. n - y \in U
    BY <1>1
  <2>2. n - x <= n - y
    BY <1>4, <1>5, <2>1
  <2> QED
    BY <2>2, SMTT(60)
<1> QED
  BY <1>6

-------------------------------------------------------------------------------
(* The gates                                                               *)

\* A release gives up requests and leaves the rest of the gate alone; what it
\* retires is the greatest identifier of each host's.
LEMMA ReleasingFields ==
    ASSUME NEW g \in GateType, NEW R
    PROVE  /\ Releasing(g, R).held = g.held \ R
           /\ Releasing(g, R).inside = g.inside
           /\ Releasing(g, R).permanent = g.permanent
BY SMTT(60) DEF Releasing, GateType

\* So the gate keeps its type.
LEMMA ReleasingType ==
    ASSUME NEW g \in GateType, NEW R, R \subseteq Requests
    PROVE  Releasing(g, R) \in GateType
<1> DEFINE Ids(h) == {r.id : r \in {q \in R : q.host = h}} \union {g.retired[h]}
           Top(h) == CHOOSE i \in Ids(h) : \A j \in Ids(h) : j <= i
<1>1. g.retired \in [1 .. MaxHost -> 0 .. MaxId]
  BY SMTT(60) DEF GateType
<1>2. ASSUME NEW h \in 1 .. MaxHost PROVE Top(h) \in 0 .. MaxId
  <2>1. \A r \in R : r.id \in 0 .. MaxId
    BY BoundsAssumption, SMTT(60) DEF Requests
  <2>2. Ids(h) \subseteq 0 .. MaxId /\ Ids(h) # {}
    BY <1>1, <2>1
  <2> HIDE DEF Ids
  <2>3. \E i \in Ids(h) : \A j \in Ids(h) : j <= i
    BY <2>2, Greatest, BoundsAssumption
  <2>4. Top(h) \in Ids(h)
    BY <2>3
  <2> QED
    BY <2>2, <2>4
<1>3. Releasing(g, R) = [g EXCEPT !.held = @ \ R, !.retired = [h \in 1 .. MaxHost |-> Top(h)]]
  BY <1>1 DEF Releasing
<1> HIDE DEF Top
<1>4. [h \in 1 .. MaxHost |-> Top(h)] \in [1 .. MaxHost -> 0 .. MaxId]
  BY <1>2
<1> QED
  BY <1>3, <1>4 DEF GateType

\* Entering, leaving and closing the gate each move one field.
LEMMA GateFields ==
    ASSUME NEW g \in GateType, NEW w \in HostWriters \union HelperWriters, NEW r \in Requests
    PROVE  /\ Entering(g, w) \in GateType /\ Leaving(g, w) \in GateType /\ Closing(g, r) \in GateType
           /\ Entering(g, w).held = g.held /\ Entering(g, w).permanent = g.permanent
           /\ Leaving(g, w).held = g.held /\ Leaving(g, w).permanent = g.permanent
           /\ Leaving(g, w).inside = g.inside \ {w}
           /\ Closing(g, r).held = g.held \union {r} /\ Closing(g, r).permanent = g.permanent
           /\ Closing(g, r).inside = g.inside
<1>1. Entering(g, w) \in GateType
  BY DEF GateType, Entering
<1>2. Leaving(g, w) \in GateType
  BY DEF GateType, Leaving
<1>3. Closing(g, r) \in GateType
  BY DEF GateType, Closing
<1>4. Entering(g, w).held = g.held /\ Entering(g, w).permanent = g.permanent
  BY DEF GateType, Entering
<1>5. Leaving(g, w).held = g.held /\ Leaving(g, w).permanent = g.permanent /\ Leaving(g, w).inside = g.inside \ {w}
  BY DEF GateType, Leaving
<1>6. /\ Closing(g, r).held = g.held \union {r} /\ Closing(g, r).permanent = g.permanent
      /\ Closing(g, r).inside = g.inside
  BY DEF GateType, Closing
<1> QED
  BY <1>1, <1>2, <1>3, <1>4, <1>5, <1>6

\* A fence is for good, and keeps what is held.
LEMMA FencingFields ==
    ASSUME NEW g \in GateType
    PROVE  /\ Fencing(g) \in GateType /\ Fencing(g).held = g.held
           /\ Fencing(g).inside = g.inside /\ Fencing(g).permanent
<1>1. Fencing(g) \in GateType
  BY DEF GateType, Fencing
<1>2. Fencing(g).held = g.held /\ Fencing(g).inside = g.inside /\ Fencing(g).permanent = TRUE
  BY DEF GateType, Fencing
<1> QED
  BY <1>1, <1>2

-------------------------------------------------------------------------------
(* The mailbox                                                             *)

\* A frame that reaches the mailbox is its last one.  An acquire keeps the
\* order when nothing about its request is there.
LEMMA Appended ==
    ASSUME NEW q \in Seq(Messages), NEW m \in Messages
    PROVE  /\ Append(q, m) \in Seq(Messages)
           /\ \A type, r : Sent(Append(q, m), type, r) <=> Sent(q, type, r) \/ (m.type = type /\ m.request = r)
           /\ /\ Ordered(q)
              /\ m.type = "acquire" => ~Sent(q, "acquire", m.request) /\ ~Sent(q, "release", m.request)
              => Ordered(Append(q, m))
<1>1. PICK a : a = Append(q, m)
  OBVIOUS
<1>2. a \in Seq(Messages) /\ Len(q) \in Nat /\ DOMAIN q = 1 .. Len(q) /\ DOMAIN a = 1 .. Len(q) + 1
  BY <1>1, SMTT(60)
<1>3. a[Len(q) + 1] = m /\ \A i \in DOMAIN q : a[i] = q[i]
  BY <1>1, SMTT(60)
<1>4. \A i \in DOMAIN a : i \in DOMAIN q \/ i = Len(q) + 1
  BY <1>2, SMTT(60)
<1>5. DOMAIN q \subseteq DOMAIN a /\ Len(q) + 1 \in DOMAIN a
  BY <1>2, SMTT(60)
<1>6. \A type, r : Sent(a, type, r) <=> Sent(q, type, r) \/ (m.type = type /\ m.request = r)
  BY <1>3, <1>4, <1>5 DEF Sent
<1>7. ASSUME Ordered(q), m.type = "acquire" => ~Sent(q, "acquire", m.request) /\ ~Sent(q, "release", m.request)
      PROVE  Ordered(a)
  <2> SUFFICES ASSUME NEW i \in DOMAIN a, NEW k \in DOMAIN a,
                      a[i].request = a[k].request, a[k].type = "acquire", i # k
               PROVE  a[i].type = "release" /\ k < i
    BY DEF Ordered
  <2>1. CASE i \in DOMAIN q /\ k \in DOMAIN q
    BY <1>3, <1>7, <2>1 DEF Ordered
  <2>2. CASE i \in DOMAIN q /\ k = Len(q) + 1
    <3>1. m.type = "acquire" /\ q[i].request = m.request
      BY <1>3, <2>2
    <3>2. q[i] \in Messages
      BY <1>2, <2>2, SMTT(60)
    <3>3. q[i].type = "acquire" \/ q[i].type = "release"
      BY <3>2 DEF Messages
    <3> QED
      BY <1>7, <2>2, <3>1, <3>3 DEF Sent
  <2>3. CASE i = Len(q) + 1 /\ k \in DOMAIN q
    <3>1. k < i
      BY <1>2, <2>3, SMTT(60)
    <3>2. q[k].type = "acquire" /\ q[k].request = m.request
      BY <1>3, <2>3
    <3>3. m.type # "acquire"
      BY <1>7, <2>3, <3>2 DEF Sent
    <3>4. m.type = "release"
      BY <3>3, SMTT(60) DEF Messages
    <3> QED
      BY <1>3, <2>3, <3>1, <3>4
  <2> QED
    BY <1>4, <2>1, <2>2, <2>3
<1> QED
  BY <1>1, <1>2, <1>6, <1>7

\* What service() leaves when it takes the first command: no acquire of its
\* request is left, whichever command it was.
LEMMA Taken ==
    ASSUME NEW q \in Seq(Messages), q # <<>>, Ordered(q)
    PROVE  /\ Head(q) \in Messages /\ Tail(q) \in Seq(Messages)
           /\ Head(q) = q[1] /\ 1 \in DOMAIN q
           /\ \A type, r : Sent(Tail(q), type, r) => Sent(q, type, r)
           /\ Sent(q, Head(q).type, Head(q).request)
           /\ ~Sent(Tail(q), "acquire", Head(q).request)
           /\ Ordered(Tail(q))
           /\ \A i \in DOMAIN Tail(q) : \E k \in DOMAIN q : Tail(q)[i] = q[k]
<1>1. PICK b : b = Tail(q)
  OBVIOUS
<1>2. b \in Seq(Messages) /\ Len(q) \in Nat /\ Len(q) > 0 /\ DOMAIN q = 1 .. Len(q)
  BY <1>1, SMTT(60)
<1>3. Head(q) = q[1] /\ 1 \in DOMAIN q
  BY <1>2, SMTT(60)
<1>4. Head(q) \in Messages
  BY <1>2, <1>3, SMTT(60)
<1>5. \A i \in DOMAIN b : i + 1 \in DOMAIN q /\ b[i] = q[i + 1] /\ i \in Nat /\ i + 1 # 1
  BY <1>1, <1>2, SMTT(60)
<1>6. \A i \in DOMAIN b : \E k \in DOMAIN q : b[i] = q[k]
  BY <1>5
<1>7. \A type, r : Sent(b, type, r) => Sent(q, type, r)
  BY <1>6 DEF Sent
<1>8. Sent(q, Head(q).type, Head(q).request)
  BY <1>3 DEF Sent
<1>9. ~Sent(b, "acquire", Head(q).request)
  <2> SUFFICES ASSUME NEW i \in DOMAIN b, b[i].type = "acquire", b[i].request = Head(q).request
               PROVE  FALSE
    BY DEF Sent
  <2>1. i + 1 < 1
    BY <1>3, <1>5 DEF Ordered
  <2> QED
    BY <1>5, <2>1, SMTT(60)
<1>10. Ordered(b)
  <2> SUFFICES ASSUME NEW i \in DOMAIN b, NEW k \in DOMAIN b,
                      b[i].request = b[k].request, b[k].type = "acquire", i # k
               PROVE  b[i].type = "release" /\ k < i
    BY DEF Ordered
  <2>1. i + 1 # k + 1
    BY <1>5, SMTT(60)
  <2>2. q[i + 1].type = "release" /\ k + 1 < i + 1
    BY <1>5, <2>1 DEF Ordered
  <2> QED
    BY <1>5, <2>2, SMTT(60)
<1> QED
  BY <1>1, <1>2, <1>3, <1>4, <1>6, <1>7, <1>8, <1>9, <1>10

-------------------------------------------------------------------------------
(* Types                                                                   *)

\* The types of the records, which TypeOK writes out.
BorrowType == [step : Steps, request : Requests \union {NoRequest}, token : Tokens \union {NoToken}]
MutexType == [owner : {"none", "host", "helper"}, abandoned : BOOLEAN]
ServingType == [request : Requests, epoch : 1 .. MaxEpoch] \union {NotServing}

\* The type of each variable ...
LEMMA TypeParts ==
    ASSUME Typed
    PROVE  /\ host \in 1 .. MaxHost /\ helper \in 1 .. MaxHelper
           /\ hostGate \in GateType /\ helperGate \in GateType
           /\ nextId \in 1 .. MaxId + 1 /\ borrow \in BorrowType
           /\ conn \in 0 .. MaxEpoch /\ epochs \in 0 .. MaxEpoch
           /\ mailbox \in Seq(Messages) /\ tokens \subseteq Tokens /\ serving \in ServingType
           /\ replies \subseteq Results /\ mutex \in MutexType /\ writing \subseteq HelperWriters
BY DEF Typed, TypeOK, BorrowType, Messages, Results, MutexType, ServingType

\* ... and the converse, after a step.
LEMMA TypeFrom ==
    ASSUME host' \in 1 .. MaxHost, helper' \in 1 .. MaxHelper, hostGate' \in GateType, helperGate' \in GateType,
           nextId' \in 1 .. MaxId + 1, borrow' \in BorrowType,
           conn' \in 0 .. MaxEpoch, epochs' \in 0 .. MaxEpoch,
           mailbox' \in Seq(Messages), tokens' \subseteq Tokens, serving' \in ServingType,
           replies' \subseteq Results, mutex' \in MutexType, writing' \subseteq HelperWriters
    PROVE  Typed'
<1>1. \A i \in DOMAIN mailbox' : mailbox'[i] \in Messages
  BY SMTT(60)
<1> QED
  BY <1>1 DEF Typed, TypeOK, BorrowType, Messages, Results, MutexType, ServingType

\* No request of a frame, a token or a result is the absent one.
LEMMA NoRequestIsNone == NoRequest \notin Requests
BY SMTT(60) DEF NoRequest, Requests

\* Frames, results and tokens are of requests.
LEMMA RequestsKnown ==
    ASSUME Typed
    PROVE  /\ \A type, r : Sent(mailbox, type, r) => r \in Requests
           /\ \A m \in replies : m.request \in Requests
           /\ \A t \in tokens : t.request \in Requests
<1>1. ASSUME NEW i \in DOMAIN mailbox PROVE mailbox[i].request \in Requests
  <2>1. mailbox[i] \in Messages
    BY TypeParts, SMTT(60)
  <2> QED
    BY <2>1 DEF Messages
<1>2. \A m \in replies : m.request \in Requests
  BY TypeParts DEF Results
<1>3. \A t \in tokens : t.request \in Requests
  BY TypeParts DEF Tokens
<1> QED
  BY <1>1, <1>2, <1>3 DEF Sent

\* Goto moves the step of the borrow and nothing else.
LEMMA Gone ==
    ASSUME NEW s \in Steps, borrow \in BorrowType, Goto(s)
    PROVE  /\ borrow' \in BorrowType /\ borrow'.step = s
           /\ borrow'.request = borrow.request /\ borrow'.token = borrow.token
<1>1. borrow' = [borrow EXCEPT !.step = s]
  BY DEF Goto
<1>2. borrow' \in BorrowType
  BY <1>1 DEF BorrowType
<1>3. borrow'.step = s /\ borrow'.request = borrow.request /\ borrow'.token = borrow.token
  BY <1>1 DEF BorrowType
<1> QED
  BY <1>2, <1>3

-------------------------------------------------------------------------------
(* Steps the helper takes no part in                                       *)

\* What the helper holds is left alone; results may get lost.
LEMMA PeerKept ==
    ASSUME IInv, UNCHANGED <<mailbox, tokens, serving, helper>>, helperGate'.held = helperGate.held,
           replies' \subseteq replies
    PROVE  /\ Served'
           /\ \A r : Known(r)' => Known(r)
           /\ \A r : Parked(r)' <=> Parked(r)
<1>1. \A r : Parked(r)' <=> Parked(r)
  BY DEF Parked, Has
<1>2. \A r : Replied(r)' => Replied(r)
  BY DEF Replied
<1>3. \A type, r : Sent(mailbox, type, r)' <=> Sent(mailbox, type, r)
  BY DEF Sent
<1>4. \A r : Known(r)' => Known(r)
  BY <1>1, <1>2, <1>3 DEF Known
<1>5. Served'
  BY <1>1, <1>2, <1>3 DEF IInv, Served, Ordered, Has
<1> QED
  BY <1>1, <1>4, <1>5

\* The host moves on without a frame: the invariant holds on when the new step
\* relies on no more than the old one.
LEMMA PeerStep ==
    ASSUME IInv, Typed', Still', UNCHANGED <<host, nextId, mailbox, tokens, serving, helper>>,
           helperGate'.held = helperGate.held, replies' \subseteq replies,
           hostGate'.held = hostGate.held, hostGate.permanent => hostGate'.permanent,
           borrow'.request = borrow.request, borrow'.token = borrow.token,
           borrow'.step = "idle" <=> borrow.step = "idle",
           borrow'.step \in {"closing", "closed"} => borrow.step \in {"closing", "closed"},
           borrow'.step \in Relying => borrow.step \in Relying,
           borrow'.step \in Tokened => borrow.step \in Tokened,
           borrow'.step = "asked" => borrow.step = "asked" \/ replies' = {},
           borrow.step \in {"canceled", "released", "retained"} => borrow'.step \in {"canceled", "released", "retained"}
    PROVE  IInv'
<1>1. Served' /\ (\A r : Known(r)' => Known(r)) /\ (\A r : Parked(r)' <=> Parked(r))
  BY PeerKept
<1>2. \A type, r : Sent(mailbox, type, r)' <=> Sent(mailbox, type, r)
  BY DEF Sent
<1>3. Numbered'
  <2>1. borrow'.step # "idle" => borrow'.request.host = host' /\ borrow'.request.id < nextId'
    BY DEF IInv, Numbered
  <2>2. borrow'.step = "idle" => borrow'.request = NoRequest
    BY DEF IInv, Numbered
  <2>3. borrow'.step \in Tokened => /\ borrow'.token \in Tokens
                                    /\ borrow'.token.request = borrow'.request
                                    /\ borrow'.token.helper <= helper'
    BY DEF IInv, Numbered
  <2>4. \A r \in Requests : Known(r)' => r.host < host' \/ (r.host = host' /\ r.id < nextId')
    BY <1>1 DEF IInv, Numbered
  <2>5. borrow'.step \in {"closing", "closed"} => ~Known(borrow.request)'
    BY <1>1 DEF IInv, Numbered
  <2> QED
    BY <2>1, <2>2, <2>3, <2>4, <2>5 DEF Numbered, Known, Parked, Replied, Sent, Has
<1>4. Relied'
  <2>1. Sent(mailbox, "release", borrow.request)' => borrow'.step \in {"canceled", "released", "retained"}
    BY <1>2 DEF IInv, Relied
  <2>2. ASSUME NEW m \in replies', m.type = "acquired", m.ok
        PROVE  /\ m.token \in Tokens /\ m.token.request = m.request /\ m.token.helper = helper'
               /\ m.request = borrow'.request /\ borrow'.step = "asked" => m.token \in tokens'
    BY <2>2 DEF IInv, Relied
  <2>3. borrow'.step \in Relying /\ borrow'.token.helper = helper' => borrow'.token \in tokens'
    BY DEF IInv, Relied
  <2> QED
    BY <2>1, <2>2, <2>3 DEF Relied
<1>5. Owned'
  BY <1>1, <1>2 DEF IInv, Owned
<1> QED
  BY <1>1, <1>3, <1>4, <1>5 DEF IInv

\* Threads of either process enter their gate and write only while it is open.
LEMMA WriterStep == IInv /\ Writers => IInv'
<1> SUFFICES ASSUME IInv, Writers
             PROVE  IInv'
  OBVIOUS
<1>T. /\ hostGate \in GateType /\ helperGate \in GateType /\ mutex \in MutexType
      /\ writing \subseteq HelperWriters
  BY TypeParts DEF IInv
<1>Kept. ASSUME UNCHANGED <<host, nextId, borrow, pipeVars, helper, mailbox, tokens, serving>>,
                hostGate' \in GateType, hostGate'.held = hostGate.held, hostGate'.permanent = hostGate.permanent,
                helperGate' \in GateType, helperGate'.held = helperGate.held,
                mutex' \in MutexType, writing' \subseteq HelperWriters, Still'
         PROVE  IInv'
  <2> USE <1>Kept
  <2>1. Typed'
    BY TypeParts, TypeFrom DEF IInv, pipeVars
  <2> QED
    BY <2>1, PeerStep DEF pipeVars
<1>1. ASSUME NEW w \in HostWriters, HostWrite(w) PROVE IInv'
  <2>1. hostGate' = Entering(hostGate, w) /\ UNCHANGED <<host, nextId, borrow, pipeVars, helperVars, mutex>>
    BY <1>1 DEF HostWrite
  <2>2. hostGate' \in GateType /\ hostGate'.held = hostGate.held /\ hostGate'.permanent = hostGate.permanent
    <3>1. w \in HostWriters \union HelperWriters
      OBVIOUS
    <3> QED
      BY <1>T, <2>1, <3>1, GateFields DEF Entering, GateType
  <2>3. hostGate.held = {}
    BY <1>1 DEF HostWrite, Inhibited
  <2>4. Still'
    BY <2>1, <2>2, <2>3 DEF IInv, Still, helperVars
  <2> QED
    BY <1>T, <1>Kept, <2>1, <2>2, <2>4 DEF helperVars
<1>2. ASSUME NEW w \in HostWriters, HostWritten(w) PROVE IInv'
  <2>1. hostGate' = Leaving(hostGate, w) /\ UNCHANGED <<host, nextId, borrow, pipeVars, helperVars, mutex>>
    BY <1>2 DEF HostWritten
  <2>2. /\ hostGate' \in GateType /\ hostGate'.held = hostGate.held /\ hostGate'.permanent = hostGate.permanent
        /\ hostGate'.inside = hostGate.inside \ {w}
    BY <1>T, <2>1 DEF Leaving, GateType
  <2>4. Still'
    BY <2>1, <2>2 DEF IInv, Still, helperVars
  <2> QED
    BY <1>T, <1>Kept, <2>1, <2>2, <2>4 DEF helperVars
<1>3. ASSUME NEW w \in HelperWriters, WriterEnter(w) \/ WriterYield(w) PROVE IInv'
  <2>1. /\ helperGate' = Entering(helperGate, w) \/ helperGate' = Leaving(helperGate, w)
        /\ UNCHANGED <<hostVars, pipeVars, helper, mailbox, tokens, serving, writing, mutex>>
    BY <1>3 DEF WriterEnter, WriterYield
  <2>2. helperGate' \in GateType /\ helperGate'.held = helperGate.held
    BY <1>T, <2>1 DEF Entering, Leaving, GateType
  <2>4. Still'
    BY <2>1 DEF IInv, Still, hostVars
  <2> QED
    BY <1>T, <1>Kept, <2>1, <2>2, <2>4 DEF hostVars
<1>4. ASSUME NEW w \in HelperWriters, WriterLock(w) PROVE IInv'
  <2>1. /\ mutex.owner = "none" /\ mutex' = [owner |-> "helper", abandoned |-> FALSE]
        /\ writing' = writing \union {w}
        /\ UNCHANGED <<hostVars, pipeVars, helper, helperGate, mailbox, tokens, serving>>
    BY <1>4 DEF WriterLock
  <2>2. mutex' \in MutexType /\ mutex'.owner = "helper"
    BY <2>1 DEF MutexType
  <2>3. writing = {} /\ borrow.step \notin {"observing", "published"}
    BY <2>1 DEF IInv, Still
  <2>4. Still'
    BY <2>1, <2>2, <2>3 DEF IInv, Still, hostVars
  <2> QED
    BY <1>T, <1>Kept, <2>1, <2>2, <2>4 DEF hostVars
<1>5. ASSUME NEW w \in HelperWriters, WriterDone(w) PROVE IInv'
  <2>1. /\ w \in writing /\ mutex' = [mutex EXCEPT !.owner = "none"] /\ writing' = writing \ {w}
        /\ helperGate' = Leaving(helperGate, w)
        /\ UNCHANGED <<hostVars, pipeVars, helper, mailbox, tokens, serving>>
    BY <1>5 DEF WriterDone
  <2>2. helperGate' \in GateType /\ helperGate'.held = helperGate.held
    BY <1>T, <2>1 DEF Leaving, GateType
  <2>3. mutex' \in MutexType /\ mutex'.owner = "none"
    BY <1>T, <2>1 DEF MutexType
  <2>4. mutex.owner = "helper" /\ writing' = {}
    BY <2>1 DEF IInv, Still
  <2>5. borrow.step \notin {"observing", "published"}
    BY <2>4 DEF IInv, Still
  <2>6. Still'
    BY <2>1, <2>3, <2>4, <2>5 DEF IInv, Still, hostVars
  <2> QED
    BY <1>T, <1>Kept, <2>1, <2>2, <2>3, <2>4, <2>6 DEF hostVars
<1> QED
  BY <1>1, <1>2, <1>3, <1>4, <1>5 DEF Writers

\* A connection comes or goes; results that are on their way may be lost.
LEMMA PipeStep == IInv /\ (Connect \/ Disconnect \/ UNCHANGED vars) => IInv'
<1> SUFFICES ASSUME IInv, Connect \/ Disconnect \/ UNCHANGED vars
             PROVE  IInv'
  OBVIOUS
<1>1. /\ UNCHANGED <<hostVars, helperVars, mutex>> /\ replies' \subseteq replies
      /\ conn' \in 0 .. MaxEpoch /\ epochs' \in 0 .. MaxEpoch
  <2>1. CASE Connect
    BY <2>1, TypeParts, BoundsAssumption, SMTT(60) DEF IInv, Connect
  <2>2. CASE Disconnect
    BY <2>2, TypeParts, BoundsAssumption, SMTT(60) DEF IInv, Disconnect
  <2>3. CASE UNCHANGED vars
    BY <2>3, TypeParts DEF IInv, vars, pipeVars
  <2> QED
    BY <2>1, <2>2, <2>3
<1>2. Typed'
  BY <1>1, TypeParts, TypeFrom DEF IInv, hostVars, helperVars
<1>3. Still'
  BY <1>1 DEF IInv, Still, hostVars, helperVars
<1> QED
  BY <1>1, <1>2, <1>3, PeerStep DEF hostVars, helperVars

-------------------------------------------------------------------------------
(* Steps of the host                                                       *)

\* A step of an attempt or of a hold that sends nothing, or that breaks the
\* connection in sending.
LEMMA HostGoes ==
    ASSUME IInv, NEW s \in Steps \ {"idle", "closing"}, Goto(s), borrow.step # "idle", hostGate.inside = {},
           UNCHANGED <<host, nextId, helperVars>>,
           conn' \in 0 .. MaxEpoch, epochs' \in 0 .. MaxEpoch, replies' \subseteq replies,
           hostGate' = hostGate \/ Unknown,
           mutex' \in MutexType, mutex'.owner = "helper" <=> mutex.owner = "helper",
           s \in {"observing", "published"} => mutex'.owner = "host",
           s = "closed" => borrow.step = "closing",
           s \in Relying => borrow.step \in Relying,
           s \in Tokened => borrow.step \in Tokened,
           s = "asked" => replies' = {},
           borrow.step \in {"canceled", "released", "retained"} => s \in {"canceled", "released", "retained"}
    PROVE  IInv'
<1>T. borrow \in BorrowType /\ hostGate \in GateType /\ replies \subseteq Results
  BY TypeParts DEF IInv
<1>1. /\ borrow' \in BorrowType /\ borrow'.step = s
      /\ borrow'.request = borrow.request /\ borrow'.token = borrow.token
  BY <1>T, Gone
<1>2. /\ hostGate' \in GateType /\ hostGate'.held = hostGate.held /\ hostGate'.inside = hostGate.inside
      /\ hostGate.permanent => hostGate'.permanent
  BY <1>T, FencingFields DEF Unknown
<1>3. Typed'
  BY <1>1, <1>2, TypeParts, TypeFrom DEF IInv, helperVars
<1>4. Still'
  BY <1>1, <1>2 DEF IInv, Still, helperVars
<1> QED
  BY <1>1, <1>2, <1>3, <1>4, PeerStep DEF helperVars

\* The borrow ends: its request is nowhere left, or the host is fenced.
LEMMA HostIdle ==
    ASSUME IInv, borrow' = NoBorrow, UNCHANGED <<host, nextId, pipeVars, helperVars>>,
           mutex' \in MutexType, mutex'.owner = "helper" <=> mutex.owner = "helper",
           \/ Unknown
           \/ /\ hostGate' = Releasing(hostGate, {borrow.request}) /\ borrow.request \in Requests
              /\ ~Sent(mailbox, "acquire", borrow.request) /\ ~Parked(borrow.request)
    PROVE  IInv'
<1>T. hostGate \in GateType
  BY TypeParts DEF IInv
<1>1. borrow' \in BorrowType /\ borrow'.step = "idle" /\ borrow'.request = NoRequest
  BY DEF NoBorrow, BorrowType, Steps
<1>2. hostGate' \in GateType
  BY <1>T, FencingFields, ReleasingType DEF Unknown
<1>3. Typed'
  BY <1>1, <1>2, TypeParts, TypeFrom DEF IInv, pipeVars, helperVars
<1>4. Still'
  BY <1>1 DEF IInv, Still, helperVars
<1>5. Served' /\ (\A r : Known(r)' => Known(r)) /\ (\A r : Parked(r)' <=> Parked(r))
  BY PeerKept DEF pipeVars, helperVars
<1>6. \A type, r : Sent(mailbox, type, r)' <=> Sent(mailbox, type, r)
  BY DEF Sent, helperVars
<1>7. Numbered'
  <2>1. \A r \in Requests : Known(r)' => r.host < host' \/ (r.host = host' /\ r.id < nextId')
    BY <1>5 DEF IInv, Numbered
  <2>2. borrow'.step \notin Tokened /\ borrow'.step \notin {"closing", "closed"}
    BY <1>1 DEF Tokened, Relying
  <2> QED
    BY <1>1, <2>1, <2>2 DEF Numbered
<1>8. Relied'
  <2>1. ~Sent(mailbox, "release", borrow.request)'
    BY <1>1, <1>6, RequestsKnown, NoRequestIsNone DEF IInv, Sent, helperVars
  <2>2. borrow'.step # "asked" /\ borrow'.step \notin Relying
    BY <1>1 DEF Relying
  <2>3. ASSUME NEW m \in replies', m.type = "acquired", m.ok
        PROVE  m.token \in Tokens /\ m.token.request = m.request /\ m.token.helper = helper'
    BY <2>3 DEF IInv, Relied, pipeVars, helperVars
  <2> QED
    BY <2>1, <2>2, <2>3 DEF Relied
<1>9. Owned'
  <2>1. CASE Unknown
    <3>1. hostGate'.permanent
      BY <1>T, <2>1, FencingFields DEF Unknown
    <3> QED
      BY <3>1 DEF Owned
  <2>2. CASE /\ hostGate' = Releasing(hostGate, {borrow.request})
             /\ ~Sent(mailbox, "acquire", borrow.request) /\ ~Parked(borrow.request)
    <3>1. hostGate'.held = hostGate.held \ {borrow.request} /\ hostGate'.permanent = hostGate.permanent
      BY <1>T, <2>2, ReleasingFields
    <3> QED
      BY <1>5, <1>6, <2>2, <3>1 DEF IInv, Owned
  <2> QED
    BY <2>1, <2>2
<1> QED
  BY <1>3, <1>4, <1>5, <1>7, <1>8, <1>9 DEF IInv

\* A frame about the borrow reaches the mailbox.
LEMMA HostSends ==
    ASSUME IInv, NEW s \in {"asked", "canceled", "released"}, Goto(s), borrow.step \notin {"idle", "closing"},
           NEW m \in Messages, mailbox' = Append(mailbox, m), m.request = borrow.request,
           m.token # NoToken => m.token.request = m.request,
           m.type = "acquire" <=> s = "asked",
           s = "asked" => borrow.step = "closed",
           s = "released" => borrow.step \in Tokened,
           UNCHANGED <<host, hostGate, nextId, pipeVars, helper, helperGate, tokens, serving, writing, mutex>>
    PROVE  IInv'
<1>T. borrow \in BorrowType /\ mailbox \in Seq(Messages)
  BY TypeParts DEF IInv
<1>1. /\ borrow' \in BorrowType /\ borrow'.step = s
      /\ borrow'.request = borrow.request /\ borrow'.token = borrow.token
  BY <1>T, Gone DEF Steps
<1>2. /\ mailbox' \in Seq(Messages)
      /\ \A type, r : Sent(mailbox, type, r)' <=> Sent(mailbox, type, r) \/ (m.type = type /\ m.request = r)
  <2>1. /\ mailbox' \in Seq(Messages)
        /\ \A type, r : Sent(mailbox', type, r) <=> Sent(mailbox, type, r) \/ (m.type = type /\ m.request = r)
    BY <1>T, Appended
  <2> QED
    BY <2>1 DEF Sent
<1>3. m.type = "acquire" => ~Known(m.request)
  BY DEF IInv, Numbered
<1>4. Ordered(mailbox')
  BY <1>T, <1>3, Appended DEF IInv, Served, Known
<1>5. Typed'
  BY <1>1, <1>2, TypeParts, TypeFrom DEF IInv, pipeVars
<1>6. Still'
  BY <1>1 DEF IInv, Still
<1>7. (\A r : Parked(r)' <=> Parked(r)) /\ (\A r : Replied(r)' <=> Replied(r))
  BY DEF Parked, Has, Replied, pipeVars
<1>8. borrow.request \in Requests /\ borrow.request.host = host /\ borrow.request.id < nextId
  <2>1. borrow.request \in hostGate.held
    BY DEF IInv, Still
  <2>2. hostGate.held \subseteq Requests
    BY TypeParts DEF IInv, GateType
  <2> QED
    BY <2>1, <2>2 DEF IInv, Numbered
<1>9. Numbered'
  <2>1. ASSUME NEW r \in Requests, Known(r)' PROVE r.host < host' \/ (r.host = host' /\ r.id < nextId')
    <3>1. Known(r) \/ r = borrow.request
      BY <1>2, <1>7, <2>1 DEF Known
    <3> QED
      BY <1>8, <3>1 DEF IInv, Numbered
  <2>2. borrow'.step # "idle" /\ borrow'.step \notin {"closing", "closed"}
    BY <1>1
  <2>3. borrow'.step \in Tokened => borrow.step \in Tokened
    BY <1>1 DEF Tokened, Relying
  <2> QED
    BY <1>1, <1>8, <2>1, <2>2, <2>3 DEF IInv, Numbered
<1>10. Served'
  <2>1. \A i \in DOMAIN mailbox' : mailbox'[i].token # NoToken => mailbox'[i].token.request = mailbox'[i].request
    <3>1. \A i \in DOMAIN mailbox' : mailbox'[i] = m \/ (i \in DOMAIN mailbox /\ mailbox'[i] = mailbox[i])
      BY <1>T, SMTT(60)
    <3> QED
      BY <3>1 DEF IInv, Served
  <2>2. \A r \in Requests : Sent(mailbox, "acquire", r)' => ~Parked(r)' /\ ~Replied(r)'
    BY <1>2, <1>3, <1>7 DEF IInv, Served, Known
  <2>3. serving' # NotServing => ~Has(serving.request)' /\ ~Replied(serving.request)'
    BY <1>7 DEF IInv, Served, Has, Replied, pipeVars
  <2>4. \A t, u \in tokens' : t.request = u.request => t = u
    BY DEF IInv, Served
  <2>5. \A t \in tokens' : t.helper = helper'
    BY DEF IInv, Served
  <2>6. \A r \in Requests : r \in helperGate'.held <=> Parked(r)'
    BY <1>7 DEF IInv, Served
  <2>7. \A x \in replies' : (x.ok <=> x.type = "released") => ~Parked(x.request)'
    BY <1>7 DEF IInv, Served, pipeVars
  <2> QED
    BY <1>4, <2>1, <2>2, <2>3, <2>4, <2>5, <2>6, <2>7 DEF Served, Ordered, Has, Replied, Parked
<1>11. Relied'
  <2>1. Sent(mailbox, "release", borrow.request)' => borrow'.step \in {"canceled", "released", "retained"}
    <3>1. CASE s = "asked"
      <4>1. ~Sent(mailbox, "release", borrow.request) /\ m.type # "release"
        BY <1>3, <3>1 DEF Known
      <4>2. PICK r : r = borrow.request
        OBVIOUS
      <4>3. ~Sent(mailbox, "release", r)'
        BY <1>2, <4>1, <4>2
      <4> QED
        BY <1>1, <4>2, <4>3 DEF Sent
    <3> QED
      BY <1>1, <3>1
  <2>2. ASSUME NEW x \in replies', x.type = "acquired", x.ok
        PROVE  /\ x.token \in Tokens /\ x.token.request = x.request /\ x.token.helper = helper'
               /\ x.request = borrow'.request /\ borrow'.step = "asked" => x.token \in tokens'
    <3>1. s = "asked" => ~Replied(borrow.request)
      BY <1>3 DEF Known
    <3> QED
      BY <1>1, <2>2, <3>1 DEF IInv, Relied, Replied, pipeVars
  <2>3. borrow'.step \notin Relying
    BY <1>1 DEF Relying
  <2> QED
    BY <2>1, <2>2, <2>3 DEF Relied
<1>12. Owned'
  <2>1. borrow.request \in hostGate.held
    BY DEF IInv, Still
  <2> QED
    BY <1>2, <1>7, <2>1 DEF IInv, Owned
<1> QED
  BY <1>5, <1>6, <1>9, <1>10, <1>11, <1>12 DEF IInv

\* ObserveBegin names a request nothing has been said about.
LEMMA BeginStep == IInv /\ ObserveBegin => IInv'
<1> SUFFICES ASSUME IInv, ObserveBegin
             PROVE  IInv'
  OBVIOUS
<1>T. /\ hostGate \in GateType /\ host \in 1 .. MaxHost /\ nextId \in 1 .. MaxId + 1
      /\ borrow \in BorrowType
  BY TypeParts DEF IInv
<1>1. PICK r : r = [host |-> host, id |-> nextId]
  OBVIOUS
<1>2. /\ borrow.step = "idle" /\ nextId <= MaxId /\ nextId' = nextId + 1 /\ hostGate' = Closing(hostGate, r)
      /\ borrow' = [NoBorrow EXCEPT !.step = "closing", !.request = r]
      /\ UNCHANGED <<host, pipeVars, helperVars, mutex>>
  BY <1>1 DEF ObserveBegin, At
<1>3. r \in Requests /\ r.host = host /\ r.id = nextId
  BY <1>1, <1>2, <1>T, BoundsAssumption, SMTT(60) DEF Requests
<1>4. nextId' \in 1 .. MaxId + 1 /\ nextId < nextId' /\ \A i \in Nat : i < nextId => i < nextId'
  BY <1>2, <1>T, BoundsAssumption, SMTT(60)
<1>5. borrow' \in BorrowType /\ borrow'.step = "closing" /\ borrow'.request = r
  BY <1>2, <1>3 DEF NoBorrow, BorrowType, Steps
<1>6. /\ hostGate' \in GateType /\ hostGate'.held = hostGate.held \union {r}
      /\ hostGate'.permanent = hostGate.permanent
  BY <1>2, <1>3, <1>T DEF Closing, GateType
<1>7. Typed'
  BY <1>2, <1>4, <1>5, <1>6, TypeParts, TypeFrom DEF IInv, pipeVars, helperVars
<1>8. Still'
  BY <1>2, <1>5, <1>6 DEF IInv, Still, helperVars
<1>9. Served' /\ (\A x : Known(x)' => Known(x)) /\ (\A x : Parked(x)' <=> Parked(x))
  BY <1>2, PeerKept DEF pipeVars, helperVars
<1>10. \A type, x : Sent(mailbox, type, x)' <=> Sent(mailbox, type, x)
  BY <1>2 DEF Sent, helperVars
<1>11. ~Known(r)
  <2>1. ~(r.host < host) /\ ~(r.id < nextId)
    BY <1>3, <1>T, SMTT(60)
  <2> QED
    BY <1>3, <2>1 DEF IInv, Numbered
<1>12. Numbered'
  <2>1. ASSUME NEW x \in Requests, Known(x)' PROVE x.host < host' \/ (x.host = host' /\ x.id < nextId')
    <3>1. x.id \in Nat
      BY SMTT(60) DEF Requests
    <3> QED
      BY <1>2, <1>4, <1>9, <2>1, <3>1 DEF IInv, Numbered
  <2>2. ~Known(borrow.request)'
    <3>1. ~Known(r)'
      BY <1>9, <1>11
    <3> QED
      BY <1>5, <3>1 DEF Known, Sent, Parked, Has, Replied
  <2>3. borrow'.step \notin Tokened
    BY <1>5 DEF Tokened, Relying
  <2> QED
    BY <1>2, <1>3, <1>4, <1>5, <2>1, <2>2, <2>3 DEF Numbered
<1>13. Relied'
  <2>1. ~Sent(mailbox, "release", borrow.request)'
    <3>1. ~Sent(mailbox, "release", r)'
      BY <1>10, <1>11 DEF Known
    <3> QED
      BY <1>5, <3>1 DEF Sent
  <2>2. borrow'.step # "asked" /\ borrow'.step \notin Relying
    BY <1>5 DEF Relying
  <2>3. ASSUME NEW m \in replies', m.type = "acquired", m.ok
        PROVE  m.token \in Tokens /\ m.token.request = m.request /\ m.token.helper = helper'
    BY <1>2, <2>3 DEF IInv, Relied, pipeVars, helperVars
  <2> QED
    BY <2>1, <2>2, <2>3 DEF Relied
<1>14. Owned'
  BY <1>2, <1>6, <1>9, <1>10 DEF IInv, Owned
<1> QED
  BY <1>7, <1>8, <1>9, <1>12, <1>13, <1>14 DEF IInv

\* The acknowledgement's token is the one the helper holds.
LEMMA AcknowledgedStep == IInv /\ Acknowledged => IInv'
<1> SUFFICES ASSUME IInv, Acknowledged
             PROVE  IInv'
  OBVIOUS
<1>T. borrow \in BorrowType /\ replies \subseteq Results /\ helper \in 1 .. MaxHelper
  BY TypeParts DEF IInv
<1>1. PICK m \in replies : /\ m.type = "acquired" /\ m.request = borrow.request /\ m.ok
                           /\ borrow' = [borrow EXCEPT !.step = "pinning", !.token = m.token]
  BY DEF Acknowledged
<1>2. borrow.step = "asked" /\ UNCHANGED <<host, hostGate, nextId, pipeVars, helperVars, mutex>>
  BY DEF Acknowledged, At
<1>3. /\ m.token \in Tokens /\ m.token.request = borrow.request /\ m.token.helper = helper
      /\ m.token \in tokens
  BY <1>1, <1>2 DEF IInv, Relied
<1>4. /\ borrow' \in BorrowType /\ borrow'.step = "pinning" /\ borrow'.request = borrow.request
      /\ borrow'.token = m.token
  BY <1>1, <1>3, <1>T DEF BorrowType, Steps
<1>5. Typed'
  BY <1>2, <1>4, TypeParts, TypeFrom DEF IInv, pipeVars, helperVars
<1>6. Still'
  BY <1>2, <1>4 DEF IInv, Still, helperVars
<1>7. Served' /\ (\A x : Known(x)' => Known(x)) /\ (\A x : Parked(x)' <=> Parked(x))
  BY <1>2, PeerKept DEF pipeVars, helperVars
<1>8. \A type, x : Sent(mailbox, type, x)' <=> Sent(mailbox, type, x)
  BY <1>2 DEF Sent, helperVars
<1>9. Numbered'
  <2>1. helper <= helper
    BY <1>T, SMTT(60)
  <2> QED
    BY <1>2, <1>3, <1>4, <1>7, <2>1 DEF IInv, Numbered, helperVars
<1>10. Relied'
  <2>1. ~Sent(mailbox, "release", borrow.request)'
    BY <1>2, <1>4 DEF IInv, Relied, Sent, helperVars
  <2>2. ASSUME NEW x \in replies', x.type = "acquired", x.ok
        PROVE  x.token \in Tokens /\ x.token.request = x.request /\ x.token.helper = helper'
    BY <1>2, <2>2 DEF IInv, Relied, pipeVars, helperVars
  <2> QED
    BY <1>2, <1>3, <1>4, <2>1, <2>2 DEF Relied, helperVars
<1>11. Owned'
  BY <1>2, <1>7, <1>8 DEF IInv, Owned
<1> QED
  BY <1>5, <1>6, <1>7, <1>9, <1>10, <1>11 DEF IInv

\* A frame is written by the host: it arrives, or the connection breaks.
LEMMA WriteStep ==
    ASSUME IInv, NEW s \in {"asked", "canceled", "released"}, Goto(s), borrow.step \notin {"idle", "closing"},
           NEW type \in {"acquire", "release"}, NEW t \in Tokens \union {NoToken},
           t # NoToken => t.request = borrow.request,
           Write([type |-> type, request |-> borrow.request, token |-> t, epoch |-> conn]),
           type = "acquire" <=> s = "asked",
           s = "asked" => borrow.step = "closed",
           s = "canceled" => borrow.step = "canceling",
           s = "released" => borrow.step = "releasing",
           UNCHANGED <<host, hostGate, nextId, helper, helperGate, tokens, serving, writing, mutex>>
    PROVE  IInv'
<1>T. /\ conn \in 0 .. MaxEpoch /\ epochs \in 0 .. MaxEpoch /\ mutex \in MutexType
      /\ borrow \in BorrowType /\ hostGate \in GateType
  BY TypeParts DEF IInv
<1>1. PICK m : m = [type |-> type, request |-> borrow.request, token |-> t, epoch |-> conn]
  OBVIOUS
<1>2. conn # 0 /\ UNCHANGED epochs
  BY DEF Write
<1>3. CASE mailbox' = Append(mailbox, m) /\ UNCHANGED <<conn, replies>>
  <2>1. conn \in 1 .. MaxEpoch
    BY <1>2, <1>T, BoundsAssumption, SMTT(60)
  <2>2. borrow.request \in hostGate.held
    BY DEF IInv, Still
  <2>3. borrow.request \in Requests
    BY <1>T, <2>2 DEF GateType
  <2>4. m.type = type /\ m.request = borrow.request /\ m.token = t
    BY <1>1
  <2>5. m \in Messages
    BY <1>1, <2>1, <2>3 DEF Messages
  <2>6. m.token # NoToken => m.token.request = m.request
    BY <2>4
  <2>7. m.type = "acquire" <=> s = "asked"
    BY <2>4
  <2>8. s = "released" => borrow.step \in Tokened
    BY DEF Tokened
  <2> QED
    BY <1>2, <1>3, <2>4, <2>5, <2>6, <2>7, <2>8, HostSends DEF pipeVars
<1>4. CASE conn' = 0 /\ replies' = {} /\ UNCHANGED mailbox
  <2>1. conn' \in 0 .. MaxEpoch
    BY <1>4, BoundsAssumption, SMTT(60)
  <2>2. hostGate.inside = {}
    BY DEF IInv, Still
  <2>3. s \in Steps \ {"idle", "closing"} /\ s \notin {"observing", "published"} /\ s # "closed" /\ s \notin Relying
    BY DEF Steps, Relying
  <2>4. s \in Tokened => borrow.step \in Tokened
    BY DEF Tokened, Relying
  <2>5. borrow.step \notin {"canceled", "released", "retained"}
    OBVIOUS
  <2> QED
    BY <1>2, <1>4, <1>T, <2>1, <2>2, <2>3, <2>4, <2>5, HostGoes DEF helperVars
<1> QED
  BY <1>1, <1>3, <1>4 DEF Write

\* Every step of consumer_t and of ~context_hold_t
LEMMA ConsumerStep == IInv /\ (Consumer \/ ReobserveLost \/ DropLease) => IInv'
<1> SUFFICES ASSUME IInv, Consumer \/ ReobserveLost \/ DropLease
             PROVE  IInv'
  OBVIOUS
<1>T. /\ conn \in 0 .. MaxEpoch /\ epochs \in 0 .. MaxEpoch /\ mutex \in MutexType
      /\ borrow \in BorrowType /\ hostGate \in GateType
  BY TypeParts DEF IInv
<1>R. borrow.step # "idle" => borrow.request \in Requests
  BY <1>T DEF IInv, Still, GateType
<1>H. borrow.step \notin {"idle", "closing"} => hostGate.inside = {}
  BY DEF IInv, Still
<1>Quiet. ASSUME NEW s \in Steps \ {"idle", "closing", "asked"}, Goto(s), borrow.step # "idle", hostGate.inside = {},
                 UNCHANGED <<host, nextId, pipeVars, helperVars>>, hostGate' = hostGate \/ Unknown,
                 mutex' \in MutexType, mutex'.owner = "helper" <=> mutex.owner = "helper",
                 s \in {"observing", "published"} => mutex'.owner = "host",
                 s = "closed" => borrow.step = "closing",
                 s \in Relying => borrow.step \in Relying,
                 s \in Tokened => borrow.step \in Tokened,
                 borrow.step \in {"canceled", "released", "retained"} => s \in {"canceled", "released", "retained"}
          PROVE  IInv'
  BY <1>Quiet, <1>T, HostGoes DEF pipeVars
<1>1. CASE HostDrained
  <2>1. /\ borrow.step = "closing" /\ hostGate.inside = {} /\ Goto("closed")
        /\ UNCHANGED <<host, hostGate, nextId, pipeVars, helperVars, mutex>>
    BY <1>1 DEF HostDrained, At
  <2> QED
    BY <1>T, <1>Quiet, <2>1 DEF Steps, Relying, Tokened
<1>2. CASE AcquireTimeout
  <2>1. /\ borrow.step = "asked" /\ Goto("canceling")
        /\ UNCHANGED <<host, hostGate, nextId, pipeVars, helperVars, mutex>>
    BY <1>2 DEF AcquireTimeout, At
  <2> QED
    BY <1>T, <1>H, <1>Quiet, <2>1 DEF Steps, Relying, Tokened
<1>3. CASE Pinned
  <2>1. /\ borrow.step = "pinning" /\ Goto("locking")
        /\ UNCHANGED <<host, hostGate, nextId, pipeVars, helperVars, mutex>>
    BY <1>3 DEF Pinned, At
  <2> QED
    BY <1>T, <1>H, <1>Quiet, <2>1 DEF Steps, Relying, Tokened
<1>4. CASE HostLock
  <2>1. /\ borrow.step = "locking" /\ Goto("observing")
        /\ mutex = [owner |-> "none", abandoned |-> FALSE] /\ mutex' = [mutex EXCEPT !.owner = "host"]
        /\ UNCHANGED <<host, hostGate, nextId, pipeVars, helperVars>>
    BY <1>4 DEF HostLock, At
  <2>2. mutex.owner = "none" /\ mutex'.owner = "host" /\ mutex' \in MutexType
    BY <2>1 DEF MutexType
  <2> QED
    BY <1>T, <1>H, <1>Quiet, <2>1, <2>2 DEF Steps, Relying, Tokened
<1>5. CASE HostLockAbandoned
  <2>1. /\ borrow.step = "locking" /\ Goto("releasing") /\ Unknown
        /\ mutex = [owner |-> "none", abandoned |-> TRUE] /\ mutex' = [mutex EXCEPT !.abandoned = FALSE]
        /\ UNCHANGED <<host, nextId, pipeVars, helperVars>>
    BY <1>5 DEF HostLockAbandoned, At
  <2>2. mutex.owner = "none" /\ mutex'.owner = "none" /\ mutex' \in MutexType
    BY <2>1 DEF MutexType
  <2> QED
    BY <1>T, <1>H, <1>Quiet, <2>1, <2>2 DEF Steps, Relying, Tokened
<1>6. CASE BorrowFails \/ HelperLost \/ DropLease
  <2>1. /\ borrow.step \in {"pinning", "locking", "observing", "published"} /\ Goto("releasing")
        /\ hostGate' = hostGate \/ Unknown
        /\ UNCHANGED <<host, nextId, pipeVars, helperVars, mutex>>
    BY <1>6 DEF BorrowFails, HelperLost, DropLease, At
  <2> QED
    BY <1>T, <1>H, <1>Quiet, <2>1 DEF Steps, Relying, Tokened
<1>7. CASE Publish
  <2>1. /\ borrow.step = "observing" /\ Goto("published")
        /\ UNCHANGED <<host, hostGate, nextId, pipeVars, helperVars, mutex>>
    BY <1>7 DEF Publish, At
  <2>2. mutex.owner = "host"
    BY <2>1 DEF IInv, Still
  <2> QED
    BY <1>T, <1>H, <1>Quiet, <2>1, <2>2 DEF Steps, Relying, Tokened
<1>8. CASE ReobserveLost
  <2>1. /\ borrow.step = "published" /\ Unknown
        /\ UNCHANGED <<host, nextId, borrow, pipeVars, helperVars, mutex>>
    BY <1>8 DEF ReobserveLost, At
  <2>2. Goto("published")
    BY <1>T, <2>1 DEF Goto, BorrowType
  <2>3. mutex.owner = "host"
    BY <2>1 DEF IInv, Still
  <2> QED
    BY <1>T, <1>H, <1>Quiet, <2>1, <2>2, <2>3 DEF Steps, Relying, Tokened
<1>9. CASE ReleaseUnknown
  <2>1. /\ borrow.step \in {"releasing", "released"} /\ Goto("retained") /\ Unknown
        /\ UNCHANGED <<host, nextId, pipeVars, helperVars, mutex>>
    BY <1>9 DEF ReleaseUnknown, At
  <2> QED
    BY <1>T, <1>H, <1>Quiet, <2>1 DEF Steps, Relying, Tokened
<1>10. CASE AskHelper
  <2>1. /\ borrow.step = "closed" /\ Goto("asked")
        /\ Write([type |-> "acquire", request |-> borrow.request, token |-> NoToken, epoch |-> conn])
        /\ UNCHANGED <<host, hostGate, nextId, helper, helperGate, tokens, serving, writing, mutex>>
    BY <1>10 DEF AskHelper, At
  <2> QED
    BY <2>1, WriteStep
<1>11. CASE CancelHelper
  <2>1. /\ borrow.step = "canceling" /\ Goto("canceled")
        /\ Write([type |-> "release", request |-> borrow.request, token |-> NoToken, epoch |-> conn])
        /\ UNCHANGED <<host, hostGate, nextId, helper, helperGate, tokens, serving, writing, mutex>>
    BY <1>11 DEF CancelHelper, At
  <2> QED
    BY <2>1, WriteStep
<1>12. CASE ReleaseHelper
  <2>1. /\ borrow.step = "releasing" /\ Goto("released")
        /\ Write([type |-> "release", request |-> borrow.request, token |-> borrow.token, epoch |-> conn])
        /\ UNCHANGED <<host, hostGate, nextId, helper, helperGate, tokens, serving, writing, mutex>>
    BY <1>12 DEF ReleaseHelper, At
  <2>2. borrow.token \in Tokens /\ borrow.token.request = borrow.request
    BY <2>1 DEF IInv, Numbered, Tokened
  <2> QED
    BY <2>1, <2>2, WriteStep
<1>13. CASE Refused
  <2>1. /\ hostGate' = Releasing(hostGate, {borrow.request}) /\ borrow' = NoBorrow
        /\ UNCHANGED <<host, nextId, pipeVars, helperVars, mutex>>
    BY <1>13 DEF Refused
  <2>2. ~Sent(mailbox, "acquire", borrow.request) /\ ~Parked(borrow.request) /\ borrow.step # "idle"
    <3>1. CASE borrow.step \in {"closing", "closed"}
      BY <3>1 DEF IInv, Numbered, Known
    <3>2. CASE /\ borrow.step = "asked"
               /\ [type |-> "acquired", request |-> borrow.request, token |-> NoToken, ok |-> FALSE] \in replies
      <4>1. PICK m \in replies : m = [type |-> "acquired", request |-> borrow.request, token |-> NoToken, ok |-> FALSE]
        BY <3>2
      <4>2. m.request = borrow.request /\ m.ok = FALSE /\ m.type = "acquired"
        BY <4>1
      <4>3. ~Parked(borrow.request)
        BY <4>2 DEF IInv, Served
      <4>4. Replied(borrow.request)
        BY <4>2 DEF Replied
      <4>5. borrow.request \in Requests
        BY <1>R, <3>2
      <4> QED
        BY <3>2, <4>3, <4>4, <4>5 DEF IInv, Served
    <3> QED
      BY <1>13, <3>1, <3>2 DEF Refused, At
  <2> QED
    BY <1>R, <1>T, <2>1, <2>2, HostIdle
<1>14. CASE CancelAcknowledged \/ ReleaseAcknowledged
  <2>1. /\ hostGate' = Releasing(hostGate, {borrow.request}) /\ borrow' = NoBorrow
        /\ UNCHANGED <<host, nextId, pipeVars, helperVars>> /\ (mutex' = mutex \/ mutex' = Unlocked)
        /\ borrow.step # "idle"
    BY <1>14 DEF CancelAcknowledged, ReleaseAcknowledged, At
  <2>2. PICK m \in replies : m.type = "released" /\ m.request = borrow.request /\ m.ok
    BY <1>14 DEF CancelAcknowledged, ReleaseAcknowledged
  <2>3. ~Parked(borrow.request)
    BY <2>2 DEF IInv, Served
  <2>4. Replied(borrow.request)
    BY <2>2 DEF Replied
  <2>5. ~Sent(mailbox, "acquire", borrow.request)
    BY <1>R, <2>1, <2>4 DEF IInv, Served
  <2>6. mutex' \in MutexType /\ (mutex'.owner = "helper" <=> mutex.owner = "helper")
    <3>1. CASE mutex' = mutex
      BY <1>T, <3>1
    <3>2. CASE mutex.owner = "host" /\ mutex' = [mutex EXCEPT !.owner = "none"]
      BY <1>T, <3>2 DEF MutexType
    <3> QED
      BY <2>1, <3>1, <3>2 DEF Unlocked
  <2> QED
    BY <1>R, <2>1, <2>3, <2>5, <2>6, HostIdle
<1>15. CASE CancelUnknown
  <2>1. Unknown /\ borrow' = NoBorrow /\ UNCHANGED <<host, nextId, pipeVars, helperVars, mutex>>
    BY <1>15 DEF CancelUnknown
  <2> QED
    BY <1>T, <2>1, HostIdle
<1> QED
  BY <1>1, <1>2, <1>3, <1>4, <1>5, <1>6, <1>7, <1>8, <1>9, <1>10, <1>11, <1>12, <1>13, <1>14, <1>15,
     AcknowledgedStep DEF Consumer

-------------------------------------------------------------------------------
(* Steps of the helper                                                     *)

\* What may be answered: nothing more of its request is to come, and a refused
\* acquire or a done release leaves no token of it.
Fitting(a, ts, q) ==
    /\ Known(a.request) /\ ~Sent(q, "acquire", a.request)
    /\ (a.ok <=> a.type = "released") => \A t \in ts : t.request # a.request
    /\ a.type = "acquired" /\ a.ok => a.token \in ts /\ a.token.request = a.request

\* The tokens ts and the gate g that a command leaves agree, and no token is
\* gone that the host has not released.
Leaves(ts, g) ==
    /\ ts \in SUBSET Tokens /\ g \in GateType
    /\ \A t \in ts : \A u \in ts \union tokens : t.request = u.request => t = u
    /\ \A t \in ts : t.helper = helper /\ Parked(t.request)
    /\ \A r \in Requests : r \in g.held <=> \E t \in ts : t.request = r
    /\ \A t \in tokens : t \in ts \/ Sent(mailbox, "release", t.request)

\* The mailbox that is left when at most its first frame is taken.
MailLeft ==
    /\ mailbox' \in Seq(Messages) /\ Ordered(mailbox')
    /\ \A type, r : Sent(mailbox', type, r) => Sent(mailbox, type, r)
    /\ \A i \in DOMAIN mailbox' : mailbox'[i].token # NoToken => mailbox'[i].token.request = mailbox'[i].request

\* At most one result is sent, and it fits.
Answered(ts) ==
    \/ replies' = replies
    \/ \E a \in Results : replies' = replies \union {a} /\ Fitting(a, ts, mailbox')

\* A command is done and answered, leaving the tokens ts and the gate g, and
\* the tokens R of dead hosts are reaped.
LEMMA HelperAnswers ==
    ASSUME IInv, NEW R \in SUBSET AllDead, NEW ts, NEW g, Leaves(ts, g), MailLeft, Answered(ts), Reap(ts, g, R),
           serving' = NotServing, UNCHANGED <<hostVars, conn, epochs, helper, writing, mutex>>
    PROVE  IInv'
<1>L. /\ ts \in SUBSET Tokens /\ g \in GateType
      /\ \A t \in ts : \A u \in ts \union tokens : t.request = u.request => t = u
      /\ \A t \in ts : t.helper = helper /\ Parked(t.request)
      /\ \A r \in Requests : r \in g.held <=> \E t \in ts : t.request = r
      /\ \A t \in tokens : t \in ts \/ Sent(mailbox, "release", t.request)
  BY DEF Leaves
<1>M. /\ mailbox' \in Seq(Messages) /\ Ordered(mailbox')
      /\ \A type, r : Sent(mailbox', type, r) => Sent(mailbox, type, r)
      /\ \A i \in DOMAIN mailbox' : mailbox'[i].token # NoToken => mailbox'[i].token.request = mailbox'[i].request
  BY DEF MailLeft
<1>A. \/ replies' = replies
      \/ \E a \in Results : replies' = replies \union {a} /\ Fitting(a, ts, mailbox')
  BY DEF Answered
<1> USE <1>L, <1>M, <1>A
<1>T. /\ hostGate \in GateType /\ helperGate \in GateType /\ tokens \subseteq Tokens /\ replies \subseteq Results
      /\ borrow \in BorrowType
  BY TypeParts DEF IInv
<1>1. tokens' = ts \ R /\ helperGate' = Releasing(g, {t.request : t \in R})
  BY DEF Reap
<1>2. R \subseteq tokens /\ \A t \in R : t.request.host # host
  BY DEF AllDead, Dead
<1>3. {t.request : t \in R} \subseteq Requests
  <2>1. \A t \in R : t.request \in Requests
    BY <1>2, RequestsKnown DEF IInv
  <2> QED
    BY <2>1, SMTT(60)
<1>4. helperGate' \in GateType /\ helperGate'.held = g.held \ {t.request : t \in R}
  BY <1>1, <1>3, ReleasingType, ReleasingFields
<1>5. replies' \subseteq Results
  BY <1>T
<1>6. Typed'
  <2>1. tokens' \subseteq Tokens /\ serving' \in ServingType
    BY <1>1 DEF ServingType
  <2> QED
    BY <1>4, <1>5, <2>1, TypeParts, TypeFrom DEF IInv, hostVars
<1>7. Still'
  BY DEF IInv, Still, hostVars
<1>8. \A r \in Requests : Parked(r)' <=> \E t \in tokens' : t.request = r
  <2>1. NotServing.request = NoRequest
    BY DEF NotServing
  <2> QED
    BY <2>1, NoRequestIsNone DEF Parked, Has
<1>9. ASSUME NEW r \in Requests, Parked(r)'
      PROVE  Parked(r) /\ \E t \in ts : t.request = r
  <2>1. PICK t \in tokens' : t.request = r
    BY <1>8, <1>9
  <2>2. t \in ts /\ Parked(t.request)
    BY <1>1
  <2> QED
    BY <2>1, <2>2
<1>10. \A type, r : Sent(mailbox, type, r)' => Sent(mailbox, type, r)
  BY DEF Sent
<1>11. \A t \in tokens : t.request.host = host /\ ~Sent(mailbox, "release", t.request) => t \in tokens'
  BY <1>1, <1>2
<1>12. \A m \in replies' : m \in replies \/ Fitting(m, ts, mailbox')
  OBVIOUS
<1>13. Numbered'
  <2>1. \A r \in Requests : Known(r)' => Known(r)
    <3> SUFFICES ASSUME NEW r \in Requests, Known(r)'
                 PROVE  Known(r)
      OBVIOUS
    <3>1. CASE Replied(r)'
      <4>1. PICK m \in replies' : m.request = r
        BY <3>1 DEF Replied
      <4> QED
        BY <1>12, <4>1 DEF Fitting, Known, Replied
    <3> QED
      BY <1>9, <1>10, <3>1 DEF Known
  <2>2. PICK b : b = borrow.request
    OBVIOUS
  <2>3. borrow.step \in {"closing", "closed"} => ~Known(b)'
    <3>1. borrow.step # "idle" => b \in Requests
      BY <1>T, <2>2 DEF IInv, Still, GateType
    <3>2. borrow.step \in {"closing", "closed"} => ~Known(b)
      BY <2>2 DEF IInv, Numbered
    <3> QED
      BY <2>1, <3>1, <3>2
  <2>4. borrow'.step \in {"closing", "closed"} => ~Known(borrow.request)'
    BY <2>2, <2>3 DEF hostVars, Known, Sent, Parked, Has, Replied
  <2> QED
    BY <2>1, <2>4 DEF IInv, Numbered, hostVars
<1>14. Served'
  <2>1. \A r \in Requests : Sent(mailbox, "acquire", r)' => ~Parked(r)' /\ ~Replied(r)'
    <3> SUFFICES ASSUME NEW r \in Requests, Sent(mailbox, "acquire", r)'
                 PROVE  ~Parked(r)' /\ ~Replied(r)'
      OBVIOUS
    <3>1. Sent(mailbox', "acquire", r)
      BY DEF Sent
    <3>2. ~Parked(r) /\ ~Replied(r)
      BY <1>10 DEF IInv, Served
    <3>3. ~Parked(r)'
      BY <1>9, <3>2
    <3>4. ASSUME NEW m \in replies', m.request = r PROVE FALSE
      <4>1. m \notin replies
        BY <3>2, <3>4 DEF Replied
      <4>2. ~Sent(mailbox', "acquire", m.request)
        BY <1>12, <4>1 DEF Fitting
      <4> QED
        BY <3>1, <3>4, <4>2
    <3> QED
      BY <3>3, <3>4 DEF Replied
  <2>2. \A t, u \in tokens' : t.request = u.request => t = u
    BY <1>1
  <2>3. \A t \in tokens' : t.helper = helper'
    BY <1>1
  <2>4. \A r \in Requests : r \in helperGate'.held <=> Parked(r)'
    <3> SUFFICES ASSUME NEW r \in Requests
                 PROVE  r \in helperGate'.held <=> \E t \in tokens' : t.request = r
      BY <1>8
    <3>1. ASSUME r \in helperGate'.held PROVE \E t \in tokens' : t.request = r
      BY <1>1, <1>4, <3>1
    <3>2. ASSUME NEW t \in tokens', t.request = r PROVE r \in helperGate'.held
      <4>1. t \in ts /\ t \notin R
        BY <1>1
      <4>2. \A u \in R : u.request # r
        BY <1>2, <3>2, <4>1
      <4>3. r \in g.held
        BY <3>2, <4>1
      <4>4. r \notin {u.request : u \in R}
        BY <4>2
      <4> QED
        BY <1>4, <4>3, <4>4
    <3> QED
      BY <3>1, <3>2
  <2>5. ASSUME NEW m \in replies', m.ok <=> m.type = "released"
        PROVE  ~Parked(m.request)'
    <3>1. m.request \in Requests
      BY <1>5 DEF Results
    <3>2. CASE m \in replies
      BY <1>9, <2>5, <3>1, <3>2 DEF IInv, Served
    <3>3. CASE Fitting(m, ts, mailbox')
      BY <1>9, <2>5, <3>1, <3>3 DEF Fitting
    <3> QED
      BY <1>12, <3>2, <3>3
  <2> QED
    BY <2>1, <2>2, <2>3, <2>4, <2>5 DEF Served, Ordered
<1>15. Relied'
  <2>1. Sent(mailbox, "release", borrow.request)' => borrow'.step \in {"canceled", "released", "retained"}
    <3>1. PICK b : b = borrow.request
      OBVIOUS
    <3>2. Sent(mailbox, "release", b)' => Sent(mailbox, "release", b)
      BY <1>10
    <3>3. Sent(mailbox, "release", b)' => borrow.step \in {"canceled", "released", "retained"}
      BY <3>1, <3>2 DEF IInv, Relied
    <3> QED
      BY <3>1, <3>3 DEF Sent, hostVars
  <2>2. borrow.step # "idle" => borrow.request.host = host
    BY DEF IInv, Numbered
  <2>3. ASSUME NEW m \in replies', m.type = "acquired", m.ok
        PROVE  /\ m.token \in Tokens /\ m.token.request = m.request /\ m.token.helper = helper'
               /\ m.request = borrow'.request /\ borrow'.step = "asked" => m.token \in tokens'
    <3>1. CASE m \in replies
      BY <1>11, <2>2, <2>3, <3>1 DEF IInv, Relied, hostVars
    <3>2. CASE Fitting(m, ts, mailbox')
      <4>1. m.token \in ts /\ m.token.request = m.request
        BY <2>3, <3>2 DEF Fitting
      <4>2. m.token.request.host = host => m.token \in tokens'
        BY <1>1, <1>2, <4>1
      <4> QED
        BY <2>2, <4>1, <4>2 DEF hostVars
    <3> QED
      BY <1>12, <3>1, <3>2
  <2>4. borrow'.step \in Relying /\ borrow'.token.helper = helper' => borrow'.token \in tokens'
    <3> SUFFICES ASSUME borrow.step \in Relying, borrow.token.helper = helper
                 PROVE  borrow.token \in tokens'
      BY DEF hostVars
    <3>1. borrow.step \in Tokened /\ borrow.step # "idle" /\ borrow.step \notin {"canceled", "released", "retained"}
      BY DEF Tokened, Relying
    <3>2. borrow.token \in tokens /\ ~Sent(mailbox, "release", borrow.request)
      BY <3>1 DEF IInv, Relied
    <3>3. borrow.token.request = borrow.request
      BY <3>1 DEF IInv, Numbered
    <3> QED
      BY <1>11, <2>2, <3>1, <3>2, <3>3
  <2> QED
    BY <2>1, <2>3, <2>4 DEF Relied
<1>16. Owned'
  BY <1>9, <1>10 DEF IInv, Owned, hostVars
<1> QED
  BY <1>6, <1>7, <1>13, <1>14, <1>15, <1>16 DEF IInv

\* mailbox_t::service takes a command: what is left of the mailbox
LEMMA ServiceTakes ==
    ASSUME IInv, NEW type \in {"acquire", "release"}, Service(type)
    PROVE  /\ serving = NotServing /\ Head(mailbox) \in Messages /\ Head(mailbox).type = type
           /\ Sent(mailbox, type, Head(mailbox).request)
           /\ ~Sent(mailbox', "acquire", Head(mailbox).request)
           /\ Head(mailbox).token # NoToken => Head(mailbox).token.request = Head(mailbox).request
           /\ MailLeft
<1>1. mailbox \in Seq(Messages) /\ Ordered(mailbox) /\ mailbox # <<>> /\ mailbox' = Tail(mailbox)
  BY TypeParts DEF IInv, Served, Service
<1>0. /\ Head(mailbox) \in Messages /\ Tail(mailbox) \in Seq(Messages)
      /\ Head(mailbox) = mailbox[1] /\ 1 \in DOMAIN mailbox
      /\ \A ty, r : Sent(Tail(mailbox), ty, r) => Sent(mailbox, ty, r)
      /\ Sent(mailbox, Head(mailbox).type, Head(mailbox).request)
      /\ ~Sent(Tail(mailbox), "acquire", Head(mailbox).request)
      /\ Ordered(Tail(mailbox))
      /\ \A i \in DOMAIN Tail(mailbox) : \E k \in DOMAIN mailbox : Tail(mailbox)[i] = mailbox[k]
  BY <1>1, Taken
<1>2. /\ Head(mailbox) \in Messages /\ mailbox' \in Seq(Messages)
      /\ Head(mailbox) = mailbox[1] /\ 1 \in DOMAIN mailbox
      /\ \A ty, r : Sent(mailbox', ty, r) => Sent(mailbox, ty, r)
      /\ Sent(mailbox, Head(mailbox).type, Head(mailbox).request)
      /\ ~Sent(mailbox', "acquire", Head(mailbox).request)
      /\ Ordered(mailbox')
      /\ \A i \in DOMAIN mailbox' : \E k \in DOMAIN mailbox : mailbox'[i] = mailbox[k]
  BY <1>1, <1>0
<1>3. \A i \in DOMAIN mailbox : mailbox[i].token # NoToken => mailbox[i].token.request = mailbox[i].request
  BY DEF IInv, Served
<1>4. \A i \in DOMAIN mailbox' : mailbox'[i].token # NoToken => mailbox'[i].token.request = mailbox'[i].request
  BY <1>2, <1>3
<1>5. Head(mailbox).token # NoToken => Head(mailbox).token.request = Head(mailbox).request
  BY <1>2, <1>3
<1>6. serving = NotServing /\ Head(mailbox).type = type
  BY DEF Service
<1>7. MailLeft
  BY <1>2, <1>4 DEF MailLeft
<1> QED
  BY <1>2, <1>5, <1>6, <1>7

\* A mailbox that is not touched will do.
LEMMA MailSame ==
    ASSUME IInv, UNCHANGED mailbox
    PROVE  MailLeft
BY TypeParts DEF IInv, Served, MailLeft

\* With no acquire being drained, the gate is held by the tokens.
LEMMA HeldByTokens ==
    ASSUME IInv, serving = NotServing
    PROVE  \A r \in Requests : (r \in helperGate.held <=> \E t \in tokens : t.request = r) /\ (Parked(r) <=> Has(r))
<1>1. NotServing.request = NoRequest
  BY DEF NotServing
<1>2. \A r \in Requests : Parked(r) <=> Has(r)
  BY <1>1, NoRequestIsNone DEF Parked
<1> QED
  BY <1>2 DEF IInv, Served, Has

\* There is one token of a request, of this helper.
LEMMA TokensParked ==
    ASSUME IInv
    PROVE  /\ \A t \in tokens : t.helper = helper /\ Parked(t.request)
           /\ \A t \in tokens : \A u \in tokens \union tokens : t.request = u.request => t = u
BY DEF IInv, Served, Parked, Has

\* A command that leaves everything as it is
LEMMA AllLeft ==
    ASSUME IInv, serving = NotServing
    PROVE  Leaves(tokens, helperGate)
<1>1. tokens \in SUBSET Tokens /\ helperGate \in GateType
  BY TypeParts DEF IInv
<1> QED
  BY <1>1, HeldByTokens, TokensParked DEF Leaves

\* control_t refuses an acquire.
LEMMA RefusedStep == ASSUME IInv, NEW R \in SUBSET AllDead, AcquireRefused(R) PROVE IInv'
<1>1. PICK m : m = Head(mailbox)
  OBVIOUS
<1>2. PICK a : a = [type |-> "acquired", request |-> m.request, token |-> NoToken, ok |-> FALSE]
  OBVIOUS
<1>3. /\ Service("acquire") /\ ~Has(m.request) /\ (replies' = replies \/ replies' = replies \union {a})
      /\ Reap(tokens, helperGate, R)
      /\ UNCHANGED <<serving, conn, epochs, helper, writing, hostVars, mutex>>
  BY <1>1, <1>2 DEF AcquireRefused, Answer, Reply
<1>4. /\ serving = NotServing /\ m \in Messages /\ Sent(mailbox, "acquire", m.request)
      /\ ~Sent(mailbox', "acquire", m.request) /\ MailLeft
  BY <1>1, <1>3, ServiceTakes
<1>5. m.request \in Requests
  BY <1>4 DEF Messages
<1>6. a \in Results /\ a.type = "acquired" /\ a.request = m.request /\ a.ok = FALSE
  BY <1>2, <1>5 DEF Results
<1>7. Fitting(a, tokens, mailbox')
  <2>1. Known(a.request)
    BY <1>4, <1>6 DEF Known
  <2>2. \A t \in tokens : t.request # a.request
    BY <1>3, <1>6 DEF Has
  <2> QED
    BY <1>4, <1>6, <2>1, <2>2 DEF Fitting
<1>8. Answered(tokens)
  BY <1>3, <1>6, <1>7 DEF Answered
<1> QED
  BY <1>3, <1>4, <1>8, AllLeft, HelperAnswers

\* control_t has nothing to do but to reap.
LEMMA IdleStep == ASSUME IInv, NEW R \in SUBSET AllDead, ServeIdle(R) PROVE IInv'
<1>1. /\ serving = NotServing /\ Reap(tokens, helperGate, R)
      /\ UNCHANGED <<serving, mailbox, pipeVars, helper, writing, hostVars, mutex>>
  BY DEF ServeIdle
<1>2. MailLeft
  BY <1>1, MailSame
<1>3. Answered(tokens)
  BY <1>1 DEF Answered, pipeVars
<1>4. UNCHANGED <<conn, epochs>>
  BY <1>1 DEF pipeVars
<1> QED
  BY <1>1, <1>2, <1>3, <1>4, AllLeft, HelperAnswers

\* The gate is drained: the acquire gets its token.
LEMMA DrainedStep == ASSUME IInv, NEW R \in SUBSET AllDead, AcquireDrained(R) PROVE IInv'
<1>1. PICK t : t = [request |-> serving.request, helper |-> helper, epoch |-> serving.epoch]
  OBVIOUS
<1>2. PICK a : a = [type |-> "acquired", request |-> t.request, token |-> t, ok |-> TRUE]
  OBVIOUS
<1>3. PICK ts : ts = tokens \union {t}
  OBVIOUS
<1>4. /\ serving # NotServing /\ (replies' = replies \/ replies' = replies \union {a})
      /\ Reap(ts, helperGate, R) /\ serving' = NotServing
      /\ UNCHANGED <<conn, epochs, helper, mailbox, writing, hostVars, mutex>>
  BY <1>1, <1>2, <1>3 DEF AcquireDrained, Answer, Reply
<1>5. serving.request \in Requests /\ serving.epoch \in 1 .. MaxEpoch
  BY <1>4, TypeParts DEF IInv, ServingType
<1>6. tokens \subseteq Tokens /\ helperGate \in GateType /\ helper \in 1 .. MaxHelper
  BY TypeParts DEF IInv
<1>7. t \in Tokens /\ t.request = serving.request /\ t.helper = helper
  BY <1>1, <1>5, <1>6 DEF Tokens
<1>8. a \in Results /\ a.type = "acquired" /\ a.request = t.request /\ a.ok = TRUE /\ a.token = t
  <2>1. t.request \in Requests /\ t \in Tokens \union {NoToken}
    BY <1>5, <1>7
  <2>2. a \in Results
    BY <1>2, <2>1 DEF Results
  <2> QED
    BY <1>2, <2>2
<1>9. Parked(t.request) /\ ~Has(t.request)
  BY <1>4, <1>7 DEF IInv, Served, Parked
<1>10. ~Sent(mailbox, "acquire", t.request)
  BY <1>5, <1>7, <1>9 DEF IInv, Served
<1>11. Fitting(a, ts, mailbox')
  BY <1>3, <1>4, <1>8, <1>9, <1>10 DEF Fitting, Known
<1>12. /\ \A u \in tokens : u.helper = helper /\ Parked(u.request)
       /\ \A u \in tokens : \A v \in tokens \union tokens : u.request = v.request => u = v
  BY TokensParked
<1>13. \A u \in ts : \A v \in ts \union tokens : u.request = v.request => u = v
  BY <1>3, <1>9, <1>12 DEF Has
<1>14. \A u \in ts : u.helper = helper /\ Parked(u.request)
  BY <1>3, <1>7, <1>9, <1>12
<1>15. \A r \in Requests : r \in helperGate.held <=> \E u \in ts : u.request = r
  BY <1>3, <1>7 DEF IInv, Served, Parked, Has
<1>16. MailLeft
  BY <1>4, MailSame
<1>17. Leaves(ts, helperGate)
  <2>1. ts \in SUBSET Tokens /\ \A u \in tokens : u \in ts
    BY <1>3, <1>6, <1>7
  <2> QED
    BY <1>6, <1>13, <1>14, <1>15, <2>1 DEF Leaves
<1>18. Answered(ts)
  BY <1>4, <1>8, <1>11 DEF Answered
<1> QED
  BY <1>4, <1>16, <1>17, <1>18, HelperAnswers

\* The tokens of other requests.
Others(r) == {t \in tokens : t.request # r}

\* gate_t::release of a request leaves the tokens of the others.
LEMMA OneReleased ==
    ASSUME IInv, NEW r \in Requests, serving = NotServing \/ serving.request = r,
           Has(r) => Sent(mailbox, "release", r)
    PROVE  Leaves(Others(r), Releasing(helperGate, {r}))
<1>1. tokens \subseteq Tokens /\ helperGate \in GateType
  BY TypeParts DEF IInv
<1>2. Releasing(helperGate, {r}) \in GateType /\ Releasing(helperGate, {r}).held = helperGate.held \ {r}
  BY <1>1, ReleasingType, ReleasingFields
<1>3. /\ \A u \in tokens : u.helper = helper /\ Parked(u.request)
      /\ \A u \in tokens : \A v \in tokens \union tokens : u.request = v.request => u = v
  BY TokensParked
<1>4. ASSUME NEW x \in Requests PROVE x \in Releasing(helperGate, {r}).held <=> \E t \in Others(r) : t.request = x
  <2>1. serving.request # x \/ x = r
    <3>1. NotServing.request = NoRequest
      BY DEF NotServing
    <3> QED
      BY <3>1, NoRequestIsNone
  <2>2. x \in helperGate.held <=> serving.request = x \/ \E t \in tokens : t.request = x
    BY DEF IInv, Served, Parked, Has
  <2> QED
    BY <1>2, <2>1, <2>2 DEF Others
<1>5. Others(r) \subseteq tokens /\ \A t \in tokens : t \in Others(r) \/ Sent(mailbox, "release", t.request)
  BY DEF Others, Has
<1> QED
  BY <1>1, <1>2, <1>3, <1>4, <1>5 DEF Leaves

\* The drain took too long: the acquire is refused after all.
LEMMA ExpiredStep == ASSUME IInv, NEW R \in SUBSET AllDead, AcquireExpired(R) PROVE IInv'
<1>1. PICK r : r = serving.request
  OBVIOUS
<1>2. PICK a : a = [type |-> "acquired", request |-> r, token |-> NoToken, ok |-> FALSE]
  OBVIOUS
<1>3. PICK g : g = Releasing(helperGate, {r})
  OBVIOUS
<1>4. /\ serving # NotServing /\ (replies' = replies \/ replies' = replies \union {a})
      /\ Reap(tokens, g, R) /\ serving' = NotServing
      /\ UNCHANGED <<conn, epochs, helper, mailbox, writing, hostVars, mutex>>
  BY <1>1, <1>2, <1>3 DEF AcquireExpired, Answer, Reply
<1>5. r \in Requests
  BY <1>1, <1>4, TypeParts DEF IInv, ServingType
<1>6. Parked(r) /\ ~Has(r)
  BY <1>1, <1>4 DEF IInv, Served, Parked
<1>7. ~Sent(mailbox, "acquire", r)
  BY <1>5, <1>6 DEF IInv, Served
<1>8. a \in Results /\ a.type = "acquired" /\ a.request = r /\ a.ok = FALSE
  BY <1>2, <1>5 DEF Results
<1>9. Fitting(a, tokens, mailbox')
  BY <1>4, <1>6, <1>7, <1>8 DEF Fitting, Known, Has
<1>10. tokens = Others(r)
  BY <1>6 DEF Has, Others
<1>11. Leaves(tokens, g)
  <2>1. Leaves(Others(r), Releasing(helperGate, {r}))
    BY <1>1, <1>5, <1>6, OneReleased
  <2> QED
    BY <1>3, <1>10, <2>1
<1>12. MailLeft
  BY <1>4, MailSame
<1>13. Answered(tokens)
  BY <1>4, <1>8, <1>9 DEF Answered
<1> QED
  BY <1>4, <1>11, <1>12, <1>13, HelperAnswers

\* A release, done or refused
LEMMA ReleaseServed ==
    ASSUME IInv, NEW R \in SUBSET AllDead, Service("release"), NEW a \in Results,
           a.type = "released", a.request = Head(mailbox).request,
           replies' = replies \/ replies' = replies \union {a},
           \/ ~a.ok /\ Reap(tokens, helperGate, R)
           \/ Reap(Others(Head(mailbox).request), Releasing(helperGate, {Head(mailbox).request}), R),
           UNCHANGED <<serving, conn, epochs, helper, writing, hostVars, mutex>>
    PROVE  IInv'
<1>1. PICK r : r = Head(mailbox).request
  OBVIOUS
<1>2. /\ serving = NotServing /\ Head(mailbox) \in Messages /\ Sent(mailbox, "release", r)
      /\ ~Sent(mailbox', "acquire", r) /\ MailLeft
  BY <1>1, ServiceTakes
<1>3. r \in Requests /\ Known(r)
  BY <1>1, <1>2 DEF Messages, Known
<1>4. CASE ~a.ok /\ Reap(tokens, helperGate, R)
  <2>1. Fitting(a, tokens, mailbox')
    BY <1>1, <1>2, <1>3, <1>4 DEF Fitting
  <2>2. Answered(tokens)
    BY <2>1 DEF Answered
  <2> QED
    BY <1>2, <1>4, <2>2, AllLeft, HelperAnswers
<1>5. CASE Reap(Others(r), Releasing(helperGate, {r}), R)
  <2>1. Leaves(Others(r), Releasing(helperGate, {r}))
    BY <1>2, <1>3, OneReleased
  <2>2. Fitting(a, Others(r), mailbox')
    BY <1>1, <1>2, <1>3 DEF Fitting, Others
  <2>3. Answered(Others(r))
    BY <2>2 DEF Answered
  <2> QED
    BY <1>2, <1>5, <2>1, <2>3, HelperAnswers
<1> QED
  BY <1>1, <1>4, <1>5

\* A release without a token cancels its acquire, served or not.
LEMMA CancelStep == ASSUME IInv, NEW R \in SUBSET AllDead, ServeCancel(R) PROVE IInv'
<1>1. PICK m : m = Head(mailbox)
  OBVIOUS
<1>2. PICK stale : stale = (Has(m.request) /\ TokenOf(m.request).epoch # m.epoch)
  OBVIOUS
<1>3. PICK known : known = {t \in tokens : t.request = m.request}
  OBVIOUS
<1>4. PICK t : t = IF known = {} THEN [request |-> m.request, helper |-> helper, epoch |-> m.epoch]
                   ELSE TokenOf(m.request)
  OBVIOUS
<1>5. PICK a : a = [type |-> "released", request |-> m.request, token |-> IF stale THEN NoToken ELSE t, ok |-> ~stale]
  OBVIOUS
<1>6. /\ Service("release") /\ (replies' = replies \/ replies' = replies \union {a})
      /\ IF stale THEN Reap(tokens, helperGate, R)
         ELSE Reap(tokens \ known, Releasing(helperGate, {m.request}), R)
      /\ UNCHANGED <<serving, conn, epochs, helper, writing, hostVars, mutex>>
  BY <1>1, <1>2, <1>3, <1>4, <1>5 DEF ServeCancel, Answer, Reply
<1>7. m \in Messages
  BY <1>1, <1>6, ServiceTakes
<1>8. m.request \in Requests /\ m.epoch \in 1 .. MaxEpoch
  BY <1>7 DEF Messages
<1>9. t \in Tokens
  <2>1. helper \in 1 .. MaxHelper /\ tokens \subseteq Tokens
    BY TypeParts DEF IInv
  <2>2. CASE known = {}
    BY <1>4, <1>8, <2>1, <2>2 DEF Tokens
  <2>3. CASE known # {}
    <3>1. \E u \in tokens : u.request = m.request
      BY <1>3, <2>3
    <3>2. TokenOf(m.request) \in tokens
      BY <3>1 DEF TokenOf
    <3> QED
      BY <1>4, <2>1, <2>3, <3>2
  <2> QED
    BY <2>2, <2>3
<1>10. stale \in BOOLEAN
  BY <1>2
<1>11. a \in Results
  BY <1>5, <1>8, <1>9, <1>10 DEF Results
<1>12. a.type = "released" /\ a.request = m.request /\ a.ok = ~stale
  BY <1>5
<1>13. tokens \ known = Others(m.request)
  BY <1>3 DEF Others
<1>14. \/ ~a.ok /\ Reap(tokens, helperGate, R)
       \/ Reap(Others(m.request), Releasing(helperGate, {m.request}), R)
  BY <1>6, <1>12, <1>13
<1> QED
  BY <1>1, <1>6, <1>11, <1>12, <1>14, ReleaseServed

\* A release with its token.
LEMMA ReleaseStep == ASSUME IInv, NEW R \in SUBSET AllDead, ServeRelease(R) PROVE IInv'
<1>1. PICK m : m = Head(mailbox)
  OBVIOUS
<1>2. PICK a : a = [type |-> "released", request |-> m.request, token |-> m.token, ok |-> m.token \in tokens]
  OBVIOUS
<1>3. /\ Service("release") /\ m.token # NoToken /\ (replies' = replies \/ replies' = replies \union {a})
      /\ IF m.token \in tokens THEN Reap(tokens \ {m.token}, Releasing(helperGate, {m.request}), R)
         ELSE Reap(tokens, helperGate, R)
      /\ UNCHANGED <<serving, conn, epochs, helper, writing, hostVars, mutex>>
  BY <1>1, <1>2 DEF ServeRelease, Answer, Reply
<1>4. m \in Messages /\ m.token.request = m.request
  BY <1>1, <1>3, ServiceTakes
<1>5. m.request \in Requests /\ m.token \in Tokens \union {NoToken}
  BY <1>4 DEF Messages
<1>6. a \in Results
  BY <1>2, <1>5, SMTT(60) DEF Results
<1>7. a.type = "released" /\ a.request = m.request /\ a.ok = (m.token \in tokens)
  BY <1>2
<1>8. m.token \in tokens => tokens \ {m.token} = Others(m.request)
  BY <1>4, TokensParked DEF Others
<1>9. \/ ~a.ok /\ Reap(tokens, helperGate, R)
      \/ Reap(Others(m.request), Releasing(helperGate, {m.request}), R)
  BY <1>3, <1>7, <1>8
<1> QED
  BY <1>1, <1>3, <1>6, <1>7, <1>9, ReleaseServed

\* control_t closes the gate for an acquire of the live host.
LEMMA AcquireBeginStep == IInv /\ AcquireBegin => IInv'
<1> SUFFICES ASSUME IInv, AcquireBegin
             PROVE  IInv'
  OBVIOUS
<1>1. PICK m : m = Head(mailbox)
  OBVIOUS
<1>2. PICK r : r = m.request
  OBVIOUS
<1>3. /\ Service("acquire") /\ ~Has(r) /\ helperGate' = Closing(helperGate, r)
      /\ serving' = [request |-> r, epoch |-> m.epoch]
      /\ UNCHANGED <<tokens, pipeVars, helper, writing, hostVars, mutex>>
  BY <1>1, <1>2 DEF AcquireBegin
<1>4. /\ serving = NotServing /\ m \in Messages /\ Sent(mailbox, "acquire", r)
      /\ ~Sent(mailbox', "acquire", r) /\ MailLeft
  BY <1>1, <1>2, <1>3, ServiceTakes
<1>5. r \in Requests /\ m.epoch \in 1 .. MaxEpoch
  BY <1>2, <1>4 DEF Messages
<1>6. serving' \in ServingType /\ serving'.request = r
  BY <1>3, <1>5 DEF ServingType
<1>7. helperGate' \in GateType /\ helperGate'.held = helperGate.held \union {r}
  <2>1. helperGate \in GateType
    BY TypeParts DEF IInv
  <2> QED
    BY <1>3, <1>5, <2>1 DEF Closing, GateType
<1>8. /\ mailbox' \in Seq(Messages) /\ Ordered(mailbox')
      /\ \A type, x : Sent(mailbox', type, x) => Sent(mailbox, type, x)
      /\ \A i \in DOMAIN mailbox' : mailbox'[i].token # NoToken => mailbox'[i].token.request = mailbox'[i].request
  BY <1>4 DEF MailLeft
<1>9. Typed'
  BY <1>3, <1>6, <1>7, <1>8, TypeParts, TypeFrom DEF IInv, hostVars, pipeVars
<1>10. Still'
  BY <1>3 DEF IInv, Still, hostVars
<1>11. ~Parked(r) /\ ~Replied(r)
  BY <1>4, <1>5 DEF IInv, Served
<1>12. \A x \in Requests : Parked(x)' <=> Parked(x) \/ x = r
  <2>1. \A x : Has(x)' <=> Has(x)
    BY <1>3 DEF Has
  <2>2. \A x \in Requests : Parked(x) <=> Has(x)
    BY <1>4, HeldByTokens
  <2> QED
    BY <1>6, <2>1, <2>2 DEF Parked
<1>13. \A x : Replied(x)' <=> Replied(x)
  BY <1>3 DEF Replied, pipeVars
<1>14. \A type, x : Sent(mailbox, type, x)' => Sent(mailbox, type, x)
  BY <1>8 DEF Sent
<1>15. \A x \in Requests : Known(x)' => Known(x)
  BY <1>4, <1>12, <1>13, <1>14 DEF Known
<1>16. Numbered'
  <2>1. PICK b : b = borrow.request
    OBVIOUS
  <2>2. borrow.step \in {"closing", "closed"} => ~Known(b)'
    <3>1. hostGate \in GateType
      BY TypeParts DEF IInv
    <3>2. borrow.step # "idle" => b \in Requests
      BY <2>1, <3>1 DEF IInv, Still, GateType
    <3>3. borrow.step \in {"closing", "closed"} => ~Known(b)
      BY <2>1 DEF IInv, Numbered
    <3> QED
      BY <1>15, <3>2, <3>3
  <2>3. borrow'.step \in {"closing", "closed"} => ~Known(borrow.request)'
    BY <1>3, <2>1, <2>2 DEF hostVars, Known, Sent, Parked, Has, Replied
  <2> QED
    BY <1>3, <1>15, <2>3 DEF IInv, Numbered, hostVars
<1>17. Served'
  <2>1. \A x \in Requests : Sent(mailbox, "acquire", x)' => ~Parked(x)' /\ ~Replied(x)'
    <3>1. ~Sent(mailbox, "acquire", r)'
      BY <1>4 DEF Sent
    <3> QED
      BY <1>12, <1>13, <1>14, <3>1 DEF IInv, Served
  <2>2. ~Has(serving.request)' /\ ~Replied(serving.request)'
    BY <1>3, <1>6, <1>11 DEF Has, Replied, pipeVars
  <2>3. \A t, u \in tokens' : t.request = u.request => t = u
    BY <1>3 DEF IInv, Served
  <2>4. \A t \in tokens' : t.helper = helper'
    BY <1>3 DEF IInv, Served
  <2>5. \A x \in Requests : x \in helperGate'.held <=> Parked(x)'
    BY <1>7, <1>12 DEF IInv, Served
  <2>6. ASSUME NEW x \in replies', x.ok <=> x.type = "released"
        PROVE  ~Parked(x.request)'
    <3>1. x \in replies
      BY <1>3 DEF pipeVars
    <3>2. x.request \in Requests /\ ~Parked(x.request)
      BY <2>6, <3>1, RequestsKnown DEF IInv, Served
    <3>3. x.request # r
      BY <1>11, <3>1 DEF Replied
    <3> QED
      BY <1>12, <3>2, <3>3
  <2> QED
    BY <1>8, <2>1, <2>2, <2>3, <2>4, <2>5, <2>6 DEF Served, Ordered
<1>18. Relied'
  <2>1. Sent(mailbox, "release", borrow.request)' => borrow'.step \in {"canceled", "released", "retained"}
    <3>1. PICK b : b = borrow.request
      OBVIOUS
    <3>2. Sent(mailbox, "release", b)' => borrow.step \in {"canceled", "released", "retained"}
      BY <1>14, <3>1 DEF IInv, Relied
    <3> QED
      BY <1>3, <3>1, <3>2 DEF Sent, hostVars
  <2> QED
    BY <1>3, <2>1 DEF IInv, Relied, hostVars, pipeVars
<1>19. Owned'
  BY <1>3, <1>4, <1>12, <1>14 DEF IInv, Owned, hostVars
<1> QED
  BY <1>9, <1>10, <1>16, <1>17, <1>18, <1>19 DEF IInv

\* Every step of the helper's main thread
LEMMA ControlStep == IInv /\ (\E R \in SUBSET AllDead : Control(R)) => IInv'
<1> SUFFICES ASSUME IInv, NEW R \in SUBSET AllDead, Control(R)
             PROVE  IInv'
  OBVIOUS
<1> QED
  BY RefusedStep, DrainedStep, ExpiredStep, CancelStep, ReleaseStep, IdleStep DEF Control

-------------------------------------------------------------------------------
(* Death and restart                                                       *)

\* The gate of a new process.
LEMMA GateOpens == Open \in GateType /\ Open.held = {} /\ Open.inside = {}
<1>1. [h \in 1 .. MaxHost |-> 0] \in [1 .. MaxHost -> 0 .. MaxId]
  BY BoundsAssumption, SMTT(60)
<1> QED
  BY <1>1 DEF Open, GateType

\* A new host process has a number nothing in the helper bears.
LEMMA HostDiesStep == IInv /\ HostDies => IInv'
<1> SUFFICES ASSUME IInv, HostDies
             PROVE  IInv'
  OBVIOUS
<1>1. /\ host < MaxHost /\ host' = host + 1 /\ hostGate' = Open /\ nextId' = 1 /\ borrow' = NoBorrow
      /\ conn' = 0 /\ replies' = {} /\ Abandon("host") /\ UNCHANGED <<epochs, helperVars>>
  BY DEF HostDies
<1>T. host \in 1 .. MaxHost /\ mutex \in MutexType
  BY TypeParts DEF IInv
<1>2. host' \in 1 .. MaxHost /\ nextId' \in 1 .. MaxId + 1 /\ conn' \in 0 .. MaxEpoch
  BY <1>1, <1>T, BoundsAssumption, SMTT(60)
<1>3. borrow' \in BorrowType /\ borrow'.step = "idle" /\ borrow'.request = NoRequest
  BY <1>1 DEF NoBorrow, BorrowType, Steps
<1>4. mutex' \in MutexType /\ (mutex'.owner = "helper" <=> mutex.owner = "helper")
  <2>1. CASE mutex.owner = "host" /\ mutex' = [owner |-> "none", abandoned |-> TRUE]
    BY <2>1 DEF MutexType
  <2>2. CASE mutex' = mutex
    BY <1>T, <2>2
  <2> QED
    BY <1>1, <2>1, <2>2 DEF Abandon
<1>5. Typed'
  BY <1>1, <1>2, <1>3, <1>4, GateOpens, TypeParts, TypeFrom DEF IInv, helperVars
<1>6. Still'
  BY <1>1, <1>3, <1>4 DEF IInv, Still, helperVars
<1>7. Served' /\ (\A r : Known(r)' => Known(r)) /\ (\A r : Parked(r)' <=> Parked(r))
  BY <1>1, PeerKept DEF helperVars
<1>8. \A type, r : Sent(mailbox, type, r)' <=> Sent(mailbox, type, r)
  BY <1>1 DEF Sent, helperVars
<1>9. \A r \in Requests : Known(r) => r.host < host'
  <2>1. \A r \in Requests : r.host < host \/ r.host = host => r.host < host'
    BY <1>1, <1>T, SMTT(60) DEF Requests
  <2> QED
    BY <2>1 DEF IInv, Numbered
<1>10. Numbered'
  <2>1. borrow'.step \notin Tokened /\ borrow'.step \notin {"closing", "closed"}
    BY <1>3 DEF Tokened, Relying
  <2>2. \A r \in Requests : Known(r)' => r.host < host'
    BY <1>7, <1>9
  <2> QED
    BY <1>3, <2>1, <2>2 DEF Numbered
<1>11. Relied'
  <2>1. ~Sent(mailbox, "release", borrow.request)'
    BY <1>1, <1>3, RequestsKnown, NoRequestIsNone DEF IInv, Sent, helperVars
  <2>2. borrow'.step \notin Relying
    BY <1>3 DEF Relying
  <2> QED
    BY <1>1, <2>1, <2>2 DEF Relied
<1>12. Owned'
  <2>1. \A r \in Requests : (Sent(mailbox, "acquire", r) \/ Parked(r))' => Known(r)
    BY <1>7, <1>8 DEF Known
  <2>2. \A r \in Requests : r.host < host' => r.host # host'
    BY <1>2, SMTT(60) DEF Requests
  <2> QED
    BY <1>9, <2>1, <2>2 DEF Owned
<1> QED
  BY <1>5, <1>6, <1>7, <1>10, <1>11, <1>12 DEF IInv

\* A new helper process holds nothing; what the host relied on is another's.
LEMMA HelperDiesStep == IInv /\ HelperDies => IInv'
<1> SUFFICES ASSUME IInv, HelperDies
             PROVE  IInv'
  OBVIOUS
<1>1. /\ helper < MaxHelper /\ helper' = helper + 1 /\ helperGate' = Open /\ mailbox' = <<>> /\ tokens' = {}
      /\ serving' = NotServing /\ writing' = {} /\ conn' = 0 /\ epochs' = 0 /\ replies' = {}
      /\ Abandon("helper") /\ UNCHANGED hostVars
  BY DEF HelperDies
<1>T. helper \in 1 .. MaxHelper /\ mutex \in MutexType /\ borrow \in BorrowType
  BY TypeParts DEF IInv
<1>2. helper' \in 1 .. MaxHelper /\ conn' \in 0 .. MaxEpoch /\ epochs' \in 0 .. MaxEpoch
  BY <1>1, <1>T, BoundsAssumption, SMTT(60)
<1>3. mailbox' \in Seq(Messages) /\ DOMAIN mailbox' = {} /\ serving' \in ServingType
  <2>1. mailbox' \in Seq(Messages) /\ DOMAIN mailbox' = {}
    BY <1>1, SMTT(60)
  <2> QED
    BY <1>1, <2>1 DEF ServingType
<1>4. mutex' \in MutexType /\ mutex'.owner # "helper" /\ (mutex.owner = "host" => mutex'.owner = "host")
  <2>1. CASE mutex.owner = "helper" /\ mutex' = [owner |-> "none", abandoned |-> TRUE]
    BY <2>1 DEF MutexType
  <2>2. CASE mutex.owner # "helper" /\ mutex' = mutex
    BY <1>T, <2>2
  <2> QED
    BY <1>1, <2>1, <2>2 DEF Abandon
<1>5. Typed'
  BY <1>1, <1>2, <1>3, <1>4, GateOpens, TypeParts, TypeFrom DEF IInv, hostVars
<1>6. Still'
  BY <1>1, <1>4 DEF IInv, Still, hostVars
<1>7. \A type, r : ~Sent(mailbox, type, r)'
  BY <1>3 DEF Sent
<1>8. \A r \in Requests : ~Parked(r)'
  <2>1. NotServing.request = NoRequest
    BY DEF NotServing
  <2> QED
    BY <1>1, <2>1, NoRequestIsNone DEF Parked, Has
<1>9. \A r : ~Replied(r)'
  BY <1>1 DEF Replied
<1>10. \A r \in Requests : ~Known(r)'
  BY <1>7, <1>8, <1>9 DEF Known
<1>11. Numbered'
  <2>1. borrow.step \in Tokened => borrow.token.helper <= helper'
    <3>1. ASSUME borrow.token \in Tokens, borrow.token.helper <= helper
          PROVE  borrow.token.helper <= helper'
      BY <1>1, <1>T, <3>1, SMTT(60) DEF Tokens
    <3> QED
      BY <3>1 DEF IInv, Numbered
  <2>2. PICK b : b = borrow.request
    OBVIOUS
  <2>3. borrow.step # "idle" => b \in Requests
    <3>1. hostGate \in GateType
      BY TypeParts DEF IInv
    <3> QED
      BY <2>2, <3>1 DEF IInv, Still, GateType
  <2>4. borrow.step # "idle" => ~Known(b)'
    BY <1>10, <2>3
  <2>5. borrow'.step \in {"closing", "closed"} => ~Known(borrow.request)'
    BY <1>1, <2>2, <2>4 DEF hostVars, Known, Sent, Parked, Has, Replied
  <2> QED
    BY <1>1, <1>10, <2>1, <2>5 DEF IInv, Numbered, hostVars
<1>12. Served'
  <2>1. Ordered(mailbox)'
    BY <1>3 DEF Ordered
  <2>2. \A r \in Requests : r \in helperGate'.held <=> Parked(r)'
    BY <1>1, <1>8, GateOpens
  <2> QED
    BY <1>1, <1>3, <1>7, <2>1, <2>2 DEF Served
<1>13. Relied'
  <2>1. ~Sent(mailbox, "release", borrow.request)'
    BY <1>3 DEF Sent
  <2>2. borrow'.step \in Relying => borrow'.token.helper # helper'
    <3>1. ASSUME borrow.token \in Tokens, borrow.token.helper <= helper
          PROVE  borrow.token.helper # helper'
      BY <1>1, <1>T, <3>1, SMTT(60) DEF Tokens
    <3> QED
      BY <1>1, <3>1 DEF IInv, Numbered, Tokened, hostVars
  <2> QED
    BY <1>1, <2>1, <2>2 DEF Relied
<1>14. Owned'
  BY <1>7, <1>8 DEF Owned
<1> QED
  BY <1>5, <1>6, <1>11, <1>12, <1>13, <1>14 DEF IInv

-------------------------------------------------------------------------------
(* The theorems                                                            *)

\* Nothing is asked for in the beginning.
LEMMA BorrowInit == Init => IInv
<1> SUFFICES ASSUME Init
             PROVE  IInv
  OBVIOUS
<1>1. /\ host = 1 /\ helper = 1 /\ hostGate = Open /\ helperGate = Open /\ nextId = 1 /\ borrow = NoBorrow
      /\ conn = 0 /\ epochs = 0 /\ mailbox = <<>> /\ tokens = {} /\ serving = NotServing /\ replies = {}
      /\ mutex = [owner |-> "none", abandoned |-> FALSE] /\ writing = {}
  BY DEF Init
<1>2. /\ host \in 1 .. MaxHost /\ helper \in 1 .. MaxHelper /\ nextId \in 1 .. MaxId + 1
      /\ conn \in 0 .. MaxEpoch /\ epochs \in 0 .. MaxEpoch
  BY <1>1, BoundsAssumption, SMTT(60)
<1>3. mailbox \in Seq(Messages) /\ DOMAIN mailbox = {}
  BY <1>1, SMTT(60)
<1>4. /\ borrow \in BorrowType /\ borrow.step = "idle" /\ borrow.request = NoRequest
      /\ mutex \in MutexType /\ mutex.owner = "none" /\ NotServing.request = NoRequest
  BY <1>1 DEF NoBorrow, BorrowType, Steps, MutexType, NotServing
<1>5. Typed
  BY <1>1, <1>2, <1>3, <1>4, GateOpens DEF Typed, TypeOK, BorrowType, MutexType
<1>6. Still
  BY <1>1, <1>4 DEF Still
<1>7. \A type, r : ~Sent(mailbox, type, r)
  BY <1>3 DEF Sent
<1>8. \A r \in Requests : ~Parked(r) /\ ~Replied(r)
  BY <1>1, <1>4, NoRequestIsNone DEF Parked, Has, Replied
<1>9. Numbered
  BY <1>4, <1>7, <1>8 DEF Numbered, Known, Tokened, Relying
<1>10. Served
  BY <1>1, <1>3, <1>7, <1>8, GateOpens DEF Served, Ordered
<1>11. Relied
  BY <1>1, <1>4, <1>7 DEF Relied, Relying
<1>12. Owned
  BY <1>7, <1>8 DEF Owned
<1> QED
  BY <1>5, <1>6, <1>9, <1>10, <1>11, <1>12 DEF IInv

\* Every step of either process, its death included, preserves the invariant.
LEMMA BorrowInvariance == Spec => []IInv
<1>1. IInv /\ [Next]_vars => IInv'
  BY WriterStep, PipeStep, BeginStep, ConsumerStep, AcquireBeginStep, ControlStep, HostDiesStep, HelperDiesStep DEF Next
<1> QED
  BY <1>1, BorrowInit, PTL DEF Spec

\* The types of both processes' state, of the frames between them and of what
\* is answered, for any number of processes, requests and connections.
THEOREM BorrowTypes == Spec => []TypeOK
<1>1. IInv => TypeOK
  BY DEF IInv, Typed
<1> QED
  BY <1>1, BorrowInvariance, PTL

\* While a borrow is published no thread of the host or of any helper process
\* is changing a display, whoever died or restarted meanwhile.
THEOREM BorrowedIsStillHolds == Spec => []BorrowedIsStill
<1>1. IInv => BorrowedIsStill
  <2> SUFFICES ASSUME IInv, At("published")
               PROVE  /\ hostGate.inside = {} /\ Inhibited(hostGate)
                      /\ writing = {} /\ mutex.owner = "host"
    BY DEF BorrowedIsStill
  <2>1. borrow.step = "published"
    BY DEF At
  <2>2. hostGate.inside = {} /\ borrow.request \in hostGate.held /\ mutex.owner = "host"
    BY <2>1 DEF IInv, Still
  <2>3. writing = {}
    BY <2>2 DEF IInv, Still
  <2> QED
    BY <2>2, <2>3 DEF Inhibited
<1> QED
  BY <1>1, BorrowInvariance, PTL

\* As long as its helper lives, the token of a published borrow is held, and
\* the helper is never parked by a request that its live host has forgotten.
THEOREM HoldersAgreeHolds == Spec => []HoldersAgree
<1>1. IInv => HoldersAgree
  <2> SUFFICES ASSUME IInv
               PROVE  HoldersAgree
    OBVIOUS
  <2>1. ASSUME At("published"), Alive(borrow.token.helper)
        PROVE  borrow.token \in tokens /\ borrow.request \in helperGate.held
    <3>1. borrow.step = "published" /\ borrow.token.helper = helper
      BY <2>1 DEF At, Alive
    <3>2. borrow.token \in tokens
      BY <3>1 DEF IInv, Relied, Relying
    <3>3. borrow.token.request = borrow.request
      BY <3>1 DEF IInv, Numbered, Tokened, Relying
    <3>4. borrow.request \in Requests
      BY <3>2, <3>3, RequestsKnown DEF IInv
    <3> QED
      BY <3>2, <3>3, <3>4 DEF IInv, Served, Parked, Has
  <2>2. ASSUME NEW r \in helperGate.held, r.host = host
        PROVE  r \in hostGate.held \/ hostGate.permanent
    <3>1. helperGate \in GateType
      BY TypeParts DEF IInv
    <3>2. r \in Requests
      BY <3>1 DEF GateType
    <3> QED
      BY <2>2, <3>2 DEF IInv, Served, Owned
  <2> QED
    BY <2>1, <2>2 DEF HoldersAgree
<1> QED
  BY <1>1, BorrowInvariance, PTL

-------------------------------------------------------------------------------
(* The consumer is the host's side of one borrow; the lease registry       *)
(* shares its borrows among the clients (TargetLease).  Its results are    *)
(* not inductive by themselves: the barrier's counter must count exactly   *)
(* the holds that are not free (Counted); a hold must be live exactly      *)
(* while something refers to it (OwnedIsLive), so that a free one is       *)
(* nobody's; and whatever refers to a hold on behalf of a client, an owner *)
(* or an acquire() in its probe, must agree on the client (Agreed).  The   *)
(* registry's tokens are called lent here.                                 *)

CONSTANTS Clients, Borrowers, Mutators, Bindings, Holds, NoHold, Nobody, MaxGeneration, MaxNesting
VARIABLES borrowers, mutations, mutator, uncertain, fence, owners, observed, released, closed,
          hold, lent, attempt

Lease == INSTANCE TargetLease WITH tokens <- lent

\* What TargetLease assumes of its constants.
LeaseConstants == Lease!HoldsAreFinite /\ Lease!NobodyIsNone /\ Lease!BoundsAreNumbers

HoldType == [state : {"free", "live", "dying"}, binding : Bindings \union {Nobody}]

LeaseTyped ==
    /\ borrowers \in Nat /\ mutations \in Nat
    /\ owners \in [Clients -> [generation : Nat, hold : Holds \union {NoHold}]]
    /\ observed \in [Clients -> Nat] /\ released \in [Clients -> Nat]
    /\ hold \in [Holds -> HoldType]
    /\ lent \subseteq Holds
    /\ attempt \in [Borrowers -> [client : Clients \union {Nobody}, generation : Nat,
                                  hold : Holds \union {NoHold}, previous : Holds \union {NoHold}]]

InUse(hs) == {h \in Holds : hs[h].state # "free"}

Counted ==
    /\ borrowers = Cardinality(InUse(hold))
    /\ mutations # 0 => borrowers = 0

Agreed ==
    /\ \A c \in Clients : Lease!Owned(c) => owners[c].hold \in Holds
    /\ \A t \in Borrowers : attempt[t] # Lease!NoAttempt => attempt[t].client \in Clients /\ attempt[t].hold \in Holds
    /\ \A t \in Borrowers : attempt[t].previous \in {attempt[t].hold, NoHold}
    /\ \A c, d \in Clients : Lease!Owned(c) /\ Lease!Owned(d) /\ owners[c].hold = owners[d].hold => c = d
    /\ \A c \in Clients, t \in Borrowers :
          Lease!Owned(c) /\ attempt[t] # Lease!NoAttempt /\ attempt[t].hold = owners[c].hold => attempt[t].client = c
    /\ \A t, u \in Borrowers :
          attempt[t] # Lease!NoAttempt /\ attempt[u] # Lease!NoAttempt /\ attempt[t].hold = attempt[u].hold
             => attempt[t].client = attempt[u].client

LeaseInv ==
    /\ LeaseConstants
    /\ LeaseTyped /\ Counted /\ Lease!OwnedIsLive /\ Agreed /\ Lease!ReleasedStaysReleased
    /\ closed => \A c \in Clients : ~Lease!Owned(c)

-------------------------------------------------------------------------------
(* Lease: holds and their references                                       *)

\* What the proofs use of it.
LEMMA LeaseKnown ==
    LeaseConstants \/ LeaseInv => IsFiniteSet(Holds) /\ NoHold \notin Holds /\ MaxGeneration \in Nat
BY DEF LeaseInv, LeaseConstants, Lease!HoldsAreFinite, Lease!BoundsAreNumbers, IsFiniteSet,
       Lease!IsFiniteSet

\* Every set of holds is finite.
LEMMA UseIsFinite ==
    ASSUME LeaseConstants
    PROVE  \A hs : IsFiniteSet(InUse(hs)) /\ Cardinality(InUse(hs)) \in Nat
<1>1. \A hs : IsFiniteSet(InUse(hs))
  BY LeaseKnown, FS_Subset DEF InUse
<1> QED
  BY <1>1, FS_CardinalityType

\* Dropping the unreferenced holds frees none yet, and leaves exactly the
\* referenced ones live.
LEMMA DropExact ==
    ASSUME NEW hs \in [Holds -> HoldType], NEW os, NEW ts, NEW as
    PROVE  LET ds == Lease!DropUnreferenced(hs, os, ts, as)
           IN  /\ ds \in [Holds -> HoldType]
               /\ InUse(ds) = InUse(hs)
               /\ \A h \in Holds : ds[h].state = "live" <=> hs[h].state = "live" /\ Lease!Referenced(h, os, ts, as)
<1> DEFINE ds == Lease!DropUnreferenced(hs, os, ts, as)
<1>1. \A h \in Holds : ds[h] = IF hs[h].state = "live" /\ ~Lease!Referenced(h, os, ts, as)
                               THEN [hs[h] EXCEPT !.state = "dying"] ELSE hs[h]
  BY DEF Lease!DropUnreferenced
<1>2. \A h \in Holds : [hs[h] EXCEPT !.state = "dying"] \in HoldType /\ [hs[h] EXCEPT !.state = "dying"].state = "dying"
  BY DEF HoldType
<1>3. ds \in [Holds -> HoldType]
  BY <1>2 DEF Lease!DropUnreferenced
<1>4. \A h \in Holds : ds[h].state = "live" <=> hs[h].state = "live" /\ Lease!Referenced(h, os, ts, as)
  BY <1>1, <1>2
<1>5. \A h \in Holds : ds[h].state # "free" <=> hs[h].state # "free"
  BY <1>1, <1>2
<1>6. InUse(ds) = InUse(hs)
  BY <1>5 DEF InUse
<1> QED
  BY <1>3, <1>4, <1>6

\* A step that takes references away and drops what nothing refers to.
LEMMA Shrinks ==
    ASSUME LeaseTyped, Counted, Lease!OwnedIsLive, UNCHANGED <<borrowers, mutations>>,
           hold' = Lease!DropUnreferenced(hold, owners', lent', attempt'),
           \A h \in Holds : Lease!Referenced(h, owners', lent', attempt') => Lease!Referenced(h, owners, lent, attempt)
    PROVE  hold' \in [Holds -> HoldType] /\ Counted' /\ Lease!OwnedIsLive'
<1>1. /\ hold' \in [Holds -> HoldType]
      /\ InUse(hold') = InUse(hold)
      /\ \A h \in Holds : hold'[h].state = "live"
             <=> hold[h].state = "live" /\ Lease!Referenced(h, owners', lent', attempt')
  BY DropExact, SMTT(60) DEF LeaseTyped
<1>2. Lease!OwnedIsLive'
  BY <1>1 DEF Lease!OwnedIsLive
<1>3. Counted'
  BY <1>1 DEF Counted
<1> QED
  BY <1>1, <1>2, <1>3

\* A step that leaves the holds and the barrier's counters alone.
LEMMA HoldsKept ==
    ASSUME LeaseTyped, Counted, Lease!OwnedIsLive, UNCHANGED <<borrowers, mutations, hold>>,
           \A h \in Holds : Lease!Referenced(h, owners', lent', attempt') <=> Lease!Referenced(h, owners, lent, attempt)
    PROVE  hold' \in [Holds -> HoldType] /\ Counted' /\ Lease!OwnedIsLive'
BY DEF LeaseTyped, Counted, Lease!OwnedIsLive, InUse

\* Owners that go and attempts that end leave the rest in agreement.
LEMMA FewerAgree ==
    ASSUME LeaseTyped, Agreed, Lease!ReleasedStaysReleased,
           \A c \in Clients : owners'[c] = owners[c] \/ owners'[c] = Lease!NoOwner,
           \A c \in Clients : Lease!Owned(c)' => released'[c] = released[c],
           \A t \in Borrowers : attempt'[t] = attempt[t] \/ attempt'[t] = Lease!NoAttempt
    PROVE  Agreed' /\ Lease!ReleasedStaysReleased'
<1>1. \A c \in Clients : Lease!Owned(c)' => Lease!Owned(c) /\ owners'[c] = owners[c]
  BY DEF Lease!Owned
<1>2. \A t \in Borrowers : attempt'[t] # Lease!NoAttempt => attempt'[t] = attempt[t]
  OBVIOUS
<1>0. Lease!NoAttempt.previous = NoHold
  BY DEF Lease!NoAttempt
<1>3. \A t \in Borrowers : attempt'[t].previous \in {attempt'[t].hold, NoHold}
  BY <1>0 DEF Agreed
<1>5. Agreed'
  BY <1>1, <1>2, <1>3, SMTT(60) DEF Agreed
<1>4. Lease!ReleasedStaysReleased'
  BY <1>1 DEF Lease!ReleasedStaysReleased
<1> QED
  BY <1>4, <1>5

-------------------------------------------------------------------------------
(* Lease: one lemma per action                                             *)

LEMMA LeaseInit == LeaseConstants /\ Lease!Init => LeaseInv
<1> SUFFICES ASSUME LeaseConstants, Lease!Init PROVE LeaseInv
  OBVIOUS
<1>1. LeaseTyped
  BY DEF Lease!Init, LeaseTyped, HoldType, Lease!NoOwner, Lease!NoAttempt, Lease!Free
<1>2. InUse(hold) = {}
  BY DEF Lease!Init, InUse, Lease!Free
<1>3. Counted
  BY <1>2, FS_EmptySet DEF Lease!Init, Counted
<1>4. Lease!OwnedIsLive
  BY LeaseKnown DEF Lease!Init, Lease!OwnedIsLive, Lease!Referenced, Lease!NoOwner, Lease!NoAttempt, Lease!Free
<1>5. Agreed
  BY DEF Lease!Init, Agreed, Lease!Owned, Lease!NoAttempt
<1>6. Lease!ReleasedStaysReleased
  BY DEF Lease!Init, Lease!ReleasedStaysReleased, Lease!Owned
<1>7. closed => \A c \in Clients : ~Lease!Owned(c)
  BY DEF Lease!Init
<1> QED
  BY <1>1, <1>3, <1>4, <1>5, <1>6, <1>7 DEF LeaseInv

LEMMA BeginOwned ==
    ASSUME LeaseInv, NEW t \in Borrowers, NEW c \in Clients, NEW g \in Lease!Generations, NEW b \in Bindings,
           Lease!AcquireBegin(t, c, g, b), Lease!Owned(c)
    PROVE  LeaseInv'
<1> DEFINE a == [client |-> c, generation |-> g, hold |-> owners[c].hold, previous |-> owners[c].hold]
<1>1. /\ attempt' = [attempt EXCEPT ![t] = a]
      /\ observed' = [observed EXCEPT ![c] = g]
      /\ UNCHANGED <<borrowers, hold, mutations, owners, released, closed, lent>>
  BY DEF Lease!AcquireBegin
<1>2. owners[c].hold \in Holds /\ attempt[t] = Lease!NoAttempt
  BY DEF LeaseInv, Agreed, Lease!AcquireBegin
<1>3. \A u \in Borrowers : attempt'[u] = IF u = t THEN a ELSE attempt[u]
  BY <1>1 DEF LeaseInv, LeaseTyped
<1>4. LeaseTyped'
  BY <1>1, <1>2, LeaseKnown, SMTT(60) DEF LeaseInv, LeaseTyped, Lease!Generations
<1>5. \A h \in Holds : Lease!Referenced(h, owners', lent', attempt') <=> Lease!Referenced(h, owners, lent, attempt)
  BY <1>1, <1>2, <1>3, LeaseKnown, SMTT(60) DEF Lease!Referenced, Lease!NoAttempt
<1>6. Counted' /\ Lease!OwnedIsLive'
  BY <1>1, <1>5, HoldsKept DEF LeaseInv
<1>7. Agreed'
  BY <1>1, <1>2, <1>3, SMTT(60) DEF LeaseInv, Agreed, Lease!Owned
<1>8. Lease!ReleasedStaysReleased' /\ (closed => \A d \in Clients : ~Lease!Owned(d))'
  BY <1>1 DEF LeaseInv, Lease!ReleasedStaysReleased, Lease!Owned
<1> QED
  BY <1>4, <1>6, <1>7, <1>8 DEF LeaseInv

LEMMA BeginFresh ==
    ASSUME LeaseInv, NEW t \in Borrowers, NEW c \in Clients, NEW g \in Lease!Generations, NEW b \in Bindings,
           Lease!AcquireBegin(t, c, g, b), ~Lease!Owned(c)
    PROVE  LeaseInv'
<1>1. PICK h \in Holds :
          /\ hold[h] = Lease!Free
          /\ hold' = [hold EXCEPT ![h] = [state |-> "live", binding |-> b]]
          /\ attempt' = [attempt EXCEPT ![t] = [client |-> c, generation |-> g, hold |-> h, previous |-> NoHold]]
  BY DEF Lease!AcquireBegin
<1> DEFINE a == [client |-> c, generation |-> g, hold |-> h, previous |-> NoHold]
<1>2. /\ borrowers' = borrowers + 1
      /\ observed' = [observed EXCEPT ![c] = g]
      /\ UNCHANGED <<mutations, owners, released, closed, lent>>
      /\ mutations = 0
      /\ attempt[t] = Lease!NoAttempt
  BY DEF Lease!AcquireBegin, Lease!Blocked
<1>3. \A u \in Borrowers : attempt'[u] = IF u = t THEN a ELSE attempt[u]
  BY <1>1 DEF LeaseInv, LeaseTyped
<1>4. \A k \in Holds : hold'[k] = IF k = h THEN [state |-> "live", binding |-> b] ELSE hold[k]
  BY <1>1 DEF LeaseInv, LeaseTyped
<1>5. [state |-> "live", binding |-> b] \in HoldType
  BY DEF HoldType
<1>6. LeaseTyped'
  BY <1>1, <1>2, <1>5, LeaseKnown, SMTT(60) DEF LeaseInv, LeaseTyped, Lease!Generations
<1>7. ~Lease!Referenced(h, owners, lent, attempt)
  BY <1>1, SMTT(60) DEF LeaseInv, Lease!OwnedIsLive, Lease!Free
<1>8. \A k \in Holds : Lease!Referenced(k, owners', lent', attempt')
                         <=> k = h \/ Lease!Referenced(k, owners, lent, attempt)
  BY <1>2, <1>3, LeaseKnown, SMTT(60) DEF Lease!Referenced, Lease!NoAttempt
<1>9. Lease!OwnedIsLive'
  BY <1>4, <1>8, SMTT(60) DEF LeaseInv, Lease!OwnedIsLive
<1>10. InUse(hold') = InUse(hold) \union {h} /\ h \notin InUse(hold)
  BY <1>1, <1>4, SMTT(60) DEF InUse, Lease!Free
<1>11. Cardinality(InUse(hold')) = Cardinality(InUse(hold)) + 1
  BY <1>10, UseIsFinite, FS_AddElement DEF LeaseInv
<1>12. Counted'
  BY <1>2, <1>11 DEF LeaseInv, Counted
<1>13. Agreed'
  BY <1>2, <1>3, <1>7, SMTT(60) DEF LeaseInv, Agreed, Lease!Owned, Lease!Referenced
<1>14. Lease!ReleasedStaysReleased' /\ (closed => \A d \in Clients : ~Lease!Owned(d))'
  BY <1>2 DEF LeaseInv, Lease!ReleasedStaysReleased, Lease!Owned
<1> QED
  BY <1>6, <1>9, <1>12, <1>13, <1>14 DEF LeaseInv

LEMMA PublishStep ==
    ASSUME LeaseInv, NEW t \in Borrowers, Lease!AcquirePublish(t)
    PROVE  LeaseInv'
<1> DEFINE a == attempt[t]
           o == [generation |-> a.generation, hold |-> a.hold]
<1>1. /\ a # Lease!NoAttempt /\ ~Lease!Superseded(a)
      /\ owners' = [owners EXCEPT ![a.client] = o]
      /\ lent' = lent \union {a.hold}
      /\ attempt' = [attempt EXCEPT ![t] = Lease!NoAttempt]
      /\ UNCHANGED <<borrowers, mutations, observed, released, closed, hold>>
  BY DEF Lease!AcquirePublish, Lease!barrierVars
<1>2. a.client \in Clients /\ a.hold \in Holds /\ a.generation \in Nat
  BY <1>1 DEF LeaseInv, Agreed, LeaseTyped
<1>3. \A c \in Clients : owners'[c] = IF c = a.client THEN o ELSE owners[c]
  BY <1>1 DEF LeaseInv, LeaseTyped
<1>4. \A u \in Borrowers : attempt'[u] = IF u = t THEN Lease!NoAttempt ELSE attempt[u]
  BY <1>1 DEF LeaseInv, LeaseTyped
<1>5. \A c \in Clients : owners[c].hold = a.hold \/ owners'[c] = owners[c] \/ owners[c] = Lease!NoOwner
  BY <1>1, <1>2, <1>3, LeaseKnown, SMTT(60) DEF Lease!Superseded, LeaseInv, Agreed, Lease!Owned
<1>6. LeaseTyped'
  <2>1. Lease!NoAttempt \in [client : Clients \union {Nobody}, generation : Nat,
                       hold : Holds \union {NoHold}, previous : Holds \union {NoHold}]
    BY DEF Lease!NoAttempt
  <2> QED
    BY <1>1, <1>2, <2>1 DEF LeaseInv, LeaseTyped
<1>7. \A h \in Holds : Lease!Referenced(h, owners', lent', attempt') <=> Lease!Referenced(h, owners, lent, attempt)
  <2> TAKE h \in Holds
  <2>1. Lease!NoOwner.hold # h /\ Lease!NoAttempt.hold # h
    BY LeaseKnown DEF Lease!NoOwner, Lease!NoAttempt
  <2>2. CASE h = a.hold
    BY <1>1, <2>2 DEF Lease!Referenced
  <2>3. CASE h # a.hold
    BY <1>1, <1>3, <1>4, <1>5, <2>1, <2>3, SMTT(60) DEF Lease!Referenced
  <2> QED
    BY <2>2, <2>3
<1>8. Counted' /\ Lease!OwnedIsLive'
  BY <1>1, <1>7, HoldsKept DEF LeaseInv
<1>9. \A c \in Clients : Lease!Owned(c)' /\ c # a.client => Lease!Owned(c) /\ owners'[c] = owners[c]
  BY <1>3 DEF Lease!Owned
<1>10. Agreed'
  <2>1. \A u \in Borrowers : attempt'[u].previous \in {attempt'[u].hold, NoHold}
    BY <1>4, SMTT(60) DEF LeaseInv, Agreed, Lease!NoAttempt
  <2>2. \A c \in Clients : Lease!Owned(c)' => owners'[c].hold \in Holds
    BY <1>2, <1>3, <1>9, SMTT(60) DEF LeaseInv, Agreed
  <2>3. \A c, d \in Clients : Lease!Owned(c)' /\ Lease!Owned(d)' /\ owners'[c].hold = owners'[d].hold => c = d
    BY <1>1, <1>2, <1>3, <1>9, SMTT(60) DEF LeaseInv, Agreed
  <2>4. \A c \in Clients, u \in Borrowers :
          Lease!Owned(c)' /\ attempt'[u] # Lease!NoAttempt /\ attempt'[u].hold = owners'[c].hold => attempt'[u].client = c
    BY <1>1, <1>2, <1>3, <1>4, <1>9, SMTT(60) DEF LeaseInv, Agreed
  <2> QED
    BY <1>4, <2>1, <2>2, <2>3, <2>4, SMTT(60) DEF LeaseInv, Agreed
<1>11. Lease!ReleasedStaysReleased'
  BY <1>1, <1>2, <1>3, <1>9, SMTT(60) DEF LeaseInv, Lease!ReleasedStaysReleased, Lease!Superseded, LeaseTyped
<1>12. ~closed'
  BY <1>1 DEF Lease!Superseded
<1> QED
  BY <1>6, <1>8, <1>10, <1>11, <1>12 DEF LeaseInv

\* The steps that only take references away: a failed acquire, a dropped
\* token, release, revoke and shutdown.
LEMMA TakesAway ==
    ASSUME LeaseInv, UNCHANGED <<borrowers, mutations>>, lent' \subseteq lent,
           owners' \in [Clients -> [generation : Nat, hold : Holds \union {NoHold}]],
           observed' \in [Clients -> Nat], released' \in [Clients -> Nat],
           \A c \in Clients : owners'[c] = owners[c] \/ owners'[c] = Lease!NoOwner,
           \A c \in Clients : Lease!Owned(c)' => released'[c] = released[c],
           closed' => closed \/ (\A c \in Clients : owners'[c] = Lease!NoOwner),
           \/ attempt' = attempt
           \/ \E t \in Borrowers : attempt' = [attempt EXCEPT ![t] = Lease!NoAttempt],
           hold' = Lease!DropUnreferenced(hold, owners', lent', attempt')
    PROVE  LeaseInv'
<1>1. Lease!NoAttempt \in [client : Clients \union {Nobody}, generation : Nat,
                     hold : Holds \union {NoHold}, previous : Holds \union {NoHold}]
  BY DEF Lease!NoAttempt
<1>2. /\ attempt' \in [Borrowers -> [client : Clients \union {Nobody}, generation : Nat,
                                   hold : Holds \union {NoHold}, previous : Holds \union {NoHold}]]
      /\ \A t \in Borrowers : attempt'[t] = attempt[t] \/ attempt'[t] = Lease!NoAttempt
  BY <1>1 DEF LeaseInv, LeaseTyped
<1>3. \A h \in Holds : Lease!Referenced(h, owners', lent', attempt') => Lease!Referenced(h, owners, lent, attempt)
  BY <1>2, LeaseKnown, SMTT(60) DEF Lease!Referenced, Lease!NoOwner, Lease!NoAttempt
<1>4. hold' \in [Holds -> HoldType] /\ Counted' /\ Lease!OwnedIsLive'
  BY <1>3, Shrinks DEF LeaseInv
<1>5. LeaseTyped'
  BY <1>2, <1>4 DEF LeaseInv, LeaseTyped
<1>6. Agreed' /\ Lease!ReleasedStaysReleased'
  BY <1>2, FewerAgree DEF LeaseInv
<1>7. (closed => \A c \in Clients : ~Lease!Owned(c))'
  BY DEF LeaseInv, Lease!Owned
<1> QED
  BY <1>4, <1>5, <1>6, <1>7 DEF LeaseInv

LEMMA FailsStep == ASSUME LeaseInv, NEW t \in Borrowers, Lease!AcquireFails(t) PROVE LeaseInv'
BY TakesAway DEF Lease!AcquireFails, Lease!barrierVars, Lease!registryVars, LeaseInv, LeaseTyped, Lease!Owned

LEMMA DropTokenStep == ASSUME LeaseInv, NEW h \in Holds, Lease!DropToken(h) PROVE LeaseInv'
BY TakesAway DEF Lease!DropToken, Lease!barrierVars, Lease!registryVars, LeaseInv, LeaseTyped, Lease!Owned

LEMMA LeaseReleases ==
    ASSUME LeaseInv, NEW c \in Clients, NEW g \in Lease!Generations, Lease!Release(c, g)
    PROVE  LeaseInv'
<1>1. Lease!NoOwner \in [generation : Nat, hold : Holds \union {NoHold}]
  BY DEF Lease!NoOwner
<1>2. g \in Nat
  BY LeaseKnown, SMTT(60) DEF Lease!Generations
<1> QED
  BY <1>1, <1>2, TakesAway DEF Lease!Release, Lease!barrierVars, LeaseInv, LeaseTyped, Lease!Owned

LEMMA RevokeStep == ASSUME LeaseInv, NEW c \in Clients, Lease!Revoke(c) PROVE LeaseInv'
<1>1. Lease!NoOwner \in [generation : Nat, hold : Holds \union {NoHold}]
  BY DEF Lease!NoOwner
<1>2. Lease!Larger(Lease!Larger(released[c], observed[c]), owners[c].generation) \in Nat
  BY DEF Lease!Larger, LeaseInv, LeaseTyped
<1> QED
  BY <1>1, <1>2, TakesAway DEF Lease!Revoke, Lease!barrierVars, LeaseInv, LeaseTyped, Lease!Owned

LEMMA ShutdownStep == ASSUME LeaseInv, Lease!Shutdown PROVE LeaseInv'
<1>1. Lease!NoOwner \in [generation : Nat, hold : Holds \union {NoHold}]
  BY DEF Lease!NoOwner
<1> QED
  BY <1>1, TakesAway DEF Lease!Shutdown, Lease!barrierVars, LeaseInv, LeaseTyped, Lease!Owned

LEMMA DiesStep == ASSUME LeaseInv, NEW h \in Holds, Lease!HoldDies(h) PROVE LeaseInv'
<1>1. /\ hold[h].state = "dying"
      /\ hold' = [hold EXCEPT ![h] = Lease!Free]
      /\ borrowers' = borrowers - 1
      /\ UNCHANGED <<mutations, owners, observed, released, closed, lent, attempt>>
  BY DEF Lease!HoldDies, Lease!registryVars
<1>2. \A k \in Holds : hold'[k] = IF k = h THEN Lease!Free ELSE hold[k]
  BY <1>1 DEF LeaseInv, LeaseTyped
<1>3. h \in InUse(hold) /\ InUse(hold') = InUse(hold) \ {h}
  BY <1>1, <1>2, SMTT(60) DEF InUse, Lease!Free
<1>4. Cardinality(InUse(hold')) = Cardinality(InUse(hold)) - 1 /\ Cardinality(InUse(hold')) \in Nat
  BY <1>3, UseIsFinite, FS_RemoveElement DEF LeaseInv
<1>5. borrowers \in Nat /\ borrowers' \in Nat /\ borrowers # 0
  BY <1>1, <1>4, SMTT(60) DEF LeaseInv, LeaseTyped, Counted
<1>6. Counted'
  BY <1>1, <1>4, <1>5 DEF LeaseInv, Counted
<1>7. Lease!OwnedIsLive'
  BY <1>1, <1>2, SMTT(60) DEF LeaseInv, Lease!OwnedIsLive, Lease!Free
<1>8. Lease!Free \in HoldType
  BY DEF Lease!Free, HoldType
<1>9. LeaseTyped'
  BY <1>1, <1>5, <1>8 DEF LeaseInv, LeaseTyped
<1>10. Agreed' /\ Lease!ReleasedStaysReleased' /\ (closed => \A c \in Clients : ~Lease!Owned(c))'
  BY <1>1 DEF LeaseInv, Agreed, Lease!ReleasedStaysReleased, Lease!Owned
<1> QED
  BY <1>6, <1>7, <1>9, <1>10 DEF LeaseInv

LEMMA LeaseRefused ==
    ASSUME LeaseInv, NEW t \in Borrowers, NEW c \in Clients, NEW g \in Lease!Generations, NEW b \in Bindings,
           Lease!AcquireRefused(t, c, g, b)
    PROVE  LeaseInv'
<1>1. observed' \in [Clients -> Nat]
  BY LeaseKnown, SMTT(60) DEF Lease!AcquireRefused, LeaseInv, LeaseTyped, Lease!Generations
<1> QED
  BY <1>1, SMTT(60) DEF Lease!AcquireRefused, Lease!barrierVars, LeaseInv, LeaseTyped, Counted, Lease!OwnedIsLive, Agreed,
              Lease!ReleasedStaysReleased, Lease!Owned, Lease!Referenced

LEMMA SnapshotStep ==
    ASSUME LeaseInv, NEW c \in Clients, NEW g \in Lease!Generations, Lease!Snapshot(c, g)
    PROVE  LeaseInv'
<1>1. owners[c].hold \in Holds
  BY DEF Lease!Snapshot, LeaseInv, Agreed
<1>2. /\ lent' = lent \union {owners[c].hold}
      /\ UNCHANGED <<borrowers, mutations, owners, observed, released, closed, hold, attempt>>
  BY DEF Lease!Snapshot, Lease!barrierVars, Lease!registryVars
<1>3. \A h \in Holds : Lease!Referenced(h, owners', lent', attempt') <=> Lease!Referenced(h, owners, lent, attempt)
  BY <1>2 DEF Lease!Referenced
<1>4. Counted' /\ Lease!OwnedIsLive'
  BY <1>2, <1>3, HoldsKept DEF LeaseInv
<1>5. LeaseTyped'
  BY <1>1, <1>2 DEF LeaseInv, LeaseTyped
<1> QED
  BY <1>2, <1>4, <1>5 DEF LeaseInv, Agreed, Lease!ReleasedStaysReleased, Lease!Owned

\* Mutations and fences touch neither owners nor holds.
LEMMA MutationStep ==
    ASSUME LeaseInv, UNCHANGED <<borrowers, Lease!registryVars, hold, lent, attempt>>,
           mutations' \in Nat, mutations' # 0 => borrowers = 0
    PROVE  LeaseInv'
BY DEF Lease!registryVars, LeaseInv, LeaseTyped, Counted, InUse, Lease!OwnedIsLive, Agreed,
   Lease!ReleasedStaysReleased, Lease!Owned, Lease!Referenced

LEMMA BarrierStep ==
    ASSUME LeaseInv,
           \/ Lease!FenceUnknown \/ Lease!FenceUncertain
           \/ \E t \in Mutators : Lease!BeginMutation(t) \/ Lease!EndMutation(t) \/ Lease!CompletionUnknown(t)
    PROVE  LeaseInv'
<1>1. UNCHANGED <<borrowers, Lease!registryVars, hold, lent, attempt>>
  BY DEF Lease!FenceUnknown, Lease!FenceUncertain, Lease!BeginMutation, Lease!EndMutation, Lease!CompletionUnknown
<1>2. \/ UNCHANGED mutations
      \/ mutations' = mutations + 1 /\ borrowers = 0
      \/ mutations' = mutations - 1 /\ mutations # 0
  BY DEF Lease!FenceUnknown, Lease!FenceUncertain, Lease!BeginMutation, Lease!EndMutation, Lease!CompletionUnknown
<1>3. mutations' \in Nat /\ (mutations' # 0 => borrowers = 0)
  BY <1>2, SMTT(60) DEF LeaseInv, LeaseTyped, Counted
<1> QED
  BY <1>1, <1>3, MutationStep

-------------------------------------------------------------------------------
(* Lease: the theorems                                                     *)

LEMMA LeaseNext == LeaseInv /\ [Lease!Next]_(Lease!vars) => LeaseInv'
<1> SUFFICES ASSUME LeaseInv, [Lease!Next]_(Lease!vars) PROVE LeaseInv'
  OBVIOUS
<1>1. CASE \E t \in Borrowers, c \in Clients, g \in Lease!Generations, b \in Bindings :
              Lease!AcquireBegin(t, c, g, b) \/ Lease!AcquireRefused(t, c, g, b)
  BY <1>1, BeginOwned, BeginFresh, LeaseRefused
<1>2. CASE \E t \in Borrowers : Lease!AcquirePublish(t) \/ Lease!AcquireFails(t)
  BY <1>2, PublishStep, FailsStep
<1>3. CASE \E c \in Clients, g \in Lease!Generations : Lease!Snapshot(c, g) \/ Lease!Release(c, g)
  BY <1>3, SnapshotStep, LeaseReleases
<1>4. CASE \E c \in Clients : Lease!Revoke(c)
  BY <1>4, RevokeStep
<1>5. CASE \E h \in Holds : Lease!DropToken(h) \/ Lease!HoldDies(h)
  BY <1>5, DropTokenStep, DiesStep
<1>6. CASE Lease!Shutdown
  BY <1>6, ShutdownStep
<1>7. CASE \/ Lease!FenceUnknown \/ Lease!FenceUncertain
           \/ \E t \in Mutators : Lease!BeginMutation(t) \/ Lease!EndMutation(t) \/ Lease!CompletionUnknown(t)
  BY <1>7, BarrierStep
<1>8. CASE UNCHANGED Lease!vars
  BY <1>8 DEF Lease!vars, Lease!barrierVars, Lease!registryVars, LeaseInv, LeaseTyped, Counted, InUse, Lease!OwnedIsLive, Agreed,
              Lease!ReleasedStaysReleased, Lease!Owned, Lease!Referenced
<1> QED
  BY <1>1, <1>2, <1>3, <1>4, <1>5, <1>6, <1>7, <1>8 DEF Lease!Next

\* The counter, the references and the owners of the registry agree in every
\* reachable state.
THEOREM LeaseInvariance == ASSUME LeaseConstants PROVE Lease!Spec => []LeaseInv
<1>1. Lease!Init => LeaseInv
  BY LeaseInit
<1> QED
  BY <1>1, LeaseNext, PTL DEF Lease!Spec

\* A hold that is not free is counted, and the barrier counts or mutates.
LEMMA BorrowsExclude == LeaseInv => Lease!BorrowExcludesMutation
<1> SUFFICES ASSUME LeaseInv, NEW h \in Holds, hold[h].state # "free", mutations # 0 PROVE FALSE
  BY DEF Lease!BorrowExcludesMutation
<1>1. Cardinality(InUse(hold)) = 0
  BY DEF LeaseInv, Counted
<1>2. InUse(hold) = {}
  BY <1>1, UseIsFinite, FS_EmptySet DEF LeaseInv
<1> QED
  BY <1>2 DEF InUse

\* begin_mutation() and acquire() exclude each other: while any hold of any
\* client is not yet entirely gone, no mutation of the process is running.
THEOREM NeverMutatedWhileBorrowed == ASSUME LeaseConstants PROVE Lease!Spec => []Lease!BorrowExcludesMutation
BY BorrowsExclude, LeaseInvariance, PTL

\* What the registry, a caller or a running acquire() holds on to is alive,
\* and nothing else is.
THEOREM ReferencedIsLive == ASSUME LeaseConstants PROVE Lease!Spec => []Lease!OwnedIsLive
<1>1. LeaseInv => Lease!OwnedIsLive
  BY DEF LeaseInv
<1> QED
  BY <1>1, LeaseInvariance, PTL

\* A released or revoked generation never owns the output again, also when
\* its acquire() was still probing at the time.
THEOREM ReleasedForGood == ASSUME LeaseConstants PROVE Lease!Spec => []Lease!ReleasedStaysReleased
<1>1. LeaseInv => Lease!ReleasedStaysReleased
  BY DEF LeaseInv
<1> QED
  BY <1>1, LeaseInvariance, PTL

\* No hold is shared by two clients, and a closed registry owns nothing.
THEOREM HoldsNotShared == ASSUME LeaseConstants PROVE Lease!Spec => []Lease!OwnersDistinct
<1>1. LeaseInv => Lease!OwnersDistinct
  BY DEF LeaseInv, Agreed, Lease!OwnersDistinct
<1> QED
  BY <1>1, LeaseInvariance, PTL

\* The registry has noted at least the generation of each owner.
Noted == \A c \in Clients : owners[c].generation <= observed[c]

LEMMA NotedStep == LeaseInv /\ Noted /\ [Lease!Next]_(Lease!vars) => Noted'
<1> SUFFICES ASSUME LeaseInv, Noted, [Lease!Next]_(Lease!vars) PROVE Noted'
  OBVIOUS
<1>1. ASSUME NEW t \in Borrowers, NEW c \in Clients, NEW g \in Lease!Generations, NEW b \in Bindings,
             Lease!AcquireBegin(t, c, g, b) \/ Lease!AcquireRefused(t, c, g, b)
      PROVE  Noted'
  <2>1. observed' = [observed EXCEPT ![c] = g] /\ g >= observed[c] /\ UNCHANGED owners
    BY <1>1 DEF Lease!AcquireBegin, Lease!AcquireRefused, Lease!Fresh
  <2> QED
    BY <2>1, SMTT(60) DEF Noted, LeaseInv, LeaseTyped, Lease!Generations
<1>2. ASSUME NEW t \in Borrowers, Lease!AcquirePublish(t) PROVE Noted'
  <2>1. PICK a : a = attempt[t]
    OBVIOUS
  <2>2. /\ owners' = [owners EXCEPT ![a.client] = [generation |-> a.generation, hold |-> a.hold]]
        /\ observed[a.client] = a.generation /\ UNCHANGED observed
        /\ a.client \in Clients /\ a.generation \in Nat
    BY <1>2, <2>1 DEF Lease!AcquirePublish, Lease!Superseded, LeaseInv, Agreed, LeaseTyped
  <2> QED
    BY <2>2, SMTT(60) DEF Noted, LeaseInv, LeaseTyped
<1>3. ASSUME UNCHANGED observed, \A c \in Clients : owners'[c] = owners[c] \/ owners'[c] = Lease!NoOwner
      PROVE  Noted'
  BY <1>3, SMTT(60) DEF Noted, Lease!NoOwner, LeaseInv, LeaseTyped
<1>4. ASSUME NEW c \in Clients, UNCHANGED observed, owners' = [owners EXCEPT ![c] = Lease!NoOwner] PROVE Noted'
  BY <1>3, <1>4 DEF LeaseInv, LeaseTyped
<1>5. ASSUME UNCHANGED Lease!registryVars PROVE Noted'
  BY <1>5 DEF Noted, Lease!registryVars
<1>6. CASE \E t \in Borrowers : Lease!AcquireFails(t)
  BY <1>5, <1>6 DEF Lease!AcquireFails
<1>7. CASE \E c \in Clients, g \in Lease!Generations : Lease!Snapshot(c, g) \/ Lease!Release(c, g)
  BY <1>4, <1>5, <1>7 DEF Lease!Snapshot, Lease!Release
<1>8. CASE \E c \in Clients : Lease!Revoke(c)
  BY <1>4, <1>8 DEF Lease!Revoke
<1>9. CASE \E h \in Holds : Lease!DropToken(h) \/ Lease!HoldDies(h)
  BY <1>5, <1>9 DEF Lease!DropToken, Lease!HoldDies
<1>10. CASE Lease!Shutdown
  BY <1>3, <1>10 DEF Lease!Shutdown
<1>11. CASE \/ Lease!FenceUnknown \/ Lease!FenceUncertain
            \/ \E t \in Mutators : Lease!BeginMutation(t) \/ Lease!EndMutation(t) \/ Lease!CompletionUnknown(t)
  BY <1>5, <1>11 DEF Lease!FenceUnknown, Lease!FenceUncertain, Lease!BeginMutation,
     Lease!EndMutation, Lease!CompletionUnknown
<1>12. CASE UNCHANGED Lease!vars
  BY <1>5, <1>12 DEF Lease!vars
<1> QED
  BY <1>1, <1>2, <1>6, <1>7, <1>8, <1>9, <1>10, <1>11, <1>12 DEF Lease!Next

\* What publishing does to an owner: its hold stays, and there is no
\* publishing at all under a fence, an unconfirmed or a running mutation.
LEMMA PublishKeeps ==
    ASSUME LeaseInv, Noted, NEW t \in Borrowers, Lease!AcquirePublish(t), NEW c \in Clients
    PROVE  /\ Lease!Owned(c) => owners'[c].hold = owners[c].hold /\ owners'[c].generation >= owners[c].generation
           /\ ~fence /\ ~uncertain /\ mutations = 0
<1>1. PICK a : a = attempt[t]
  OBVIOUS
<1>2. /\ a # Lease!NoAttempt /\ ~Lease!Superseded(a) /\ a.client \in Clients /\ a.hold \in Holds
      /\ a.previous \in {a.hold, NoHold}
      /\ owners' = [owners EXCEPT ![a.client] = [generation |-> a.generation, hold |-> a.hold]]
  BY <1>1 DEF Lease!AcquirePublish, LeaseInv, Agreed
<1>3. mutations = 0
  <2>1. Lease!Referenced(a.hold, owners, lent, attempt)
    BY <1>1 DEF Lease!Referenced
  <2>2. hold[a.hold].state = "live"
    BY <1>2, <2>1 DEF LeaseInv, Lease!OwnedIsLive
  <2>3. hold[a.hold].state # "free"
    BY <2>2
  <2> QED
    BY <1>2, <2>3, BorrowsExclude DEF Lease!BorrowExcludesMutation
<1>4. CASE c = a.client
  <2>1. owners'[c] = [generation |-> a.generation, hold |-> a.hold]
    BY <1>2, <1>4 DEF LeaseInv, LeaseTyped
  <2>2. owners'[c].hold = a.hold /\ owners'[c].generation = a.generation
    BY <2>1, SMTT(60)
  <2>3. observed[c] = a.generation /\ (Lease!Owned(c) => owners[c].hold = a.previous)
    BY <1>2, <1>4 DEF Lease!Superseded
  <2>4. Lease!Owned(c) => owners[c].hold = a.hold
    BY <1>2, <2>3, LeaseKnown DEF LeaseInv, Agreed
  <2>5. owners'[c].generation >= owners[c].generation
    <3>1. owners[c].generation <= observed[c] /\ owners[c].generation \in Nat /\ observed[c] \in Nat
      BY DEF Noted, LeaseInv, LeaseTyped
    <3> QED
      BY <2>2, <2>3, <3>1, SMTT(60)
  <2>6. Lease!Owned(c) => owners'[c].hold = owners[c].hold /\ owners'[c].generation >= owners[c].generation
    BY <2>2, <2>4, <2>5
  <2> QED
    BY <1>2, <2>6, <1>3 DEF Lease!Superseded
<1>5. CASE c # a.client
  <2>1. owners'[c] = owners[c] /\ owners[c].generation \in Nat
    BY <1>2, <1>5 DEF LeaseInv, LeaseTyped
  <2>2. owners'[c].hold = owners[c].hold /\ owners'[c].generation >= owners[c].generation
    BY <2>1, SMTT(60)
  <2> QED
    BY <1>2, <1>3, <2>2 DEF Lease!Superseded
<1> QED
  BY <1>4, <1>5

\* A client keeps the hold, and so the exact target and mode, it was given
\* until it is released or revoked, and no fence, unconfirmed or running
\* mutation lets a new owner in, for any number of clients and threads.
THEOREM BindingsKept == ASSUME LeaseConstants PROVE Lease!Spec => Lease!BindingKept
<1> DEFINE Keeps == \A c \in Clients :
          /\ Lease!Owned(c) /\ Lease!Owned(c)' =>
                owners'[c].hold = owners[c].hold /\ owners'[c].generation >= owners[c].generation
          /\ fence \/ uncertain \/ mutations # 0 => (Lease!Owned(c)' => owners'[c] = owners[c])
<1>1. Lease!Init => Noted
  BY SMTT(60) DEF Lease!Init, Noted, Lease!NoOwner
<1>2. LeaseInv /\ Noted /\ [Lease!Next]_(Lease!vars) => [Keeps]_(Lease!vars)
  <2> SUFFICES ASSUME LeaseInv, Noted, Lease!Next PROVE Keeps
    BY DEF Lease!vars
  <2>1. ASSUME \A c \in Clients : owners'[c] = owners[c] \/ owners'[c] = Lease!NoOwner PROVE Keeps
    <3>1. \A c \in Clients : owners[c].generation >= owners[c].generation
      BY SMTT(60) DEF LeaseInv, LeaseTyped
    <3> QED
      BY <2>1, <3>1 DEF Lease!Owned
  <2>2. ASSUME NEW t \in Borrowers, Lease!AcquirePublish(t) PROVE Keeps
    BY <2>2, PublishKeeps
  <2>3. ASSUME NEW c \in Clients, owners' = [owners EXCEPT ![c] = Lease!NoOwner] PROVE Keeps
    BY <2>1, <2>3 DEF LeaseInv, LeaseTyped
  <2>4. ASSUME UNCHANGED owners PROVE Keeps
    BY <2>1, <2>4
  <2> HIDE DEF Keeps
  <2>5. CASE \E t \in Borrowers, c \in Clients, g \in Lease!Generations, b \in Bindings :
                Lease!AcquireBegin(t, c, g, b) \/ Lease!AcquireRefused(t, c, g, b)
    BY <2>4, <2>5 DEF Lease!AcquireBegin, Lease!AcquireRefused
  <2>6. CASE \E t \in Borrowers : Lease!AcquirePublish(t) \/ Lease!AcquireFails(t)
    BY <2>2, <2>4, <2>6 DEF Lease!AcquireFails, Lease!registryVars
  <2>7. CASE \E c \in Clients, g \in Lease!Generations : Lease!Snapshot(c, g) \/ Lease!Release(c, g)
    BY <2>3, <2>4, <2>7 DEF Lease!Snapshot, Lease!Release, Lease!registryVars
  <2>8. CASE \E c \in Clients : Lease!Revoke(c)
    BY <2>3, <2>8 DEF Lease!Revoke
  <2>9. CASE \E h \in Holds : Lease!DropToken(h) \/ Lease!HoldDies(h)
    BY <2>4, <2>9 DEF Lease!DropToken, Lease!HoldDies, Lease!registryVars
  <2>10. CASE Lease!Shutdown
    BY <2>1, <2>10 DEF Lease!Shutdown
  <2>11. CASE \/ Lease!FenceUnknown \/ Lease!FenceUncertain
              \/ \E t \in Mutators : Lease!BeginMutation(t) \/ Lease!EndMutation(t) \/ Lease!CompletionUnknown(t)
    BY <2>4, <2>11 DEF Lease!FenceUnknown, Lease!FenceUncertain, Lease!BeginMutation,
       Lease!EndMutation, Lease!CompletionUnknown, Lease!registryVars
  <2> QED
    BY <2>5, <2>6, <2>7, <2>8, <2>9, <2>10, <2>11 DEF Lease!Next
<1>3. [][Keeps]_(Lease!vars) => Lease!BindingKept
  BY DEF Lease!BindingKept
<1>4. Lease!Init => LeaseInv
  BY LeaseInit
<1> HIDE DEF Keeps
<1> QED
  BY <1>1, <1>2, <1>3, <1>4, LeaseNext, NotedStep, PTL DEF Lease!Spec

===============================================================================
