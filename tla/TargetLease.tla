------------------------------ MODULE TargetLease ------------------------------
(***************************************************************************)
(* registry_t of src/src/display_target_lease.h: clients borrow an         *)
(* existing output exactly as it is, while other threads of the host       *)
(* change displays.  acquire() drops the lock around the native probe, so  *)
(* release, revoke, shutdown, a fence or a newer acquire may come between  *)
(* its two locked halves; the holds it hands out are shared and die        *)
(* outside the lock, wherever their last owner drops them.                 *)
(***************************************************************************)
EXTENDS Naturals, FiniteSets

CONSTANTS
    Clients,          \* client uuids
    Borrowers,        \* threads that call acquire()
    Mutators,         \* threads that call begin_mutation()
    Bindings,         \* exact target and mode
    Holds,            \* hold_t objects that can exist together
    NoHold,           \* a null shared_ptr
    Nobody,           \* no thread
    MaxGeneration,    \* bound on lease generations
    MaxNesting        \* bound on nested mutations of a thread

ASSUME HoldsAreFinite == IsFiniteSet(Holds) /\ NoHold \notin Holds
ASSUME NobodyIsNone == Nobody \notin Mutators \union Clients
ASSUME BoundsAreNumbers == MaxGeneration \in Nat /\ MaxNesting \in Nat

VARIABLES
    borrowers,        \* barrier_t::borrowers
    mutations,        \* barrier_t::mutations
    mutator,          \* barrier_t::mutation_owner
    uncertain,        \* barrier_t::uncertain
    fence,            \* barrier_t::permanent_fence
    owners,           \* owners_: generation and hold of each client
    observed,         \* observed_
    released,         \* released_, 0 where the map has no entry
    closed,           \* closed_
    hold,             \* each hold_t: state, binding
    tokens,           \* holds that callers outside the registry own
    attempt           \* each thread's acquire() between its two halves

barrierVars == <<borrowers, mutations, mutator, uncertain, fence>>
registryVars == <<owners, observed, released, closed>>
vars == <<barrierVars, registryVars, hold, tokens, attempt>>

Generations == 1 .. MaxGeneration
NoOwner == [generation |-> 0, hold |-> NoHold]
NoAttempt == [client |-> Nobody, generation |-> 0, hold |-> NoHold, previous |-> NoHold]
Free == [state |-> "free", binding |-> Nobody]

Init ==
    /\ borrowers = 0
    /\ mutations = 0
    /\ mutator = Nobody
    /\ uncertain = FALSE
    /\ fence = FALSE
    /\ owners = [c \in Clients |-> NoOwner]
    /\ observed = [c \in Clients |-> 0]
    /\ released = [c \in Clients |-> 0]
    /\ closed = FALSE
    /\ hold = [h \in Holds |-> Free]
    /\ tokens = {}
    /\ attempt = [t \in Borrowers |-> NoAttempt]

-------------------------------------------------------------------------------
(* Shared ownership of holds                                               *)

\* Whether h has an owner, given the registry's, the callers' and the
\* acquire() calls' references.
Referenced(h, os, ts, as) ==
    \/ \E c \in Clients : os[c].hold = h
    \/ h \in ts
    \/ \E t \in Borrowers : as[t].hold = h

\* The holds whose last reference goes start to die: ~hold_t first resets
\* runtime_hold, which may talk to the display helper.
DropUnreferenced(hs, os, ts, as) ==
    [h \in Holds |-> IF hs[h].state = "live" /\ ~Referenced(h, os, ts, as)
                     THEN [hs[h] EXCEPT !.state = "dying"] ELSE hs[h]]

\* --barrier->borrowers, after runtime_hold is gone
HoldDies(h) ==
    /\ hold[h].state = "dying"
    /\ hold' = [hold EXCEPT ![h] = Free]
    /\ borrowers' = borrowers - 1
    /\ UNCHANGED <<mutations, mutator, uncertain, fence, registryVars, tokens, attempt>>

-------------------------------------------------------------------------------
(* acquire()                                                               *)

Fresh(c, g) == g >= observed[c] /\ g > released[c]
Owned(c) == owners[c] # NoOwner
Blocked == fence \/ uncertain \/ mutations # 0

\* The first half, up to the probe
AcquireBegin(t, c, g, b) ==
    /\ attempt[t] = NoAttempt
    /\ ~closed
    /\ Fresh(c, g)
    /\ Owned(c) => hold[owners[c].hold].binding = b
    /\ ~Blocked
    /\ observed' = [observed EXCEPT ![c] = g]
    /\ \/ /\ Owned(c)
          /\ attempt' = [attempt EXCEPT ![t] =
                [client |-> c, generation |-> g, hold |-> owners[c].hold, previous |-> owners[c].hold]]
          /\ UNCHANGED <<hold, borrowers>>
       \/ /\ ~Owned(c)
          /\ \E h \in Holds :
                /\ hold[h] = Free
                /\ hold' = [hold EXCEPT ![h] = [state |-> "live", binding |-> b]]
                /\ attempt' = [attempt EXCEPT ![t] =
                      [client |-> c, generation |-> g, hold |-> h, previous |-> NoHold]]
          /\ borrowers' = borrowers + 1
    /\ UNCHANGED <<mutations, mutator, uncertain, fence, owners, released, closed, tokens>>

\* ... refused after the generation was noted
AcquireRefused(t, c, g, b) ==
    /\ attempt[t] = NoAttempt
    /\ ~closed
    /\ Fresh(c, g)
    /\ Blocked \/ (Owned(c) /\ hold[owners[c].hold].binding # b)
    /\ observed' = [observed EXCEPT ![c] = g]
    /\ UNCHANGED <<barrierVars, owners, released, closed, hold, tokens, attempt>>

\* Mutants: the second half overlooks a release, or an owner that another
\* acquire() published.
SupersededReleased(a) ==
    \/ fence \/ uncertain \/ closed
    \/ observed[a.client] # a.generation
    \/ Owned(a.client) /\ owners[a.client].hold # a.previous

SupersededOwner(a) ==
    \/ fence \/ uncertain \/ closed
    \/ observed[a.client] # a.generation
    \/ a.generation <= released[a.client]

\* Revoked or superseded while the probe ran
Superseded(a) ==
    \/ fence \/ uncertain \/ closed
    \/ observed[a.client] # a.generation
    \/ a.generation <= released[a.client]
    \/ Owned(a.client) /\ owners[a.client].hold # a.previous

\* The second half publishes what the probe confirmed ...
AcquirePublish(t) ==
    LET a == attempt[t] IN
    /\ a # NoAttempt
    /\ ~Superseded(a)
    /\ owners' = [owners EXCEPT ![a.client] = [generation |-> a.generation, hold |-> a.hold]]
    /\ tokens' = tokens \union {a.hold}
    /\ attempt' = [attempt EXCEPT ![t] = NoAttempt]
    /\ UNCHANGED <<barrierVars, observed, released, closed, hold>>

\* ... or drops its hold: superseded, or the probe did not find the exact output
AcquireFails(t) ==
    /\ attempt[t] # NoAttempt
    /\ attempt' = [attempt EXCEPT ![t] = NoAttempt]
    /\ hold' = DropUnreferenced(hold, owners, tokens, attempt')
    /\ UNCHANGED <<barrierVars, registryVars, tokens>>

-------------------------------------------------------------------------------
(* The other calls of the registry                                         *)

Snapshot(c, g) ==
    /\ Owned(c)
    /\ owners[c].generation = g
    /\ tokens' = tokens \union {owners[c].hold}
    /\ UNCHANGED <<barrierVars, registryVars, hold, attempt>>

\* Mutant: a token is the only owner of its hold.
DropTokenSole(h) ==
    /\ h \in tokens
    /\ tokens' = tokens \ {h}
    /\ hold' = [hold EXCEPT ![h].state = "dying"]
    /\ UNCHANGED <<barrierVars, registryVars, attempt>>

\* A pending launch, a startup or a capture drops its token.
DropToken(h) ==
    /\ h \in tokens
    /\ tokens' = tokens \ {h}
    /\ hold' = DropUnreferenced(hold, owners, tokens', attempt)
    /\ UNCHANGED <<barrierVars, registryVars, attempt>>

Release(c, g) ==
    /\ Owned(c)
    /\ owners[c].generation = g
    /\ released' = [released EXCEPT ![c] = g]
    /\ owners' = [owners EXCEPT ![c] = NoOwner]
    /\ hold' = DropUnreferenced(hold, owners', tokens, attempt)
    /\ UNCHANGED <<barrierVars, observed, closed, tokens, attempt>>

Larger(m, n) == IF m < n THEN n ELSE m

Revoke(c) ==
    /\ released' = [released EXCEPT ![c] = Larger(Larger(@, observed[c]), owners[c].generation)]
    /\ owners' = [owners EXCEPT ![c] = NoOwner]
    /\ hold' = DropUnreferenced(hold, owners', tokens, attempt)
    /\ UNCHANGED <<barrierVars, observed, closed, tokens, attempt>>

Shutdown ==
    /\ ~closed
    /\ closed' = TRUE
    /\ released' = [c \in Clients |-> IF Owned(c) THEN owners[c].generation ELSE released[c]]
    /\ owners' = [c \in Clients |-> NoOwner]
    /\ hold' = DropUnreferenced(hold, owners', tokens, attempt)
    /\ UNCHANGED <<barrierVars, observed, tokens, attempt>>

\* The two stores of fence_unknown_release are atomic and take no lock.
FenceUnknown ==
    /\ ~fence
    /\ fence' = TRUE
    /\ UNCHANGED <<borrowers, mutations, mutator, uncertain, registryVars, hold, tokens, attempt>>

FenceUncertain ==
    /\ fence /\ ~uncertain
    /\ uncertain' = TRUE
    /\ UNCHANGED <<borrowers, mutations, mutator, fence, registryVars, hold, tokens, attempt>>

\* Mutant: borrowers are not looked at.
BeginMutationAnyway(t) ==
    /\ ~fence /\ ~uncertain
    /\ mutations # 0 => mutator = t
    /\ mutations < MaxNesting
    /\ mutator' = t
    /\ mutations' = mutations + 1
    /\ UNCHANGED <<borrowers, uncertain, fence, registryVars, hold, tokens, attempt>>

BeginMutation(t) ==
    /\ ~fence /\ ~uncertain
    /\ borrowers = 0
    /\ mutations # 0 => mutator = t
    /\ mutations < MaxNesting
    /\ mutator' = t
    /\ mutations' = mutations + 1
    /\ UNCHANGED <<borrowers, uncertain, fence, registryVars, hold, tokens, attempt>>

EndMutation(t) ==
    /\ mutations # 0
    /\ mutator = t
    /\ mutations' = mutations - 1
    /\ mutator' = IF mutations = 1 THEN Nobody ELSE t
    /\ UNCHANGED <<borrowers, uncertain, fence, registryVars, hold, tokens, attempt>>

\* mutation_t::completion_unknown
CompletionUnknown(t) ==
    /\ mutations # 0
    /\ mutator = t
    /\ uncertain' = TRUE
    /\ UNCHANGED <<borrowers, mutations, mutator, fence, registryVars, hold, tokens, attempt>>

-------------------------------------------------------------------------------
Next ==
    \/ \E t \in Borrowers, c \in Clients, g \in Generations, b \in Bindings :
          AcquireBegin(t, c, g, b) \/ AcquireRefused(t, c, g, b)
    \/ \E t \in Borrowers : AcquirePublish(t) \/ AcquireFails(t)
    \/ \E c \in Clients, g \in Generations : Snapshot(c, g) \/ Release(c, g)
    \/ \E c \in Clients : Revoke(c)
    \/ \E h \in Holds : DropToken(h) \/ HoldDies(h)
    \/ Shutdown \/ FenceUnknown \/ FenceUncertain
    \/ \E t \in Mutators : BeginMutation(t) \/ EndMutation(t) \/ CompletionUnknown(t)

Spec == Init /\ [][Next]_vars

-------------------------------------------------------------------------------
\* From the moment acquire() protects an output, before the probe reads it,
\* until the last owner of the hold is gone and the native hold is released,
\* no mutation of this process is in progress.
BorrowExcludesMutation ==
    (\E h \in Holds : hold[h].state # "free") => mutations = 0

\* Whatever the registry, a caller or a running acquire() owns is alive.
OwnedIsLive ==
    \A h \in Holds : Referenced(h, owners, tokens, attempt) <=> hold[h].state = "live"

\* A generation that was released or revoked never owns the output again,
\* even when that happened while its probe was running.
ReleasedStaysReleased ==
    \A c \in Clients : Owned(c) => owners[c].generation > released[c]

\* Two clients never share a hold, and shutdown leaves no owner behind.
OwnersDistinct ==
    /\ \A c, d \in Clients : Owned(c) /\ Owned(d) /\ owners[c].hold = owners[d].hold => c = d
    /\ closed => \A c \in Clients : ~Owned(c)

\* A client keeps the hold, and so the exact target and mode, it was given
\* until it is released or revoked; its generation only grows, and neither a
\* fence nor an unconfirmed mutation lets a new owner in.
BindingKept ==
    [][\A c \in Clients :
          /\ Owned(c) /\ Owned(c)' =>
                owners'[c].hold = owners[c].hold /\ owners'[c].generation >= owners[c].generation
          /\ fence \/ uncertain \/ mutations # 0 => (Owned(c)' => owners'[c] = owners[c])]_vars
===============================================================================
