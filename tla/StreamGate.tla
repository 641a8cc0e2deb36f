------------------------------ MODULE StreamGate ------------------------------
(***************************************************************************)
(* What the admission boundary of src/src/host_stream_control.h promises   *)
(* its callers, without epochs, counters, locks or thread-local state.     *)
(*                                                                         *)
(* The boundary is open, closed, or ending.  Operations enter while it is  *)
(* open, or as part of an operation already inside.  The end-all-streams   *)
(* action runs only after the boundary was closed, every operation left    *)
(* and every start that had begun was over.  Closing withdraws every start *)
(* that was asked for but has not begun, so a start never begins on the    *)
(* far side of an end-all-streams action it was asked for before.          *)
(***************************************************************************)
EXTENDS Naturals

CONSTANT Starts       \* requests to start a stream

VARIABLES
    boundary,         \* "open", "closed" or "ending" (the action is running)
    inside,           \* how many operations are in progress
    valid,            \* starts asked for since the boundary last opened
    begun             \* starts that were admitted and are not over

vars == <<boundary, inside, valid, begun>>

Init ==
    /\ boundary = "open"
    /\ inside = 0
    /\ valid = {}
    /\ begun = {}

Enter ==
    /\ boundary = "open" \/ inside > 0
    /\ inside' = inside + 1
    /\ UNCHANGED <<boundary, valid, begun>>

Leave ==
    /\ inside > 0
    /\ inside' = inside - 1
    /\ UNCHANGED <<boundary, valid, begun>>

Ask(s) ==
    /\ boundary = "open"
    /\ s \notin begun
    /\ valid' = valid \union {s}
    /\ UNCHANGED <<boundary, inside, begun>>

\* An operation that is already inside begins the start it was queued for.
Begin(s) ==
    /\ boundary = "open"
    /\ inside > 0
    /\ s \in valid
    /\ valid' = valid \ {s}
    /\ begun' = begun \union {s}
    /\ UNCHANGED <<boundary, inside>>

\* The start ends as busy or canceled.
Withdraw(s) ==
    /\ s \in valid
    /\ valid' = valid \ {s}
    /\ UNCHANGED <<boundary, inside, begun>>

Finish(s) ==
    /\ s \in begun
    /\ begun' = begun \ {s}
    /\ UNCHANGED <<boundary, inside, valid>>

Close ==
    /\ boundary = "open"
    /\ boundary' = "closed"
    /\ valid' = {}
    /\ UNCHANGED <<inside, begun>>

End ==
    /\ boundary = "closed"
    /\ inside = 0
    /\ begun = {}
    /\ boundary' = "ending"
    /\ UNCHANGED <<inside, valid, begun>>

Reopen ==
    /\ boundary \in {"closed", "ending"}
    /\ boundary' = "open"
    /\ UNCHANGED <<inside, valid, begun>>

Next ==
    \/ Enter
    \/ Leave
    \/ \E s \in Starts : Ask(s) \/ Begin(s) \/ Withdraw(s) \/ Finish(s)
    \/ Close
    \/ End
    \/ Reopen

Spec == Init /\ [][Next]_vars
===============================================================================
