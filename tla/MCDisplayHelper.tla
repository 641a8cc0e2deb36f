--------------------------- MODULE MCDisplayHelper ---------------------------
(***************************************************************************)
(* Instances of DisplayHelper: the APPLY requests that clients send.       *)
(***************************************************************************)
EXTENDS DisplayHelper

Req(layout, restore, hdr) == [layout |-> layout, restore |-> restore, hdr |-> hdr]

\* A virtual display beside the physical ones, and one that replaces them.
VirtualOnly == {Req("virtual", TRUE, FALSE)}
ExclusiveOnly == {Req("exclusive", TRUE, FALSE)}

\* An HDR request, and a session that opted out of the restore on disconnect.
MixedRequests == {Req("virtual", TRUE, TRUE), Req("physical", FALSE, FALSE)}

\* An Exclusive request without a target is rejected.
RejectedToo == {Req("virtual", TRUE, FALSE), Req("badExclusive", TRUE, FALSE)}
=============================================================================
