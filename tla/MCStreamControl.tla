---------------------------- MODULE MCStreamControl ----------------------------
(***************************************************************************)
(* Instances of StreamControl.  Host threads are interchangeable, and so   *)
(* are routes: every property of the run is a safety property that names   *)
(* none of them, so the reduction is sound.                                *)
(***************************************************************************)
EXTENDS StreamControl, TLC

Symmetry == Permutations(Hosts) \union Permutations(Routes)
===============================================================================
