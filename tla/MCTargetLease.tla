----------------------------- MODULE MCTargetLease -----------------------------
(* Small instances of TargetLease.                                         *)
EXTENDS TargetLease, TLC

Symmetry == Permutations(Clients) \union Permutations(Holds)
               \union Permutations(Borrowers) \union Permutations(Bindings)
===============================================================================
