---------------------------- MODULE MCWalkCache ----------------------------
(* Instances of WalkCache for TLC: a text that links to b, one that does not,  *)
(* and one that does not extract.                                              *)
EXTENDS WalkCache, TLC

CONSTANTS a, b, plain, linking, broken

AnyContext == Permutations(Contexts)

Names == [t \in Texts |-> IF t = linking THEN {b} ELSE {}]
=============================================================================
