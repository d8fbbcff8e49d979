----------------------------- MODULE MCMachine -----------------------------
(* Instances of Machine for TLC.                                              *)
EXTENDS Machine, TLC

CONSTANTS
  d1, d2,     \* two repositories
  n1, n2, a1  \* their paths; a1 is a second path of d1, through a symlink

LeadsTo == [n \in Names |-> IF n = n2 THEN d2 ELSE d1]
RealPath == [d \in Dirs |-> IF d = d2 THEN n2 ELSE n1]
Unrelated == [d \in Dirs |-> d]   \* each with a first commit of its own
Clones == [d \in Dirs |-> d1]     \* d2 is a clone of d1

Symmetry == Permutations(Procs) \cup Permutations(Daemons)
=============================================================================
