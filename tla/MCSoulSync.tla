----------------------------- MODULE MCSoulSync -----------------------------
(***************************************************************************)
(* Instances of SoulSync for TLC: the HEAD moves of each run.              *)
(***************************************************************************)
EXTENDS SoulSync, TLC

CONSTANTS h1, h2, h3   \* commits

\* New commits only: HEAD never returns to where it has been.
NewCommits == {<<h1, h2>>, <<h2, h3>>, <<h1, h3>>}

OneCommit == {<<h1, h2>>}

\* One commit, and a reset that takes it back.
CommitAndReset == {<<h1, h2>>, <<h2, h1>>}

\* Every commit changes a fact; or the one that makes h2 of h1 does not.
AllStateFacts == {}
SecondStatesNone == {<<h1, h2>>}

\* HEAD moves and a step of a sync fails; or one of these and the soul is
\* dropped; or `.lex/` vanishes, or a client gives up on its DELETE.
FewDisturbances ==
    moves + failures <= IF ~lex \/ forget = "dropped" THEN 0 ELSE IF Gone THEN 1 ELSE 2

\* Requests are interchangeable; used by the runs without liveness.
Symmetry == Permutations(Clients)
=============================================================================
