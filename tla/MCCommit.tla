------------------------------ MODULE MCCommit ------------------------------
(* Instances of Commit for TLC: a document with an id, one that refers to it,  *)
(* prose, one a shape rejects, and one that does not parse. One path is in      *)
(* quotes. The walk of gitlexd reads a handful of documents at once.            *)
EXTENDS Commit

CONSTANTS i1, i2, i3, thing, referrer, prose, rejected, broken, p1, p2

Claims == [b \in Bodies |-> CASE b = thing -> i1 [] b = referrer -> i2
                              [] b = rejected -> i3 [] OTHER -> None]
RefersTo == [b \in Bodies |-> IF b = referrer THEN i1 ELSE None]
AllAtOnce == {Paths}
Saved == [p \in {p1, p2} |-> IF p = p1 THEN [body |-> thing, link |-> None]
                             ELSE [body |-> referrer, link |-> p1]]
=============================================================================
