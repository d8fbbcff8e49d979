---------------------------- MODULE MCSyncEngine ----------------------------
(***************************************************************************)
(* SyncEngine for TLC: two documents with a sidecar each, both about one   *)
(* Thing and saying the same of it (duplicate ids); one of them may have a *)
(* second sidecar, which anchors no Thing and speaks of the File.          *)
(***************************************************************************)
EXTENDS SyncEngine

CONSTANTS s1, s2, s3, d1, d2

TwoDocuments == [s \in {s1, s2} |-> IF s = s1 THEN d1 ELSE d2]
PlainSidecar == [s \in {s1, s2, s3} |-> IF s = s2 THEN d2 ELSE d1]

\* Five commits of two documents, a constraint for SyncEngineUnproved.cfg.
Says(a, b) == [s \in {s1, s2} |-> IF s = s1 THEN a ELSE b]
Script == <<Says({}, {"p"}), Says({"p"}, {"p"}), Says({}, {"p"}), Says({"p"}, {}), Says({"p"}, {"q"})>>
OnScript == \A i \in DOMAIN trees : trees[i] = Script[i]
=============================================================================
