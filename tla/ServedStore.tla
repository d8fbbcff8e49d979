----------------------------- MODULE ServedStore -----------------------------
(***************************************************************************)
(* What a soul's store promises whoever queries it, with no directory,     *)
(* rename, worker or crash in sight: the store on offer is always one a    *)
(* sync finished, of a commit HEAD was at; it changes in one step; and a   *)
(* sync that does not finish changes nothing.  StoreSwap implements this.  *)
(***************************************************************************)
CONSTANTS Commits, None

VARIABLES
    head,      \* the commit HEAD is at
    offered,   \* the commit whose store is on offer; None before the first
    candidate  \* the commit the running sync builds a store of, or None

vars == <<head, offered, candidate>>

TypeOK ==
    /\ head \in Commits
    /\ offered \in Commits \cup {None}
    /\ candidate \in Commits \cup {None}

Init ==
    /\ head \in Commits
    /\ offered \in Commits \cup {None}
    /\ candidate = None

MoveHead ==
    /\ head' \in Commits
    /\ UNCHANGED <<offered, candidate>>

Build ==
    /\ candidate = None
    /\ candidate' = head
    /\ UNCHANGED <<head, offered>>

Publish ==
    /\ candidate # None
    /\ offered' = candidate
    /\ candidate' = None
    /\ UNCHANGED head

Discard ==
    /\ candidate' = None
    /\ UNCHANGED <<head, offered>>

Next == MoveHead \/ Build \/ Publish \/ Discard

Spec == Init /\ [][Next]_vars
=============================================================================
