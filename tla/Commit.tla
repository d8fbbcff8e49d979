------------------------------- MODULE Commit -------------------------------
(* How documents and their extraction sidecars reach a commit together:         *)
(* `git lex save`, its dry run, and a plain `git commit` (save.rs), through the  *)
(* same pre-commit hook. Git's three trees hold documents and, for each, its     *)
(* sidecars; every step of a save edits one of them. The walk that extracts is   *)
(* WalkCache's; here the hook's is one step that may die half-way, and gitlexd's *)
(* reads and writes between the steps of everything else. The user edits, moves  *)
(* and stages at any moment, also while a save runs.                             *)
EXTENDS Naturals, FiniteSets

CONSTANTS
  Paths,       \* where a document can be
  Targets,     \* the paths the user links to
  Bodies,      \* what a document can say: authored facts and prose
  Ids,         \* Thing ids
  IdOf,        \* body -> the Thing id it claims, or None
  RefOf,       \* body -> the id its foldered reference names, or None
  Plain,       \* bodies without a kit's class: no dates are written into them
  Start,       \* the documents, with their links, of the repository's last save
  Broken,      \* bodies whose frontmatter does not parse
  Invalid,     \* bodies a SHACL shape rejects
  Quoted,      \* paths git writes in quotes unless it is asked not to
  Chunks,      \* what gitlexd's walk may read before it writes: a bounded number of files
  None,
  Restamps,    \* {FALSE}, or BOOLEAN when --no-restamp is passed too
  MaxEdits,    \* bound on what the user does, and on the walks of gitlexd
  MaxCommands, \* bound on the commands run
  Others       \* whether documents also come from other places, with dates of their own

ASSUME CommitConstants ==
  /\ IdOf \in [Bodies -> Ids \cup {None}] /\ RefOf \in [Bodies -> Ids \cup {None}]
  /\ Plain \cup Broken \cup Invalid \subseteq Bodies
  /\ None \notin Paths \cup Bodies \cup Ids
  /\ DOMAIN Start \subseteq Paths /\ Targets \cup Quoted \subseteq Paths
  /\ Chunks \subseteq SUBSET Paths
  /\ \A p \in DOMAIN Start :
       /\ Start[p].body \in Bodies \ (Broken \cup Invalid)
       /\ Start[p].link \in DOMAIN Start \cup {None}
  /\ Restamps \subseteq BOOLEAN /\ Restamps # {}
  /\ MaxEdits \in Nat /\ MaxCommands \in Nat /\ Others \in BOOLEAN

ASSUME FinitelyManyPaths == IsFiniteSet(Paths)

Kinds == {"fm", "md", "notes"}  \* notes: what an annotating agent writes (haiku, gliner)

VARIABLES
  work, index, head,          \* path -> document or None, in each of git's trees
  sideWork, sideIndex, sideHead,  \* path -> its sidecars in each tree
  hook,     \* whether the managed pre-commit hook is installed
  op,       \* the command that runs: save, dry, commit, or none
  pc,       \* its next step
  quiet,    \* history: it began with every document staged, or is a save; none edited since
  own,      \* history: it found documents with the birth dates of the committed
            \* ones they stand for, or none
  tidy,     \* history: it found no sidecar staged, and no tracked notes missing
  late,     \* history: gitlexd wrote an older sidecar between its steps
  undated,  \* history: documents its hook should have dated, and did not
  listed,   \* the documents gitlexd's walk found when it began
  read,     \* path -> what it has read there and has still to write, or None
  clock,    \* the date a hook writes; a command is a tick
  edits     \* what the user has done so far, and the walks of gitlexd

docs == <<work, index, head>>
sides == <<sideWork, sideIndex, sideHead>>
found == <<own, tidy>>
lapses == <<late, undated>>
run == <<op, pc, quiet, found, lapses>>
walker == <<listed, read>>
vars == <<docs, sides, hook, run, walker, clock, edits>>

Dates == 0..(MaxCommands + 1)   \* 0: no date
Doc == [body : Bodies, link : Paths \cup {None}, born : Dates, changed : Dates]
Fact == [body : Bodies, born : Dates, changed : Dates]
NoSide == [k \in Kinds |-> None]
Nothing == [p \in Paths |-> None]
ASSUME NoneIsNoRecord == None \notin Doc \cup Fact

In(tree) == {p \in Paths : tree[p] # None}

(* What a walk writes for a document: the frontmatter's facts, and the link   *)
(* if its target is there. Prose that states no fact has no sidecar.          *)
FactsOf(c) ==
  IF c.body \in Plain \cup Broken THEN None
  ELSE [body |-> c.body, born |-> c.born, changed |-> c.changed]
LinkOf(there, c) == IF c.link \in there THEN c.link ELSE None
Extracted(there, c, side) ==
  [side EXCEPT !["fm"] = FactsOf(c), !["md"] = LinkOf(there, c)]

-----------------------------------------------------------------------------
(* git diff --cached -M: an added document that a deleted one resembles is a  *)
(* rename. Resembling is saying the same; links and dates do not weigh enough. *)
Added == In(index) \ In(head)
Deleted == In(head) \ In(index)
Alike == {r \in Deleted \X Added : head[r[1]].body = index[r[2]].body}
Matching(R) == \A r, s \in R : (r[1] = s[1] \/ r[2] = s[2]) => r = s
Renames == CHOOSE R \in SUBSET Alike : Matching(R) /\ \A r \in Alike \ R : ~Matching(R \cup {r})
OldOf(p) == IF \E r \in Renames : r[2] = p THEN (CHOOSE r \in Renames : r[2] = p)[1] ELSE p
\* As a mutant would: also what was moved.
BornAnew(p) == p \in Added
Born(p) == p \in Added /\ \A r \in Renames : r[2] # p
Touched == {p \in In(index) : p \in Added \/ index[p] # head[p]}

(* Law 3 and Law 6 of the identity gate, over the sidecars on disk.           *)
Stating(side) == {p \in Paths : side[p]["fm"] # None}
IdentityGate(side) ==
  LET id(p) == IdOf[side[p]["fm"].body]
      owned == {id(p) : p \in Stating(side)} \ {None}
  IN  /\ \A p, q \in Stating(side) : id(p) = id(q) /\ id(p) # None => p = q
      /\ \A p \in Stating(side) : RefOf[side[p]["fm"].body] \in owned \cup {None}
Readable == \A p \in In(work) : work[p].body \notin Broken
Valid == \A p \in In(work) : work[p].body \notin Invalid

(* unstaged_extracts: a tracked sidecar whose bytes on disk are not staged.   *)
Unstaged == {p \in Paths : \E k \in Kinds : sideIndex[p][k] \notin {None, sideWork[p][k]}}

-----------------------------------------------------------------------------
(* A repository as a finished save left it.                                   *)
Init ==
  /\ work = [p \in Paths |-> IF p \notin DOMAIN Start THEN None
               ELSE [body |-> Start[p].body, link |-> Start[p].link, born |-> 1, changed |-> 1]]
  /\ index = work /\ head = work
  /\ sideWork = [p \in Paths |-> IF work[p] = None THEN NoSide ELSE Extracted(In(work), work[p], NoSide)]
  /\ IdentityGate(sideWork)
  /\ sideIndex = sideWork /\ sideHead = sideWork
  /\ hook = TRUE
  /\ op = "none" /\ pc = "none" /\ quiet = TRUE /\ own = TRUE /\ tidy = TRUE
  /\ late = FALSE /\ undated = {}
  /\ listed = {} /\ read = Nothing
  /\ clock = 1 /\ edits = 0

(* The user: writes, deletes and moves documents, stages them, and may clone. *)
Edit == edits < MaxEdits /\ edits' = edits + 1 /\ quiet' = (op = "none")

Write(p) == \E b \in Bodies, l \in Targets \cup {None} :
  /\ Edit
  /\ work[p] = None => l = None
  /\ work' = [work EXCEPT ![p] =
       IF work[p] = None THEN [body |-> b, link |-> l, born |-> 0, changed |-> 0]
       ELSE [work[p] EXCEPT !.body = b, !.link = l]]
  /\ work' # work
  /\ UNCHANGED <<index, head, sides, hook, op, pc, found, lapses, walker, clock>>

(* A document with dates of its own: from another repository, or staged from  *)
(* the other side of a merge the user resolves.                               *)
Import(p) == \E b \in Bodies :
  /\ Others /\ Edit
  /\ work[p] = None
  /\ work' = [work EXCEPT ![p] = [body |-> b, link |-> None, born |-> 1, changed |-> 1]]
  /\ UNCHANGED <<index, head, sides, hook, op, pc, found, lapses, walker, clock>>

Remove(p) ==
  /\ Edit
  /\ work[p] # None
  /\ work' = [work EXCEPT ![p] = None]
  /\ UNCHANGED <<index, head, sides, hook, op, pc, found, lapses, walker, clock>>

Move(p, q) ==
  /\ Edit
  /\ work[p] # None /\ work[q] = None
  /\ work' = [work EXCEPT ![p] = None, ![q] = work[p]]
  /\ UNCHANGED <<head, sides, hook, op, pc, found, lapses, walker, clock>>
MoveOnDisk(p, q) == Move(p, q) /\ UNCHANGED index
GitMv(p, q) ==
  /\ Move(p, q)
  /\ index[p] # None /\ index[q] = None
  /\ index' = [index EXCEPT ![p] = None, ![q] = index[p]]

Stage(p) ==
  /\ Edit
  /\ index[p] # work[p]
  /\ index' = [index EXCEPT ![p] = work[p]]
  /\ UNCHANGED <<work, head, sides, hook, op, pc, found, lapses, walker, clock>>

(* An annotating agent writes down its reading of a document.                 *)
Annotate(p) ==
  /\ Edit
  /\ work[p] # None /\ sideWork[p]["notes"] # work[p].body
  /\ sideWork' = [sideWork EXCEPT ![p]["notes"] = work[p].body]
  /\ UNCHANGED <<docs, sideIndex, sideHead, hook, op, pc, found, lapses, walker, clock>>

(* A fresh clone: the committed files, without the hook.                      *)
Clone ==
  /\ Edit
  /\ op = "none" /\ hook
  /\ work' = head /\ index' = head /\ sideWork' = sideHead /\ sideIndex' = sideHead
  /\ hook' = FALSE /\ listed' = {} /\ read' = Nothing
  /\ UNCHANGED <<head, sideHead, op, pc, found, lapses, clock>>

(* gitlexd's worker walks too: it lists the documents, reads and parses a      *)
(* chunk of them, and then writes their sidecars one by one, whatever has      *)
(* happened to the documents since. It may stop anywhere.                      *)
SyncLists ==
  /\ edits < MaxEdits /\ edits' = edits + 1
  /\ listed' = In(work) /\ read' = Nothing
  /\ UNCHANGED <<docs, sides, hook, run, clock>>
SyncReads == \E C \in Chunks :
  /\ read' = [p \in Paths |-> IF p \in C \cap listed THEN work[p] ELSE read[p]]
  /\ UNCHANGED <<docs, sides, hook, run, listed, clock, edits>>

(* A write that a command's own steps do not make good: of a document that is  *)
(* gone, once orphans are removed, or of what a document was, once it is       *)
(* extracted; both until the sidecars are staged.                              *)
Exposed == {"stage", "heal", "staged", "stamp", "cleanup", "extract", "add"}
Stale(p) ==
  \/ pc \in Exposed /\ work[p] = None
  \/ pc = "add" /\ work[p] # None /\ sideWork'[p] # Extracted(In(work), work[p], sideWork[p])
SyncWrites(p) ==
  /\ read[p] # None
  /\ sideWork' = [sideWork EXCEPT ![p] = Extracted(listed, read[p], @)]
  /\ read' = [read EXCEPT ![p] = None]
  /\ late' = (late \/ Stale(p))
  /\ UNCHANGED <<docs, sideIndex, sideHead, hook, op, pc, quiet, found, undated, listed, clock, edits>>
SyncWalks == SyncLists \/ SyncReads \/ \E p \in Paths : SyncWrites(p)

-----------------------------------------------------------------------------
(* The commands. *)
GoesOn(next) == pc' = next /\ UNCHANGED <<op, quiet, found, late, walker, clock, hook, edits>>
Goto(next) == GoesOn(next) /\ UNCHANGED undated
Ends ==
  /\ op' = "none" /\ pc' = "none" /\ quiet' = TRUE /\ own' = TRUE /\ tidy' = TRUE
  /\ late' = FALSE /\ undated' = {}
  /\ UNCHANGED <<walker, clock, hook, edits>>

(* A document stands for the committed one at its place, or for one that is   *)
(* gone and that it resembles.                                                *)
StandsFor(p, o) ==
  p = o \/ (o \notin In(work) /\ p \notin In(head) /\ head[o].body = work[p].body)
Own == \A p \in In(work), o \in In(head) : StandsFor(p, o) => work[p].born \in {head[o].born, 0}
Tidy == sideIndex = sideHead /\ \A p \in Paths : sideIndex[p]["notes"] # None => sideWork[p]["notes"] # None

(* A save installs a missing hook before anything else; a plain commit runs   *)
(* the one that is there, or none.                                            *)
Begin(o, first) ==
  /\ op = "none" /\ clock < MaxCommands + 1
  /\ op' = o /\ pc' = first /\ clock' = clock + 1
  /\ own' = Own /\ tidy' = Tidy /\ late' = FALSE /\ undated' = {}
  /\ UNCHANGED <<docs, sides, walker, edits>>
BeginSave == Begin("save", "orphans") /\ hook' = TRUE /\ quiet' = TRUE
BeginDryRun == Begin("dry", "cleanup") /\ hook' = TRUE /\ quiet' = TRUE
BeginCommit ==
  /\ Begin("commit", IF hook THEN "stamp" ELSE "commit")
  /\ UNCHANGED hook /\ quiet' = (index = work)

(* remove_orphaned_sidecars: every sidecar whose document is not on disk.     *)
\* As a mutant would: no convergence.
KeepOrphans ==
  op = "save" /\ pc = "orphans" /\ Goto("stage") /\ UNCHANGED <<docs, sides>>
RemoveOrphans ==
  /\ op = "save" /\ pc = "orphans"
  /\ sideWork' = [p \in Paths |-> IF work[p] = None THEN NoSide ELSE sideWork[p]]
  /\ Goto("stage")
  /\ UNCHANGED <<docs, sideIndex, sideHead>>

\* As a mutant would: the sidecars are left to the hook.
AddDocuments ==
  /\ op = "save" /\ pc = "stage"
  /\ index' = work
  /\ Goto("heal")
  /\ UNCHANGED <<work, head, sides>>
AddAll ==
  /\ op = "save" /\ pc = "stage"
  /\ index' = work /\ sideIndex' = sideWork
  /\ Goto("heal")
  /\ UNCHANGED <<work, head, sideWork, sideHead>>

(* heal_staged_renames: a link to a renamed document's old path follows it;   *)
(* the healed documents are staged, whole, one by one.                        *)
\* As a mutant would: a document with changes of its own is not healed.
AstrayUnchanged ==
  {p \in In(index) \cap In(work) : index[p] = head[p] /\ \E r \in Renames : r[1] = work[p].link}
Astray == {p \in In(index) \cap In(work) : \E r \in Renames : r[1] = work[p].link}
Healed(p) == [work[p] EXCEPT !.link = (CHOOSE r \in Renames : r[1] = work[p].link)[2]]
HealThese(H) ==
  /\ work' = [p \in Paths |-> IF p \in H THEN Healed(p) ELSE work[p]]
  /\ index' = [p \in Paths |-> IF p \in H THEN Healed(p) ELSE index[p]]
  /\ UNCHANGED <<head, sides>>
Heal == op = "save" /\ pc = "heal" /\ HealThese(Astray) /\ Goto("staged")
HealDies == op = "save" /\ pc = "heal" /\ (\E H \in SUBSET Astray : HealThese(H)) /\ Ends

NothingToSave ==
  /\ op = "save" /\ pc = "staged"
  /\ index = head /\ sideIndex = sideHead
  /\ Ends /\ UNCHANGED <<docs, sides>>
GitCommit ==
  /\ op = "save" /\ pc = "staged"
  /\ index # head \/ sideIndex # sideHead
  /\ Goto("stamp") /\ UNCHANGED <<docs, sides>>

(* stamp_dates_for_staged_changes reads the working file of every staged      *)
(* change, and stages a file it dated, whole. A change is none when the file  *)
(* is as HEAD has it, under its old name; a name in quotes is not found there. *)
Dated(p, noRestamp) ==
  LET same == OldOf(p) \notin Quoted /\ head[OldOf(p)] = work[p]
      bump == Born(p) \/ (~noRestamp /\ ~same)
  IN  [work[p] EXCEPT !.born = IF Born(p) THEN clock ELSE @, !.changed = IF bump THEN clock ELSE @]
Datable == {p \in Touched \cap In(work) : work[p].body \notin Plain}
Stampable(noRestamp) == {p \in Datable : Dated(p, noRestamp) # work[p]}

(* It goes on without a file it cannot read or write, or whose name git put in *)
(* quotes, and dates none without a clock, or if git cannot be asked.          *)
Misses == {missed \in SUBSET Datable : Datable \cap Quoted \subseteq missed}
\* As a mutant would: what is dated is not staged again.
StampOnDisk(noRestamp, missed) ==
  LET stamped == Stampable(noRestamp) \ missed
  IN  /\ work' = [p \in Paths |-> IF p \in stamped THEN Dated(p, noRestamp) ELSE work[p]]
      /\ undated' = Stampable(noRestamp) \cap missed
      /\ UNCHANGED <<index, head, sides>>
StampThese(noRestamp, missed) ==
  LET stamped == Stampable(noRestamp) \ missed
  IN  /\ work' = [p \in Paths |-> IF p \in stamped THEN Dated(p, noRestamp) ELSE work[p]]
      /\ index' = [p \in Paths |-> IF p \in stamped THEN Dated(p, noRestamp) ELSE index[p]]
      /\ undated' = Stampable(noRestamp) \cap missed
      /\ UNCHANGED <<head, sides>>
Stamp ==
  /\ pc = "stamp" /\ GoesOn("cleanup")
  /\ \E n \in Restamps, missed \in Misses : StampThese(n, missed)

(* What was dated before git could not stage it, or before the hook was killed. *)
StampDies ==
  /\ pc = "stamp" /\ Ends
  /\ \E n \in Restamps, missed \in Misses :
       work' = [p \in Paths |-> IF p \in Stampable(n) \ missed THEN Dated(p, n) ELSE work[p]]
  /\ UNCHANGED <<index, head, sides>>

(* cleanup_sidecars_for_staged_changes: the sidecars of a deleted document    *)
(* go; those of a renamed one move, unless the new name has its own already.  *)
(* `git mv` refuses a file that is gone and a name that is taken on disk.     *)
Tracked(p, k) == sideIndex[p][k] # None
Dropped(p, k) ==
  /\ Tracked(p, k)
  /\ \/ p \in Deleted /\ \A r \in Renames : r[1] # p
     \/ \E r \in Renames : r[1] = p /\ Tracked(r[2], k)
\* As a mutant would: only the kinds git-lex itself extracts.
MovableExtracts ==
  {m \in Renames \X {"fm", "md"} : Tracked(m[1][1], m[2]) /\ ~Tracked(m[1][2], m[2])}
Movable == {m \in Renames \X Kinds : Tracked(m[1][1], m[2]) /\ ~Tracked(m[1][2], m[2])}
Moved == {m \in Movable : sideWork[m[1][1]][m[2]] # None /\ sideWork[m[1][2]][m[2]] = None}
CleanupErrors == Movable \ Moved
Cleaned(side) == [p \in Paths |-> [k \in Kinds |->
  IF Dropped(p, k) \/ \E m \in Moved : m[1][1] = p /\ m[2] = k THEN None
  ELSE IF \E m \in Moved : m[1][2] = p /\ m[2] = k
       THEN side[OldOf(p)][k] ELSE side[p][k]]]
Cleanup ==
  /\ pc = "cleanup"
  /\ sideWork' = Cleaned(sideWork) /\ sideIndex' = Cleaned(sideIndex)
  /\ IF CleanupErrors = {} THEN Goto("extract") ELSE Ends
  /\ UNCHANGED <<docs, sideHead>>

(* The walk and the gates behind it; a walk that dies has written some.       *)
Walked(D) == [p \in Paths |-> IF p \in D THEN Extracted(In(work), work[p], sideWork[p]) ELSE sideWork[p]]
\* As a mutant would: the identity gate only warns.
ExtractUngated ==
  /\ pc = "extract"
  /\ sideWork' = Walked(In(work))
  /\ IF Readable THEN Goto(IF op = "dry" THEN "validate" ELSE "add") ELSE Ends
  /\ UNCHANGED <<docs, sideIndex, sideHead>>
Extract ==
  /\ pc = "extract"
  /\ sideWork' = Walked(In(work))
  /\ IF IdentityGate(sideWork') /\ Readable
     THEN Goto(IF op = "dry" THEN "validate" ELSE "add") ELSE Ends
  /\ UNCHANGED <<docs, sideIndex, sideHead>>
ExtractDies ==
  /\ pc = "extract"
  /\ \E D \in SUBSET In(work) : sideWork' = Walked(D)
  /\ Ends
  /\ UNCHANGED <<docs, sideIndex, sideHead>>

AddExtracts ==
  /\ pc = "add"
  /\ sideIndex' = sideWork
  /\ Goto("check")
  /\ UNCHANGED <<docs, sideWork, sideHead>>
CheckStaged ==
  /\ pc = "check"
  /\ IF Unstaged = {} THEN Goto("validate") ELSE Ends
  /\ UNCHANGED <<docs, sides>>
Validate ==
  /\ pc = "validate"
  /\ IF Valid /\ op # "dry" THEN Goto("commit") ELSE Ends
  /\ UNCHANGED <<docs, sides>>

Commits ==
  /\ pc = "commit"
  /\ head' = index /\ sideHead' = sideIndex
  /\ Ends
  /\ UNCHANGED <<work, index, sideWork, sideIndex>>

(* Any of git's steps may fail, and the command may be killed anywhere.       *)
Dies == op # "none" /\ Ends /\ UNCHANGED <<docs, sides>>

User ==
  \/ \E p \in Paths : Write(p) \/ Import(p) \/ Remove(p) \/ Stage(p) \/ Annotate(p)
  \/ \E p, q \in Paths : MoveOnDisk(p, q) \/ GitMv(p, q)
  \/ Clone
Command ==
  \/ BeginSave \/ BeginDryRun \/ BeginCommit
  \/ RemoveOrphans \/ AddAll \/ Heal \/ HealDies \/ NothingToSave \/ GitCommit
  \/ Stamp \/ StampDies \/ Cleanup \/ Extract \/ ExtractDies \/ AddExtracts \/ CheckStaged \/ Validate
  \/ Commits \/ Dies
Next == User \/ SyncWalks \/ Command
Spec == Init /\ [][Next]_vars

-----------------------------------------------------------------------------
(* The type of the state.                                                     *)
CTypeOK ==
  /\ {work, index, head} \subseteq [Paths -> Doc \cup {None}]
  /\ {sideWork, sideIndex, sideHead} \subseteq
       [Paths -> [fm : Fact \cup {None}, md : Paths \cup {None}, notes : Bodies \cup {None}]]
  /\ {hook, quiet, own, tidy, late} \subseteq BOOLEAN /\ {undated, listed} \subseteq SUBSET Paths
  /\ read \in [Paths -> Doc \cup {None}]
  /\ op \in {"none", "save", "dry", "commit"}
  /\ pc \in {"none", "orphans", "stage", "heal", "staged", "stamp", "cleanup", "extract",
             "add", "check", "validate", "commit"}
  /\ clock \in Dates /\ edits \in 0..MaxEdits

Committed == head' # head \/ sideHead' # sideHead
CommitOf(ops) == Committed /\ op \in ops /\ hook /\ quiet
Unhurried(ops) == CommitOf(ops) /\ ~late

(* A commit carries, for every document, the facts and the links of exactly   *)
(* the bytes it carries: dates are written and staged before the walk, links  *)
(* healed before, and what the walk wrote is staged after (save.rs:615-668).  *)
(* gitlexd may write sidecars all the while, but none that are out of date.   *)
Pairs(tree, side) == \A p \in In(tree) :
  side[p]["fm"] = FactsOf(tree[p]) /\ side[p]["md"] = LinkOf(In(tree), tree[p])
PairsCommitted == [][Unhurried({"save", "commit"}) => Pairs(head', sideHead')]_vars
PairsBesideWalks == [][CommitOf({"save", "commit"}) => Pairs(head', sideHead')]_vars

(* ... and so of a commit of documents that are only partly staged.           *)
PairsAlways ==
  [][Committed /\ op = "commit" /\ hook /\ ~late /\ edits' = edits => Pairs(head', sideHead')]_vars

(* A save leaves no sidecar of a document that is gone: whoever deleted or    *)
(* moved it, and however an earlier command died (spo_events.rs:788-828).     *)
NoOrphans(tree, side) == \A p \in Paths \ In(tree) : \A k \in Kinds : side[p][k] = None
NoOrphansCommitted == [][Unhurried({"save"}) => NoOrphans(head', sideHead')]_vars
NoOrphansBesideWalks == [][CommitOf({"save"}) => NoOrphans(head', sideHead')]_vars

(* What a save commits has unique Thing ids, references that resolve in the   *)
(* same commit, and only documents that parse and conform.                    *)
Conforms(tree) == \A p \in In(tree) : tree[p].body \notin Broken \cup Invalid
GatesHold == [][Unhurried({"save"}) => IdentityGate(sideHead') /\ Conforms(head')]_vars
GatesBesideWalks == [][CommitOf({"save"}) => IdentityGate(sideHead') /\ Conforms(head')]_vars

DatesFollow(tree, missed) ==
  \A p \in In(tree) : LET o == OldOf(p) IN
    o \in In(head) /\ {head[o].body, tree[p].body} \cap Plain = {} =>
      /\ tree[p].born \in {head[o].born, 0}
      /\ TRUE \notin Restamps /\ p \notin missed =>
           /\ tree[p].changed >= head[o].changed
           /\ <<tree[p].body, tree[p].link>> # <<head[o].body, head[o].link>> => tree[p].changed = clock

(* No commit gives a document that is already there, or was only moved,       *)
(* another birth date (a user who writes the file anew may leave it out); a   *)
(* change of what it says or links to is dated, and dates never go back       *)
(* (save.rs:1072-1082), but for documents the hook could not date. It is      *)
(* about documents that had the date of the one they stand for when the       *)
(* command began: not another document put in place, and not one that an      *)
(* earlier hook dated.                                                        *)
DatesKept == [][CommitOf({"save", "commit"}) /\ own => DatesFollow(head', undated)]_vars
DatesKeptAlways == [][CommitOf({"save", "commit"}) => DatesFollow(head', undated)]_vars
ChangesDated == [][CommitOf({"save", "commit"}) /\ own => DatesFollow(head', {})]_vars

(* A save that moves a document leaves no link behind at its old path.        *)
LinksFollow ==
  [][CommitOf({"save"}) =>
       \A r \in Renames, p \in In(head') : head'[p].link # r[1]]_vars

(* Writing dates replaces no birth date a document already has, wherever it   *)
(* comes from: docs/using/files-and-things.md:118 says so of one from outside.*)
BirthComesAlong ==
  [][pc = "stamp" /\ pc' = "cleanup" => \A p \in In(work) :
       work[p].born # 0 => work'[p] # None /\ work'[p].born = work[p].born]_vars

(* Notes made about a document go with it when it is moved (save.rs:1166-1169)*)
(* unless an earlier command left the sidecars of the index in disorder.      *)
NotesMove(ops) == CommitOf(ops) =>
  \A r \in Renames : sideHead[r[1]]["notes"] # None => sideHead'[r[2]]["notes"] # None
NotesFollowCommit == [][tidy => NotesMove({"commit"})]_vars
NotesFollowSave == [][NotesMove({"save"})]_vars

(* A save whose documents are in order is never stopped by sidecars that an   *)
(* earlier command left in whatever state.                                    *)
SaveNotStuck == op = "save" /\ pc = "cleanup" /\ quiet /\ ~late => CleanupErrors = {}
CommitNotStuck == op = "commit" /\ pc = "cleanup" /\ quiet => CleanupErrors = {}
=============================================================================
