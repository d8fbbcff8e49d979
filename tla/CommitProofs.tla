---------------------------- MODULE CommitProofs ----------------------------
(* Proofs about Commit: what a commit that nobody disturbed carries, whatever  *)
(* the user and earlier commands did before it. The invariant follows one      *)
(* command from step to step and says what each has made true of the trees;    *)
(* the steps of the user, and of commands that die, end what it claims.        *)
EXTENDS Commit, FiniteSetTheorems, WellFoundedInduction, TLAPS

Tree == [Paths -> Doc \cup {None}]
Sidecar == [fm : Fact \cup {None}, md : Paths \cup {None}, notes : Bodies \cup {None}]
Sides == [Paths -> Sidecar]

LEMMA SmallestExists ==
  ASSUME NEW S \in SUBSET Nat, S # {}
  PROVE  \E m \in S : \A j \in S : m <= j
<1>1. PICK m \in S : \A j \in S : ~ (<<j, m>> \in OpToRel(<, Nat))
  BY NatLessThanWellFounded, WFMin
<1>2. \A j \in S : ~ (j < m)
  BY <1>1 DEF OpToRel
<1> QED
  BY <1>2

(* git finds renames: among the matchings of deleted with added documents     *)
(* that say the same there is one that no pair can be added to.               *)
LEMMA AlikeFinite == IsFiniteSet(Alike)
<1>1. IsFiniteSet(Deleted) /\ IsFiniteSet(Added)
  BY FinitelyManyPaths, FS_Subset DEF Deleted, Added, In
<1>2. IsFiniteSet(Deleted \X Added)
  BY <1>1, FS_Product
<1> QED
  BY <1>2, FS_Subset DEF Alike

LEMMA RenamesExist ==
  /\ Renames \subseteq Alike /\ Matching(Renames)
  /\ \A r \in Alike \ Renames : ~Matching(Renames \cup {r})
<1> DEFINE n == Cardinality(Alike)
           Ms == {R \in SUBSET Alike : Matching(R)}
           Rest == {n - Cardinality(R) : R \in Ms}
<1>1. n \in Nat /\ IsFiniteSet(Alike)
  BY AlikeFinite, FS_CardinalityType
<1>2. \A R \in Ms : IsFiniteSet(R) /\ Cardinality(R) \in Nat /\ Cardinality(R) <= n
  BY <1>1, FS_Subset, FS_CardinalityType
<1>3. {} \in Ms
  BY DEF Matching
<1>4. Rest \in SUBSET Nat /\ Rest # {}
  <2>1. \A R \in Ms : n - Cardinality(R) \in Nat
    BY <1>1, <1>2
  <2> QED
    BY <1>3, <2>1
<1>5. PICK m \in Rest : \A j \in Rest : m <= j
  BY <1>4, SmallestExists
<1>6. PICK R \in Ms : m = n - Cardinality(R)
  BY <1>5
<1>7. \A r \in Alike \ R : ~Matching(R \cup {r})
  <2> SUFFICES ASSUME NEW r \in Alike \ R, Matching(R \cup {r}) PROVE FALSE
    OBVIOUS
  <2>1. R \cup {r} \in Ms
    BY <1>6
  <2>2. Cardinality(R \cup {r}) = Cardinality(R) + 1
    BY <1>2, <1>6, FS_AddElement
  <2>3. m <= n - Cardinality(R \cup {r})
    BY <1>5, <2>1
  <2> HIDE DEF n, Ms
  <2> QED
    BY <1>1, <1>2, <1>6, <2>2, <2>3
<1>8. \E Q \in SUBSET Alike : Matching(Q) /\ \A r \in Alike \ Q : ~Matching(Q \cup {r})
  BY <1>6, <1>7
<1> QED
  BY <1>8 DEF Renames

LEMMA RenameParts ==
  ASSUME NEW r \in Renames
  PROVE  /\ r[1] \in Deleted /\ r[2] \in Added /\ head[r[1]].body = index[r[2]].body
         /\ r[1] \in Paths /\ r[2] \in Paths
         /\ r[1] \in In(head) /\ r[1] \notin In(index) /\ r[2] \in In(index) /\ r[2] \notin In(head)
         /\ OldOf(r[2]) = r[1]
<1>1. r \in Alike
  BY RenamesExist
<1>2. r[1] \in Deleted /\ r[2] \in Added /\ head[r[1]].body = index[r[2]].body
  BY <1>1 DEF Alike
<1>3. PICK s \in Renames : s[2] = r[2] /\ OldOf(r[2]) = s[1]
  BY DEF OldOf
<1>4. s = r
  BY <1>3, RenamesExist DEF Matching
<1> QED
  BY <1>2, <1>3, <1>4 DEF Deleted, Added, In

(* What renames depend on.                                                    *)
LEMMA SameRenames ==
  ASSUME In(index)' = In(index), UNCHANGED head, \A p \in In(index) : index'[p].body = index[p].body
  PROVE  Renames' = Renames /\ Added' = Added /\ Deleted' = Deleted /\ \A p : OldOf(p)' = OldOf(p)
<1>1. Added' = Added /\ Deleted' = Deleted /\ Added \subseteq In(index)
  BY DEF Added, Deleted, In
<1>2. Alike' = Alike
  BY <1>1 DEF Alike
<1>3. Renames' = Renames
  BY <1>2 DEF Renames
<1> QED
  BY <1>1, <1>3 DEF OldOf

-----------------------------------------------------------------------------
(* Types.                                                                     *)
Typed ==
  /\ work \in Tree /\ index \in Tree /\ head \in Tree
  /\ sideWork \in Sides /\ sideIndex \in Sides /\ sideHead \in Sides
  /\ hook \in BOOLEAN /\ quiet \in BOOLEAN /\ own \in BOOLEAN /\ tidy \in BOOLEAN
  /\ late \in BOOLEAN /\ undated \in SUBSET Paths
  /\ listed \in SUBSET Paths /\ read \in Tree
  /\ op \in {"none", "save", "dry", "commit"}
  /\ pc \in {"none", "orphans", "stage", "heal", "staged", "stamp", "cleanup", "extract",
             "add", "check", "validate", "commit"}
  /\ clock \in Dates /\ edits \in 0..MaxEdits

LEMMA TypedIsTypeOK == Typed => CTypeOK
BY DEF CTypeOK, Typed, Tree, Sidecar, Sides

LEMMA DocOf ==
  ASSUME NEW t \in Tree, NEW p \in In(t)
  PROVE  p \in Paths /\ t[p] \in Doc /\ t[p] # None
BY DEF Tree, In

LEMMA NoSideTyped == NoSide \in Sidecar
BY DEF NoSide, Sidecar, Kinds

LEMMA ExtractedTyped ==
  ASSUME NEW there, NEW c \in Doc, NEW s \in Sidecar
  PROVE  /\ Extracted(there, c, s) \in Sidecar
         /\ Extracted(there, c, s)["fm"] = FactsOf(c)
         /\ Extracted(there, c, s)["md"] = LinkOf(there, c)
         /\ Extracted(there, c, s)["notes"] = s["notes"]
<1>1. FactsOf(c) \in Fact \cup {None}
  BY DEF FactsOf, Fact, Doc
<1>2. LinkOf(there, c) \in Paths \cup {None}
  BY DEF LinkOf, Doc
<1> QED
  BY <1>1, <1>2 DEF Extracted, Sidecar

LEMMA OldTyped == \A p \in Paths : OldOf(p) \in Paths
<1> SUFFICES ASSUME NEW p \in Paths PROVE OldOf(p) \in Paths
  OBVIOUS
<1>1. CASE \E r \in Renames : r[2] = p
  BY <1>1, RenameParts
<1>2. CASE ~(\E r \in Renames : r[2] = p)
  BY <1>2 DEF OldOf
<1> QED
  BY <1>1, <1>2

LEMMA CleanedTyped ==
  ASSUME NEW s \in Sides
  PROVE  Cleaned(s) \in Sides
<1> SUFFICES ASSUME NEW p \in Paths PROVE Cleaned(s)[p] \in Sidecar
  BY DEF Cleaned, Sides
<1>1. OldOf(p) \in Paths
  BY OldTyped
<1>2. s[p] \in Sidecar /\ s[OldOf(p)] \in Sidecar
  BY <1>1 DEF Sides
<1>3. \A k \in Kinds : Cleaned(s)[p][k] \in {None, s[p][k], s[OldOf(p)][k]}
  BY DEF Cleaned
<1>4. Cleaned(s)[p] = [k \in Kinds |-> Cleaned(s)[p][k]]
  BY DEF Cleaned
<1>5. \A k \in Kinds : k = "fm" => Cleaned(s)[p][k] \in Fact \cup {None}
  BY <1>2, <1>3 DEF Sidecar
<1>6. \A k \in Kinds : k = "md" => Cleaned(s)[p][k] \in Paths \cup {None}
  BY <1>2, <1>3 DEF Sidecar
<1>7. \A k \in Kinds : k = "notes" => Cleaned(s)[p][k] \in Bodies \cup {None}
  BY <1>2, <1>3 DEF Sidecar
<1> DEFINE c == Cleaned(s)[p]
<1>8. c = [k \in Kinds |-> c[k]]
  BY <1>4
<1> HIDE DEF c
<1> QED
  BY <1>5, <1>6, <1>7, <1>8 DEF Sidecar, Kinds, c

LEMMA WalkedTyped ==
  ASSUME work \in Tree, sideWork \in Sides, NEW D \in SUBSET In(work)
  PROVE  Walked(D) \in Sides
BY DocOf, ExtractedTyped DEF Walked, Sides

LEMMA HealedTyped ==
  ASSUME work \in Tree, NEW p \in Astray
  PROVE  /\ Healed(p) \in Doc /\ work[p] \in Doc
         /\ Healed(p).body = work[p].body /\ Healed(p).born = work[p].born /\ Healed(p).changed = work[p].changed
         /\ \E r \in Renames : r[1] = work[p].link /\ Healed(p).link = r[2]
<1>1. p \in In(work) /\ \E r \in Renames : r[1] = work[p].link
  BY DEF Astray
<1>2. PICK r \in Renames : r[1] = work[p].link /\ Healed(p) = [work[p] EXCEPT !.link = r[2]]
  BY <1>1 DEF Healed
<1>3. work[p] \in Doc /\ r[2] \in Paths
  BY <1>1, <1>2, DocOf, RenameParts
<1> QED
  BY <1>2, <1>3 DEF Doc

Bumps(p, n) == Born(p) \/ (~n /\ ~(OldOf(p) \notin Quoted /\ head[OldOf(p)] = work[p]))

LEMMA DatedTyped ==
  ASSUME work \in Tree, clock \in Dates, NEW n, NEW p \in In(work)
  PROVE  /\ Dated(p, n) \in Doc /\ work[p] \in Doc
         /\ Dated(p, n).body = work[p].body /\ Dated(p, n).link = work[p].link
         /\ Dated(p, n).born = IF Born(p) THEN clock ELSE work[p].born
         /\ Dated(p, n).changed = IF Bumps(p, n) THEN clock ELSE work[p].changed
<1>1. work[p] \in Doc
  BY DocOf
<1> DEFINE bump == Bumps(p, n)
<1>2. Dated(p, n) = [work[p] EXCEPT !.born = IF Born(p) THEN clock ELSE @, !.changed = IF bump THEN clock ELSE @]
  BY DEF Dated, Bumps
<1> HIDE DEF bump
<1> QED
  BY <1>1, <1>2 DEF Doc, bump

LEMMA OneIsADate == 1 \in Dates /\ 0 \in Dates
BY CommitConstants DEF Dates

LEMMA InitTyped == Init => Typed
<1> SUFFICES ASSUME Init PROVE Typed
  OBVIOUS
<1>1. work \in Tree
  <2> SUFFICES ASSUME NEW p \in DOMAIN Start
               PROVE  [body |-> Start[p].body, link |-> Start[p].link, born |-> 1, changed |-> 1] \in Doc
    BY CommitConstants DEF Init, Tree
  <2> QED
    BY CommitConstants, OneIsADate DEF Doc
<1>2. sideWork \in Sides
  <2>1. \A p \in Paths : work[p] # None => Extracted(In(work), work[p], NoSide) \in Sidecar
    BY <1>1, DocOf, NoSideTyped, ExtractedTyped DEF In
  <2> QED
    BY <2>1, NoSideTyped DEF Init, Sides
<1>3. clock \in Dates /\ edits \in 0..MaxEdits
  BY OneIsADate, CommitConstants DEF Init
<1>4. Nothing \in Tree
  BY DEF Nothing, Tree
<1> QED
  BY <1>1, <1>2, <1>3, <1>4 DEF Init, Typed

LEMMA EditTyped ==
  ASSUME Typed, Edit
  PROVE  quiet' \in BOOLEAN /\ edits' \in 0..MaxEdits
<1>1. quiet' \in BOOLEAN
  <2>1. quiet' = (op = "none")
    BY DEF Edit
  <2> QED
    BY <2>1, Zenon
<1>2. edits' \in 0..MaxEdits
  BY CommitConstants DEF Typed, Edit
<1> QED
  BY <1>1, <1>2

LEMMA UserTyped ==
  ASSUME Typed, User
  PROVE  Typed'
<1>0. quiet' \in BOOLEAN /\ edits' \in 0..MaxEdits
  BY EditTyped DEF User, Write, Import, Remove, Stage, Annotate, MoveOnDisk, GitMv, Move, Clone
<1> USE <1>0 DEF Typed
<1>1. ASSUME NEW p \in Paths, Write(p) PROVE Typed'
  <2>1. PICK b \in Bodies, l \in Targets \cup {None} : work' = [work EXCEPT ![p] =
           IF work[p] = None THEN [body |-> b, link |-> l, born |-> 0, changed |-> 0]
           ELSE [work[p] EXCEPT !.body = b, !.link = l]]
    BY <1>1 DEF Write
  <2>2. l \in Paths \cup {None}
    BY CommitConstants
  <2>3. [body |-> b, link |-> l, born |-> 0, changed |-> 0] \in Doc
    BY <2>2, OneIsADate DEF Doc
  <2>4. work[p] # None => [work[p] EXCEPT !.body = b, !.link = l] \in Doc
    <3>1. work[p] # None => work[p] \in Doc
      BY DEF Tree
    <3>2. \A d \in Doc : [d EXCEPT !.body = b, !.link = l] \in Doc
      BY <2>2 DEF Doc
    <3> QED
      BY <3>1, <3>2
  <2>5. work' \in Tree
    BY <2>1, <2>3, <2>4 DEF Tree
  <2> QED
    BY <1>1, <2>5 DEF Write, docs, sides, run, found, lapses, walker
<1>2. ASSUME NEW p \in Paths, Import(p) PROVE Typed'
  <2>1. work' \in Tree
    BY <1>2, OneIsADate DEF Import, Tree, Doc
  <2> QED
    BY <1>2, <2>1 DEF Import, docs, sides, run, found, lapses, walker
<1>3. ASSUME NEW p \in Paths, Remove(p) \/ Stage(p) PROVE Typed'
  <2>1. work' \in Tree /\ index' \in Tree
    BY <1>3 DEF Remove, Stage, Tree
  <2> QED
    BY <1>3, <2>1 DEF Remove, Stage, docs, sides, run, found, lapses, walker
<1>4. ASSUME NEW p \in Paths, Annotate(p) PROVE Typed'
  <2>1. work[p] \in Doc
    BY <1>4, DocOf DEF Annotate, In
  <2>2. work[p].body \in Bodies
    BY <2>1 DEF Doc
  <2>3. [sideWork[p] EXCEPT !["notes"] = work[p].body] \in Sidecar
    BY <2>2 DEF Sides, Sidecar
  <2>4. sideWork' \in Sides
    BY <1>4, <2>3 DEF Annotate, Sides
  <2> QED
    BY <1>4, <2>4 DEF Annotate, docs, sides, run, found, lapses, walker
<1>5. ASSUME NEW p \in Paths, NEW q \in Paths, MoveOnDisk(p, q) \/ GitMv(p, q) PROVE Typed'
  <2>1. work' \in Tree /\ index' \in Tree
    BY <1>5 DEF MoveOnDisk, GitMv, Move, Tree
  <2> QED
    BY <1>5, <2>1 DEF MoveOnDisk, GitMv, Move, docs, sides, run, found, lapses, walker
<1>6. ASSUME Clone PROVE Typed'
  <2>1. Nothing \in Tree
    BY DEF Nothing, Tree
  <2> QED
    BY <1>6, <2>1 DEF Clone, docs, sides, run, found, lapses, walker
<1> QED
  BY <1>1, <1>2, <1>3, <1>4, <1>5, <1>6 DEF User

LEMMA WritesTyped ==
  ASSUME Typed, NEW p \in Paths, SyncWrites(p)
  PROVE  /\ sideWork' \in Sides
         /\ \A q \in Paths : q # p => sideWork'[q] = sideWork[q]
         /\ \A q \in Paths : sideWork'[q]["notes"] = sideWork[q]["notes"]
<1>1. read[p] \in Doc
  BY DocOf DEF Typed, SyncWrites, In
<1>2. sideWork' = [sideWork EXCEPT ![p] = Extracted(listed, read[p], sideWork[p])]
  BY DEF SyncWrites
<1>3. sideWork[p] \in Sidecar
  BY DEF Typed, Sides
<1>4. /\ Extracted(listed, read[p], sideWork[p]) \in Sidecar
      /\ Extracted(listed, read[p], sideWork[p])["notes"] = sideWork[p]["notes"]
  BY <1>1, <1>3, ExtractedTyped
<1> QED
  BY <1>2, <1>4 DEF Typed, Sides

LEMMA SyncTyped ==
  ASSUME Typed, SyncWalks
  PROVE  Typed'
<1>1. CASE SyncLists
  <2>1. listed' \in SUBSET Paths /\ read' \in Tree
    BY <1>1 DEF SyncLists, In, Nothing, Tree
  <2>2. edits' \in 0..MaxEdits
    BY <1>1, CommitConstants DEF SyncLists, Typed
  <2> QED
    BY <1>1, <2>1, <2>2 DEF SyncLists, Typed, docs, sides, run, found, lapses
<1>2. CASE SyncReads
  <2>1. read' \in Tree
    BY <1>2 DEF SyncReads, Typed, Tree
  <2> QED
    BY <1>2, <2>1 DEF SyncReads, Typed, docs, sides, run, found, lapses
<1>3. ASSUME NEW p \in Paths, SyncWrites(p) PROVE Typed'
  <2>1. sideWork' \in Sides /\ read' \in Tree
    BY <1>3, WritesTyped DEF SyncWrites, Typed, Tree
  <2>2. late' \in BOOLEAN
    <3>1. late' = (late \/ Stale(p))
      BY <1>3 DEF SyncWrites
    <3> QED
      BY <3>1, Zenon
  <2> QED
    BY <1>3, <2>1, <2>2 DEF SyncWrites, Typed, docs, found
<1> QED
  BY <1>1, <1>2, <1>3 DEF SyncWalks

(* A step of a command that goes on, or after which it is over.               *)
Onward == {"stage", "heal", "staged", "stamp", "cleanup", "extract", "add", "check", "validate", "commit"}
Proceeds == Ends \/ \E next \in Onward : GoesOn(next) /\ undated' \in SUBSET Paths

LEMMA ProceedsTyped ==
  ASSUME Typed, Proceeds, work' \in Tree, index' \in Tree, head' \in Tree,
         sideWork' \in Sides, sideIndex' \in Sides, sideHead' \in Sides
  PROVE  Typed'
<1>1. CASE Ends
  BY <1>1 DEF Ends, walker, Typed
<1>2. CASE \E next \in Onward : GoesOn(next) /\ undated' \in SUBSET Paths
  BY <1>2 DEF Onward, GoesOn, found, walker, Typed
<1> QED
  BY <1>1, <1>2 DEF Proceeds

LEMMA GotoProceeds ==
  ASSUME Typed, NEW next \in Onward, Goto(next)
  PROVE  Proceeds
BY DEF Typed, Goto, Proceeds

LEMMA BeginTyped ==
  ASSUME Typed, BeginSave \/ BeginDryRun \/ BeginCommit
  PROVE  Typed'
<1>1. own' \in BOOLEAN /\ tidy' \in BOOLEAN
  <2>1. own' = Own /\ tidy' = Tidy
    BY DEF BeginSave, BeginDryRun, BeginCommit, Begin
  <2>2. Own \in BOOLEAN /\ Tidy \in BOOLEAN
    BY Zenon DEF Own, Tidy
  <2> QED
    BY <2>1, <2>2
<1>2. quiet' \in BOOLEAN
  <2>1. quiet' = TRUE \/ quiet' = (index = work)
    BY DEF BeginSave, BeginDryRun, BeginCommit
  <2> QED
    BY <2>1, Zenon
<1>3. clock' \in Dates
  <2>1. clock' = clock + 1 /\ clock < MaxCommands + 1
    BY DEF BeginSave, BeginDryRun, BeginCommit, Begin
  <2> QED
    BY <2>1, CommitConstants DEF Typed, Dates
<1>4. UNCHANGED <<docs, sides, walker, edits>> /\ late' = FALSE /\ undated' = {} /\ op' \in {"save", "dry", "commit"}
      /\ pc' \in {"orphans", "cleanup", "stamp", "commit"} /\ hook' \in BOOLEAN
  BY DEF Typed, BeginSave, BeginDryRun, BeginCommit, Begin
<1> QED
  BY <1>1, <1>2, <1>3, <1>4 DEF Typed, docs, sides, walker

LEMMA HealTyped ==
  ASSUME Typed, NEW H \in SUBSET Astray, HealThese(H)
  PROVE  work' \in Tree /\ index' \in Tree /\ UNCHANGED <<head, sides>>
<1>1. \A p \in H : Healed(p) \in Doc
  BY HealedTyped DEF Typed
<1> QED
  BY <1>1 DEF HealThese, Typed, Tree

LEMMA StampTyped ==
  ASSUME Typed, NEW n, NEW missed, StampThese(n, missed)
  PROVE  work' \in Tree /\ index' \in Tree /\ undated' \in SUBSET Paths /\ UNCHANGED <<head, sides>>
<1>1. \A p \in Datable : p \in In(work)
  BY DEF Datable
<1>2. \A p \in Datable : Dated(p, n) \in Doc /\ p \in Paths
  BY <1>1, DatedTyped DEF Typed, In
<1> QED
  BY <1>2 DEF StampThese, Stampable, Typed, Tree

LEMMA StampDiesTyped ==
  ASSUME Typed, StampDies
  PROVE  work' \in Tree /\ UNCHANGED <<index, head, sides>>
<1>1. PICK n \in Restamps, missed \in Misses :
        work' = [p \in Paths |-> IF p \in Stampable(n) \ missed THEN Dated(p, n) ELSE work[p]]
  BY DEF StampDies
<1>2. \A p \in Stampable(n) : p \in In(work)
  BY DEF Stampable, Datable
<1>3. \A p \in Stampable(n) : Dated(p, n) \in Doc
  BY <1>2, DatedTyped DEF Typed
<1> QED
  BY <1>1, <1>3 DEF StampDies, Typed, Tree

LEMMA CommandTyped ==
  ASSUME Typed, Command
  PROVE  Typed'
<1>1. CASE BeginSave \/ BeginDryRun \/ BeginCommit
  BY <1>1, BeginTyped
<1>2. CASE RemoveOrphans
  <2>1. sideWork' \in Sides
    BY <1>2, NoSideTyped DEF RemoveOrphans, Typed, Sides
  <2> QED
    BY <1>2, <2>1, GotoProceeds, ProceedsTyped DEF RemoveOrphans, Onward, Typed, docs
<1>3. CASE AddAll
  BY <1>3, GotoProceeds, ProceedsTyped DEF AddAll, Onward, Typed
<1>4. CASE Heal \/ HealDies
  <2>1. PICK H \in SUBSET Astray : HealThese(H)
    BY <1>4 DEF Heal, HealDies
  <2> QED
    BY <1>4, <2>1, HealTyped, GotoProceeds, ProceedsTyped DEF Heal, HealDies, Proceeds, Onward, Typed, sides
<1>5. CASE NothingToSave \/ GitCommit \/ CheckStaged \/ Validate \/ Dies
  <2>1. Proceeds
    BY <1>5, GotoProceeds DEF NothingToSave, GitCommit, CheckStaged, Validate, Dies, Proceeds, Onward
  <2>2. UNCHANGED <<docs, sides>>
    BY <1>5 DEF NothingToSave, GitCommit, CheckStaged, Validate, Dies
  <2> QED
    BY <2>1, <2>2, ProceedsTyped DEF Typed, docs, sides
<1>6. CASE Stamp
  <2>1. PICK n \in Restamps, missed \in Misses : StampThese(n, missed)
    BY <1>6 DEF Stamp
  <2>2. work' \in Tree /\ index' \in Tree /\ undated' \in SUBSET Paths /\ UNCHANGED <<head, sides>>
    BY <2>1, StampTyped
  <2> QED
    BY <1>6, <2>2, ProceedsTyped DEF Stamp, Proceeds, Onward, Typed, sides
<1>11. CASE StampDies
  BY <1>11, StampDiesTyped, ProceedsTyped DEF StampDies, Proceeds, Typed, sides
<1>7. CASE Cleanup
  <2>1. Proceeds
    BY <1>7, GotoProceeds DEF Cleanup, Proceeds, Onward
  <2>2. sideWork' \in Sides /\ sideIndex' \in Sides /\ UNCHANGED <<docs, sideHead>>
    BY <1>7, CleanedTyped DEF Cleanup, Typed
  <2> QED
    BY <2>1, <2>2, ProceedsTyped DEF Typed, docs
<1>8. CASE Extract \/ ExtractDies
  <2>1. Proceeds
    BY <1>8, GotoProceeds DEF Extract, ExtractDies, Proceeds, Onward
  <2>2. UNCHANGED <<docs, sideIndex, sideHead>>
    BY <1>8 DEF Extract, ExtractDies
  <2>3. \E D \in SUBSET In(work) : sideWork' = Walked(D)
    BY <1>8 DEF Extract, ExtractDies
  <2>4. sideWork' \in Sides
    BY <2>3, WalkedTyped DEF Typed
  <2> QED
    BY <2>1, <2>2, <2>4, ProceedsTyped DEF Typed, docs
<1>9. CASE AddExtracts
  BY <1>9, GotoProceeds, ProceedsTyped DEF AddExtracts, Onward, Typed, docs
<1>10. CASE Commits
  BY <1>10, ProceedsTyped DEF Commits, Proceeds, Onward, Typed
<1> QED
  BY <1>1, <1>2, <1>3, <1>4, <1>5, <1>6, <1>7, <1>8, <1>9, <1>10, <1>11 DEF Command

LEMMA NextTyped == Typed /\ [Next]_vars => Typed'
<1> SUFFICES ASSUME Typed, [Next]_vars PROVE Typed'
  OBVIOUS
<1>1. CASE UNCHANGED vars
  BY <1>1 DEF vars, docs, sides, run, found, lapses, walker, Typed
<1> QED
  BY <1>1, UserTyped, SyncTyped, CommandTyped DEF Next

(* The type of the state, for any number of commands and edits.               *)
THEOREM CommitTyped == Spec => []CTypeOK
<1>1. Spec => []Typed
  BY InitTyped, NextTyped, PTL DEF Spec
<1> QED
  BY <1>1, TypedIsTypeOK, PTL

-----------------------------------------------------------------------------
(* Where the commands are.                                                    *)
HookSteps == {"stamp", "cleanup", "extract", "add", "check", "validate", "commit"}
Flow ==
  /\ op = "none" <=> pc = "none"
  /\ op = "save" => hook
  /\ op = "dry" => hook /\ pc \in {"cleanup", "extract", "validate"}
  /\ op = "commit" => pc \in HookSteps /\ (hook \/ pc = "commit")

(* What has become true by each step of a command that nobody disturbed.      *)
Undisturbed(ops) == quiet /\ op \in ops /\ hook
Staged == Undisturbed({"save", "commit"}) /\ pc \notin {"orphans", "stage"} => index = work

Swept == Undisturbed({"save"}) /\ ~late =>
  /\ pc \in Exposed => NoOrphans(work, sideWork)
  /\ pc \notin {"orphans", "stage"} => NoOrphans(work, sideIndex)

Following(tree) == \A r \in Renames, p \in In(tree) : tree[p].link # r[1]
Linked == Undisturbed({"save"}) /\ pc \notin {"orphans", "stage", "heal"} => Following(index)

(* The walk and the gates speak of the disk until its sidecars are staged, and *)
(* of the index from then on.                                                  *)
Judged(side) == Pairs(work, side) /\ IdentityGate(side) /\ Readable
Gated == Undisturbed({"save", "commit"}) /\ ~late =>
  /\ pc = "add" => Judged(sideWork)
  /\ pc \in {"check", "validate", "commit"} => Judged(sideIndex)
  /\ pc = "commit" => Valid

DatesHeld == Undisturbed({"save", "commit"}) /\ own =>
  IF pc \in {"orphans", "stage", "heal", "staged", "stamp"} THEN Own ELSE DatesFollow(index, undated)

NotesAlong(side) == \A r \in Renames : sideHead[r[1]]["notes"] # None => side[r[2]]["notes"] # None
NotesHeld == Undisturbed({"commit"}) /\ tidy =>
  IF pc \in {"stamp", "cleanup"} THEN Tidy
  ELSE NotesAlong(IF pc \in {"extract", "add"} THEN sideWork ELSE sideIndex)

(* No document is dated after the clock.                                      *)
PastDates(tree) == \A p \in In(tree) : tree[p].born <= clock /\ tree[p].changed <= clock
Dating == clock >= 1 /\ PastDates(work) /\ PastDates(index) /\ PastDates(head)

CommitInv == Flow /\ Staged /\ Swept /\ Linked /\ Gated /\ DatesHeld /\ NotesHeld /\ Dating
CInv == Typed /\ CommitInv

-----------------------------------------------------------------------------
(* The steps at which nothing is claimed yet, or no longer.                   *)
LEMMA InitHolds == Init => CInv
<1> SUFFICES ASSUME Init PROVE CInv
  OBVIOUS
<1>1. Typed
  BY InitTyped
<1>2. \A p \in Paths : work[p] # None => work[p].born = 1 /\ work[p].changed = 1
  BY DEF Init
<1>3. Dating
  BY <1>2 DEF Init, Dating, PastDates, In
<1> QED
  BY <1>1, <1>3 DEF Init, CInv, CommitInv, Flow, Staged, Swept, Linked, Gated, DatesHeld, NotesHeld, Undisturbed

LEMMA NothingClaimed ==
  ASSUME Flow', Dating', ~quiet' \/ op' \notin {"save", "commit"} \/ ~hook'
  PROVE  CommitInv'
BY DEF CommitInv, Staged, Swept, Linked, Gated, DatesHeld, NotesHeld, Undisturbed

LEMMA EndsHolds ==
  ASSUME CInv, Ends, Dating'
  PROVE  CommitInv'
<1>1. Flow'
  BY DEF Ends, Flow
<1> QED
  BY <1>1, NothingClaimed DEF Ends

LEMMA UserHolds ==
  ASSUME CInv, User
  PROVE  CommitInv'
<1>1. Edit /\ UNCHANGED <<op, pc, clock>> /\ (op # "none" => UNCHANGED hook)
  BY DEF User, Write, Import, Remove, Stage, Annotate, MoveOnDisk, GitMv, Move, Clone
<1>2. Flow'
  BY <1>1 DEF CInv, CommitInv, Flow
<1>3. ~quiet' \/ op' = "none"
  BY <1>1 DEF Edit
<1>4. Dating'
  <2> USE <1>1 DEF CInv, CommitInv, Dating
  <2>1. ASSUME NEW p \in Paths, Write(p) PROVE PastDates(work)' /\ PastDates(index)' /\ PastDates(head)'
    <3>1. PICK b \in Bodies, l \in Targets \cup {None} : work' = [work EXCEPT ![p] =
             IF work[p] = None THEN [body |-> b, link |-> l, born |-> 0, changed |-> 0]
             ELSE [work[p] EXCEPT !.body = b, !.link = l]]
      BY <2>1 DEF Write
    <3>2. work[p] # None => [work[p] EXCEPT !.body = b, !.link = l].born = work[p].born
                         /\ [work[p] EXCEPT !.body = b, !.link = l].changed = work[p].changed
      BY DocOf DEF Typed, In, Doc
    <3>3. clock >= 0 /\ work \in Tree
      BY DEF Typed, Dates
    <3>4. PastDates(work)'
      <4> SUFFICES ASSUME NEW q \in Paths, work'[q] # None PROVE work'[q].born <= clock /\ work'[q].changed <= clock
        BY DEF PastDates, In
      <4>1. CASE q = p /\ work[p] = None
        BY <4>1, <3>1, <3>3 DEF Tree
      <4>2. CASE q = p /\ work[p] # None
        BY <4>2, <3>1, <3>2, <3>3 DEF Tree, PastDates, In
      <4>3. CASE q # p
        BY <4>3, <3>1, <3>3 DEF Tree, PastDates, In
      <4> QED
        BY <4>1, <4>2, <4>3
    <3>5. UNCHANGED <<index, head>>
      BY <2>1 DEF Write
    <3> QED
      BY <3>4, <3>5 DEF PastDates, In
  <2>2. ASSUME NEW p \in Paths, Import(p) \/ Remove(p) \/ Stage(p) \/ Annotate(p)
        PROVE  PastDates(work)' /\ PastDates(index)' /\ PastDates(head)'
    BY <2>2 DEF Import, Remove, Stage, Annotate, docs, PastDates, In, Typed, Tree
  <2>3. ASSUME NEW p \in Paths, NEW q \in Paths, MoveOnDisk(p, q) \/ GitMv(p, q)
        PROVE  PastDates(work)' /\ PastDates(index)' /\ PastDates(head)'
    BY <2>3 DEF MoveOnDisk, GitMv, Move, PastDates, In, Typed, Tree
  <2>4. ASSUME Clone PROVE PastDates(work)' /\ PastDates(index)' /\ PastDates(head)'
    BY <2>4 DEF Clone, PastDates, In
  <2> QED
    BY <2>1, <2>2, <2>3, <2>4 DEF User
<1> QED
  BY <1>2, <1>3, <1>4, NothingClaimed

-----------------------------------------------------------------------------
(* What depends on the documents alone.                                       *)
LEMMA DocsKept ==
  ASSUME UNCHANGED docs
  PROVE  /\ UNCHANGED <<work, index, head>> /\ In(work)' = In(work) /\ In(index)' = In(index)
         /\ Renames' = Renames /\ Following(index)' = Following(index) /\ Own' = Own
         /\ Readable' = Readable /\ Valid' = Valid
<1>1. UNCHANGED <<work, index, head>> /\ In(work)' = In(work) /\ In(index)' = In(index)
  BY DEF docs, In
<1>2. Renames' = Renames /\ \A p : OldOf(p)' = OldOf(p)
  BY <1>1, SameRenames
<1>3. Own' = Own
  BY <1>1 DEF Own, StandsFor, In
<1>4. Following(index)' = Following(index)
  BY <1>1, <1>2 DEF Following
<1>5. Readable' = Readable /\ Valid' = Valid
  BY <1>1 DEF Readable, Valid
<1> QED
  BY <1>1, <1>2, <1>3, <1>4, <1>5

LEMMA DatesStay ==
  ASSUME UNCHANGED docs, UNCHANGED clock
  PROVE  /\ UNCHANGED undated => (DatesFollow(index, undated) => DatesFollow(index, undated)')
         /\ Dating => Dating'
<1>1. UNCHANGED <<work, index, head>>
  BY DEF docs
<1>2. \A p : OldOf(p)' = OldOf(p)
  BY <1>1, SameRenames DEF In
<1>3. UNCHANGED undated => (DatesFollow(index, undated) => DatesFollow(index, undated)')
  BY <1>1, <1>2 DEF DatesFollow, In
<1>4. Dating => Dating'
  BY <1>1 DEF Dating, PastDates, In
<1> QED
  BY <1>3, <1>4

(* A walk that writes what a document says writes what the command wrote.     *)
LEMMA ExtractedSame ==
  ASSUME NEW t \in Tree, NEW s \in Sides, Pairs(t, s), NEW p \in In(t)
  PROVE  Extracted(In(t), t[p], s[p]) = s[p]
<1>1. s[p] \in Sidecar
  BY DEF Sides, In
<1>2. s[p]["fm"] = FactsOf(t[p]) /\ s[p]["md"] = LinkOf(In(t), t[p])
  BY DEF Pairs
<1> QED
  BY <1>1, <1>2 DEF Extracted, Sidecar

(* What gitlexd lists and reads is no part of what is claimed.                *)
LEMMA NothingWritten ==
  ASSUME CInv, UNCHANGED <<docs, sides, hook, run, clock>>
  PROVE  CommitInv'
<1>1. UNCHANGED <<docs, op, pc, hook, quiet, own, tidy, late, undated, clock, work, sideWork, sideIndex, sideHead>>
  BY DEF docs, sides, run, found, lapses
<1>2. /\ \A ops : Undisturbed(ops)' = Undisturbed(ops)
      /\ UNCHANGED <<work, index, head>> /\ In(work)' = In(work) /\ In(index)' = In(index) /\ Renames' = Renames
      /\ Following(index)' = Following(index) /\ Own' = Own /\ Readable' = Readable /\ Valid' = Valid
  BY <1>1, DocsKept DEF Undisturbed
<1>3. Flow' /\ Staged' /\ Linked' /\ DatesHeld' /\ Dating'
  BY <1>1, <1>2, DatesStay DEF CInv, CommitInv, Flow, Staged, Linked, DatesHeld
<1>4. Swept'
  BY <1>1, <1>2 DEF CInv, CommitInv, Swept, NoOrphans
<1>5. Gated'
  <2>1. Judged(sideWork)' = Judged(sideWork) /\ Judged(sideIndex)' = Judged(sideIndex)
    BY <1>1, <1>2 DEF Judged, Pairs, IdentityGate, Stating
  <2> QED
    BY <1>1, <1>2, <2>1 DEF CInv, CommitInv, Gated
<1>6. NotesHeld'
  <2>1. /\ Tidy' = Tidy /\ NotesAlong(sideWork)' = NotesAlong(sideWork)
        /\ NotesAlong(sideIndex)' = NotesAlong(sideIndex)
    BY <1>1, <1>2 DEF Tidy, NotesAlong
  <2> QED
    BY <1>1, <1>2, <2>1 DEF CInv, CommitInv, NotesHeld
<1> QED
  BY <1>3, <1>4, <1>5, <1>6 DEF CommitInv

(* What gitlexd writes is a sidecar its document has, or the command has still *)
(* to write, or it is late.                                                    *)
LEMMA WritesHold ==
  ASSUME CInv, NEW p \in Paths, SyncWrites(p)
  PROVE  CommitInv'
<1>1. UNCHANGED <<docs, sideIndex, sideHead, hook, op, pc, quiet, own, tidy, undated, clock>>
  BY DEF SyncWrites, found
<1>2. late' = (late \/ Stale(p))
  BY DEF SyncWrites
<1>3. ~late' => ~late /\ ~Stale(p)
  BY <1>2
<1>4. /\ \A q \in Paths : q # p => sideWork'[q] = sideWork[q]
      /\ \A q \in Paths : sideWork'[q]["notes"] = sideWork[q]["notes"]
      /\ sideWork' \in Sides
  BY WritesTyped DEF CInv
<1>5. /\ \A ops : Undisturbed(ops)' = Undisturbed(ops)
      /\ UNCHANGED <<work, index, head>> /\ In(work)' = In(work) /\ In(index)' = In(index) /\ Renames' = Renames
      /\ Following(index)' = Following(index) /\ Own' = Own /\ Readable' = Readable /\ Valid' = Valid
  BY <1>1, DocsKept DEF Undisturbed
<1>6. Flow' /\ Staged' /\ Linked' /\ DatesHeld' /\ Dating'
  BY <1>1, <1>5, DatesStay DEF CInv, CommitInv, Flow, Staged, Linked, DatesHeld
<1>7. Swept'
  <2>1. ~late' /\ pc \in Exposed => p \in In(work)
    BY <1>3 DEF Stale, In
  <2>2. ~late' /\ pc \in Exposed /\ NoOrphans(work, sideWork) => NoOrphans(work, sideWork')
    BY <1>4, <2>1 DEF NoOrphans
  <2>3. NoOrphans(work, sideWork)' = NoOrphans(work, sideWork') /\ NoOrphans(work, sideIndex)' = NoOrphans(work, sideIndex)
    BY <1>1, <1>5 DEF NoOrphans
  <2> QED
    BY <1>1, <1>3, <1>5, <2>2, <2>3 DEF CInv, CommitInv, Swept
<1>8. Gated'
  <2>1. ASSUME ~late', pc = "add", Judged(sideWork) PROVE sideWork' = sideWork
    <3>1. p \in In(work) /\ sideWork'[p] = Extracted(In(work), work[p], sideWork[p])
      BY <1>3, <2>1 DEF Stale, Exposed, In
    <3>2. Extracted(In(work), work[p], sideWork[p]) = sideWork[p]
      BY <2>1, <3>1, ExtractedSame DEF Judged, CInv, Typed
    <3>3. \A q \in Paths : sideWork'[q] = sideWork[q]
      BY <1>4, <3>1, <3>2
    <3> QED
      BY <1>4, <3>3 DEF CInv, Typed, Sides
  <2>2. ~late' /\ pc = "add" => (Judged(sideWork) => Judged(sideWork)')
    BY <1>5, <2>1 DEF Judged, Pairs, IdentityGate, Stating
  <2>3. Judged(sideIndex)' = Judged(sideIndex)
    BY <1>1, <1>5 DEF Judged, Pairs, IdentityGate, Stating
  <2> QED
    BY <1>1, <1>3, <1>5, <2>2, <2>3 DEF CInv, CommitInv, Gated
<1>9. NotesHeld'
  <2>1. Tidy => Tidy'
    BY <1>1, <1>4 DEF Tidy
  <2>2. NotesAlong(sideWork) => NotesAlong(sideWork)'
    BY <1>1, <1>4, <1>5, RenameParts DEF NotesAlong
  <2>3. NotesAlong(sideIndex) => NotesAlong(sideIndex)'
    BY <1>1, <1>5 DEF NotesAlong
  <2> QED
    BY <1>1, <1>5, <2>1, <2>2, <2>3 DEF CInv, CommitInv, NotesHeld
<1> QED
  BY <1>6, <1>7, <1>8, <1>9 DEF CommitInv

LEMMA SyncHolds ==
  ASSUME CInv, SyncWalks
  PROVE  CommitInv'
<1>1. CASE SyncLists \/ SyncReads
  BY <1>1, NothingWritten DEF SyncLists, SyncReads
<1> QED
  BY <1>1, WritesHold DEF SyncWalks

-----------------------------------------------------------------------------
(* The commands, step by step.                                                *)
LEMMA BeginHolds ==
  ASSUME CInv, BeginSave \/ BeginDryRun \/ BeginCommit
  PROVE  CommitInv'
<1>1. /\ UNCHANGED <<docs, sides>> /\ clock' = clock + 1 /\ own' = Own /\ tidy' = Tidy /\ op = "none"
      /\ late' = FALSE /\ undated' = {}
  BY DEF BeginSave, BeginDryRun, BeginCommit, Begin
<1>2. /\ UNCHANGED <<work, index, head>> /\ In(work)' = In(work) /\ In(index)' = In(index) /\ Own' = Own
  BY <1>1, DocsKept
<1>3. Dating'
  <2>1. Typed /\ Typed'
    BY BeginTyped DEF CInv
  <2>2. clock \in Nat
    BY CommitConstants DEF CInv, Typed, Dates
  <2>3. \A t \in Tree : \A p \in In(t) : t[p].born \in Nat /\ t[p].changed \in Nat
    BY DocOf, CommitConstants DEF Doc, Dates
  <2>4. \A t \in Tree : PastDates(t) => \A p \in In(t) : t[p].born <= clock + 1 /\ t[p].changed <= clock + 1
    BY <2>2, <2>3 DEF PastDates
  <2>5. clock >= 1 /\ PastDates(work) /\ PastDates(index) /\ PastDates(head)
    BY DEF CInv, CommitInv, Dating
  <2>6. clock + 1 >= 1
    BY <2>2
  <2> QED
    BY <1>1, <1>2, <2>1, <2>4, <2>5, <2>6 DEF Dating, PastDates, Typed, In
<1>4. Flow'
  BY DEF BeginSave, BeginDryRun, BeginCommit, Begin, Flow, HookSteps
<1>5. CASE BeginDryRun
  BY <1>3, <1>4, <1>5, NothingClaimed DEF BeginDryRun, Begin
<1>6. CASE BeginSave
  <2>1. op' = "save" /\ pc' = "orphans"
    BY <1>6 DEF BeginSave, Begin
  <2> QED
    BY <1>1, <1>2, <1>3, <1>4, <2>1 DEF CommitInv, Staged, Swept, Linked, Gated, DatesHeld, NotesHeld, Undisturbed, Exposed
<1>7. CASE BeginCommit
  <2>1. op' = "commit" /\ pc' = (IF hook THEN "stamp" ELSE "commit") /\ hook' = hook /\ quiet' = (index = work)
    BY <1>7 DEF BeginCommit, Begin
  <2>2. CASE ~hook
    BY <1>3, <1>4, <2>1, <2>2, NothingClaimed
  <2>3. CASE hook
    <3>1. quiet' => index = work
      BY <2>1, Zenon
    <3>2. Staged' /\ Swept' /\ Linked' /\ Gated' /\ DatesHeld'
      BY <1>1, <1>2, <2>1, <2>3, <3>1 DEF Staged, Swept, Linked, Gated, DatesHeld, Undisturbed
    <3>3. Tidy => Tidy'
      BY <1>1 DEF sides, Tidy
    <3>4. NotesHeld'
      BY <1>1, <2>1, <2>3, <3>3 DEF NotesHeld, Undisturbed
    <3> QED
      BY <1>3, <1>4, <3>2, <3>4 DEF CommitInv
  <2> QED
    BY <2>2, <2>3
<1> QED
  BY <1>5, <1>6, <1>7

(* What a step that goes on leaves alone.                                     *)
LEMMA OnwardKept ==
  ASSUME CInv, NEW next, Goto(next), UNCHANGED docs
  PROVE  /\ UNCHANGED <<op, hook, quiet, own, tidy, late, undated, clock, work, index, head>> /\ pc' = next
         /\ \A ops : Undisturbed(ops)' = Undisturbed(ops)
         /\ In(work)' = In(work) /\ In(index)' = In(index) /\ Renames' = Renames
         /\ Following(index)' = Following(index) /\ Own' = Own /\ (DatesFollow(index, undated) => DatesFollow(index, undated)')
         /\ Readable' = Readable /\ Valid' = Valid /\ Dating'
BY DocsKept, DatesStay DEF Goto, GoesOn, found, Undisturbed, CInv, CommitInv

LEMMA RemoveOrphansHolds ==
  ASSUME CInv, RemoveOrphans
  PROVE  CommitInv'
<1>1. op = "save" /\ pc = "orphans" /\ Goto("stage") /\ UNCHANGED <<docs, sideIndex, sideHead>>
  BY DEF RemoveOrphans
<1>2. \A p \in Paths \ In(work) : \A k \in Kinds : sideWork'[p][k] = None
  BY DEF RemoveOrphans, In, NoSide
<1>0. op' = "save" /\ pc' = "stage" /\ hook' = hook /\ In(work)' = In(work)
  BY <1>1, OnwardKept
<1>3. Flow' /\ Swept'
  BY <1>0, <1>1, <1>2 DEF Flow, CInv, CommitInv, Swept, NoOrphans
<1>4. Staged' /\ Linked' /\ Gated' /\ DatesHeld' /\ NotesHeld'
  BY <1>1, OnwardKept DEF CInv, CommitInv, Staged, Linked, Gated, DatesHeld, NotesHeld, Undisturbed
<1> QED
  BY <1>1, <1>3, <1>4, OnwardKept DEF CommitInv

LEMMA AddAllHolds ==
  ASSUME CInv, AddAll
  PROVE  CommitInv'
<1>1. /\ op = "save" /\ pc = "stage" /\ Goto("heal") /\ UNCHANGED <<work, head, sideWork, sideHead>>
      /\ index' = work /\ sideIndex' = sideWork
  BY DEF AddAll
<1>2. UNCHANGED <<op, hook, quiet, own, tidy, late, undated, clock>> /\ pc' = "heal"
  BY <1>1 DEF Goto, GoesOn, found
<1>3. In(work)' = In(work) /\ Own' = Own
  BY <1>1 DEF Own, StandsFor, In
<1>4. Flow' /\ Staged' /\ Linked' /\ Gated' /\ NotesHeld'
  BY <1>1, <1>2 DEF CInv, CommitInv, Flow, Staged, Linked, Gated, NotesHeld, Undisturbed
<1>5. Swept'
  BY <1>1, <1>2, <1>3 DEF CInv, CommitInv, Swept, NoOrphans, Undisturbed, Exposed
<1>6. DatesHeld' /\ Dating'
  BY <1>1, <1>2, <1>3 DEF CInv, CommitInv, DatesHeld, Undisturbed, Dating, PastDates, In
<1> QED
  BY <1>4, <1>5, <1>6 DEF CommitInv

(* Healing and stamping rewrite documents in place.                           *)
LEMMA Rewritten ==
  ASSUME Typed, index = work, NEW S \in SUBSET (In(index) \cap In(work)), UNCHANGED head,
         \A p \in Paths : IF p \in S THEN work'[p] \in Doc /\ index'[p] = work'[p] /\ work'[p].body = work[p].body
                                     ELSE work'[p] = work[p] /\ index'[p] = index[p],
         work' \in Tree, index' \in Tree
  PROVE  /\ index' = work' /\ In(work)' = In(work) /\ In(index)' = In(index)
         /\ Renames' = Renames /\ Added' = Added /\ \A p : OldOf(p)' = OldOf(p)
<1>1. \A p \in Paths : index'[p] = work'[p]
  OBVIOUS
<1>2. index' = work'
  BY <1>1 DEF Tree
<1>3. \A p \in Paths : work'[p] = None <=> work[p] = None
  BY NoneIsNoRecord DEF In
<1>4. In(work)' = In(work) /\ In(index)' = In(index)
  BY <1>2, <1>3 DEF In
<1>5. \A p \in In(index) : index'[p].body = index[p].body
  BY <1>1 DEF In
<1> QED
  BY <1>2, <1>4, <1>5, SameRenames

LEMMA HealRewrites ==
  ASSUME Typed, NEW H \in SUBSET Astray, HealThese(H)
  PROVE  /\ UNCHANGED <<head, sides>> /\ work' \in Tree /\ index' \in Tree
         /\ H \in SUBSET (In(index) \cap In(work))
         /\ \A p \in Paths : IF p \in H
              THEN /\ work'[p] = Healed(p) /\ index'[p] = work'[p] /\ work'[p] \in Doc /\ work'[p].body = work[p].body
                   /\ work'[p].born = work[p].born /\ work'[p].changed = work[p].changed
              ELSE work'[p] = work[p] /\ index'[p] = index[p]
<1>1. \A p \in H : /\ Healed(p) \in Doc /\ Healed(p).body = work[p].body
                   /\ Healed(p).born = work[p].born /\ Healed(p).changed = work[p].changed
  BY HealedTyped DEF Typed
<1> QED
  BY <1>1, HealTyped DEF HealThese, Astray

LEMMA HealDating ==
  ASSUME CInv, NEW H \in SUBSET Astray, HealThese(H), UNCHANGED clock
  PROVE  Dating'
<1>1. \A p \in H : p \in In(work) /\ p \in Paths
  BY DEF Astray, In
<1>2. \A p \in Paths : work'[p] # None => /\ work[p] # None
                                         /\ work'[p].born = work[p].born /\ work'[p].changed = work[p].changed
  BY <1>1, HealRewrites DEF CInv, In
<1>3. \A p \in Paths : index'[p] # None => index'[p] = index[p] \/ index'[p] = work'[p]
  BY HealRewrites DEF CInv
<1>4. UNCHANGED head
  BY HealRewrites DEF CInv
<1> QED
  BY <1>2, <1>3, <1>4 DEF CInv, CommitInv, Dating, PastDates, In

LEMMA HealHolds ==
  ASSUME CInv, Heal
  PROVE  CommitInv'
<1>1. op = "save" /\ pc = "heal" /\ HealThese(Astray) /\ Goto("staged")
  BY DEF Heal
<1>2. UNCHANGED <<op, hook, quiet, own, tidy, late, undated, clock, head, sides>> /\ pc' = "staged"
  BY <1>1, HealRewrites DEF Goto, GoesOn, found, CInv
<1>3. Flow' /\ Dating' /\ Gated' /\ NotesHeld'
  BY <1>1, <1>2, HealDating DEF CInv, CommitInv, Flow, Gated, NotesHeld, Undisturbed
<1> SUFFICES ASSUME quiet, hook PROVE Staged' /\ Swept' /\ Linked' /\ DatesHeld'
  BY <1>2, <1>3, NothingClaimed DEF CommitInv
<1>4. index = work
  BY <1>1 DEF CInv, CommitInv, Staged, Undisturbed
<1>5. /\ index' = work' /\ In(work)' = In(work) /\ In(index)' = In(index) /\ Renames' = Renames
  BY <1>1, <1>2, <1>4, HealRewrites, Rewritten DEF CInv
<1>6. Swept'
  BY <1>1, <1>2, <1>5 DEF CInv, CommitInv, Swept, NoOrphans, Undisturbed, Exposed, sides
<1>7. Linked'
  <2> SUFFICES ASSUME NEW r \in Renames, NEW p \in In(index) PROVE work'[p].link # r[1]
    BY <1>5 DEF Linked, Following
  <2>1. p \in Paths
    BY DEF In
  <2>2. CASE p \in Astray
    <3>1. PICK s \in Renames : Healed(p).link = s[2]
      BY <2>2, HealedTyped DEF CInv, Typed
    <3> QED
      BY <1>1, <2>1, <2>2, <3>1, HealRewrites, RenameParts DEF CInv
  <2>3. CASE p \notin Astray
    <3>1. work'[p] = work[p]
      BY <1>1, <2>1, <2>3, HealRewrites DEF CInv
    <3> QED
      BY <1>4, <2>3, <3>1 DEF Astray
  <2> QED
    BY <2>2, <2>3
<1>8. Own => Own'
  <2>1. \A p \in In(work) : work'[p].body = work[p].body /\ work'[p].born = work[p].born
    BY <1>1, HealRewrites DEF CInv, In
  <2>2. UNCHANGED head /\ In(head)' = In(head)
    BY <1>2 DEF In
  <2> QED
    BY <1>5, <2>1, <2>2 DEF Own, StandsFor
<1>9. DatesHeld'
  BY <1>1, <1>2, <1>8 DEF CInv, CommitInv, DatesHeld, Undisturbed
<1> QED
  BY <1>5, <1>6, <1>7, <1>9 DEF Staged

LEMMA HealDiesHolds ==
  ASSUME CInv, HealDies
  PROVE  CommitInv'
BY HealDating, EndsHolds DEF HealDies, Ends

LEMMA GitCommitHolds ==
  ASSUME CInv, GitCommit
  PROVE  CommitInv'
<1>1. op = "save" /\ pc = "staged" /\ Goto("stamp") /\ UNCHANGED <<docs, sides>>
  BY DEF GitCommit
<1>0. op' = "save" /\ pc' = "stamp" /\ hook' = hook
  BY <1>1, OnwardKept
<1>2. Flow' /\ Gated' /\ NotesHeld'
  BY <1>0, <1>1 DEF CInv, CommitInv, Flow, Gated, NotesHeld, Undisturbed, HookSteps
<1>4. Staged' /\ Linked' /\ DatesHeld'
  BY <1>0, <1>1, OnwardKept DEF CInv, CommitInv, Staged, Linked, DatesHeld
<1>3. Swept'
  BY <1>1, OnwardKept DEF CInv, CommitInv, Swept, NoOrphans, sides, Exposed
<1> QED
  BY <1>1, <1>2, <1>3, <1>4, OnwardKept DEF CommitInv

LEMMA StampRewrites ==
  ASSUME Typed, NEW n, NEW missed, StampThese(n, missed)
  PROVE  /\ UNCHANGED <<head, sides>> /\ work' \in Tree /\ index' \in Tree
         /\ undated' = Stampable(n) \cap missed
         /\ \A p \in Paths : IF p \in Stampable(n) \ missed
              THEN work'[p] = Dated(p, n) /\ index'[p] = Dated(p, n)
              ELSE work'[p] = work[p] /\ index'[p] = index[p]
<1>1. /\ work' = [p \in Paths |-> IF p \in Stampable(n) \ missed THEN Dated(p, n) ELSE work[p]]
      /\ index' = [p \in Paths |-> IF p \in Stampable(n) \ missed THEN Dated(p, n) ELSE index[p]]
      /\ undated' = Stampable(n) \cap missed
  BY DEF StampThese
<1> QED
  BY <1>1, StampTyped

LEMMA DatableParts ==
  ASSUME Typed, NEW p \in Datable, NEW n
  PROVE  /\ p \in Paths /\ p \in In(work) /\ p \in In(index) /\ work[p].body \notin Plain
         /\ Dated(p, n) \in Doc /\ work[p] \in Doc
         /\ Dated(p, n).body = work[p].body /\ Dated(p, n).link = work[p].link
         /\ Dated(p, n).born = IF Born(p) THEN clock ELSE work[p].born
         /\ Dated(p, n).changed = IF Bumps(p, n) THEN clock ELSE work[p].changed
<1>1. p \in Paths /\ p \in In(work) /\ p \in In(index) /\ work[p].body \notin Plain
  BY DEF Datable, Touched, In
<1> QED
  BY <1>1, DatedTyped DEF Typed

(* A hook writes no birth date into a document that stands for one that is    *)
(* committed, and dates every other change, but for what it misses.           *)
LEMMA StampDates ==
  ASSUME CInv, index = work, Own, NEW n \in Restamps, NEW missed, StampThese(n, missed),
         NEW p \in In(index), NEW o \in In(head), o = OldOf(p),
         {head[o].body, work[p].body} \cap Plain = {}
  PROVE  /\ index'[p].born \in {head[o].born, 0}
         /\ TRUE \notin Restamps /\ p \notin undated' =>
              /\ index'[p].changed >= head[o].changed
              /\ <<index'[p].body, index'[p].link>> # <<head[o].body, head[o].link>> => index'[p].changed = clock
<1>1. p \in Paths /\ p \in In(work) /\ work[p] \in Doc /\ head[o] \in Doc
  BY DocOf DEF CInv, Typed, In
<1>2. StandsFor(p, o) /\ ~Born(p)
  <2>1. CASE \E r \in Renames : r[2] = p
    <3>1. PICK r \in Renames : r[2] = p
      BY <2>1
    <3>2. o = r[1]
      BY <3>1, RenameParts
    <3> QED
      BY <3>1, <3>2, RenameParts DEF StandsFor, Born
  <2>2. CASE ~(\E r \in Renames : r[2] = p)
    <3>1. o = p
      BY <2>2 DEF OldOf
    <3> QED
      BY <3>1 DEF StandsFor, Born, Added
  <2> QED
    BY <2>1, <2>2
<1>3. work[p].born \in {head[o].born, 0}
  BY <1>1, <1>2 DEF Own
<1>4. TRUE \notin Restamps => ~n
  BY CommitConstants
<1>5. clock >= head[o].changed /\ head[o].changed >= head[o].changed
  <2>1. head[o].changed \in Nat /\ clock \in Nat /\ head[o].changed <= clock
    BY <1>1, CommitConstants DEF CInv, CommitInv, Dating, PastDates, Typed, Doc, Dates
  <2> QED
    BY <2>1
<1>6. CASE p \notin Datable
  <2>1. p \notin Touched
    BY <1>1, <1>6 DEF Datable
  <2>2. p \in In(head) /\ index[p] = head[p]
    BY <2>1 DEF Touched, Added
  <2>3. ~\E r \in Renames : r[2] = p
    BY <2>2, RenameParts
  <2>4. o = p
    BY <2>3 DEF OldOf
  <2>5. index'[p] = index[p]
    BY <1>1, <1>6, StampRewrites DEF CInv, Stampable
  <2> QED
    BY <1>5, <2>2, <2>4, <2>5
<1>7. CASE p \in Datable /\ p \in undated'
  <2>1. index'[p] = work[p]
    BY <1>1, <1>7, StampRewrites DEF CInv
  <2> QED
    BY <1>3, <1>7, <2>1
<1>8. CASE p \in Datable /\ p \notin undated'
  <2>1. index'[p] = Dated(p, n)
    BY <1>1, <1>8, StampRewrites DEF CInv, Stampable
  <2>2. /\ index'[p].born = work[p].born /\ index'[p].body = work[p].body /\ index'[p].link = work[p].link
        /\ ~n => index'[p].changed = IF o \notin Quoted /\ head[o] = work[p] THEN work[p].changed ELSE clock
    BY <1>2, <1>8, <2>1, DatableParts DEF CInv, Bumps
  <2>3. CASE o \notin Quoted /\ head[o] = work[p]
    BY <1>3, <1>4, <1>5, <2>2, <2>3
  <2>4. CASE ~(o \notin Quoted /\ head[o] = work[p])
    BY <1>3, <1>4, <1>5, <2>2, <2>4
  <2> QED
    BY <2>3, <2>4
<1> QED
  BY <1>6, <1>7, <1>8

(* Nothing is dated after the clock.                                          *)
LEMMA DatedPast ==
  ASSUME CInv, NEW p \in Datable, NEW n
  PROVE  Dated(p, n).born <= clock /\ Dated(p, n).changed <= clock
<1>1. work[p].born <= clock /\ work[p].changed <= clock /\ p \in In(work)
  BY DatableParts DEF CInv, CommitInv, Dating, PastDates
<1>2. clock <= clock
  BY CommitConstants DEF CInv, Typed, Dates
<1>3. Dated(p, n).born \in {clock, work[p].born} /\ Dated(p, n).changed \in {clock, work[p].changed}
  BY DatableParts DEF CInv
<1> QED
  BY <1>1, <1>2, <1>3

LEMMA StampDiesHolds ==
  ASSUME CInv, StampDies
  PROVE  CommitInv'
<1>1. PICK n \in Restamps, missed \in Misses :
        work' = [p \in Paths |-> IF p \in Stampable(n) \ missed THEN Dated(p, n) ELSE work[p]]
  BY DEF StampDies
<1>2. \A p \in Paths : work'[p] = work[p] \/ (p \in Datable /\ work'[p] = Dated(p, n))
  BY <1>1 DEF Stampable
<1>3. Ends /\ UNCHANGED <<index, head>>
  BY DEF StampDies
<1>4. Dating'
  BY <1>2, <1>3, DatedPast DEF Ends, CInv, CommitInv, Dating, PastDates, In
<1> QED
  BY <1>3, <1>4, EndsHolds

LEMMA StampHolds ==
  ASSUME CInv, Stamp
  PROVE  CommitInv'
<1>1. PICK n \in Restamps, missed \in Misses : StampThese(n, missed)
  BY DEF Stamp
<1>2. pc = "stamp" /\ GoesOn("cleanup")
  BY DEF Stamp
<1>3. UNCHANGED <<op, hook, quiet, own, tidy, late, clock, head, sideWork, sideIndex, sideHead>> /\ pc' = "cleanup"
  BY <1>1, <1>2, StampRewrites DEF GoesOn, found, CInv, sides
<1>4. op \in {"save", "commit"}
  BY <1>2 DEF CInv, CommitInv, Flow, Typed
<1>5. Flow'
  BY <1>2, <1>3, <1>4 DEF CInv, CommitInv, Flow, HookSteps
<1>6. Dating'
  <2>1. \A p \in Paths : /\ work'[p] = work[p] \/ (p \in Datable /\ work'[p] = Dated(p, n))
                         /\ index'[p] = index[p] \/ (p \in Datable /\ index'[p] = Dated(p, n))
    BY <1>1, StampRewrites DEF CInv, Stampable
  <2> QED
    BY <1>3, <2>1, DatedPast DEF CInv, CommitInv, Dating, PastDates, In
<1> SUFFICES ASSUME quiet, hook PROVE Staged' /\ Swept' /\ Linked' /\ Gated' /\ DatesHeld' /\ NotesHeld'
  BY <1>3, <1>5, <1>6, NothingClaimed DEF CommitInv
<1>7. index = work
  BY <1>2, <1>4 DEF CInv, CommitInv, Staged, Undisturbed
<1>8. /\ index' = work' /\ In(work)' = In(work) /\ In(index)' = In(index) /\ Renames' = Renames
      /\ \A p : OldOf(p)' = OldOf(p)
  <2> DEFINE S == Stampable(n) \ missed
  <2>1. S \in SUBSET (In(index) \cap In(work))
    BY DatableParts DEF CInv, Stampable
  <2>2. \A p \in S : Dated(p, n) \in Doc /\ Dated(p, n).body = work[p].body
    BY DatableParts DEF CInv, Stampable
  <2>3. \A p \in Paths : IF p \in S THEN work'[p] = Dated(p, n) /\ index'[p] = Dated(p, n)
                                    ELSE work'[p] = work[p] /\ index'[p] = index[p]
    BY <1>1, StampRewrites DEF CInv
  <2>4. work' \in Tree /\ index' \in Tree
    BY <1>1, StampTyped DEF CInv
  <2> HIDE DEF S
  <2>5. \A p \in Paths : IF p \in S THEN work'[p] \in Doc /\ index'[p] = work'[p] /\ work'[p].body = work[p].body
                                    ELSE work'[p] = work[p] /\ index'[p] = index[p]
    BY <2>2, <2>3
  <2> QED
    BY <1>3, <1>7, <2>1, <2>4, <2>5, Rewritten DEF CInv
<1>9. \A p \in In(index) : index'[p].body = index[p].body /\ index'[p].link = index[p].link
  BY <1>1, <1>7, StampRewrites, DatableParts DEF CInv, In, Stampable
<1>10. Staged' /\ Gated'
  BY <1>3, <1>8 DEF Staged, Gated
<1>11. Swept'
  BY <1>2, <1>3, <1>8 DEF CInv, CommitInv, Swept, NoOrphans, Undisturbed, Exposed
<1>12. Linked'
  BY <1>2, <1>3, <1>8, <1>9 DEF CInv, CommitInv, Linked, Following, Undisturbed
<1>13. DatesHeld'
  <2> SUFFICES ASSUME own PROVE DatesFollow(index, undated)'
    BY <1>3 DEF DatesHeld
  <2>1. Own
    BY <1>2, <1>4 DEF CInv, CommitInv, DatesHeld, Undisturbed
  <2>2. In(head)' = In(head)
    BY <1>3 DEF In
  <2> SUFFICES ASSUME NEW p \in In(index), OldOf(p) \in In(head),
                      {head[OldOf(p)].body, index'[p].body} \cap Plain = {}
               PROVE  /\ index'[p].born \in {head[OldOf(p)].born, 0}
                      /\ TRUE \notin Restamps /\ p \notin undated' =>
                           /\ index'[p].changed >= head[OldOf(p)].changed
                           /\ <<index'[p].body, index'[p].link>> # <<head[OldOf(p)].body, head[OldOf(p)].link>>
                                => index'[p].changed = clock
    BY <1>3, <1>8, <2>2 DEF DatesFollow
  <2>3. PICK o \in In(head) : o = OldOf(p)
    OBVIOUS
  <2>4. {head[o].body, work[p].body} \cap Plain = {}
    BY <1>7, <1>9, <2>3
  <2> QED
    BY <1>1, <1>7, <2>1, <2>3, <2>4, StampDates
<1>14. NotesHeld'
  BY <1>2, <1>3 DEF CInv, CommitInv, NotesHeld, Undisturbed, Tidy
<1> QED
  BY <1>10, <1>11, <1>12, <1>13, <1>14

-----------------------------------------------------------------------------
(* What cleanup makes of the sidecars.                                        *)
LEMMA CleanedAt ==
  ASSUME NEW s, NEW p \in Paths, NEW k \in Kinds
  PROVE  Cleaned(s)[p][k] = IF Dropped(p, k) \/ \E m \in Moved : m[1][1] = p /\ m[2] = k THEN None
           ELSE IF \E m \in Moved : m[1][2] = p /\ m[2] = k THEN s[OldOf(p)][k] ELSE s[p][k]
BY DEF Cleaned

LEMMA MovedParts ==
  ASSUME NEW m \in Moved
  PROVE  m[1] \in Renames /\ m[2] \in Kinds
BY DEF Moved, Movable

(* A sidecar of a document that stays, or arrives, is left alone or replaced  *)
(* by that of the document it was renamed from.                               *)
LEMMA NotesMoved ==
  ASSUME Tidy, CleanupErrors = {}, NEW r \in Renames, sideHead[r[1]]["notes"] # None
  PROVE  Cleaned(sideWork)[r[2]]["notes"] # None
<1> DEFINE k == "notes"
<1>1. /\ r[1] \in Paths /\ r[2] \in Paths /\ r[2] \in Added /\ r[1] \in Deleted /\ OldOf(r[2]) = r[1]
      /\ r[2] \notin Deleted /\ k \in Kinds
  BY RenameParts DEF Deleted, Kinds
<1>2. \A s \in Renames : s[1] # r[2]
  BY <1>1, RenameParts
<1>3. ~Dropped(r[2], k)
  BY <1>1, <1>2 DEF Dropped
<1>4. ~\E m \in Moved : m[1][1] = r[2] /\ m[2] = k
  BY <1>2, MovedParts
<1>5. Tracked(r[1], k) /\ sideWork[r[1]][k] # None
  BY <1>1 DEF Tidy, Tracked
<1>6. CASE Tracked(r[2], k)
  <2>1. sideWork[r[2]][k] # None
    BY <1>1, <1>6 DEF Tidy, Tracked
  <2> QED
    BY <1>1, <1>3, <1>4, <1>5, <2>1, CleanedAt
<1>7. CASE ~Tracked(r[2], k)
  <2>1. <<r, k>> \in Movable
    BY <1>1, <1>5, <1>7 DEF Movable
  <2>2. <<r, k>> \in Moved
    BY <2>1 DEF CleanupErrors
  <2>3. \E m \in Moved : m[1][2] = r[2] /\ m[2] = k
    BY <2>2
  <2> QED
    BY <1>1, <1>3, <1>4, <1>5, <2>3, CleanedAt
<1> QED
  BY <1>6, <1>7

LEMMA CleanedSwept ==
  ASSUME index = work, NEW s, NoOrphans(work, s)
  PROVE  NoOrphans(work, Cleaned(s))
<1> SUFFICES ASSUME NEW p \in Paths \ In(work), NEW k \in Kinds PROVE Cleaned(s)[p][k] = None
  BY DEF NoOrphans
<1>1. ~\E m \in Moved : m[1][2] = p /\ m[2] = k
  BY MovedParts, RenameParts
<1>2. s[p][k] = None
  BY DEF NoOrphans
<1> QED
  BY <1>1, <1>2, CleanedAt

(* Whatever an earlier command left, a save has nothing to move that its add  *)
(* did not already account for.                                               *)
LEMMA NothingToMove ==
  ASSUME CInv, op = "save", pc = "cleanup", quiet, ~late
  PROVE  CleanupErrors = {}
<1>1. NoOrphans(work, sideIndex) /\ index = work
  BY DEF CInv, CommitInv, Flow, Swept, Staged, Undisturbed
<1>2. \A r \in Renames : \A k \in Kinds : ~Tracked(r[1], k)
  BY <1>1, RenameParts DEF NoOrphans, Tracked
<1> QED
  BY <1>2 DEF CleanupErrors, Movable

LEMMA CleanupHolds ==
  ASSUME CInv, Cleanup
  PROVE  CommitInv'
<1>1. /\ pc = "cleanup" /\ sideWork' = Cleaned(sideWork) /\ sideIndex' = Cleaned(sideIndex)
      /\ UNCHANGED <<docs, sideHead>>
  BY DEF Cleanup
<1>2. CASE CleanupErrors # {}
  BY <1>1, <1>2, EndsHolds, DatesStay DEF Cleanup, Ends, CInv, CommitInv
<1>3. CASE CleanupErrors = {}
  <2>1. Goto("extract")
    BY <1>3 DEF Cleanup
  <2>2. op # "none" /\ UNCHANGED <<op, hook>> /\ pc' = "extract"
    BY <1>1, <2>1, OnwardKept DEF CInv, CommitInv, Flow
  <2>3. Flow'
    BY <1>1, <2>2 DEF CInv, CommitInv, Flow, HookSteps
  <2>4. Dating'
    BY <1>1, <2>1, OnwardKept
  <2> SUFFICES ASSUME quiet, hook, op \in {"save", "commit"}
               PROVE Staged' /\ Swept' /\ Linked' /\ Gated' /\ DatesHeld' /\ NotesHeld'
    BY <1>1, <2>1, <2>2, <2>3, <2>4, OnwardKept, NothingClaimed DEF CommitInv
  <2>5. index = work
    BY <1>1 DEF CInv, CommitInv, Staged, Undisturbed
  <2>6. Staged' /\ Linked' /\ Gated' /\ DatesHeld'
    BY <1>1, <2>1, <2>2, OnwardKept DEF CInv, CommitInv, Staged, Linked, Gated, DatesHeld
  <2>7. Swept'
    <3>1. op = "save" /\ ~late => NoOrphans(work, sideWork) /\ NoOrphans(work, sideIndex)
      BY <1>1 DEF CInv, CommitInv, Swept, Undisturbed, Exposed
    <3>2. op = "save" /\ ~late => NoOrphans(work, Cleaned(sideWork)) /\ NoOrphans(work, Cleaned(sideIndex))
      BY <2>5, <3>1, CleanedSwept
    <3> QED
      BY <1>1, <2>1, <2>2, <3>2, OnwardKept DEF Swept, NoOrphans, Undisturbed
  <2>8. NotesHeld'
    <3>1. op = "commit" /\ tidy => Tidy
      BY <1>1 DEF CInv, CommitInv, NotesHeld, Undisturbed
    <3>2. op = "commit" /\ tidy => NotesAlong(Cleaned(sideWork))
      BY <1>3, <3>1, NotesMoved DEF NotesAlong
    <3>3. op = "commit" /\ tidy => NotesAlong(sideWork)'
      BY <1>1, <2>1, <3>2, OnwardKept DEF NotesAlong
    <3>4. UNCHANGED <<op, quiet, hook, tidy>> /\ pc' = "extract"
      BY <1>1, <2>1, <2>2, OnwardKept
    <3> QED
      BY <3>3, <3>4 DEF NotesHeld, Undisturbed
  <2> QED
    BY <2>6, <2>7, <2>8
<1> QED
  BY <1>2, <1>3

LEMMA WalkedAt ==
  ASSUME Typed, NEW p \in Paths, NEW D \in SUBSET In(work)
  PROVE  /\ Walked(D)[p]["notes"] = sideWork[p]["notes"]
         /\ p \notin D => Walked(D)[p] = sideWork[p]
         /\ p \in D => /\ Walked(D)[p]["fm"] = FactsOf(work[p])
                       /\ Walked(D)[p]["md"] = LinkOf(In(work), work[p])
<1>1. Walked(D)[p] = IF p \in D THEN Extracted(In(work), work[p], sideWork[p]) ELSE sideWork[p]
  BY DEF Walked
<1>2. sideWork[p] \in Sidecar
  BY DEF Typed, Sides
<1>3. CASE p \in D
  <2>1. work[p] \in Doc
    BY <1>3, DocOf DEF Typed
  <2>2. \A c \in Doc, t \in Sidecar :
          /\ Extracted(In(work), c, t)["fm"] = FactsOf(c) /\ Extracted(In(work), c, t)["md"] = LinkOf(In(work), c)
          /\ Extracted(In(work), c, t)["notes"] = t["notes"]
    BY ExtractedTyped
  <2> QED
    BY <1>1, <1>2, <1>3, <2>1, <2>2
<1> QED
  BY <1>1, <1>3

LEMMA ExtractHolds ==
  ASSUME CInv, Extract
  PROVE  CommitInv'
<1>1. /\ pc = "extract" /\ sideWork' = Walked(In(work))
      /\ UNCHANGED <<docs, sideIndex, sideHead>>
  BY DEF Extract
<1>2. CASE Ends
  BY <1>1, <1>2, EndsHolds, DatesStay DEF Ends, CInv, CommitInv
<1>3. CASE ~Ends
  <2>1. IdentityGate(sideWork') /\ Readable /\ Goto(IF op = "dry" THEN "validate" ELSE "add")
    BY <1>3 DEF Extract
  <2>2. PICK next \in {"validate", "add"} : Goto(next) /\ (op = "dry" <=> next = "validate")
    BY <2>1
  <2>3. UNCHANGED <<op, hook, quiet, own, tidy>> /\ pc' = next /\ op # "none"
    BY <1>1, <2>2, OnwardKept DEF CInv, CommitInv, Flow
  <2>4. Flow'
    BY <1>1, <2>2, <2>3 DEF CInv, CommitInv, Flow, HookSteps
  <2>5. Dating'
    BY <1>1, <2>2, OnwardKept
  <2> SUFFICES ASSUME quiet, hook, op \in {"save", "commit"}
               PROVE Staged' /\ Swept' /\ Linked' /\ Gated' /\ DatesHeld' /\ NotesHeld'
    BY <2>3, <2>4, <2>5, NothingClaimed DEF CommitInv
  <2>6. pc' = "add"
    BY <2>2, <2>3
  <2>7. index = work
    BY <1>1 DEF CInv, CommitInv, Staged, Undisturbed
  <2>8. Staged' /\ Linked' /\ DatesHeld'
    BY <1>1, <2>2, <2>6, OnwardKept DEF CInv, CommitInv, Staged, Linked, DatesHeld
  <2>9. \A p \in Paths \ In(work) : sideWork'[p] = sideWork[p]
    BY <1>1, WalkedAt DEF CInv
  <2>10. Swept'
    BY <1>1, <2>2, <2>3, <2>9, OnwardKept DEF CInv, CommitInv, Swept, NoOrphans, Undisturbed, Exposed
  <2>11. Gated'
    <3>1. \A p \in In(work) : sideWork'[p]["fm"] = FactsOf(work[p]) /\ sideWork'[p]["md"] = LinkOf(In(work), work[p])
      BY <1>1, WalkedAt DEF CInv, In
    <3>2. UNCHANGED work
      BY <1>1 DEF docs
    <3>3. Pairs(work, sideWork)'
      BY <3>1, <3>2 DEF Pairs, LinkOf, In
    <3>4. IdentityGate(sideWork)'
      BY <2>1 DEF IdentityGate, Stating
    <3>5. Readable'
      BY <1>1, <2>1, DocsKept
    <3> QED
      BY <2>6, <3>3, <3>4, <3>5 DEF Gated, Judged
  <2>12. NotesHeld'
    <3>1. op = "commit" /\ tidy => NotesAlong(sideWork)
      BY <1>1 DEF CInv, CommitInv, NotesHeld, Undisturbed
    <3>2. \A p \in Paths : sideWork'[p]["notes"] = sideWork[p]["notes"]
      BY <1>1, WalkedAt DEF CInv
    <3>3. Renames' = Renames /\ sideHead' = sideHead
      BY <1>1, DocsKept
    <3>4. op = "commit" /\ tidy => NotesAlong(sideWork)'
      BY <3>1, <3>2, <3>3, RenameParts DEF NotesAlong
    <3> QED
      BY <2>3, <2>6, <3>4 DEF NotesHeld, Undisturbed
  <2> QED
    BY <2>8, <2>10, <2>11, <2>12
<1> QED
  BY <1>2, <1>3

LEMMA AddExtractsHolds ==
  ASSUME CInv, AddExtracts
  PROVE  CommitInv'
<1>1. pc = "add" /\ sideIndex' = sideWork /\ Goto("check") /\ UNCHANGED <<docs, sideWork, sideHead>>
  BY DEF AddExtracts
<1>2. UNCHANGED <<op, hook, quiet, own, tidy, late, work>> /\ pc' = "check" /\ In(work)' = In(work)
  BY <1>1, OnwardKept
<1>3. Flow'
  BY <1>1, <1>2 DEF CInv, CommitInv, Flow, HookSteps
<1>4. Staged' /\ Linked' /\ DatesHeld' /\ Dating'
  BY <1>1, OnwardKept DEF CInv, CommitInv, Staged, Linked, DatesHeld
<1>5. Swept'
  BY <1>1, <1>2 DEF CInv, CommitInv, Swept, NoOrphans, Undisturbed, Exposed
<1>6. Gated'
  <2>1. Judged(sideIndex)' = Judged(sideWork)
    BY <1>1, <1>2, OnwardKept DEF Judged, Pairs, IdentityGate, Stating
  <2> QED
    BY <1>1, <1>2, <2>1 DEF CInv, CommitInv, Gated, Undisturbed
<1>7. NotesHeld'
  <2>1. NotesAlong(sideIndex)' = NotesAlong(sideWork)
    BY <1>1, OnwardKept DEF NotesAlong
  <2> QED
    BY <1>1, <1>2, <2>1 DEF CInv, CommitInv, NotesHeld, Undisturbed
<1> QED
  BY <1>3, <1>4, <1>5, <1>6, <1>7 DEF CommitInv

(* The steps that only look.                                                  *)
LEMMA ChecksHold ==
  ASSUME CInv, CheckStaged \/ Validate
  PROVE  CommitInv'
<1>1. UNCHANGED <<docs, sides>> /\ pc \in {"check", "validate"}
  BY DEF CheckStaged, Validate
<1>2. CASE Ends
  BY <1>1, <1>2, EndsHolds, DatesStay DEF Ends, CInv, CommitInv
<1>3. CASE ~Ends
  <2>1. PICK next \in {"validate", "commit"} : /\ Goto(next) /\ (next = "commit" => Valid /\ op # "dry")
                                               /\ (next = "validate" => pc = "check")
    BY <1>3 DEF CheckStaged, Validate
  <2>2. UNCHANGED <<op, hook, quiet, own, tidy, late, work, sideWork, sideIndex, sideHead>> /\ pc' = next
        /\ In(work)' = In(work)
    BY <1>1, <2>1, OnwardKept DEF sides
  <2>3. Flow'
    BY <1>1, <2>1, <2>2 DEF CInv, CommitInv, Flow, HookSteps
  <2>4. Staged' /\ Linked' /\ DatesHeld' /\ Dating'
    BY <1>1, <2>1, OnwardKept DEF CInv, CommitInv, Staged, Linked, DatesHeld
  <2>5. Swept'
    BY <1>1, <2>1, <2>2 DEF CInv, CommitInv, Swept, NoOrphans, Undisturbed, Exposed
  <2>6. Gated'
    <3>1. Judged(sideIndex)' = Judged(sideIndex) /\ Valid' = Valid
      BY <1>1, <2>1, <2>2, OnwardKept DEF Judged, Pairs, IdentityGate, Stating
    <3> QED
      BY <1>1, <2>1, <2>2, <3>1 DEF CInv, CommitInv, Gated, Undisturbed
  <2>7. NotesHeld'
    <3>1. NotesAlong(sideIndex)' = NotesAlong(sideIndex)
      BY <1>1, <2>1, <2>2, OnwardKept DEF NotesAlong
    <3> QED
      BY <1>1, <2>1, <2>2, <3>1 DEF CInv, CommitInv, NotesHeld, Undisturbed
  <2> QED
    BY <2>3, <2>4, <2>5, <2>6, <2>7 DEF CommitInv
<1> QED
  BY <1>2, <1>3

LEMMA OverHolds ==
  ASSUME CInv, ExtractDies \/ NothingToSave \/ Commits \/ Dies
  PROVE  CommitInv'
<1>1. Ends
  BY DEF ExtractDies, NothingToSave, Commits, Dies
<1>2. Dating'
  <2>1. CASE Commits
    BY <2>1, <1>1 DEF Commits, Ends, CInv, CommitInv, Dating, PastDates, In
  <2>2. CASE ExtractDies \/ NothingToSave \/ Dies
    BY <2>2, <1>1, DatesStay DEF ExtractDies, NothingToSave, Dies, Ends, CInv, CommitInv
  <2> QED
    BY <2>1, <2>2
<1> QED
  BY <1>1, <1>2, EndsHolds

LEMMA NextHolds == CInv /\ [Next]_vars => CInv'
<1> SUFFICES ASSUME CInv, [Next]_vars PROVE CommitInv'
  BY NextTyped DEF CInv
<1>1. CASE UNCHANGED vars
  BY <1>1, NothingWritten DEF vars
<1>2. CASE User
  BY <1>2, UserHolds
<1>3. CASE SyncWalks
  BY <1>3, SyncHolds
<1>4. CASE Command
  BY <1>4, BeginHolds, RemoveOrphansHolds, AddAllHolds, HealHolds, HealDiesHolds, GitCommitHolds, StampHolds, StampDiesHolds,
     CleanupHolds, ExtractHolds, AddExtractsHolds, ChecksHold, OverHolds DEF Command
<1> QED
  BY <1>1, <1>2, <1>3, <1>4 DEF Next

LEMMA AlwaysHolds == Spec => []CInv
<1> QED
  BY InitHolds, NextHolds, PTL DEF Spec

-----------------------------------------------------------------------------
(* What a commit carries.                                                     *)

(* Only the last step of a command commits, and it commits the index.         *)
LEMMA OnlyCommits ==
  ASSUME Next, Committed
  PROVE  Commits
<1>1. ~User
  BY DEF User, Write, Import, Remove, Stage, Annotate, MoveOnDisk, GitMv, Move, Clone, sides, docs, Committed
<1>2. ~SyncWalks
  BY DEF SyncWalks, SyncLists, SyncReads, SyncWrites, docs, sides, Committed
<1>3. Command
  BY <1>1, <1>2 DEF Next
<1>4. ~(BeginSave \/ BeginDryRun \/ BeginCommit \/ RemoveOrphans \/ AddAll \/ NothingToSave \/ GitCommit)
  BY DEF BeginSave, BeginDryRun, BeginCommit, Begin, RemoveOrphans, AddAll, NothingToSave, GitCommit,
         sides, docs, Committed
<1>5. ~(Heal \/ HealDies \/ Stamp \/ StampDies)
  BY DEF Heal, HealDies, HealThese, Stamp, StampThese, StampDies, sides, docs, Committed
<1>6. ~(Cleanup \/ Extract \/ ExtractDies \/ AddExtracts \/ CheckStaged \/ Validate \/ Dies)
  BY DEF Cleanup, Extract, ExtractDies, AddExtracts, CheckStaged, Validate, Dies, sides, docs, Committed
<1> QED
  BY <1>3, <1>4, <1>5, <1>6 DEF Command

LEMMA AtCommit ==
  ASSUME CInv, [Next]_vars, NEW ops \in SUBSET {"save", "commit"}, CommitOf(ops)
  PROVE  /\ head' = index /\ sideHead' = sideIndex /\ index = work
         /\ ~late => Judged(sideIndex) /\ Valid
         /\ op = "save" /\ ~late => NoOrphans(work, sideIndex)
         /\ op = "save" => Following(index)
         /\ own => DatesFollow(index, undated)
         /\ op = "commit" /\ tidy => NotesAlong(sideIndex)
<1>1. Committed /\ op \in ops /\ hook /\ quiet
  BY DEF CommitOf
<1>2. Commits
  BY <1>1, OnlyCommits DEF Committed, vars, docs, sides
<1>3. pc = "commit" /\ head' = index /\ sideHead' = sideIndex
  BY <1>2 DEF Commits
<1>4. Undisturbed({"save", "commit"}) /\ (op = "save" => Undisturbed({"save"}))
      /\ (op = "commit" => Undisturbed({"commit"}))
  BY <1>1 DEF Undisturbed
<1>5. index = work
  BY <1>3, <1>4 DEF CInv, CommitInv, Staged
<1>6. ~late => Judged(sideIndex) /\ Valid
  BY <1>3, <1>4 DEF CInv, CommitInv, Gated
<1>7. /\ op = "save" => Following(index)
      /\ op = "save" /\ ~late => NoOrphans(work, sideIndex)
  BY <1>3, <1>4 DEF CInv, CommitInv, Swept, Linked
<1>8. own => DatesFollow(index, undated)
  BY <1>3, <1>4 DEF CInv, CommitInv, DatesHeld
<1>9. op = "commit" /\ tidy => NotesAlong(sideIndex)
  BY <1>3, <1>4 DEF CInv, CommitInv, NotesHeld
<1> QED
  BY <1>3, <1>5, <1>6, <1>7, <1>8, <1>9

(* However documents were edited, moved, staged and annotated before, whatever *)
(* earlier commands died in between, and wherever gitlexd is in its walk: a    *)
(* commit that nobody disturbed carries for every document the sidecars of     *)
(* exactly the bytes it carries, unless gitlexd wrote older ones after they    *)
(* were extracted.                                                             *)
THEOREM SidecarsMatchDocuments == Spec => PairsCommitted
<1>1. CInv /\ [Next]_vars => [Unhurried({"save", "commit"}) => Pairs(head', sideHead')]_vars
  <2> SUFFICES ASSUME CInv, [Next]_vars, Unhurried({"save", "commit"}) PROVE Pairs(head', sideHead')
    OBVIOUS
  <2>1. head' = work /\ sideHead' = sideIndex /\ Pairs(work, sideIndex)
    BY AtCommit DEF Unhurried, Judged
  <2> QED
    BY <2>1 DEF Pairs, In
<1> QED
  BY <1>1, AlwaysHolds, PTL DEF Spec, PairsCommitted

(* A save commits no sidecar of a document that is gone, whoever deleted or    *)
(* moved it, unless gitlexd wrote one it had read before.                      *)
THEOREM NoOrphanIsCommitted == Spec => NoOrphansCommitted
<1>1. CInv /\ [Next]_vars => [Unhurried({"save"}) => NoOrphans(head', sideHead')]_vars
  <2> SUFFICES ASSUME CInv, [Next]_vars, Unhurried({"save"}) PROVE NoOrphans(head', sideHead')
    OBVIOUS
  <2>1. head' = work /\ sideHead' = sideIndex /\ NoOrphans(work, sideIndex)
    BY AtCommit DEF CommitOf, Unhurried
  <2> QED
    BY <2>1 DEF NoOrphans, In
<1> QED
  BY <1>1, AlwaysHolds, PTL DEF Spec, NoOrphansCommitted

(* The identity gate and the shapes hold of what a save commits, not only of  *)
(* what it looked at: nothing comes in after the gates but what gitlexd may    *)
(* write late.                                                                 *)
THEOREM GatesAreKept == Spec => GatesHold
<1>1. CInv /\ [Next]_vars => [Unhurried({"save"}) => IdentityGate(sideHead') /\ Conforms(head')]_vars
  <2> SUFFICES ASSUME CInv, [Next]_vars, Unhurried({"save"}) PROVE IdentityGate(sideHead') /\ Conforms(head')
    OBVIOUS
  <2>1. head' = work /\ sideHead' = sideIndex /\ IdentityGate(sideIndex) /\ Readable /\ Valid
    BY AtCommit DEF Unhurried, Judged
  <2>2. IdentityGate(sideHead')
    BY <2>1 DEF IdentityGate, Stating
  <2> QED
    BY <2>1, <2>2 DEF Readable, Valid, Conforms, In
<1> QED
  BY <1>1, AlwaysHolds, PTL DEF Spec, GatesHold

(* A commit keeps the birth date of every document it stands for; but for     *)
(* documents its hook missed, dates never go back and changes are dated.      *)
THEOREM DatesAreKept == Spec => DatesKept
<1>1. CInv /\ [Next]_vars => [CommitOf({"save", "commit"}) /\ own => DatesFollow(head', undated)]_vars
  <2> SUFFICES ASSUME CInv, [Next]_vars, CommitOf({"save", "commit"}), own PROVE DatesFollow(head', undated)
    OBVIOUS
  <2>1. head' = index /\ DatesFollow(index, undated)
    BY AtCommit
  <2> QED
    BY <2>1 DEF DatesFollow, In
<1> QED
  BY <1>1, AlwaysHolds, PTL DEF Spec, DatesKept

(* A save leaves no link at the old path of a document it moves.              *)
THEOREM LinksAreHealed == Spec => LinksFollow
<1>1. CInv /\ [Next]_vars =>
        [CommitOf({"save"}) => \A r \in Renames, p \in In(head') : head'[p].link # r[1]]_vars
  <2> SUFFICES ASSUME CInv, [Next]_vars, CommitOf({"save"}), NEW r \in Renames, NEW p \in In(head')
               PROVE  head'[p].link # r[1]
    OBVIOUS
  <2>1. head' = index /\ Following(index)
    BY AtCommit DEF CommitOf
  <2> QED
    BY <2>1 DEF Following, In
<1> QED
  BY <1>1, AlwaysHolds, PTL DEF Spec, LinksFollow

(* A plain commit takes the notes along with the document it moves.           *)
THEOREM NotesComeAlong == Spec => NotesFollowCommit
<1>1. CInv /\ [Next]_vars => [tidy => NotesMove({"commit"})]_vars
  <2> SUFFICES ASSUME CInv, [Next]_vars, tidy, CommitOf({"commit"}), NEW r \in Renames, sideHead[r[1]]["notes"] # None
               PROVE  sideHead'[r[2]]["notes"] # None
    BY DEF NotesMove
  <2>1. op = "commit"
    BY DEF CommitOf
  <2>2. sideHead' = sideIndex /\ NotesAlong(sideIndex)
    BY <2>1, AtCommit
  <2> QED
    BY <2>2 DEF NotesAlong
<1> QED
  BY <1>1, AlwaysHolds, PTL DEF Spec, NotesFollowCommit

(* A save that nobody disturbed is never stopped by sidecars an earlier       *)
(* command left behind: its first two steps have put them in order.           *)
THEOREM SavesGoThrough == Spec => []SaveNotStuck
<1>1. CInv => SaveNotStuck
  BY NothingToMove DEF SaveNotStuck
<1> QED
  BY <1>1, AlwaysHolds, PTL
=============================================================================
