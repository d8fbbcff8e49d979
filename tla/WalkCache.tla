----------------------------- MODULE WalkCache -----------------------------
(* The walk over the working tree and its cache (walkcache.rs, nquad.rs:746-1240*)
(* and 1240-1268): what each document last extracted to, kept in .lex/_ignore/  *)
(* so that a save, a sync or a query extracts only what changed. Every walk     *)
(* writes the same cache; a save and a sync write sidecars too, a query only    *)
(* reads the fragments. Walks die half-way, and two may overlap.                *)
EXTENDS Naturals, FiniteSets

CONSTANTS
  Docs,      \* paths of documents
  Texts,     \* what a document's bytes can be
  Mentions,  \* text -> the documents whose names it contains
  Broken,    \* texts whose extraction fails
  Nameless,  \* documents whose name has no part that every reference to it spells out
  Contexts,  \* the installed ontology together with the build of git-lex
  Walkers,   \* processes that walk: commands and the workers of gitlexd
  None,
  Kinds,     \* the walks they make: save, sync, query
  MaxEdits,  \* bound on what the user does
  MaxWalks   \* bound on the walks

ASSUME WalkConstants ==
  /\ Mentions \in [Texts -> SUBSET Docs]
  /\ Broken \subseteq Texts /\ Nameless \subseteq Docs
  /\ Kinds \subseteq {"save", "sync", "query"}
  /\ None \notin Docs \cup Texts \cup Contexts
  /\ MaxEdits \in Nat /\ MaxWalks \in Nat

VARIABLES
  bytes,    \* document -> its text in the working tree, or None
  blob,     \* document -> the text git's index holds, or None
  side,     \* document -> its sidecars in the working tree, or None
  tip,      \* the commit checked out: its documents and their sidecars
  other,    \* another commit the user may switch to
  ctx,      \* the context a walk starts under
  list,     \* files.tsv: the documents of the walk that wrote it
  manifest, \* manifest.tsv: its context, the list it was written against, its entries
  frag,     \* document -> the fragment on disk, or None
  walk,     \* walker -> its walk
  torn,     \* history: a walk died after it stored a fragment or wrote
            \* sidecars, or two overlapped
  swapped,  \* history: git put other sidecars in place, or a save removed
            \* those of a document deleted while it walked
  reread,   \* history: a document that was extracted after all had changed
            \* since the same walk hashed it
  edits, walks

tree == <<bytes, blob, side, tip, other, ctx>>
cache == <<list, manifest, frag>>
past == <<torn, swapped, reread>>
vars == <<tree, cache, walk, past, edits, walks>>

Files == {d \in Docs : bytes[d] # None}
Entry == [text : Texts, index : Texts \cup {None}, sidecars : BOOLEAN]
Fragment == [text : Texts, index : Texts \cup {None}, links : SUBSET Docs, ctx : Contexts]
Sidecars == [text : Texts, links : SUBSET Docs]
NoEntries == [d \in Docs |-> None]

(* What extraction depends on: the document's bytes, which of the documents   *)
(* they name exist, and for the fragment also git's blob hash and the context.*)
SideOf(text, files) == [text |-> text, links |-> Mentions[text] \cap files]
FragmentOf(text, index, files, c) ==
  [text |-> text, index |-> index, links |-> Mentions[text] \cap files, ctx |-> c]

Idle == [at |-> "off"]
Walking == {w \in Walkers : walk[w].at # "off"}

Init ==
  /\ bytes \in [Docs -> Texts \ Broken] /\ blob = bytes
  /\ side = [d \in Docs |-> SideOf(bytes[d], Docs)]
  /\ tip = [docs |-> bytes, side |-> side] /\ other = tip
  /\ ctx \in Contexts
  /\ list = None /\ manifest = None /\ frag = NoEntries
  /\ walk = [w \in Walkers |-> Idle]
  /\ torn = FALSE /\ swapped = FALSE /\ reread = FALSE /\ edits = 0 /\ walks = 0

-----------------------------------------------------------------------------
(* The user and git. An edit while a walk runs is seen by it or is not.       *)
Disturbed == walk' = [w \in Walkers |-> IF walk[w] = Idle THEN Idle ELSE [walk[w] EXCEPT !.alone = FALSE]]
UserActs ==
  /\ edits < MaxEdits /\ edits' = edits + 1
  /\ Disturbed
  /\ swapped' = (swapped \/ side' # side)
  /\ UNCHANGED <<cache, torn, reread, walks>>

Edit(d) == \E t \in Texts \cup {None} :
  /\ bytes[d] # t
  /\ bytes' = [bytes EXCEPT ![d] = t]
  /\ UNCHANGED <<blob, side, tip, other, ctx>>
  /\ UserActs

Stage(d) ==
  /\ blob[d] # bytes[d]
  /\ blob' = [blob EXCEPT ![d] = bytes[d]]
  /\ UNCHANGED <<bytes, side, tip, other, ctx>>
  /\ UserActs

(* git checkout -- d: the document alone, its sidecars stay as they are.      *)
Restore(d) ==
  /\ bytes[d] # blob[d]
  /\ bytes' = [bytes EXCEPT ![d] = blob[d]]
  /\ UNCHANGED <<blob, side, tip, other, ctx>>
  /\ UserActs

Reset(commit) ==
  /\ bytes' = commit.docs /\ blob' = commit.docs /\ side' = commit.side
  /\ tip' = commit
  /\ UserActs
ResetHard == Reset(tip) /\ <<bytes, side>> # <<tip.docs, tip.side>> /\ UNCHANGED <<other, ctx>>
Switch == Reset(other) /\ other # tip /\ other' = tip /\ UNCHANGED ctx

(* kit-update, or another build of git-lex.                                   *)
NewContext ==
  /\ ctx' \in Contexts \ {ctx}
  /\ UNCHANGED <<bytes, blob, side, tip, other>>
  /\ UserActs

-----------------------------------------------------------------------------
(* WalkCache::load: the cache of this context whose list is the one on disk;  *)
(* nothing at all when a document that came or went cannot be searched for.   *)
\* As a mutant would: only documents that went are looked for.
OnlyWent == list \ Files
CameOrWent == (list \ Files) \cup (Files \ list)
Usable ==
  /\ manifest # None
  /\ manifest.ctx = ctx
  /\ manifest.list = list
  /\ CameOrWent \cap Nameless = {}
Loaded == IF Usable THEN manifest.entries ELSE NoEntries
ChangedNames == IF Usable THEN CameOrWent ELSE {}

(* dirty_sidecar_sources: git status lists a tracked sidecar that differs from*)
(* the commit, and an untracked one unless its whole directory is untracked.  *)
Dirty == {d \in Docs : side[d] # tip.side[d]}
MustList == {d \in Dirty : tip.side[d] # None}

Begin(w, kind) ==
  /\ walks < MaxWalks /\ walks' = walks + 1
  /\ walk[w] = Idle
  /\ blob' = IF kind = "save" THEN bytes ELSE blob   \* git add -A
  /\ \E forced \in SUBSET Dirty :
       /\ MustList \subseteq forced
       /\ walk' = [v \in Walkers |->
            IF v = w
            THEN [at |-> IF Files = {} THEN "extracting" ELSE "reading", kind |-> kind, files |-> Files, ctx |-> ctx,
                  entries |-> Loaded, changed |-> ChangedNames, forced |-> forced,
                  index |-> blob', got |-> NoEntries, todo |-> Files,
                  fresh |-> NoEntries, failed |-> FALSE, served |-> NoEntries,
                  stored |-> FALSE, alone |-> Walking = {}]
            ELSE IF walk[v] = Idle THEN Idle ELSE [walk[v] EXCEPT !.alone = FALSE]]
  /\ torn' = (torn \/ Walking # {})
  /\ UNCHANGED <<bytes, side, tip, other, ctx, cache, swapped, reread, edits>>

(* prepare_walk_file, on every core: all of a chunk before any is processed.  *)
Read(w, d) ==
  /\ walk[w].at = "reading" /\ d \in walk[w].todo
  /\ LET left == walk[w].todo \ {d}
     IN  walk' = [walk EXCEPT ![w].got[d] = bytes[d],
                              ![w].todo = IF left = {} THEN walk[w].files ELSE left,
                              ![w].at = IF left = {} THEN "extracting" ELSE "reading"]
  /\ UNCHANGED <<tree, cache, past, edits, walks>>

Writes(w) == walk[w].kind # "query"
Unchanged(w, d) ==
  /\ d \notin walk[w].forced
  /\ walk[w].entries[d] # None
  /\ walk[w].entries[d].text = walk[w].got[d] /\ walk[w].entries[d].index = walk[w].index[d]
  /\ Mentions[walk[w].got[d]] \cap walk[w].changed = {}
Done(w, d, change) ==
  walk' = [walk EXCEPT ![w] = [change EXCEPT !.todo = @ \ {d}]]
\* As a mutant would: an entry that a query left is a hit for a save too.
HitAny(w, d) == Unchanged(w, d) /\ (walk[w].kind = "query" => frag[d] # None)
Hit(w, d) ==
  /\ Unchanged(w, d)
  /\ walk[w].kind = "query" => frag[d] # None
  /\ Writes(w) => walk[w].entries[d].sidecars

(* WalkCache::hit carries the entry over to the manifest this walk writes, even*)
(* when its sidecars still have to be written.                                *)
Fresh(w, d) ==
  IF Unchanged(w, d) /\ (walk[w].kind = "query" => frag[d] # None) THEN walk[w].entries[d] ELSE None

Processing(w, d) == walk[w].at = "extracting" /\ d \in walk[w].todo

(* A hit: the fragment is appended as it is, the sidecars are left alone.     *)
Serve(w, d) ==
  /\ Processing(w, d) /\ walk[w].got[d] # None /\ Hit(w, d)
  /\ Done(w, d, [walk[w] EXCEPT !.fresh[d] = walk[w].entries[d],
                   !.served[d] = IF walk[w].kind = "query" THEN frag[d] ELSE None])
  /\ UNCHANGED <<tree, cache, past, edits, walks>>

(* A document that cannot be read any more is an error, loud and not cached.  *)
Unreadable(w, d) ==
  /\ Processing(w, d)
  /\ walk[w].got[d] = None \/ (Unchanged(w, d) /\ ~Hit(w, d) /\ bytes[d] = None)
  /\ Done(w, d, [walk[w] EXCEPT !.failed = TRUE, !.fresh[d] = Fresh(w, d)])
  /\ UNCHANGED <<tree, cache, past, edits, walks>>

\* As a mutant would: what fails to extract is cached like the rest.
ExtractAll(w, d) ==
  LET text == IF Unchanged(w, d) THEN bytes[d] ELSE walk[w].got[d]
      fragment == FragmentOf(text, walk[w].index[d], walk[w].files, walk[w].ctx)
      entry == [text |-> walk[w].got[d], index |-> walk[w].index[d], sidecars |-> Writes(w)]
  IN  /\ Processing(w, d) /\ walk[w].got[d] # None /\ ~Hit(w, d) /\ text # None
      /\ side' = IF Writes(w) THEN [side EXCEPT ![d] = SideOf(text, walk[w].files)] ELSE side
      /\ Done(w, d, [walk[w] EXCEPT !.fresh[d] = entry, !.stored = TRUE, !.failed = @ \/ text \in Broken,
                       !.served[d] = IF walk[w].kind = "query" THEN fragment ELSE None])
      /\ frag' = [frag EXCEPT ![d] = fragment]
      /\ reread' = (reread \/ text # walk[w].got[d])
      /\ UNCHANGED <<bytes, blob, tip, other, ctx, list, manifest, torn, swapped, edits, walks>>

(* Extraction, of the bytes that were read; of those there are now when the   *)
(* fragment of an unchanged document could not be used after all, and then    *)
(* under the hash of those that were read. An error is counted and not cached.*)
Extract(w, d) ==
  LET text == IF Unchanged(w, d) THEN bytes[d] ELSE walk[w].got[d]
      fragment == FragmentOf(text, walk[w].index[d], walk[w].files, walk[w].ctx)
      entry == [text |-> walk[w].got[d], index |-> walk[w].index[d], sidecars |-> Writes(w)]
  IN  /\ Processing(w, d) /\ walk[w].got[d] # None /\ ~Hit(w, d) /\ text # None
      /\ side' = IF Writes(w) THEN [side EXCEPT ![d] = SideOf(text, walk[w].files)] ELSE side
      /\ IF text \in Broken
         THEN /\ Done(w, d, [walk[w] EXCEPT !.failed = TRUE, !.fresh[d] = Fresh(w, d),
                                               !.stored = @ \/ Writes(w)])
              /\ UNCHANGED frag
         ELSE /\ Done(w, d, [walk[w] EXCEPT !.fresh[d] = entry, !.stored = TRUE,
                               !.served[d] = IF walk[w].kind = "query" THEN fragment ELSE None])
              /\ frag' = [frag EXCEPT ![d] = fragment]
      /\ reread' = (reread \/ text # walk[w].got[d])
      /\ UNCHANGED <<bytes, blob, tip, other, ctx, list, manifest, torn, swapped, edits, walks>>

(* WalkCache::save: the list, then the manifest that names it by its hash;    *)
(* fragments of documents this walk did not see are deleted.                  *)
SaveList(w) ==
  /\ walk[w].at = "extracting" /\ walk[w].todo = {}
  /\ list' = walk[w].files
  /\ walk' = [walk EXCEPT ![w].at = "saving"]
  /\ UNCHANGED <<tree, manifest, frag, past, edits, walks>>
SaveManifest(w) ==
  /\ walk[w].at = "saving"
  /\ manifest' = [ctx |-> walk[w].ctx, list |-> walk[w].files, entries |-> walk[w].fresh]
  /\ frag' = [d \in Docs |-> IF walk[w].fresh[d] = None THEN None ELSE frag[d]]
  /\ walk' = [walk EXCEPT ![w].at = "saved"]
  /\ UNCHANGED <<tree, list, past, edits, walks>>

(* A save whose documents are in order is committed: documents and sidecars.  *)
Ends(w) ==
  /\ walk[w].at = "saved"
  /\ walk' = [walk EXCEPT ![w] = Idle]
  /\ IF walk[w].kind = "save" /\ ~walk[w].failed
     THEN LET new == [docs |-> blob, side |-> [d \in Docs |-> IF blob[d] = None THEN None ELSE side[d]]]
          IN  /\ tip' = new
              /\ other' = IF new = tip THEN other ELSE tip
              /\ side' = new.side
              /\ swapped' = (swapped \/ \E d \in Docs : walk[w].fresh[d] # None /\ side'[d] # side[d])
     ELSE UNCHANGED <<tip, other, side, swapped>>
  /\ UNCHANGED <<bytes, blob, ctx, cache, torn, reread, edits, walks>>

(* Killed, or stopped by a sidecar it could not write.                        *)
Dies(w) ==
  /\ walk[w] # Idle
  /\ walk' = [walk EXCEPT ![w] = Idle]
  /\ torn' = (torn \/ (walk[w].stored /\ walk[w].at \in {"extracting", "saving"}))
  /\ UNCHANGED <<tree, cache, swapped, reread, edits, walks>>

User == (\E d \in Docs : Edit(d) \/ Stage(d) \/ Restore(d)) \/ ResetHard \/ Switch \/ NewContext
Walk(w) ==
  \/ \E k \in Kinds : Begin(w, k)
  \/ \E d \in Docs : Read(w, d) \/ Serve(w, d) \/ Unreadable(w, d) \/ Extract(w, d)
  \/ SaveList(w) \/ SaveManifest(w) \/ Ends(w) \/ Dies(w)
Next == User \/ \E w \in Walkers : Walk(w)
Spec == Init /\ [][Next]_vars

-----------------------------------------------------------------------------
(* The type of the state.                                                     *)
WTypeOK ==
  /\ {bytes, blob, tip.docs, other.docs} \subseteq [Docs -> Texts \cup {None}]
  /\ {side, tip.side, other.side} \subseteq [Docs -> Sidecars \cup {None}]
  /\ ctx \in Contexts
  /\ list \in (SUBSET Docs) \cup {None}
  /\ manifest # None => /\ manifest.ctx \in Contexts /\ manifest.list \subseteq Docs
                        /\ manifest.entries \in [Docs -> Entry \cup {None}]
  /\ frag \in [Docs -> Fragment \cup {None}]
  /\ \A w \in Walking : /\ walk[w].at \in {"reading", "extracting", "saving", "saved"}
                        /\ walk[w].todo \subseteq walk[w].files
                        /\ walk[w].fresh \in [Docs -> Entry \cup {None}]
  /\ torn \in BOOLEAN /\ swapped \in BOOLEAN /\ reread \in BOOLEAN

Finished(w) == walk[w].at = "saved" /\ walk[w].alone

(* After a walk that writes sidecars and was not disturbed, every document it *)
(* read has the sidecars its bytes have when nothing is cached: whatever a    *)
(* query, a failed or a killed walk left before it (nquad.rs:873-880,         *)
(* 1232-1239). It fails once git has put other sidecars in place, and once an *)
(* unchanged document was read a second time and had changed.                 *)
SidecarsRightIf(ok) == \A w \in Walking : ok /\ Finished(w) /\ Writes(w) =>
  \A d \in walk[w].files : side[d] = SideOf(walk[w].got[d], walk[w].files)
SidecarsRight == SidecarsRightIf(~torn /\ ~swapped /\ ~reread)
SidecarsRightAlways == SidecarsRightIf(TRUE)
SidecarsRightReread == SidecarsRightIf(~torn /\ ~swapped)

(* What a query is given is what a full walk would give it (walkcache.rs:60). *)
ServedRightIf(ok) == \A w \in Walking : ok /\ walk[w].at = "saved" =>
  \A d \in Docs : walk[w].served[d] # None =>
    walk[w].served[d] = FragmentOf(walk[w].got[d], walk[w].index[d], walk[w].files, walk[w].ctx)
ServedRight == ServedRightIf(~torn /\ ~reread)
ServedRightAlways == ServedRightIf(TRUE)

(* A document that does not extract fails every walk, not only the first.     *)
ErrorsLoud == \A w \in Walking : Finished(w) =>
  (walk[w].failed <=> \E d \in walk[w].files : walk[w].got[d] \in Broken)
=============================================================================
