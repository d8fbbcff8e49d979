--------------------------- MODULE WalkCacheProofs ---------------------------
(* Proofs about WalkCache: for every set of documents and texts and however    *)
(* many walks die or overlap, the cache never vouches for a document that does *)
(* not extract, and a walk that was left alone fails exactly if it read one.   *)
(* As long as none died half-way, overlapped or read a document twice, what a  *)
(* walk takes from the cache is what extraction would have given.              *)
EXTENDS WalkCache, TLAPS

Tree == [Docs -> Texts \cup {None}]
Sides == [Docs -> Sidecars \cup {None}]
Entries == [Docs -> Entry \cup {None}]
Fragments == [Docs -> Fragment \cup {None}]

WalkRecord ==
  {r \in [at : {"reading", "extracting", "saving", "saved"}, kind : Kinds, files : SUBSET Docs, ctx : Contexts,
          entries : Entries, changed : SUBSET Docs, forced : SUBSET Docs, index : Tree, got : Tree,
          todo : SUBSET Docs, fresh : Entries, failed : BOOLEAN, served : Fragments,
          stored : BOOLEAN, alone : BOOLEAN] :
     r.todo \subseteq r.files}

(* The types, those of a walk in full.                                        *)
TreeTyped ==
  /\ bytes \in Tree /\ blob \in Tree /\ side \in Sides
  /\ tip \in [docs : Tree, side : Sides] /\ other \in [docs : Tree, side : Sides]
  /\ ctx \in Contexts
CacheTyped ==
  /\ list \in (SUBSET Docs) \cup {None}
  /\ manifest \in [ctx : Contexts, list : SUBSET Docs, entries : Entries] \cup {None}
  /\ frag \in Fragments
WalksTyped == walk \in [Walkers -> {Idle} \cup WalkRecord]
PastTyped == torn \in BOOLEAN /\ swapped \in BOOLEAN /\ reread \in BOOLEAN
Typed == TreeTyped /\ CacheTyped /\ WalksTyped /\ PastTyped

(* No entry is of a text that does not extract: on disk, as a walk loaded them*)
(* or as it is about to write them.                                           *)
Sound(entries) == \A d \in Docs : entries[d] # None => entries[d].text \notin Broken
ErrorsUncached ==
  /\ manifest # None => Sound(manifest.entries)
  /\ \A w \in Walking : Sound(walk[w].entries) /\ Sound(walk[w].fresh)

(* What a walk that was left alone has seen is what there is, and it has      *)
(* counted the errors among the documents it is done with.                    *)
SeesTree(w) ==
  /\ walk[w].files = Files /\ walk[w].todo \subseteq Files
  /\ \A d \in Files : walk[w].at # "reading" \/ d \notin walk[w].todo => walk[w].got[d] = bytes[d]
Tally(w) ==
  /\ walk[w].at = "reading" => ~walk[w].failed
  /\ walk[w].at # "reading" =>
       (walk[w].failed <=> \E d \in walk[w].files \ walk[w].todo : walk[w].got[d] \in Broken)
  /\ walk[w].at \in {"saving", "saved"} => walk[w].todo = {}
AloneCounts == \A w \in Walking : walk[w].alone => SeesTree(w) /\ Tally(w)

ErrorInv == Typed /\ ErrorsUncached /\ AloneCounts

-----------------------------------------------------------------------------
LEMMA Loud == ErrorInv => ErrorsLoud
BY DEF ErrorInv, ErrorsLoud, Finished, AloneCounts, Tally

LEMMA TypedIsTypeOK == Typed => WTypeOK
<1> SUFFICES ASSUME Typed PROVE WTypeOK
  OBVIOUS
<1>1. \A w \in Walking : walk[w] \in WalkRecord
  BY DEF Typed, WalksTyped, Walking, Idle
<1>2. {bytes, blob, tip.docs, other.docs} \subseteq Tree /\ {side, tip.side, other.side} \subseteq Sides
  BY DEF Typed, TreeTyped
<1>3. \A w \in Walking : /\ walk[w].at \in {"reading", "extracting", "saving", "saved"}
                        /\ walk[w].todo \subseteq walk[w].files /\ walk[w].fresh \in Entries
  BY <1>1 DEF WalkRecord
<1>4. manifest # None => /\ manifest.ctx \in Contexts /\ manifest.list \subseteq Docs
                         /\ manifest.entries \in Entries
  BY DEF Typed, CacheTyped
<1> QED
  BY <1>2, <1>3, <1>4 DEF WTypeOK, Typed, PastTyped, TreeTyped, CacheTyped, Tree, Sides, Entries, Fragments

LEMMA SideTyped ==
  ASSUME NEW t \in Texts, NEW fs \in SUBSET Docs
  PROVE  SideOf(t, fs) \in Sidecars
BY WalkConstants DEF SideOf, Sidecars

LEMMA FragmentTyped ==
  ASSUME NEW t \in Texts, NEW i \in Texts \cup {None}, NEW fs \in SUBSET Docs, NEW c \in Contexts
  PROVE  FragmentOf(t, i, fs, c) \in Fragment
BY WalkConstants DEF FragmentOf, Fragment

LEMMA InitErrors == Init => ErrorInv
<1> SUFFICES ASSUME Init PROVE ErrorInv
  OBVIOUS
<1>1. \A d \in Docs : side[d] \in Sidecars
  BY SideTyped DEF Init
<1> bytes \in Tree /\ side \in Sides
  BY <1>1 DEF Init, Tree, Sides
<1>a. TreeTyped
  BY DEF Init, TreeTyped
<1>b. CacheTyped
  <2>1. NoEntries \in Fragments
    BY DEF NoEntries, Fragments
  <2> QED
    BY <2>1 DEF Init, CacheTyped
<1>2. Typed
  BY <1>a, <1>b DEF Init, Typed, PastTyped, WalksTyped
<1>3. Walking = {}
  BY DEF Init, Walking, Idle
<1> QED
  BY <1>2, <1>3 DEF Init, ErrorInv, ErrorsUncached, AloneCounts

LEMMA WalkingTyped ==
  ASSUME Typed, NEW w \in Walking
  PROVE  w \in Walkers /\ walk[w] \in WalkRecord /\ walk[w] # Idle
BY DEF Typed, WalksTyped, Walking, Idle

LEMMA NotAlone ==
  ASSUME NEW x \in WalkRecord
  PROVE  LET y == [x EXCEPT !.alone = FALSE]
         IN  y \in WalkRecord /\ ~y.alone /\ y.entries = x.entries /\ y.fresh = x.fresh
BY DEF WalkRecord

-----------------------------------------------------------------------------
(* The user's steps: every walk under way is no longer alone.                 *)
LEMMA DisturbedErrors ==
  ASSUME ErrorInv, TreeTyped', UserActs
  PROVE  ErrorInv'
<1>1. \A w \in Walkers : walk'[w] = IF walk[w] = Idle THEN Idle ELSE [walk[w] EXCEPT !.alone = FALSE]
  BY DEF UserActs, Disturbed
<1>2. \A w \in Walkers : walk[w] # Idle => walk[w] \in WalkRecord /\ w \in Walking
  BY DEF ErrorInv, Typed, PastTyped, WalksTyped, Walking, WalkRecord
<1>3. \A w \in Walkers : walk[w] # Idle => /\ walk'[w] \in WalkRecord /\ ~walk'[w].alone
                                          /\ walk'[w].entries = walk[w].entries /\ walk'[w].fresh = walk[w].fresh
  BY <1>1, <1>2, NotAlone
<1>4. WalksTyped'
  BY <1>1, <1>3 DEF UserActs, Disturbed, WalksTyped
<1>5. Typed'
  BY <1>4 DEF UserActs, cache, ErrorInv, Typed, PastTyped, CacheTyped, TreeTyped
<1>6. Walking' = {w \in Walkers : walk[w] # Idle}
  BY <1>1, <1>3 DEF Walking, Idle, WalkRecord
<1>7. ErrorsUncached'
  BY <1>2, <1>3, <1>6 DEF UserActs, cache, ErrorInv, ErrorsUncached, Sound
<1>8. AloneCounts'
  BY <1>3, <1>6 DEF AloneCounts
<1> QED
  BY <1>5, <1>7, <1>8 DEF ErrorInv

LEMMA UserErrors ==
  ASSUME ErrorInv, User
  PROVE  ErrorInv'
<1>1. UserActs
  BY DEF User, Edit, Stage, Restore, ResetHard, Switch, Reset, NewContext
<1>2. CASE \E d \in Docs : Edit(d) \/ Stage(d) \/ Restore(d)
  BY <1>2, <1>1, DisturbedErrors DEF Edit, Stage, Restore, ErrorInv, Typed, PastTyped, TreeTyped, Tree
<1>3. CASE ResetHard \/ Switch
  BY <1>3, <1>1, DisturbedErrors DEF ResetHard, Switch, Reset, ErrorInv, Typed, PastTyped, TreeTyped
<1>4. CASE NewContext
  BY <1>4, <1>1, DisturbedErrors DEF NewContext, ErrorInv, Typed, PastTyped, TreeTyped
<1> QED
  BY <1>2, <1>3, <1>4 DEF User

-----------------------------------------------------------------------------
(* A walk's own steps: the others stay as they are, and so does what they see.*)
LEMMA OthersKept ==
  ASSUME ErrorInv, NEW w \in Walkers, UNCHANGED bytes, TreeTyped', CacheTyped', PastTyped',
         manifest' # None => Sound(manifest.entries)' ,
         NEW r, walk' = [walk EXCEPT ![w] = r], r \in WalkRecord \cup {Idle},
         r # Idle => Sound(r.entries) /\ Sound(r.fresh) /\ (r.alone => SeesTree(w)' /\ Tally(w)')
  PROVE  ErrorInv'
<1>1. Typed'
  BY DEF ErrorInv, Typed, PastTyped, WalksTyped
<1>2. \A v \in Walkers : walk'[v] = IF v = w THEN r ELSE walk[v]
  BY DEF ErrorInv, Typed, PastTyped, WalksTyped
<1>3. w \in Walking' => r # Idle
  BY <1>2 DEF Walking, Idle
<1>4. ErrorsUncached'
  BY <1>2, <1>3 DEF ErrorInv, ErrorsUncached, Walking, Sound
<1>5. \A v \in Walking' : v # w /\ walk'[v].alone => (SeesTree(v) /\ Tally(v))'
  BY <1>2 DEF ErrorInv, AloneCounts, Walking, SeesTree, Tally, Files
<1>6. AloneCounts'
  BY <1>2, <1>3, <1>5 DEF AloneCounts
<1> QED
  BY <1>1, <1>4, <1>6 DEF ErrorInv

(* The same, of a step that moves nothing but its walk.                       *)
LEMMA OwnStep ==
  ASSUME ErrorInv, NEW w \in Walkers, UNCHANGED <<tree, cache, past>>,
         NEW r, walk' = [walk EXCEPT ![w] = r], r \in WalkRecord \cup {Idle},
         r # Idle => Sound(r.entries) /\ Sound(r.fresh) /\ (r.alone => SeesTree(w)' /\ Tally(w)')
  PROVE  ErrorInv'
<1>1. UNCHANGED bytes /\ TreeTyped' /\ CacheTyped' /\ PastTyped'
  BY DEF tree, cache, past, ErrorInv, Typed, PastTyped, TreeTyped, CacheTyped
<1>2. manifest' # None => Sound(manifest.entries)'
  BY DEF cache, ErrorInv, ErrorsUncached, Sound
<1> QED
  BY <1>1, <1>2, OthersKept

LEMMA LoadedSound ==
  ASSUME ErrorInv
  PROVE  Loaded \in Entries /\ Sound(Loaded) /\ ChangedNames \in SUBSET Docs
<1>1. NoEntries \in Entries /\ Sound(NoEntries)
  BY DEF NoEntries, Entries, Sound
<1>2. CASE Usable
  BY <1>2 DEF Loaded, ChangedNames, Usable, CameOrWent, Files, ErrorInv, Typed, PastTyped, CacheTyped, ErrorsUncached
<1>3. CASE ~Usable
  BY <1>1, <1>3 DEF Loaded, ChangedNames
<1> QED
  BY <1>2, <1>3

LEMMA BeginErrors ==
  ASSUME ErrorInv, NEW w \in Walkers, NEW kind \in Kinds, Begin(w, kind)
  PROVE  ErrorInv'
<1>1. PICK forced \in SUBSET Dirty : walk' = [v \in Walkers |->
            IF v = w
            THEN [at |-> IF Files = {} THEN "extracting" ELSE "reading",
                  kind |-> kind, files |-> Files, ctx |-> ctx,
                  entries |-> Loaded, changed |-> ChangedNames, forced |-> forced,
                  index |-> blob', got |-> NoEntries, todo |-> Files,
                  fresh |-> NoEntries, failed |-> FALSE, served |-> NoEntries,
                  stored |-> FALSE, alone |-> Walking = {}]
            ELSE IF walk[v] = Idle THEN Idle ELSE [walk[v] EXCEPT !.alone = FALSE]]
  BY DEF Begin
<1> DEFINE r == walk'[w]
<1>2. TreeTyped' /\ UNCHANGED bytes
  BY DEF Begin, ErrorInv, Typed, PastTyped, TreeTyped
<1>3. CacheTyped' /\ PastTyped'
  BY DEF Begin, cache, ErrorInv, Typed, PastTyped, CacheTyped
<1>4. NoEntries \in Tree /\ NoEntries \in Entries /\ NoEntries \in Fragments /\ Sound(NoEntries)
  BY DEF NoEntries, Tree, Entries, Fragments, Sound
<1>5. Files \in SUBSET Docs /\ forced \in SUBSET Docs /\ ctx \in Contexts /\ blob' \in Tree
  BY <1>2 DEF Files, Dirty, ErrorInv, Typed, PastTyped, TreeTyped
<1>6. r \in WalkRecord
  BY <1>1, <1>4, <1>5, LoadedSound DEF WalkRecord
<1>7. /\ r.at = IF Files = {} THEN "extracting" ELSE "reading"
      /\ r.entries = Loaded /\ r.fresh = NoEntries /\ r.files = Files /\ r.todo = Files /\ r.failed = FALSE
  BY <1>1
<1>8. SeesTree(w)' /\ Tally(w)'
  BY <1>2, <1>7 DEF SeesTree, Tally, Files
<1>9. \A v \in Walkers : v # w => walk'[v] = IF walk[v] = Idle THEN Idle ELSE [walk[v] EXCEPT !.alone = FALSE]
  BY <1>1
<1>10. \A v \in Walkers : walk[v] # Idle => walk[v] \in WalkRecord /\ v \in Walking
  BY DEF ErrorInv, Typed, PastTyped, WalksTyped, Walking, WalkRecord
<1>11. \A v \in Walkers : v # w /\ walk[v] # Idle =>
          /\ walk'[v] \in WalkRecord /\ ~walk'[v].alone
          /\ walk'[v].entries = walk[v].entries /\ walk'[v].fresh = walk[v].fresh
  <2> SUFFICES ASSUME NEW v \in Walkers, v # w, walk[v] # Idle
               PROVE  /\ walk'[v] \in WalkRecord /\ ~walk'[v].alone
                      /\ walk'[v].entries = walk[v].entries /\ walk'[v].fresh = walk[v].fresh
    OBVIOUS
  <2>1. walk'[v] = [walk[v] EXCEPT !.alone = FALSE]
    BY <1>9
  <2>2. walk[v] \in WalkRecord
    BY <1>10
  <2> HIDE <1>9, <1>10
  <2> QED
    BY <2>1, <2>2, NotAlone
<1>12. Typed'
  BY <1>1, <1>2, <1>3, <1>6, <1>9, <1>11 DEF Typed, WalksTyped
<1>13. Walking' = {w} \cup {v \in Walkers : walk[v] # Idle}
  BY <1>6, <1>9, <1>11 DEF Walking, Idle, WalkRecord
<1>14. ErrorsUncached'
  <2>1. manifest' # None => Sound(manifest.entries)'
    BY DEF Begin, cache, ErrorInv, ErrorsUncached, Sound
  <2>2. Sound(walk'[w].entries) /\ Sound(walk'[w].fresh)
    BY <1>4, <1>7, LoadedSound
  <2>3. ASSUME NEW v \in Walkers, v # w, walk[v] # Idle
        PROVE  Sound(walk'[v].entries) /\ Sound(walk'[v].fresh)
    BY <1>10, <1>11, <2>3 DEF ErrorInv, ErrorsUncached
  <2>4. \A v \in Walking' : Sound(walk'[v].entries) /\ Sound(walk'[v].fresh)
    BY <1>13, <2>2, <2>3
  <2> QED
    BY <2>1, <2>4 DEF ErrorsUncached, Sound
<1>15. AloneCounts'
  BY <1>8, <1>11, <1>13 DEF AloneCounts
<1> QED
  BY <1>12, <1>14, <1>15 DEF ErrorInv

(* What a step of a walk begins from.                                         *)
LEMMA StepOf ==
  ASSUME ErrorInv, NEW w \in Walking
  PROVE  /\ w \in Walkers /\ walk[w] \in WalkRecord /\ walk[w] # Idle
         /\ Sound(walk[w].entries) /\ Sound(walk[w].fresh)
         /\ walk[w].alone => SeesTree(w) /\ Tally(w)
BY WalkingTyped DEF ErrorInv, ErrorsUncached, AloneCounts

LEMMA ReadErrors ==
  ASSUME ErrorInv, NEW w \in Walkers, NEW d \in Docs, Read(w, d)
  PROVE  ErrorInv'
<1> DEFINE left == walk[w].todo \ {d}
           r == [[[walk[w] EXCEPT !.got[d] = bytes[d]]
                  EXCEPT !.todo = IF left = {} THEN walk[w].files ELSE left]
                  EXCEPT !.at = IF left = {} THEN "extracting" ELSE "reading"]
<1>1. w \in Walking /\ walk[w].at = "reading" /\ d \in walk[w].todo
  BY DEF Read, Walking
<1>2. walk' = [walk EXCEPT ![w] = r]
  BY DEF Read
<1>3. walk[w] \in WalkRecord /\ bytes[d] \in Texts \cup {None}
  BY <1>1, StepOf DEF ErrorInv, Typed, PastTyped, TreeTyped, Tree
<1>4. r \in WalkRecord
  BY <1>3 DEF WalkRecord, Tree
<1>5. /\ r.entries = walk[w].entries /\ r.fresh = walk[w].fresh /\ r.alone = walk[w].alone
      /\ r.failed = walk[w].failed /\ r.files = walk[w].files
      /\ r.got = [walk[w].got EXCEPT ![d] = bytes[d]]
      /\ r.todo = IF left = {} THEN walk[w].files ELSE left
      /\ r.at = IF left = {} THEN "extracting" ELSE "reading"
  BY <1>3 DEF WalkRecord
<1>6. walk'[w] = r /\ UNCHANGED bytes
  BY <1>1, <1>2, StepOf DEF Read, tree, ErrorInv, Typed, PastTyped, WalksTyped
<1>7. walk[w].alone => SeesTree(w)' /\ Tally(w)'
  BY <1>1, <1>3, <1>5, <1>6, StepOf DEF SeesTree, Tally, Files, WalkRecord, Tree
<1> QED
  <2>1. Sound(r.entries) /\ Sound(r.fresh) /\ (r.alone => SeesTree(w)' /\ Tally(w)')
    BY <1>1, <1>5, <1>7, StepOf
  <2> HIDE DEF r
  <2> QED
    BY <1>2, <1>4, <2>1, OwnStep DEF Read

(* A document that is done with.                                              *)
Without(y, d) == [y EXCEPT !.todo = @ \ {d}]

LEMMA WithoutRecord ==
  ASSUME NEW y \in WalkRecord, NEW d, y.at = "extracting"
  PROVE  LET r == Without(y, d)
         IN  /\ r \in WalkRecord /\ r # Idle
             /\ r.at = "extracting" /\ r.todo = y.todo \ {d} /\ r.files = y.files /\ r.got = y.got
             /\ r.entries = y.entries /\ r.alone = y.alone /\ r.failed = y.failed /\ r.fresh = y.fresh
BY DEF Without, WalkRecord, Idle

(* What a walk does with a document: y is its record but for the document     *)
(* being done with.                                                           *)
LEMMA DocumentDone ==
  ASSUME ErrorInv, NEW w \in Walking, NEW d \in walk[w].todo, walk[w].at = "extracting",
         UNCHANGED bytes, TreeTyped', CacheTyped', PastTyped', UNCHANGED manifest,
         NEW y \in WalkRecord, walk' = [walk EXCEPT ![w] = Without(y, d)],
         y.at = "extracting", y.todo = walk[w].todo, y.files = walk[w].files, y.got = walk[w].got,
         y.entries = walk[w].entries, y.alone = walk[w].alone,
         \A c \in Docs \ {d} : y.fresh[c] = walk[w].fresh[c],
         y.fresh[d] # None => y.fresh[d].text \notin Broken,
         walk[w].alone => (y.failed <=> walk[w].failed \/ walk[w].got[d] \in Broken)
  PROVE  ErrorInv'
<1> DEFINE r == Without(y, d)
<1>1. /\ r \in WalkRecord /\ r # Idle
      /\ r.at = "extracting" /\ r.todo = y.todo \ {d} /\ r.files = y.files /\ r.got = y.got
      /\ r.entries = y.entries /\ r.alone = y.alone /\ r.failed = y.failed /\ r.fresh = y.fresh
  BY WithoutRecord
<1> HIDE DEF r
<1>2. w \in Walkers /\ walk[w] \in WalkRecord /\ walk'[w] = r
  BY StepOf DEF ErrorInv, Typed, PastTyped, WalksTyped, r
<1>3. d \in Docs /\ d \in walk[w].files
  BY <1>2 DEF WalkRecord
<1>4. r.alone => SeesTree(w)'
  <2> SUFFICES ASSUME r.alone PROVE SeesTree(w)'
    OBVIOUS
  <2>1. SeesTree(w)
    BY <1>1, StepOf
  <2>2. Files' = Files
    BY DEF Files
  <2> QED
    BY <1>1, <1>2, <2>1, <2>2 DEF SeesTree, Files
<1>5. r.alone => Tally(w)'
  <2> SUFFICES ASSUME r.alone PROVE Tally(w)'
    OBVIOUS
  <2>1. walk[w].failed <=> \E c \in walk[w].files \ walk[w].todo : walk[w].got[c] \in Broken
    BY <1>1, StepOf DEF Tally
  <2>2. walk[w].files \ r.todo = (walk[w].files \ walk[w].todo) \cup {d}
    BY <1>1, <1>3
  <2>3. r.failed <=> \E c \in walk[w].files \ r.todo : walk[w].got[c] \in Broken
    BY <1>1, <2>1, <2>2
  <2> QED
    BY <1>1, <1>2, <2>3 DEF Tally
<1>6. Sound(r.entries) /\ Sound(r.fresh)
  BY <1>1, <1>2, <1>3, StepOf DEF Sound, WalkRecord, Entries
<1>7. manifest' # None => Sound(manifest.entries)'
  BY DEF ErrorInv, ErrorsUncached, Sound
<1> QED
  BY <1>1, <1>2, <1>4, <1>5, <1>6, <1>7, OthersKept DEF past, ErrorInv, Typed, PastTyped, r

LEMMA ServeErrors ==
  ASSUME ErrorInv, NEW w \in Walkers, NEW d \in Docs, Serve(w, d)
  PROVE  ErrorInv'
<1> DEFINE x == walk[w]
           y == [x EXCEPT !.fresh[d] = x.entries[d], !.served[d] = IF x.kind = "query" THEN frag[d] ELSE None]
<1>1. w \in Walking /\ x.at = "extracting" /\ d \in x.todo /\ x.got[d] # None /\ Unchanged(w, d)
  BY DEF Serve, Processing, Walking, Hit
<1>2. x \in WalkRecord /\ frag \in Fragments
  BY <1>1, StepOf DEF ErrorInv, Typed, PastTyped, CacheTyped
<1>3. x.entries[d] \in Entry \cup {None}
  BY <1>2 DEF WalkRecord, Entries
<1>4. y \in WalkRecord
  BY <1>2 DEF WalkRecord, Entries, Fragments
<1>5. /\ y.at = "extracting" /\ y.todo = x.todo /\ y.files = x.files /\ y.got = x.got /\ y.entries = x.entries
      /\ y.alone = x.alone /\ y.failed = x.failed /\ y.fresh[d] = x.entries[d]
      /\ \A c \in Docs \ {d} : y.fresh[c] = x.fresh[c]
  BY <1>1, <1>2 DEF WalkRecord, Entries
<1>6. x.got[d] \notin Broken /\ (x.entries[d] # None => x.entries[d].text \notin Broken)
  BY <1>1, StepOf DEF Unchanged, Sound
<1>7. walk' = [walk EXCEPT ![w] = Without(y, d)]
  BY DEF Serve, Done, Without
<1>8. UNCHANGED bytes /\ TreeTyped' /\ CacheTyped' /\ PastTyped' /\ UNCHANGED manifest
  BY DEF Serve, tree, cache, past, ErrorInv, Typed, PastTyped, TreeTyped, CacheTyped
<1> HIDE DEF y
<1>9. x.alone => (y.failed <=> x.failed \/ x.got[d] \in Broken)
  BY <1>5, <1>6, Zenon
<1>10. y.fresh[d] # None => y.fresh[d].text \notin Broken
  BY <1>5, <1>6
<1> QED
  BY <1>1, <1>4, <1>5, <1>7, <1>8, <1>9, <1>10, DocumentDone, Zenon

LEMMA UnreadableErrors ==
  ASSUME ErrorInv, NEW w \in Walkers, NEW d \in Docs, Unreadable(w, d)
  PROVE  ErrorInv'
<1> DEFINE x == walk[w]
           y == [x EXCEPT !.failed = TRUE, !.fresh[d] = Fresh(w, d)]
<1>1. w \in Walking /\ x.at = "extracting" /\ d \in x.todo
  BY DEF Unreadable, Processing, Walking
<1>2. x \in WalkRecord
  BY <1>1, StepOf
<1>3. Fresh(w, d) \in {x.entries[d], None}
  BY DEF Fresh
<1>4. Fresh(w, d) \in Entry \cup {None}
  BY <1>2, <1>3 DEF WalkRecord, Entries
<1>5. Fresh(w, d) # None => Fresh(w, d).text \notin Broken
  BY <1>1, <1>3, StepOf DEF Sound
<1>6. y \in WalkRecord
  BY <1>2, <1>4 DEF WalkRecord, Entries
<1>7. /\ y.at = "extracting" /\ y.todo = x.todo /\ y.files = x.files /\ y.got = x.got /\ y.entries = x.entries
      /\ y.alone = x.alone /\ y.fresh[d] = Fresh(w, d)
      /\ y.failed = TRUE /\ \A c \in Docs \ {d} : y.fresh[c] = x.fresh[c]
  BY <1>1, <1>2 DEF WalkRecord, Entries
<1>8. ~x.alone
  BY <1>1, <1>2, StepOf DEF Unreadable, SeesTree, Files, WalkRecord
<1>9. walk' = [walk EXCEPT ![w] = Without(y, d)]
  BY DEF Unreadable, Done, Without
<1>10. UNCHANGED bytes /\ TreeTyped' /\ CacheTyped' /\ PastTyped' /\ UNCHANGED manifest
  BY DEF Unreadable, tree, cache, past, ErrorInv, Typed, PastTyped, TreeTyped, CacheTyped
<1> HIDE DEF y
<1>11. y.fresh[d] # None => y.fresh[d].text \notin Broken
  BY <1>5, <1>7
<1> QED
  BY <1>1, <1>6, <1>7, <1>8, <1>9, <1>10, <1>11, DocumentDone, Zenon

LEMMA ExtractErrors ==
  ASSUME ErrorInv, NEW w \in Walkers, NEW d \in Docs, Extract(w, d)
  PROVE  ErrorInv'
<1> DEFINE x == walk[w]
           text == IF Unchanged(w, d) THEN bytes[d] ELSE x.got[d]
           fragment == FragmentOf(text, x.index[d], x.files, x.ctx)
           entry == [text |-> x.got[d], index |-> x.index[d], sidecars |-> Writes(w)]
           y1 == [x EXCEPT !.failed = TRUE, !.fresh[d] = Fresh(w, d), !.stored = @ \/ Writes(w)]
           y2 == [x EXCEPT !.fresh[d] = entry, !.stored = TRUE,
                           !.served[d] = IF x.kind = "query" THEN fragment ELSE None]
<1>1. /\ w \in Walking /\ x.at = "extracting" /\ d \in x.todo
      /\ x.got[d] # None /\ text # None
  BY DEF Extract, Processing, Walking
<1>2. x \in WalkRecord /\ bytes[d] \in Texts \cup {None} /\ frag \in Fragments
  BY <1>1, StepOf DEF ErrorInv, Typed, PastTyped, TreeTyped, CacheTyped, Tree
<1>3. /\ text \in Texts /\ x.got[d] \in Texts /\ x.index[d] \in Texts \cup {None}
      /\ x.files \in SUBSET Docs /\ x.ctx \in Contexts
  BY <1>1, <1>2 DEF WalkRecord, Tree
<1>4. fragment \in Fragment /\ SideOf(text, x.files) \in Sidecars
  <2> HIDE DEF text, x
  <2> QED
    BY <1>3, FragmentTyped, SideTyped
<1>5. entry \in Entry /\ entry.text = x.got[d]
  BY <1>3 DEF Entry, Writes
<1>6. UNCHANGED bytes /\ PastTyped' /\ UNCHANGED manifest
  <2>1. torn' = torn /\ swapped' = swapped /\ reread' \in BOOLEAN
    BY DEF Extract, ErrorInv, Typed, PastTyped
  <2> QED
    BY <2>1 DEF Extract, ErrorInv, Typed, PastTyped
<1>7. TreeTyped'
  <2>1. side' \in Sides
    <3> HIDE DEF text, x
    <3> QED
      BY <1>4 DEF Extract, text, x, ErrorInv, Typed, PastTyped, TreeTyped, Sides
  <2> QED
    BY <2>1 DEF Extract, ErrorInv, Typed, PastTyped, TreeTyped
<1>8. x.alone => text = x.got[d]
  BY <1>1, <1>2, StepOf DEF SeesTree, WalkRecord
<1>9. CASE text \in Broken
  <2>1. Fresh(w, d) \in {x.entries[d], None}
    BY DEF Fresh
  <2>2. Fresh(w, d) \in Entry \cup {None}
    BY <1>2, <2>1 DEF WalkRecord, Entries
  <2>3. Fresh(w, d) # None => Fresh(w, d).text \notin Broken
    BY <1>1, <2>1, StepOf DEF Sound
  <2>4. y1 \in WalkRecord
    BY <1>2, <2>2 DEF WalkRecord, Entries
  <2>5. /\ y1.at = "extracting" /\ y1.todo = x.todo /\ y1.files = x.files /\ y1.got = x.got /\ y1.entries = x.entries
        /\ y1.alone = x.alone /\ y1.failed = TRUE /\ y1.fresh[d] = Fresh(w, d)
        /\ \A c \in Docs \ {d} : y1.fresh[c] = x.fresh[c]
    BY <1>1, <1>2 DEF WalkRecord, Entries
  <2>6. walk' = [walk EXCEPT ![w] = Without(y1, d)] /\ UNCHANGED frag
    BY <1>9 DEF Extract, Done, Without
  <2>7. CacheTyped'
    BY <2>6 DEF Extract, ErrorInv, Typed, PastTyped, CacheTyped
  <2> HIDE DEF y1, text
  <2>8. x.alone => (y1.failed <=> x.failed \/ x.got[d] \in Broken)
    BY <1>8, <1>9, <2>5
  <2>9. y1.fresh[d] # None => y1.fresh[d].text \notin Broken
    BY <2>3, <2>5
  <2> QED
    BY <1>1, <1>6, <1>7, <2>4, <2>5, <2>6, <2>7, <2>8, <2>9, DocumentDone, Zenon
<1>10. CASE text \notin Broken
  <2>1. x.got[d] \notin Broken
    BY <1>1, <1>10, StepOf DEF Unchanged, Sound
  <2>2. y2 \in WalkRecord
    <3> HIDE DEF entry, fragment
    <3> QED
      BY <1>2, <1>4, <1>5 DEF WalkRecord, Entries, Fragments
  <2>3. /\ y2.at = "extracting" /\ y2.todo = x.todo /\ y2.files = x.files /\ y2.got = x.got /\ y2.entries = x.entries
        /\ y2.alone = x.alone /\ y2.failed = x.failed /\ y2.fresh[d] = entry
        /\ \A c \in Docs \ {d} : y2.fresh[c] = x.fresh[c]
    <3> HIDE DEF entry, fragment
    <3> QED
      BY <1>1, <1>2 DEF WalkRecord, Entries
  <2>4. walk' = [walk EXCEPT ![w] = Without(y2, d)] /\ frag' = [frag EXCEPT ![d] = fragment]
    BY <1>10 DEF Extract, Done, Without
  <2>5. CacheTyped'
    <3> HIDE DEF fragment
    <3> QED
      BY <1>2, <1>4, <2>4 DEF Extract, ErrorInv, Typed, PastTyped, CacheTyped, Fragments
  <2> HIDE DEF y2, entry, text
  <2>6. x.alone => (y2.failed <=> x.failed \/ x.got[d] \in Broken)
    BY <2>1, <2>3, Zenon
  <2>7. y2.fresh[d] # None => y2.fresh[d].text \notin Broken
    BY <1>5, <2>1, <2>3
  <2> QED
    BY <1>1, <1>6, <1>7, <2>2, <2>3, <2>4, <2>5, <2>6, <2>7, DocumentDone, Zenon
<1> QED
  BY <1>9, <1>10

(* A walk that is done with every document and only moves on.                 *)
LEMMA MovesOn ==
  ASSUME ErrorInv, NEW w \in Walking, walk[w].at \in {"extracting", "saving"}, walk[w].todo = {},
         UNCHANGED bytes, walk'[w].at \in {"saving", "saved"}, walk'[w].todo = {},
         walk'[w].files = walk[w].files, walk'[w].got = walk[w].got, walk'[w].failed = walk[w].failed,
         walk[w].alone
  PROVE  SeesTree(w)' /\ Tally(w)'
<1>1. SeesTree(w) /\ Tally(w)
  BY StepOf
<1>2. Files' = Files
  BY DEF Files
<1>3. SeesTree(w)'
  BY <1>1, <1>2 DEF SeesTree
<1>4. walk'[w].failed <=> \E d \in walk'[w].files \ walk'[w].todo : walk'[w].got[d] \in Broken
  BY <1>1 DEF Tally
<1>5. Tally(w)'
  BY <1>4 DEF Tally
<1> QED
  BY <1>3, <1>5

LEMMA SaveListErrors ==
  ASSUME ErrorInv, NEW w \in Walkers, SaveList(w)
  PROVE  ErrorInv'
<1> DEFINE x == walk[w]
           r == [x EXCEPT !.at = "saving"]
<1>1. w \in Walking /\ x.at = "extracting" /\ x.todo = {}
  BY DEF SaveList, Walking
<1>2. x \in WalkRecord
  BY <1>1, StepOf
<1>3. /\ r \in WalkRecord /\ r.at = "saving" /\ r.todo = {} /\ r.files = x.files /\ r.got = x.got
      /\ r.failed = x.failed /\ r.entries = x.entries /\ r.fresh = x.fresh /\ r.alone = x.alone
  BY <1>1, <1>2 DEF WalkRecord
<1>4. walk' = [walk EXCEPT ![w] = r] /\ walk'[w] = r /\ UNCHANGED bytes
  BY DEF SaveList, tree, ErrorInv, Typed, PastTyped, WalksTyped
<1>5. x.files \in SUBSET Docs
  BY <1>2 DEF WalkRecord
<1> HIDE DEF r
<1>6. r.alone => SeesTree(w)' /\ Tally(w)'
  BY <1>1, <1>3, <1>4, MovesOn
<1>7. TreeTyped' /\ CacheTyped' /\ PastTyped'
  BY <1>5 DEF SaveList, tree, past, ErrorInv, Typed, PastTyped, TreeTyped, CacheTyped
<1>8. manifest' # None => Sound(manifest.entries)'
  BY DEF SaveList, ErrorInv, ErrorsUncached, Sound
<1> QED
  BY <1>1, <1>3, <1>4, <1>6, <1>7, <1>8, StepOf, OthersKept

LEMMA SaveManifestErrors ==
  ASSUME ErrorInv, NEW w \in Walkers, SaveManifest(w)
  PROVE  ErrorInv'
<1> DEFINE x == walk[w]
           r == [x EXCEPT !.at = "saved"]
           m == [ctx |-> x.ctx, list |-> x.files, entries |-> x.fresh]
<1>1. w \in Walking /\ x.at = "saving"
  BY DEF SaveManifest, Walking
<1>2. x \in WalkRecord
  BY <1>1, StepOf
<1>3. /\ r \in WalkRecord /\ r.at = "saved" /\ r.todo = x.todo /\ r.files = x.files /\ r.got = x.got
      /\ r.failed = x.failed /\ r.entries = x.entries /\ r.fresh = x.fresh /\ r.alone = x.alone
  BY <1>1, <1>2 DEF WalkRecord
<1>4. walk' = [walk EXCEPT ![w] = r] /\ walk'[w] = r /\ UNCHANGED bytes
  BY DEF SaveManifest, tree, ErrorInv, Typed, PastTyped, WalksTyped
<1>5. m \in [ctx : Contexts, list : SUBSET Docs, entries : Entries] /\ m.entries = x.fresh
  BY <1>2 DEF WalkRecord
<1>6. manifest' = m
  BY DEF SaveManifest
<1> HIDE DEF r, m
<1>7. r.alone => SeesTree(w)' /\ Tally(w)'
  <2>1. x.alone => x.todo = {}
    BY <1>1, StepOf DEF Tally
  <2> QED
    BY <1>1, <1>3, <1>4, <2>1, MovesOn
<1>8. frag' \in Fragments
  BY DEF SaveManifest, ErrorInv, Typed, PastTyped, CacheTyped, Fragments
<1>9. TreeTyped' /\ CacheTyped' /\ PastTyped'
  BY <1>5, <1>6, <1>8 DEF SaveManifest, tree, past, ErrorInv, Typed, PastTyped, TreeTyped, CacheTyped
<1>10. Sound(manifest.entries)'
  BY <1>1, <1>5, <1>6, StepOf DEF Sound
<1> QED
  BY <1>1, <1>3, <1>4, <1>7, <1>9, <1>10, StepOf, OthersKept

LEMMA EndsErrors ==
  ASSUME ErrorInv, NEW w \in Walkers, Ends(w)
  PROVE  ErrorInv'
<1> DEFINE new == [docs |-> blob, side |-> [d \in Docs |-> IF blob[d] = None THEN None ELSE side[d]]]
<1>1. UNCHANGED <<bytes, blob, ctx>> /\ CacheTyped' /\ PastTyped'
  BY DEF Ends, cache, ErrorInv, Typed, PastTyped, CacheTyped
<1>2. new \in [docs : Tree, side : Sides] /\ new.side \in Sides
  BY DEF ErrorInv, Typed, PastTyped, TreeTyped, Sides
<1>3. /\ tip' \in {tip, new} /\ other' \in {tip, other} /\ side' \in {side, new.side}
  BY DEF Ends
<1>4. TreeTyped'
  <2> HIDE DEF new
  <2> QED
    BY <1>1, <1>2, <1>3 DEF ErrorInv, Typed, PastTyped, TreeTyped
<1>5. manifest' # None => Sound(manifest.entries)'
  BY DEF Ends, cache, ErrorInv, ErrorsUncached, Sound
<1> QED
  BY <1>1, <1>4, <1>5, OthersKept DEF Ends

LEMMA DiesErrors ==
  ASSUME ErrorInv, NEW w \in Walkers, Dies(w)
  PROVE  ErrorInv'
<1>1. UNCHANGED bytes /\ TreeTyped' /\ CacheTyped' /\ PastTyped'
  BY DEF Dies, tree, cache, ErrorInv, Typed, PastTyped, TreeTyped, CacheTyped
<1>2. manifest' # None => Sound(manifest.entries)'
  BY DEF Dies, cache, ErrorInv, ErrorsUncached, Sound
<1> QED
  BY <1>1, <1>2, OthersKept DEF Dies

LEMMA NextErrors == ErrorInv /\ [Next]_vars => ErrorInv'
<1> SUFFICES ASSUME ErrorInv, [Next]_vars PROVE ErrorInv'
  OBVIOUS
<1>1. CASE User
  BY <1>1, UserErrors
<1>2. CASE \E w \in Walkers : Walk(w)
  <2> PICK w \in Walkers : Walk(w)
    BY <1>2
  <2> QED
    BY BeginErrors, ReadErrors, ServeErrors, UnreadableErrors, ExtractErrors, SaveListErrors,
       SaveManifestErrors, EndsErrors, DiesErrors DEF Walk
<1>3. CASE UNCHANGED vars
  BY <1>3 DEF vars, tree, cache, past, ErrorInv, Typed, PastTyped, TreeTyped, CacheTyped, WalksTyped, ErrorsUncached,
     Sound, AloneCounts, SeesTree, Tally, Walking, Files
<1> QED
  BY <1>1, <1>2, <1>3 DEF Next

LEMMA AlwaysErrorInv == Spec => []ErrorInv
BY InitErrors, NextErrors, PTL DEF Spec

(* Type correctness, for any number of walks at once.                         *)
THEOREM WalkTyped == Spec => []WTypeOK
<1>1. ErrorInv => WTypeOK
  BY TypedIsTypeOK DEF ErrorInv
<1> QED
  BY <1>1, AlwaysErrorInv, PTL

(* Whatever earlier walks cached, died over or wrote at the same time: a walk *)
(* that nothing disturbed fails exactly if one of its documents does not      *)
(* extract. (nquad.rs:1091)                                                   *)
THEOREM NoErrorIsCached == Spec => []ErrorsLoud
BY Loud, AlwaysErrorInv, PTL

-----------------------------------------------------------------------------
(* Trust in the cache.                                                        *)
(* What an entry vouches for: the fragment on disk, if there is one, and the  *)
(* sidecars if it says so and git has not put others there, are those of the  *)
(* entry's text among the documents fs.                                       *)
Vouched(d, e, fs, c) ==
  e # None => /\ frag[d] # None => frag[d] = FragmentOf(e.text, e.index, fs, c)
              /\ ~swapped /\ e.sidecars => side[d] = SideOf(e.text, fs)

Pending(w) ==
  {d \in walk[w].files : walk[w].at = "reading" \/ (walk[w].at = "extracting" /\ d \in walk[w].todo)}

(* What a walk has left to decide it may still trust, and what it has decided *)
(* is so: what it is to cache, to serve and, left alone, to leave beside the  *)
(* documents.                                                                 *)
Trusts(w) == \A d \in Pending(w) :
  walk[w].entries[d] # None /\ Mentions[walk[w].entries[d].text] \cap walk[w].changed = {}
     => Vouched(d, walk[w].entries[d], walk[w].files, walk[w].ctx)
Caches(w) ==
  /\ \A d \in Docs : Vouched(d, walk[w].fresh[d], walk[w].files, walk[w].ctx)
  /\ walk[w].at = "saved" =>
       manifest = [ctx |-> walk[w].ctx, list |-> walk[w].files, entries |-> walk[w].fresh]
  /\ walk[w].at = "reading" => ~walk[w].stored
Answers(w) == \A d \in Docs : walk[w].served[d] # None =>
  /\ walk[w].at # "reading"
  /\ walk[w].served[d] = FragmentOf(walk[w].got[d], walk[w].index[d], walk[w].files, walk[w].ctx)
Leaves(w) == ~swapped /\ walk[w].alone /\ Writes(w) /\ walk[w].at # "reading" =>
  \A d \in walk[w].files \ walk[w].todo : side[d] = SideOf(walk[w].got[d], walk[w].files)

(* The manifest vouches for what is on disk unless a walk is changing it.     *)
Untouched == \A w \in Walking : ~walk[w].stored \/ walk[w].at = "saved"
ManifestTrue == manifest # None /\ Untouched =>
  \A d \in Docs : Vouched(d, manifest.entries[d], manifest.list, manifest.ctx)
OneWalk == \A v, w \in Walking : v = w

CacheTrue == ~torn /\ ~reread =>
  /\ OneWalk /\ ManifestTrue
  /\ \A w \in Walking : Trusts(w) /\ Caches(w) /\ Answers(w) /\ Leaves(w)

TrustInv == ErrorInv /\ CacheTrue

LEMMA InitTrust == Init => TrustInv
<1> SUFFICES ASSUME Init PROVE TrustInv
  OBVIOUS
<1>1. Walking = {}
  BY DEF Init, Walking, Idle
<1>2. manifest = None
  BY DEF Init
<1>3. CacheTrue
  BY <1>1, <1>2 DEF CacheTrue, OneWalk, ManifestTrue
<1> QED
  BY <1>3, InitErrors DEF TrustInv

(* What was served was right, and a walk left alone has left right sidecars.  *)
LEMMA TrustIsRight == TrustInv => ServedRight /\ SidecarsRight
<1> SUFFICES ASSUME TrustInv PROVE ServedRight /\ SidecarsRight
  OBVIOUS
<1>1. ServedRight
  BY DEF ServedRight, ServedRightIf, TrustInv, CacheTrue, Answers
<1>2. SidecarsRight
  <2> SUFFICES ASSUME NEW w \in Walking, ~torn, ~swapped, ~reread, Finished(w), Writes(w), NEW d \in walk[w].files
               PROVE  side[d] = SideOf(walk[w].got[d], walk[w].files)
    BY DEF SidecarsRight, SidecarsRightIf
  <2>1. walk[w].todo = {}
    BY StepOf DEF TrustInv, Tally, Finished
  <2>2. Leaves(w)
    BY DEF TrustInv, CacheTrue
  <2> QED
    BY <2>1, <2>2 DEF Leaves, Finished
<1> QED
  BY <1>1, <1>2

-----------------------------------------------------------------------------
(* The user's steps change sidecars only if swapped is set, and no fragment.  *)
LEMMA VouchedKept ==
  ASSUME NEW d, NEW e, NEW fs, NEW c, frag'[d] = frag[d],
         e # None /\ e.sidecars => swapped' \/ (side'[d] = side[d] /\ swapped' = swapped),
         Vouched(d, e, fs, c)
  PROVE  Vouched(d, e, fs, c)'
BY DEF Vouched

LEMMA DisturbedTrust ==
  ASSUME TrustInv, ErrorInv', UserActs
  PROVE  TrustInv'
<1> SUFFICES ASSUME ~torn, ~reread PROVE CacheTrue'
  BY DEF TrustInv, CacheTrue, UserActs
<1>1. UNCHANGED <<frag, manifest, torn, reread>> /\ (swapped' \/ (UNCHANGED side /\ UNCHANGED swapped))
  <2>1. UNCHANGED <<cache, torn, reread>> /\ swapped' = (swapped \/ side' # side)
    BY DEF UserActs
  <2>2. swapped \in BOOLEAN
    BY DEF TrustInv, ErrorInv, Typed, PastTyped
  <2>3. swapped' \/ (side' = side /\ swapped' = swapped)
    BY <2>1, <2>2, Zenon
  <2> QED
    BY <2>1, <2>3 DEF cache
<1>2. \A w \in Walkers : walk'[w] = IF walk[w] = Idle THEN Idle ELSE [walk[w] EXCEPT !.alone = FALSE]
  BY DEF UserActs, Disturbed
<1>3. \A w \in Walkers : walk[w] # Idle => walk[w] \in WalkRecord /\ w \in Walking
  BY DEF TrustInv, ErrorInv, Typed, WalksTyped, Walking, WalkRecord
<1>4. Walking' \subseteq Walking
  BY <1>2, <1>3 DEF Walking, Idle
<1>5. ASSUME NEW w \in Walking'
      PROVE  /\ w \in Walking /\ ~walk'[w].alone
             /\ walk'[w].at = walk[w].at /\ walk'[w].kind = walk[w].kind /\ walk'[w].files = walk[w].files
             /\ walk'[w].ctx = walk[w].ctx /\ walk'[w].entries = walk[w].entries
             /\ walk'[w].changed = walk[w].changed /\ walk'[w].index = walk[w].index
             /\ walk'[w].got = walk[w].got /\ walk'[w].todo = walk[w].todo /\ walk'[w].fresh = walk[w].fresh
             /\ walk'[w].served = walk[w].served /\ walk'[w].stored = walk[w].stored
  <2>1. walk[w] \in WalkRecord /\ walk'[w] = [walk[w] EXCEPT !.alone = FALSE] /\ w \in Walking
    BY <1>2, <1>3, <1>4, <1>5, StepOf DEF TrustInv
  <2> QED
    BY <2>1 DEF WalkRecord
<1>6. \A d, e, fs, c : Vouched(d, e, fs, c) => Vouched(d, e, fs, c)'
  BY <1>1 DEF Vouched
<1>7. CacheTrue /\ OneWalk /\ ManifestTrue
  BY DEF TrustInv, CacheTrue
<1>8. OneWalk'
  BY <1>4, <1>7 DEF OneWalk
<1>9. Walking \subseteq Walking'
  <2> SUFFICES ASSUME NEW w \in Walking PROVE w \in Walking'
    OBVIOUS
  <2>1. w \in Walkers /\ walk[w] \in WalkRecord /\ walk[w] # Idle
    BY StepOf DEF TrustInv
  <2>2. walk'[w] = [walk[w] EXCEPT !.alone = FALSE]
    BY <1>2, <2>1
  <2> QED
    BY <2>1, <2>2 DEF Walking, WalkRecord
<1>10. ManifestTrue'
  <2>1. Untouched' => Untouched
    BY <1>5, <1>9 DEF Untouched
  <2> QED
    BY <1>1, <1>6, <1>7, <2>1 DEF ManifestTrue
<1>11. ASSUME NEW w \in Walking' PROVE (Trusts(w) /\ Caches(w) /\ Answers(w) /\ Leaves(w))'
  <2>1. Trusts(w) /\ Caches(w) /\ Answers(w)
    BY <1>5, <1>7 DEF CacheTrue
  <2>2. Trusts(w)'
    BY <1>5, <1>6, <2>1 DEF Trusts, Pending
  <2>3. Caches(w)'
    BY <1>1, <1>5, <1>6, <2>1 DEF Caches
  <2>4. Answers(w)'
    BY <1>5, <2>1 DEF Answers
  <2>5. Leaves(w)'
    BY <1>5 DEF Leaves
  <2> QED
    BY <2>2, <2>3, <2>4, <2>5
<1> QED
  BY <1>8, <1>10, <1>11 DEF CacheTrue

LEMMA UserTrust ==
  ASSUME TrustInv, User
  PROVE  TrustInv'
<1>1. UserActs
  BY DEF User, Edit, Stage, Restore, ResetHard, Switch, Reset, NewContext
<1> QED
  BY <1>1, UserErrors, DisturbedTrust DEF TrustInv

-----------------------------------------------------------------------------
(* A walk's own step, when it was the only walk.                              *)
LEMMA StepTrusts ==
  ASSUME TrustInv, ErrorInv', NEW w \in Walkers, Walking \subseteq {w}, NEW r, walk' = [walk EXCEPT ![w] = r],
         ManifestTrue', r # Idle => (Trusts(w) /\ Caches(w) /\ Answers(w) /\ Leaves(w))'
  PROVE  TrustInv'
<1>1. \A v \in Walkers : walk'[v] = IF v = w THEN r ELSE walk[v]
  BY DEF TrustInv, ErrorInv, Typed, WalksTyped
<1>2. Walking' \subseteq {w} /\ (w \in Walking' => r # Idle)
  BY <1>1 DEF Walking, Idle
<1> QED
  BY <1>2 DEF TrustInv, CacheTrue, OneWalk

LEMMA TheWalk ==
  ASSUME TrustInv, ~torn, ~reread, NEW w \in Walking
  PROVE  /\ Walking = {w} /\ ManifestTrue /\ Trusts(w) /\ Caches(w) /\ Answers(w) /\ Leaves(w)
BY DEF TrustInv, CacheTrue, OneWalk

LEMMA LoadedTrust ==
  ASSUME TrustInv, ManifestTrue, Walking = {}, NEW d \in Docs, Loaded[d] # None,
         Mentions[Loaded[d].text] \cap ChangedNames = {}
  PROVE  Vouched(d, Loaded[d], Files, ctx)
<1>1. Usable /\ Loaded = manifest.entries /\ ChangedNames = CameOrWent
  BY DEF Loaded, ChangedNames, NoEntries
<1>2. Vouched(d, Loaded[d], list, ctx)
  BY <1>1 DEF Usable, ManifestTrue, Untouched
<1>3. Loaded[d].text \in Texts
  BY LoadedSound DEF TrustInv, Entries, Entry
<1>4. Mentions[Loaded[d].text] \subseteq Docs
  BY <1>3, WalkConstants
<1>5. Mentions[Loaded[d].text] \cap list = Mentions[Loaded[d].text] \cap Files
  BY <1>1, <1>4 DEF CameOrWent
<1> QED
  BY <1>2, <1>5 DEF Vouched, FragmentOf, SideOf

LEMMA BeginTrust ==
  ASSUME TrustInv, NEW w \in Walkers, NEW kind \in Kinds, Begin(w, kind)
  PROVE  TrustInv'
<1>e. ErrorInv'
  BY BeginErrors DEF TrustInv
<1> SUFFICES ASSUME ~torn', ~reread' PROVE CacheTrue'
  BY <1>e DEF TrustInv, CacheTrue
<1>1. Walking = {} /\ ~torn /\ ~reread
  BY DEF Begin, TrustInv, ErrorInv, Typed, PastTyped
<1>2. \A v \in Walkers : walk[v] = Idle
  BY <1>1 DEF TrustInv, ErrorInv, Typed, WalksTyped, Walking, WalkRecord
<1>3. PICK forced \in SUBSET Dirty : walk' = [v \in Walkers |->
            IF v = w
            THEN [at |-> IF Files = {} THEN "extracting" ELSE "reading",
                  kind |-> kind, files |-> Files, ctx |-> ctx,
                  entries |-> Loaded, changed |-> ChangedNames, forced |-> forced,
                  index |-> blob', got |-> NoEntries, todo |-> Files,
                  fresh |-> NoEntries, failed |-> FALSE, served |-> NoEntries,
                  stored |-> FALSE, alone |-> Walking = {}]
            ELSE IF walk[v] = Idle THEN Idle ELSE [walk[v] EXCEPT !.alone = FALSE]]
  BY DEF Begin
<1>4. \A v \in Walkers : v # w => walk'[v] = Idle
  BY <1>2, <1>3
<1>5. /\ walk'[w].at = IF Files = {} THEN "extracting" ELSE "reading"
      /\ walk'[w].entries = Loaded /\ walk'[w].changed = ChangedNames /\ walk'[w].files = Files /\ walk'[w].ctx = ctx
      /\ walk'[w].fresh = NoEntries /\ walk'[w].served = NoEntries /\ walk'[w].todo = Files /\ ~walk'[w].stored
  BY <1>3
<1>6. Walking' \subseteq {w}
  BY <1>4 DEF Walking, Idle
<1>7. UNCHANGED <<side, frag, manifest, swapped>>
  BY DEF Begin, cache
<1>8. ManifestTrue
  BY <1>1 DEF TrustInv, CacheTrue
<1>9. ManifestTrue'
  BY <1>1, <1>7, <1>8 DEF ManifestTrue, Untouched, Vouched
<1>10. Trusts(w)'
  <2> SUFFICES ASSUME NEW d \in Files, Loaded[d] # None, Mentions[Loaded[d].text] \cap ChangedNames = {}
               PROVE  Vouched(d, Loaded[d], Files, ctx)
    BY <1>5, <1>7 DEF Trusts, Pending, Vouched
  <2> QED
    BY <1>1, <1>8, LoadedTrust DEF Files
<1>11. Caches(w)' /\ Answers(w)' /\ Leaves(w)'
  BY <1>5 DEF Caches, Answers, Leaves, NoEntries, Vouched
<1> QED
  BY <1>6, <1>9, <1>10, <1>11 DEF CacheTrue, OneWalk

LEMMA ReadTrust ==
  ASSUME TrustInv, NEW w \in Walkers, NEW d \in Docs, Read(w, d)
  PROVE  TrustInv'
<1>e. ErrorInv'
  BY ReadErrors DEF TrustInv
<1> SUFFICES ASSUME ~torn', ~reread' PROVE CacheTrue'
  BY <1>e DEF TrustInv, CacheTrue
<1> DEFINE left == walk[w].todo \ {d}
           r == [[[walk[w] EXCEPT !.got[d] = bytes[d]]
                  EXCEPT !.todo = IF left = {} THEN walk[w].files ELSE left]
                  EXCEPT !.at = IF left = {} THEN "extracting" ELSE "reading"]
<1>1. w \in Walking /\ walk[w].at = "reading" /\ d \in walk[w].todo
  BY DEF Read, Walking
<1>2. walk' = [walk EXCEPT ![w] = r]
  BY DEF Read
<1>3. ~torn /\ ~reread /\ UNCHANGED <<side, frag, manifest, swapped>>
  BY DEF Read, tree, cache, past
<1>4. Walking = {w} /\ ManifestTrue /\ Trusts(w) /\ Caches(w) /\ Answers(w)
  BY <1>1, <1>3, TheWalk
<1>5. walk[w] \in WalkRecord
  BY <1>1, StepOf DEF TrustInv
<1>6. /\ r.entries = walk[w].entries /\ r.fresh = walk[w].fresh /\ r.files = walk[w].files /\ r.ctx = walk[w].ctx
      /\ r.changed = walk[w].changed /\ r.index = walk[w].index /\ r.served = walk[w].served
      /\ r.stored = walk[w].stored
      /\ r.todo = IF left = {} THEN walk[w].files ELSE left
      /\ r.at = IF left = {} THEN "extracting" ELSE "reading"
  BY <1>5 DEF WalkRecord
<1>7. walk'[w] = r
  BY <1>2 DEF TrustInv, ErrorInv, Typed, WalksTyped
<1> HIDE DEF r
<1>8. ManifestTrue'
  <2>1. Untouched' => Untouched
    BY <1>1, <1>4, <1>6, <1>7 DEF Untouched, Walking
  <2> QED
    BY <1>3, <1>4, <2>1 DEF ManifestTrue, Vouched
<1>9. Trusts(w)'
  BY <1>1, <1>3, <1>4, <1>6, <1>7 DEF Trusts, Pending, Vouched
<1>10. Caches(w)'
  BY <1>1, <1>3, <1>4, <1>6, <1>7 DEF Caches, Vouched
<1>11. Answers(w)'
  BY <1>1, <1>4, <1>6, <1>7 DEF Answers
<1>12. Leaves(w)'
  BY <1>6, <1>7 DEF Leaves
<1> QED
  BY <1>e, <1>2, <1>4, <1>8, <1>9, <1>10, <1>11, <1>12, StepTrusts DEF TrustInv

-----------------------------------------------------------------------------
LEMMA WithoutRest ==
  ASSUME NEW y \in WalkRecord, NEW d
  PROVE  LET r == Without(y, d)
         IN  /\ r.ctx = y.ctx /\ r.index = y.index /\ r.kind = y.kind /\ r.served = y.served
             /\ r.stored = y.stored /\ r.changed = y.changed
BY DEF Without, WalkRecord

(* What a walk does with a document d, when it was the only walk.             *)
LEMMA DoneTrusts ==
  ASSUME TrustInv, ErrorInv', ~torn, ~reread,
         NEW w \in Walking, NEW d \in walk[w].todo, walk[w].at = "extracting",
         UNCHANGED <<manifest, swapped>>,
         NEW y \in WalkRecord, walk' = [walk EXCEPT ![w] = Without(y, d)],
         y.at = "extracting", y.todo = walk[w].todo, y.files = walk[w].files, y.got = walk[w].got,
         y.entries = walk[w].entries, y.alone = walk[w].alone, y.ctx = walk[w].ctx, y.index = walk[w].index,
         y.kind = walk[w].kind, y.changed = walk[w].changed,
         y.stored \/ (y.stored = walk[w].stored /\ UNCHANGED <<frag, side>>),
         \A o \in Docs \ {d} : /\ y.fresh[o] = walk[w].fresh[o] /\ y.served[o] = walk[w].served[o]
                               /\ frag'[o] = frag[o] /\ side'[o] = side[o],
         NEW e, NEW fs, NEW c, e = y.fresh[d], fs = walk[w].files, c = walk[w].ctx, Vouched(d, e, fs, c)',
         y.served[d] # None => y.served[d] = FragmentOf(walk[w].got[d], walk[w].index[d], walk[w].files, walk[w].ctx),
         ~swapped /\ walk[w].alone /\ Writes(w) => side'[d] = SideOf(walk[w].got[d], walk[w].files)
  PROVE  TrustInv'
<1> DEFINE r == Without(y, d)
<1>1. /\ r.at = "extracting" /\ r.todo = y.todo \ {d} /\ r.files = y.files /\ r.got = y.got
      /\ r.entries = y.entries /\ r.alone = y.alone /\ r.fresh = y.fresh
      /\ r.ctx = y.ctx /\ r.index = y.index /\ r.kind = y.kind /\ r.served = y.served
      /\ r.stored = y.stored /\ r.changed = y.changed
  BY WithoutRecord, WithoutRest
<1>2. walk'[w] = r /\ w \in Walkers /\ walk[w] \in WalkRecord
  BY StepOf DEF TrustInv, ErrorInv, Typed, WalksTyped
<1>3. Walking = {w} /\ ManifestTrue /\ Trusts(w) /\ Caches(w) /\ Answers(w) /\ Leaves(w)
  BY TheWalk
<1>4. w \in Walking'
  BY <1>1, <1>2 DEF Walking
<1>5. walk[w].files \in SUBSET Docs
  BY <1>2 DEF WalkRecord
<1> HIDE DEF r
<1>6. ManifestTrue'
  <2>1. CASE y.stored
    BY <2>1, <1>1, <1>2, <1>4 DEF ManifestTrue, Untouched
  <2>2. CASE y.stored = walk[w].stored /\ UNCHANGED <<frag, side>>
    <3>1. Untouched' => Untouched
      BY <2>2, <1>1, <1>2, <1>3, <1>4 DEF Untouched
    <3> QED
      BY <2>2, <1>3, <3>1 DEF ManifestTrue, Vouched
  <2> QED
    BY <2>1, <2>2
<1>7. \A o \in Docs \ {d} : \A n, ds, k : Vouched(o, n, ds, k) => Vouched(o, n, ds, k)'
  BY DEF Vouched
<1>8. Trusts(w)'
  BY <1>1, <1>2, <1>3, <1>5, <1>7 DEF Trusts, Pending
<1>9. Caches(w)'
  BY <1>1, <1>2, <1>3, <1>7 DEF Caches
<1>10. Answers(w)'
  BY <1>1, <1>2, <1>3 DEF Answers
<1>11. Leaves(w)'
  <2>1. Writes(w)' <=> Writes(w)
    BY <1>1, <1>2 DEF Writes
  <2> SUFFICES ASSUME ~swapped, walk[w].alone, Writes(w), NEW o \in walk[w].files \ (walk[w].todo \ {d})
               PROVE  side'[o] = SideOf(walk[w].got[o], walk[w].files)
    BY <1>1, <1>2, <2>1 DEF Leaves
  <2> QED
    BY <1>3, <1>5 DEF Leaves
<1> QED
  BY <1>2, <1>3, <1>6, <1>8, <1>9, <1>10, <1>11, StepTrusts DEF r

(* A hit, or a document whose entry is carried over, is one its entry still   *)
(* vouches for.                                                               *)
LEMMA UnchangedVouched ==
  ASSUME TrustInv, ~torn, ~reread, NEW w \in Walking, NEW d \in walk[w].todo, walk[w].at = "extracting",
         Unchanged(w, d)
  PROVE  /\ Vouched(d, walk[w].entries[d], walk[w].files, walk[w].ctx)
         /\ walk[w].entries[d].text = walk[w].got[d] /\ walk[w].entries[d].index = walk[w].index[d]
<1>1. d \in Pending(w)
  BY StepOf DEF Pending, TrustInv, WalkRecord
<1> QED
  BY <1>1, TheWalk DEF Trusts, Unchanged

LEMMA ServeTrust ==
  ASSUME TrustInv, NEW w \in Walkers, NEW d \in Docs, Serve(w, d)
  PROVE  TrustInv'
<1>e. ErrorInv'
  BY ServeErrors DEF TrustInv
<1> SUFFICES ASSUME ~torn', ~reread' PROVE TrustInv'
  BY <1>e DEF TrustInv, CacheTrue
<1> DEFINE x == walk[w]
           y == [x EXCEPT !.fresh[d] = x.entries[d], !.served[d] = IF x.kind = "query" THEN frag[d] ELSE None]
<1>1. w \in Walking /\ x.at = "extracting" /\ d \in x.todo /\ x.got[d] # None /\ Unchanged(w, d)
  BY DEF Serve, Processing, Walking, Hit
<1>2. x \in WalkRecord /\ frag \in Fragments
  BY <1>1, StepOf DEF TrustInv, ErrorInv, Typed, CacheTyped
<1>3. y \in WalkRecord
  <2>1. x.entries[d] \in Entry \cup {None}
    BY <1>2 DEF WalkRecord, Entries
  <2> QED
    BY <1>2, <2>1 DEF WalkRecord, Entries, Fragments
<1>4. /\ y.at = "extracting" /\ y.todo = x.todo /\ y.files = x.files /\ y.got = x.got /\ y.entries = x.entries
      /\ y.alone = x.alone /\ y.ctx = x.ctx /\ y.index = x.index /\ y.kind = x.kind /\ y.changed = x.changed
      /\ y.stored = x.stored
      /\ y.fresh[d] = x.entries[d] /\ y.served[d] = IF x.kind = "query" THEN frag[d] ELSE None
      /\ \A c \in Docs \ {d} : y.fresh[c] = x.fresh[c] /\ y.served[c] = x.served[c]
  BY <1>1, <1>2 DEF WalkRecord, Entries, Fragments
<1>5. walk' = [walk EXCEPT ![w] = Without(y, d)]
  BY DEF Serve, Done, Without
<1>6. ~torn /\ ~reread /\ UNCHANGED <<manifest, swapped, frag, side>>
  BY DEF Serve, tree, cache, past
<1> HIDE DEF y
<1>7. /\ Vouched(d, x.entries[d], x.files, x.ctx) /\ x.entries[d] # None
      /\ x.entries[d].text = x.got[d] /\ x.entries[d].index = x.index[d]
  BY <1>1, <1>6, UnchangedVouched DEF Unchanged
<1>8. PICK e, fs, c : e = y.fresh[d] /\ fs = x.files /\ c = x.ctx
  OBVIOUS
<1>11. Vouched(d, e, fs, c)'
  BY <1>4, <1>6, <1>7, <1>8 DEF Vouched
<1>9. y.served[d] # None => y.served[d] = FragmentOf(x.got[d], x.index[d], x.files, x.ctx)
  BY <1>4, <1>7 DEF Vouched
<1>10. ~swapped /\ x.alone /\ Writes(w) => side'[d] = SideOf(x.got[d], x.files)
  BY <1>6, <1>7 DEF Serve, Hit, Vouched
<1> QED
  <2>1. /\ y.at = "extracting" /\ y.todo = walk[w].todo /\ y.files = walk[w].files /\ y.got = walk[w].got
        /\ y.entries = walk[w].entries /\ y.alone = walk[w].alone /\ y.ctx = walk[w].ctx
        /\ y.index = walk[w].index /\ y.kind = walk[w].kind /\ y.changed = walk[w].changed
        /\ y.stored = walk[w].stored
    BY <1>4
  <2>2. /\ ~torn /\ ~reread /\ w \in Walking /\ d \in walk[w].todo /\ walk[w].at = "extracting"
        /\ UNCHANGED <<manifest, swapped>> /\ UNCHANGED <<frag, side>> /\ fs = walk[w].files /\ c = walk[w].ctx
    BY <1>1, <1>6, <1>8
  <2>3. \A o \in Docs \ {d} : /\ y.fresh[o] = walk[w].fresh[o] /\ y.served[o] = walk[w].served[o]
                               /\ frag'[o] = frag[o] /\ side'[o] = side[o]
    BY <1>4, <1>6
  <2> HIDE DEF x
  <2> QED
    BY <1>e, <1>3, <1>5, <1>8, <1>9, <1>10, <1>11, <2>1, <2>2, <2>3, DoneTrusts, ZenonT(60) DEF x

LEMMA FreshVouched ==
  ASSUME TrustInv, ~torn, ~reread, NEW w \in Walking, NEW d \in walk[w].todo, walk[w].at = "extracting"
  PROVE  Vouched(d, Fresh(w, d), walk[w].files, walk[w].ctx)
<1>1. CASE Unchanged(w, d)
  BY <1>1, UnchangedVouched DEF Fresh, Vouched
<1>2. CASE ~Unchanged(w, d)
  BY <1>2 DEF Fresh, Vouched
<1> QED
  BY <1>1, <1>2

LEMMA UnreadableTrust ==
  ASSUME TrustInv, NEW w \in Walkers, NEW d \in Docs, Unreadable(w, d)
  PROVE  TrustInv'
<1>e. ErrorInv'
  BY UnreadableErrors DEF TrustInv
<1> SUFFICES ASSUME ~torn', ~reread' PROVE TrustInv'
  BY <1>e DEF TrustInv, CacheTrue
<1> DEFINE x == walk[w]
           y == [x EXCEPT !.failed = TRUE, !.fresh[d] = Fresh(w, d)]
<1>1. w \in Walking /\ x.at = "extracting" /\ d \in x.todo
  BY DEF Unreadable, Processing, Walking
<1>2. x \in WalkRecord
  BY <1>1, StepOf DEF TrustInv
<1>3. y \in WalkRecord
  <2>1. Fresh(w, d) \in Entry \cup {None}
    BY <1>2 DEF Fresh, WalkRecord, Entries
  <2> QED
    BY <1>2, <2>1 DEF WalkRecord, Entries
<1>4. /\ y.at = "extracting" /\ y.todo = x.todo /\ y.files = x.files /\ y.got = x.got /\ y.entries = x.entries
      /\ y.alone = x.alone /\ y.ctx = x.ctx /\ y.index = x.index /\ y.kind = x.kind /\ y.changed = x.changed
      /\ y.stored = x.stored /\ y.served = x.served
      /\ y.fresh[d] = Fresh(w, d) /\ \A c \in Docs \ {d} : y.fresh[c] = x.fresh[c]
  BY <1>1, <1>2 DEF WalkRecord, Entries
<1>5. walk' = [walk EXCEPT ![w] = Without(y, d)]
  BY DEF Unreadable, Done, Without
<1>6. ~torn /\ ~reread /\ UNCHANGED <<manifest, swapped, frag, side>>
  BY DEF Unreadable, tree, cache, past
<1>7. ~x.alone
  BY <1>1, <1>2, StepOf DEF TrustInv, Unreadable, SeesTree, Files, WalkRecord
<1> HIDE DEF y
<1>8. PICK e, fs, c : e = y.fresh[d] /\ fs = x.files /\ c = x.ctx
  OBVIOUS
<1>9. Vouched(d, e, fs, c)'
  BY <1>1, <1>4, <1>6, <1>8, FreshVouched DEF Vouched
<1>10. y.served[d] # None => y.served[d] = FragmentOf(x.got[d], x.index[d], x.files, x.ctx)
  BY <1>1, <1>4, <1>6, TheWalk DEF Answers
<1> QED
  BY <1>e, <1>1, <1>3, <1>4, <1>5, <1>6, <1>7, <1>8, <1>9, <1>10, DoneTrusts

LEMMA ExtractTrust ==
  ASSUME TrustInv, NEW w \in Walkers, NEW d \in Docs, Extract(w, d)
  PROVE  TrustInv'
<1>e. ErrorInv'
  BY ExtractErrors DEF TrustInv
<1> SUFFICES ASSUME ~torn', ~reread' PROVE TrustInv'
  BY <1>e DEF TrustInv, CacheTrue
<1> DEFINE x == walk[w]
           text == IF Unchanged(w, d) THEN bytes[d] ELSE x.got[d]
           fragment == FragmentOf(text, x.index[d], x.files, x.ctx)
           entry == [text |-> x.got[d], index |-> x.index[d], sidecars |-> Writes(w)]
           y1 == [x EXCEPT !.failed = TRUE, !.fresh[d] = Fresh(w, d), !.stored = @ \/ Writes(w)]
           y2 == [x EXCEPT !.fresh[d] = entry, !.stored = TRUE,
                           !.served[d] = IF x.kind = "query" THEN fragment ELSE None]
<1>1. /\ w \in Walking /\ x.at = "extracting" /\ d \in x.todo /\ x.got[d] # None
  BY DEF Extract, Processing, Walking
<1>2. x \in WalkRecord /\ frag \in Fragments /\ side \in Sides /\ x.stored \in BOOLEAN
  BY <1>1, StepOf DEF TrustInv, ErrorInv, Typed, TreeTyped, CacheTyped, WalkRecord
<1>3. text = x.got[d] /\ ~torn /\ ~reread /\ UNCHANGED <<manifest, swapped>>
  <2>1. reread' = (reread \/ text # x.got[d]) /\ UNCHANGED <<torn, manifest, swapped>>
    BY DEF Extract
  <2>2. reread \in BOOLEAN
    BY DEF TrustInv, ErrorInv, Typed, PastTyped
  <2> QED
    BY <2>1, <2>2, Zenon
<1>4. side' = IF Writes(w) THEN [side EXCEPT ![d] = SideOf(x.got[d], x.files)] ELSE side
  BY <1>3 DEF Extract
<1>5. /\ x.got[d] \in Texts /\ x.index[d] \in Texts \cup {None}
      /\ x.files \in SUBSET Docs /\ x.ctx \in Contexts
  BY <1>1, <1>2 DEF WalkRecord, Tree
<1>6. PICK e, fs, c : fs = x.files /\ c = x.ctx /\ e = IF text \in Broken THEN Fresh(w, d) ELSE entry
  OBVIOUS
<1>7. /\ Writes(w) => side'[d] = SideOf(x.got[d], x.files)
      /\ ~Writes(w) => side' = side
      /\ \A o \in Docs \ {d} : side'[o] = side[o]
  BY <1>2, <1>4 DEF Sides
<1>8. CASE text \in Broken
  <2>1. Fresh(w, d) \in Entry \cup {None}
    BY <1>2 DEF Fresh, WalkRecord, Entries
  <2>2. y1 \in WalkRecord
    BY <1>2, <2>1 DEF WalkRecord, Entries
  <2>3. /\ y1.at = "extracting" /\ y1.todo = x.todo /\ y1.files = x.files /\ y1.got = x.got /\ y1.entries = x.entries
        /\ y1.alone = x.alone /\ y1.ctx = x.ctx /\ y1.index = x.index /\ y1.kind = x.kind
        /\ y1.changed = x.changed /\ y1.stored = (x.stored \/ Writes(w)) /\ y1.served = x.served
        /\ y1.fresh[d] = Fresh(w, d) /\ \A o \in Docs \ {d} : y1.fresh[o] = x.fresh[o]
    BY <1>1, <1>2 DEF WalkRecord, Entries
  <2>4. walk' = [walk EXCEPT ![w] = Without(y1, d)] /\ UNCHANGED frag
    BY <1>8 DEF Extract, Done, Without
  <2> HIDE DEF y1, text, entry, fragment
  <2>5. y1.stored \/ (y1.stored = x.stored /\ UNCHANGED <<frag, side>>)
    <3>1. CASE Writes(w)
      BY <2>3, <3>1, Zenon
    <3>2. CASE ~Writes(w)
      <4>1. y1.stored = x.stored
        BY <1>2, <2>3, <3>2, Zenon
      <4> QED
        BY <4>1, <1>7, <2>4, <3>2
    <3> QED
      BY <3>1, <3>2
  <2>6. Vouched(d, e, fs, c)'
    <3>1. Vouched(d, e, fs, c)
      BY <1>1, <1>3, <1>6, <1>8, FreshVouched
    <3>2. e # None => e.text = x.got[d]
      BY <1>6, <1>8 DEF Fresh, Unchanged
    <3> QED
      BY <1>3, <1>6, <1>7, <2>4, <3>1, <3>2 DEF Vouched
  <2>7. y1.served[d] # None => y1.served[d] = FragmentOf(x.got[d], x.index[d], x.files, x.ctx)
    BY <1>1, <1>3, <2>3, TheWalk DEF Answers
  <2>8. e = y1.fresh[d]
    BY <1>6, <1>8, <2>3
  <2> QED
    <3>1. /\ y1.at = "extracting" /\ y1.todo = walk[w].todo /\ y1.files = walk[w].files /\ y1.got = walk[w].got
          /\ y1.entries = walk[w].entries /\ y1.alone = walk[w].alone /\ y1.ctx = walk[w].ctx
          /\ y1.index = walk[w].index /\ y1.kind = walk[w].kind /\ y1.changed = walk[w].changed
      BY <2>3
    <3>2. /\ ~torn /\ ~reread /\ w \in Walking /\ d \in walk[w].todo /\ walk[w].at = "extracting"
          /\ UNCHANGED <<manifest, swapped>> /\ fs = walk[w].files /\ c = walk[w].ctx
      BY <1>1, <1>3, <1>6
    <3>3. ~swapped /\ walk[w].alone /\ Writes(w) => side'[d] = SideOf(walk[w].got[d], walk[w].files)
      BY <1>7
    <3>4. \A o \in Docs \ {d} : /\ y1.fresh[o] = walk[w].fresh[o] /\ y1.served[o] = walk[w].served[o]
                                 /\ frag'[o] = frag[o] /\ side'[o] = side[o]
      BY <1>7, <2>3, <2>4
    <3> HIDE DEF x
    <3> QED
      BY <1>e, <2>2, <2>4, <2>5, <2>6, <2>7, <2>8, <3>1, <3>2, <3>3, <3>4, DoneTrusts, ZenonT(60) DEF x
<1>9. CASE text \notin Broken
  <2>1. fragment \in Fragment /\ fragment = FragmentOf(x.got[d], x.index[d], x.files, x.ctx)
    <3> HIDE DEF text, x
    <3> QED
      BY <1>3, <1>5, FragmentTyped
  <2>2. entry \in Entry /\ entry.text = x.got[d] /\ entry.index = x.index[d] /\ entry.sidecars = Writes(w)
    BY <1>5 DEF Entry, Writes
  <2> HIDE DEF entry, fragment
  <2>3. y2 \in WalkRecord
    BY <1>2, <2>1, <2>2 DEF WalkRecord, Entries, Fragments
  <2>4. /\ y2.at = "extracting" /\ y2.todo = x.todo /\ y2.files = x.files /\ y2.got = x.got /\ y2.entries = x.entries
        /\ y2.alone = x.alone /\ y2.ctx = x.ctx /\ y2.index = x.index /\ y2.kind = x.kind
        /\ y2.changed = x.changed /\ y2.stored = TRUE /\ y2.fresh[d] = entry
        /\ y2.served[d] = IF x.kind = "query" THEN fragment ELSE None
        /\ \A o \in Docs \ {d} : y2.fresh[o] = x.fresh[o] /\ y2.served[o] = x.served[o]
    BY <1>1, <1>2 DEF WalkRecord, Entries, Fragments
  <2>5. walk' = [walk EXCEPT ![w] = Without(y2, d)] /\ frag' = [frag EXCEPT ![d] = fragment]
    BY <1>9 DEF Extract, Done, Without, entry, fragment
  <2>6. frag'[d] = fragment /\ \A o \in Docs \ {d} : frag'[o] = frag[o]
    BY <1>2, <2>5 DEF Fragments
  <2> HIDE DEF y1, y2, text
  <2>7. e = y2.fresh[d] /\ e = entry
    BY <1>6, <1>9, <2>4
  <2>8. Vouched(d, e, fs, c)' /\ e = y2.fresh[d]
    BY <1>6, <1>7, <2>1, <2>2, <2>6, <2>7 DEF Vouched
  <2>9. y2.served[d] # None => y2.served[d] = FragmentOf(x.got[d], x.index[d], x.files, x.ctx)
    BY <2>1, <2>4
  <2>10. y2.stored \/ (y2.stored = x.stored /\ UNCHANGED <<frag, side>>)
    BY <2>4
  <2>11. \A o \in Docs \ {d} : /\ y2.fresh[o] = x.fresh[o] /\ y2.served[o] = x.served[o]
                                /\ frag'[o] = frag[o] /\ side'[o] = side[o]
    BY <1>7, <2>4, <2>6
  <2> QED
    <3>1. /\ y2.at = "extracting" /\ y2.todo = walk[w].todo /\ y2.files = walk[w].files /\ y2.got = walk[w].got
          /\ y2.entries = walk[w].entries /\ y2.alone = walk[w].alone /\ y2.ctx = walk[w].ctx
          /\ y2.index = walk[w].index /\ y2.kind = walk[w].kind /\ y2.changed = walk[w].changed
      BY <2>4
    <3>2. /\ ~torn /\ ~reread /\ w \in Walking /\ d \in walk[w].todo /\ walk[w].at = "extracting"
          /\ UNCHANGED <<manifest, swapped>> /\ fs = walk[w].files /\ c = walk[w].ctx
      BY <1>1, <1>3, <1>6
    <3>3. ~swapped /\ walk[w].alone /\ Writes(w) => side'[d] = SideOf(walk[w].got[d], walk[w].files)
      BY <1>7
    <3> HIDE DEF x
    <3> QED
      BY <1>e, <2>3, <2>5, <2>7, <2>8, <2>9, <2>10, <2>11, <3>1, <3>2, <3>3, DoneTrusts, ZenonT(60) DEF x
<1> QED
  BY <1>8, <1>9

-----------------------------------------------------------------------------
(* The end of a walk.                                                         *)
LEMMA SaveListTrust ==
  ASSUME TrustInv, NEW w \in Walkers, SaveList(w)
  PROVE  TrustInv'
<1>e. ErrorInv'
  BY SaveListErrors DEF TrustInv
<1> SUFFICES ASSUME ~torn', ~reread' PROVE TrustInv'
  BY <1>e DEF TrustInv, CacheTrue
<1> DEFINE x == walk[w]
           r == [x EXCEPT !.at = "saving"]
<1>1. w \in Walking /\ x.at = "extracting" /\ x.todo = {}
  BY DEF SaveList, Walking
<1>2. x \in WalkRecord
  BY <1>1, StepOf DEF TrustInv
<1>3. /\ r.at = "saving" /\ r.todo = {} /\ r.files = x.files /\ r.got = x.got /\ r.fresh = x.fresh
      /\ r.alone = x.alone /\ r.kind = x.kind /\ r.ctx = x.ctx /\ r.index = x.index /\ r.served = x.served
      /\ r.stored = x.stored
  BY <1>1, <1>2 DEF WalkRecord
<1>4. walk' = [walk EXCEPT ![w] = r] /\ walk'[w] = r /\ w \in Walking'
  BY <1>1, <1>3 DEF SaveList, TrustInv, ErrorInv, Typed, WalksTyped, Walking
<1>5. ~torn /\ ~reread /\ UNCHANGED <<manifest, swapped, frag, side>>
  BY DEF SaveList, tree, past
<1>6. Walking = {w} /\ ManifestTrue /\ Caches(w) /\ Answers(w) /\ Leaves(w)
  BY <1>1, <1>5, TheWalk
<1> HIDE DEF r
<1>7. ManifestTrue'
  <2>1. Untouched' => Untouched
    BY <1>3, <1>4, <1>6 DEF Untouched
  <2> QED
    BY <1>5, <1>6, <2>1 DEF ManifestTrue, Vouched
<1>8. Trusts(w)'
  BY <1>3, <1>4 DEF Trusts, Pending
<1>9. Caches(w)' /\ Answers(w)' /\ Leaves(w)'
  BY <1>1, <1>3, <1>4, <1>5, <1>6 DEF Caches, Answers, Leaves, Vouched, Writes
<1> QED
  BY <1>e, <1>4, <1>6, <1>7, <1>8, <1>9, StepTrusts

LEMMA SaveManifestTrust ==
  ASSUME TrustInv, NEW w \in Walkers, SaveManifest(w)
  PROVE  TrustInv'
<1>e. ErrorInv'
  BY SaveManifestErrors DEF TrustInv
<1> SUFFICES ASSUME ~torn', ~reread' PROVE TrustInv'
  BY <1>e DEF TrustInv, CacheTrue
<1> DEFINE x == walk[w]
           r == [x EXCEPT !.at = "saved"]
<1>1. w \in Walking /\ x.at = "saving"
  BY DEF SaveManifest, Walking
<1>2. x \in WalkRecord
  BY <1>1, StepOf DEF TrustInv
<1>3. /\ r.at = "saved" /\ r.todo = x.todo /\ r.files = x.files /\ r.got = x.got /\ r.fresh = x.fresh
      /\ r.alone = x.alone /\ r.kind = x.kind /\ r.ctx = x.ctx /\ r.index = x.index /\ r.served = x.served
  BY <1>1, <1>2 DEF WalkRecord
<1>4. walk' = [walk EXCEPT ![w] = r] /\ walk'[w] = r
  BY <1>1 DEF SaveManifest, TrustInv, ErrorInv, Typed, WalksTyped
<1>5. /\ ~torn /\ ~reread /\ UNCHANGED <<swapped, side>>
      /\ manifest' = [ctx |-> x.ctx, list |-> x.files, entries |-> x.fresh]
      /\ \A d \in Docs : x.fresh[d] # None => frag'[d] = frag[d]
  BY DEF SaveManifest, tree, past
<1>6. Walking = {w} /\ Caches(w) /\ Answers(w) /\ Leaves(w)
  BY <1>1, <1>5, TheWalk
<1> HIDE DEF r
<1>7. \A d \in Docs : Vouched(d, walk[w].fresh[d], walk[w].files, walk[w].ctx)
  BY <1>6 DEF Caches
<1>8. Caches(w)'
  BY <1>3, <1>4, <1>5, <1>7 DEF Caches, Vouched
<1>9. ManifestTrue'
  BY <1>3, <1>4, <1>5, <1>7 DEF ManifestTrue, Vouched
<1>10. Trusts(w)'
  BY <1>3, <1>4 DEF Trusts, Pending
<1>11. Answers(w)' /\ Leaves(w)'
  BY <1>1, <1>3, <1>4, <1>5, <1>6 DEF Answers, Leaves, Writes
<1> QED
  BY <1>e, <1>4, <1>6, <1>8, <1>9, <1>10, <1>11, StepTrusts

LEMMA EndsTrust ==
  ASSUME TrustInv, NEW w \in Walkers, Ends(w)
  PROVE  TrustInv'
<1>e. ErrorInv'
  BY EndsErrors DEF TrustInv
<1> SUFFICES ASSUME ~torn', ~reread' PROVE TrustInv'
  BY <1>e DEF TrustInv, CacheTrue
<1>1. w \in Walking /\ walk[w].at = "saved" /\ walk' = [walk EXCEPT ![w] = Idle]
  BY DEF Ends, Walking
<1>2. ~torn /\ ~reread /\ UNCHANGED <<manifest, frag>>
  BY DEF Ends, cache
<1>3. Walking = {w} /\ ManifestTrue /\ Caches(w)
  BY <1>1, <1>2, TheWalk
<1>4. \/ UNCHANGED <<side, swapped>>
      \/ swapped' = (swapped \/ \E d \in Docs : walk[w].fresh[d] # None /\ side'[d] # side[d])
  BY DEF Ends
<1>5. manifest.entries = walk[w].fresh
  BY <1>1, <1>3 DEF Caches
<1>6. ASSUME ~swapped', NEW d \in Docs, manifest.entries[d] # None PROVE ~swapped /\ side'[d] = side[d]
  <2>1. CASE UNCHANGED <<side, swapped>>
    BY <1>6, <2>1
  <2>2. CASE swapped' = (swapped \/ \E o \in Docs : walk[w].fresh[o] # None /\ side'[o] # side[o])
    <3>1. ~swapped /\ ~(\E o \in Docs : walk[w].fresh[o] # None /\ side'[o] # side[o])
      BY <1>6, <2>2, Zenon
    <3> QED
      BY <1>5, <1>6, <3>1
  <2> QED
    BY <1>4, <2>1, <2>2
<1>7. Untouched
  BY <1>1, <1>3 DEF Untouched
<1>8. ManifestTrue'
  BY <1>2, <1>3, <1>6, <1>7 DEF ManifestTrue, Vouched
<1> QED
  BY <1>e, <1>1, <1>3, <1>8, StepTrusts

LEMMA DiesTrust ==
  ASSUME TrustInv, NEW w \in Walkers, Dies(w)
  PROVE  TrustInv'
<1>e. ErrorInv'
  BY DiesErrors DEF TrustInv
<1> SUFFICES ASSUME ~torn', ~reread' PROVE TrustInv'
  BY <1>e DEF TrustInv, CacheTrue
<1>1. walk' = [walk EXCEPT ![w] = Idle] /\ walk[w] # Idle
  BY DEF Dies
<1>2. w \in Walking /\ walk[w] \in WalkRecord
  BY <1>1 DEF TrustInv, ErrorInv, Typed, WalksTyped, Walking, WalkRecord
<1>3. ~torn /\ ~(walk[w].stored /\ walk[w].at \in {"extracting", "saving"})
  <2>1. torn' = (torn \/ (walk[w].stored /\ walk[w].at \in {"extracting", "saving"}))
    BY DEF Dies
  <2> QED
    BY <2>1, Zenon
<1>4. ~reread /\ UNCHANGED <<manifest, frag, side, swapped>>
  BY DEF Dies, tree, cache
<1>5. Walking = {w} /\ ManifestTrue /\ Caches(w)
  BY <1>2, <1>3, <1>4, TheWalk
<1>6. Untouched
  BY <1>2, <1>3, <1>5 DEF Caches, Untouched, WalkRecord
<1>7. ManifestTrue'
  BY <1>4, <1>5, <1>6 DEF ManifestTrue, Vouched
<1> QED
  BY <1>e, <1>1, <1>5, <1>7, StepTrusts

LEMMA NextTrust == TrustInv /\ [Next]_vars => TrustInv'
<1> SUFFICES ASSUME TrustInv, [Next]_vars PROVE TrustInv'
  OBVIOUS
<1>1. CASE User
  BY <1>1, UserTrust
<1>2. CASE \E w \in Walkers : Walk(w)
  <2> PICK w \in Walkers : Walk(w)
    BY <1>2
  <2> QED
    BY BeginTrust, ReadTrust, ServeTrust, UnreadableTrust, ExtractTrust, SaveListTrust,
       SaveManifestTrust, EndsTrust, DiesTrust DEF Walk
<1>3. CASE UNCHANGED vars
  <2>1. ErrorInv'
    BY <1>3, NextErrors DEF TrustInv
  <2>2. UNCHANGED <<walk, frag, side, manifest, torn, reread, swapped>>
    BY <1>3 DEF vars, tree, cache, past
  <2>3. CacheTrue'
    BY <2>2 DEF TrustInv, CacheTrue, OneWalk, ManifestTrue, Untouched, Walking, Trusts, Caches, Answers, Leaves,
       Vouched, Pending, Writes
  <2> QED
    BY <2>1, <2>3 DEF TrustInv
<1> QED
  BY <1>1, <1>2, <1>3 DEF Next

LEMMA AlwaysTrust == Spec => []TrustInv
BY InitTrust, NextTrust, PTL DEF Spec

(* Whatever edits, commits, switches and new contexts come between the walks: *)
(* a query that took a fragment from the cache was given what extracting the  *)
(* document it read would have given. (walkcache.rs:60, nquad.rs:873-880)     *)
THEOREM ServedIsRight == Spec => []ServedRight
BY TrustIsRight, AlwaysTrust, PTL

(* A save or sync that nothing disturbed leaves beside every document the     *)
(* sidecars its bytes have when nothing is cached. (nquad.rs:1232-1239)       *)
THEOREM SidecarsAreRight == Spec => []SidecarsRight
BY TrustIsRight, AlwaysTrust, PTL
=============================================================================
