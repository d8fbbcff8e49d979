----------------------------- MODULE SyncEngine -----------------------------
(***************************************************************************)
(* One run of the sync engine after another (sync.rs: cmd_sync_into, with  *)
(* the walk of spo_events.rs), over a repository whose default branch      *)
(* grows and is reset, and killed or failing at any step.                  *)
(*                                                                         *)
(* The store keeps no note of how far a sync got.  Its commits graph is    *)
(* the marker: what the next run does is read off it and off the commits   *)
(* the history's events name.                                              *)
(*                                                                         *)
(* A tree is what its sidecars say.  A sidecar that is there states that   *)
(* its document is a File, and, unless it is `plain`, anchors the Thing    *)
(* its document is about (git-lex:fileId) and says the rest about it;      *)
(* several documents may be about one Thing.  A plain sidecar says the     *)
(* rest about the File.                                                    *)
(***************************************************************************)
EXTENDS Naturals, Sequences, FiniteSets

CONSTANTS
    Sidecars,    \* the sidecars a tree may hold
    Plain,       \* those that anchor no Thing
    DocOf,       \* the document each belongs to
    Props,       \* what a sidecar may say
    Thing,       \* the Thing documents are about
    OnCopy,      \* whether runs write a copy (gitlexd) or the store itself
    MaxCommits,  \* bound: how many commits are made
    MaxResets,   \* bound: how often the branch is reset
    MaxStops     \* bound: how often a run is killed or fails

Docs == {DocOf[s] : s \in Sidecars}

ASSUME SidecarsAssumption ==
    /\ Plain \subseteq Sidecars
    /\ DocOf \in [Sidecars -> Docs]
    /\ Thing \notin Docs
    /\ OnCopy \in BOOLEAN
ASSUME SyncEngineBounds ==
    /\ MaxCommits \in Nat \ {0}
    /\ MaxResets \in Nat
    /\ MaxStops \in Nat

VARIABLES
    \* The repository.
    trees,   \* the trees of the commits made so far, by commit
    line,    \* the default branch, oldest commit first
    resets,  \* how often it was reset (bound)
    \* The store.
    events,  \* the one graph: its events
    base,    \* the one graph: its plain facts
    marker,  \* the commits that have an ordinal in the commits graph
    now,     \* the now view
    nowHeld, \* the now view's graph is registered
    saved,   \* the store a run's copy was taken of
    \* The run.
    pc,      \* where it stands
    at,      \* the branch as of the HEAD it resolved
    mode,    \* "append" or "rebuild"
    walked,  \* how many commits of `at` are walked, or need no walk
    pending, \* base_final and nq_buffer: what the next write will do
    changed, \* the statements an append changed
    result,  \* how the last run ended
    stops,   \* how many runs were stopped (bound)
    \* History.
    unproved \* since the last rebuild a run that writes the store itself ended
             \* between its marker and a check that passes

repo  == <<trees, line, resets>>
store == <<events, base, marker, now, nowHeld>>
run   == <<pc, at, mode, walked, pending, changed, result>>
vars  == <<repo, store, saved, run, stops, unproved>>

-----------------------------------------------------------------------------
(* Commits, trees and facts.                                               *)

\* A commit is its place in the order commits were made; 0 is the empty tree.
Commits == 1..MaxCommits
EmptyTree == [s \in Sidecars |-> {}]
TreeOf(c) == IF c = 0 THEN EmptyTree ELSE trees[c]
ParentIn(l, i) == IF i = 1 THEN 0 ELSE l[i - 1]
OnLine(l) == {l[i] : i \in DOMAIN l}

FileFact(d) == <<d, "File">>
AnchorFact(d) == <<Thing, d>>
Subject(s) == IF s \in Plain THEN DocOf[s] ELSE Thing

\* resolve_sidecar_lines: no lines, no facts.
FactsOf(s, said) ==
    IF said = {} THEN {}
    ELSE {<<Subject(s), p>> : p \in said} \cup {FileFact(DocOf[s])}
            \cup (IF s \in Plain THEN {} ELSE {AnchorFact(DocOf[s])})

FactsIn(tree, some) == UNION {FactsOf(s, tree[s]) : s \in some}
TreeFacts(c) == FactsIn(TreeOf(c), Sidecars)

Facts == FactsIn([s \in Sidecars |-> Props], Sidecars)
Event(op, f, c) == [op |-> op, fact |-> f, commit |-> c]

\* collect_commits_from_shas: each commit against its first parent.
Touched(p, c) == {s \in Sidecars : TreeOf(p)[s] # TreeOf(c)[s]}
OldSide(p, c) == FactsIn(TreeOf(p), Touched(p, c))
NewSide(p, c) == FactsIn(TreeOf(c), Touched(p, c))

-----------------------------------------------------------------------------
(* What a sync of the branch from its first commit means.                  *)

\* An event for every fact that enters or leaves what the touched sidecars
\* say, but no retract of a fact the tree still states.
EventsAt(l, i) ==
    LET p == ParentIn(l, i) IN
        {Event("+", f, l[i]) : f \in NewSide(p, l[i]) \ OldSide(p, l[i])}
        \cup {Event("-", f, l[i]) : f \in OldSide(p, l[i]) \ TreeFacts(l[i])}

History(l) == UNION {EventsAt(l, i) : i \in DOMAIN l}

-----------------------------------------------------------------------------
Copied == [events |-> events, base |-> base, marker |-> marker,
           now |-> now, nowHeld |-> nowHeld]

NoPending == [add |-> {}, del |-> {}, evs |-> {}]

\* A repository with one commit.  Its store was never synced, or was synced by
\* a git-lex that kept no now view.
Init ==
    /\ trees \in {<<t>> : t \in [Sidecars -> SUBSET Props]}
    /\ line = <<1>>
    /\ resets = 0
    /\ marker \in {{}, {1}}
    /\ events = (IF marker = {} THEN {} ELSE History(line))
    /\ base = (IF marker = {} THEN {} ELSE TreeFacts(1))
    /\ now = {}
    /\ nowHeld = FALSE
    /\ saved = Copied
    /\ pc = "idle"
    /\ at = <<>>
    /\ mode = "none"
    /\ walked = 0
    /\ pending = NoPending
    /\ changed = {}
    /\ result = "none"
    /\ stops = 0
    /\ unproved = FALSE

\* Someone commits, or resets the branch to an older commit.
Commit ==
    /\ Len(trees) < MaxCommits
    /\ \E t \in [Sidecars -> SUBSET Props] : trees' = Append(trees, t)
    /\ line' = Append(line, Len(trees'))
    /\ UNCHANGED <<resets, store, saved, run, stops, unproved>>

Reset ==
    /\ resets < MaxResets
    /\ resets' = resets + 1
    /\ \E n \in 1..(Len(line) - 1) : line' = SubSeq(line, 1, n)
    /\ UNCHANGED <<trees, store, saved, run, stops, unproved>>

-----------------------------------------------------------------------------
(* What a run decides before it writes anything.                           *)

\* Fault: a rewritten branch is not noticed.
NeverRewound == FALSE

\* rewound_event_commits: the history names a commit the branch has lost.
Rewound == \E e \in events : e.commit \notin OnLine(line)

\* The subject model is the current one only if some File is typed.
FileTyped == \E d \in Docs : FileFact(d) \in base

\* resume_point: the newest marked commit on the line, as its position there.
Marked == {i \in DOMAIN line : line[i] \in marker}
ResumePoint == CHOOSE i \in Marked : \A j \in Marked : j <= i
Resumable == ~Rewound /\ FileTyped /\ Marked # {}

FastPathHit == line[Len(line)] \in marker /\ FileTyped /\ ~Rewound

Begins ==
    /\ pc = "idle"
    /\ at' = line
    /\ saved' = Copied
    /\ UNCHANGED <<repo, store, pending, changed, stops, unproved>>

\* fast_path_hit, with no uncommitted change under .lex/extract/.
AlreadySynced ==
    /\ Begins
    /\ FastPathHit
    /\ result' = "already"
    /\ UNCHANGED <<pc, mode, walked>>

\* Uncommitted changes there keep a run from the fast path.
BeginSync ==
    /\ Begins
    /\ mode' = IF Resumable THEN "append" ELSE "rebuild"
    /\ walked' = IF Resumable THEN ResumePoint ELSE 0
    /\ result' = "none"
    /\ pc' = "clear"

\* Fault: a rebuild keeps the git graphs too.
KeepAlways == TRUE

\* clear_derived_graphs keeps the git graphs for an append to update.
KeepGitGraphs == mode = "append"

ClearDerived ==
    /\ pc = "clear"
    /\ marker' = IF KeepGitGraphs THEN marker ELSE {}
    /\ unproved' = (unproved /\ KeepGitGraphs)
    /\ pc' = IF mode = "append" THEN "walk" ELSE "empty"
    /\ UNCHANGED <<repo, events, base, now, nowHeld, saved, at, mode, walked,
                   pending, changed, result, stops>>

\* clear_graph_in_batches, before a rebuild's first commit.
EmptyHistory ==
    /\ pc = "empty"
    /\ events' = {}
    /\ base' = {}
    /\ pc' = "walk"
    /\ UNCHANGED <<repo, marker, now, nowHeld, saved, at, mode, walked,
                   pending, changed, result, stops, unproved>>

-----------------------------------------------------------------------------
(* The walk.                                                               *)

\* The documents whose sidecars may still assert a fact: its subject, when
\* that is a File, and those the subject is anchored in, by the base layer and
\* what the walk has yet to write.
Anchors == (base \cup pending.add) \ pending.del

\* Fault: a File is not looked for in its own document.
AnchoredDocs(f) == {d \in Docs : <<f[1], d>> \in Anchors}

GuardDocs(f) == {d \in Docs : f[1] = d \/ <<f[1], d>> \in Anchors}

\* retracts_still_live: an untouched sidecar of such a document asserts it.
StillLive(p, c, f) ==
    \E s \in Sidecars \ Touched(p, c) :
        DocOf[s] \in GuardDocs(f) /\ f \in FactsOf(s, TreeOf(c)[s])

Retracts(p, c) == {f \in OldSide(p, c) \ NewSide(p, c) : ~StillLive(p, c, f)}
Asserts(p, c) == NewSide(p, c) \ OldSide(p, c)

\* Fault: of several commits' operations on one fact the first decides.
FirstOpWins(minus, plus) ==
    [add |-> pending.add \cup (plus \ pending.del),
     del |-> pending.del \cup (minus \ pending.add)]

\* base_final: the last operation on a fact decides what the write does.
LastOpWins(minus, plus) ==
    [add |-> (pending.add \ minus) \cup plus,
     del |-> (pending.del \ plus) \cup minus]

\* One commit's events.
WalkCommit ==
    /\ pc = "walk"
    /\ walked < Len(at)
    /\ LET c == at[walked + 1]
           p == ParentIn(at, walked + 1)
           minus == Retracts(p, c)
           plus == Asserts(p, c)
           net == LastOpWins(minus, plus)
       IN pending' = [add |-> net.add,
                      del |-> net.del,
                      evs |-> pending.evs \cup {Event("-", f, c) : f \in minus}
                                          \cup {Event("+", f, c) : f \in plus}]
    /\ walked' = walked + 1
    /\ UNCHANGED <<repo, store, saved, pc, at, mode, changed, result, stops, unproved>>

\* A rebuild writes whenever enough is pending, between two commits or at the
\* end of the walk.
WriteBatch ==
    /\ pc = "walk"
    /\ mode = "rebuild"
    /\ pending # NoPending \/ walked = Len(at)
    /\ base' = (base \ pending.del) \cup pending.add
    /\ events' = events \cup pending.evs
    /\ pending' = NoPending
    /\ pc' = IF walked = Len(at) THEN "now" ELSE "walk"
    /\ UNCHANGED <<repo, marker, now, nowHeld, saved, at, mode, walked,
                   changed, result, stops, unproved>>

\* An append writes once, at the end; write_walk_batch removes first, one fact
\* per transaction, then loads events and new facts in one.
BeginWrite ==
    /\ pc = "walk"
    /\ mode = "append"
    /\ walked = Len(at)
    /\ changed' = pending.add \cup pending.del
    /\ pc' = "write"
    /\ UNCHANGED <<repo, store, saved, at, mode, walked, pending, result, stops, unproved>>

RemoveFact ==
    /\ pc = "write"
    /\ \E f \in pending.del :
        /\ base' = base \ {f}
        /\ pending' = [pending EXCEPT !.del = @ \ {f}]
    /\ UNCHANGED <<repo, events, marker, now, nowHeld, saved, pc, at, mode,
                   walked, changed, result, stops, unproved>>

LoadEvents ==
    /\ pc = "write"
    /\ pending.del = {}
    /\ base' = base \cup pending.add
    /\ events' = events \cup pending.evs
    /\ pending' = NoPending
    /\ pc' = "stale"
    /\ UNCHANGED <<repo, marker, now, nowHeld, saved, at, mode, walked,
                   changed, result, stops, unproved>>

-----------------------------------------------------------------------------
(* The now view, the git layer, the check.                                 *)

\* now_view_in_batches, in a rebuild.
CopyNowView ==
    /\ pc = "now"
    /\ now' = base
    /\ nowHeld' = (base # {})
    /\ pc' = "git"
    /\ UNCHANGED <<repo, events, base, marker, saved, at, mode, walked,
                   pending, changed, result, stops, unproved>>

\* load_git2_diffed removes what the line no longer has, then loads the rest.
RemoveStale ==
    /\ pc = "stale"
    /\ marker' = marker \cap OnLine(at)
    /\ pc' = "git"
    /\ UNCHANGED <<repo, events, base, now, nowHeld, saved, at, mode, walked,
                   pending, changed, result, stops, unproved>>

\* The ordinals are a rebuild's last write (MarkerLastLoader::finish).
LoadMarker ==
    /\ pc = "git"
    /\ marker' = marker \cup OnLine(at)
    /\ pc' = "verify"
    /\ UNCHANGED <<repo, events, base, now, nowHeld, saved, at, mode, walked,
                   pending, changed, result, stops, unproved>>

\* Of the events of a fact, those at a commit with an ordinal count.
OrdinalsOf(op, f) ==
    {i \in DOMAIN at : at[i] \in marker /\ Event(op, f, at[i]) \in events}

\* Fault: what was ever asserted counts.
EverAsserted(f) == OrdinalsOf("+", f) # {}

LiveByHistory(f) ==
    \E i \in OrdinalsOf("+", f) : \A j \in OrdinalsOf("-", f) : j < i

Dangling(some) == \E e \in events : e.fact \in some /\ e.commit \notin marker

\* statement_checks for what an append changed.
StatementsHold ==
    /\ ~Dangling(changed)
    /\ \A f \in changed : LiveByHistory(f) <=> f \in base

\* history_counts against the number of base facts, for a rebuild.
CountsHold ==
    /\ ~Dangling(Facts)
    /\ Cardinality({f \in Facts : LiveByHistory(f)}) = Cardinality(base)

Verified == IF mode = "append" THEN StatementsHold ELSE CountsHold

Ends(how) ==
    /\ pc' = "idle"
    /\ result' = how
    /\ pending' = NoPending
    /\ changed' = {}
    /\ walked' = 0
    /\ UNCHANGED <<repo, at, mode>>

\* A run that fails leaves what it wrote, unless it wrote a copy.
Fails ==
    /\ IF OnCopy
          THEN /\ events' = saved.events /\ base' = saved.base
               /\ marker' = saved.marker
               /\ now' = saved.now /\ nowHeld' = saved.nowHeld
               /\ UNCHANGED unproved
          ELSE /\ UNCHANGED store
               /\ unproved' = (unproved \/ pc = "verify")
    /\ UNCHANGED saved

VerifyOnegraph ==
    /\ pc = "verify"
    /\ UNCHANGED stops
    /\ IF ~Verified THEN Ends("damaged") /\ Fails
       ELSE /\ UNCHANGED <<store, saved, unproved>>
            /\ IF mode = "rebuild" THEN Ends("synced")
               ELSE /\ pc' = "refresh"
                    /\ UNCHANGED <<repo, at, mode, walked, pending, changed,
                                   result>>

About(x, facts) == {f \in facts : f[1] = x}

\* refresh_now_view, one changed subject at a time.
RefreshSubject ==
    /\ pc = "refresh"
    /\ nowHeld
    /\ \E f \in changed :
        /\ now' = (now \ About(f[1], now)) \cup About(f[1], base)
        /\ changed' = changed \ About(f[1], changed)
    /\ UNCHANGED <<repo, events, base, marker, nowHeld, saved, pc, at, mode,
                   walked, pending, result, stops, unproved>>

RefreshEnds ==
    /\ pc = "refresh"
    /\ nowHeld
    /\ changed = {}
    /\ Ends("synced")
    /\ UNCHANGED <<store, saved, stops, unproved>>

\* A store that has no now view yet gets all of it, in one update.
MaterializeNowView ==
    /\ pc = "refresh"
    /\ ~nowHeld
    /\ now' = base
    /\ nowHeld' = (base # {})
    /\ Ends("synced")
    /\ UNCHANGED <<events, base, marker, saved, stops, unproved>>

\* The run is killed, or git or the store fails it.  A copy is thrown away.
Stop ==
    /\ pc # "idle"
    /\ stops < MaxStops
    /\ stops' = stops + 1
    /\ Ends("stopped")
    /\ Fails

-----------------------------------------------------------------------------
SyncStep ==
    \/ AlreadySynced \/ BeginSync \/ ClearDerived \/ EmptyHistory
    \/ WalkCommit \/ WriteBatch \/ BeginWrite \/ RemoveFact \/ LoadEvents
    \/ CopyNowView \/ RemoveStale \/ LoadMarker \/ VerifyOnegraph
    \/ RefreshSubject \/ RefreshEnds \/ MaterializeNowView

Next == Commit \/ Reset \/ SyncStep \/ Stop

Spec == Init /\ [][Next]_vars

-----------------------------------------------------------------------------
Newest(l) == l[Len(l)]
Done == pc = "idle" /\ result \in {"synced", "already"}

-----------------------------------------------------------------------------
TypeOK ==
    /\ trees \in Seq([Sidecars -> SUBSET Props])
    /\ line \in Seq(Commits) /\ line # <<>>
    /\ OnLine(line) \subseteq DOMAIN trees
    /\ events \subseteq {Event(op, f, c) : op \in {"+", "-"}, f \in Facts,
                                           c \in DOMAIN trees}
    /\ base \subseteq Facts /\ now \subseteq Facts
    /\ marker \subseteq DOMAIN trees
    /\ now # {} => nowHeld
    /\ pc \in {"idle", "clear", "empty", "walk", "write", "stale", "now",
               "git", "verify", "refresh"}
    /\ walked \in 0..Len(at)
    /\ pending.add \cap pending.del = {}
    /\ pc \in {"idle", "clear", "empty"} => pending = NoPending

\* What a sync that succeeded leaves, appending or rebuilding, is what a sync
\* of the branch from its first commit would: the facts of its newest tree, the
\* same in the now view, the whole history and nothing of a branch that was
\* reset away.
SyncedIsFresh ==
    pc = "idle" /\ result = "synced" =>
        /\ base = TreeFacts(Newest(at))
        /\ now = base
        /\ events = History(at)
        /\ marker = OnLine(at)

\* The same of a run that found nothing to do (fast_path_hit: "every phase of
\* sync would rebuild identical state"), except that the marker may also name a
\* commit that changed no fact and was reset away.
AlreadyIsTrue ==
    pc = "idle" /\ result = "already" =>
        /\ base = TreeFacts(Newest(at))
        /\ nowHeld => now = base
        /\ events = History(at)
        /\ OnLine(at) \subseteq marker

\* The check at the end of a sync never fails one whose copy nothing disturbed:
\* on every line of commits the walk's events and its base layer agree.
NeverDamaged == result # "damaged"

\* Wherever a run was stopped, a commit the branch still has and that has an
\* ordinal has its events: the events it adds and, of what it retracts, no
\* facts its tree still states.
MarkerIsEarned ==
    \A i \in DOMAIN line :
        line[i] \in marker => EventsAt(line, i) \subseteq events

\* However the runs before it were stopped, a rebuild ends fresh.
RebuildIsFresh == mode = "rebuild" => SyncedIsFresh

\* However the runs before it were stopped, no sync that succeeds, or finds
\* nothing to do, leaves an event of a commit the branch it saw does not have.
HistoryOnBranch == Done => \A e \in events : e.commit \in OnLine(at)

\* However the runs before it were stopped, a sync that succeeds on a branch
\* that only grew leaves as current exactly what the history says is: what a
\* stopped run removed, or recorded, the next one's walk touches and its check
\* looks at.  Only once a run ended behind its marker without a check that
\* passed, nothing but a rebuild looks again (`unproved`).
SyncedIsCoherent ==
    pc = "idle" /\ result = "synced" /\ resets = 0 /\ ~unproved =>
        base = {f \in Facts : LiveByHistory(f)}

\* Said of the code, not so of the code: "Every sync proves the store coherent
\* or aborts" (sync.rs:210).
ProvesOrAborts ==
    pc = "idle" /\ result = "synced" /\ resets = 0 =>
        base = {f \in Facts : LiveByHistory(f)}
=============================================================================
