-------------------------- MODULE SyncEngineProofs --------------------------
(***************************************************************************)
(* What SyncEngine promises for every set of sidecars and however often    *)
(* the branch moves and runs are killed: a marked commit has its events,   *)
(* no sync that succeeds leaves an event of another branch, and a rebuild  *)
(* ends where a sync of the branch from its first commit would.  Where     *)
(* runs write copies, every run does, and its own check never fails it;    *)
(* where they write the store itself, what a killed run leaves of facts    *)
(* and events that disagree, the next one's walk touches again.            *)
(***************************************************************************)
EXTENDS SyncEngine, TLAPS, SequenceTheorems, WellFoundedInduction

\* Events of a commit against its parent, whatever line they are on.
EventsOf(p, c) ==
    {Event("+", f, c) : f \in NewSide(p, c) \ OldSide(p, c)}
    \cup {Event("-", f, c) : f \in OldSide(p, c) \ TreeFacts(c)}

\* Two lines that share a commit share everything before it.
Alike(l, m) ==
    \A i \in 1..Len(l), k \in 1..Len(m) :
        l[i] = m[k] => i = k /\ \A j \in 1..i : l[j] = m[j]

\* Of a line, the marked commits are a beginning, and all have their events.
Kept(l, marks, evs) ==
    \A i \in 1..Len(l) :
        l[i] \in marks => /\ EventsOf(ParentIn(l, i), l[i]) \subseteq evs
                          /\ \A j \in 1..i : l[j] \in marks

Made == 1..Len(trees)

LinesInv ==
    /\ trees \in Seq([Sidecars -> SUBSET Props])
    /\ line \in Seq(Made) /\ Len(line) >= 1
    /\ at \in Seq(Made)
    /\ marker \subseteq Made /\ saved.marker \subseteq Made
    /\ Alike(line, line) /\ Alike(line, at) /\ Alike(at, at)

KeptInv ==
    /\ Kept(line, marker, events) /\ Kept(at, marker, events)
    /\ Kept(line, saved.marker, saved.events) /\ Kept(at, saved.marker, saved.events)

\* What a run has walked is in the store or about to be written.
WalkInv ==
    /\ pc \in {"idle", "clear", "empty", "walk", "write", "stale", "now", "git", "verify", "refresh"}
    /\ pc # "idle" => mode \in {"append", "rebuild"}
    /\ pc # "idle" => at # <<>>
    /\ walked \in 0..Len(at)
    /\ pc = "idle" => walked = 0
    /\ pending = [add |-> pending.add, del |-> pending.del, evs |-> pending.evs]
    /\ pc = "empty" => mode = "rebuild" /\ marker = {}
    /\ pc \in {"clear", "empty"} => IF mode = "append" THEN walked > 0 /\ at[walked] \in marker ELSE walked = 0
    /\ pc \in {"walk", "write"} =>
         \A i \in 1..walked : EventsOf(ParentIn(at, i), at[i]) \subseteq events \cup pending.evs
    /\ pc = "write" => walked = Len(at)
    /\ pc \in {"stale", "now", "git", "verify", "refresh"} =>
         \A i \in 1..Len(at) : EventsOf(ParentIn(at, i), at[i]) \subseteq events

EarnedInv == LinesInv /\ KeptInv /\ WalkInv

-----------------------------------------------------------------------------
LEMMA MaxExists ==
    ASSUME NEW n \in Nat, NEW S \in SUBSET (1..n), S # {}
    PROVE  \E m \in S : \A j \in S : j <= m
<1> DEFINE T == {k \in Nat : n - k \in S}
<1>1. PICK x \in S : TRUE
  OBVIOUS
<1>2. n - x \in T
  OBVIOUS
<1>3. T \subseteq Nat /\ T # {}
  BY <1>2
<1> HIDE DEF T
<1>4. PICK k \in T : \A j \in T : ~ (<<j, k>> \in OpToRel(<, Nat))
  BY <1>3, NatLessThanWellFounded, WFMin
<1>5. \A j \in T : ~ (j < k)
  BY <1>3, <1>4 DEF OpToRel
<1>6. n - k \in S
  BY DEF T
<1>7. \A j \in S : j <= n - k
  <2> SUFFICES ASSUME NEW j \in S PROVE j <= n - k
    OBVIOUS
  <2>1. n - j \in Nat /\ n - (n - j) = j
    OBVIOUS
  <2>2. n - j \in T
    BY <2>1 DEF T
  <2>3. ~ (n - j < k) /\ k \in Nat
    BY <1>3, <1>5, <2>2
  <2> QED
    BY <2>1, <2>3
<1> QED
  BY <1>6, <1>7

LEMMA ResumeMarked ==
    ASSUME line \in Seq(Made), Marked # {}
    PROVE  ResumePoint \in 1..Len(line) /\ line[ResumePoint] \in marker
<1>1. Marked \in SUBSET (1..Len(line)) /\ Len(line) \in Nat
  BY DEF Marked
<1>2. \E m \in Marked : \A j \in Marked : j <= m
  BY <1>1, MaxExists
<1>3. ResumePoint \in Marked
  BY <1>2 DEF ResumePoint
<1> QED
  BY <1>3 DEF Marked

LEMMA EventsAtIs ==
    ASSUME NEW l, NEW i
    PROVE  EventsAt(l, i) = EventsOf(ParentIn(l, i), l[i])
BY DEF EventsAt, EventsOf

\* A walk never says less of a commit than its history: the guard withholds a
\* retract only of what the tree still states.
LEMMA WalkSaysAll ==
    ASSUME NEW p, NEW c
    PROVE  EventsOf(p, c) \subseteq {Event("-", f, c) : f \in Retracts(p, c)}
                                    \cup {Event("+", f, c) : f \in Asserts(p, c)}
<1>1. NewSide(p, c) \subseteq TreeFacts(c)
  BY DEF NewSide, TreeFacts, FactsIn, Touched
<1>2. \A f : StillLive(p, c, f) => f \in TreeFacts(c)
  BY DEF StillLive, TreeFacts, FactsIn, Touched
<1>3. OldSide(p, c) \ TreeFacts(c) \subseteq Retracts(p, c)
  BY <1>1, <1>2 DEF Retracts
<1> QED
  BY <1>3 DEF EventsOf, Asserts

LEMMA Earned == EarnedInv => MarkerIsEarned
BY EventsAtIs DEF EarnedInv, LinesInv, KeptInv, Kept, MarkerIsEarned

LEMMA TreesKept ==
    ASSUME trees \in Seq([Sidecars -> SUBSET Props]), NEW t, trees' = Append(trees, t),
           t \in [Sidecars -> SUBSET Props], NEW c \in 0..Len(trees), NEW p \in 0..Len(trees)
    PROVE  EventsOf(p, c)' = EventsOf(p, c)
<1>1. \A k \in 0..Len(trees) : TreeOf(k)' = TreeOf(k)
  BY DEF TreeOf
<1>2. TreeOf(c)' = TreeOf(c) /\ TreeOf(p)' = TreeOf(p)
  BY <1>1
<1> QED
  BY <1>2 DEF EventsOf, NewSide, OldSide, TreeFacts, Touched

LEMMA ParentMade ==
    ASSUME NEW l \in Seq(Made), NEW i \in 1..Len(l)
    PROVE  ParentIn(l, i) \in 0..Len(trees) /\ l[i] \in 0..Len(trees)
BY DEF ParentIn, Made

LEMMA InitEarned == Init => EarnedInv
<1> SUFFICES ASSUME Init PROVE EarnedInv
  OBVIOUS
<1>1. PICK t \in [Sidecars -> SUBSET Props] : trees = <<t>>
  BY DEF Init
<1>2. Len(trees) = 1 /\ Made = {1} /\ Len(line) = 1 /\ line[1] = 1 /\ at = <<>>
  BY <1>1 DEF Init, Made
<1>3. marker \subseteq {1} /\ saved.marker = marker /\ saved.events = events
  BY DEF Init, Copied
<1>4. LinesInv
  <2>1. line \in Seq(Made) /\ at \in Seq(Made)
    BY <1>2 DEF Init
  <2> QED
    BY <1>1, <1>2, <1>3, <2>1 DEF LinesInv, Alike
<1>5. 1 \in marker => EventsOf(ParentIn(line, 1), line[1]) \subseteq events
  <2> SUFFICES ASSUME 1 \in marker PROVE EventsAt(line, 1) \subseteq events
    BY EventsAtIs
  <2>1. events = History(line)
    BY DEF Init
  <2> QED
    BY <1>2, <2>1 DEF History, Init
<1>6. KeptInv
  BY <1>2, <1>3, <1>5 DEF KeptInv, Kept
<1>7. WalkInv
  BY <1>2 DEF Init, WalkInv, NoPending
<1> QED
  BY <1>4, <1>6, <1>7 DEF EarnedInv

-----------------------------------------------------------------------------
(* The repository moves.                                                   *)

\* What is known of a line stays true when commits are made.
LEMMA EventsStay ==
    ASSUME LinesInv, Commit
    PROVE  /\ \A i \in 1..Len(line) : EventsOf(ParentIn(line, i), line[i])' = EventsOf(ParentIn(line, i), line[i])
           /\ \A i \in 1..Len(at) : EventsOf(ParentIn(at, i), at[i])' = EventsOf(ParentIn(at, i), at[i])
<1>1. PICK t \in [Sidecars -> SUBSET Props] : trees' = Append(trees, t)
  BY DEF Commit
<1>2. \A p \in 0..Len(trees), c \in 0..Len(trees) : EventsOf(p, c)' = EventsOf(p, c)
  BY <1>1, TreesKept DEF LinesInv
<1>3. line' = Append(line, Len(trees')) /\ at' = at
  BY DEF Commit, run
<1>4. ASSUME NEW i \in 1..Len(line)
      PROVE  EventsOf(ParentIn(line, i), line[i])' = EventsOf(ParentIn(line, i), line[i])
  <2>1. PICK p \in 0..Len(trees), c \in 0..Len(trees) : p = ParentIn(line, i) /\ c = line[i]
    BY ParentMade DEF LinesInv
  <2>2. ParentIn(line, i)' = p /\ line'[i] = c
    BY <1>3, <2>1 DEF LinesInv, ParentIn
  <2>3. EventsOf(p, c)' = EventsOf(p, c)
    BY <1>2
  <2> QED
    BY <2>1, <2>2, <2>3
<1>5. ASSUME NEW i \in 1..Len(at)
      PROVE  EventsOf(ParentIn(at, i), at[i])' = EventsOf(ParentIn(at, i), at[i])
  <2>1. PICK p \in 0..Len(trees), c \in 0..Len(trees) : p = ParentIn(at, i) /\ c = at[i]
    BY ParentMade DEF LinesInv
  <2>2. ParentIn(at, i)' = p /\ at'[i] = c
    BY <1>3, <2>1 DEF ParentIn
  <2>3. EventsOf(p, c)' = EventsOf(p, c)
    BY <1>2
  <2> QED
    BY <2>1, <2>2, <2>3
<1> QED
  BY <1>4, <1>5

\* A new commit is on no line, and a beginning is like the whole.
LEMMA AlikeAppend ==
    ASSUME NEW n \in Nat, NEW l \in Seq(1..n), NEW m \in Seq(1..n), Alike(l, l), Alike(l, m)
    PROVE  Alike(Append(l, n + 1), Append(l, n + 1)) /\ Alike(Append(l, n + 1), m)
<1> DEFINE a == Append(l, n + 1)
<1>1. /\ Len(a) = Len(l) + 1 /\ Len(l) \in Nat /\ a[Len(l) + 1] = n + 1 /\ Len(m) \in Nat
      /\ \A i \in 1..Len(l) : a[i] = l[i] /\ l[i] <= n /\ l[i] \in Nat
      /\ \A i \in 1..Len(m) : m[i] <= n /\ m[i] \in Nat
  OBVIOUS
<1> HIDE DEF a
<1>2. ASSUME NEW i \in 1..Len(a), NEW k \in 1..Len(a), a[i] = a[k]
      PROVE  i = k /\ \A j \in 1..i : a[j] = a[j]
  <2>1. CASE i \in 1..Len(l) /\ k \in 1..Len(l)
    <3>1. l[i] = l[k]
      BY <1>1, <1>2, <2>1
    <3> QED
      BY <2>1, <3>1 DEF Alike
  <2>2. CASE i = Len(l) + 1
    <3>1. a[k] = n + 1
      BY <1>1, <1>2, <2>2
    <3>2. k \notin 1..Len(l)
      <4> SUFFICES ASSUME k \in 1..Len(l) PROVE FALSE
        OBVIOUS
      <4>1. a[k] = l[k] /\ l[k] <= n /\ l[k] \in Nat
        BY <1>1
      <4> QED
        BY <3>1, <4>1
    <3> QED
      BY <1>1, <2>2, <3>2
  <2>3. CASE k = Len(l) + 1
    <3>1. a[i] = n + 1
      BY <1>1, <1>2, <2>3
    <3>2. i \notin 1..Len(l)
      <4> SUFFICES ASSUME i \in 1..Len(l) PROVE FALSE
        OBVIOUS
      <4>1. a[i] = l[i] /\ l[i] <= n /\ l[i] \in Nat
        BY <1>1
      <4> QED
        BY <3>1, <4>1
    <3> QED
      BY <1>1, <2>3, <3>2
  <2> QED
    BY <1>1, <2>1, <2>2, <2>3
<1>3. ASSUME NEW i \in 1..Len(a), NEW k \in 1..Len(m), a[i] = m[k]
      PROVE  i = k /\ \A j \in 1..i : a[j] = m[j]
  <2>1. i # Len(l) + 1
    BY <1>1, <1>3
  <2>2. i \in 1..Len(l)
    BY <1>1, <2>1
  <2>3. l[i] = m[k]
    BY <1>1, <1>3, <2>2
  <2>4. i = k /\ \A j \in 1..i : l[j] = m[j]
    BY <2>2, <2>3 DEF Alike
  <2>5. \A j \in 1..i : j \in 1..Len(l)
    BY <1>1, <2>2
  <2> QED
    BY <1>1, <2>4, <2>5
<1>4. Alike(a, a) /\ Alike(a, m)
  BY <1>2, <1>3 DEF Alike
<1> QED
  BY <1>4 DEF a

LEMMA AlikeBeginning ==
    ASSUME NEW l, NEW m, NEW b, NEW n \in Nat, Len(l) \in Nat, Len(b) = n, n <= Len(l),
           \A i \in 1..n : b[i] = l[i], Alike(l, l), Alike(l, m)
    PROVE  Alike(b, b) /\ Alike(b, m)
<1>1. \A i \in 1..n : i \in 1..Len(l) /\ \A j \in 1..i : j \in 1..n
  OBVIOUS
<1> QED
  BY <1>1 DEF Alike

LEMMA SameTrees ==
    ASSUME UNCHANGED trees, NEW p, NEW c
    PROVE  EventsOf(p, c)' = EventsOf(p, c)
BY DEF EventsOf, NewSide, OldSide, Touched, TreeFacts, TreeOf

LEMMA CommitEarned ==
    ASSUME EarnedInv, Commit
    PROVE  EarnedInv'
<1> DEFINE n == Len(trees) + 1
<1>1. PICK t \in [Sidecars -> SUBSET Props] : trees' = Append(trees, t)
  BY DEF Commit
<1>2. /\ trees' \in Seq([Sidecars -> SUBSET Props]) /\ Len(trees') = n /\ Len(trees) \in Nat
      /\ Made' = 1..n /\ Made = 1..Len(trees)
  BY <1>1 DEF EarnedInv, LinesInv, Made
<1>3. UNCHANGED <<events, marker, saved, pc, at, mode, walked, pending>>
  BY DEF Commit, store, run
<1>4. line' = Append(line, n)
  BY <1>2 DEF Commit
<1>5. line \in Seq(1..Len(trees)) /\ at \in Seq(1..Len(trees)) /\ Len(line) >= 1
  BY <1>2 DEF EarnedInv, LinesInv
<1>6. /\ Len(line') = Len(line) + 1 /\ Len(line) \in Nat /\ line'[Len(line) + 1] = n
      /\ \A i \in 1..Len(line) : line'[i] = line[i] /\ line[i] \in 1..Len(trees)
      /\ \A i \in 1..Len(at) : at[i] \in 1..Len(trees)
      /\ Len(at) \in Nat
  BY <1>4, <1>5
<1>7. LinesInv'
  <2>1. line' \in Seq(1..n) /\ at' \in Seq(1..n)
    BY <1>2, <1>3, <1>4, <1>5
  <2>2. Alike(line, line) /\ Alike(line, at) /\ Alike(at, at)
    BY DEF EarnedInv, LinesInv
  <2>3. Alike(line', line') /\ Alike(line', at)
    <3>1. Alike(Append(line, Len(trees) + 1), Append(line, Len(trees) + 1)) /\ Alike(Append(line, Len(trees) + 1), at)
      BY <1>2, <1>5, <2>2, AlikeAppend
    <3> QED
      BY <1>4, <3>1
  <2>4. Alike(line, line)' /\ Alike(line, at)' /\ Alike(at, at)'
    BY <1>3, <2>2, <2>3 DEF Alike
  <2> QED
    BY <1>2, <1>3, <1>6, <2>1, <2>4 DEF LinesInv, EarnedInv
<1>8. KeptInv'
  <2>1. Kept(at, marker, events)' /\ Kept(at, saved.marker, saved.events)'
    BY <1>3, EventsStay DEF EarnedInv, KeptInv, Kept
  <2>2. n \notin marker /\ n \notin saved.marker
    BY <1>2 DEF EarnedInv, LinesInv
  <2>3. Kept(line, marker, events)' /\ Kept(line, saved.marker, saved.events)'
    <3>1. \A i \in 1..Len(line') : i \in 1..Len(line) \/ i = Len(line) + 1
      BY <1>6
    <3>2. \A i \in 1..Len(line) : \A j \in 1..i : line'[j] = line[j]
      BY <1>6
    <3>3. \A i \in 1..Len(line') : line'[i] \in marker \/ line'[i] \in saved.marker => i \in 1..Len(line)
      BY <1>6, <2>2, <3>1
    <3>4. ASSUME NEW marks, NEW evs, Kept(line, marks, evs), marks \in {marker, saved.marker}
          PROVE  \A i \in 1..Len(line') : line'[i] \in marks =>
                    /\ EventsOf(ParentIn(line, i), line[i])' \subseteq evs
                    /\ \A j \in 1..i : line'[j] \in marks
      BY <1>6, <3>2, <3>3, <3>4, EventsStay DEF EarnedInv, Kept
    <3> QED
      BY <1>3, <3>4 DEF EarnedInv, KeptInv, Kept
  <2> QED
    BY <2>1, <2>3 DEF KeptInv
<1>9. WalkInv'
  <2>1. \A i \in 1..walked : i \in 1..Len(at)
    BY <1>6 DEF EarnedInv, WalkInv
  <2> QED
    BY <1>3, <2>1, EventsStay DEF EarnedInv, WalkInv
<1> QED
  BY <1>7, <1>8, <1>9 DEF EarnedInv

LEMMA ResetEarned ==
    ASSUME EarnedInv, Reset
    PROVE  EarnedInv'
<1>1. PICK n \in 1..(Len(line) - 1) : line' = SubSeq(line, 1, n)
  BY DEF Reset
<1>2. UNCHANGED <<trees, events, marker, saved, pc, at, mode, walked, pending>>
  BY DEF Reset, store, run
<1>3. /\ line' \in Seq(Made) /\ Len(line') = n /\ n >= 1 /\ n <= Len(line)
      /\ \A i \in 1..n : line'[i] = line[i]
  BY <1>1 DEF EarnedInv, LinesInv
<1>4. \A i \in 1..n : ParentIn(line, i)' = ParentIn(line, i)
  BY <1>3 DEF ParentIn
<1>5. Made' = Made
  BY <1>2 DEF Made
<1>6. LinesInv'
  <2>0. Alike(line, line) /\ Alike(line, at) /\ Alike(at, at) /\ Len(line) \in Nat /\ n \in Nat
    BY <1>3 DEF EarnedInv, LinesInv
  <2>1. Alike(line', line')
    BY <1>3, <2>0, AlikeBeginning, Zenon
  <2>2. Alike(line', at)
    BY <1>3, <2>0, AlikeBeginning, Zenon
  <2>3. Alike(line, line)' /\ Alike(line, at)' /\ Alike(at, at)'
    BY <1>2, <2>0, <2>1, <2>2 DEF Alike
  <2> QED
    BY <1>2, <1>3, <1>5, <2>3 DEF EarnedInv, LinesInv
<1>7. \A i \in 1..n : EventsOf(ParentIn(line, i), line[i])' = EventsOf(ParentIn(line, i), line[i])
  <2> SUFFICES ASSUME NEW i \in 1..n
               PROVE  EventsOf(ParentIn(line, i), line[i])' = EventsOf(ParentIn(line, i), line[i])
    OBVIOUS
  <2>1. PICK p, c : p = ParentIn(line, i) /\ c = line[i]
    OBVIOUS
  <2>2. ParentIn(line, i)' = p /\ line'[i] = c
    BY <1>3, <1>4, <2>1
  <2>3. EventsOf(p, c)' = EventsOf(p, c)
    BY <1>2, SameTrees
  <2> QED
    BY <2>1, <2>2, <2>3
<1>8. \A i : EventsOf(ParentIn(at, i), at[i])' = EventsOf(ParentIn(at, i), at[i])
  BY <1>2 DEF EventsOf, NewSide, OldSide, Touched, TreeFacts, TreeOf, ParentIn
<1>9. KeptInv'
  <2>1. \A i \in 1..n : i \in 1..Len(line) /\ \A j \in 1..i : j \in 1..n
    BY <1>3 DEF EarnedInv, LinesInv
  <2>2. Kept(line, marker, events)' /\ Kept(line, saved.marker, saved.events)'
    BY <1>2, <1>3, <1>7, <2>1 DEF EarnedInv, KeptInv, Kept
  <2>3. Kept(at, marker, events)' /\ Kept(at, saved.marker, saved.events)'
    BY <1>2, <1>8 DEF EarnedInv, KeptInv, Kept
  <2> QED
    BY <2>2, <2>3 DEF KeptInv
<1>10. WalkInv'
  <2>1. \A i \in 1..walked : EventsOf(ParentIn(at, i), at[i])' = EventsOf(ParentIn(at, i), at[i])
    BY <1>8 DEF EarnedInv, WalkInv
  <2> QED
    BY <1>2, <1>8, <2>1 DEF EarnedInv, WalkInv
<1> QED
  BY <1>6, <1>9, <1>10 DEF EarnedInv

-----------------------------------------------------------------------------
(* A run.                                                                  *)

\* No step of a run moves the lines.
LEMMA SameLines ==
    ASSUME UNCHANGED <<trees, line, at>>
    PROVE  /\ \A i : EventsOf(ParentIn(line, i), line[i])' = EventsOf(ParentIn(line, i), line[i])
           /\ \A i : EventsOf(ParentIn(at, i), at[i])' = EventsOf(ParentIn(at, i), at[i])
BY DEF EventsOf, NewSide, OldSide, Touched, TreeFacts, TreeOf, ParentIn

LEMMA LinesKept ==
    ASSUME LinesInv, UNCHANGED <<trees, line, at>>, marker' \subseteq Made, saved'.marker \subseteq Made
    PROVE  LinesInv'
<1>1. Made' = Made
  BY DEF Made
<1>2. Alike(line, line) /\ Alike(line, at) /\ Alike(at, at)
  BY DEF LinesInv
<1>3. Alike(line, line)' /\ Alike(line, at)' /\ Alike(at, at)'
  BY <1>2 DEF Alike
<1>4. /\ trees' \in Seq([Sidecars -> SUBSET Props])
      /\ line' \in Seq(Made) /\ Len(line') >= 1 /\ at' \in Seq(Made)
  BY DEF LinesInv
<1> QED
  BY <1>1, <1>3, <1>4 DEF LinesInv

\* More events, or the same, for the same ordinals.
LEMMA KeptGrows ==
    ASSUME KeptInv, UNCHANGED <<trees, line, at, saved, marker>>, events \subseteq events'
    PROVE  KeptInv'
<1>1. Kept(line, marker, events)' /\ Kept(at, marker, events)'
  BY SameLines DEF KeptInv, Kept
<1>2. Kept(line, saved.marker, saved.events)' /\ Kept(at, saved.marker, saved.events)'
  BY SameLines DEF KeptInv, Kept
<1> QED
  BY <1>1, <1>2 DEF KeptInv

LEMMA BeginEarned ==
    ASSUME EarnedInv, AlreadySynced \/ BeginSync
    PROVE  EarnedInv'
<1>1. pc = "idle" /\ at' = line /\ UNCHANGED <<trees, line, events, marker, pending>>
  BY DEF AlreadySynced, BeginSync, Begins, repo, store
<1>2. saved'.marker = marker /\ saved'.events = events
  BY DEF AlreadySynced, BeginSync, Begins, Copied
<1>3. LinesInv'
  <2>1. Made' = Made
    BY <1>1 DEF Made
  <2>2. Alike(line, line)' /\ Alike(line, at)' /\ Alike(at, at)'
    BY <1>1 DEF EarnedInv, LinesInv, Alike
  <2> QED
    BY <1>1, <1>2, <2>1, <2>2 DEF EarnedInv, LinesInv
<1>4. KeptInv'
  <2>1. \A i : EventsOf(ParentIn(line, i), line[i])' = EventsOf(ParentIn(line, i), line[i])
    BY <1>1 DEF EventsOf, NewSide, OldSide, Touched, TreeFacts, TreeOf, ParentIn
  <2>2. Kept(line, marker, events)'
    BY <1>1, <2>1 DEF EarnedInv, KeptInv, Kept
  <2> QED
    BY <1>1, <1>2, <2>2 DEF KeptInv, Kept
<1>5. WalkInv'
  <2>1. CASE AlreadySynced
    BY <1>1, <2>1 DEF AlreadySynced, EarnedInv, LinesInv, WalkInv
  <2>2. CASE BeginSync
    <3>1. at' # <<>> /\ Len(at') \in Nat
      BY <1>1 DEF EarnedInv, LinesInv
    <3>2. CASE Resumable
      <4>1. ResumePoint \in 1..Len(line) /\ line[ResumePoint] \in marker
        BY <3>2, ResumeMarked DEF Resumable, EarnedInv, LinesInv
      <4>2. mode' = "append" /\ walked' = ResumePoint /\ pc' = "clear"
        BY <2>2, <3>2 DEF BeginSync
      <4> QED
        BY <1>1, <3>1, <4>1, <4>2 DEF EarnedInv, WalkInv
    <3>3. CASE ~Resumable
      <4>1. mode' = "rebuild" /\ walked' = 0 /\ pc' = "clear"
        BY <2>2, <3>3 DEF BeginSync
      <4> QED
        BY <1>1, <3>1, <4>1 DEF EarnedInv, WalkInv
    <3> QED
      BY <3>2, <3>3
  <2> QED
    BY <2>1, <2>2
<1> QED
  BY <1>3, <1>4, <1>5 DEF EarnedInv

LEMMA ClearEarned ==
    ASSUME EarnedInv, ClearDerived
    PROVE  EarnedInv'
<1>1. UNCHANGED <<trees, line, at, events, saved, mode, walked, pending>> /\ pc = "clear"
  BY DEF ClearDerived, repo
<1>2. marker' \in {marker, {}} /\ (mode = "append" => marker' = marker) /\ (mode # "append" => marker' = {})
  BY DEF ClearDerived, KeepGitGraphs
<1>3. LinesInv'
  BY <1>1, <1>2, LinesKept DEF EarnedInv, LinesInv
<1>4. KeptInv'
  <2>1. Kept(line, marker, events)' /\ Kept(at, marker, events)'
    BY <1>1, <1>2, SameLines DEF EarnedInv, KeptInv, Kept
  <2>2. Kept(line, saved.marker, saved.events)' /\ Kept(at, saved.marker, saved.events)'
    BY <1>1, SameLines DEF EarnedInv, KeptInv, Kept
  <2> QED
    BY <2>1, <2>2 DEF KeptInv
<1>5. WalkInv'
  <2>1. CASE mode = "append"
    <3>1. pc' = "walk" /\ walked \in 1..Len(at) /\ at[walked] \in marker
      BY <1>1, <2>1 DEF ClearDerived, EarnedInv, WalkInv
    <3>2. \A i \in 1..walked : i \in 1..Len(at) /\ at[i] \in marker
      BY <3>1 DEF EarnedInv, KeptInv, Kept, WalkInv
    <3>3. \A i \in 1..walked : EventsOf(ParentIn(at, i), at[i]) \subseteq events
      BY <3>2 DEF EarnedInv, KeptInv, Kept
    <3> QED
      BY <1>1, <3>1, <3>3, SameLines DEF EarnedInv, WalkInv
  <2>2. CASE mode # "append"
    <3>1. pc' = "empty" /\ mode = "rebuild" /\ marker' = {} /\ walked = 0
      BY <1>1, <1>2, <2>2 DEF ClearDerived, EarnedInv, WalkInv
    <3> QED
      BY <1>1, <3>1 DEF EarnedInv, WalkInv
  <2> QED
    BY <2>1, <2>2
<1> QED
  BY <1>3, <1>4, <1>5 DEF EarnedInv

LEMMA EmptyEarned ==
    ASSUME EarnedInv, EmptyHistory
    PROVE  EarnedInv'
<1>1. /\ UNCHANGED <<trees, line, at, marker, saved, mode, walked, pending>>
      /\ pc = "empty" /\ pc' = "walk" /\ marker = {} /\ mode = "rebuild" /\ walked = 0
  BY DEF EmptyHistory, repo, EarnedInv, WalkInv
<1>2. LinesInv'
  BY <1>1, LinesKept DEF EarnedInv, LinesInv
<1>3. KeptInv'
  <2>1. Kept(line, saved.marker, saved.events)' /\ Kept(at, saved.marker, saved.events)'
    BY <1>1, SameLines DEF EarnedInv, KeptInv, Kept
  <2> QED
    BY <1>1, <2>1 DEF KeptInv, Kept
<1>4. WalkInv'
  BY <1>1 DEF EarnedInv, WalkInv
<1> QED
  BY <1>2, <1>3, <1>4 DEF EarnedInv

LEMMA WalkEarned ==
    ASSUME EarnedInv, WalkCommit
    PROVE  EarnedInv'
<1>1. /\ UNCHANGED <<trees, line, at, events, marker, saved, mode, pc>>
      /\ pc = "walk" /\ walked' = walked + 1 /\ walked + 1 \in 1..Len(at) /\ walked \in Nat
  BY DEF WalkCommit, repo, store, EarnedInv, WalkInv
<1>2. LinesInv' /\ KeptInv'
  BY <1>1, LinesKept, KeptGrows DEF EarnedInv, LinesInv
<1>3. /\ pending' = [add |-> pending'.add, del |-> pending'.del, evs |-> pending'.evs]
      /\ pending.evs \subseteq pending'.evs
      /\ EventsOf(ParentIn(at, walked + 1), at[walked + 1]) \subseteq pending'.evs
  BY WalkSaysAll DEF WalkCommit
<1>4. \A i \in 1..walked' : EventsOf(ParentIn(at, i), at[i]) \subseteq events \cup pending'.evs
  <2>1. \A i \in 1..walked' : i \in 1..walked \/ i = walked + 1
    BY <1>1
  <2>2. \A i \in 1..walked : EventsOf(ParentIn(at, i), at[i]) \subseteq events \cup pending.evs
    BY <1>1 DEF EarnedInv, WalkInv
  <2> QED
    BY <1>3, <2>1, <2>2
<1>5. WalkInv'
  BY <1>1, <1>3, <1>4, SameLines DEF EarnedInv, WalkInv
<1> QED
  BY <1>2, <1>5 DEF EarnedInv

LEMMA WriteEarned ==
    ASSUME EarnedInv, WriteBatch \/ LoadEvents
    PROVE  EarnedInv'
<1>1. /\ UNCHANGED <<trees, line, at, marker, saved, mode, walked>>
      /\ pc \in {"walk", "write"} /\ events' = events \cup pending.evs /\ pending' = NoPending
      /\ \/ pc' = "walk"
         \/ pc' \in {"now", "stale"} /\ walked = Len(at)
  BY DEF WriteBatch, LoadEvents, repo, EarnedInv, WalkInv
<1>2. LinesInv' /\ KeptInv'
  BY <1>1, LinesKept, KeptGrows DEF EarnedInv, LinesInv
<1>3. \A i \in 1..walked : EventsOf(ParentIn(at, i), at[i]) \subseteq events'
  BY <1>1 DEF EarnedInv, WalkInv
<1>4. WalkInv'
  BY <1>1, <1>3, SameLines DEF EarnedInv, WalkInv, NoPending
<1> QED
  BY <1>2, <1>4 DEF EarnedInv

LEMMA RemoveEarned ==
    ASSUME EarnedInv, BeginWrite \/ RemoveFact
    PROVE  EarnedInv'
<1>1. /\ UNCHANGED <<trees, line, at, marker, saved, mode, walked, events>>
      /\ pc \in {"walk", "write"} /\ pc' = "write" /\ walked = Len(at)
  BY DEF BeginWrite, RemoveFact, repo, store, EarnedInv, WalkInv
<1>2. LinesInv' /\ KeptInv'
  BY <1>1, LinesKept, KeptGrows DEF EarnedInv, LinesInv
<1>3. /\ pending' = [add |-> pending'.add, del |-> pending'.del, evs |-> pending'.evs]
      /\ pending'.evs = pending.evs
  <2>1. CASE BeginWrite
    BY <2>1 DEF BeginWrite, EarnedInv, WalkInv
  <2>2. CASE RemoveFact
    <3>1. PICK f : pending' = [pending EXCEPT !.del = @ \ {f}]
      BY <2>2 DEF RemoveFact
    <3>2. pending = [add |-> pending.add, del |-> pending.del, evs |-> pending.evs]
      BY DEF EarnedInv, WalkInv
    <3>3. pending' = [add |-> pending.add, del |-> pending.del \ {f}, evs |-> pending.evs]
      BY <3>1, <3>2
    <3> QED
      BY <3>3
  <2> QED
    BY <2>1, <2>2
<1>4. \A i \in 1..walked : EventsOf(ParentIn(at, i), at[i]) \subseteq events \cup pending'.evs
  BY <1>1, <1>3 DEF EarnedInv, WalkInv
<1>5. WalkInv'
  BY <1>1, <1>3, <1>4, SameLines DEF EarnedInv, WalkInv
<1> QED
  BY <1>2, <1>5 DEF EarnedInv

\* The steps that touch neither events nor ordinals, once all is written.
LEMMA ViewEarned ==
    ASSUME EarnedInv, CopyNowView \/ RefreshSubject
    PROVE  EarnedInv'
<1>1. /\ UNCHANGED <<trees, line, at, marker, saved, mode, walked, events, pending>>
      /\ pc \in {"now", "refresh"} /\ pc' \in {"git", "refresh"}
  BY DEF CopyNowView, RefreshSubject, repo
<1>2. LinesInv' /\ KeptInv'
  BY <1>1, LinesKept, KeptGrows DEF EarnedInv, LinesInv
<1>3. WalkInv'
  BY <1>1, SameLines DEF EarnedInv, WalkInv
<1> QED
  BY <1>2, <1>3 DEF EarnedInv

LEMMA MarkerEarned ==
    ASSUME EarnedInv, RemoveStale \/ LoadMarker
    PROVE  EarnedInv'
<1>1. /\ UNCHANGED <<trees, line, at, saved, mode, walked, events, pending>>
      /\ pc \in {"stale", "git"} /\ pc' \in {"git", "verify"}
      /\ marker' = marker \cap OnLine(at) \/ marker' = marker \cup OnLine(at)
  BY DEF RemoveStale, LoadMarker, repo
<1>2. OnLine(at) \subseteq Made /\ \A j \in 1..Len(at) : at[j] \in OnLine(at)
  BY DEF EarnedInv, LinesInv, OnLine
<1>3. LinesInv'
  BY <1>1, <1>2, LinesKept DEF EarnedInv, LinesInv
<1>4. \A i \in 1..Len(at) : EventsOf(ParentIn(at, i), at[i]) \subseteq events
  BY <1>1 DEF EarnedInv, WalkInv
<1>5. ASSUME NEW i \in 1..Len(line), line[i] \in OnLine(at)
      PROVE  /\ EventsOf(ParentIn(line, i), line[i]) \subseteq events
             /\ \A j \in 1..i : line[j] \in OnLine(at)
  <2>1. PICK k \in 1..Len(at) : at[k] = line[i]
    BY <1>5 DEF OnLine, EarnedInv, LinesInv
  <2>2. i = k /\ \A j \in 1..i : line[j] = at[j]
    BY <2>1 DEF EarnedInv, LinesInv, Alike
  <2>3. \A j \in 1..i : j \in 1..Len(at)
    BY <2>1, <2>2 DEF EarnedInv, LinesInv
  <2>4. ParentIn(line, i) = ParentIn(at, i)
    BY <2>2 DEF ParentIn
  <2> QED
    BY <1>2, <1>4, <2>1, <2>2, <2>3, <2>4
<1>6. KeptInv'
  <2>1. Kept(line, marker, events)
    BY DEF EarnedInv, KeptInv
  <2>2. Kept(line, marker', events)
    BY <1>1, <1>5, <2>1 DEF Kept
  <2>3. Kept(at, marker', events)
    <3>1. \A i \in 1..Len(at) : \A j \in 1..i : j \in 1..Len(at)
      BY DEF EarnedInv, LinesInv
    <3>2. Kept(at, marker, events)
      BY DEF EarnedInv, KeptInv
    <3> QED
      BY <1>1, <1>2, <1>4, <3>1, <3>2 DEF Kept
  <2>4. Kept(line, marker, events)' /\ Kept(at, marker, events)'
    BY <1>1, <2>2, <2>3, SameLines DEF Kept
  <2>5. Kept(line, saved.marker, saved.events)' /\ Kept(at, saved.marker, saved.events)'
    BY <1>1, SameLines DEF EarnedInv, KeptInv, Kept
  <2> QED
    BY <2>4, <2>5 DEF KeptInv
<1>7. WalkInv'
  BY <1>1, <1>4, SameLines DEF EarnedInv, WalkInv
<1> QED
  BY <1>3, <1>6, <1>7 DEF EarnedInv

\* A run that ends leaves what it wrote, or what was there before.
LEMMA EndEarned ==
    ASSUME EarnedInv, UNCHANGED <<trees, line, at, saved>>, pc' = "idle", walked' = 0, pending' = NoPending,
           \/ UNCHANGED <<events, marker>>
           \/ events' = saved.events /\ marker' = saved.marker
    PROVE  EarnedInv'
<1>1. LinesInv'
  BY LinesKept DEF EarnedInv, LinesInv
<1>2. KeptInv'
  BY SameLines DEF EarnedInv, KeptInv, Kept
<1>3. WalkInv'
  BY DEF EarnedInv, LinesInv, WalkInv, NoPending
<1> QED
  BY <1>1, <1>2, <1>3 DEF EarnedInv

LEMMA LastStepsEarned ==
    ASSUME EarnedInv, VerifyOnegraph \/ RefreshEnds \/ MaterializeNowView \/ Stop
    PROVE  EarnedInv'
<1>1. UNCHANGED <<trees, line, at, saved>>
  BY DEF VerifyOnegraph, RefreshEnds, MaterializeNowView, Stop, Ends, Fails, repo
<1>2. \/ UNCHANGED <<events, marker>>
      \/ events' = saved.events /\ marker' = saved.marker
  BY DEF VerifyOnegraph, RefreshEnds, MaterializeNowView, Stop, Fails, store
<1>3. CASE pc' = "idle" /\ walked' = 0 /\ pending' = NoPending
  BY <1>1, <1>2, <1>3, EndEarned
<1>4. CASE /\ pc = "verify" /\ pc' = "refresh"
           /\ UNCHANGED <<events, marker, mode, walked, pending>>
  <2>1. LinesInv' /\ KeptInv'
    BY <1>1, <1>4, LinesKept, KeptGrows DEF EarnedInv, LinesInv
  <2>2. WalkInv'
    BY <1>1, <1>4, SameLines DEF EarnedInv, WalkInv
  <2> QED
    BY <2>1, <2>2 DEF EarnedInv
<1> QED
  BY <1>3, <1>4 DEF VerifyOnegraph, RefreshEnds, MaterializeNowView, Stop, Ends, store

LEMMA NextEarned == EarnedInv /\ [Next]_vars => EarnedInv'
<1> SUFFICES ASSUME EarnedInv, [Next]_vars PROVE EarnedInv'
  OBVIOUS
<1>1. CASE UNCHANGED vars
  <2>1. UNCHANGED <<trees, line, at, saved, events, marker, pc, mode, walked, pending>>
    BY <1>1 DEF vars, repo, store, run
  <2>2. LinesInv' /\ KeptInv'
    BY <2>1, LinesKept, KeptGrows DEF EarnedInv, LinesInv
  <2>3. WalkInv'
    BY <2>1, SameLines DEF EarnedInv, WalkInv
  <2> QED
    BY <2>2, <2>3 DEF EarnedInv
<1>2. CASE Commit \/ Reset
  BY <1>2, CommitEarned, ResetEarned
<1>3. CASE SyncStep
  BY <1>3, BeginEarned, ClearEarned, EmptyEarned, WalkEarned, WriteEarned, RemoveEarned, ViewEarned,
     MarkerEarned, LastStepsEarned DEF SyncStep
<1>4. CASE Stop
  BY <1>4, LastStepsEarned
<1> QED
  BY <1>1, <1>2, <1>3, <1>4 DEF Next

\* Wherever runs were stopped and however the branch moved, a commit of the
\* branch that has an ordinal has its events (sync.rs: MarkerLastLoader, the
\* ordinals are the last thing a run writes).
THEOREM MarkersAreEarned == Spec => []MarkerIsEarned
<1>1. Spec => []EarnedInv
  BY InitEarned, NextEarned, PTL DEF Spec
<1> QED
  BY <1>1, Earned, PTL

-----------------------------------------------------------------------------
(* No event of a lost commit survives a run that succeeds.                 *)

OnBranch(evs) == \A e \in evs : e.commit \in OnLine(at)

\* From the moment a run knows its store to be of its branch, or has emptied
\* it, every event is.
BranchInv ==
    /\ HistoryOnBranch
    /\ pc \in {"idle", "clear", "empty"} => pending = NoPending
    /\ pc # "idle" => \/ OnBranch(events) /\ OnBranch(pending.evs)
                      \/ pc \in {"clear", "empty"} /\ mode # "append"

LEMMA InitBranch == Init => BranchInv
BY DEF Init, BranchInv, HistoryOnBranch, Done, NoPending

LEMMA RepoBranch ==
    ASSUME BranchInv, UNCHANGED <<events, at, pc, mode, pending, result>>
    PROVE  BranchInv'
BY DEF BranchInv, HistoryOnBranch, Done, OnBranch, OnLine

LEMMA BeginBranch ==
    ASSUME BranchInv, AlreadySynced \/ BeginSync
    PROVE  BranchInv'
<1>1. pc = "idle" /\ at' = line /\ UNCHANGED <<line, events, pending>> /\ pending = NoPending
  BY DEF AlreadySynced, BeginSync, Begins, repo, store, BranchInv
<1>2. ~Rewound => OnBranch(events)' /\ OnBranch({})'
  BY <1>1 DEF Rewound, OnBranch, OnLine
<1>3. CASE AlreadySynced
  <2>1. ~Rewound /\ pc' = "idle" /\ UNCHANGED walked
    BY <1>3, <1>1 DEF AlreadySynced, FastPathHit
  <2> QED
    BY <1>1, <1>2, <2>1 DEF BranchInv, HistoryOnBranch, OnBranch
<1>4. CASE BeginSync
  <2>1. /\ pc' = "clear" /\ result' = "none" /\ (mode' = "append" => ~Rewound)
    BY <1>4 DEF BeginSync, Resumable
  <2> QED
    BY <1>1, <1>2, <2>1 DEF BranchInv, HistoryOnBranch, Done, NoPending
<1> QED
  BY <1>3, <1>4

\* A step of a run that goes on: what it adds is of the commit it walks.
LEMMA RunBranch ==
    ASSUME BranchInv, UNCHANGED at, pc \notin {"idle", "clear", "empty"}, pc' \notin {"idle", "clear", "empty"},
           OnBranch(events' \cup pending'.evs)
    PROVE  BranchInv'
BY DEF BranchInv, HistoryOnBranch, Done, OnBranch, OnLine

LEMMA StepBranch ==
    ASSUME EarnedInv, BranchInv, SyncStep, ~AlreadySynced, ~BeginSync
    PROVE  BranchInv'
<1>1. CASE ClearDerived
  <2>1. /\ UNCHANGED <<events, at, mode, pending>> /\ pc = "clear" /\ pending = NoPending
        /\ pc' = IF mode = "append" THEN "walk" ELSE "empty"
    BY <1>1 DEF ClearDerived, BranchInv
  <2> QED
    BY <2>1 DEF BranchInv, HistoryOnBranch, Done, OnBranch, OnLine
<1>2. CASE EmptyHistory
  <2>1. UNCHANGED at /\ pc' = "walk" /\ events' = {} /\ pending' = NoPending
    BY <1>2 DEF EmptyHistory, BranchInv
  <2> QED
    BY <2>1 DEF BranchInv, HistoryOnBranch, Done, OnBranch, NoPending
<1>3. CASE WalkCommit
  <2> DEFINE c == at[walked + 1]
  <2>1. UNCHANGED <<events, at, pc>> /\ pc = "walk" /\ walked + 1 \in 1..Len(at)
    BY <1>3 DEF WalkCommit, store, EarnedInv, LinesInv, WalkInv
  <2>2. c \in OnLine(at)
    BY <2>1 DEF OnLine, EarnedInv, LinesInv
  <2>3. \A e \in pending'.evs : e \in pending.evs \/ e.commit = c
    BY <1>3 DEF WalkCommit, Event
  <2>4. OnBranch(events) /\ OnBranch(pending.evs)
    BY <2>1 DEF BranchInv
  <2>5. OnBranch(events' \cup pending'.evs)
    BY <2>1, <2>2, <2>3, <2>4 DEF OnBranch
  <2> QED
    BY <2>1, <2>5, RunBranch
<1>4. CASE \/ WriteBatch \/ BeginWrite \/ RemoveFact \/ LoadEvents \/ CopyNowView
           \/ RemoveStale \/ LoadMarker \/ RefreshSubject
  <2>1. /\ UNCHANGED at /\ pc \notin {"idle", "clear", "empty"} /\ pc' \notin {"idle", "clear", "empty"}
    BY <1>4 DEF WriteBatch, BeginWrite, RemoveFact, LoadEvents, CopyNowView, RemoveStale, LoadMarker, RefreshSubject
  <2>2. events' \subseteq events \cup pending.evs
    BY <1>4 DEF WriteBatch, BeginWrite, RemoveFact, LoadEvents, CopyNowView, RemoveStale, LoadMarker,
                RefreshSubject, store
  <2>3. pending'.evs \subseteq pending.evs
    <3>1. CASE RemoveFact
      <4>1. PICK f : pending' = [pending EXCEPT !.del = @ \ {f}]
        BY <3>1 DEF RemoveFact
      <4>2. pending = [add |-> pending.add, del |-> pending.del, evs |-> pending.evs]
        BY DEF EarnedInv, WalkInv
      <4>3. pending' = [add |-> pending.add, del |-> pending.del \ {f}, evs |-> pending.evs]
        BY <4>1, <4>2
      <4> QED
        BY <4>3
    <3>2. CASE ~RemoveFact
      <4>1. pending' = pending \/ pending' = NoPending
        BY <1>4, <3>2 DEF WriteBatch, BeginWrite, LoadEvents, CopyNowView, RemoveStale, LoadMarker, RefreshSubject
      <4> QED
        BY <4>1 DEF NoPending
    <3> QED
      BY <3>1, <3>2
  <2>4. OnBranch(events) /\ OnBranch(pending.evs)
    BY <2>1 DEF BranchInv
  <2>5. OnBranch(events' \cup pending'.evs)
    BY <2>2, <2>3, <2>4 DEF OnBranch
  <2> QED
    BY <2>1, <2>5, RunBranch
<1>5. CASE VerifyOnegraph \/ RefreshEnds \/ MaterializeNowView
  <2>1. /\ UNCHANGED at /\ pc \in {"verify", "refresh"}
        /\ \/ pc' = "idle" /\ pending' = NoPending /\ (result' = "damaged" \/ UNCHANGED events)
           \/ pc' = "refresh" /\ UNCHANGED <<events, pending>>
    BY <1>5 DEF VerifyOnegraph, RefreshEnds, MaterializeNowView, Ends, store
  <2>2. OnBranch(events) /\ OnBranch(pending.evs)
    BY <2>1 DEF BranchInv
  <2> QED
    BY <2>1, <2>2 DEF BranchInv, HistoryOnBranch, Done, OnBranch, OnLine
<1> QED
  BY <1>1, <1>2, <1>3, <1>4, <1>5 DEF SyncStep

LEMMA NextBranch == EarnedInv /\ BranchInv /\ [Next]_vars => BranchInv'
<1> SUFFICES ASSUME EarnedInv, BranchInv, [Next]_vars PROVE BranchInv'
  OBVIOUS
<1>1. CASE UNCHANGED vars \/ Commit \/ Reset
  <2>1. UNCHANGED <<events, at, pc, mode, pending, result>>
    BY <1>1 DEF vars, Commit, Reset, store, run
  <2> QED
    BY <2>1, RepoBranch
<1>2. CASE SyncStep
  BY <1>2, BeginBranch, StepBranch
<1>3. CASE Stop
  <2>1. pc' = "idle" /\ pending' = NoPending /\ result' = "stopped"
    BY <1>3 DEF Stop, Ends
  <2> QED
    BY <2>1 DEF BranchInv, HistoryOnBranch, Done
<1> QED
  BY <1>1, <1>2, <1>3 DEF Next

\* However the runs before it were stopped, and wherever the branch was reset
\* to, a sync that succeeds or finds nothing to do leaves no event of a commit
\* the branch it saw does not have (sync.rs: rewound_event_commits).
THEOREM NoLostCommitsEvent == Spec => []HistoryOnBranch
<1>1. Init => EarnedInv /\ BranchInv
  BY InitEarned, InitBranch
<1>2. (EarnedInv /\ BranchInv) /\ [Next]_vars => (EarnedInv /\ BranchInv)'
  BY NextEarned, NextBranch
<1>3. BranchInv => HistoryOnBranch
  BY DEF BranchInv
<1> QED
  BY <1>1, <1>2, <1>3, PTL DEF Spec

-----------------------------------------------------------------------------
(* A rebuild ends fresh.                                                   *)

\* The statements the base layer and the next write make together.
Net == (base \ pending.del) \cup pending.add

Said(k) == UNION {EventsOf(ParentIn(at, i), at[i]) : i \in 1..k}

\* A rebuild has, after each commit, exactly its tree and its history.
RebuildInv ==
    mode = "rebuild" =>
        /\ at # <<>>
        /\ pc \notin {"write", "stale", "refresh"}
        /\ pc \in {"walk", "now", "git"} => marker = {}
        /\ pc = "walk" => /\ Net = TreeFacts(ParentIn(at, walked + 1))
                          /\ pending.add \cap pending.del = {}
                          /\ events \cup pending.evs = Said(walked)
        /\ pc \in {"now", "git", "verify"} => base = TreeFacts(Newest(at)) /\ events = Said(Len(at))
        /\ pc \in {"git", "verify"} => now = base
        /\ pc = "verify" => marker = OnLine(at)
        /\ SyncedIsFresh

HealInv == EarnedInv /\ BranchInv /\ RebuildInv

LEMMA SaidIsHistory == ASSUME at \in Seq(Made) PROVE History(at) = Said(Len(at))
<1>1. DOMAIN at = 1..Len(at)
  OBVIOUS
<1> QED
  BY <1>1, EventsAtIs DEF History, Said

\* An untouched sidecar of a tree states what it states in the other.
LEMMA UntouchedSame ==
    ASSUME NEW p, NEW c, NEW f \in TreeFacts(p), f \notin OldSide(p, c)
    PROVE  \E s \in Sidecars \ Touched(p, c) : f \in FactsOf(s, TreeOf(p)[s]) /\ f \in FactsOf(s, TreeOf(c)[s])
<1>1. PICK s \in Sidecars : f \in FactsOf(s, TreeOf(p)[s])
  BY DEF TreeFacts, FactsIn
<1>2. s \notin Touched(p, c)
  BY <1>1 DEF OldSide, FactsIn
<1>3. TreeOf(p)[s] = TreeOf(c)[s]
  BY <1>2 DEF Touched
<1> QED
  BY <1>1, <1>2, <1>3

LEMMA UntouchedBack ==
    ASSUME NEW p, NEW c, NEW f \in TreeFacts(c), f \notin NewSide(p, c)
    PROVE  \E s \in Sidecars \ Touched(p, c) : f \in FactsOf(s, TreeOf(p)[s]) /\ f \in FactsOf(s, TreeOf(c)[s])
<1>1. PICK s \in Sidecars : f \in FactsOf(s, TreeOf(c)[s])
  BY DEF TreeFacts, FactsIn
<1>2. s \notin Touched(p, c)
  BY <1>1 DEF NewSide, FactsIn
<1>3. TreeOf(p)[s] = TreeOf(c)[s]
  BY <1>2 DEF Touched
<1> QED
  BY <1>1, <1>2, <1>3

\* A fact of a sidecar is about its document or about the Thing, and then the
\* sidecar anchors the document in it.
LEMMA SubjectsAnchored ==
    ASSUME NEW s \in Sidecars, NEW said, NEW f \in FactsOf(s, said)
    PROVE  f[1] = DocOf[s] \/ (f[1] = Thing /\ <<Thing, DocOf[s]>> \in FactsOf(s, said))
BY DEF FactsOf, Subject, FileFact, AnchorFact

\* Where the base layer is the parent's tree, the guard withholds exactly the
\* retracts of what the tree still states.
LEMMA GuardIsExact ==
    ASSUME NEW p, NEW c, Anchors = TreeFacts(p)
    PROVE  Retracts(p, c) = OldSide(p, c) \ TreeFacts(c)
<1>1. NewSide(p, c) \subseteq TreeFacts(c)
  BY DEF NewSide, TreeFacts, FactsIn, Touched
<1>2. \A f : StillLive(p, c, f) => f \in TreeFacts(c)
  BY DEF StillLive, TreeFacts, FactsIn, Touched
<1>3. ASSUME NEW f \in TreeFacts(c), f \notin NewSide(p, c)
      PROVE  StillLive(p, c, f)
  <2>1. PICK s \in Sidecars \ Touched(p, c) : f \in FactsOf(s, TreeOf(p)[s]) /\ f \in FactsOf(s, TreeOf(c)[s])
    BY <1>3, UntouchedBack
  <2>2. f[1] = DocOf[s] \/ (f[1] = Thing /\ <<Thing, DocOf[s]>> \in TreeFacts(p))
    BY <2>1, SubjectsAnchored DEF TreeFacts, FactsIn
  <2>3. DocOf[s] \in Docs
    BY <2>1 DEF Docs
  <2>4. DocOf[s] \in GuardDocs(f)
    BY <2>2, <2>3 DEF GuardDocs
  <2> QED
    BY <2>1, <2>4 DEF StillLive
<1> QED
  BY <1>1, <1>2, <1>3 DEF Retracts

\* Then a commit's events take the one tree to the other.
LEMMA EventsMakeTree ==
    ASSUME NEW p, NEW c
    PROVE  (TreeFacts(p) \ (OldSide(p, c) \ TreeFacts(c))) \cup Asserts(p, c) = TreeFacts(c)
<1>1. NewSide(p, c) \subseteq TreeFacts(c) /\ OldSide(p, c) \subseteq TreeFacts(p)
  BY DEF NewSide, OldSide, TreeFacts, FactsIn, Touched
<1>2. \A f \in TreeFacts(p) : f \notin OldSide(p, c) => f \in TreeFacts(c)
  BY UntouchedSame DEF TreeFacts, FactsIn
<1>3. \A f \in TreeFacts(c) : f \notin NewSide(p, c) => f \in TreeFacts(p)
  BY UntouchedBack DEF TreeFacts, FactsIn
<1> QED
  BY <1>1, <1>2, <1>3 DEF Asserts

\* One commit's events take the parent's facts and history to the commit's.
LEMMA WalkKeeps ==
    ASSUME WalkCommit, walked \in Nat, Net = TreeFacts(ParentIn(at, walked + 1)),
           pending.add \cap pending.del = {}, events \cup pending.evs = Said(walked)
    PROVE  /\ Net' = TreeFacts(ParentIn(at, walked + 1))'
           /\ (pending.add \cap pending.del)' = {}
           /\ (events \cup pending.evs)' = Said(walked)'
<1> DEFINE p == ParentIn(at, walked + 1)
           c == at[walked + 1]
<1>1. UNCHANGED <<trees, at, events, base>> /\ walked' = walked + 1
  BY DEF WalkCommit, repo, store
<1>2. /\ pending'.add = (pending.add \ Retracts(p, c)) \cup Asserts(p, c)
      /\ pending'.del = (pending.del \ Asserts(p, c)) \cup Retracts(p, c)
      /\ pending'.evs = pending.evs \cup {Event("-", f, c) : f \in Retracts(p, c)}
                                    \cup {Event("+", f, c) : f \in Asserts(p, c)}
  BY DEF WalkCommit, LastOpWins
<1>3. Net = TreeFacts(p) /\ pending.add \cap pending.del = {} /\ events \cup pending.evs = Said(walked)
  OBVIOUS
<1>4. Anchors = TreeFacts(p)
  BY <1>3 DEF Anchors, Net
<1>5. Retracts(p, c) = OldSide(p, c) \ TreeFacts(c)
  BY <1>4, GuardIsExact
<1>6. Retracts(p, c) \cap Asserts(p, c) = {}
  BY DEF Retracts, Asserts
<1>7. Net' = (Net \ Retracts(p, c)) \cup Asserts(p, c)
  BY <1>1, <1>2, <1>3, <1>6 DEF Net
<1>8. Net' = TreeFacts(c)
  BY <1>3, <1>5, <1>7, EventsMakeTree
<1>9. (pending.add \cap pending.del)' = {}
  BY <1>2, <1>3, <1>6
<1>10. pending'.evs = pending.evs \cup EventsOf(p, c)
  BY <1>2, <1>5 DEF EventsOf, Asserts
<1>11. Said(walked + 1) = Said(walked) \cup EventsOf(p, c)
  <2>1. 1..(walked + 1) = (1..walked) \cup {walked + 1}
    OBVIOUS
  <2> QED
    BY <2>1 DEF Said
<1>12. (events \cup pending.evs)' = Said(walked + 1)
  BY <1>1, <1>3, <1>10, <1>11
<1>13. Said(walked + 1) = Said(walked)'
  BY <1>1 DEF Said, EventsOf, NewSide, OldSide, Touched, TreeFacts, TreeOf, ParentIn
<1>14. ParentIn(at, walked + 1)' = c
  BY <1>1 DEF ParentIn
<1>15. TreeFacts(c) = TreeFacts(ParentIn(at, walked + 1))'
  BY <1>1, <1>14 DEF TreeFacts, TreeOf
<1> QED
  BY <1>8, <1>9, <1>12, <1>13, <1>15

LEMMA WalkRebuilds ==
    ASSUME HealInv, WalkCommit, mode = "rebuild"
    PROVE  RebuildInv'
<1>1. /\ UNCHANGED <<marker, mode, pc>>
      /\ pc = "walk" /\ walked \in Nat /\ marker = {} /\ at # <<>> /\ UNCHANGED at
  BY DEF WalkCommit, store, HealInv, EarnedInv, WalkInv, RebuildInv
<1>2. /\ Net = TreeFacts(ParentIn(at, walked + 1)) /\ pending.add \cap pending.del = {}
      /\ events \cup pending.evs = Said(walked)
  BY <1>1 DEF HealInv, RebuildInv
<1>3. /\ Net' = TreeFacts(ParentIn(at, walked + 1))'
      /\ (pending.add \cap pending.del)' = {}
      /\ (events \cup pending.evs)' = Said(walked)'
  BY <1>1, <1>2, WalkKeeps
<1> QED
  BY <1>1, <1>3 DEF RebuildInv, SyncedIsFresh

LEMMA FactsKept ==
    ASSUME trees \in Seq([Sidecars -> SUBSET Props]), NEW t, trees' = Append(trees, t),
           t \in [Sidecars -> SUBSET Props], NEW c \in 0..Len(trees)
    PROVE  TreeFacts(c)' = TreeFacts(c)
<1>1. TreeOf(c)' = TreeOf(c)
  BY DEF TreeOf
<1> QED
  BY <1>1 DEF TreeFacts

\* What the run's branch says stays what it is while the repository moves.
LEMMA BranchSays ==
    ASSUME LinesInv, Commit \/ Reset
    PROVE  /\ \A i \in 1..Len(at) : EventsOf(ParentIn(at, i), at[i])' = EventsOf(ParentIn(at, i), at[i])
           /\ \A i \in 1..(Len(at) + 1) : TreeFacts(ParentIn(at, i))' = TreeFacts(ParentIn(at, i))
<1>1. at' = at
  BY DEF Commit, Reset, run
<1>2. CASE Commit
  <2>1. PICK t \in [Sidecars -> SUBSET Props] : trees' = Append(trees, t)
    BY <1>2 DEF Commit
  <2>2. \A c \in 0..Len(trees) : TreeFacts(c)' = TreeFacts(c)
    BY <2>1, FactsKept DEF LinesInv
  <2>3. ASSUME NEW i \in 1..(Len(at) + 1)
        PROVE  TreeFacts(ParentIn(at, i))' = TreeFacts(ParentIn(at, i))
    <3>1. PICK c \in 0..Len(trees) : c = ParentIn(at, i)
      <4>1. at \in Seq(Made) /\ Len(at) \in Nat /\ Len(trees) \in Nat
        BY DEF LinesInv
      <4>2. CASE i = 1
        BY <4>1, <4>2 DEF ParentIn
      <4>3. CASE i # 1
        <5>1. i - 1 \in 1..Len(at)
          BY <4>1, <4>3
        <5>2. at[i - 1] \in 1..Len(trees)
          BY <4>1, <5>1 DEF Made
        <5> QED
          BY <4>1, <4>3, <5>2 DEF ParentIn
      <4> QED
        BY <4>2, <4>3
    <3>2. ParentIn(at, i)' = c
      BY <1>1, <3>1 DEF ParentIn
    <3> QED
      BY <2>2, <3>1, <3>2
  <2> QED
    BY <1>2, <2>3, EventsStay
<1>3. CASE Reset
  <2>1. UNCHANGED trees
    BY <1>3 DEF Reset
  <2> QED
    BY <1>1, <2>1 DEF EventsOf, NewSide, OldSide, Touched, TreeFacts, TreeOf, ParentIn
<1> QED
  BY <1>2, <1>3

LEMMA NewestIs ==
    ASSUME at \in Seq(Made), at # <<>>
    PROVE  Newest(at) = ParentIn(at, Len(at) + 1)
BY DEF Newest, ParentIn

\* Nor do commits and resets move what the run was told.
LEMMA BranchStays ==
    ASSUME LinesInv, walked \in 0..Len(at), Commit \/ Reset
    PROVE  /\ UNCHANGED <<events, base, marker, now, nowHeld, saved, at, pc, mode, walked, pending, changed, result>>
           /\ TreeFacts(ParentIn(at, walked + 1))' = TreeFacts(ParentIn(at, walked + 1))
           /\ at # <<>> => TreeFacts(Newest(at))' = TreeFacts(Newest(at))
           /\ Said(walked)' = Said(walked) /\ Said(Len(at))' = Said(Len(at))
           /\ History(at) = Said(Len(at)) /\ History(at)' = Said(Len(at)) /\ OnLine(at)' = OnLine(at)
<1>1. UNCHANGED <<events, base, marker, now, nowHeld, saved, at, pc, mode, walked, pending, changed, result>>
  BY DEF Commit, Reset, store, run
<1>2. at \in Seq(Made) /\ Len(at) \in Nat /\ DOMAIN at = 1..Len(at)
  BY DEF LinesInv
<1>3. \A k \in 0..Len(at) : Said(k)' = Said(k)
  <2> SUFFICES ASSUME NEW k \in 0..Len(at) PROVE Said(k)' = Said(k)
    OBVIOUS
  <2>1. \A i \in 1..k : i \in 1..Len(at)
    BY <1>2
  <2>2. \A i \in 1..k : EventsOf(ParentIn(at, i), at[i])' = EventsOf(ParentIn(at, i), at[i])
    BY <2>1, BranchSays
  <2> QED
    BY <2>2 DEF Said
<1>4. Said(walked)' = Said(walked) /\ Said(Len(at))' = Said(Len(at))
  <2>0. \A n \in Nat : n \in 0..n
    OBVIOUS
  <2>1. PICK k \in 0..Len(at) : k = Len(at)
    BY <1>2, <2>0, Zenon
  <2>2. PICK m \in 0..Len(at) : m = walked
    OBVIOUS
  <2> QED
    BY <1>1, <1>3, <2>1, <2>2 DEF Said
<1>5. TreeFacts(ParentIn(at, walked + 1))' = TreeFacts(ParentIn(at, walked + 1))
  <2>1. PICK i \in 1..(Len(at) + 1) : i = walked + 1
    BY <1>2
  <2>2. TreeFacts(ParentIn(at, i))' = TreeFacts(ParentIn(at, i))
    BY BranchSays
  <2> QED
    BY <1>1, <2>1, <2>2
<1>6. ASSUME at # <<>> PROVE TreeFacts(Newest(at))' = TreeFacts(Newest(at))
  <2>1. PICK i \in 1..(Len(at) + 1) : i = Len(at) + 1
    BY <1>2
  <2>2. TreeFacts(ParentIn(at, i))' = TreeFacts(ParentIn(at, i))
    BY BranchSays
  <2>3. Newest(at) = ParentIn(at, i)
    BY <1>2, <1>6, <2>1, NewestIs
  <2>4. Newest(at)' = ParentIn(at, i)'
    BY <1>1, <2>3 DEF Newest, ParentIn
  <2> QED
    BY <2>2, <2>3, <2>4
<1>7. History(at) = Said(Len(at))
  BY <1>2, SaidIsHistory
<1>8. History(at)' = Said(Len(at))'
  <2>1. DOMAIN at' = 1..Len(at')
    BY <1>1, <1>2
  <2>2. \A i : EventsAt(at, i)' = EventsOf(ParentIn(at, i), at[i])'
    BY DEF EventsAt, EventsOf, NewSide, OldSide, Touched, TreeFacts, TreeOf, ParentIn
  <2> QED
    BY <2>1, <2>2 DEF History, Said
<1>9. OnLine(at)' = OnLine(at)
  BY <1>1 DEF OnLine
<1> QED
  BY <1>1, <1>4, <1>5, <1>6, <1>7, <1>8, <1>9

LEMMA RepoRebuilds ==
    ASSUME HealInv, Commit \/ Reset
    PROVE  RebuildInv'
<1>1. LinesInv /\ walked \in 0..Len(at)
  BY DEF HealInv, EarnedInv, WalkInv
<1>2. /\ UNCHANGED <<events, base, marker, now, nowHeld, at, pc, mode, walked, pending, result>>
      /\ TreeFacts(ParentIn(at, walked + 1))' = TreeFacts(ParentIn(at, walked + 1))
      /\ at # <<>> => TreeFacts(Newest(at))' = TreeFacts(Newest(at))
      /\ Said(walked)' = Said(walked) /\ Said(Len(at))' = Said(Len(at))
      /\ History(at)' = History(at) /\ OnLine(at)' = OnLine(at)
  BY <1>1, BranchStays
<1>3. Net' = Net
  BY <1>2 DEF Net
<1> QED
  BY <1>2, <1>3 DEF HealInv, RebuildInv, SyncedIsFresh

\* The steps of a rebuild after its walk, and those before it.
LEMMA StepRebuilds ==
    ASSUME HealInv, SyncStep, ~WalkCommit
    PROVE  RebuildInv'
<1>1. at \in Seq(Made) /\ Len(at) \in Nat /\ line # <<>>
  BY DEF HealInv, EarnedInv, LinesInv
<1>2. History(at) = Said(Len(at))
  BY <1>1, SaidIsHistory
<1>3. UNCHANGED <<trees, line>>
  BY DEF SyncStep, AlreadySynced, BeginSync, Begins, ClearDerived, EmptyHistory, WriteBatch, BeginWrite,
         RemoveFact, LoadEvents, CopyNowView, RemoveStale, LoadMarker, VerifyOnegraph, RefreshSubject,
         RefreshEnds, MaterializeNowView, WalkCommit, Ends, repo
<1>4. UNCHANGED at => /\ \A k : Said(k)' = Said(k)
                      /\ \A i : TreeFacts(ParentIn(at, i))' = TreeFacts(ParentIn(at, i))
                      /\ TreeFacts(Newest(at))' = TreeFacts(Newest(at))
                      /\ History(at)' = History(at) /\ OnLine(at)' = OnLine(at)
  BY <1>3 DEF Said, EventsOf, NewSide, OldSide, Touched, TreeFacts, TreeOf, ParentIn, Newest, History, EventsAt, OnLine
<1>5. CASE AlreadySynced \/ BeginSync
  <2>1. /\ at' = line /\ \/ pc' = "idle" /\ result' = "already"
                         \/ pc' = "clear"
    BY <1>5 DEF AlreadySynced, BeginSync, Begins
  <2> QED
    BY <1>1, <2>1 DEF RebuildInv, SyncedIsFresh
<1>6. CASE ClearDerived
  <2>1. UNCHANGED <<at, mode>> /\ (mode = "rebuild" => pc' = "empty")
    BY <1>6 DEF ClearDerived
  <2> QED
    BY <2>1 DEF HealInv, RebuildInv, SyncedIsFresh
<1>7. CASE EmptyHistory
  <2>1. /\ UNCHANGED <<at, mode, marker, walked>> /\ pc' = "walk" /\ events' = {} /\ base' = {}
        /\ pending' = NoPending /\ marker = {} /\ walked = 0
    BY <1>7 DEF EmptyHistory, HealInv, EarnedInv, WalkInv, BranchInv
  <2>2. TreeFacts(ParentIn(at, 1)) = {}
    BY DEF TreeFacts, ParentIn, TreeOf, EmptyTree, FactsIn, FactsOf
  <2>3. Said(0) = {}
    BY DEF Said
  <2>4. Net' = {} /\ (pending.add \cap pending.del)' = {} /\ (events \cup pending.evs)' = {}
    BY <2>1 DEF Net, NoPending
  <2>5. TreeFacts(ParentIn(at, walked + 1))' = {} /\ Said(walked)' = {}
    BY <1>4, <2>1, <2>2, <2>3
  <2> QED
    BY <2>1, <2>4, <2>5 DEF HealInv, RebuildInv, SyncedIsFresh
<1>8. CASE WriteBatch
  <2>1. /\ UNCHANGED <<at, mode, marker, walked>> /\ pc = "walk" /\ mode = "rebuild"
        /\ base' = Net /\ events' = events \cup pending.evs /\ pending' = NoPending
        /\ \/ pc' = "walk"
           \/ pc' = "now" /\ walked = Len(at)
    BY <1>8 DEF WriteBatch, Net
  <2>2. at # <<>> /\ marker = {} /\ Net = TreeFacts(ParentIn(at, walked + 1)) /\ events \cup pending.evs = Said(walked)
    BY <2>1 DEF HealInv, RebuildInv
  <2>3. Net' = base' /\ (pending.add \cap pending.del)' = {} /\ (events \cup pending.evs)' = events'
    BY <2>1 DEF Net, NoPending
  <2>4. walked = Len(at) => TreeFacts(ParentIn(at, walked + 1)) = TreeFacts(Newest(at))
    BY <1>1, <2>2, NewestIs
  <2>5. TreeFacts(ParentIn(at, walked + 1))' = TreeFacts(ParentIn(at, walked + 1)) /\ Said(walked)' = Said(walked)
    BY <1>4, <2>1
  <2>6. CASE pc' = "walk"
    BY <2>1, <2>2, <2>3, <2>5, <2>6 DEF RebuildInv, SyncedIsFresh
  <2>7. CASE pc' = "now" /\ walked = Len(at)
    BY <1>4, <2>1, <2>2, <2>4, <2>5, <2>7 DEF RebuildInv, SyncedIsFresh
  <2> QED
    BY <2>1, <2>6, <2>7
<1>9. CASE CopyNowView
  <2>1. /\ UNCHANGED <<at, mode, events, base, marker>> /\ pc = "now" /\ pc' = "git" /\ now' = base
    BY <1>9 DEF CopyNowView
  <2> QED
    BY <1>4, <2>1 DEF HealInv, RebuildInv, SyncedIsFresh
<1>10. CASE LoadMarker
  <2>1. /\ UNCHANGED <<at, mode, events, base, now>> /\ pc = "git" /\ pc' = "verify"
        /\ marker' = marker \cup OnLine(at)
    BY <1>10 DEF LoadMarker
  <2> QED
    BY <1>4, <2>1 DEF HealInv, RebuildInv, SyncedIsFresh
<1>11. CASE VerifyOnegraph
  <2>1. /\ UNCHANGED <<at, mode>> /\ pc = "verify"
        /\ \/ pc' = "idle" /\ result' = "damaged"
           \/ pc' = "idle" /\ UNCHANGED <<events, base, now, marker>> /\ mode = "rebuild"
           \/ mode # "rebuild"
    BY <1>11 DEF VerifyOnegraph, Ends, store
  <2> QED
    BY <1>2, <1>4, <2>1 DEF HealInv, RebuildInv, SyncedIsFresh
<1>12. CASE \/ BeginWrite \/ RemoveFact \/ LoadEvents \/ RemoveStale \/ RefreshSubject \/ RefreshEnds
            \/ MaterializeNowView
  <2>1. UNCHANGED mode /\ (mode = "append" \/ pc \in {"write", "stale", "refresh"})
    BY <1>12 DEF BeginWrite, RemoveFact, LoadEvents, RemoveStale, RefreshSubject, RefreshEnds,
                 MaterializeNowView, Ends
  <2> QED
    BY <2>1 DEF HealInv, RebuildInv
<1> QED
  BY <1>5, <1>6, <1>7, <1>8, <1>9, <1>10, <1>11, <1>12 DEF SyncStep

LEMMA NextHeals == HealInv /\ [Next]_vars => HealInv'
<1> SUFFICES ASSUME HealInv, [Next]_vars PROVE HealInv'
  OBVIOUS
<1>1. EarnedInv' /\ BranchInv'
  BY NextEarned, NextBranch DEF HealInv
<1>2. CASE UNCHANGED vars
  <2>1. UNCHANGED <<trees, at, events, base, marker, now, pc, mode, walked, pending, result>>
    BY <1>2 DEF vars, repo, store, run
  <2>2. /\ Said(walked)' = Said(walked) /\ Said(Len(at))' = Said(Len(at)) /\ History(at)' = History(at)
        /\ TreeFacts(ParentIn(at, walked + 1))' = TreeFacts(ParentIn(at, walked + 1))
        /\ TreeFacts(Newest(at))' = TreeFacts(Newest(at)) /\ OnLine(at)' = OnLine(at)
    BY <2>1 DEF Said, EventsOf, NewSide, OldSide, Touched, TreeFacts, TreeOf, ParentIn, Newest, History, EventsAt, OnLine
  <2>3. Net' = Net
    BY <2>1 DEF Net
  <2>4. RebuildInv'
    BY <2>1, <2>2, <2>3 DEF HealInv, RebuildInv, SyncedIsFresh
  <2> QED
    BY <1>1, <2>4 DEF HealInv
<1>3. CASE Commit \/ Reset
  BY <1>1, <1>3, RepoRebuilds DEF HealInv
<1>4. CASE SyncStep
  <2>1. CASE WalkCommit
    <3>1. CASE mode = "rebuild"
      BY <1>1, <2>1, <3>1, WalkRebuilds DEF HealInv
    <3>2. CASE mode # "rebuild"
      BY <1>1, <2>1, <3>2 DEF WalkCommit, HealInv, RebuildInv
    <3> QED
      BY <3>1, <3>2
  <2> QED
    BY <1>1, <1>4, <2>1, StepRebuilds DEF HealInv
<1>5. CASE Stop
  <2>1. pc' = "idle" /\ result' = "stopped" /\ UNCHANGED <<at, mode>>
    BY <1>5 DEF Stop, Ends
  <2>2. RebuildInv'
    BY <2>1 DEF HealInv, RebuildInv, SyncedIsFresh
  <2> QED
    BY <1>1, <2>2 DEF HealInv
<1> QED
  BY <1>2, <1>3, <1>4, <1>5 DEF Next

\* However the runs before it were stopped, and whatever they left, a rebuild
\* that ends leaves what a sync of the branch from its first commit means: the
\* facts of its newest tree, the same in the now view, the whole history and
\* the ordinals (sync.rs: clear_derived_graphs, spo_events.rs: retracts_still_live).
THEOREM RebuildsHeal == Spec => []RebuildIsFresh
<1>1. Init => HealInv
  BY InitEarned, InitBranch DEF Init, HealInv, RebuildInv
<1>2. HealInv => RebuildIsFresh
  BY DEF HealInv, RebuildInv, RebuildIsFresh
<1> QED
  BY <1>1, <1>2, NextHeals, PTL DEF Spec

-----------------------------------------------------------------------------
(* Appends to a copy.                                                      *)

\* What the history of a line says up to one of its commits.
Story(g, k) == UNION {EventsOf(ParentIn(g, i), g[i]) : i \in 1..k}

\* A store as a sync of the line g left it, for the branch as it is now: it
\* may have been reset and have grown again since.
StoreOf(g, s) ==
    /\ Len(g) >= 1
    /\ Alike(line, g)
    /\ s.events = Story(g, Len(g))
    /\ s.base = TreeFacts(g[Len(g)])
    /\ s.marker = OnLine(g)
    /\ s.nowHeld => s.now = s.base

Sound(s) ==
    \/ s.events = {} /\ s.base = {} /\ s.marker = {} /\ ~s.nowHeld
    \/ \E g \in Seq(Made) : StoreOf(g, s)

\* The now view says the same, except about subjects still to be refreshed.
NowBut(facts) ==
    nowHeld => \A f : \/ f \in now <=> f \in facts
                      \/ \E h \in changed : h[1] = f[1]

\* An append has, after each commit, exactly its tree and its history.
AppendInv ==
    mode = "append" /\ pc # "idle" =>
        /\ pc \notin {"empty", "now"}
        /\ pc \in {"clear", "walk", "write"} =>
              /\ Net = TreeFacts(ParentIn(at, walked + 1))
              /\ pending.add \cap pending.del = {}
              /\ events \cup pending.evs = Said(walked)
        /\ pc \in {"clear", "walk"} => (nowHeld => now = base)
        /\ pc = "write" => NowBut(Net)
        /\ pc \in {"stale", "git", "verify", "refresh"} =>
              base = TreeFacts(Newest(at)) /\ events = Said(Len(at)) /\ NowBut(base)
        /\ pc = "git" => marker \subseteq OnLine(at)
        /\ pc \in {"verify", "refresh"} => marker = OnLine(at)

EndsRight ==
    /\ pc = "idle" /\ result \in {"synced", "already"} => at # <<>>
    /\ SyncedIsFresh /\ AlreadyIsTrue /\ NeverDamaged

CopyInv ==
    /\ pc = "idle" => Sound(Copied)
    /\ pc # "idle" => Sound(saved)
    /\ AppendInv
    /\ EndsRight

LEMMA MinExists ==
    ASSUME NEW S \in SUBSET Nat, S # {}
    PROVE  \E m \in S : \A j \in S : m <= j
<1>1. PICK m \in S : \A j \in S : ~ (<<j, m>> \in OpToRel(<, Nat))
  BY NatLessThanWellFounded, WFMin
<1>2. \A j \in S : ~ (j < m)
  BY <1>1 DEF OpToRel
<1> QED
  BY <1>2

LEMMA NoEventsSameFacts ==
    ASSUME NEW p, NEW c, EventsOf(p, c) = {}
    PROVE  TreeFacts(p) = TreeFacts(c)
<1>1. OldSide(p, c) \ TreeFacts(c) = {} /\ Asserts(p, c) = {}
  BY DEF EventsOf, Asserts
<1> QED
  BY <1>1, EventsMakeTree

\* Commits at the end of a line that have no events change no facts.
LEMMA QuietTail ==
    ASSUME NEW g \in Seq(Made), NEW i \in 1..Len(g),
           \A j \in (i + 1)..Len(g) : EventsOf(ParentIn(g, j), g[j]) = {}
    PROVE  TreeFacts(g[Len(g)]) = TreeFacts(g[i]) /\ Story(g, Len(g)) = Story(g, i)
<1> DEFINE S == {j \in i..Len(g) : TreeFacts(g[j]) # TreeFacts(g[i])}
<1>0. Len(g) \in Nat
  OBVIOUS
<1>1. S = {}
  <2> SUFFICES ASSUME S # {} PROVE FALSE
    OBVIOUS
  <2>1. S \in SUBSET Nat
    BY <1>0
  <2>2. PICK m \in S : \A j \in S : m <= j
    BY <2>1, MinExists
  <2>3. m \in (i + 1)..Len(g) /\ m - 1 \in i..Len(g) /\ m # 1
    BY <1>0, <2>2
  <2>4. m - 1 \notin S
    BY <2>2, <2>3
  <2>5. TreeFacts(g[m - 1]) = TreeFacts(g[i])
    BY <2>3, <2>4
  <2>6. ParentIn(g, m) = g[m - 1]
    BY <2>3 DEF ParentIn
  <2>7. TreeFacts(g[m - 1]) = TreeFacts(g[m])
    BY <2>3, <2>6, NoEventsSameFacts
  <2> QED
    BY <2>2, <2>5, <2>7
<1>2. Len(g) \in i..Len(g)
  BY <1>0
<1>3. \A j \in 1..Len(g) : j \in 1..i \/ j \in (i + 1)..Len(g)
  BY <1>0
<1>4. \A j \in 1..i : j \in 1..Len(g)
  BY <1>0
<1> HIDE DEF S
<1>5. TreeFacts(g[Len(g)]) = TreeFacts(g[i])
  BY <1>1, <1>2 DEF S
<1> QED
  BY <1>3, <1>4, <1>5 DEF Story

\* What a run that may append, or has nothing to do, finds: the facts and the
\* history of the newest marked commit of the branch.
LEMMA StoreResumes ==
    ASSUME LinesInv, NEW g \in Seq(Made), StoreOf(g, Copied), ~Rewound,
           NEW i \in Marked, \A j \in Marked : j <= i
    PROVE  /\ base = TreeFacts(line[i]) /\ events = Story(line, i)
           /\ \A j \in 1..i : line[j] \in marker
<1>1. /\ line \in Seq(Made) /\ Len(line) \in Nat /\ Len(g) \in Nat /\ i \in 1..Len(line)
      /\ DOMAIN line = 1..Len(line) /\ DOMAIN g = 1..Len(g)
  BY DEF LinesInv, Marked
<1>2. /\ events = Story(g, Len(g)) /\ base = TreeFacts(g[Len(g)]) /\ marker = OnLine(g) /\ Alike(line, g)
  BY DEF StoreOf, Copied
<1>3. PICK k \in 1..Len(g) : g[k] = line[i]
  BY <1>1, <1>2 DEF Marked, OnLine
<1>4. k = i /\ \A j \in 1..i : line[j] = g[j]
  BY <1>1, <1>2, <1>3 DEF Alike
<1>5. \A j \in (i + 1)..Len(g) : g[j] \notin OnLine(line)
  <2> SUFFICES ASSUME NEW j \in (i + 1)..Len(g), NEW m \in 1..Len(line), g[j] = line[m] PROVE FALSE
    BY <1>1 DEF OnLine
  <2>1. j \in 1..Len(g) /\ j > i
    BY <1>1
  <2>2. m = j
    BY <1>2, <2>1 DEF Alike
  <2>3. m \in Marked
    BY <1>1, <1>2, <2>1 DEF Marked, OnLine
  <2> QED
    BY <2>1, <2>2, <2>3
<1>6. \A j \in (i + 1)..Len(g) : EventsOf(ParentIn(g, j), g[j]) = {}
  <2> SUFFICES ASSUME NEW j \in (i + 1)..Len(g), NEW e \in EventsOf(ParentIn(g, j), g[j]) PROVE FALSE
    OBVIOUS
  <2>1. e.commit = g[j]
    BY DEF EventsOf, Event
  <2>2. j \in 1..Len(g)
    BY <1>1
  <2>3. e \in events
    BY <1>2, <2>2 DEF Story
  <2> QED
    BY <1>5, <2>1, <2>3 DEF Rewound
<1>7. TreeFacts(g[Len(g)]) = TreeFacts(g[i]) /\ Story(g, Len(g)) = Story(g, i)
  BY <1>3, <1>4, <1>6, QuietTail
<1>8. line[i] = g[i]
  BY <1>3, <1>4
<1>9. Story(line, i) = Story(g, i)
  <2>1. \A j \in 1..i : ParentIn(line, j) = ParentIn(g, j) /\ line[j] = g[j]
    BY <1>1, <1>4 DEF ParentIn
  <2> QED
    BY <2>1 DEF Story
<1>10. \A j \in 1..i : line[j] \in marker
  BY <1>1, <1>2, <1>3, <1>4 DEF OnLine
<1> QED
  BY <1>2, <1>7, <1>8, <1>9, <1>10

\* On a store with the whole history and all ordinals of a branch, what is
\* live by history is what the newest tree says.
LEMMA HistoryTells ==
    ASSUME at \in Seq(Made), at # <<>>, Alike(at, at), marker = OnLine(at), events = Said(Len(at)), NEW f
    PROVE  LiveByHistory(f) <=> f \in TreeFacts(Newest(at))
<1> DEFINE Plus(i) == f \in NewSide(ParentIn(at, i), at[i]) \ OldSide(ParentIn(at, i), at[i])
           Minus(i) == f \in OldSide(ParentIn(at, i), at[i]) \ TreeFacts(at[i])
           In(i) == f \in TreeFacts(ParentIn(at, i + 1))
           n == Len(at)
<1>1. n \in Nat /\ n >= 1 /\ DOMAIN at = 1..n
  OBVIOUS
<1>2. \A i \in 1..n : Event("+", f, at[i]) \in events <=> Plus(i)
  <2> SUFFICES ASSUME NEW i \in 1..n PROVE Event("+", f, at[i]) \in events <=> Plus(i)
    OBVIOUS
  <2>1. Plus(i) => Event("+", f, at[i]) \in events
    BY DEF Said, EventsOf
  <2>2. ASSUME Event("+", f, at[i]) \in events PROVE Plus(i)
    <3>1. PICK j \in 1..n : Event("+", f, at[i]) \in EventsOf(ParentIn(at, j), at[j])
      BY <2>2 DEF Said
    <3>2. at[j] = at[i] /\ f \in NewSide(ParentIn(at, j), at[j]) \ OldSide(ParentIn(at, j), at[j])
      BY <3>1 DEF EventsOf, Event
    <3>3. j = i
      BY <3>2 DEF Alike
    <3> QED
      BY <3>2, <3>3
  <2> QED
    BY <2>1, <2>2
<1>3. \A i \in 1..n : Event("-", f, at[i]) \in events <=> Minus(i)
  <2> SUFFICES ASSUME NEW i \in 1..n PROVE Event("-", f, at[i]) \in events <=> Minus(i)
    OBVIOUS
  <2>1. Minus(i) => Event("-", f, at[i]) \in events
    BY DEF Said, EventsOf
  <2>2. ASSUME Event("-", f, at[i]) \in events PROVE Minus(i)
    <3>1. PICK j \in 1..n : Event("-", f, at[i]) \in EventsOf(ParentIn(at, j), at[j])
      BY <2>2 DEF Said
    <3>2. at[j] = at[i] /\ f \in OldSide(ParentIn(at, j), at[j]) \ TreeFacts(at[j])
      BY <3>1 DEF EventsOf, Event
    <3>3. j = i
      BY <3>2 DEF Alike
    <3> QED
      BY <3>2, <3>3
  <2> QED
    BY <2>1, <2>2
<1>4. /\ OrdinalsOf("+", f) = {i \in 1..n : Plus(i)}
      /\ OrdinalsOf("-", f) = {i \in 1..n : Minus(i)}
  <2>1. \A i \in 1..n : at[i] \in marker
    BY <1>1 DEF OnLine
  <2> HIDE DEF Plus, Minus
  <2> QED
    BY <1>1, <1>2, <1>3, <2>1 DEF OrdinalsOf
<1>5. \A i \in 1..n : /\ In(i) <=> (In(i - 1) /\ ~Minus(i)) \/ Plus(i)
                      /\ Plus(i) => ~Minus(i)
  <2> SUFFICES ASSUME NEW i \in 1..n PROVE (In(i) <=> (In(i - 1) /\ ~Minus(i)) \/ Plus(i)) /\ (Plus(i) => ~Minus(i))
    OBVIOUS
  <2>1. ParentIn(at, i + 1) = at[i] /\ (i - 1) + 1 = i
    BY DEF ParentIn
  <2>2. NewSide(ParentIn(at, i), at[i]) \subseteq TreeFacts(at[i])
    BY DEF NewSide, TreeFacts, FactsIn, Touched
  <2>3. (TreeFacts(ParentIn(at, i)) \ (OldSide(ParentIn(at, i), at[i]) \ TreeFacts(at[i]))) \cup Asserts(ParentIn(at, i), at[i])
          = TreeFacts(at[i])
    BY EventsMakeTree
  <2> QED
    BY <2>1, <2>2, <2>3 DEF Asserts
<1>6. ~In(0)
  BY DEF ParentIn, TreeFacts, TreeOf, EmptyTree, FactsIn, FactsOf
<1>7. In(n) <=> f \in TreeFacts(Newest(at))
  BY NewestIs
<1> HIDE DEF Plus, Minus, In
<1>8. ASSUME NEW i \in 1..n, Plus(i), \A j \in 1..n : Minus(j) => j < i
      PROVE  In(n)
  <2> DEFINE S == {k \in i..n : ~In(k)}
  <2>1. S = {}
    <3> SUFFICES ASSUME S # {} PROVE FALSE
      OBVIOUS
    <3>1. S \in SUBSET Nat
      BY <1>1
    <3>2. PICK m \in S : \A j \in S : m <= j
      BY <3>1, MinExists
    <3>3. m \in i..n /\ ~In(m) /\ m \in 1..n
      BY <1>1
    <3>4. m # i
      BY <1>5, <1>8, <3>3
    <3>5. m - 1 \in i..n /\ m - 1 \notin S
      BY <1>1, <3>2, <3>3, <3>4
    <3>6. In(m - 1)
      BY <3>5
    <3>7. Minus(m)
      BY <1>5, <3>3, <3>6
    <3> QED
      BY <1>8, <3>3, <3>7
  <2>2. n \in i..n
    BY <1>1
  <2> QED
    BY <2>1, <2>2
<1>9. ASSUME In(n)
      PROVE  \E i \in 1..n : Plus(i) /\ \A j \in 1..n : Minus(j) => j < i
  <2> DEFINE S == {k \in 1..n : \A j \in k..n : In(j)}
  <2>1. n \in S
    BY <1>1, <1>9
  <2>2. S \in SUBSET Nat /\ S # {}
    BY <1>1, <2>1
  <2>3. PICK m \in S : \A j \in S : m <= j
    BY <2>2, MinExists
  <2>4. m \in 1..n /\ m - 1 \in 0..n /\ (\A j \in m..n : In(j)) /\ In(m)
    BY <1>1
  <2>5. ~In(m - 1)
    <3>1. CASE m = 1
      BY <1>6, <3>1
    <3>2. CASE m # 1
      <4>1. m - 1 \in 1..n /\ m - 1 \notin S
        BY <1>1, <2>3, <2>4, <3>2
      <4>2. PICK j \in (m - 1)..n : ~In(j)
        BY <4>1
      <4>3. j \notin m..n
        BY <2>4, <4>2
      <4>4. j = m - 1
        BY <1>1, <2>4, <4>2, <4>3
      <4> QED
        BY <4>2, <4>4
    <3> QED
      BY <3>1, <3>2
  <2>6. Plus(m)
    BY <1>5, <2>4, <2>5
  <2>7. ASSUME NEW j \in 1..n, Minus(j), ~(j < m) PROVE FALSE
    <3>1. j \in m..n
      BY <1>1, <2>4, <2>7
    <3>2. In(j)
      BY <2>4, <3>1
    <3> QED
      BY <1>5, <2>7, <3>2
  <2> QED
    BY <2>4, <2>6, <2>7
<1>10. LiveByHistory(f) <=> \E i \in 1..n : Plus(i) /\ \A j \in 1..n : Minus(j) => j < i
  BY <1>4 DEF LiveByHistory
<1> QED
  BY <1>7, <1>8, <1>9, <1>10

\* A tree's facts are among the facts there can be.
LEMMA TreeFactsAreFacts ==
    ASSUME trees \in Seq([Sidecars -> SUBSET Props]), NEW c \in 0..Len(trees)
    PROVE  TreeFacts(c) \subseteq Facts
<1>1. \A s \in Sidecars : TreeOf(c)[s] \subseteq Props
  BY DEF TreeOf, EmptyTree
<1>2. \A s \in Sidecars : FactsOf(s, TreeOf(c)[s]) \subseteq FactsOf(s, Props)
  BY <1>1 DEF FactsOf
<1> QED
  BY <1>2 DEF TreeFacts, Facts, FactsIn

\* So the check passes.
LEMMA ChecksPass ==
    ASSUME LinesInv, at # <<>>, marker = OnLine(at), events = Said(Len(at)), base = TreeFacts(Newest(at))
    PROVE  Verified
<1>1. at \in Seq(Made) /\ Len(at) \in Nat /\ Len(at) >= 1 /\ Alike(at, at)
  BY DEF LinesInv
<1>2. \A f : LiveByHistory(f) <=> f \in base
  BY <1>1, HistoryTells
<1>3. \A e \in events : e.commit \in marker
  <2> SUFFICES ASSUME NEW e \in events PROVE e.commit \in marker
    OBVIOUS
  <2>1. PICK i \in 1..Len(at) : e \in EventsOf(ParentIn(at, i), at[i])
    BY DEF Said
  <2>2. e.commit = at[i]
    BY <2>1 DEF EventsOf, Event
  <2> QED
    BY <1>1, <2>2 DEF OnLine
<1>4. base \subseteq Facts
  <2>1. Newest(at) \in 0..Len(trees)
    BY <1>1 DEF Newest, Made
  <2> QED
    BY <2>1, TreeFactsAreFacts DEF LinesInv
<1>5. {f \in Facts : LiveByHistory(f)} = base
  BY <1>2, <1>4
<1> QED
  BY <1>2, <1>3, <1>5 DEF Verified, StatementsHold, CountsHold, Dangling

\* What is known of a line stays true while the repository moves.
LEMMA LineSays ==
    ASSUME LinesInv, Commit \/ Reset, NEW g \in Seq(Made)
    PROVE  /\ \A i \in 1..Len(g) : TreeFacts(g[i])' = TreeFacts(g[i])
           /\ \A k \in 0..Len(g) : Story(g, k)' = Story(g, k)
<1>1. CASE Reset
  <2>1. UNCHANGED trees
    BY <1>1 DEF Reset
  <2> QED
    BY <2>1 DEF Story, EventsOf, NewSide, OldSide, Touched, TreeFacts, TreeOf
<1>2. CASE Commit
  <2>1. PICK t \in [Sidecars -> SUBSET Props] : trees' = Append(trees, t)
    BY <1>2 DEF Commit
  <2>2. \A c \in 0..Len(trees) : TreeFacts(c)' = TreeFacts(c)
    BY <2>1, FactsKept DEF LinesInv
  <2>3. \A p \in 0..Len(trees), c \in 0..Len(trees) : EventsOf(p, c)' = EventsOf(p, c)
    BY <2>1, TreesKept DEF LinesInv
  <2>4. \A i \in 1..Len(g) : g[i] \in 0..Len(trees) /\ ParentIn(g, i) \in 0..Len(trees)
    BY ParentMade
  <2>5. \A i \in 1..Len(g) : EventsOf(ParentIn(g, i), g[i])' = EventsOf(ParentIn(g, i), g[i])
    <3> SUFFICES ASSUME NEW i \in 1..Len(g)
                 PROVE  EventsOf(ParentIn(g, i), g[i])' = EventsOf(ParentIn(g, i), g[i])
      OBVIOUS
    <3>1. PICK p \in 0..Len(trees), c \in 0..Len(trees) : p = ParentIn(g, i) /\ c = g[i]
      BY <2>4
    <3>2. ParentIn(g, i)' = p
      BY <3>1 DEF ParentIn
    <3>3. EventsOf(p, c)' = EventsOf(p, c)
      BY <2>3
    <3> QED
      BY <3>1, <3>2, <3>3
  <2>6. \A k \in 0..Len(g) : Story(g, k)' = Story(g, k)
    <3> SUFFICES ASSUME NEW k \in 0..Len(g) PROVE Story(g, k)' = Story(g, k)
      OBVIOUS
    <3>1. \A i \in 1..k : i \in 1..Len(g)
      OBVIOUS
    <3>2. \A i \in 1..k : EventsOf(ParentIn(g, i), g[i])' = EventsOf(ParentIn(g, i), g[i])
      BY <2>5, <3>1
    <3> QED
      BY <3>2 DEF Story
  <2>7. \A i \in 1..Len(g) : TreeFacts(g[i])' = TreeFacts(g[i])
    BY <2>2, <2>4
  <2> QED
    BY <2>6, <2>7
<1> QED
  BY <1>1, <1>2

LEMMA SoundMoves ==
    ASSUME LinesInv, Commit \/ Reset, NEW s, Sound(s)
    PROVE  Sound(s)'
<1>1. CASE s.events = {} /\ s.base = {} /\ s.marker = {} /\ ~s.nowHeld
  BY <1>1 DEF Sound
<1>2. CASE \E g \in Seq(Made) : StoreOf(g, s)
  <2>1. PICK g \in Seq(Made) : StoreOf(g, s)
    BY <1>2
  <2>2. Len(g) \in Nat /\ Len(g) >= 1 /\ Len(g) \in 1..Len(g) /\ Len(g) \in 0..Len(g)
    BY <2>1 DEF StoreOf
  <2>3. TreeFacts(g[Len(g)])' = TreeFacts(g[Len(g)]) /\ Story(g, Len(g))' = Story(g, Len(g))
    BY <2>2, LineSays
  <2>4. g \in Seq(Made') /\ Alike(line', g)
    <3>1. Alike(line, line) /\ Alike(line, g) /\ line \in Seq(Made) /\ Len(line) \in Nat /\ Len(trees) \in Nat
      BY <2>1 DEF StoreOf, LinesInv
    <3>2. CASE Commit
      <4>1. PICK t \in [Sidecars -> SUBSET Props] : trees' = Append(trees, t)
        BY <3>2 DEF Commit
      <4>2. Len(trees') = Len(trees) + 1
        BY <4>1 DEF LinesInv
      <4>3. line' = Append(line, Len(trees) + 1)
        BY <3>2, <4>2 DEF Commit
      <4>4. Alike(Append(line, Len(trees) + 1), g)
        BY <3>1, AlikeAppend DEF Made
      <4>5. Made \subseteq Made'
        BY <3>1, <4>2 DEF Made
      <4>6. g \in Seq(Made')
        BY <4>5
      <4> QED
        BY <4>3, <4>4, <4>6
    <3>3. CASE Reset
      <4>1. PICK n \in 1..(Len(line) - 1) : line' = SubSeq(line, 1, n)
        BY <3>3 DEF Reset
      <4>2. /\ n \in Nat /\ Len(line') = n /\ n <= Len(line)
            /\ \A i \in 1..n : line'[i] = line[i]
        BY <3>1, <4>1
      <4>3. Alike(line', g)
        BY <3>1, <4>2, AlikeBeginning, Zenon
      <4>4. Made' = Made
        BY <3>3 DEF Made, Reset
      <4> QED
        BY <4>3, <4>4
    <3> QED
      BY <3>2, <3>3
  <2>5. StoreOf(g, s)'
    <3>1. OnLine(g)' = OnLine(g) /\ Alike(line, g)' = Alike(line', g)
      BY DEF OnLine, Alike
    <3> QED
      BY <2>1, <2>2, <2>3, <2>4, <3>1 DEF StoreOf
  <2> QED
    BY <2>4, <2>5 DEF Sound
<1> QED
  BY <1>1, <1>2 DEF Sound

\* A step of a run moves no line.
LEMMA SoundStays ==
    ASSUME UNCHANGED <<trees, line>>, NEW s, Sound(s)
    PROVE  Sound(s)'
<1>1. Made' = Made
  BY DEF Made
<1>2. ASSUME NEW g \in Seq(Made), StoreOf(g, s)
      PROVE  StoreOf(g, s)'
  BY <1>2 DEF StoreOf, Alike, Story, EventsOf, NewSide, OldSide, Touched, TreeFacts, TreeOf, ParentIn, OnLine
<1> QED
  BY <1>1, <1>2 DEF Sound

LEMMA RepoCopies ==
    ASSUME HealInv, CopyInv, Commit \/ Reset
    PROVE  CopyInv'
<1>0. LinesInv /\ walked \in 0..Len(at) /\ (pc # "idle" => at # <<>>)
  BY DEF HealInv, EarnedInv, WalkInv
<1>1. /\ UNCHANGED <<events, base, marker, now, nowHeld, saved, at, pc, mode, walked, pending, changed, result>>
      /\ TreeFacts(ParentIn(at, walked + 1))' = TreeFacts(ParentIn(at, walked + 1))
      /\ at # <<>> => TreeFacts(Newest(at))' = TreeFacts(Newest(at))
      /\ Said(walked)' = Said(walked) /\ Said(Len(at))' = Said(Len(at))
      /\ History(at)' = History(at) /\ OnLine(at)' = OnLine(at)
  BY <1>0, BranchStays
<1>2. pc = "idle" => Sound(Copied)'
  <2> SUFFICES ASSUME pc = "idle" PROVE Sound(Copied)'
    OBVIOUS
  <2>1. PICK s : s = Copied
    OBVIOUS
  <2>2. Copied' = s
    BY <1>1, <2>1 DEF Copied
  <2>3. Sound(s)'
    BY <1>0, <2>1, SoundMoves DEF CopyInv
  <2> QED
    BY <2>2, <2>3
<1>3. pc # "idle" => Sound(saved)'
  <2> SUFFICES ASSUME pc # "idle" PROVE Sound(saved)'
    OBVIOUS
  <2>1. PICK s : s = saved
    OBVIOUS
  <2>2. Sound(s)'
    BY <1>0, <2>1, SoundMoves DEF CopyInv
  <2> QED
    BY <1>1, <2>1, <2>2
<1>4. AppendInv'
  <2>1. Net' = Net /\ NowBut(Net)' = NowBut(Net) /\ NowBut(base)' = NowBut(base)
    BY <1>1 DEF Net, NowBut
  <2> QED
    BY <1>0, <1>1, <2>1 DEF CopyInv, AppendInv
<1>5. EndsRight'
  BY <1>1 DEF CopyInv, EndsRight, SyncedIsFresh, AlreadyIsTrue, NeverDamaged
<1> QED
  BY <1>1, <1>2, <1>3, <1>4, <1>5 DEF CopyInv

LEMMA ResumeNewest ==
    ASSUME line \in Seq(Made), Marked # {}
    PROVE  ResumePoint \in Marked /\ \A j \in Marked : j <= ResumePoint
<1>1. Marked \in SUBSET (1..Len(line)) /\ Len(line) \in Nat
  BY DEF Marked
<1>2. \E m \in Marked : \A j \in Marked : j <= m
  BY <1>1, MaxExists
<1> QED
  BY <1>2 DEF ResumePoint

\* Nothing the branch says changes in a step of a run.
LEMMA RunSays ==
    ASSUME UNCHANGED <<trees, at>>
    PROVE  /\ \A k : Said(k)' = Said(k) /\ \A i : TreeFacts(ParentIn(at, i))' = TreeFacts(ParentIn(at, i))
           /\ TreeFacts(Newest(at))' = TreeFacts(Newest(at))
           /\ History(at)' = History(at) /\ OnLine(at)' = OnLine(at)
BY DEF Said, EventsOf, NewSide, OldSide, Touched, TreeFacts, TreeOf, ParentIn, Newest, History, EventsAt, OnLine

LEMMA BeginCopies ==
    ASSUME HealInv, CopyInv, AlreadySynced \/ BeginSync
    PROVE  CopyInv'
<1>1. /\ pc = "idle" /\ at' = line /\ saved' = Copied /\ Sound(Copied) /\ pending = NoPending
      /\ UNCHANGED <<trees, line, events, base, marker, now, nowHeld, pending, changed>>
  BY DEF AlreadySynced, BeginSync, Begins, repo, store, CopyInv, HealInv, BranchInv
<1>2. LinesInv /\ line # <<>> /\ line \in Seq(Made) /\ Len(line) \in Nat /\ Len(line) >= 1 /\ DOMAIN line = 1..Len(line)
  BY DEF HealInv, EarnedInv, LinesInv
<1>3. Copied' = Copied
  BY <1>1 DEF Copied
<1>4. Sound(Copied)' /\ Sound(saved)'
  <2>1. PICK s : s = Copied
    OBVIOUS
  <2>2. Sound(s)'
    BY <1>1, <2>1, SoundStays
  <2> QED
    BY <1>1, <1>3, <2>1, <2>2
<1>5. ASSUME ~Rewound, NEW i \in Marked, \A j \in Marked : j <= i
      PROVE  /\ base = TreeFacts(line[i]) /\ events = Story(line, i) /\ (nowHeld => now = base)
             /\ \A j \in 1..i : line[j] \in marker
  <2>1. marker # {}
    BY DEF Marked
  <2>2. PICK g \in Seq(Made) : StoreOf(g, Copied)
    BY <1>1, <2>1 DEF Sound, Copied
  <2>3. nowHeld => now = base
    BY <2>2 DEF StoreOf, Copied
  <2> QED
    BY <1>2, <1>5, <2>2, <2>3, StoreResumes
<1>6. CASE AlreadySynced
  <2>1. FastPathHit /\ result' = "already" /\ pc' = "idle"
    BY <1>1, <1>6 DEF AlreadySynced
  <2>2. Len(line) \in Marked /\ \A j \in Marked : j <= Len(line)
    BY <1>2, <2>1 DEF FastPathHit, Marked
  <2>3. /\ base = TreeFacts(line[Len(line)]) /\ events = Story(line, Len(line)) /\ (nowHeld => now = base)
        /\ \A j \in 1..Len(line) : line[j] \in marker
    BY <1>5, <2>1, <2>2 DEF FastPathHit
  <2>4. Story(line, Len(line)) = History(line)
    BY <1>2, EventsAtIs DEF Story, History
  <2>5. TreeFacts(Newest(at))' = TreeFacts(line[Len(line)]) /\ History(at)' = History(line) /\ OnLine(at)' = OnLine(line)
    BY <1>1 DEF Newest, TreeFacts, TreeOf, History, EventsAt, OldSide, NewSide, Touched, ParentIn, OnLine
  <2>6. OnLine(line) \subseteq marker
    BY <1>2, <2>3 DEF OnLine
  <2>7. EndsRight'
    BY <1>1, <1>2, <2>1, <2>3, <2>4, <2>5, <2>6 DEF EndsRight, SyncedIsFresh, AlreadyIsTrue, NeverDamaged
  <2> QED
    BY <1>4, <2>1, <2>7 DEF CopyInv, AppendInv
<1>7. CASE BeginSync
  <2>1. pc' = "clear" /\ result' = "none"
    BY <1>7 DEF BeginSync
  <2>2. EndsRight'
    BY <2>1 DEF EndsRight, SyncedIsFresh, AlreadyIsTrue, NeverDamaged
  <2>3. CASE ~Resumable
    <3>1. mode' = "rebuild"
      BY <1>7, <2>3 DEF BeginSync
    <3> QED
      BY <1>4, <2>1, <2>2, <3>1 DEF CopyInv, AppendInv
  <2>4. CASE Resumable
    <3>1. mode' = "append" /\ walked' = ResumePoint
      BY <1>7, <2>4 DEF BeginSync
    <3>2. PICK i : i = ResumePoint
      OBVIOUS
    <3>3. ~Rewound /\ i \in Marked /\ \A j \in Marked : j <= i
      BY <1>2, <2>4, <3>2, ResumeNewest DEF Resumable
    <3>4. base = TreeFacts(line[i]) /\ events = Story(line, i) /\ (nowHeld => now = base)
      BY <1>5, <3>3
    <3>5. i \in 1..Len(line)
      BY <1>2, <3>3 DEF Marked
    <3>6. TreeFacts(ParentIn(at, walked + 1))' = TreeFacts(line[i])
      <4>1. ParentIn(at, walked + 1)' = line[i]
        BY <1>1, <1>2, <3>1, <3>2, <3>5 DEF ParentIn
      <4> QED
        BY <1>1, <4>1 DEF TreeFacts, TreeOf
    <3>7. Said(walked)' = Story(line, i)
      BY <1>1, <3>1, <3>2 DEF Said, Story, EventsOf, OldSide, NewSide, Touched, TreeFacts, TreeOf, ParentIn
    <3>8. Net' = base /\ (pending.add \cap pending.del)' = {} /\ (events \cup pending.evs)' = events
      BY <1>1 DEF Net, NoPending
    <3>9. AppendInv'
      BY <1>1, <2>1, <3>4, <3>6, <3>7, <3>8 DEF AppendInv
    <3> QED
      BY <1>4, <2>1, <2>2, <3>9 DEF CopyInv
  <2> QED
    BY <2>3, <2>4
<1> QED
  BY <1>6, <1>7

\* What a run that ends leaves is the next run's start.
LEMMA FreshIsSound ==
    ASSUME LinesInv, at # <<>>, NEW s, s.events = Said(Len(at)), s.base = TreeFacts(Newest(at)),
           s.marker = OnLine(at), s.nowHeld => s.now = s.base
    PROVE  Sound(s)
<1>1. at \in Seq(Made) /\ Len(at) >= 1 /\ Alike(line, at)
  BY DEF LinesInv
<1>2. StoreOf(at, s)
  BY <1>1 DEF StoreOf, Story, Said, Newest
<1> QED
  BY <1>1, <1>2 DEF Sound

\* The steps of a run that goes on.
LEMMA GoesOnCopies ==
    ASSUME HealInv, CopyInv,
           \/ ClearDerived \/ EmptyHistory \/ WalkCommit \/ WriteBatch \/ BeginWrite \/ RemoveFact \/ LoadEvents
           \/ CopyNowView \/ RemoveStale \/ LoadMarker \/ RefreshSubject
    PROVE  CopyInv'
<1>1. pc # "idle" /\ pc' # "idle" /\ UNCHANGED <<trees, line, at, mode, saved, result>>
  BY DEF ClearDerived, EmptyHistory, WalkCommit, WriteBatch, BeginWrite, RemoveFact, LoadEvents,
         CopyNowView, RemoveStale, LoadMarker, RefreshSubject, repo
<1>2. Sound(saved)'
  <2>1. PICK s : s = saved
    OBVIOUS
  <2>2. Sound(s)'
    BY <1>1, <2>1, SoundStays DEF CopyInv
  <2> QED
    BY <1>1, <2>1, <2>2
<1>3. EndsRight'
  BY <1>1 DEF CopyInv, EndsRight, SyncedIsFresh, AlreadyIsTrue, NeverDamaged
<1>4. /\ \A k : Said(k)' = Said(k) /\ \A i : TreeFacts(ParentIn(at, i))' = TreeFacts(ParentIn(at, i))
      /\ TreeFacts(Newest(at))' = TreeFacts(Newest(at)) /\ OnLine(at)' = OnLine(at)
  BY <1>1, RunSays
<1>5. at # <<>> /\ at \in Seq(Made) /\ Len(at) \in Nat /\ walked \in 0..Len(at) /\ (pc = "write" => walked = Len(at))
  BY <1>1 DEF HealInv, EarnedInv, LinesInv, WalkInv
<1>6. AppendInv'
  <2> SUFFICES ASSUME mode = "append" PROVE AppendInv'
    BY <1>1 DEF AppendInv
  <2>0. AppendInv
    BY DEF CopyInv
  <2>1. CASE ClearDerived
    <3>1. /\ pc = "clear" /\ pc' = "walk"
          /\ UNCHANGED <<events, base, now, nowHeld, walked, pending, changed>>
      BY <2>1 DEF ClearDerived
    <3>2. Net' = Net
      BY <3>1 DEF Net
    <3> QED
      BY <1>1, <1>4, <2>0, <3>1, <3>2 DEF AppendInv
  <2>2. CASE EmptyHistory
    BY <2>0, <2>2, <1>1 DEF EmptyHistory, AppendInv
  <2>3. CASE WalkCommit
    <3>1. pc = "walk" /\ pc' = "walk" /\ UNCHANGED <<base, now, nowHeld>>
      BY <2>3 DEF WalkCommit, store
    <3>2. /\ Net = TreeFacts(ParentIn(at, walked + 1)) /\ pending.add \cap pending.del = {}
          /\ events \cup pending.evs = Said(walked) /\ (nowHeld => now = base)
      BY <1>1, <2>0, <3>1 DEF AppendInv
    <3>3. /\ Net' = TreeFacts(ParentIn(at, walked + 1))'
          /\ (pending.add \cap pending.del)' = {}
          /\ (events \cup pending.evs)' = Said(walked)'
      BY <1>5, <2>3, <3>2, WalkKeeps
    <3> QED
      BY <3>1, <3>2, <3>3 DEF AppendInv
  <2>4. CASE WriteBatch \/ CopyNowView
    BY <2>0, <2>4, <1>1 DEF WriteBatch, CopyNowView, AppendInv
  <2>5. CASE BeginWrite
    <3>1. /\ pc = "walk" /\ pc' = "write" /\ changed' = pending.add \cup pending.del
          /\ UNCHANGED <<events, base, now, nowHeld, walked, pending>>
      BY <2>5 DEF BeginWrite, store
    <3>2. Net' = Net
      BY <3>1 DEF Net
    <3>3. nowHeld => now = base
      BY <1>1, <2>0, <3>1 DEF AppendInv
    <3>4. NowBut(Net)'
      BY <3>1, <3>2, <3>3 DEF NowBut, Net
    <3> QED
      BY <1>1, <1>4, <2>0, <3>1, <3>2, <3>4 DEF AppendInv
  <2>6. CASE RemoveFact
    <3>1. PICK f \in pending.del : base' = base \ {f} /\ pending' = [pending EXCEPT !.del = @ \ {f}]
      BY <2>6 DEF RemoveFact
    <3>2. pc = "write" /\ pc' = "write" /\ UNCHANGED <<events, now, nowHeld, walked, changed>>
      BY <2>6 DEF RemoveFact
    <3>3. pending = [add |-> pending.add, del |-> pending.del, evs |-> pending.evs]
      BY DEF HealInv, EarnedInv, WalkInv
    <3>4. pending' = [add |-> pending.add, del |-> pending.del \ {f}, evs |-> pending.evs]
      BY <3>1, <3>3
    <3>5. pending'.add = pending.add /\ pending'.del = pending.del \ {f} /\ pending'.evs = pending.evs
      BY <3>4
    <3>6. pending.add \cap pending.del = {}
      BY <1>1, <2>0, <3>2 DEF AppendInv
    <3>7. Net' = Net
      BY <3>1, <3>5, <3>6 DEF Net
    <3>8. NowBut(Net)' = NowBut(Net)
      BY <3>2, <3>7 DEF NowBut
    <3> QED
      BY <1>1, <1>4, <2>0, <3>2, <3>5, <3>7, <3>8 DEF AppendInv
  <2>7. CASE LoadEvents
    <3>1. /\ pc = "write" /\ pc' = "stale" /\ pending.del = {} /\ base' = base \cup pending.add
          /\ events' = events \cup pending.evs /\ UNCHANGED <<now, nowHeld, walked, changed>>
      BY <2>7 DEF LoadEvents
    <3>2. /\ Net = TreeFacts(ParentIn(at, walked + 1)) /\ events \cup pending.evs = Said(walked) /\ NowBut(Net)
          /\ walked = Len(at)
      BY <1>1, <1>5, <2>0, <3>1 DEF AppendInv
    <3>3. base' = Net
      BY <3>1 DEF Net
    <3>4. TreeFacts(ParentIn(at, walked + 1)) = TreeFacts(Newest(at))
      BY <1>5, <3>2, NewestIs
    <3>5. NowBut(base)' = NowBut(Net)
      BY <3>1, <3>3 DEF NowBut
    <3>6. Said(Len(at))' = Said(Len(at))
      BY <1>1, <1>4
    <3> QED
      BY <1>4, <3>1, <3>2, <3>3, <3>4, <3>5, <3>6 DEF AppendInv
  <2>8. CASE RemoveStale \/ LoadMarker
    <3>1. /\ UNCHANGED <<events, base, now, nowHeld, changed>>
          /\ \/ pc = "stale" /\ pc' = "git" /\ marker' = marker \cap OnLine(at)
             \/ pc = "git" /\ pc' = "verify" /\ marker' = marker \cup OnLine(at)
      BY <2>8 DEF RemoveStale, LoadMarker
    <3>2. NowBut(base)' = NowBut(base)
      BY <3>1 DEF NowBut
    <3>3. Said(Len(at))' = Said(Len(at))
      BY <1>1, <1>4
    <3> QED
      BY <1>1, <1>4, <2>0, <3>1, <3>2, <3>3 DEF AppendInv
  <2>9. CASE RefreshSubject
    <3>1. PICK h \in changed : /\ now' = (now \ About(h[1], now)) \cup About(h[1], base)
                               /\ changed' = changed \ About(h[1], changed)
      BY <2>9 DEF RefreshSubject
    <3>2. pc = "refresh" /\ pc' = "refresh" /\ UNCHANGED <<events, base, marker, nowHeld>> /\ nowHeld
      BY <2>9 DEF RefreshSubject
    <3>3. NowBut(base)
      BY <1>1, <2>0, <3>2 DEF AppendInv
    <3>4. NowBut(base)'
      <4> SUFFICES ASSUME NEW f PROVE (f \in now' <=> f \in base) \/ \E k \in changed' : k[1] = f[1]
        BY <3>2 DEF NowBut
      <4>1. CASE f[1] = h[1]
        BY <3>1, <4>1 DEF About
      <4>2. CASE f[1] # h[1]
        BY <3>1, <3>2, <3>3, <4>2 DEF About, NowBut
      <4> QED
        BY <4>1, <4>2
    <3>5. Said(Len(at))' = Said(Len(at))
      BY <1>1, <1>4
    <3> QED
      BY <1>1, <1>4, <2>0, <3>2, <3>4, <3>5 DEF AppendInv
  <2> QED
    BY <2>1, <2>2, <2>3, <2>4, <2>5, <2>6, <2>7, <2>8, <2>9
<1> QED
  BY <1>1, <1>2, <1>3, <1>6 DEF CopyInv

\* The steps that end a run.
LEMMA LastStepsCopy ==
    ASSUME HealInv, CopyInv, OnCopy, VerifyOnegraph \/ RefreshEnds \/ MaterializeNowView \/ Stop
    PROVE  CopyInv'
<1>1. UNCHANGED <<trees, line, at, saved>> /\ pc # "idle"
  BY DEF VerifyOnegraph, RefreshEnds, MaterializeNowView, Stop, Ends, Fails, repo
<1>2. LinesInv /\ at # <<>> /\ at \in Seq(Made) /\ mode \in {"append", "rebuild"} /\ AppendInv /\ EndsRight
  BY <1>1 DEF HealInv, EarnedInv, LinesInv, WalkInv, CopyInv
<1>3. History(at) = Said(Len(at))
  BY <1>2, SaidIsHistory
<1>4. TreeFacts(Newest(at))' = TreeFacts(Newest(at)) /\ History(at)' = History(at) /\ OnLine(at)' = OnLine(at)
      /\ Said(Len(at))' = Said(Len(at))
  BY <1>1, RunSays
<1>5. ASSUME pc' = "idle", result' = "synced", base' = TreeFacts(Newest(at)), events' = Said(Len(at)),
             marker' = OnLine(at), now' = base'
      PROVE  CopyInv'
  <2>1. PICK s : s = Copied'
    OBVIOUS
  <2>2. s.events = Said(Len(at)) /\ s.base = TreeFacts(Newest(at)) /\ s.marker = OnLine(at) /\ s.now = s.base
    BY <1>5, <2>1 DEF Copied
  <2>3. Sound(s)
    BY <1>2, <2>2, FreshIsSound
  <2>4. Sound(s)'
    BY <1>1, <2>3, SoundStays
  <2>5. EndsRight'
    BY <1>1, <1>2, <1>3, <1>4, <1>5 DEF EndsRight, SyncedIsFresh, AlreadyIsTrue, NeverDamaged
  <2> QED
    BY <1>5, <2>1, <2>4, <2>5 DEF CopyInv, AppendInv
<1>6. CASE VerifyOnegraph
  <2>1. pc = "verify"
    BY <1>6 DEF VerifyOnegraph
  <2>2. marker = OnLine(at) /\ events = Said(Len(at)) /\ base = TreeFacts(Newest(at))
    BY <1>2, <2>1 DEF HealInv, RebuildInv, AppendInv
  <2>3. Verified
    BY <1>2, <2>2, ChecksPass
  <2>4. CASE mode = "rebuild"
    <3>1. now = base
      BY <2>1, <2>4 DEF HealInv, RebuildInv
    <3>2. pc' = "idle" /\ result' = "synced" /\ UNCHANGED <<events, base, marker, now>>
      BY <1>6, <2>3, <2>4 DEF VerifyOnegraph, Ends, store
    <3> QED
      BY <1>5, <2>2, <3>1, <3>2
  <2>5. CASE mode = "append"
    <3>1. /\ pc' = "refresh"
          /\ UNCHANGED <<events, base, marker, now, nowHeld, mode, walked, pending, changed, result>>
      BY <1>6, <2>3, <2>5 DEF VerifyOnegraph, store
    <3>2. NowBut(base)' = NowBut(base)
      BY <3>1 DEF NowBut
    <3>3. AppendInv'
      BY <1>1, <1>2, <1>4, <2>1, <2>2, <2>5, <3>1, <3>2 DEF AppendInv
    <3>4. Sound(saved)'
      <4>1. PICK s : s = saved
        OBVIOUS
      <4>2. Sound(s)'
        BY <1>1, <4>1, SoundStays DEF CopyInv
      <4> QED
        BY <1>1, <4>1, <4>2
    <3>5. EndsRight'
      BY <1>2, <3>1 DEF EndsRight, SyncedIsFresh, AlreadyIsTrue, NeverDamaged
    <3> QED
      BY <3>1, <3>3, <3>4, <3>5 DEF CopyInv
  <2> QED
    BY <1>2, <2>4, <2>5
<1>7. CASE RefreshEnds \/ MaterializeNowView
  <2>1. pc = "refresh" /\ pc' = "idle" /\ result' = "synced" /\ UNCHANGED <<events, base, marker>>
    BY <1>7 DEF RefreshEnds, MaterializeNowView, Ends, store
  <2>2. mode = "append"
    BY <1>2, <2>1 DEF HealInv, RebuildInv
  <2>3. base = TreeFacts(Newest(at)) /\ events = Said(Len(at)) /\ NowBut(base) /\ marker = OnLine(at)
    BY <1>1, <1>2, <2>1, <2>2 DEF AppendInv
  <2>4. now' = base'
    <3>1. CASE MaterializeNowView
      BY <3>1 DEF MaterializeNowView
    <3>2. CASE RefreshEnds
      <4>1. nowHeld /\ changed = {} /\ UNCHANGED <<now, base>>
        BY <3>2 DEF RefreshEnds, store
      <4>2. \A f : f \in now <=> f \in base
        BY <2>3, <4>1 DEF NowBut
      <4>3. now = base
        BY <4>2
      <4> QED
        BY <4>1, <4>3
    <3> QED
      BY <1>7, <3>1, <3>2
  <2> QED
    BY <1>5, <2>1, <2>3, <2>4
<1>8. CASE Stop
  <2>1. /\ pc' = "idle" /\ result' = "stopped" /\ events' = saved.events /\ base' = saved.base
        /\ marker' = saved.marker /\ now' = saved.now /\ nowHeld' = saved.nowHeld
    BY <1>8 DEF Stop, Ends, Fails
  <2>2. PICK s : s = saved
    OBVIOUS
  <2>3. Sound(s)'
    BY <1>1, <2>2, SoundStays DEF CopyInv
  <2>4. PICK t : t = Copied'
    OBVIOUS
  <2>5. t.events = s.events /\ t.base = s.base /\ t.marker = s.marker /\ t.now = s.now /\ t.nowHeld = s.nowHeld
    BY <2>1, <2>2, <2>4 DEF Copied
  <2>6. Sound(t)'
    BY <2>3, <2>5 DEF Sound, StoreOf
  <2>7. EndsRight'
    BY <2>1 DEF EndsRight, SyncedIsFresh, AlreadyIsTrue, NeverDamaged
  <2> QED
    BY <2>1, <2>4, <2>6, <2>7 DEF CopyInv, AppendInv
<1> QED
  BY <1>6, <1>7, <1>8

LEMMA NextCopies == OnCopy /\ HealInv /\ CopyInv /\ [Next]_vars => CopyInv'
<1> SUFFICES ASSUME OnCopy, HealInv, CopyInv, [Next]_vars PROVE CopyInv'
  OBVIOUS
<1>1. CASE UNCHANGED vars
  <2>1. UNCHANGED <<trees, line, at, saved, events, base, marker, now, nowHeld, pc, mode, walked, pending, changed, result>>
    BY <1>1 DEF vars, repo, store, run
  <2>2. /\ \A k : Said(k)' = Said(k) /\ \A i : TreeFacts(ParentIn(at, i))' = TreeFacts(ParentIn(at, i))
        /\ TreeFacts(Newest(at))' = TreeFacts(Newest(at)) /\ History(at)' = History(at) /\ OnLine(at)' = OnLine(at)
    BY <2>1, RunSays
  <2>3. \A s : Sound(s) => Sound(s)'
    BY <2>1, SoundStays
  <2>4. PICK s, t : s = Copied /\ t = saved
    OBVIOUS
  <2>5. Copied' = s /\ saved' = t
    BY <2>1, <2>4 DEF Copied
  <2>6. (pc = "idle" => Sound(Copied)') /\ (pc # "idle" => Sound(saved)')
    BY <2>3, <2>4, <2>5 DEF CopyInv
  <2>7. Net' = Net /\ NowBut(Net)' = NowBut(Net) /\ NowBut(base)' = NowBut(base)
    BY <2>1 DEF Net, NowBut
  <2>8. AppendInv'
    BY <2>1, <2>2, <2>7 DEF CopyInv, AppendInv
  <2>9. EndsRight'
    BY <2>1, <2>2 DEF CopyInv, EndsRight, SyncedIsFresh, AlreadyIsTrue, NeverDamaged
  <2> QED
    BY <2>1, <2>6, <2>8, <2>9 DEF CopyInv
<1>2. CASE Commit \/ Reset
  BY <1>2, RepoCopies
<1>3. CASE SyncStep
  BY <1>3, BeginCopies, GoesOnCopies, LastStepsCopy DEF SyncStep
<1>4. CASE Stop
  BY <1>4, LastStepsCopy
<1> QED
  BY <1>1, <1>2, <1>3, <1>4 DEF Next

LEMMA InitCopies == Init => CopyInv
<1> SUFFICES ASSUME Init PROVE CopyInv
  OBVIOUS
<1>1. LinesInv /\ line = <<1>> /\ pc = "idle" /\ result = "none" /\ ~nowHeld
  BY InitEarned DEF Init, EarnedInv
<1>2. Sound(Copied)
  <2>1. CASE marker = {}
    BY <1>1, <2>1 DEF Init, Sound, Copied
  <2>2. CASE marker # {}
    <3>1. marker = {1} /\ events = History(line) /\ base = TreeFacts(1)
      BY <2>2 DEF Init
    <3>2. line \in Seq(Made) /\ Len(line) = 1 /\ line[1] = 1 /\ Alike(line, line) /\ DOMAIN line = 1..1
      BY <1>1 DEF LinesInv
    <3>3. OnLine(line) = {1}
      BY <3>2 DEF OnLine
    <3>4. History(line) = Story(line, 1)
      BY <3>2, EventsAtIs DEF History, Story
    <3>5. StoreOf(line, Copied)
      BY <1>1, <3>1, <3>2, <3>3, <3>4 DEF StoreOf, Copied
    <3> QED
      BY <3>2, <3>5 DEF Sound
  <2> QED
    BY <2>1, <2>2
<1> QED
  BY <1>1, <1>2 DEF CopyInv, AppendInv, EndsRight, SyncedIsFresh, AlreadyIsTrue, NeverDamaged

LEMMA CopiesHold == OnCopy => (Spec => [](HealInv /\ CopyInv))
<1> SUFFICES ASSUME OnCopy PROVE Spec => [](HealInv /\ CopyInv)
  OBVIOUS
<1>1. Init => HealInv /\ CopyInv
  BY InitEarned, InitBranch, InitCopies DEF Init, HealInv, RebuildInv
<1>2. (HealInv /\ CopyInv) /\ [Next]_vars => (HealInv /\ CopyInv)'
  BY NextHeals, NextCopies
<1> QED
  BY <1>1, <1>2, PTL DEF Spec

\* A sync of a copy that succeeds, appending or rebuilding, leaves what a sync
\* of the branch from its first commit would: the newest tree's facts, the same
\* in the now view, the whole history and its ordinals (sync.rs: resume_point,
\* refresh_now_view; spo_events.rs: write_walk_batch).
THEOREM SyncsAreFresh == OnCopy => (Spec => []SyncedIsFresh)
<1> SUFFICES ASSUME OnCopy PROVE Spec => []SyncedIsFresh
  OBVIOUS
<1>1. Spec => [](HealInv /\ CopyInv)
  BY CopiesHold
<1>2. HealInv /\ CopyInv => SyncedIsFresh
  BY DEF CopyInv, EndsRight
<1> QED
  BY <1>1, <1>2, PTL

\* And a run that finds nothing to do was right about it (sync.rs: fast_path_hit).
THEOREM NothingToDoIsTrue == OnCopy => (Spec => []AlreadyIsTrue)
<1> SUFFICES ASSUME OnCopy PROVE Spec => []AlreadyIsTrue
  OBVIOUS
<1>1. Spec => [](HealInv /\ CopyInv)
  BY CopiesHold
<1>2. HealInv /\ CopyInv => AlreadyIsTrue
  BY DEF CopyInv, EndsRight
<1> QED
  BY <1>1, <1>2, PTL

\* The check at the end of a sync never fails one whose copy nothing disturbed:
\* events and base layer agree on every line of commits (spo_events.rs:
\* statement_checks, history_counts).
THEOREM ChecksNeverFail == OnCopy => (Spec => []NeverDamaged)
<1> SUFFICES ASSUME OnCopy PROVE Spec => []NeverDamaged
  OBVIOUS
<1>1. Spec => [](HealInv /\ CopyInv)
  BY CopiesHold
<1>2. HealInv /\ CopyInv => NeverDamaged
  BY DEF CopyInv, EndsRight
<1> QED
  BY <1>1, <1>2, PTL

-----------------------------------------------------------------------------
(* A branch that only grew: what a stopped run touched, the next one does.  *)

\* Retracts of the commit a branch that only grew has at i, were A the base
\* layer; and Asserts.
GuardedBy(A, i, f) ==
    \E s \in Sidecars \ Touched(i - 1, i) :
        /\ DocOf[s] \in {d \in Docs : f[1] = d \/ <<f[1], d>> \in A}
        /\ f \in FactsOf(s, TreeOf(i)[s])
Lost(A, i) == {f \in OldSide(i - 1, i) \ NewSide(i - 1, i) : ~GuardedBy(A, i, f)}
Gain(i) == Asserts(i - 1, i)
Walk(A, i) == (A \ Lost(A, i)) \cup Gain(i)

\* W holds the base layers of a walk from k to n: what it asserts, and what it
\* retracts or asserts.
Walks(W, k, n) == \A i \in (k + 1)..n : W[i] = Walk(W[i - 1], i)
Gained(k, n) == UNION {Gain(i) : i \in (k + 1)..n}
Moved(W, k, n) == Gained(k, n) \cup UNION {Lost(W[i - 1], i) : i \in (k + 1)..n}

\* The store's base layer and its events agree on a fact.
LiveEvent(f) ==
    \E i \in Nat : /\ Event("+", f, i) \in events
                   /\ \A j \in Nat : Event("-", f, j) \in events => j < i
Agree(f) == f \in base <=> LiveEvent(f)

\* Whatever they do not agree on, a walk from here will touch.
WillTouch(k, n) ==
    \A W : W[k] = base /\ Walks(W, k, n) => \A f : Agree(f) \/ f \in Moved(W, k, n)

\* Where the marker ends, and the branch as far as it matters.
Top == CHOOSE k \in Nat : marker = 1..k
Last == IF pc = "idle" THEN Len(trees) ELSE Len(at)

GrownInv ==
    /\ resets \in Nat
    /\ pc = "now" => mode = "rebuild"
    /\ pending.add \cap pending.del = {}
    /\ resets = 0 =>
        /\ Len(line) = Len(trees) /\ \A i \in 1..Len(line) : line[i] = i
        /\ Len(at) <= Len(trees) /\ \A i \in 1..Len(at) : at[i] = i
        /\ Top \in Nat /\ marker = 1..Top /\ Top <= Last
        /\ \A e \in events \cup pending.evs :
              e.commit \in 1..Last /\ (e.op = "+" => e.fact \in Gain(e.commit))
        /\ mode = "append" /\ pc # "idle" => Top >= 1
        /\ mode = "append" /\ pc = "clear" => walked = Top
        /\ mode = "append" /\ pc \in {"walk", "write"} => Top <= walked
        /\ pc \in {"verify", "refresh"} => Top = Len(at)

WalkTouches ==
    \E W : /\ W[Top] = base /\ Walks(W, Top, walked) /\ Net = W[walked]
           /\ pending.add \cup pending.del = Moved(W, Top, walked)
           /\ pending.add \subseteq Gained(Top, walked)
           /\ \A e \in pending.evs : e.fact \in pending.add \cup pending.del
           /\ \A i \in (Top + 1)..walked : \A f \in Lost(W[i - 1], i) : Event("-", f, i) \in pending.evs

WriteTouches ==
    /\ \E W : base \subseteq W[Top] /\ Walks(W, Top, Len(at)) /\ changed = Moved(W, Top, Len(at))
    /\ \A f : Agree(f) \/ f \in changed
    /\ pending.add \subseteq changed \cap Gained(Top, Len(at)) /\ pending.del \subseteq changed
    /\ \A e \in pending.evs : e.fact \in changed
    /\ \A f \in changed : f \in base => f \in pending.add \cup pending.del
    /\ \A f \in changed : \/ f \in Gained(Top, Len(at))
                          \/ \E i \in (Top + 1)..Len(at) : Event("-", f, i) \in pending.evs

TouchInv ==
    resets = 0 /\ ~unproved =>
        /\ pc \in {"idle", "clear"} /\ Top >= 1 => WillTouch(Top, Last)
        /\ mode = "append" /\ pc = "walk" => WillTouch(Top, Len(at)) /\ WalkTouches
        /\ mode = "append" /\ pc = "write" => WriteTouches
        /\ mode = "append" /\ pc \in {"stale", "git"} =>
              \A f : Agree(f) \/ f \in changed \cap Gained(Top, Len(at))
        /\ mode = "append" /\ pc = "verify" => \A f : Agree(f) \/ f \in changed
        /\ mode = "append" /\ pc = "refresh" => \A f : Agree(f)
        /\ SyncedIsCoherent

-----------------------------------------------------------------------------
\* The guard withholds less of a smaller base layer, so more is lost of it.
LEMMA LostOfLess ==
    ASSUME NEW A, NEW B, A \subseteq B, NEW i
    PROVE  Lost(B, i) \subseteq Lost(A, i) /\ Walk(A, i) \subseteq Walk(B, i)
<1>1. \A f : GuardedBy(A, i, f) => GuardedBy(B, i, f)
  BY DEF GuardedBy
<1>2. Lost(B, i) \subseteq Lost(A, i)
  BY <1>1 DEF Lost
<1> QED
  BY <1>2 DEF Walk

\* A walk from a smaller base layer stays below, and touches what the other does.
LEMMA WalkOfLess ==
    ASSUME NEW k \in Nat, NEW n \in Nat, NEW V, NEW W, V[k] \subseteq W[k], Walks(V, k, n), Walks(W, k, n)
    PROVE  Moved(W, k, n) \subseteq Moved(V, k, n)
<1> DEFINE Bad == {i \in Nat : i \in k..n /\ ~(V[i] \subseteq W[i])}
<1>1. ASSUME Bad # {} PROVE FALSE
  <2>1. PICK m \in Bad : \A j \in Bad : m <= j
    BY <1>1, MinExists
  <2>2. m \in (k + 1)..n /\ m \in Nat
    <3>1. m \in Nat /\ m \in k..n /\ m # k
      BY <2>1
    <3> QED
      BY <3>1
  <2>3. m - 1 \in Nat /\ m - 1 \in k..n /\ ~(m <= m - 1)
    BY <2>2
  <2>4. V[m - 1] \subseteq W[m - 1]
    BY <2>1, <2>3
  <2>5. V[m] = Walk(V[m - 1], m) /\ W[m] = Walk(W[m - 1], m)
    BY <2>2 DEF Walks
  <2>6. V[m] \subseteq W[m]
    BY <2>4, <2>5, LostOfLess
  <2> QED
    BY <2>1, <2>6
<1>2. \A i \in (k + 1)..n : V[i - 1] \subseteq W[i - 1]
  <2> SUFFICES ASSUME NEW i \in (k + 1)..n PROVE V[i - 1] \subseteq W[i - 1]
    OBVIOUS
  <2>1. i - 1 \in Nat /\ i - 1 \in k..n
    OBVIOUS
  <2> QED
    BY <1>1, <2>1
<1>3. \A i \in (k + 1)..n : Lost(W[i - 1], i) \subseteq Lost(V[i - 1], i)
  BY <1>2, LostOfLess
<1> QED
  BY <1>3 DEF Moved

LEMMA LongerMoves ==
    ASSUME NEW k \in Nat, NEW n \in Nat, NEW m \in Nat, n <= m, NEW W
    PROVE  /\ Walks(W, k, m) => Walks(W, k, n)
           /\ Gained(k, n) \subseteq Gained(k, m) /\ Moved(W, k, n) \subseteq Moved(W, k, m)
<1>1. (k + 1)..n \subseteq (k + 1)..m
  OBVIOUS
<1> QED
  BY <1>1 DEF Walks, Gained, Moved

LEMMA TopIs == ASSUME NEW k \in Nat, marker = 1..k PROVE Top = k
<1>1. \A i \in Nat : marker = 1..i => i = k
  <2> SUFFICES ASSUME NEW i \in Nat, 1..i = 1..k PROVE i = k
    OBVIOUS
  <2>1. \A j \in Nat : j \in 1..i <=> j \in 1..k
    OBVIOUS
  <2>2. (i >= 1 => i <= k) /\ (k >= 1 => k <= i)
    BY <2>1
  <2> QED
    BY <2>2
<1> QED
  BY <1>1 DEF Top

\* A walk, once over, moves nothing when commits are made.
LEMMA MovesAlike ==
    ASSUME trees \in Seq([Sidecars -> SUBSET Props]),
           UNCHANGED trees \/ \E t \in [Sidecars -> SUBSET Props] : trees' = Append(trees, t)
    PROVE  \A i \in 1..Len(trees) : Gain(i)' = Gain(i) /\ \A A : Lost(A, i)' = Lost(A, i)
<1> SUFFICES ASSUME NEW i \in 1..Len(trees) PROVE Gain(i)' = Gain(i) /\ \A A : Lost(A, i)' = Lost(A, i)
  OBVIOUS
<1>1. TreeOf(i)' = TreeOf(i) /\ TreeOf(i - 1)' = TreeOf(i - 1)
  BY DEF TreeOf
<1>2. /\ OldSide(i - 1, i)' = OldSide(i - 1, i) /\ NewSide(i - 1, i)' = NewSide(i - 1, i)
      /\ Touched(i - 1, i)' = Touched(i - 1, i)
  BY <1>1 DEF OldSide, NewSide, Touched
<1>3. \A A, f : GuardedBy(A, i, f)' <=> GuardedBy(A, i, f)
  BY <1>1, <1>2 DEF GuardedBy
<1> QED
  BY <1>2, <1>3 DEF Gain, Asserts, Lost

LEMMA WalksAlike ==
    ASSUME NEW k \in Nat, NEW n \in Nat, NEW l \in Nat, n <= l,
           \A i \in 1..l : Gain(i)' = Gain(i) /\ \A A : Lost(A, i)' = Lost(A, i)
    PROVE  /\ Gained(k, n)' = Gained(k, n)
           /\ \A W : (Walks(W, k, n)' <=> Walks(W, k, n)) /\ Moved(W, k, n)' = Moved(W, k, n)
<1>1. \A i \in (k + 1)..n : i \in 1..l
  OBVIOUS
<1>2. \A i \in (k + 1)..n : Gain(i)' = Gain(i) /\ \A A : Lost(A, i)' = Lost(A, i)
  BY <1>1
<1>3. Gained(k, n)' = Gained(k, n)
  BY <1>2 DEF Gained
<1>4. \A W : Moved(W, k, n)' = Moved(W, k, n)
  BY <1>2, <1>3 DEF Moved
<1>5. \A W : Walks(W, k, n)' <=> Walks(W, k, n)
  BY <1>2 DEF Walks, Walk
<1> QED
  BY <1>3, <1>4, <1>5

-----------------------------------------------------------------------------
(* A branch that only grew numbers its commits.                             *)

LEMMA SameMoves ==
    ASSUME LinesInv, UNCHANGED trees
    PROVE  \A i \in 1..Len(trees) : Gain(i)' = Gain(i)
BY MovesAlike DEF LinesInv

LEMMA RepoGrown ==
    ASSUME EarnedInv, GrownInv, Commit \/ Reset
    PROVE  GrownInv'
<1>1. UNCHANGED <<events, marker, pc, at, mode, walked, pending>>
  BY DEF Commit, Reset, store, run
<1>2. Top' = Top
  BY <1>1 DEF Top
<1>3. CASE Reset
  <2>1. resets' \in Nat /\ resets' # 0
    BY <1>3 DEF Reset, GrownInv
  <2> QED
    BY <1>1, <2>1 DEF GrownInv
<1>4. CASE Commit
  <2>1. PICK t \in [Sidecars -> SUBSET Props] : trees' = Append(trees, t)
    BY <1>4 DEF Commit
  <2>2. trees \in Seq([Sidecars -> SUBSET Props]) /\ line \in Seq(Made)
    BY DEF EarnedInv, LinesInv
  <2>3. Len(trees') = Len(trees) + 1 /\ Len(trees) \in Nat /\ Len(line) \in Nat /\ Len(at) \in Nat
    BY <2>1, <2>2 DEF EarnedInv, LinesInv
  <2>4. line' = Append(line, Len(trees) + 1) /\ resets' = resets
    BY <1>4, <2>3 DEF Commit
  <2>5. \A i \in 1..Len(trees) : Gain(i)' = Gain(i)
    BY <2>1, <2>2, MovesAlike
  <2> SUFFICES ASSUME resets = 0 PROVE GrownInv'
    BY <1>1, <2>4 DEF GrownInv
  <2>6. Len(line') = Len(trees') /\ \A i \in 1..Len(line') : line'[i] = i
    <3>1. Len(line) = Len(trees) /\ \A i \in 1..Len(line) : line[i] = i
      BY DEF GrownInv
    <3> QED
      BY <2>2, <2>3, <2>4, <3>1
  <2>7. Last \in Nat /\ Last <= Len(trees) /\ Last' \in Nat /\ Last <= Last'
    BY <1>1, <2>3 DEF Last, GrownInv
  <2>8. \A e \in events' \cup pending'.evs : e.commit \in 1..Last' /\ (e.op = "+" => e.fact \in Gain(e.commit)')
    <3> SUFFICES ASSUME NEW e \in events \cup pending.evs
                 PROVE  e.commit \in 1..Last' /\ (e.op = "+" => e.fact \in Gain(e.commit)')
      BY <1>1
    <3>1. e.commit \in 1..Last /\ (e.op = "+" => e.fact \in Gain(e.commit))
      BY DEF GrownInv
    <3>2. e.commit \in 1..Len(trees) /\ e.commit \in 1..Last'
      BY <2>3, <2>7, <3>1
    <3>3. Gain(e.commit)' = Gain(e.commit)
      BY <2>5, <3>2
    <3> QED
      BY <3>1, <3>2, <3>3
  <2>9. Top \in Nat /\ marker = 1..Top /\ Top <= Last /\ Len(at) <= Len(trees)
    BY DEF GrownInv
  <2>10. Top <= Last' /\ Len(at) <= Len(trees')
    BY <2>3, <2>7, <2>9
  <2>11. \A i \in 1..Len(at) : at[i] = i
    BY DEF GrownInv
  <2> QED
    BY <1>1, <1>2, <2>4, <2>6, <2>8, <2>9, <2>10, <2>11 DEF GrownInv
<1> QED
  BY <1>3, <1>4

LEMMA BeginGrown ==
    ASSUME EarnedInv, GrownInv, AlreadySynced \/ BeginSync
    PROVE  GrownInv'
<1>1. /\ UNCHANGED <<trees, line, resets, events, marker, pending>> /\ at' = line /\ pc = "idle"
      /\ pc' \in {"idle", "clear"}
  BY DEF AlreadySynced, BeginSync, Begins, repo, store
<1>2. Top' = Top
  BY <1>1 DEF Top
<1>3. line \in Seq(Made) /\ Len(trees) \in Nat /\ Len(line) \in Nat
  BY DEF EarnedInv, LinesInv
<1> SUFFICES ASSUME resets = 0 PROVE GrownInv'
  BY <1>1 DEF GrownInv
<1>4. Len(line) = Len(trees) /\ \A i \in 1..Len(line) : line[i] = i
  BY DEF GrownInv
<1>5. Last' = Last
  BY <1>1, <1>4 DEF Last
<1>6. Top \in Nat /\ marker = 1..Top /\ Top <= Last /\ Last = Len(line)
  BY <1>1, <1>4 DEF GrownInv, Last
<1>7. \A i \in 1..Len(trees) : Gain(i)' = Gain(i)
  BY <1>1, SameMoves DEF EarnedInv
<1>8. \A e \in events' \cup pending'.evs : e.commit \in 1..Last' /\ (e.op = "+" => e.fact \in Gain(e.commit)')
  <2> SUFFICES ASSUME NEW e \in events \cup pending.evs
               PROVE  e.commit \in 1..Last /\ (e.op = "+" => e.fact \in Gain(e.commit)')
    BY <1>1, <1>5
  <2>1. e.commit \in 1..Last /\ (e.op = "+" => e.fact \in Gain(e.commit))
    BY DEF GrownInv
  <2> QED
    BY <1>1, <1>7, <2>1 DEF Last
<1>9. ASSUME mode' = "append", pc' # "idle" PROVE Top >= 1 /\ walked' = Top
  <2>1. BeginSync /\ Resumable /\ walked' = ResumePoint
    BY <1>9 DEF AlreadySynced, BeginSync, Begins
  <2>2. Marked # {} /\ Marked = {i \in 1..Len(line) : i \in 1..Top}
    BY <1>4, <1>6, <2>1 DEF Resumable, Marked
  <2>3. ResumePoint \in Marked /\ \A j \in Marked : j <= ResumePoint
    BY <1>3, <2>2, ResumeNewest
  <2>4. Top \in Marked
    BY <1>3, <1>6, <2>2
  <2> QED
    BY <1>6, <2>1, <2>2, <2>3, <2>4
<1> QED
  BY <1>1, <1>2, <1>3, <1>4, <1>5, <1>6, <1>8, <1>9 DEF GrownInv

\* A step of a run that moves neither the branch nor the marker.
LEMMA StepGrown ==
    ASSUME EarnedInv, GrownInv, UNCHANGED <<trees, line, resets, at, mode, marker>>, pc # "idle",
           events' \cup pending'.evs \subseteq events \cup pending.evs,
           pending'.add \cap pending'.del = {},
           pc' = "now" => mode = "rebuild",
           mode = "append" => pc' # "clear",
           mode = "append" /\ pc' \in {"walk", "write"} /\ resets = 0 => Top <= walked',
           pc' \in {"verify", "refresh"} /\ resets = 0 => Top = Len(at)
    PROVE  GrownInv'
<1>1. Top' = Top
  BY DEF Top
<1> SUFFICES ASSUME resets = 0 PROVE GrownInv'
  BY DEF GrownInv
<1>2. Len(trees) \in Nat /\ Len(at) \in Nat /\ Len(at) <= Len(trees)
  BY DEF EarnedInv, LinesInv, GrownInv
<1>3. Last = Len(at) /\ Last' \in Nat /\ Last <= Last' /\ Last' <= Len(trees)
  BY <1>2 DEF Last
<1>4. \A i \in 1..Len(trees) : Gain(i)' = Gain(i)
  BY SameMoves DEF EarnedInv
<1>5. \A e \in events' \cup pending'.evs : e.commit \in 1..Last' /\ (e.op = "+" => e.fact \in Gain(e.commit)')
  <2> SUFFICES ASSUME NEW e \in events \cup pending.evs
               PROVE  e.commit \in 1..Last' /\ (e.op = "+" => e.fact \in Gain(e.commit)')
    OBVIOUS
  <2>1. e.commit \in 1..Last /\ (e.op = "+" => e.fact \in Gain(e.commit))
    BY DEF GrownInv
  <2>2. e.commit \in 1..Len(trees) /\ e.commit \in 1..Last'
    BY <1>2, <1>3, <2>1
  <2> QED
    BY <1>4, <2>1, <2>2
<1>6. Top \in Nat /\ marker = 1..Top /\ Top <= Last'
  BY <1>2, <1>3 DEF GrownInv
<1> QED
  BY <1>1, <1>5, <1>6 DEF GrownInv

LEMMA WalkGrown ==
    ASSUME EarnedInv, GrownInv, WalkCommit
    PROVE  GrownInv'
<1> DEFINE n == walked + 1
<1>1. UNCHANGED <<trees, line, resets, at, mode, marker, events, pc>> /\ pc = "walk" /\ walked' = n
  BY DEF WalkCommit, repo, store
<1>2. Len(trees) \in Nat /\ Len(at) \in Nat /\ walked \in Nat /\ n \in 1..Len(at)
  BY DEF WalkCommit, EarnedInv, WalkInv, LinesInv
<1>3. Top' = Top
  BY <1>1 DEF Top
<1>4. \A i \in 1..Len(trees) : Gain(i)' = Gain(i)
  BY <1>1, SameMoves DEF EarnedInv
<1> DEFINE c == at[walked + 1]
           p == ParentIn(at, walked + 1)
           minus == Retracts(p, c)
           plus == Asserts(p, c)
<1>5. pending' = [add |-> (pending.add \ minus) \cup plus, del |-> (pending.del \ plus) \cup minus,
                  evs |-> pending.evs \cup {Event("-", f, c) : f \in minus} \cup {Event("+", f, c) : f \in plus}]
  BY DEF WalkCommit, LastOpWins
<1>6. minus \cap plus = {}
  BY DEF Retracts, Asserts
<1>7. pending'.add \cap pending'.del = {}
  <2>1. pending.add \cap pending.del = {}
    BY DEF GrownInv
  <2> HIDE DEF minus, plus
  <2> QED
    BY <1>5, <1>6, <2>1
<1> SUFFICES ASSUME resets = 0 PROVE GrownInv'
  BY <1>1, <1>7 DEF GrownInv
<1>8. c = n /\ p = n - 1
  <2>1. at[n] = n /\ (n # 1 => at[n - 1] = n - 1)
    BY <1>2 DEF GrownInv
  <2> QED
    BY <1>2, <2>1 DEF ParentIn
<1>9. plus = Gain(n)
  BY <1>8 DEF Gain
<1>10. Last = Len(at) /\ Last' = Len(at) /\ Len(at) <= Len(trees)
  BY <1>1 DEF Last, GrownInv
<1>11. ASSUME NEW e \in events' \cup pending'.evs
       PROVE  e.commit \in 1..Last' /\ (e.op = "+" => e.fact \in Gain(e.commit)')
  <2>1. CASE e \in events \cup pending.evs
    <3>1. e.commit \in 1..Last /\ (e.op = "+" => e.fact \in Gain(e.commit))
      BY <2>1 DEF GrownInv
    <3>2. e.commit \in 1..Len(trees)
      BY <1>2, <1>10, <3>1
    <3> QED
      BY <1>4, <1>10, <3>1, <3>2
  <2>2. CASE e \notin events \cup pending.evs
    <3> HIDE DEF minus, plus, c
    <3>1. \/ \E f \in minus : e = Event("-", f, c)
          \/ \E f \in plus : e = Event("+", f, c)
      BY <1>1, <1>5, <2>2
    <3>2. e.commit = n /\ (e.op = "+" => e.fact \in Gain(n))
      BY <1>8, <1>9, <3>1 DEF Event
    <3>3. n \in 1..Len(trees)
      BY <1>2, <1>10
    <3> QED
      BY <1>2, <1>4, <1>10, <3>2, <3>3
  <2> QED
    BY <2>1, <2>2
<1>12. Top <= walked => Top <= walked'
  BY <1>1, <1>2 DEF GrownInv
<1> HIDE DEF minus, plus, n
<1> QED
  BY <1>1, <1>3, <1>7, <1>10, <1>11, <1>12 DEF GrownInv

LEMMA WritesGrown ==
    ASSUME HealInv, GrownInv, WriteBatch \/ BeginWrite \/ RemoveFact \/ LoadEvents \/ CopyNowView \/ RefreshSubject
    PROVE  GrownInv'
<1>1. UNCHANGED <<trees, line, resets, at, mode, marker, walked>> /\ pc # "idle" /\ pc' # "clear"
  BY DEF WriteBatch, BeginWrite, RemoveFact, LoadEvents, CopyNowView, RefreshSubject, repo, store
<1>2. /\ pending'.add \cap pending'.del = {}
      /\ events' \cup pending'.evs \subseteq events \cup pending.evs
  <2>1. pending.add \cap pending.del = {}
    BY DEF GrownInv
  <2>2. \/ pending' = pending /\ events' = events
        \/ pending' = NoPending /\ events' = events \cup pending.evs
        \/ events' = events /\ \E f \in pending.del : pending' = [pending EXCEPT !.del = @ \ {f}]
    BY DEF WriteBatch, BeginWrite, RemoveFact, LoadEvents, CopyNowView, RefreshSubject, store
  <2>3. pending = [add |-> pending.add, del |-> pending.del, evs |-> pending.evs]
    BY DEF HealInv, EarnedInv, WalkInv
  <2> QED
    BY <2>1, <2>2, <2>3 DEF NoPending
<1>3. pc' = "now" => mode = "rebuild"
  BY DEF WriteBatch, BeginWrite, RemoveFact, LoadEvents, CopyNowView, RefreshSubject
<1>4. mode = "append" /\ pc' \in {"walk", "write"} /\ resets = 0 => Top <= walked'
  BY <1>1 DEF WriteBatch, BeginWrite, RemoveFact, LoadEvents, CopyNowView, RefreshSubject, GrownInv
<1>5. pc' \in {"verify", "refresh"} /\ resets = 0 => Top = Len(at)
  BY DEF WriteBatch, BeginWrite, RemoveFact, LoadEvents, CopyNowView, RefreshSubject, GrownInv
<1> QED
  BY <1>1, <1>2, <1>3, <1>4, <1>5, StepGrown DEF HealInv

LEMMA EmptiesGrown ==
    ASSUME HealInv, GrownInv, ClearDerived \/ EmptyHistory
    PROVE  GrownInv'
<1>1. UNCHANGED <<trees, line, resets, at, mode, pending, walked>> /\ pc \in {"clear", "empty"}
  BY DEF ClearDerived, EmptyHistory, repo
<1>2. pending = NoPending
  BY <1>1 DEF HealInv, BranchInv
<1>3. CASE mode = "append" /\ ClearDerived
  <2>1. marker' = marker /\ events' = events /\ pc' = "walk"
    BY <1>3 DEF ClearDerived, KeepGitGraphs
  <2>2. resets = 0 => Top <= walked'
    BY <1>1, <1>3 DEF GrownInv, ClearDerived
  <2>3. pending'.add \cap pending'.del = {}
    BY <1>1, <1>2 DEF NoPending
  <2> QED
    BY <1>1, <1>3, <2>1, <2>2, <2>3, StepGrown DEF HealInv
<1>4. CASE EmptyHistory
  <2>1. marker' = marker /\ events' = {} /\ pc' = "walk" /\ mode = "rebuild"
    BY <1>4 DEF EmptyHistory, HealInv, EarnedInv, WalkInv
  <2>3. pending'.add \cap pending'.del = {}
    BY <1>1, <1>2 DEF NoPending
  <2> QED
    BY <1>1, <2>1, <2>3, StepGrown DEF HealInv
<1>5. CASE mode # "append" /\ ClearDerived
  <2>1. marker' = {} /\ events' = events /\ pc' = "empty" /\ mode = "rebuild"
    BY <1>1, <1>5 DEF ClearDerived, KeepGitGraphs, HealInv, EarnedInv, WalkInv
  <2>2. Top' = 0
    <3>1. \A i \in Nat : {} = 1..i <=> i = 0
      OBVIOUS
    <3> QED
      BY <2>1, <3>1 DEF Top
  <2> SUFFICES ASSUME resets = 0 PROVE GrownInv'
    BY <1>1, <1>2, <2>1 DEF GrownInv, NoPending
  <2>3. Last = Len(at) /\ Last' = Len(at) /\ Len(at) \in Nat /\ Len(trees) \in Nat /\ Len(at) <= Len(trees)
    BY <1>1, <2>1 DEF Last, GrownInv, HealInv, EarnedInv, LinesInv
  <2>4. \A i \in 1..Len(trees) : Gain(i)' = Gain(i)
    BY <1>1, SameMoves DEF HealInv, EarnedInv
  <2>5. \A e \in events' \cup pending'.evs : e.commit \in 1..Last' /\ (e.op = "+" => e.fact \in Gain(e.commit)')
    <3> SUFFICES ASSUME NEW e \in events \cup pending.evs
                 PROVE  e.commit \in 1..Last /\ (e.op = "+" => e.fact \in Gain(e.commit)')
      BY <1>1, <2>1, <2>3
    <3>1. e.commit \in 1..Last /\ (e.op = "+" => e.fact \in Gain(e.commit))
      BY DEF GrownInv
    <3>2. e.commit \in 1..Len(trees)
      BY <2>3, <3>1
    <3> QED
      BY <2>4, <3>1, <3>2
  <2>6. \A i \in 1..0 : FALSE
    OBVIOUS
  <2>7. marker' = 1..Top' /\ Top' \in Nat /\ Top' <= Last'
    BY <2>1, <2>2, <2>3
  <2> QED
    BY <1>1, <1>2, <2>1, <2>3, <2>5, <2>7 DEF GrownInv, NoPending
<1> QED
  BY <1>3, <1>4, <1>5 DEF ClearDerived

LEMMA MarkerGrown ==
    ASSUME HealInv, GrownInv, RemoveStale \/ LoadMarker
    PROVE  GrownInv'
<1>1. /\ UNCHANGED <<trees, line, resets, at, mode, pending, walked, events>> /\ pc \in {"stale", "git"}
      /\ pc' \in {"git", "verify"}
  BY DEF RemoveStale, LoadMarker, repo
<1> SUFFICES ASSUME resets = 0 PROVE GrownInv'
  BY <1>1 DEF GrownInv
<1>2. /\ Len(at) \in Nat /\ Len(trees) \in Nat /\ Len(at) <= Len(trees) /\ \A i \in 1..Len(at) : at[i] = i
      /\ at \in Seq(Made) /\ Last = Len(at) /\ Last' = Len(at)
  BY <1>1 DEF HealInv, EarnedInv, LinesInv, GrownInv, Last
<1>3. Top \in Nat /\ marker = 1..Top /\ Top <= Len(at) /\ (mode = "append" => Top >= 1)
  BY <1>1, <1>2 DEF GrownInv
<1>4. OnLine(at) = 1..Len(at)
  BY <1>2 DEF OnLine
<1>5. /\ Top' \in Nat /\ marker' = 1..Top' /\ Top' <= Len(at) /\ Top <= Top'
      /\ pc' = "verify" => Top' = Len(at)
  <2>1. CASE RemoveStale
    <3>1. marker' = marker /\ pc' = "git"
      BY <1>2, <1>3, <1>4, <2>1 DEF RemoveStale
    <3>2. Top' = Top
      BY <3>1 DEF Top
    <3> QED
      BY <1>3, <3>1, <3>2
  <2>2. CASE LoadMarker
    <3>1. marker' = 1..Len(at)
      BY <1>2, <1>3, <1>4, <2>2 DEF LoadMarker
    <3>2. Top' = Len(at)
      <4>1. \A i \in Nat : 1..Len(at) = 1..i => i = Len(at)
        <5> SUFFICES ASSUME NEW i \in Nat, 1..Len(at) = 1..i PROVE i = Len(at)
          OBVIOUS
        <5>1. \A j \in Nat : j \in 1..i <=> j \in 1..Len(at)
          OBVIOUS
        <5>2. (i >= 1 => i <= Len(at)) /\ (Len(at) >= 1 => Len(at) <= i)
          BY <1>2, <5>1
        <5> QED
          BY <1>2, <5>2
      <4>2. \A i \in Nat : marker' = 1..i <=> i = Len(at)
        BY <1>2, <3>1, <4>1
      <4> QED
        BY <1>2, <4>2 DEF Top
    <3> QED
      BY <1>2, <1>3, <3>1, <3>2
  <2> QED
    BY <2>1, <2>2
<1>6. \A i \in 1..Len(trees) : Gain(i)' = Gain(i)
  BY <1>1, SameMoves DEF HealInv, EarnedInv
<1>7. \A e \in events' \cup pending'.evs : e.commit \in 1..Last' /\ (e.op = "+" => e.fact \in Gain(e.commit)')
  <2> SUFFICES ASSUME NEW e \in events \cup pending.evs
               PROVE  e.commit \in 1..Len(at) /\ (e.op = "+" => e.fact \in Gain(e.commit)')
    BY <1>1, <1>2
  <2>1. e.commit \in 1..Len(at) /\ (e.op = "+" => e.fact \in Gain(e.commit))
    BY <1>2 DEF GrownInv
  <2>2. e.commit \in 1..Len(trees)
    BY <1>2, <2>1
  <2> QED
    BY <1>6, <2>1, <2>2
<1>8. mode = "append" => Top' >= 1
  BY <1>3, <1>5
<1> QED
  BY <1>1, <1>2, <1>5, <1>7, <1>8 DEF GrownInv

LEMMA EndGrown ==
    ASSUME HealInv, GrownInv, ~OnCopy, VerifyOnegraph \/ RefreshEnds \/ MaterializeNowView \/ Stop
    PROVE  GrownInv'
<1>1. UNCHANGED <<trees, line, resets, at, mode, marker, events>> /\ pc # "idle"
  BY DEF VerifyOnegraph, RefreshEnds, MaterializeNowView, Stop, Ends, Fails, repo, store
<1>2. \/ pc' = "idle" /\ pending' = NoPending
      \/ pc' = "refresh" /\ pc = "verify" /\ pending' = pending
  BY DEF VerifyOnegraph, RefreshEnds, MaterializeNowView, Stop, Ends
<1>3. events' \cup pending'.evs \subseteq events \cup pending.evs /\ pending'.add \cap pending'.del = {}
  BY <1>1, <1>2 DEF NoPending, GrownInv
<1>4. pc' \in {"verify", "refresh"} /\ resets = 0 => Top = Len(at)
  BY <1>2 DEF GrownInv
<1> QED
  BY <1>1, <1>2, <1>3, <1>4, StepGrown DEF HealInv

LEMMA NextGrown == ~OnCopy /\ HealInv /\ GrownInv /\ [Next]_vars => GrownInv'
<1> SUFFICES ASSUME ~OnCopy, HealInv, GrownInv, [Next]_vars PROVE GrownInv'
  OBVIOUS
<1>1. CASE Commit \/ Reset
  BY <1>1, RepoGrown DEF HealInv
<1>2. CASE AlreadySynced \/ BeginSync
  BY <1>2, BeginGrown DEF HealInv
<1>3. CASE ClearDerived \/ EmptyHistory
  BY <1>3, EmptiesGrown
<1>4. CASE WalkCommit
  BY <1>4, WalkGrown DEF HealInv
<1>5. CASE WriteBatch \/ BeginWrite \/ RemoveFact \/ LoadEvents \/ CopyNowView \/ RefreshSubject
  BY <1>5, WritesGrown
<1>6. CASE RemoveStale \/ LoadMarker
  BY <1>6, MarkerGrown
<1>7. CASE VerifyOnegraph \/ RefreshEnds \/ MaterializeNowView \/ Stop
  BY <1>7, EndGrown
<1>8. CASE UNCHANGED vars
  <2>1. UNCHANGED <<trees, line, resets, at, mode, marker, events, pc, walked, pending>>
    BY <1>8 DEF vars, repo, store, run
  <2>2. Top' = Top /\ Last' = Last
    BY <2>1 DEF Top, Last
  <2>3. \A i : Gain(i)' = Gain(i)
    BY <2>1 DEF Gain, Asserts, NewSide, OldSide, Touched, TreeOf
  <2> QED
    BY <2>1, <2>2, <2>3 DEF GrownInv
<1> QED
  BY <1>1, <1>2, <1>3, <1>4, <1>5, <1>6, <1>7, <1>8 DEF Next, SyncStep

-----------------------------------------------------------------------------
(* What store and history disagree about is what the next walk touches.     *)

\* Where they disagree about nothing but what a walk asserts, it will.
LEMMA AgreeTouches ==
    ASSUME NEW k \in Nat, NEW n \in Nat, NEW m \in Nat, n <= m, \A f : Agree(f) \/ f \in Gained(k, n)
    PROVE  WillTouch(k, m)
<1>1. \A W : Gained(k, n) \subseteq Moved(W, k, m)
  BY LongerMoves DEF Moved
<1> QED
  BY <1>1 DEF WillTouch

LEMMA LaterTouches ==
    ASSUME NEW k \in Nat, NEW n \in Nat, NEW m \in Nat, NEW l \in Nat, n <= m, n <= l,
           \A i \in 1..l : Gain(i)' = Gain(i) /\ \A A : Lost(A, i)' = Lost(A, i),
           UNCHANGED <<events, base>>, WillTouch(k, n)
    PROVE  WillTouch(k, m)'
<1>1. (k + 1)..n \subseteq (k + 1)..m
  OBVIOUS
<1>2. \A f : Agree(f)' <=> Agree(f)
  BY DEF Agree, LiveEvent
<1>3. ASSUME NEW W, W[k] = base', Walks(W, k, m)', NEW f, ~Agree(f)'
      PROVE  f \in Moved(W, k, m)'
  <2>1. Walks(W, k, n)'
    BY <1>1, <1>3 DEF Walks
  <2>2. Walks(W, k, n)
    BY <2>1, WalksAlike
  <2>3. f \in Moved(W, k, n)
    BY <1>2, <1>3, <2>2 DEF WillTouch
  <2>4. f \in Moved(W, k, n)'
    BY <2>3, WalksAlike
  <2> QED
    BY <1>1, <2>4 DEF Moved, Gained
<1> QED
  BY <1>3 DEF WillTouch

LEMMA WalkTouchesStay ==
    ASSUME WalkTouches, Top \in Nat, walked \in Nat, walked <= Len(trees), Len(trees) \in Nat,
           UNCHANGED <<base, marker, walked, pending>>,
           \A i \in 1..Len(trees) : Gain(i)' = Gain(i) /\ \A A : Lost(A, i)' = Lost(A, i)
    PROVE  WalkTouches'
<1>1. PICK k \in Nat, h \in Nat : k = Top /\ h = walked
  OBVIOUS
<1>2. Top' = k /\ walked' = h
  BY <1>1 DEF Top
<1>3. PICK W : /\ W[k] = base /\ Walks(W, k, h) /\ Net = W[h]
               /\ pending.add \cup pending.del = Moved(W, k, h)
               /\ pending.add \subseteq Gained(k, h)
               /\ \A e \in pending.evs : e.fact \in pending.add \cup pending.del
               /\ \A i \in (k + 1)..h : \A f \in Lost(W[i - 1], i) : Event("-", f, i) \in pending.evs
  BY <1>1 DEF WalkTouches
<1>4. /\ Walks(W, k, h)' /\ Moved(W, k, h)' = Moved(W, k, h) /\ Gained(k, h)' = Gained(k, h)
  BY <1>1, <1>3, WalksAlike
<1>5. \A i \in (k + 1)..h : Lost(W[i - 1], i)' = Lost(W[i - 1], i)
  <2>1. \A i \in (k + 1)..h : i \in 1..Len(trees)
    BY <1>1
  <2> QED
    BY <2>1
<1>6. Net' = Net
  BY DEF Net
<1>7. \A i \in (k + 1)..h : \A f \in Lost(W[i - 1], i)' : Event("-", f, i) \in pending'.evs
  BY <1>3, <1>5
<1> QED
  BY <1>2, <1>3, <1>4, <1>6, <1>7 DEF WalkTouches

LEMMA WriteTouchesStay ==
    ASSUME WriteTouches, Top \in Nat, Len(at) \in Nat, Len(at) <= Len(trees), Len(trees) \in Nat,
           UNCHANGED <<events, base, marker, at, pending, changed>>,
           \A i \in 1..Len(trees) : Gain(i)' = Gain(i) /\ \A A : Lost(A, i)' = Lost(A, i)
    PROVE  WriteTouches'
<1>1. PICK k \in Nat, n \in Nat : k = Top /\ n = Len(at)
  OBVIOUS
<1>2. Top' = k /\ Len(at)' = n
  BY <1>1 DEF Top
<1>3. PICK W : base \subseteq W[k] /\ Walks(W, k, n) /\ changed = Moved(W, k, n)
  BY <1>1 DEF WriteTouches
<1>4. Walks(W, k, n)' /\ Moved(W, k, n)' = Moved(W, k, n) /\ Gained(k, n)' = Gained(k, n)
  BY <1>1, <1>3, WalksAlike
<1>5. \A f : Agree(f)' <=> Agree(f)
  BY DEF Agree, LiveEvent
<1>6. \E V : base' \subseteq V[Top'] /\ Walks(V, Top, Len(at))' /\ changed' = Moved(V, Top, Len(at))'
  BY <1>2, <1>3, <1>4
<1>7. Gained(Top, Len(at))' = Gained(Top, Len(at))
  BY <1>1, <1>2, <1>4
<1> QED
  BY <1>2, <1>1, <1>5, <1>6, <1>7 DEF WriteTouches

\* What the invariant says of a run stays true while its own state does.
LEMMA RunTouches ==
    ASSUME EarnedInv, GrownInv, TouchInv, resets = 0, ~unproved,
           UNCHANGED <<events, base, marker, at, pc, mode, walked, pending, changed, result>>,
           UNCHANGED trees \/ \E t \in [Sidecars -> SUBSET Props] : trees' = Append(trees, t)
    PROVE  TouchInv'
<1>1. \A i \in 1..Len(trees) : Gain(i)' = Gain(i) /\ \A A : Lost(A, i)' = Lost(A, i)
  BY MovesAlike DEF EarnedInv, LinesInv
<1>2. /\ Len(trees) \in Nat /\ Len(at) \in Nat /\ Len(at) <= Len(trees) /\ Len(trees) <= Len(trees')
      /\ Len(trees') \in Nat /\ walked \in 0..Len(at)
  BY DEF EarnedInv, LinesInv, GrownInv, WalkInv
<1>3. Top' = Top /\ Top \in Nat /\ Last \in Nat /\ Last <= Len(trees) /\ Last' \in Nat /\ Last <= Last'
  <2>1. Top' = Top
    BY DEF Top
  <2>2. Top \in Nat
    BY DEF GrownInv
  <2> QED
    BY <1>2, <2>1, <2>2 DEF Last
<1>4. \A f : Agree(f)' <=> Agree(f)
  BY DEF Agree, LiveEvent
<1>5. SyncedIsCoherent'
  <2>1. SyncedIsCoherent
    BY DEF TouchInv
  <2>2. \A f : LiveByHistory(f)' <=> LiveByHistory(f)
    BY DEF LiveByHistory, OrdinalsOf
  <2>3. pc = "idle" /\ result = "synced" => base = {f \in Facts : LiveByHistory(f)}
    BY <2>1 DEF SyncedIsCoherent
  <2>4. pc' = "idle" /\ result' = "synced" => base' = {f \in Facts : LiveByHistory(f)'}
    BY <2>2, <2>3
  <2> QED
    BY <2>4 DEF SyncedIsCoherent
<1>6. ASSUME pc \in {"idle", "clear"}, Top >= 1 PROVE WillTouch(Top, Last)'
  <2>1. PICK k \in Nat, m \in Nat : k = Top /\ m = Last'
    BY <1>3
  <2>2. WillTouch(k, Last)
    BY <1>6, <2>1 DEF TouchInv
  <2>3. WillTouch(k, m)'
    BY <1>1, <1>2, <1>3, <2>1, <2>2, LaterTouches
  <2> QED
    BY <1>3, <2>1, <2>3
<1>7. Gained(Top, Len(at))' = Gained(Top, Len(at))
  <2>1. PICK k \in Nat, n \in Nat : k = Top /\ n = Len(at)
    BY <1>2, <1>3
  <2>2. Gained(k, n)' = Gained(k, n)
    BY <1>1, <1>2, <2>1, WalksAlike
  <2> QED
    BY <1>3, <2>1, <2>2
<1>8. ASSUME mode = "append", pc = "walk" PROVE WillTouch(Top, Len(at))' /\ WalkTouches'
  <2>1. PICK k \in Nat, n \in Nat : k = Top /\ n = Len(at)
    BY <1>2, <1>3
  <2>2. WillTouch(k, n) /\ WalkTouches
    BY <1>8, <2>1 DEF TouchInv
  <2>3. n <= n /\ n <= Len(trees)
    BY <1>2, <2>1
  <2>4. WillTouch(k, n)'
    BY <1>1, <1>2, <2>2, <2>3, LaterTouches
  <2>5. WillTouch(Top, Len(at))'
    BY <1>3, <2>1, <2>4
  <2>6. WalkTouches'
    BY <1>1, <1>2, <1>3, <2>2, WalkTouchesStay
  <2> QED
    BY <2>5, <2>6
<1>9. ASSUME mode = "append", pc = "write" PROVE WriteTouches'
  <2>1. WriteTouches
    BY <1>9 DEF TouchInv
  <2> QED
    BY <1>1, <1>2, <1>3, <2>1, WriteTouchesStay
<1> QED
  BY <1>3, <1>4, <1>5, <1>6, <1>7, <1>8, <1>9 DEF TouchInv

\* The guard of a walk's commit is the one of its net base layer.
LEMMA RetractsAreLost ==
    ASSUME NEW i, pending.add \cap pending.del = {}
    PROVE  Retracts(i - 1, i) = Lost(Net, i)
<1>1. Anchors = Net
  BY DEF Anchors, Net
<1>2. \A f : StillLive(i - 1, i, f) <=> GuardedBy(Net, i, f)
  BY <1>1 DEF StillLive, GuardedBy, GuardDocs
<1> QED
  BY <1>2 DEF Retracts, Lost

LEMMA OneMoreMoves ==
    ASSUME NEW k \in Nat, NEW h \in Nat, k <= h, NEW V, NEW W, \A i \in k..h : V[i] = W[i]
    PROVE  /\ Gained(k, h + 1) = Gained(k, h) \cup Gain(h + 1)
           /\ Moved(V, k, h + 1) = Moved(W, k, h) \cup Gain(h + 1) \cup Lost(W[h], h + 1)
           /\ V[h + 1] = Walk(W[h], h + 1) /\ Walks(W, k, h) => Walks(V, k, h + 1)
<1>1. (k + 1)..(h + 1) = ((k + 1)..h) \cup {h + 1}
  OBVIOUS
<1>2. \A i \in (k + 1)..h : V[i - 1] = W[i - 1] /\ V[i] = W[i]
  OBVIOUS
<1>3. V[(h + 1) - 1] = W[h]
  OBVIOUS
<1>4. Gained(k, h + 1) = Gained(k, h) \cup Gain(h + 1)
  BY <1>1 DEF Gained
<1>5. \A f : (\E i \in (k + 1)..(h + 1) : f \in Lost(V[i - 1], i))
             <=> (\E i \in (k + 1)..h : f \in Lost(W[i - 1], i)) \/ f \in Lost(W[h], h + 1)
  BY <1>1, <1>2, <1>3
<1>6. \A f : f \in Moved(V, k, h + 1) <=> f \in Moved(W, k, h) \cup Gain(h + 1) \cup Lost(W[h], h + 1)
  BY <1>4, <1>5 DEF Moved
<1>7. ASSUME V[h + 1] = Walk(W[h], h + 1), Walks(W, k, h) PROVE Walks(V, k, h + 1)
  BY <1>1, <1>2, <1>3, <1>7 DEF Walks
<1> QED
  BY <1>4, <1>6, <1>7

LEMMA WalkTouch ==
    ASSUME HealInv, GrownInv, resets = 0, WalkTouches, WalkCommit, mode = "append"
    PROVE  WalkTouches'
<1>1. UNCHANGED <<trees, at, marker, base>> /\ pc = "walk" /\ walked' = walked + 1 /\ walked < Len(at)
  BY DEF WalkCommit, repo, store
<1>2. /\ Len(trees) \in Nat /\ Len(at) \in Nat /\ Len(at) <= Len(trees) /\ walked \in Nat
      /\ Top \in Nat /\ Top <= walked
  BY <1>1 DEF HealInv, EarnedInv, WalkInv, LinesInv, GrownInv
<1>3. PICK k \in Nat, h \in Nat : k = Top /\ h = walked
  BY <1>2
<1>4. PICK n \in Nat : n = h + 1
  OBVIOUS
<1>5. Top' = k /\ walked' = n /\ k <= h /\ n \in 1..Len(at) /\ n <= Len(trees) /\ n - 1 = h
  BY <1>1, <1>2, <1>3, <1>4 DEF Top
<1>6. \A i \in 1..Len(trees) : Gain(i)' = Gain(i) /\ \A A : Lost(A, i)' = Lost(A, i)
  BY <1>1, MovesAlike DEF HealInv, EarnedInv, LinesInv
<1>7. at[walked + 1] = n /\ ParentIn(at, walked + 1) = n - 1
  <2>1. at[n] = n /\ (n # 1 => at[n - 1] = n - 1)
    BY <1>2, <1>5 DEF GrownInv
  <2> QED
    BY <1>3, <1>4, <2>1 DEF ParentIn
<1> DEFINE minus == Lost(Net, n)
           plus == Gain(n)
<1>8. Retracts(n - 1, n) = minus /\ Asserts(n - 1, n) = plus
  BY RetractsAreLost DEF GrownInv, Gain
<1>9. pending' = [add |-> (pending.add \ minus) \cup plus, del |-> (pending.del \ plus) \cup minus,
                  evs |-> pending.evs \cup {Event("-", f, n) : f \in minus} \cup {Event("+", f, n) : f \in plus}]
  BY <1>7, <1>8 DEF WalkCommit, LastOpWins
<1>10. PICK W : /\ W[k] = base /\ Walks(W, k, h) /\ Net = W[h]
                /\ pending.add \cup pending.del = Moved(W, k, h)
                /\ pending.add \subseteq Gained(k, h)
                /\ \A e \in pending.evs : e.fact \in pending.add \cup pending.del
                /\ \A i \in (k + 1)..h : \A f \in Lost(W[i - 1], i) : Event("-", f, i) \in pending.evs
  BY <1>3 DEF WalkTouches
<1>11. PICK V : V = [i \in Nat |-> IF i = n THEN Walk(W[h], n) ELSE W[i]]
  OBVIOUS
<1>12. (\A i \in k..h : V[i] = W[i]) /\ V[n] = Walk(W[h], n) /\ V[k] = base
  BY <1>4, <1>5, <1>10, <1>11
<1>13. /\ Gained(k, n) = Gained(k, h) \cup plus
       /\ Moved(V, k, n) = Moved(W, k, h) \cup plus \cup minus
       /\ Walks(V, k, n)
  <2>1. V[h + 1] = Walk(W[h], h + 1) /\ Walks(W, k, h)
    BY <1>4, <1>10, <1>12
  <2>2. /\ Gained(k, h + 1) = Gained(k, h) \cup Gain(h + 1)
        /\ Moved(V, k, h + 1) = Moved(W, k, h) \cup Gain(h + 1) \cup Lost(W[h], h + 1)
        /\ Walks(V, k, h + 1)
    BY <1>5, <1>12, <2>1, OneMoreMoves
  <2> QED
    BY <1>4, <1>10, <2>2
<1>14. Net' = V[n]
  <2>1. Net' = (Net \ minus) \cup plus
    <3> HIDE DEF minus, plus
    <3> QED
      BY <1>1, <1>9 DEF Net
  <2> QED
    BY <1>10, <1>12, <2>1 DEF Walk
<1>15. \A i \in (k + 1)..n : \A f \in Lost(V[i - 1], i) : Event("-", f, i) \in pending'.evs
  <2> SUFFICES ASSUME NEW i \in (k + 1)..n, NEW f \in Lost(V[i - 1], i) PROVE Event("-", f, i) \in pending'.evs
    OBVIOUS
  <2>1. CASE i = n
    <3>1. f \in minus
      BY <1>5, <1>10, <1>12, <2>1
    <3> HIDE DEF minus, plus
    <3> QED
      BY <1>9, <2>1, <3>1
  <2>2. CASE i # n
    <3>1. i \in (k + 1)..h /\ V[i - 1] = W[i - 1]
      BY <1>4, <1>12, <2>2
    <3>2. Event("-", f, i) \in pending.evs
      BY <1>10, <3>1
    <3> HIDE DEF minus, plus
    <3> QED
      BY <1>9, <3>2
  <2> QED
    BY <2>1, <2>2
<1> HIDE DEF minus, plus
<1>16. /\ pending'.add \cup pending'.del = Moved(V, k, n)
       /\ pending'.add \subseteq Gained(k, n)
  BY <1>9, <1>10, <1>13
<1>17. \A e \in pending'.evs : e.fact \in pending'.add \cup pending'.del
  BY <1>9, <1>10 DEF Event
<1>18. Walks(V, k, n)' /\ Moved(V, k, n)' = Moved(V, k, n) /\ Gained(k, n)' = Gained(k, n)
  BY <1>2, <1>5, <1>6, <1>13, WalksAlike
<1>19. \A i \in (k + 1)..n : \A f \in Lost(V[i - 1], i)' : Event("-", f, i) \in pending'.evs
  <2>1. \A i \in (k + 1)..n : i \in 1..Len(trees)
    BY <1>2, <1>5
  <2>2. \A i \in (k + 1)..n : Lost(V[i - 1], i)' = Lost(V[i - 1], i)
    BY <1>6, <2>1
  <2> QED
    BY <1>15, <2>2
<1> QED
  BY <1>1, <1>5, <1>12, <1>14, <1>16, <1>17, <1>18, <1>19 DEF WalkTouches

LEMMA BeginWriteTouches ==
    ASSUME HealInv, GrownInv, resets = 0, WalkTouches, WillTouch(Top, Len(at)), BeginWrite
    PROVE  WriteTouches'
<1>1. /\ UNCHANGED <<trees, at, marker, base, events, pending>> /\ walked = Len(at)
      /\ changed' = pending.add \cup pending.del
  BY DEF BeginWrite, repo, store
<1>2. Len(trees) \in Nat /\ Len(at) \in Nat /\ Len(at) <= Len(trees) /\ Top \in Nat
  BY DEF HealInv, EarnedInv, LinesInv, GrownInv
<1>3. \A i \in 1..Len(trees) : Gain(i)' = Gain(i) /\ \A A : Lost(A, i)' = Lost(A, i)
  BY <1>1, MovesAlike DEF HealInv, EarnedInv, LinesInv
<1>4. PICK k \in Nat, n \in Nat : k = Top /\ n = Len(at)
  BY <1>2
<1>5. Top' = k /\ Len(at)' = n
  BY <1>1, <1>4 DEF Top
<1>6. PICK W : /\ W[k] = base /\ Walks(W, k, n)
               /\ pending.add \cup pending.del = Moved(W, k, n)
               /\ pending.add \subseteq Gained(k, n)
               /\ \A e \in pending.evs : e.fact \in pending.add \cup pending.del
               /\ \A i \in (k + 1)..n : \A f \in Lost(W[i - 1], i) : Event("-", f, i) \in pending.evs
  BY <1>1, <1>4 DEF WalkTouches
<1>7. Walks(W, k, n)' /\ Moved(W, k, n)' = Moved(W, k, n) /\ Gained(k, n)' = Gained(k, n)
  BY <1>2, <1>3, <1>4, <1>6, WalksAlike
<1>8. \A f : Agree(f)' \/ f \in Moved(W, k, n)
  <2>1. \A f : Agree(f) \/ f \in Moved(W, k, n)
    BY <1>4, <1>6 DEF WillTouch
  <2>2. \A f : Agree(f)' <=> Agree(f)
    BY <1>1 DEF Agree, LiveEvent
  <2> QED
    BY <2>1, <2>2
<1>9. \A f \in Moved(W, k, n) : \/ f \in Gained(k, n)
                                \/ \E i \in (k + 1)..n : Event("-", f, i) \in pending.evs
  BY <1>6 DEF Moved
<1>10. /\ \E U : base' \subseteq U[Top'] /\ Walks(U, Top, Len(at))' /\ changed' = Moved(U, Top, Len(at))'
       /\ Gained(Top, Len(at))' = Gained(k, n)
  BY <1>1, <1>5, <1>6, <1>7
<1> QED
  BY <1>1, <1>5, <1>6, <1>8, <1>9, <1>10 DEF WriteTouches

LEMMA RemoveTouches ==
    ASSUME HealInv, GrownInv, resets = 0, WriteTouches, RemoveFact
    PROVE  WriteTouches'
<1>1. PICK g \in pending.del : base' = base \ {g} /\ pending' = [pending EXCEPT !.del = @ \ {g}]
  BY DEF RemoveFact
<1>2. UNCHANGED <<trees, at, marker, events, changed>>
  BY DEF RemoveFact, repo
<1>3. pending = [add |-> pending.add, del |-> pending.del, evs |-> pending.evs]
  BY DEF HealInv, EarnedInv, WalkInv
<1>4. pending'.add = pending.add /\ pending'.del = pending.del \ {g} /\ pending'.evs = pending.evs
  BY <1>1, <1>3
<1>5. Len(trees) \in Nat /\ Len(at) \in Nat /\ Len(at) <= Len(trees) /\ Top \in Nat
  BY DEF HealInv, EarnedInv, LinesInv, GrownInv
<1>6. \A i \in 1..Len(trees) : Gain(i)' = Gain(i) /\ \A A : Lost(A, i)' = Lost(A, i)
  BY <1>2, MovesAlike DEF HealInv, EarnedInv, LinesInv
<1>7. PICK k \in Nat, n \in Nat : k = Top /\ n = Len(at)
  BY <1>5
<1>8. Top' = k /\ Len(at)' = n
  BY <1>2, <1>7 DEF Top
<1>9. PICK W : base \subseteq W[k] /\ Walks(W, k, n) /\ changed = Moved(W, k, n)
  BY <1>7 DEF WriteTouches
<1>10. Walks(W, k, n)' /\ Moved(W, k, n)' = Moved(W, k, n) /\ Gained(k, n)' = Gained(k, n)
  BY <1>5, <1>6, <1>7, <1>9, WalksAlike
<1>11. g \in changed
  BY DEF WriteTouches, GrownInv
<1>12. \A f : Agree(f)' \/ f \in changed
  <2>1. \A f : f # g => (Agree(f)' <=> Agree(f))
    BY <1>1, <1>2 DEF Agree, LiveEvent
  <2> QED
    BY <1>11, <2>1 DEF WriteTouches
<1>13. /\ \E U : base' \subseteq U[Top'] /\ Walks(U, Top, Len(at))' /\ changed' = Moved(U, Top, Len(at))'
       /\ Gained(Top, Len(at))' = Gained(Top, Len(at))
  BY <1>1, <1>2, <1>7, <1>8, <1>9, <1>10
<1>14. \A f \in changed : f \in base' => f \in pending'.add \cup pending'.del
  BY <1>1, <1>4 DEF WriteTouches
<1>15. \A f \in changed' : \/ f \in Gained(Top, Len(at))'
                           \/ \E i \in (Top' + 1)..Len(at)' : Event("-", f, i) \in pending'.evs
  BY <1>2, <1>4, <1>7, <1>8, <1>13 DEF WriteTouches
<1> QED
  BY <1>2, <1>4, <1>12, <1>13, <1>14, <1>15 DEF WriteTouches

\* The last write leaves only what the walk asserts: a fact it only retracts is
\* out of the base layer, and its last event is a retract.
LEMMA LoadTouches ==
    ASSUME HealInv, GrownInv, resets = 0, WriteTouches, LoadEvents
    PROVE  \A f : Agree(f)' \/ f \in changed' \cap Gained(Top, Len(at))'
<1>1. /\ UNCHANGED <<trees, at, marker, changed>> /\ pc = "write"
      /\ pending.del = {} /\ base' = base \cup pending.add /\ events' = events \cup pending.evs
  BY DEF LoadEvents, repo
<1>2. Len(trees) \in Nat /\ Len(at) \in Nat /\ Len(at) <= Len(trees) /\ Top \in Nat
  BY DEF HealInv, EarnedInv, LinesInv, GrownInv
<1>3. PICK k \in Nat, n \in Nat : k = Top /\ n = Len(at)
  BY <1>2
<1>4. \A i \in 1..Len(trees) : Gain(i)' = Gain(i) /\ \A A : Lost(A, i)' = Lost(A, i)
  BY <1>1, MovesAlike DEF HealInv, EarnedInv, LinesInv
<1>5. Gained(Top, Len(at))' = Gained(k, n)
  <2>1. Top' = k /\ Len(at)' = n
    BY <1>1, <1>3 DEF Top
  <2>2. Gained(k, n)' = Gained(k, n)
    BY <1>2, <1>3, <1>4, WalksAlike
  <2> QED
    BY <2>1, <2>2
<1>6. \A e \in events' : e.commit \in 1..n /\ (e.op = "+" => e.fact \in Gain(e.commit))
  BY <1>1, <1>3 DEF GrownInv, Last
<1>7. \A f \in changed : f \in base' /\ f \notin Gained(k, n) => FALSE
  BY <1>1, <1>3 DEF WriteTouches
<1>8. ASSUME NEW f \in changed, f \notin Gained(k, n) PROVE Agree(f)'
  <2>1. PICK i \in (k + 1)..n : Event("-", f, i) \in events'
    BY <1>1, <1>3, <1>8 DEF WriteTouches
  <2>2. ASSUME NEW j \in Nat, Event("+", f, j) \in events' PROVE ~(i < j)
    <3>1. j \in 1..n /\ f \in Gain(j)
      BY <1>6, <2>2 DEF Event
    <3>2. j \notin (k + 1)..n
      BY <1>8, <3>1 DEF Gained
    <3> QED
      BY <3>1, <3>2
  <2>3. ~ LiveEvent(f)'
    BY <2>1, <2>2 DEF LiveEvent
  <2>4. f \notin base'
    BY <1>7, <1>8
  <2> QED
    BY <2>3, <2>4 DEF Agree
<1>9. ASSUME NEW f, f \notin changed PROVE Agree(f)'
  <2>1. Agree(f) /\ f \notin pending.add
    BY <1>9 DEF WriteTouches
  <2>2. \A e \in pending.evs : e.fact # f
    BY <1>9 DEF WriteTouches
  <2>3. \A op, j : Event(op, f, j) \in events' <=> Event(op, f, j) \in events
    BY <1>1, <2>2 DEF Event
  <2> QED
    BY <1>1, <2>1, <2>3 DEF Agree, LiveEvent
<1> QED
  BY <1>1, <1>5, <1>8, <1>9

\* Once every commit is marked, all events of the history count.
LEMMA AllEventsCount ==
    ASSUME LinesInv, GrownInv, resets = 0, pc # "idle", Top = Len(at), NEW f
    PROVE  LiveByHistory(f) <=> LiveEvent(f)
<1>1. /\ Len(at) \in Nat /\ (\A i \in 1..Len(at) : at[i] = i) /\ marker = 1..Len(at) /\ DOMAIN at = 1..Len(at)
      /\ \A e \in events : e.commit \in 1..Len(at)
  BY DEF LinesInv, GrownInv, Last
<1>2. \A op, i : i \in OrdinalsOf(op, f) <=> i \in Nat /\ Event(op, f, i) \in events
  <2>1. \A op, i : Event(op, f, i) \in events => i \in 1..Len(at)
    BY <1>1 DEF Event
  <2> QED
    BY <1>1, <2>1 DEF OrdinalsOf
<1> QED
  BY <1>2 DEF LiveByHistory, LiveEvent

LEMMA AgreedIsCoherent ==
    ASSUME LinesInv, GrownInv, resets = 0, pc # "idle", Top = Len(at), \A f : Agree(f)
    PROVE  base = {f \in Facts : LiveByHistory(f)}
<1>1. \A f : f \in base <=> LiveByHistory(f)
  BY AllEventsCount DEF Agree
<1>2. ASSUME NEW f, LiveEvent(f) PROVE f \in Facts
  <2>1. PICK i \in Nat : Event("+", f, i) \in events
    BY <1>2 DEF LiveEvent
  <2>2. i \in 1..Len(at) /\ f \in Gain(i)
    BY <2>1 DEF GrownInv, Last, Event
  <2>3. i \in 0..Len(trees)
    BY <2>2 DEF GrownInv, LinesInv
  <2>4. TreeFacts(i) \subseteq Facts
    BY <2>3, TreeFactsAreFacts DEF LinesInv
  <2>5. f \in TreeFacts(i)
    BY <2>2 DEF Gain, Asserts, NewSide, TreeFacts, FactsIn, Touched
  <2> QED
    BY <2>4, <2>5
<1> QED
  BY <1>1, <1>2, AllEventsCount

\* A run that ends where nothing is left to disagree about.
LEMMA AgreedEnds ==
    ASSUME HealInv, GrownInv, ~OnCopy, resets = 0, Top = Len(at), \A f : Agree(f), pc # "idle", pc' = "idle",
           UNCHANGED <<trees, at, events, base, marker>>
    PROVE  TouchInv'
<1>1. /\ Len(trees) \in Nat /\ Len(at) \in Nat /\ Len(at) <= Len(trees) /\ Top \in Nat
  BY DEF HealInv, EarnedInv, LinesInv, GrownInv
<1>2. PICK k \in Nat, l \in Nat : k = Top /\ l = Len(trees)
  BY <1>1
<1>3. \A i \in 1..Len(trees) : Gain(i)' = Gain(i) /\ \A A : Lost(A, i)' = Lost(A, i)
  BY MovesAlike DEF HealInv, EarnedInv, LinesInv
<1>4. WillTouch(k, l)
  BY AgreeTouches, <1>1, <1>2
<1>5. WillTouch(k, l)'
  BY <1>2, <1>3, <1>4, LaterTouches
<1>6. Top' = k /\ Last' = l
  BY <1>2 DEF Top, Last
<1>7. WillTouch(Top, Last)'
  BY <1>5, <1>6
<1>8. base = {f \in Facts : LiveByHistory(f)}
  BY AgreedIsCoherent DEF HealInv, EarnedInv
<1>9. \A f : LiveByHistory(f)' <=> LiveByHistory(f)
  BY DEF LiveByHistory, OrdinalsOf
<1>10. base' = {f \in Facts : LiveByHistory(f)'}
  BY <1>8, <1>9
<1> QED
  BY <1>7, <1>10 DEF TouchInv, SyncedIsCoherent

\* A run that is stopped before its marker leaves the next one as much to touch.
LEMMA StopTouches ==
    ASSUME HealInv, GrownInv, TouchInv, ~OnCopy, resets = 0, ~unproved, Stop, ~unproved'
    PROVE  TouchInv'
<1>1. /\ UNCHANGED <<trees, at, events, base, marker>> /\ pc' = "idle" /\ result' = "stopped"
      /\ pc \notin {"idle", "verify"}
  BY DEF Stop, Ends, Fails, repo, store
<1>2. /\ Len(trees) \in Nat /\ Len(at) \in Nat /\ Len(at) <= Len(trees) /\ Top \in Nat /\ Last = Len(at)
  BY <1>1 DEF HealInv, EarnedInv, LinesInv, GrownInv, Last
<1>3. PICK k \in Nat, n \in Nat, l \in Nat : k = Top /\ n = Len(at) /\ l = Len(trees)
  BY <1>2
<1>4. Top' = k /\ Last' = l
  BY <1>1, <1>3 DEF Top, Last
<1>5. \A i \in 1..Len(trees) : Gain(i)' = Gain(i) /\ \A A : Lost(A, i)' = Lost(A, i)
  BY <1>1, MovesAlike DEF HealInv, EarnedInv, LinesInv
<1>6. ASSUME k >= 1 PROVE \E m \in Nat : m <= l /\ WillTouch(k, m)
  <2>1. mode \in {"append", "rebuild"} /\ (pc = "empty" => marker = {})
    BY <1>1 DEF HealInv, EarnedInv, WalkInv
  <2>2. marker # {}
    <3>1. marker = 1..k
      BY <1>3 DEF GrownInv
    <3>2. 1 \in 1..k
      BY <1>6
    <3> QED
      BY <3>1, <3>2
  <2>3. pc \in {"clear", "walk", "write", "stale", "git", "refresh"} /\ (pc # "clear" => mode = "append")
    <3>1. mode = "rebuild" => pc \notin {"walk", "now", "git", "write", "stale", "refresh"}
      BY <2>2 DEF HealInv, RebuildInv
    <3>2. pc \in {"clear", "empty", "walk", "write", "stale", "now", "git", "refresh"}
      BY <1>1 DEF HealInv, EarnedInv, WalkInv
    <3>3. pc = "now" => mode = "rebuild"
      BY DEF GrownInv
    <3> QED
      BY <2>1, <2>2, <3>1, <3>2, <3>3
  <2>4. CASE pc \in {"clear", "walk"}
    <3>1. WillTouch(k, n)
      BY <1>2, <1>3, <1>6, <2>3, <2>4 DEF TouchInv
    <3> QED
      BY <1>2, <1>3, <3>1
  <2>5. CASE pc = "write"
    <3>1. WriteTouches
      BY <2>3, <2>5 DEF TouchInv
    <3>2. PICK U : base \subseteq U[k] /\ Walks(U, k, n) /\ changed = Moved(U, k, n)
      BY <1>3, <3>1 DEF WriteTouches
    <3>3. ASSUME NEW W, W[k] = base, Walks(W, k, n), NEW f, ~Agree(f) PROVE f \in Moved(W, k, n)
      <4>1. f \in Moved(U, k, n)
        BY <3>1, <3>2, <3>3 DEF WriteTouches
      <4>2. Moved(U, k, n) \subseteq Moved(W, k, n)
        BY <3>2, <3>3, WalkOfLess
      <4> QED
        BY <4>1, <4>2
    <3>4. WillTouch(k, n)
      BY <3>3 DEF WillTouch
    <3> QED
      BY <1>2, <1>3, <3>4
  <2>6. CASE pc \in {"stale", "git", "refresh"}
    <3>1. \A f : Agree(f) \/ f \in Gained(k, n)
      BY <1>3, <2>3, <2>6 DEF TouchInv
    <3>2. WillTouch(k, n)
      BY <3>1, AgreeTouches
    <3> QED
      BY <1>2, <1>3, <3>2
  <2> QED
    BY <2>3, <2>4, <2>5, <2>6
<1>7. ASSUME k >= 1 PROVE WillTouch(k, l)'
  <2>1. PICK m \in Nat : m <= l /\ WillTouch(k, m)
    BY <1>6, <1>7
  <2> QED
    BY <1>1, <1>3, <1>5, <2>1, LaterTouches
<1>8. Top' >= 1 => WillTouch(Top, Last)'
  BY <1>4, <1>7
<1> QED
  BY <1>1, <1>8 DEF TouchInv, SyncedIsCoherent

\* A check that passes leaves store and history agreed; one that does not leaves
\* what nothing but a rebuild looks at again.
LEMMA CheckTouches ==
    ASSUME HealInv, GrownInv, TouchInv, ~OnCopy, resets = 0, ~unproved, VerifyOnegraph, ~unproved'
    PROVE  TouchInv'
<1>1. /\ pc = "verify" /\ Verified /\ UNCHANGED <<trees, at, events, base, marker>> /\ Top = Len(at)
      /\ mode \in {"append", "rebuild"} /\ mode' = mode
  BY DEF VerifyOnegraph, Fails, Ends, repo, store, HealInv, EarnedInv, WalkInv, GrownInv
<1>2. CASE mode = "append"
  <2>1. pc' = "refresh" /\ changed' = changed /\ result' = result
    BY <1>1, <1>2 DEF VerifyOnegraph
  <2>2. \A f \in changed : LiveByHistory(f) <=> f \in base
    BY <1>1, <1>2 DEF Verified, StatementsHold
  <2>3. \A f : LiveByHistory(f) <=> LiveEvent(f)
    BY <1>1, AllEventsCount DEF HealInv, EarnedInv
  <2>4. \A f : Agree(f)
    BY <1>1, <1>2, <2>2, <2>3 DEF TouchInv, Agree
  <2>5. \A f : Agree(f)'
    BY <1>1, <2>4 DEF Agree, LiveEvent
  <2> QED
    BY <2>1, <2>5 DEF TouchInv, SyncedIsCoherent
<1>3. CASE mode = "rebuild"
  <2>1. pc' = "idle"
    BY <1>1, <1>3 DEF VerifyOnegraph, Ends
  <2>2. base = TreeFacts(Newest(at)) /\ events = Said(Len(at)) /\ marker = OnLine(at) /\ at # <<>>
    BY <1>1, <1>3 DEF HealInv, RebuildInv
  <2>3. at \in Seq(Made) /\ Alike(at, at)
    BY DEF HealInv, EarnedInv, LinesInv
  <2>4. \A f : LiveByHistory(f) <=> f \in base
    BY <2>2, <2>3, HistoryTells
  <2>5. \A f : Agree(f)
    BY <1>1, <2>4, AllEventsCount DEF Agree, HealInv, EarnedInv
  <2> QED
    BY <1>1, <2>1, <2>5, AgreedEnds
<1> QED
  BY <1>1, <1>2, <1>3

LEMMA BeginTouches ==
    ASSUME HealInv, GrownInv, TouchInv, resets = 0, ~unproved, AlreadySynced \/ BeginSync
    PROVE  TouchInv'
<1>1. /\ UNCHANGED <<trees, events, base, marker>> /\ pc = "idle" /\ at' = line
      /\ \/ pc' = "idle" /\ result' = "already"
         \/ pc' = "clear"
  BY DEF AlreadySynced, BeginSync, Begins, repo, store
<1>2. /\ Len(trees) \in Nat /\ Top \in Nat /\ Last = Len(trees) /\ Len(line) = Len(trees)
  BY <1>1 DEF HealInv, EarnedInv, LinesInv, GrownInv, Last
<1>3. PICK k \in Nat, l \in Nat : k = Top /\ l = Len(trees)
  BY <1>2
<1>4. Top' = k /\ Last' = l
  BY <1>1, <1>2, <1>3 DEF Top, Last
<1>5. \A i \in 1..Len(trees) : Gain(i)' = Gain(i) /\ \A A : Lost(A, i)' = Lost(A, i)
  BY <1>1, MovesAlike DEF HealInv, EarnedInv, LinesInv
<1>6. ASSUME k >= 1 PROVE WillTouch(k, l)'
  <2>1. WillTouch(k, l)
    BY <1>1, <1>2, <1>3, <1>6 DEF TouchInv
  <2>2. l <= l /\ l <= Len(trees)
    BY <1>3
  <2> QED
    BY <1>1, <1>2, <1>3, <1>5, <2>1, <2>2, LaterTouches
<1>7. Top' >= 1 => WillTouch(Top, Last)'
  BY <1>4, <1>6
<1> QED
  BY <1>1, <1>7 DEF TouchInv, SyncedIsCoherent

LEMMA ClearTouches ==
    ASSUME HealInv, GrownInv, resets = 0, ClearDerived, ~unproved', TouchInv
    PROVE  TouchInv'
<1>1. CASE mode # "append"
  <2>1. pc' = "empty" /\ mode' = mode
    BY <1>1 DEF ClearDerived
  <2> QED
    BY <1>1, <2>1 DEF TouchInv, SyncedIsCoherent
<1>2. CASE mode = "append"
  <2>1. /\ UNCHANGED <<trees, at, events, base, marker, mode, walked, pending>> /\ pc = "clear" /\ pc' = "walk"
        /\ ~unproved
    BY <1>2 DEF ClearDerived, KeepGitGraphs, repo
  <2>2. pending = NoPending
    BY <2>1 DEF HealInv, BranchInv
  <2>3. /\ Len(trees) \in Nat /\ Len(at) \in Nat /\ Len(at) <= Len(trees) /\ Top \in Nat /\ Top >= 1
        /\ walked = Top /\ Last = Len(at) /\ Top <= Len(trees)
    BY <1>2, <2>1 DEF HealInv, EarnedInv, LinesInv, GrownInv, Last
  <2>4. PICK k \in Nat, n \in Nat : k = Top /\ n = Len(at)
    BY <2>3
  <2>5. \A i \in 1..Len(trees) : Gain(i)' = Gain(i) /\ \A A : Lost(A, i)' = Lost(A, i)
    BY <2>1, MovesAlike DEF HealInv, EarnedInv, LinesInv
  <2>6. Top' = k /\ Len(at)' = n
    BY <2>1, <2>4 DEF Top
  <2>7. WillTouch(k, n)
    BY <2>1, <2>3, <2>4 DEF TouchInv
  <2>8. WillTouch(k, n)'
    <3>1. n <= n /\ n <= Len(trees)
      BY <2>3, <2>4
    <3> QED
      BY <2>1, <2>3, <2>5, <2>7, <3>1, LaterTouches
  <2>9. WillTouch(Top, Len(at))'
    BY <2>6, <2>8
  <2>10. PICK W : W = [i \in Nat |-> base]
    OBVIOUS
  <2>11. WalkTouches
    <3>1. (Top + 1)..walked = {}
      BY <2>3
    <3>2. W[Top] = base /\ Walks(W, Top, walked) /\ Moved(W, Top, walked) = {} /\ Gained(Top, walked) = {}
      BY <2>3, <2>10, <3>1 DEF Walks, Moved, Gained
    <3>3. Net = base /\ pending.add = {} /\ pending.del = {} /\ pending.evs = {}
      BY <2>2 DEF Net, NoPending
    <3> QED
      BY <2>3, <3>1, <3>2, <3>3 DEF WalkTouches
  <2>12. WalkTouches'
    BY <2>1, <2>3, <2>5, <2>11, WalkTouchesStay
  <2> QED
    BY <2>1, <2>9, <2>12 DEF TouchInv, SyncedIsCoherent
<1> QED
  BY <1>1, <1>2

LEMMA WalksTouch ==
    ASSUME HealInv, GrownInv, TouchInv, resets = 0, ~unproved,
           WalkCommit \/ WriteBatch \/ BeginWrite \/ RemoveFact \/ LoadEvents
    PROVE  TouchInv'
<1>1. CASE mode # "append"
  <2>1. mode' = mode /\ pc' \notin {"idle", "clear"}
    BY <1>1 DEF WalkCommit, WriteBatch, BeginWrite, RemoveFact, LoadEvents
  <2> QED
    BY <1>1, <2>1 DEF TouchInv, SyncedIsCoherent
<1>2. CASE mode = "append" /\ WalkCommit
  <2>1. UNCHANGED <<trees, at, events, base, marker, mode, pc>> /\ pc = "walk"
    BY <1>2 DEF WalkCommit, repo, store
  <2>2. WillTouch(Top, Len(at)) /\ WalkTouches
    BY <1>2, <2>1 DEF TouchInv
  <2>3. WalkTouches'
    BY <1>2, <2>2, WalkTouch
  <2>4. WillTouch(Top, Len(at))'
    <3>1. Len(trees) \in Nat /\ Len(at) \in Nat /\ Len(at) <= Len(trees) /\ Top \in Nat
      BY DEF HealInv, EarnedInv, LinesInv, GrownInv
    <3>2. PICK k \in Nat, n \in Nat : k = Top /\ n = Len(at)
      BY <3>1
    <3>3. n <= n /\ n <= Len(trees) /\ Top' = k /\ Len(at)' = n
      BY <2>1, <3>1, <3>2 DEF Top
    <3>4. \A i \in 1..Len(trees) : Gain(i)' = Gain(i) /\ \A A : Lost(A, i)' = Lost(A, i)
      BY <2>1, MovesAlike DEF HealInv, EarnedInv, LinesInv
    <3>5. WillTouch(k, n)'
      BY <2>1, <2>2, <3>1, <3>2, <3>3, <3>4, LaterTouches
    <3> QED
      BY <3>3, <3>5
  <2> QED
    BY <2>1, <2>3, <2>4 DEF TouchInv, SyncedIsCoherent
<1>3. CASE mode = "append" /\ BeginWrite
  <2>1. pc = "walk" /\ pc' = "write"
    BY <1>3 DEF BeginWrite
  <2>2. WriteTouches'
    BY <1>3, <2>1, BeginWriteTouches DEF TouchInv
  <2> QED
    BY <2>1, <2>2 DEF TouchInv, SyncedIsCoherent
<1>4. CASE mode = "append" /\ RemoveFact
  <2>1. pc = "write" /\ pc' = "write"
    BY <1>4 DEF RemoveFact
  <2>2. WriteTouches'
    BY <1>4, <2>1, RemoveTouches DEF TouchInv
  <2> QED
    BY <2>1, <2>2 DEF TouchInv, SyncedIsCoherent
<1>5. CASE mode = "append" /\ LoadEvents
  <2>1. pc = "write" /\ pc' = "stale"
    BY <1>5 DEF LoadEvents
  <2>2. \A f : Agree(f)' \/ f \in changed' \cap Gained(Top, Len(at))'
    BY <1>5, <2>1, LoadTouches DEF TouchInv
  <2> QED
    BY <2>1, <2>2 DEF TouchInv, SyncedIsCoherent
<1> QED
  BY <1>1, <1>2, <1>3, <1>4, <1>5 DEF WriteBatch

LEMMA MarkTouches ==
    ASSUME HealInv, GrownInv, TouchInv, resets = 0, ~unproved, RemoveStale \/ LoadMarker
    PROVE  TouchInv'
<1>1. /\ UNCHANGED <<trees, at, events, base, mode, changed>> /\ pc \in {"stale", "git"} /\ pc' \in {"git", "verify"}
      /\ pc' = "git" => RemoveStale
  BY DEF RemoveStale, LoadMarker, repo
<1>2. \A f : Agree(f)' <=> Agree(f)
  BY <1>1 DEF Agree, LiveEvent
<1> SUFFICES ASSUME mode = "append" PROVE TouchInv'
  BY <1>1 DEF TouchInv, SyncedIsCoherent
<1>3. \A f : Agree(f) \/ f \in changed \cap Gained(Top, Len(at))
  BY <1>1 DEF TouchInv
<1>4. CASE pc' = "verify"
  BY <1>1, <1>2, <1>3, <1>4 DEF TouchInv, SyncedIsCoherent
<1>5. CASE pc' = "git"
  <2>1. Len(trees) \in Nat /\ Len(at) \in Nat /\ Len(at) <= Len(trees) /\ Top \in Nat /\ at \in Seq(Made)
    BY DEF HealInv, EarnedInv, LinesInv, GrownInv
  <2>2. marker = 1..Top /\ Top <= Len(at) /\ \A i \in 1..Len(at) : at[i] = i
    BY <1>1 DEF GrownInv, Last
  <2>3. marker' = marker
    <3>1. OnLine(at) = 1..Len(at)
      BY <2>1, <2>2 DEF OnLine
    <3>2. marker \subseteq OnLine(at)
      BY <2>1, <2>2, <3>1
    <3> QED
      BY <1>1, <1>5, <3>2 DEF RemoveStale
  <2>4. PICK k \in Nat, n \in Nat : k = Top /\ n = Len(at)
    BY <2>1
  <2>5. Top' = k /\ Len(at)' = n
    BY <1>1, <2>3, <2>4 DEF Top
  <2>6. \A i \in 1..Len(trees) : Gain(i)' = Gain(i) /\ \A A : Lost(A, i)' = Lost(A, i)
    BY <1>1, MovesAlike DEF HealInv, EarnedInv, LinesInv
  <2>7. Gained(k, n)' = Gained(k, n)
    BY <2>1, <2>4, <2>6, WalksAlike
  <2>8. Gained(Top, Len(at))' = Gained(k, n)
    BY <2>5, <2>7
  <2> QED
    BY <1>1, <1>2, <1>3, <1>5, <2>4, <2>8 DEF TouchInv, SyncedIsCoherent
<1> QED
  BY <1>1, <1>4, <1>5

LEMMA RefreshTouches ==
    ASSUME HealInv, GrownInv, TouchInv, ~OnCopy, resets = 0, ~unproved,
           RefreshSubject \/ RefreshEnds \/ MaterializeNowView
    PROVE  TouchInv'
<1>1. /\ UNCHANGED <<trees, at, events, base, marker, mode>> /\ pc = "refresh"
      /\ pc' \in {"idle", "refresh"}
  BY DEF RefreshSubject, RefreshEnds, MaterializeNowView, Ends, repo, store
<1>2. mode = "append"
  BY <1>1 DEF HealInv, RebuildInv, EarnedInv, WalkInv
<1>3. \A f : Agree(f)
  BY <1>1, <1>2 DEF TouchInv
<1>4. CASE pc' = "idle"
  <2>1. Top = Len(at)
    BY <1>1 DEF GrownInv
  <2> QED
    BY <1>1, <1>3, <1>4, <2>1, AgreedEnds
<1>5. CASE pc' = "refresh"
  <2>1. \A f : Agree(f)'
    BY <1>1, <1>3 DEF Agree, LiveEvent
  <2> QED
    BY <1>5, <2>1 DEF TouchInv, SyncedIsCoherent
<1> QED
  BY <1>1, <1>4, <1>5

LEMMA NextTouches ==
    ~OnCopy /\ HealInv /\ GrownInv /\ TouchInv /\ [Next]_vars => TouchInv'
<1> SUFFICES ASSUME ~OnCopy, HealInv, GrownInv, TouchInv, [Next]_vars, resets' = 0, ~unproved' PROVE TouchInv'
  BY DEF TouchInv
<1>1. resets = 0 /\ ~Reset
  <2>1. resets \in Nat
    BY DEF GrownInv
  <2>2. ~Reset
    BY <2>1 DEF Reset
  <2>3. resets' = resets
    BY <2>2 DEF Next, SyncStep, vars, repo, Commit, AlreadySynced, BeginSync, Begins, ClearDerived, EmptyHistory,
       WalkCommit, WriteBatch, BeginWrite, RemoveFact, LoadEvents, CopyNowView, RemoveStale, LoadMarker,
       VerifyOnegraph, RefreshSubject, RefreshEnds, MaterializeNowView, Stop, Ends
  <2> QED
    BY <2>2, <2>3
<1>2. CASE ClearDerived
  BY <1>1, <1>2, ClearTouches
<1>3. ASSUME ~ClearDerived PROVE ~unproved
  BY <1>3 DEF Next, SyncStep, vars, Commit, Reset, AlreadySynced, BeginSync, Begins, EmptyHistory,
     WalkCommit, WriteBatch, BeginWrite, RemoveFact, LoadEvents, CopyNowView, RemoveStale, LoadMarker,
     VerifyOnegraph, RefreshSubject, RefreshEnds, MaterializeNowView, Stop, Fails
<1>4. CASE ~ClearDerived /\ (AlreadySynced \/ BeginSync)
  BY <1>1, <1>3, <1>4, BeginTouches
<1>5. CASE ~ClearDerived /\ (WalkCommit \/ WriteBatch \/ BeginWrite \/ RemoveFact \/ LoadEvents)
  BY <1>1, <1>3, <1>5, WalksTouch
<1>6. CASE ~ClearDerived /\ (RemoveStale \/ LoadMarker)
  BY <1>1, <1>3, <1>6, MarkTouches
<1>7. CASE ~ClearDerived /\ VerifyOnegraph
  BY <1>1, <1>3, <1>7, CheckTouches
<1>8. CASE ~ClearDerived /\ (RefreshSubject \/ RefreshEnds \/ MaterializeNowView)
  BY <1>1, <1>3, <1>8, RefreshTouches
<1>9. CASE ~ClearDerived /\ Stop
  BY <1>1, <1>3, <1>9, StopTouches
<1>10. CASE ~ClearDerived /\ (Commit \/ UNCHANGED vars)
  <2>1. /\ UNCHANGED <<events, base, marker, at, pc, mode, walked, pending, changed, result>>
        /\ UNCHANGED trees \/ \E t \in [Sidecars -> SUBSET Props] : trees' = Append(trees, t)
    BY <1>10 DEF Commit, vars, repo, store, run
  <2> QED
    BY <1>1, <1>3, <1>10, <2>1, RunTouches DEF HealInv
<1>11. CASE ~ClearDerived /\ (EmptyHistory \/ CopyNowView)
  <2>1. mode # "append" /\ mode' = mode /\ pc' \in {"walk", "git"}
    BY <1>11 DEF EmptyHistory, CopyNowView, GrownInv, HealInv, EarnedInv, WalkInv
  <2> QED
    BY <2>1 DEF TouchInv, SyncedIsCoherent
<1> QED
  BY <1>1, <1>2, <1>4, <1>5, <1>6, <1>7, <1>8, <1>9, <1>10, <1>11 DEF Next, SyncStep

LEMMA InitTouches == Init => GrownInv /\ TouchInv
<1> SUFFICES ASSUME Init PROVE GrownInv /\ TouchInv
  OBVIOUS
<1>1. PICK t \in [Sidecars -> SUBSET Props] : trees = <<t>>
  BY DEF Init
<1>2. /\ Len(trees) = 1 /\ line = <<1>> /\ Len(line) = 1 /\ line[1] = 1 /\ at = <<>> /\ Len(at) = 0
      /\ pc = "idle" /\ pending = NoPending /\ Last = 1 /\ resets = 0 /\ mode = "none" /\ result = "none"
      /\ trees[1] = t
  BY <1>1 DEF Init, Last
<1>3. Touched(0, 1) = {s \in Sidecars : t[s] # {}} /\ TreeOf(1) = t /\ TreeOf(0) = EmptyTree
  <2>1. TreeOf(1) = t /\ TreeOf(0) = EmptyTree
    BY <1>2 DEF TreeOf
  <2> QED
    BY <2>1 DEF Touched, EmptyTree
<1>4. OldSide(0, 1) = {}
  BY <1>3 DEF OldSide, FactsIn, FactsOf, EmptyTree
<1>5. NewSide(0, 1) = TreeFacts(1)
  BY <1>3 DEF NewSide, TreeFacts, FactsIn, FactsOf
<1>6. Gain(1) = TreeFacts(1)
  BY <1>4, <1>5 DEF Gain, Asserts
<1>7. EventsAt(line, 1) = {Event("+", f, 1) : f \in TreeFacts(1)}
  BY <1>2, <1>4, <1>5 DEF EventsAt, ParentIn
<1>8. History(line) = {Event("+", f, 1) : f \in TreeFacts(1)}
  BY <1>2, <1>7 DEF History
<1>9. \/ marker = {} /\ events = {} /\ Top = 0
      \/ marker = 1..1 /\ events = {Event("+", f, 1) : f \in TreeFacts(1)} /\ base = TreeFacts(1) /\ Top = 1
  <2>1. CASE marker = {}
    <3>1. marker = 1..0
      BY <2>1
    <3> QED
      BY <2>1, <3>1, TopIs DEF Init
  <2>2. CASE marker = {1}
    <3>1. marker = 1..1
      BY <2>2
    <3> QED
      BY <1>8, <2>2, <3>1, TopIs DEF Init
  <2> QED
    BY <2>1, <2>2 DEF Init
<1>10. GrownInv
  <2>1. \A e \in events : e.commit = 1 /\ e.fact \in Gain(1)
    BY <1>6, <1>9 DEF Event
  <2>2. marker = 1..Top /\ Top \in Nat /\ Top <= 1
    <3>1. 1..0 = {}
      OBVIOUS
    <3>2. \/ marker = 1..0 /\ Top = 0
          \/ marker = 1..1 /\ Top = 1
      BY <1>9, <3>1
    <3>3. CASE marker = 1..0 /\ Top = 0
      BY <3>3
    <3>4. CASE marker = 1..1 /\ Top = 1
      BY <3>4
    <3> QED
      BY <3>2, <3>3, <3>4
  <2>3. \A e \in events \cup pending.evs : e.commit \in 1..Last /\ (e.op = "+" => e.fact \in Gain(e.commit))
    BY <1>2, <2>1 DEF NoPending
  <2> QED
    BY <1>2, <2>2, <2>3 DEF GrownInv, NoPending
<1>11. ASSUME Top >= 1 PROVE WillTouch(Top, Last)
  <2>1. events = {Event("+", f, 1) : f \in TreeFacts(1)} /\ base = TreeFacts(1) /\ Top = 1
    BY <1>9, <1>11
  <2>2. ASSUME NEW f PROVE Agree(f)
    <3>1. \A j \in Nat : Event("-", f, j) \notin events
      BY <2>1 DEF Event
    <3>2. \A j \in Nat : Event("+", f, j) \in events <=> j = 1 /\ f \in TreeFacts(1)
      BY <2>1 DEF Event
    <3> QED
      BY <2>1, <3>1, <3>2 DEF Agree, LiveEvent
  <2> QED
    BY <2>2 DEF WillTouch
<1> QED
  BY <1>2, <1>10, <1>11 DEF TouchInv, SyncedIsCoherent

\* Runs that write copies end fresh, and fresh is coherent.
LEMMA FreshIsCoherent == OnCopy /\ HealInv /\ CopyInv => SyncedIsCoherent
<1> SUFFICES ASSUME OnCopy, HealInv, CopyInv, pc = "idle", result = "synced"
             PROVE  base = {f \in Facts : LiveByHistory(f)}
  BY DEF SyncedIsCoherent
<1>1. /\ at # <<>> /\ base = TreeFacts(Newest(at)) /\ events = History(at) /\ marker = OnLine(at)
  BY DEF CopyInv, EndsRight, SyncedIsFresh
<1>2. at \in Seq(Made) /\ Alike(at, at) /\ trees \in Seq([Sidecars -> SUBSET Props])
  BY DEF HealInv, EarnedInv, LinesInv
<1>3. events = Said(Len(at))
  BY <1>1, <1>2, SaidIsHistory
<1>4. \A f : LiveByHistory(f) <=> f \in base
  BY <1>1, <1>2, <1>3, HistoryTells
<1>5. base \subseteq Facts
  <2>1. Newest(at) \in 0..Len(trees)
    BY <1>1, <1>2 DEF Newest, Made
  <2> QED
    BY <1>1, <1>2, <2>1, TreeFactsAreFacts
<1> QED
  BY <1>4, <1>5

\* However the runs before it were stopped, a sync that succeeds on a branch
\* that only grew leaves as current exactly what the history says is (sync.rs,
\* retire_dead_statements and statement_checks), unless a run ended behind its
\* marker without a check that passed.
THEOREM SyncsCohere == Spec => []SyncedIsCoherent
<1>1. ASSUME OnCopy PROVE Spec => []SyncedIsCoherent
  <2>1. Spec => [](HealInv /\ CopyInv)
    BY <1>1, CopiesHold
  <2>2. HealInv /\ CopyInv => SyncedIsCoherent
    BY <1>1, FreshIsCoherent
  <2> QED
    BY <2>1, <2>2, PTL
<1>2. ASSUME ~OnCopy PROVE Spec => []SyncedIsCoherent
  <2> DEFINE Coheres == HealInv /\ GrownInv /\ TouchInv /\ SyncedIsCoherent
  <2>1. Init => Coheres
    <3>1. Init => HealInv
      BY InitEarned, InitBranch DEF Init, HealInv, RebuildInv
    <3>2. Init => SyncedIsCoherent
      BY DEF Init, SyncedIsCoherent
    <3> QED
      BY <3>1, <3>2, InitTouches
  <2>2. Coheres /\ [Next]_vars => Coheres'
    <3>1. TouchInv' => SyncedIsCoherent'
      BY DEF TouchInv, SyncedIsCoherent
    <3> QED
      BY <1>2, <3>1, NextHeals, NextGrown, NextTouches
  <2>3. Coheres => SyncedIsCoherent
    OBVIOUS
  <2> QED
    BY <2>1, <2>2, <2>3, PTL DEF Spec
<1> QED
  BY <1>1, <1>2
=============================================================================
