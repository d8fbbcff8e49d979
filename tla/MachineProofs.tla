---------------------------- MODULE MachineProofs ----------------------------
(* Proofs about Machine and about the registry in it. By itself the registry   *)
(* keeps every row a command wrote (NoRowLost). Whatever commands and daemons  *)
(* do, the machine's registry behaves as Registry says, so that this is true   *)
(* of the whole machine; no daemon ever holds two souls of one first commit;   *)
(* every variable keeps its type; and a `git lex sync` that ends well has      *)
(* brought the store to where HEAD was.                                        *)
EXTENDS Machine, TLAPS

(* The registry by itself. Where its lock stands, and what the lock's holder   *)
(* is about to publish.                                                        *)
LockHeld == \A p \in Procs : at[p] \in {"writing", "cleaning"} => lock = p

OpKnown == \A p \in Procs : at[p] # "out" => op[p] \in Ops

HomeOwn == \A d \in Dirs : DirOf[home[d]] = d

ListedAfter(p) ==
  IF op[p].kind = "put" THEN listed \cup {op[p].dir} ELSE listed \ {op[p].dir}

DraftKeeps ==
  \A p \in Procs : at[p] = "writing" => \A d \in ListedAfter(p) : HasRow(draft[p], d)

RowsComplete ==
  \A p \in Procs : at[p] = "cleaning" => \A d \in listed : HasRow(rows, d)

RInv ==
  /\ RTypeOK /\ LockHeld /\ OpKnown /\ HomeOwn
  /\ DraftKeeps /\ RowsComplete /\ RowsKept

-----------------------------------------------------------------------------
(* Merging the rows of one directory makes a row. *)
LEMMA MergedIsRow ==
  ASSUME NEW rs \in [Names -> MaybeRow], NEW group \in SUBSET Names,
         \A n \in group : rs[n] # None
  PROVE  Merged(rs, group) \in Row
<1>1. CASE \E n \in group : rs[n].genesis # None
  <2>1. PICK n \in group : n = CHOOSE m \in group : rs[m].genesis # None
    BY <1>1
  <2>2. rs[n] \in Row
    BY <2>1 DEF MaybeRow
  <2>3. rs[n].genesis \in Geneses \cup {None}
    BY <2>2 DEF Row
  <2>4. Merged(rs, group) = [timed |-> \E m \in group : rs[m].timed, genesis |-> rs[n].genesis]
    BY <1>1, <2>1 DEF Merged
  <2> DEFINE t == \E m \in group : rs[m].timed
  <2>5. t \in BOOLEAN
    OBVIOUS
  <2> HIDE DEF t
  <2>6. Merged(rs, group) = [timed |-> t, genesis |-> rs[n].genesis]
    BY <2>4 DEF t
  <2> QED
    BY <2>3, <2>5, <2>6 DEF Row
<1>2. CASE ~ \E n \in group : rs[n].genesis # None
  <2> DEFINE t == \E m \in group : rs[m].timed
  <2>1. t \in BOOLEAN
    OBVIOUS
  <2>2. Merged(rs, group) = [timed |-> t, genesis |-> None]
    BY <1>2 DEF Merged
  <2> HIDE DEF t
  <2> QED
    BY <2>1, <2>2 DEF Row
<1> QED
  BY <1>1, <1>2

LEMMA FoldTyped ==
  ASSUME NEW rs \in [Names -> MaybeRow]
  PROVE  FoldSameDirectory(rs) \in [Names -> MaybeRow]
<1>1. ASSUME NEW k \in Names
      PROVE  (IF SameDir(rs, k) = {} THEN None ELSE Merged(rs, SameDir(rs, k))) \in MaybeRow
  <2>1. SameDir(rs, k) \in SUBSET Names /\ \A n \in SameDir(rs, k) : rs[n] # None
    BY DEF SameDir
  <2>2. Merged(rs, SameDir(rs, k)) \in Row
    BY <2>1, MergedIsRow
  <2> QED
    BY <2>2 DEF MaybeRow
<1> QED
  BY <1>1 DEF FoldSameDirectory

(* Folding loses no repository. *)
LEMMA FoldKeeps ==
  ASSUME NEW rs \in [Names -> MaybeRow], NEW d \in Dirs,
         home \in [Dirs -> Names], HomeOwn, HasRow(rs, d)
  PROVE  HasRow(FoldSameDirectory(rs), d)
<1>1. PICK n \in NamesOf(d) : rs[n] # None
  BY DEF HasRow
<1> DEFINE k == home[d]
<1>2. k \in Names /\ k \in NamesOf(d)
  BY DEF HomeOwn, NamesOf
<1>3. n \in SameDir(rs, k)
  BY <1>1 DEF SameDir, Key, NamesOf
<1>4. SameDir(rs, k) \in SUBSET Names /\ \A m \in SameDir(rs, k) : rs[m] # None
  BY DEF SameDir
<1>5. Merged(rs, SameDir(rs, k)) \in Row
  BY <1>4, MergedIsRow
<1>6. FoldSameDirectory(rs)[k] = Merged(rs, SameDir(rs, k))
  BY <1>2, <1>3 DEF FoldSameDirectory
<1>7. FoldSameDirectory(rs)[k] # None
  BY <1>5, <1>6, NoneIsApart
<1> QED
  BY <1>2, <1>7 DEF HasRow

LEMMA WithLegacyTyped ==
  ASSUME NEW rs \in [Names -> MaybeRow]
  PROVE  WithLegacy(rs) \in [Names -> MaybeRow]
BY DEF WithLegacy, MaybeRow, NewRow, Row

(* The old file's lines are rows as good as the new one's. *)
LEMMA WithLegacyKeeps ==
  ASSUME RTypeOK, RowsKept, NEW d \in listed
  PROVE  HasRow(WithLegacy(rows), d)
<1>0. NewRow \in Row
  BY DEF NewRow, Row
<1>1. NewRow # None
  BY <1>0, NoneIsApart
<1>2. CASE HasRow(rows, d)
  BY <1>1, <1>2 DEF HasRow, WithLegacy, NamesOf
<1>3. CASE \E n \in legacy : DirOf[n] = d
  <2>1. PICK n \in legacy : DirOf[n] = d
    BY <1>3
  <2>2. n \in NamesOf(d) /\ n \in Names
    BY <2>1 DEF NamesOf, RTypeOK
  <2>3. WithLegacy(rows)[n] # None
    BY <1>1, <2>1, <2>2 DEF WithLegacy
  <2> QED
    BY <2>2, <2>3 DEF HasRow
<1> QED
  BY <1>2, <1>3 DEF RowsKept

(* An edit puts a row, or drops one, of its own repository only. *)
LEMMA EditTyped ==
  ASSUME NEW rs \in [Names -> MaybeRow], NEW o \in Ops, NEW known \in BOOLEAN,
         home \in [Dirs -> Names]
  PROVE  Edited(rs, o, known) \in [Names -> MaybeRow]
<1>1. o.dir \in Dirs /\ home[o.dir] \in Names
  BY DEF Ops
<1>2. GenesisOf[o.dir] \in Geneses
  BY <1>1 DEF Geneses
<1>3. rs[home[o.dir]] = None \/ rs[home[o.dir]].genesis \in Geneses \cup {None}
  BY <1>1 DEF MaybeRow, Row
<1>4. PutRow(rs, o.dir, known) \in [Names -> MaybeRow]
  BY <1>1, <1>2, <1>3 DEF PutRow, MaybeRow, Row
<1>5. DropRow(rs, o.dir) \in [Names -> MaybeRow]
  BY <1>1 DEF DropRow, MaybeRow
<1> QED
  BY <1>4, <1>5 DEF Edited

LEMMA EditKeeps ==
  ASSUME NEW rs \in [Names -> MaybeRow], NEW o \in Ops, NEW known \in BOOLEAN,
         home \in [Dirs -> Names], HomeOwn, NEW d \in Dirs,
         HasRow(rs, d) \/ (o.kind = "put" /\ d = o.dir),
         o.kind = "put" \/ d # o.dir
  PROVE  HasRow(Edited(rs, o, known), d)
<1>1. o.dir \in Dirs /\ home[o.dir] \in Names /\ DirOf[home[o.dir]] = o.dir
  BY DEF Ops, HomeOwn
<1>2. CASE o.kind = "put"
  <2>1. \A n \in Names : rs[n] # None \/ n = home[o.dir] => PutRow(rs, o.dir, known)[n] # None
    <3> SUFFICES ASSUME NEW n \in Names, rs[n] # None \/ n = home[o.dir]
                 PROVE  PutRow(rs, o.dir, known)[n] # None
      OBVIOUS
    <3>1. CASE n = home[o.dir]
      <4>1. GenesisOf[o.dir] \in Geneses
        BY <1>1 DEF Geneses
      <4>2. rs[n] = None \/ rs[n].genesis \in Geneses \cup {None}
        BY DEF MaybeRow, Row
      <4>3. PutRow(rs, o.dir, known)[n] \in Row
        BY <1>1, <3>1, <4>1, <4>2 DEF PutRow, Row
      <4> QED
        BY <4>3, NoneIsApart
    <3>2. CASE n # home[o.dir]
      BY <3>2 DEF PutRow
    <3> QED
      BY <3>1, <3>2
  <2>2. HasRow(PutRow(rs, o.dir, known), d)
    BY <1>1, <2>1 DEF HasRow, NamesOf
  <2> QED
    BY <1>2, <2>2 DEF Edited
<1>3. CASE o.kind # "put"
  <2>1. PICK n \in NamesOf(d) : rs[n] # None
    BY <1>3 DEF HasRow
  <2>2. n # home[o.dir] /\ n \in Names
    BY <1>1, <1>3, <2>1 DEF NamesOf
  <2>3. DropRow(rs, o.dir)[n] # None
    BY <2>1, <2>2 DEF DropRow
  <2> QED
    BY <1>3, <2>1, <2>3 DEF Edited, HasRow
<1> QED
  BY <1>2, <1>3

-----------------------------------------------------------------------------
LEMMA InitRInv == RInit => RInv
<1> SUFFICES ASSUME RInit PROVE RInv
  OBVIOUS
<1>1. RTypeOK
  BY RegistryConstants DEF RInit, RTypeOK, MaybeRow
<1>2. LockHeld /\ OpKnown /\ DraftKeeps /\ RowsComplete
  BY DEF RInit, LockHeld, OpKnown, DraftKeeps, RowsComplete
<1>3. HomeOwn
  BY RegistryConstants DEF RInit, HomeOwn
<1>4. RowsKept
  BY DEF RInit, RowsKept
<1> QED
  BY <1>1, <1>2, <1>3, <1>4 DEF RInv

LEMMA ComeKeeps ==
  ASSUME RInv, NEW p \in Procs, NEW o \in Ops, Come(p, o)
  PROVE  RInv'
<1> USE DEF RInv, Come
<1>1. RTypeOK'
  BY DEF RTypeOK
<1>2. LockHeld' /\ OpKnown' /\ HomeOwn' /\ RowsComplete'
  BY DEF LockHeld, OpKnown, HomeOwn, RowsComplete, RTypeOK, HasRow
<1>3. DraftKeeps'
  BY DEF DraftKeeps, ListedAfter, HasRow, RTypeOK
<1>4. RowsKept'
  BY DEF RowsKept, HasRow
<1> QED
  BY <1>1, <1>2, <1>3, <1>4

LEMMA LockAndEditKeeps ==
  ASSUME RInv, NEW p \in Procs, NEW known \in BOOLEAN, LockAndEdit(p, known)
  PROVE  RInv'
<1> DEFINE base == WithLegacy(rows)
           mine == FoldSameDirectory(Edited(base, op[p], known))
<1>0. RTypeOK /\ LockHeld /\ OpKnown /\ HomeOwn /\ DraftKeeps /\ RowsComplete /\ RowsKept
  BY DEF RInv
<1>1. op[p] \in Ops /\ home \in [Dirs -> Names] /\ rows \in [Names -> MaybeRow]
  BY <1>0 DEF OpKnown, LockAndEdit, RTypeOK
<1>2. base \in [Names -> MaybeRow]
  BY <1>1, WithLegacyTyped
<1>3. Edited(base, op[p], known) \in [Names -> MaybeRow]
  BY <1>1, <1>2, EditTyped
<1>4. mine \in [Names -> MaybeRow]
  BY <1>3, FoldTyped
<1>5. ASSUME NEW d \in ListedAfter(p) PROVE HasRow(mine, d)
  <2>1. d \in Dirs /\ (d \in listed \/ (op[p].kind = "put" /\ d = op[p].dir))
    BY <1>0, <1>1, <1>5 DEF ListedAfter, RTypeOK, Ops
  <2>2. op[p].kind = "put" \/ d # op[p].dir
    BY <1>5 DEF ListedAfter
  <2>3. HasRow(base, d) \/ (op[p].kind = "put" /\ d = op[p].dir)
    BY <1>0, <2>1, WithLegacyKeeps
  <2>4. HasRow(Edited(base, op[p], known), d)
    BY <1>0, <1>1, <1>2, <2>1, <2>2, <2>3, EditKeeps
  <2> QED
    BY <1>0, <1>1, <1>3, <2>1, <2>4, FoldKeeps
<1>6. draft' = [draft EXCEPT ![p] = mine] /\ lock' = p /\ LockFree
      /\ at' = [at EXCEPT ![p] = "writing"] /\ UNCHANGED <<rows, legacy, home, op, listed>>
  BY DEF LockAndEdit
<1> HIDE DEF mine, base
<1>7. RTypeOK'
  BY <1>0, <1>4, <1>6 DEF RTypeOK
<1>8. \A q \in Procs : q # p => at[q] \notin {"writing", "cleaning"}
  BY <1>0, <1>6, RegistryConstants DEF LockHeld, LockFree
<1>9. LockHeld' /\ OpKnown' /\ HomeOwn' /\ RowsComplete'
  BY <1>0, <1>1, <1>6, <1>8 DEF LockHeld, OpKnown, HomeOwn, RowsComplete, RTypeOK
<1>10. DraftKeeps'
  <2> SUFFICES ASSUME NEW q \in Procs, at'[q] = "writing", NEW d \in ListedAfter(q)'
               PROVE  HasRow(draft'[q], d)
    BY <1>6 DEF DraftKeeps, HasRow
  <2>1. q = p
    BY <1>0, <1>6, <1>8 DEF RTypeOK
  <2>2. d \in ListedAfter(p) /\ draft'[q] = mine
    BY <1>0, <1>6, <2>1 DEF ListedAfter, RTypeOK
  <2> QED
    BY <1>5, <2>2
<1>11. RowsKept'
  BY <1>0, <1>6 DEF RowsKept, HasRow
<1> QED
  BY <1>7, <1>9, <1>10, <1>11 DEF RInv

LEMMA PublishKeeps ==
  ASSUME RInv, NEW p \in Procs, Publish(p)
  PROVE  RInv'
<1>0. RTypeOK /\ LockHeld /\ OpKnown /\ HomeOwn /\ DraftKeeps /\ RowsComplete /\ RowsKept
  BY DEF RInv
<1>1. /\ at[p] = "writing" /\ rows' = draft[p] /\ listed' = ListedAfter(p)
      /\ at' = [at EXCEPT ![p] = "cleaning"] /\ UNCHANGED <<legacy, lock, home, op, draft>>
  BY DEF Publish, ListedAfter
<1>2. op[p] \in Ops
  BY <1>0, <1>1 DEF OpKnown
<1>3. RTypeOK'
  BY <1>0, <1>1, <1>2 DEF RTypeOK, ListedAfter, Ops
<1>4. \A q \in Procs : q # p => at[q] \notin {"writing", "cleaning"}
  BY <1>0, <1>1 DEF LockHeld
<1>5. \A d \in listed' : HasRow(rows', d)
  BY <1>0, <1>1 DEF DraftKeeps
<1>6. LockHeld' /\ OpKnown' /\ HomeOwn'
  BY <1>0, <1>1 DEF LockHeld, OpKnown, HomeOwn, RTypeOK
<1>7. DraftKeeps'
  BY <1>0, <1>1, <1>4 DEF DraftKeeps, RTypeOK
<1>8. RowsComplete' /\ RowsKept'
  BY <1>5 DEF RowsComplete, RowsKept, HasRow
<1> QED
  BY <1>3, <1>6, <1>7, <1>8 DEF RInv

LEMMA UnlockKeeps ==
  ASSUME RInv, NEW p \in Procs, Unlock(p)
  PROVE  RInv'
<1>0. RTypeOK /\ LockHeld /\ OpKnown /\ HomeOwn /\ DraftKeeps /\ RowsComplete /\ RowsKept
  BY DEF RInv
<1>1. /\ at[p] = "cleaning" /\ legacy' = {} /\ lock' = None
      /\ at' = [at EXCEPT ![p] = "out"] /\ UNCHANGED <<rows, home, op, draft, listed>>
  BY DEF Unlock
<1>2. RTypeOK'
  BY <1>0, <1>1 DEF RTypeOK
<1>3. \A q \in Procs : q # p => at[q] \notin {"writing", "cleaning"}
  BY <1>0, <1>1 DEF LockHeld
<1>4. LockHeld' /\ OpKnown' /\ HomeOwn' /\ DraftKeeps' /\ RowsComplete'
  BY <1>0, <1>1, <1>3 DEF LockHeld, OpKnown, HomeOwn, DraftKeeps, RowsComplete, RTypeOK
<1>5. RowsKept'
  BY <1>0, <1>1 DEF RowsKept, RowsComplete, HasRow
<1> QED
  BY <1>2, <1>4, <1>5 DEF RInv

LEMMA GiveUpKeeps ==
  ASSUME RInv, NEW p \in Procs, GiveUp(p)
  PROVE  RInv'
<1>0. RTypeOK /\ LockHeld /\ OpKnown /\ HomeOwn /\ DraftKeeps /\ RowsComplete /\ RowsKept
  BY DEF RInv
<1>1. /\ lock' = IF lock = p THEN None ELSE lock
      /\ at' = [at EXCEPT ![p] = "out"]
      /\ UNCHANGED <<rows, legacy, home, op, draft, listed>>
  BY DEF GiveUp
<1>2. RTypeOK'
  BY <1>0, <1>1 DEF RTypeOK
<1>3. LockHeld'
  BY <1>0, <1>1 DEF LockHeld, RTypeOK
<1>4. OpKnown' /\ HomeOwn' /\ RowsComplete' /\ RowsKept'
  BY <1>0, <1>1 DEF OpKnown, HomeOwn, RowsComplete, RowsKept, HasRow, RTypeOK
<1>5. DraftKeeps'
  BY <1>0, <1>1 DEF DraftKeeps, ListedAfter, HasRow, RTypeOK
<1> QED
  BY <1>2, <1>3, <1>4, <1>5 DEF RInv

LEMMA MoveRepoKeeps ==
  ASSUME RInv, NEW r \in Dirs, NEW n \in Names, MoveRepo(r, n)
  PROVE  RInv'
<1>0. RTypeOK /\ LockHeld /\ OpKnown /\ HomeOwn /\ DraftKeeps /\ RowsComplete /\ RowsKept
  BY DEF RInv
<1>1. /\ DirOf[n] = r /\ home' = [home EXCEPT ![r] = n]
      /\ UNCHANGED <<rows, legacy, lock, at, op, draft, listed>>
  BY DEF MoveRepo
<1>2. RTypeOK' /\ HomeOwn'
  BY <1>0, <1>1 DEF RTypeOK, HomeOwn
<1>3. LockHeld' /\ OpKnown'
  BY <1>0, <1>1 DEF LockHeld, OpKnown
<1>4. DraftKeeps' /\ RowsComplete' /\ RowsKept'
  BY <1>0, <1>1 DEF DraftKeeps, ListedAfter, RowsComplete, RowsKept, HasRow
<1> QED
  BY <1>2, <1>3, <1>4 DEF RInv

LEMMA StepKeeps == RInv /\ [RNext]_rvars => RInv'
<1> SUFFICES ASSUME RInv, [RNext]_rvars PROVE RInv'
  OBVIOUS
<1>1. CASE UNCHANGED rvars
  BY <1>1 DEF rvars, RInv, RTypeOK, LockHeld, OpKnown, HomeOwn, DraftKeeps, ListedAfter,
              RowsComplete, RowsKept, HasRow
<1>2. ASSUME NEW p \in Procs, UpdateStep(p) PROVE RInv'
  BY <1>2, LockAndEditKeeps, PublishKeeps, UnlockKeeps, GiveUpKeeps DEF UpdateStep
<1>3. ASSUME NEW p \in Procs, NEW o \in Ops, Come(p, o) PROVE RInv'
  BY <1>3, ComeKeeps
<1>4. ASSUME NEW d \in Dirs, NEW n \in Names, MoveRepo(d, n) PROVE RInv'
  BY <1>4, MoveRepoKeeps
<1> QED
  BY <1>1, <1>2, <1>3, <1>4 DEF RNext

(* What the registry holds keeps its shape, whoever writes it and dies.       *)
THEOREM RegistryTyped == RSpec => []RTypeOK
<1>1. RInv => RTypeOK
  BY DEF RInv
<1> QED
  BY <1>1, InitRInv, StepKeeps, PTL DEF RSpec

(* No repository registered, and not removed since, is ever lost: not to a    *)
(* concurrent writer, a killed one, the old file's removal or a move.         *)
THEOREM NoRowLost == RSpec => []RowsKept
<1>1. RInv => RowsKept
  BY DEF RInv
<1> QED
  BY <1>1, InitRInv, StepKeeps, PTL DEF RSpec

-----------------------------------------------------------------------------
(* The machine.                                                                *)
Command == [op : CmdOps, dir : Dirs]

Points ==
  {"new", "run", "touch", "unlisting", "failed", "init commit", "load", "loading", "in place",
   "syncing", "adding", "done", "last commit", "ask", "poll", "refresh", "waiting", "lost",
   "forgetting", "snapshot", "delete", "stopping", "restarting"}

(* A process past its beginning has a command about a repository.              *)
CmdKnown ==
  /\ pc \in [Procs -> Points]
  /\ cmd \in [Procs -> Command \cup {None}]
  /\ \A p \in Procs : pc[p] # "new" => cmd[p] \in Command

(* Every daemon has a list of souls. *)
HasList == held = [b \in Daemons |-> held[b]]

SoulInv == HasList /\ OneSoulPerGenesis

(* No process begins but by Begin.                                             *)
PcMoves == \A p \in Procs : pc[p] = "new" => pc'[p] = "new"

-----------------------------------------------------------------------------
LEMMA InitCmdKnown == MInit => CmdKnown
BY DEF MInit, CmdKnown, Points

(* A step that keeps every command and does not start one over.               *)
LEMMA CmdKept ==
  ASSUME CmdKnown, UNCHANGED cmd, pc' \in [Procs -> Points], PcMoves
  PROVE  CmdKnown'
BY DEF CmdKnown, PcMoves

LEMMA GotoKeeps ==
  ASSUME CmdKnown, UNCHANGED cmd, NEW p \in Procs, pc[p] # "new", NEW l \in Points, Goto(p, l)
  PROVE  CmdKnown'
BY DEF CmdKnown, Goto, Points

LEMMA LostKeeps ==
  ASSUME NEW l \in [Procs -> Points], NEW b, NEW s
  PROVE  /\ Lost(b, s, l) \in [Procs -> Points]
         /\ \A p \in Procs : pc[p] = "new" /\ l[p] = "new" => Lost(b, s, l)[p] = "new"
BY DEF Lost, Waiters, Points

LEMMA HandleKeeps ==
  ASSUME CmdKnown, UNCHANGED cmd, NEW p \in Procs, pc[p] # "new", NEW b \in Daemons, Handle(p, b)
  PROVE  CmdKnown'
BY GotoKeeps DEF Handle, Points

LEMMA CommandKnown ==
  ASSUME CmdKnown, NEW p \in Procs, CommandStep(p)
  PROVE  CmdKnown'
<1>1. CASE Begin(p)
  <2>1. PICK o \in CmdOps, d \in Dirs :
          /\ cmd' = [cmd EXCEPT ![p] = [op |-> o, dir |-> d]]
          /\ \E l \in {"run", "touch", "unlisting", "failed"} : Goto(p, l)
    BY <1>1 DEF Begin
  <2>2. [op |-> o, dir |-> d] \in Command
    BY DEF Command
  <2> QED
    BY <2>1, <2>2 DEF CmdKnown, Goto, Points
<1>2. CASE Touched(p)
  BY <1>2, GotoKeeps DEF Touched, Points
<1>3. CASE RegistryStep(p)
  BY <1>3 DEF RegistryStep, client, CmdKnown
<1>4. CASE RegistryDone(p)
  BY <1>4, GotoKeeps DEF RegistryDone, Points
<1>5. CASE InitLex(p)
  BY <1>5, GotoKeeps DEF InitLex, Points
<1>6. CASE InitCommit(p)
  BY <1>6, GotoKeeps DEF InitCommit, Points
<1>7. CASE NotSetUp(p)
  BY <1>7, GotoKeeps DEF NotSetUp, Points
<1>8. CASE KitChanged(p)
  BY <1>8, GotoKeeps DEF KitChanged, Points
<1>9. CASE OpenStore(p)
  <2>1. UNCHANGED cmd /\ pc[p] # "new" /\ \E l \in {"loading", "syncing", "failed"} : Goto(p, l)
    BY <1>9 DEF OpenStore
  <2> QED
    BY <2>1, GotoKeeps DEF Points
<1>10. CASE CloseLoaded(p)
  <2>1. UNCHANGED cmd /\ pc[p] # "new" /\ \E l \in {"adding", "done"} : Goto(p, l)
    BY <1>10 DEF CloseLoaded
  <2> QED
    BY <2>1, GotoKeeps DEF Points
<1>11. CASE Save(p)
  BY <1>11, GotoKeeps DEF Save, Points
<1>12. CASE Health(p)
  BY <1>12, GotoKeeps DEF Health, Points
<1>13. CASE StartDaemon(p)
  BY <1>13, GotoKeeps DEF StartDaemon, Points
<1>14. CASE PollTimesOut(p)
  BY <1>14, GotoKeeps DEF PollTimesOut, Points
<1>15. CASE SyncCommand(p)
  <2>1. UNCHANGED cmd /\ pc[p] # "new" /\ \E l \in {"in place", "ask"} : Goto(p, l)
    BY <1>15 DEF SyncCommand
  <2> QED
    BY <2>1, GotoKeeps DEF Points
<1>16. CASE SyncInPlace(p)
  BY <1>16, GotoKeeps DEF SyncInPlace, Points
<1>17. CASE Ask(p)
  <2>1. UNCHANGED cmd /\ pc[p] # "new"
    BY <1>17 DEF Ask
  <2>2. CASE \E b \in Serving : Handle(p, b)
    BY <2>1, <2>2, HandleKeeps DEF Serving
  <2>3. CASE \E l \in {"refresh", "done", "failed"} : Goto(p, l)
    BY <2>1, <2>3, GotoKeeps DEF Points
  <2> QED
    BY <1>17, <2>2, <2>3 DEF Ask
<1>18. CASE Refresh(p)
  BY <1>18 DEF Refresh, client, CmdKnown
<1>19. CASE FindAgain(p)
  <2>1. UNCHANGED cmd /\ pc[p] # "new"
    BY <1>19 DEF FindAgain
  <2>2. CASE \E b : Handle(p, b)
    <3>1. \E l \in {"done", "waiting"} : Goto(p, l)
      BY <2>2 DEF Handle
    <3> QED
      BY <2>1, <3>1, GotoKeeps DEF Points
  <2>3. CASE \E l \in {"in place", "done", "failed"} : Goto(p, l)
    BY <2>1, <2>3, GotoKeeps DEF Points
  <2> QED
    BY <1>19, <2>2, <2>3 DEF FindAgain
<1>20. CASE ClientGivesUp(p)
  <2>1. UNCHANGED cmd /\ pc[p] # "new" /\ \E l \in {"snapshot", "done", "failed"} : Goto(p, l)
    BY <1>20 DEF ClientGivesUp
  <2> QED
    BY <2>1, GotoKeeps DEF Points
<1>21. CASE NukeForget(p)
  <2>1. UNCHANGED cmd /\ pc[p] # "new"
    BY <1>21 DEF NukeForget
  <2>2. CASE Goto(p, "snapshot")
    BY <2>1, <2>2, GotoKeeps DEF Points
  <2>3. ASSUME NEW b, NEW s, pc' = Lost(b, s, [pc EXCEPT ![p] = "forgetting"])
        PROVE  CmdKnown'
    <3>1. [pc EXCEPT ![p] = "forgetting"] \in [Procs -> Points]
      BY DEF CmdKnown, Points
    <3>2. pc' \in [Procs -> Points] /\ PcMoves
      BY <2>1, <2>3, <3>1, LostKeeps DEF PcMoves, CmdKnown
    <3> QED
      BY <2>1, <3>2, CmdKept
  <2> QED
    BY <1>21, <2>2, <2>3 DEF NukeForget
<1>22. CASE Forgotten(p)
  BY <1>22, GotoKeeps DEF Forgotten, Points
<1>23. CASE NukeSnapshot(p)
  BY <1>23, GotoKeeps DEF NukeSnapshot, Points
<1>24. CASE NukeDelete(p)
  BY <1>24, GotoKeeps DEF NukeDelete, Points
<1>25. CASE NukeCommit(p)
  BY <1>25, GotoKeeps DEF NukeCommit, Points
<1>26. CASE Terminate(p)
  BY <1>26, GotoKeeps DEF Terminate, Points
<1>27. CASE AllExited(p)
  <2>1. UNCHANGED cmd /\ pc[p] # "new" /\ \E l \in {"restarting", "done"} : Goto(p, l)
    BY <1>27 DEF AllExited, AfterStop
  <2> QED
    BY <2>1, GotoKeeps DEF Points
<1>28. CASE KillLeft(p)
  <2>1. UNCHANGED cmd /\ pc[p] # "new" /\ \E l \in {"restarting", "done"} : Goto(p, l)
    BY <1>28 DEF KillLeft, AfterStop
  <2> QED
    BY <2>1, GotoKeeps DEF Points
<1> QED
  BY <1>1, <1>2, <1>3, <1>4, <1>5, <1>6, <1>7, <1>8, <1>9, <1>10, <1>11, <1>12, <1>13, <1>14,
     <1>15, <1>16, <1>17, <1>18, <1>19, <1>20, <1>21, <1>22, <1>23, <1>24, <1>25, <1>26, <1>27,
     <1>28 DEF CommandStep

LEMMA SoulKnown ==
  ASSUME CmdKnown, NEW b \in Daemons, SoulStep(b)
  PROVE  CmdKnown'
<1>1. CASE \E s \in Dirs : WatchHead(b, s)
  BY <1>1 DEF WatchHead, client, CmdKnown
<1>2. CASE \E s \in Dirs : BeginSync(b, s)
  <2>1. PICK s \in Dirs : BeginSync(b, s)
    BY <1>2
  <2>2. UNCHANGED cmd /\ pc' \in [Procs -> Points] /\ PcMoves
    BY <2>1 DEF BeginSync, AfterNoSync, Waiters, PcMoves, CmdKnown, Points
  <2> QED
    BY <2>2, CmdKept
<1>3. CASE \E s \in Dirs : WatchForget(b, s)
  <2>1. PICK s \in Dirs : WatchForget(b, s)
    BY <1>3
  <2>2. UNCHANGED cmd /\ pc' = Lost(b, s, pc)
    BY <2>1 DEF WatchForget
  <2>3. pc' \in [Procs -> Points] /\ PcMoves
    BY <2>2, LostKeeps DEF PcMoves, CmdKnown
  <2> QED
    BY <2>2, <2>3, CmdKept
<1>4. CASE \E s \in Dirs : CloseForgotten(b, s)
  BY <1>4 DEF CloseForgotten, client, CmdKnown
<1>5. CASE \E r \in runs[b] : WorkerEnters(b, r) \/ WorkerCreates(b, r)
  BY <1>5 DEF WorkerEnters, WorkerCreates, client, CmdKnown
<1>6. CASE \E r \in runs[b] : EndSync(b, r)
  <2>1. PICK r \in runs[b] : EndSync(b, r)
    BY <1>6
  <2>2. /\ UNCHANGED cmd
        /\ pc' = [p \in Procs |-> IF p \in Answered(b, r)
                                THEN IF Succeeds(b, r) /\ ~r.gone THEN "done" ELSE "failed" ELSE pc[p]]
    BY <2>1 DEF EndSync
  <2>3. pc' \in [Procs -> Points] /\ PcMoves
    BY <2>2 DEF PcMoves, CmdKnown, Points, Answered
  <2> QED
    BY <2>2, <2>3, CmdKept
<1> QED
  BY <1>1, <1>2, <1>3, <1>4, <1>5, <1>6 DEF SoulStep

LEMMA DaemonKnown ==
  ASSUME CmdKnown, NEW b \in Daemons, DaemonStep(b)
  PROVE  CmdKnown'
BY DEF DaemonStep, Bind, OpenNext, Serve, Exit, client, CmdKnown

LEMMA StepKnown == CmdKnown /\ [MNext]_mvars => CmdKnown'
<1> SUFFICES ASSUME CmdKnown, [MNext]_mvars
             PROVE  CmdKnown'
  OBVIOUS
<1>1. CASE UNCHANGED mvars
  BY <1>1 DEF mvars, client, CmdKnown
<1>2. CASE \E p \in Procs : CommandStep(p)
  BY <1>2, CommandKnown
<1>3. CASE \E b \in Daemons : SoulStep(b) \/ DaemonStep(b)
  BY <1>3, SoulKnown, DaemonKnown
<1> QED
  BY <1>1, <1>2, <1>3 DEF MNext

-----------------------------------------------------------------------------
LEMMA KnownAlways == MSpec => []CmdKnown
BY InitCmdKnown, StepKnown, PTL DEF MSpec

(* Of the commands' steps only the registry's own, and those that come to it,  *)
(* touch the registry.                                                         *)
LEMMA ComesToRegistry ==
  ASSUME NEW p \in Procs, NEW d \in Dirs, NEW k \in {"put", "remove"},
         Come(p, [kind |-> k, dir |-> d])
  PROVE  RNext
BY DEF RNext, Ops

LEMMA RegistryUntouched ==
  ASSUME NEW p \in Procs, CommandStep(p),
         ~Begin(p), ~RegistryStep(p), ~CloseLoaded(p), ~NukeDelete(p)
  PROVE  UNCHANGED rvars
BY DEF CommandStep, Touched, RegistryDone, InitLex, InitCommit, NotSetUp, KitChanged, OpenStore,
       Save, Health, StartDaemon, PollTimesOut, SyncCommand, SyncInPlace, Ask, Refresh, FindAgain,
       ClientGivesUp, NukeForget, Forgotten, NukeSnapshot, NukeCommit, Terminate, AllExited, KillLeft

LEMMA DaemonsLeaveRegistry ==
  ASSUME NEW b \in Daemons, SoulStep(b) \/ DaemonStep(b)
  PROVE  UNCHANGED rvars
BY DEF SoulStep, DaemonStep, WatchHead, BeginSync, WatchForget, CloseForgotten, WorkerEnters,
       WorkerCreates, EndSync, Bind, OpenNext, Serve, Exit

LEMMA StepIsRegistryStep == CmdKnown /\ [MNext]_mvars => [RNext]_rvars
<1> SUFFICES ASSUME CmdKnown, [MNext]_mvars
             PROVE  [RNext]_rvars
  OBVIOUS
<1>1. CASE UNCHANGED mvars
  BY <1>1 DEF mvars
<1>2. ASSUME NEW p \in Procs, CommandStep(p)
      PROVE  [RNext]_rvars
  <2>1. CASE Begin(p)
    <3>1. PICK o \in CmdOps, d \in Dirs :
            \/ UNCHANGED rvars
            \/ Come(p, [kind |-> "put", dir |-> d])
            \/ Come(p, [kind |-> "remove", dir |-> d])
      BY <2>1 DEF Begin
    <3> QED
      BY <3>1, ComesToRegistry
  <2>2. CASE RegistryStep(p)
    BY <2>2 DEF RegistryStep, RNext
  <2>3. CASE CloseLoaded(p)
    <3>1. cmd[p].dir \in Dirs
      BY <2>3 DEF CloseLoaded, CmdKnown, Command
    <3>2. UNCHANGED rvars \/ Come(p, [kind |-> "put", dir |-> cmd[p].dir])
      BY <2>3 DEF CloseLoaded
    <3> QED
      BY <3>1, <3>2, ComesToRegistry
  <2>4. CASE NukeDelete(p)
    <3>1. cmd[p].dir \in Dirs
      BY <2>4 DEF NukeDelete, CmdKnown, Command
    <3>2. Come(p, [kind |-> "remove", dir |-> cmd[p].dir])
      BY <2>4 DEF NukeDelete
    <3> QED
      BY <3>1, <3>2, ComesToRegistry
  <2> QED
    BY <1>2, <2>1, <2>2, <2>3, <2>4, RegistryUntouched
<1>3. CASE \E b \in Daemons : SoulStep(b) \/ DaemonStep(b)
  BY <1>3, DaemonsLeaveRegistry
<1> QED
  BY <1>1, <1>2, <1>3 DEF MNext

(* The machine's commands use the registry as Registry says processes do: each *)
(* command that registers, initialises or nukes comes to it with one           *)
(* repository, and everything else leaves it alone.                            *)
THEOREM MachineImplementsRegistry == MSpec => RSpec
<1>1. MInit => RInit
  BY DEF MInit
<1> QED
  BY <1>1, KnownAlways, StepIsRegistryStep, PTL DEF MSpec, RSpec

(* No command of the machine ever loses a repository another has registered    *)
(* (lib.rs:838-845).                                                           *)
THEOREM NoCommandLosesRow == MSpec => []RowsKept
BY MachineImplementsRegistry, NoRowLost, PTL

-----------------------------------------------------------------------------
LEMMA AdoptKeeps ==
  ASSUME SoulInv, NEW b, NEW d, Adopt(b, d)
  PROVE  SoulInv'
<1>1. CASE Found(b, d) # {}
  BY <1>1 DEF Adopt, SoulInv, HasList, OneSoulPerGenesis
<1>2. CASE Found(b, d) = {}
  <2>1. held' = [held EXCEPT ![b] = held[b] \cup {d}]
    BY <1>2 DEF Adopt
  <2>2. HasList'
    BY <2>1 DEF SoulInv, HasList
  <2>3. ASSUME NEW c \in Daemons, NEW s \in held'[c], NEW t \in held'[c],
               GenesisOf[s] = GenesisOf[t]
        PROVE  s = t
    <3>1. CASE c = b
      <4>1. held'[c] = held[c] \cup {d}
        BY <2>1, <3>1 DEF SoulInv, HasList
      <4>2. \A x \in held[c] : GenesisOf[x] # GenesisOf[d]
        BY <1>2, <3>1 DEF Found
      <4> QED
        BY <2>3, <4>1, <4>2 DEF SoulInv, OneSoulPerGenesis
    <3>2. CASE c # b
      <4>1. held'[c] = held[c]
        BY <2>1, <3>2 DEF SoulInv, HasList
      <4> QED
        BY <2>3, <4>1 DEF SoulInv, OneSoulPerGenesis
    <3> QED
      BY <3>1, <3>2
  <2> QED
    BY <2>2, <2>3 DEF SoulInv, OneSoulPerGenesis
<1> QED
  BY <1>1, <1>2

(* A list that only loses souls, or all of them. *)
LEMMA ShrinkKeeps ==
  ASSUME SoulInv, HasList', \A b \in Daemons : held'[b] \subseteq held[b]
  PROVE  SoulInv'
BY DEF SoulInv, OneSoulPerGenesis

LEMMA SameListKeeps == ASSUME SoulInv, UNCHANGED held PROVE SoulInv'
BY DEF SoulInv, HasList, OneSoulPerGenesis

LEMMA ForgetKeeps ==
  ASSUME SoulInv, NEW b, NEW s, Forget(b, s)
  PROVE  SoulInv'
<1>1. HasList' /\ \A c \in Daemons : held'[c] \subseteq held[c]
  BY DEF Forget, SoulInv, HasList
<1> QED
  BY <1>1, ShrinkKeeps

LEMMA EndsKeeps ==
  ASSUME SoulInv, NEW B, held' = [b \in Daemons |-> IF b \in B THEN {} ELSE held[b]]
  PROVE  SoulInv'
<1>1. HasList' /\ \A c \in Daemons : held'[c] \subseteq held[c]
  BY DEF HasList
<1> QED
  BY <1>1, ShrinkKeeps

LEMMA CommandSouls ==
  ASSUME SoulInv, NEW p \in Procs, CommandStep(p)
  PROVE  SoulInv'
<1>1. CASE Refresh(p)
  BY <1>1, AdoptKeeps DEF Refresh
<1>2. CASE NukeForget(p)
  BY <1>2, ForgetKeeps, SameListKeeps DEF NukeForget
<1>3. CASE Terminate(p)
  <2>1. \E B : held' = [b \in Daemons |-> IF b \in B THEN {} ELSE held[b]]
    BY <1>3 DEF Terminate
  <2> QED
    BY <2>1, EndsKeeps
<1>4. CASE KillLeft(p)
  BY <1>4, EndsKeeps DEF KillLeft, Ends
<1>5. CASE UNCHANGED held
  BY <1>5, SameListKeeps
<1>6. ~Refresh(p) /\ ~NukeForget(p) /\ ~Terminate(p) /\ ~KillLeft(p) => UNCHANGED held
  BY DEF CommandStep, daemon, Begin, RegistryStep, CloseLoaded, NukeDelete, Touched, RegistryDone,
         InitLex, InitCommit, NotSetUp, KitChanged, OpenStore, Save, Health, StartDaemon,
         PollTimesOut, SyncCommand, SyncInPlace, Ask, FindAgain, ClientGivesUp, Forgotten,
         NukeSnapshot, NukeCommit, AllExited
<1> QED
  BY <1>1, <1>2, <1>3, <1>4, <1>5, <1>6

LEMMA DaemonSouls ==
  ASSUME SoulInv, NEW b \in Daemons, SoulStep(b) \/ DaemonStep(b)
  PROVE  SoulInv'
<1>1. CASE \E s \in Dirs : WatchForget(b, s)
  BY <1>1, ForgetKeeps DEF WatchForget
<1>2. CASE OpenNext(b)
  BY <1>2, AdoptKeeps DEF OpenNext
<1>3. CASE Exit(b)
  BY <1>3, EndsKeeps DEF Exit, Ends
<1>4. CASE UNCHANGED held
  BY <1>4, SameListKeeps
<1>5. \/ \E s \in Dirs : WatchForget(b, s)
      \/ OpenNext(b)
      \/ Exit(b)
      \/ UNCHANGED held
  BY DEF SoulStep, DaemonStep, WatchHead, BeginSync, CloseForgotten, WorkerEnters, WorkerCreates,
         EndSync, Bind, Serve
<1> QED
  BY <1>1, <1>2, <1>3, <1>4, <1>5

(* No daemon ever holds two souls of one first commit, clones included: every  *)
(* soul that joins a list is looked for in it first, and no other step adds to *)
(* it (daemon.rs:209-232).                                                     *)
THEOREM OneSoulHeld == MSpec => []OneSoulPerGenesis
<1>1. MInit => SoulInv
  BY DEF MInit, SoulInv, HasList, OneSoulPerGenesis
<1>2. SoulInv /\ [MNext]_mvars => SoulInv'
  <2> SUFFICES ASSUME SoulInv, [MNext]_mvars
               PROVE  SoulInv'
    OBVIOUS
  <2>1. CASE UNCHANGED mvars
    BY <2>1, SameListKeeps DEF mvars, daemon
  <2>2. CASE \E p \in Procs : CommandStep(p)
    BY <2>2, CommandSouls
  <2>3. CASE \E b \in Daemons : SoulStep(b) \/ DaemonStep(b)
    BY <2>3, DaemonSouls
  <2> QED
    BY <2>1, <2>2, <2>3 DEF MNext
<1>3. SoulInv => OneSoulPerGenesis
  BY DEF SoulInv
<1> QED
  BY <1>1, <1>2, <1>3, PTL DEF MSpec

-----------------------------------------------------------------------------
(* A request that makes a daemon read the registry again is at that daemon.   *)
RefreshesAt == \A p \in Procs : pc[p] = "refresh" => via[p] \in Daemons

TypeInv == CmdKnown /\ MTypeOK /\ RefreshesAt

LEMMA KnownDir ==
  ASSUME CmdKnown, NEW p \in Procs, pc[p] # "new"
  PROVE  cmd[p].dir \in Dirs /\ cmd[p].op \in CmdOps
BY DEF CmdKnown, Command

LEMMA CommitsTypes ==
  ASSUME MTypeOK, NEW d \in Dirs, Commits(d)
  PROVE  head' \in [Dirs -> Nat] /\ moved' \in [Daemons -> SUBSET Dirs]
<1>1. head \in [Dirs -> Nat] /\ moved \in [Daemons -> SUBSET Dirs]
  BY DEF MTypeOK
<1>2. head' = [head EXCEPT ![d] = head[d] + 1]
  BY DEF Commits
<1>3. moved' = [b \in Daemons |-> moved[b] \cup ({d} \cap held[b])]
  BY DEF Commits
<1> QED
  BY <1>1, <1>2, <1>3

LEMMA AdoptTypes ==
  ASSUME MTypeOK, NEW b \in Daemons, NEW d \in Dirs, Adopt(b, d)
  PROVE  /\ held' \in [Daemons -> SUBSET Dirs] /\ open' \in [Daemons -> SUBSET Dirs]
         /\ moved' \in [Daemons -> SUBSET Dirs]
         /\ holder' \in [Dirs -> Procs \cup Daemons \cup {None}]
<1>1. held' = held \/ held' = [held EXCEPT ![b] = held[b] \cup {d}]
  BY DEF Adopt
<1>2. moved' = moved \/ moved' = [moved EXCEPT ![b] = moved[b] \cup {d}]
  BY DEF Adopt
<1>3. open' = open \/ open' = [open EXCEPT ![b] = open[b] \cup {d}]
  BY DEF Adopt
<1>4. holder' = holder \/ holder' = [holder EXCEPT ![d] = b]
  BY DEF Adopt
<1>5. held' \in [Daemons -> SUBSET Dirs]
  BY <1>1 DEF MTypeOK
<1>6. moved' \in [Daemons -> SUBSET Dirs]
  BY <1>2 DEF MTypeOK
<1>7. open' \in [Daemons -> SUBSET Dirs]
  BY <1>3 DEF MTypeOK
<1>8. holder' \in [Dirs -> Procs \cup Daemons \cup {None}]
  BY <1>4 DEF MTypeOK
<1> QED
  BY <1>5, <1>6, <1>7, <1>8

LEMMA FoundTypes ==
  ASSUME MTypeOK, NEW b \in Daemons, NEW d
  PROVE  Found(b, d) \subseteq Dirs
BY DEF MTypeOK, Found

LEMMA HandleTypes ==
  ASSUME MTypeOK, NEW p \in Procs, NEW b \in Daemons, Found(b, cmd[p].dir) # {}, Handle(p, b)
  PROVE  want' \in [Daemons -> SUBSET Dirs] /\ via' \in [Procs -> Daemons \cup {None}]
<1> DEFINE s == CHOOSE x \in Found(b, cmd[p].dir) : TRUE
<1>1. s \in Dirs
  BY FoundTypes
<1>2. want' = want \/ want' = [want EXCEPT ![b] = want[b] \cup {s}]
  BY DEF Handle
<1>3. via' = [via EXCEPT ![p] = None] \/ via' = [via EXCEPT ![p] = b]
  BY DEF Handle
<1> HIDE DEF s
<1> QED
  BY <1>1, <1>2, <1>3 DEF MTypeOK

LEMMA ForgetTypes ==
  ASSUME MTypeOK, NEW b \in Daemons, NEW s \in Dirs, Forget(b, s)
  PROVE  /\ held' \in [Daemons -> SUBSET Dirs] /\ open' \in [Daemons -> SUBSET Dirs]
         /\ moved' \in [Daemons -> SUBSET Dirs] /\ want' \in [Daemons -> SUBSET Dirs]
         /\ closing' \in [Daemons -> SUBSET Dirs] /\ runs' \in [Daemons -> SUBSET Run]
<1>1. \A r \in Run : [r EXCEPT !.gone = TRUE] \in Run
  BY DEF Run
<1>2. {IF r.dir = s THEN [r EXCEPT !.gone = TRUE] ELSE r : r \in runs[b]} \in SUBSET Run
  BY <1>1 DEF MTypeOK
<1>3. runs' \in [Daemons -> SUBSET Run]
  BY <1>2 DEF MTypeOK, Forget
<1> QED
  BY <1>3 DEF MTypeOK, Forget

LEMMA EndsTypes ==
  ASSUME MTypeOK, NEW B, Ends(B)
  PROVE  /\ dm' \in [Daemons -> {"off", "binding", "opening", "serving", "stopping", "dead"}]
         /\ held' \in [Daemons -> SUBSET Dirs] /\ open' \in [Daemons -> SUBSET Dirs]
         /\ moved' \in [Daemons -> SUBSET Dirs] /\ want' \in [Daemons -> SUBSET Dirs]
         /\ closing' \in [Daemons -> SUBSET Dirs] /\ runs' \in [Daemons -> SUBSET Run]
         /\ holder' \in [Dirs -> Procs \cup Daemons \cup {None}]
         /\ todo' \in [Procs \cup Daemons -> SUBSET Dirs]
BY DEF MTypeOK, Ends

LEMMA CommandTypes ==
  ASSUME TypeInv, NEW p \in Procs, CommandStep(p)
  PROVE  MTypeOK'
<1>. USE MachineConstants DEF TypeInv
<1>1. CASE Begin(p)
  BY <1>1 DEF Begin, MTypeOK, repos, daemon
<1>2. CASE Touched(p)
  BY <1>2 DEF Touched, MTypeOK, repos, daemon, client
<1>3. CASE RegistryStep(p)
  BY <1>3 DEF RegistryStep, MTypeOK, repos, daemon, client
<1>4. CASE RegistryDone(p)
  BY <1>4 DEF RegistryDone, MTypeOK, repos, daemon, client
<1>5. CASE InitLex(p)
  <2>1. cmd[p].dir \in Dirs
    BY <1>5, KnownDir DEF InitLex
  <2>2. lex' \subseteq Dirs /\ yml' \subseteq lex' /\ gone' \subseteq Dirs
    BY <1>5, <2>1 DEF InitLex, MTypeOK
  <2> QED
    BY <1>5, <2>2 DEF InitLex, MTypeOK, daemon
<1>6. CASE InitCommit(p)
  BY <1>6, KnownDir, CommitsTypes DEF InitCommit, MTypeOK
<1>7. CASE NotSetUp(p)
  BY <1>7 DEF NotSetUp, MTypeOK, repos, daemon, client
<1>8. CASE KitChanged(p)
  BY <1>8 DEF KitChanged, MTypeOK, repos, daemon, client
<1>9. CASE OpenStore(p)
  <2>1. CASE /\ holder' = [holder EXCEPT ![cmd[p].dir] = p]
             /\ store' = [store EXCEPT ![cmd[p].dir] = IF @ = None THEN 0 ELSE @]
    BY <1>9, <2>1 DEF OpenStore, MTypeOK, daemon
  <2>2. CASE UNCHANGED <<holder, store>>
    BY <1>9, <2>2 DEF OpenStore, MTypeOK, daemon
  <2> QED
    BY <1>9, <2>1, <2>2 DEF OpenStore
<1>10. CASE CloseLoaded(p)
  BY <1>10, KnownDir, SMTT(20) DEF CloseLoaded, MTypeOK, repos, daemon
<1>11. CASE Save(p)
  BY <1>11, KnownDir, SMTT(20) DEF Save, MTypeOK, repos, daemon, Commits
<1>12. CASE Health(p)
  BY <1>12 DEF Health, MTypeOK, repos, daemon, client
<1>13. CASE StartDaemon(p)
  BY <1>13, KnownDir, SMTT(20) DEF StartDaemon, MTypeOK, repos, daemon
<1>14. CASE PollTimesOut(p)
  BY <1>14 DEF PollTimesOut, MTypeOK, repos, daemon, client
<1>15. CASE SyncCommand(p)
  <2>1. cmd[p].dir \in Dirs
    BY <1>15, KnownDir DEF SyncCommand
  <2>2. since' \in [Procs -> Nat]
    BY <1>15, <2>1 DEF SyncCommand, MTypeOK
  <2> QED
    BY <1>15, <2>2 DEF SyncCommand, MTypeOK, repos, daemon
<1>16. CASE SyncInPlace(p)
  BY <1>16, KnownDir, SMTT(20) DEF SyncInPlace, MTypeOK, repos, daemon
<1>17. CASE Ask(p)
  <2>1. CASE \E b \in Serving : Found(b, cmd[p].dir) # {} /\ Handle(p, b)
    <3>1. want' \in [Daemons -> SUBSET Dirs] /\ via' \in [Procs -> Daemons \cup {None}]
      BY <2>1, HandleTypes DEF Serving
    <3>2. todo' = todo \/ \E T \in SUBSET Entries : todo' = [todo EXCEPT ![p] = T]
      BY <1>17 DEF Ask
    <3>3. todo' \in [Procs \cup Daemons -> SUBSET Dirs]
      <4>1. Entries \subseteq Dirs
        BY DEF Entries, MTypeOK
      <4> QED
        BY <3>2, <4>1 DEF MTypeOK
    <3> QED
      BY <1>17, <3>1, <3>3 DEF Ask, MTypeOK, repos
  <2>2. CASE \E b \in Serving : /\ via' = [via EXCEPT ![p] = b]
                               /\ todo' = [todo EXCEPT ![p] = {d \in Entries : Found(b, d) = {}}]
                               /\ UNCHANGED want
    <3>1. Entries \subseteq Dirs
      BY DEF Entries, MTypeOK
    <3> QED
      BY <1>17, <2>2, <3>1 DEF Ask, Serving, MTypeOK, repos
  <2>3. CASE UNCHANGED <<via, todo, want>>
    BY <1>17, <2>3 DEF Ask, MTypeOK, repos
  <2> QED
    BY <1>17, <2>1, <2>2, <2>3 DEF Ask
<1>18. CASE Refresh(p)
  <2>1. PICK d \in todo[p] : Adopt(via[p], d) /\ todo' = [todo EXCEPT ![p] = @ \ {d}]
    BY <1>18 DEF Refresh
  <2>2. via[p] \in Daemons /\ d \in Dirs
    BY <1>18, <2>1 DEF Refresh, RefreshesAt, MTypeOK
  <2>3. todo' \in [Procs \cup Daemons -> SUBSET Dirs]
    BY <2>1 DEF MTypeOK
  <2> QED
    BY <1>18, <2>1, <2>2, <2>3, AdoptTypes DEF Refresh, MTypeOK, client
<1>19. CASE FindAgain(p)
  <2>1. CASE Found(via[p], cmd[p].dir) # {}
    BY <1>19, <2>1, HandleTypes DEF FindAgain, RefreshesAt, MTypeOK, repos
  <2>2. CASE Found(via[p], cmd[p].dir) = {}
    BY <1>19, <2>2 DEF FindAgain, MTypeOK, repos
  <2> QED
    BY <2>1, <2>2
<1>20. CASE ClientGivesUp(p)
  <2>1. UNCHANGED closing \/ \E b, d : closing' = [closing EXCEPT ![b] = @ \ {d}]
    BY <1>20 DEF ClientGivesUp
  <2>2. closing' \in [Daemons -> SUBSET Dirs]
    <3>1. CASE UNCHANGED closing
      BY <3>1 DEF MTypeOK
    <3>2. ASSUME NEW b, NEW d, closing' = [closing EXCEPT ![b] = closing[b] \ {d}]
          PROVE  closing' \in [Daemons -> SUBSET Dirs]
      BY <3>2 DEF MTypeOK
    <3> QED
      BY <2>1, <3>1, <3>2
  <2>3. via' = [via EXCEPT ![p] = None] /\ todo' = [todo EXCEPT ![p] = {}]
    BY <1>20 DEF ClientGivesUp
  <2>4. via' \in [Procs -> Daemons \cup {None}] /\ todo' \in [Procs \cup Daemons -> SUBSET Dirs]
    BY <2>3 DEF MTypeOK
  <2> QED
    BY <1>20, <2>2, <2>4 DEF ClientGivesUp, MTypeOK, repos
<1>21. CASE NukeForget(p)
  <2>1. CASE \E b \in Serving : \E s \in Found(b, cmd[p].dir) :
               Forget(b, s) /\ via' = [via EXCEPT ![p] = b]
    <3>1. PICK b \in Serving : \E x \in Found(b, cmd[p].dir) :
                 Forget(b, x) /\ via' = [via EXCEPT ![p] = b]
      BY <2>1
    <3>3. PICK s \in Found(b, cmd[p].dir) : Forget(b, s) /\ via' = [via EXCEPT ![p] = b]
      BY <3>1
    <3>2. b \in Daemons /\ s \in Dirs
      BY FoundTypes DEF Serving
    <3> QED
      BY <1>21, <3>3, <3>2, ForgetTypes DEF NukeForget, MTypeOK, repos
  <2>2. CASE UNCHANGED <<held, open, moved, want, runs, closing, via>>
    BY <1>21, <2>2 DEF NukeForget, MTypeOK, repos
  <2> QED
    BY <1>21, <2>1, <2>2 DEF NukeForget
<1>22. CASE Forgotten(p)
  BY <1>22 DEF Forgotten, MTypeOK, repos, daemon, client
<1>23. CASE NukeSnapshot(p)
  BY <1>23, KnownDir, SMTT(20) DEF NukeSnapshot, MTypeOK, repos, daemon, Commits
<1>24. CASE NukeDelete(p)
  <2>1. since' \in [Procs -> Nat]
    BY <1>24 DEF NukeDelete, Excuse, MTypeOK
  <2> QED
    BY <1>24, <2>1, KnownDir DEF NukeDelete, MTypeOK, daemon
<1>25. CASE NukeCommit(p)
  BY <1>25, KnownDir, CommitsTypes DEF NukeCommit, MTypeOK
<1>26. CASE Terminate(p)
  BY <1>26, KnownDir, SMTT(20) DEF Terminate, MTypeOK, repos, daemon
<1>27. CASE AllExited(p)
  BY <1>27 DEF AllExited, MTypeOK, repos, daemon, client
<1>28. CASE KillLeft(p)
  BY <1>28, EndsTypes DEF KillLeft, MTypeOK
<1> QED
  BY <1>1, <1>2, <1>3, <1>4, <1>5, <1>6, <1>7, <1>8, <1>9, <1>10, <1>11, <1>12, <1>13, <1>14, <1>15,
     <1>16, <1>17, <1>18, <1>19, <1>20, <1>21, <1>22, <1>23, <1>24, <1>25, <1>26, <1>27, <1>28
  DEF CommandStep

LEMMA EnteredRun ==
  ASSUME NEW r \in Run, NEW n \in Nat
  PROVE  /\ [r EXCEPT !.phase = "entered", !.to = n] \in Run
         /\ [r EXCEPT !.phase = "entered", !.to = n].dir = r.dir
         /\ [r EXCEPT !.phase = "entered", !.to = n].gone = r.gone
         /\ [r EXCEPT !.phase = "entered", !.to = n].asked = r.asked
         /\ [r EXCEPT !.phase = "entered", !.to = n].to = n
BY DEF Run

LEMMA TurnedTypes ==
  ASSUME MTypeOK, NEW b \in Daemons, NEW r, NEW new \in Run, Turned(b, r, new)
  PROVE  runs' \in [Daemons -> SUBSET Run]
BY DEF MTypeOK, Turned

LEMMA SoulTypes ==
  ASSUME TypeInv, NEW b \in Daemons, SoulStep(b)
  PROVE  MTypeOK'
<1>. USE MachineConstants DEF TypeInv
<1>1. CASE \E s \in Dirs : WatchHead(b, s)
  <2>1. PICK s \in Dirs : WatchHead(b, s)
    BY <1>1
  <2>2. want' = want \/ want' = [want EXCEPT ![b] = want[b] \cup {s}]
    BY <2>1 DEF WatchHead
  <2>3. want' \in [Daemons -> SUBSET Dirs]
    BY <2>2 DEF MTypeOK
  <2> QED
    BY <2>1, <2>3 DEF WatchHead, MTypeOK, repos, client
<1>2. CASE \E s \in Dirs : BeginSync(b, s)
  <2>1. PICK s \in Dirs : BeginSync(b, s)
    BY <1>2
  <2> DEFINE new == [dir |-> s, gone |-> FALSE, robbed |-> FALSE, asked |-> Waiters(b, s),
                     phase |-> "spawned", to |-> 0]
  <2>2. new \in Run
    BY DEF Run, Waiters
  <2>3. runs' = runs \/ runs' = [runs EXCEPT ![b] = runs[b] \cup {new}]
    BY <2>1 DEF BeginSync
  <2> HIDE DEF new
  <2>4. runs' \in [Daemons -> SUBSET Run]
    BY <2>2, <2>3 DEF MTypeOK
  <2>5. via' \in [Procs -> Daemons \cup {None}]
    BY <2>1 DEF BeginSync, MTypeOK
  <2>6. want' \in [Daemons -> SUBSET Dirs]
    BY <2>1 DEF BeginSync, MTypeOK
  <2> QED
    BY <2>1, <2>4, <2>5, <2>6 DEF BeginSync, MTypeOK, repos
<1>3. CASE \E s \in Dirs : WatchForget(b, s)
  BY <1>3, ForgetTypes DEF WatchForget, MTypeOK, repos
<1>4. CASE \E s \in Dirs : CloseForgotten(b, s)
  BY <1>4 DEF CloseForgotten, MTypeOK, client
<1>5. CASE \E r \in runs[b] : WorkerEnters(b, r)
  <2>1. PICK r \in runs[b] : WorkerEnters(b, r)
    BY <1>5
  <2>2. r \in Run /\ head[r.dir] \in Nat
    BY DEF MTypeOK, Run
  <2>3. runs' \in [Daemons -> SUBSET Run]
    BY <2>1, <2>2, EnteredRun, TurnedTypes DEF WorkerEnters
  <2> QED
    BY <2>1, <2>3 DEF WorkerEnters, MTypeOK, repos, client
<1>6. CASE \E r \in runs[b] : WorkerCreates(b, r)
  <2>1. PICK r \in runs[b] : WorkerCreates(b, r)
    BY <1>6
  <2>2. r \in Run /\ [r EXCEPT !.phase = "writing"] \in Run /\ r.dir \in Dirs
    BY DEF MTypeOK, Run
  <2>3. runs' \in [Daemons -> SUBSET Run]
    BY <2>1, <2>2, TurnedTypes DEF WorkerCreates
  <2> QED
    BY <2>1, <2>2, <2>3 DEF WorkerCreates, MTypeOK, client
<1>7. CASE \E r \in runs[b] : EndSync(b, r)
  <2>1. PICK r \in runs[b] : EndSync(b, r)
    BY <1>7
  <2>2. r \in Run /\ r.dir \in Dirs /\ r.to \in Nat
    BY DEF MTypeOK, Run
  <2>3. \A o \in Run : (IF o.dir = r.dir THEN [o EXCEPT !.robbed = TRUE] ELSE o) \in Run
    BY DEF Run
  <2>4. runs' = [runs EXCEPT ![b] =
          {IF o.dir = r.dir THEN [o EXCEPT !.robbed = TRUE] ELSE o : o \in runs[b] \ {r}}]
    BY <2>1 DEF EndSync
  <2>5. runs' \in [Daemons -> SUBSET Run]
    BY <2>3, <2>4 DEF MTypeOK
  <2>6. \/ store' = [store EXCEPT ![r.dir] = r.to] /\ holder' = [holder EXCEPT ![r.dir] = b]
           /\ open' = [open EXCEPT ![b] = open[b] \cup {r.dir}]
        \/ UNCHANGED <<store, holder, open>>
    BY <2>1 DEF EndSync
  <2>7. /\ store' \in [Dirs -> Nat \cup {None}] /\ open' \in [Daemons -> SUBSET Dirs]
        /\ holder' \in [Dirs -> Procs \cup Daemons \cup {None}]
    <3>1. CASE UNCHANGED <<store, holder, open>>
      BY <3>1 DEF MTypeOK
    <3>2. CASE store' = [store EXCEPT ![r.dir] = r.to] /\ holder' = [holder EXCEPT ![r.dir] = b]
               /\ open' = [open EXCEPT ![b] = open[b] \cup {r.dir}]
      <4>1. store' \in [Dirs -> Nat \cup {None}]
        BY <2>2, <3>2 DEF MTypeOK
      <4>2. open' \in [Daemons -> SUBSET Dirs]
        BY <2>2, <3>2 DEF MTypeOK
      <4>3. holder' \in [Dirs -> Procs \cup Daemons \cup {None}]
        BY <2>2, <3>2 DEF MTypeOK
      <4> QED
        BY <4>1, <4>2, <4>3
    <3> QED
      BY <2>6, <3>1, <3>2
  <2>8. via' \in [Procs -> Daemons \cup {None}] /\ since' \in [Procs -> Nat]
    BY <2>1 DEF EndSync, Excuse, MTypeOK
  <2> QED
    BY <2>1, <2>5, <2>7, <2>8 DEF EndSync, MTypeOK
<1> QED
  BY <1>1, <1>2, <1>3, <1>4, <1>5, <1>6, <1>7 DEF SoulStep

LEMMA DaemonTypes ==
  ASSUME TypeInv, NEW b \in Daemons, DaemonStep(b)
  PROVE  MTypeOK'
<1>. USE DEF TypeInv
<1>1. CASE Bind(b)
  <2>1. todo' = todo \/ todo' = [todo EXCEPT ![b] = Entries]
    BY <1>1 DEF Bind
  <2>2. todo' \in [Procs \cup Daemons -> SUBSET Dirs]
    BY <2>1 DEF Entries, MTypeOK
  <2> QED
    BY <1>1, <2>2 DEF Bind, MTypeOK, repos, client
<1>2. CASE OpenNext(b)
  <2>1. PICK d \in todo[b] : Adopt(b, d) /\ todo' = [todo EXCEPT ![b] = @ \ {d}]
    BY <1>2 DEF OpenNext
  <2>2. d \in Dirs
    BY DEF MTypeOK
  <2>3. todo' \in [Procs \cup Daemons -> SUBSET Dirs]
    BY <2>1 DEF MTypeOK
  <2> QED
    BY <1>2, <2>1, <2>2, <2>3, AdoptTypes DEF OpenNext, MTypeOK, client
<1>3. CASE Serve(b)
  BY <1>3 DEF Serve, MTypeOK, repos, client
<1>4. CASE Exit(b)
  BY <1>4, EndsTypes DEF Exit, MTypeOK, client
<1> QED
  BY <1>1, <1>2, <1>3, <1>4 DEF DaemonStep

(* What a step of another does to a process: it may end its wait.             *)
Elsewhere(q) ==
  /\ cmd'[q] = cmd[q]
  /\ \/ pc'[q] = pc[q] /\ via'[q] = via[q]
     \/ pc[q] \in {"waiting", "lost"} /\ pc'[q] \in {"lost", "done", "failed"} /\ via'[q] \in {via[q], None}
  /\ since'[q] \in {since[q], 0}

LEMMA OthersMove ==
  ASSUME TypeInv, NEW p \in Procs, CommandStep(p), NEW q \in Procs, q # p
  PROVE  Elsewhere(q)
BY ZenonT(40) DEF CommandStep, Begin, RegistryStep, Touched, RegistryDone, InitLex, InitCommit, NotSetUp,
       KitChanged, OpenStore, CloseLoaded, Save, Health, StartDaemon, PollTimesOut, SyncCommand,
       SyncInPlace, Ask, Refresh, FindAgain, ClientGivesUp, Handle, NukeForget, Lost, Waiters, Forgotten,
       NukeSnapshot, NukeDelete, NukeCommit, Terminate, AllExited, KillLeft, Goto, client, CmdKnown,
       MTypeOK, TypeInv, Elsewhere, Excuse

LEMMA SoulMoves ==
  ASSUME TypeInv, NEW b \in Daemons, SoulStep(b), NEW q \in Procs
  PROVE  Elsewhere(q)
<1>1. CASE \E s \in Dirs : BeginSync(b, s)
  BY <1>1 DEF BeginSync, AfterNoSync, Waiters, CmdKnown, MTypeOK, TypeInv, Elsewhere
<1>2. CASE \E s \in Dirs : WatchForget(b, s)
  BY <1>2 DEF WatchForget, Lost, Waiters, CmdKnown, MTypeOK, TypeInv, Elsewhere
<1>3. CASE \E r \in runs[b] : EndSync(b, r)
  BY <1>3 DEF EndSync, Answered, Excuse, CmdKnown, MTypeOK, TypeInv, Elsewhere
<1>4. CASE UNCHANGED client
  BY <1>4 DEF client, Elsewhere
<1>5. \/ \E s \in Dirs : BeginSync(b, s) \/ WatchForget(b, s)
      \/ \E r \in runs[b] : EndSync(b, r)
      \/ UNCHANGED client
  BY DEF SoulStep, WatchHead, CloseForgotten, WorkerEnters, WorkerCreates
<1> QED
  BY <1>1, <1>2, <1>3, <1>4, <1>5

LEMMA DaemonMoves ==
  ASSUME NEW b \in Daemons, DaemonStep(b)
  PROVE  UNCHANGED client
BY DEF DaemonStep, Bind, OpenNext, Serve, Exit, client

(* Only a request that begins to refresh is given a daemon for it.            *)
LEMMA CommandRefreshes ==
  ASSUME TypeInv, NEW p \in Procs, CommandStep(p)
  PROVE  RefreshesAt'
<1>1. ASSUME pc'[p] = "refresh"
      PROVE  via'[p] \in Daemons
  BY <1>1, ZenonT(40) DEF CommandStep, Begin, RegistryStep, Touched, RegistryDone, InitLex, InitCommit, NotSetUp,
       KitChanged, OpenStore, CloseLoaded, Save, Health, StartDaemon, PollTimesOut, SyncCommand,
       SyncInPlace, Ask, Refresh, FindAgain, ClientGivesUp, Handle, NukeForget, Lost, Forgotten,
       NukeSnapshot, NukeDelete, NukeCommit, Terminate, AllExited, KillLeft, Goto, client, CmdKnown,
       MTypeOK, TypeInv, RefreshesAt, AfterStop, Serving
<1> QED
  BY <1>1, OthersMove DEF RefreshesAt, TypeInv, Elsewhere

LEMMA StepTypes == TypeInv /\ [MNext]_mvars => TypeInv'
<1> SUFFICES ASSUME TypeInv, [MNext]_mvars
             PROVE  TypeInv'
  OBVIOUS
<1>0. CmdKnown'
  BY StepKnown DEF TypeInv
<1>1. CASE UNCHANGED mvars
  BY <1>0, <1>1 DEF mvars, repos, daemon, client, TypeInv, MTypeOK, RefreshesAt
<1>2. CASE \E p \in Procs : CommandStep(p)
  BY <1>0, <1>2, CommandTypes, CommandRefreshes DEF TypeInv
<1>3. CASE \E b \in Daemons : SoulStep(b)
  <2>1. RefreshesAt'
    BY <1>3, SoulMoves DEF RefreshesAt, TypeInv, Elsewhere
  <2> QED
    BY <1>0, <1>3, <2>1, SoulTypes DEF TypeInv
<1>4. CASE \E b \in Daemons : DaemonStep(b)
  <2>1. RefreshesAt'
    BY <1>4, DaemonMoves DEF RefreshesAt, TypeInv, client
  <2> QED
    BY <1>0, <1>4, <2>1, DaemonTypes DEF TypeInv
<1> QED
  BY <1>1, <1>2, <1>3, <1>4 DEF MNext

LEMMA InitTypes == MInit => TypeInv
BY InitCmdKnown, MachineConstants DEF MInit, TypeInv, MTypeOK, RefreshesAt

(* Type correctness, for every set of repositories, processes and daemons.    *)
THEOREM MachineTyped == MSpec => []MTypeOK
<1>1. TypeInv => MTypeOK
  BY DEF TypeInv
<1> QED
  BY <1>1, InitTypes, StepTypes, PTL DEF MSpec
-----------------------------------------------------------------------------

(* A sync that has asked and was not answered. *)
Asking(p) == pc[p] \in {"ask", "refresh", "in place", "syncing", "waiting"} /\ cmd[p].op = "sync"

(* Where a sync can stand, and that nothing else syncs in its own process.    *)
SyncPoints ==
  {"touch", "run", "ask", "refresh", "in place", "syncing", "waiting", "lost", "done", "failed"}
SyncsStand ==
  \A p \in Procs : pc[p] # "new" =>
    /\ cmd[p].op = "sync" => pc[p] \in SyncPoints
    /\ pc[p] \in {"in place", "syncing"} => cmd[p].op = "sync"

(* What a daemon has, by where it stands; and one at most has the port.       *)
Quiet ==
  \A b \in Daemons :
    /\ dm[b] \notin {"opening", "serving", "stopping"} => held[b] = {}
    /\ dm[b] \notin {"serving", "stopping"} => want[b] = {} /\ runs[b] = {}
OnePort ==
  \A b, c \in Daemons : dm[b] \in {"opening", "serving"} /\ dm[c] \in {"opening", "serving"} => b = c
(* A request is at a daemon that serves, or served.                           *)
Reached == \A p \in Procs : via[p] # None => dm[via[p]] \in {"serving", "stopping", "dead"}

(* A sync not told to drop its result is one of a soul on the list.           *)
RunsHeld == \A b \in Daemons : \A r \in runs[b] : ~r.gone => r.dir \in held[b]

(* HEAD was already where the asking command saw it.                          *)
SinceSeen == \A p \in Procs : Asking(p) => since[p] <= head[cmd[p].dir]

(* Whoever waits for a sync asked before it looked at HEAD.                   *)
AskedBefore ==
  \A b \in Daemons : \A r \in runs[b] : \A p \in r.asked :
    /\ pc[p] \in {"waiting", "lost", "done", "failed"}
    /\ pc[p] = "waiting" => GenesisOf[r.dir] = GenesisOf[cmd[p].dir]
    /\ pc[p] = "waiting" /\ cmd[p].op = "sync" /\ cmd[p].dir = r.dir /\ r.phase # "spawned" =>
         since[p] <= r.to

(* A sync in its own process, or about to be one, has no older sync of its    *)
(* store beside it in a daemon that goes on ...                               *)
NoneOlder ==
  \A p \in Procs : pc[p] \in {"refresh", "in place", "syncing"} /\ cmd[p].op = "sync" =>
    \A b \in Daemons : dm[b] = "serving" =>
      \A r \in runs[b] : ~r.gone /\ r.dir = cmd[p].dir /\ r.phase # "spawned" => since[p] <= r.to

(* ... so that a store taken from under it is as new as it has to be.         *)
TakenNewer ==
  \A p \in Procs : pc[p] = "syncing" /\ holder[cmd[p].dir] # p =>
    \/ since[p] = 0
    \/ store[cmd[p].dir] # None /\ store[cmd[p].dir] >= since[p]

SyncInv ==
  /\ SyncsStand /\ Quiet /\ OnePort /\ Reached /\ RunsHeld /\ SinceSeen
  /\ AskedBefore /\ NoneOlder /\ TakenNewer

SInv == TypeInv /\ SyncInv

(* Where a run comes from: it was there; its worker looks at HEAD; or it is   *)
(* begun now, for those who wait.                                             *)
Goes(b, r, n) ==
  /\ n.dir = r.dir /\ n.asked = r.asked /\ n.to = r.to
  /\ n.phase = "spawned" <=> r.phase = "spawned"
  /\ r.gone => n.gone
  /\ ~n.gone /\ n.dir \in held[b] => n.dir \in held'[b]
(* ... or r when it looked at HEAD ...                                        *)
Enters(b, r, n) ==
  /\ n.dir = r.dir /\ n.asked = r.asked /\ n.gone = r.gone /\ r.phase = "spawned" /\ n.to = head[r.dir]
  /\ UNCHANGED <<client, held>>
(* ... or a sync that begins.                                                 *)
Begins(b, n) ==
  /\ n.phase = "spawned" /\ n.asked = Waiters(b, n.dir) /\ n.dir \in held[b]
  /\ UNCHANGED <<client, held>>
RunFrom(b, n) == (\E r \in runs[b] : Goes(b, r, n) \/ Enters(b, r, n)) \/ Begins(b, n)

LEMMA SameRuns ==
  ASSUME NEW b \in Daemons, UNCHANGED runs, held[b] \subseteq held'[b], NEW n \in runs'[b]
  PROVE  RunFrom(b, n)
BY DEF RunFrom, Goes

LEMMA ForgetRuns ==
  ASSUME TypeInv, NEW c \in Daemons, NEW s, Forget(c, s), NEW b \in Daemons, NEW n \in runs'[b]
  PROVE  RunFrom(b, n)
<1>1. CASE b = c
  <2>1. runs'[b] = {IF r.dir = s THEN [r EXCEPT !.gone = TRUE] ELSE r : r \in runs[b]}
    BY <1>1 DEF Forget, TypeInv, MTypeOK
  <2>2. PICK r \in runs[b] : n = IF r.dir = s THEN [r EXCEPT !.gone = TRUE] ELSE r
    BY <2>1
  <2>3. held'[b] = held[b] \ {s}
    BY <1>1 DEF Forget, TypeInv, MTypeOK
  <2>4. r \in Run
    BY DEF TypeInv, MTypeOK
  <2> QED
    BY <2>2, <2>3, <2>4 DEF RunFrom, Goes, Run
<1>2. CASE b # c
  BY <1>2 DEF Forget, TypeInv, MTypeOK, RunFrom, Goes
<1> QED
  BY <1>1, <1>2

LEMMA EndsRuns ==
  ASSUME TypeInv, NEW B, Ends(B), NEW b \in Daemons, NEW n \in runs'[b]
  PROVE  RunFrom(b, n)
BY DEF Ends, TypeInv, MTypeOK, RunFrom, Goes

LEMMA AdoptHolds ==
  ASSUME TypeInv, NEW c \in Daemons, NEW d, Adopt(c, d), NEW b \in Daemons
  PROVE  held[b] \subseteq held'[b]
BY DEF Adopt, TypeInv, MTypeOK

LEMMA CommandRuns ==
  ASSUME SInv, NEW p \in Procs, CommandStep(p), NEW b \in Daemons, NEW n \in runs'[b]
  PROVE  RunFrom(b, n)
<1>. USE DEF SInv
<1>1. CASE NukeForget(p)
  BY <1>1, ForgetRuns, SameRuns DEF NukeForget, Serving
<1>2. CASE KillLeft(p)
  BY <1>2, EndsRuns DEF KillLeft
<1>3. CASE Refresh(p)
  BY <1>3, SameRuns, AdoptHolds DEF Refresh, TypeInv, RefreshesAt
<1>4. CASE Terminate(p)
  <2>1. UNCHANGED runs /\ dm[b] \notin {"binding", "opening"}
    BY <1>4 DEF Terminate, SyncInv, Quiet
  <2> QED
    BY <1>4, <2>1, SameRuns DEF Terminate
<1>5. ~NukeForget(p) /\ ~KillLeft(p) /\ ~Refresh(p) /\ ~Terminate(p) => UNCHANGED <<runs, held>>
  BY DEF CommandStep, daemon, Begin, RegistryStep, CloseLoaded, NukeDelete, Touched, RegistryDone,
         InitLex, InitCommit, NotSetUp, KitChanged, OpenStore, Save, Health, StartDaemon,
         PollTimesOut, SyncCommand, SyncInPlace, Ask, FindAgain, ClientGivesUp, Forgotten,
         NukeSnapshot, NukeCommit, AllExited
<1> QED
  BY <1>1, <1>2, <1>3, <1>4, <1>5, SameRuns

LEMMA SoulRunsCome ==
  ASSUME SInv, NEW c \in Daemons, SoulStep(c), NEW b \in Daemons, NEW n \in runs'[b]
  PROVE  RunFrom(b, n)
<1>. USE DEF SInv
<1>1. CASE \E s \in Dirs : WatchForget(c, s)
  BY <1>1, ForgetRuns DEF WatchForget
<1>2. CASE \E s \in Dirs : BeginSync(c, s)
  <2>1. PICK s \in Dirs : BeginSync(c, s)
    BY <1>2
  <2>2. CASE UNCHANGED runs
    BY <2>1, <2>2, SameRuns DEF BeginSync
  <2> DEFINE new == [dir |-> s, gone |-> FALSE, robbed |-> FALSE, asked |-> Waiters(c, s),
                     phase |-> "spawned", to |-> 0]
  <2>3. CASE runs' = [runs EXCEPT ![c] = @ \cup {new}] /\ UNCHANGED <<pc, via>>
    <3>1. n \in runs[b] \/ (b = c /\ n = new)
      BY <2>3 DEF TypeInv, MTypeOK
    <3>2. n = new => n.phase = "spawned" /\ n.asked = Waiters(c, n.dir) /\ n.dir = s
      OBVIOUS
    <3>3. s \in held[c] /\ UNCHANGED <<client, held>>
      BY <2>1, <2>3 DEF BeginSync, client
    <3>4. CASE n \in runs[b]
      BY <3>3, <3>4 DEF RunFrom, Goes
    <3>5. CASE b = c /\ n = new
      BY <3>2, <3>3, <3>5 DEF RunFrom, Begins
    <3> QED
      BY <3>1, <3>4, <3>5
  <2> QED
    BY <2>1, <2>2, <2>3 DEF BeginSync
<1>3. CASE \E r \in runs[c] : WorkerEnters(c, r)
  <2>1. PICK r \in runs[c] : WorkerEnters(c, r)
    BY <1>3
  <2>2. r \in Run /\ head[r.dir] \in Nat
    BY DEF TypeInv, MTypeOK, Run
  <2> DEFINE new == [r EXCEPT !.phase = "entered", !.to = head[r.dir]]
  <2>3. runs' = [runs EXCEPT ![c] = (@ \ {r}) \cup {new}]
    BY <2>1 DEF WorkerEnters, Turned
  <2>4. new.dir = r.dir /\ new.gone = r.gone /\ new.asked = r.asked /\ new.to = head[r.dir]
    BY <2>2, EnteredRun
  <2> HIDE DEF new
  <2>5. n \in runs[b] \/ (b = c /\ n = new)
    BY <2>3 DEF TypeInv, MTypeOK
  <2>6. UNCHANGED <<client, held>> /\ r.phase = "spawned"
    BY <2>1 DEF WorkerEnters
  <2>7. CASE n \in runs[b]
    BY <2>6, <2>7 DEF RunFrom, Goes
  <2>8. CASE b = c /\ n = new
    BY <2>4, <2>6, <2>8 DEF RunFrom, Enters
  <2> QED
    BY <2>5, <2>7, <2>8
<1>4. CASE \E r \in runs[c] : WorkerCreates(c, r)
  <2>1. PICK r \in runs[c] : WorkerCreates(c, r)
    BY <1>4
  <2> DEFINE new == [r EXCEPT !.phase = "writing"]
  <2>2. new.dir = r.dir /\ new.gone = r.gone /\ new.asked = r.asked /\ new.to = r.to
        /\ new.phase = "writing"
    BY DEF TypeInv, MTypeOK, Run
  <2>3. runs' = [runs EXCEPT ![c] = (@ \ {r}) \cup {new}] /\ UNCHANGED held /\ r.phase = "entered"
    BY <2>1 DEF WorkerCreates, Turned
  <2> HIDE DEF new
  <2>4. n \in runs[b] \/ (b = c /\ n = new)
    BY <2>3 DEF TypeInv, MTypeOK
  <2> QED
    BY <2>2, <2>3, <2>4 DEF RunFrom, Goes
<1>5. CASE \E r \in runs[c] : EndSync(c, r)
  <2>1. PICK r \in runs[c] : EndSync(c, r)
    BY <1>5
  <2>2. runs' = [runs EXCEPT ![c] =
          {IF o.dir = r.dir THEN [o EXCEPT !.robbed = TRUE] ELSE o : o \in runs[c] \ {r}}]
        /\ UNCHANGED held
    BY <2>1 DEF EndSync
  <2>3. n \in runs[b] \/ (b = c /\ \E o \in runs[c] : n = [o EXCEPT !.robbed = TRUE])
    BY <2>2 DEF TypeInv, MTypeOK
  <2>4. \A o \in Run : LET m == [o EXCEPT !.robbed = TRUE]
                      IN  m.dir = o.dir /\ m.gone = o.gone /\ m.asked = o.asked /\ m.to = o.to
                          /\ m.phase = o.phase
    BY DEF Run
  <2>5. CASE n \in runs[b]
    BY <2>2, <2>5 DEF RunFrom, Goes
  <2>6. CASE b = c /\ \E o \in runs[c] : n = [o EXCEPT !.robbed = TRUE]
    <3>1. PICK o \in runs[c] : n = [o EXCEPT !.robbed = TRUE]
      BY <2>6
    <3>2. o \in Run
      BY DEF TypeInv, MTypeOK
    <3>3. n.dir = o.dir /\ n.gone = o.gone /\ n.asked = o.asked /\ n.to = o.to /\ n.phase = o.phase
      BY <2>4, <3>1, <3>2
    <3> QED
      BY <2>2, <2>6, <3>3 DEF RunFrom, Goes
  <2> QED
    BY <2>3, <2>5, <2>6
<1>6. CASE UNCHANGED <<runs, held>>
  BY <1>6, SameRuns
<1>7. \/ \E s \in Dirs : WatchForget(c, s) \/ BeginSync(c, s)
      \/ \E r \in runs[c] : WorkerEnters(c, r) \/ WorkerCreates(c, r) \/ EndSync(c, r)
      \/ UNCHANGED <<runs, held>>
  BY DEF SoulStep, WatchHead, CloseForgotten
<1> QED
  BY <1>1, <1>2, <1>3, <1>4, <1>5, <1>6, <1>7

LEMMA DaemonRuns ==
  ASSUME SInv, NEW c \in Daemons, DaemonStep(c), NEW b \in Daemons, NEW n \in runs'[b]
  PROVE  RunFrom(b, n)
<1>1. CASE Exit(c)
  BY <1>1, EndsRuns DEF Exit, SInv
<1>2. CASE OpenNext(c)
  BY <1>2, AdoptHolds, SameRuns DEF OpenNext, SInv
<1>3. CASE Bind(c) \/ Serve(c)
  BY <1>3, SameRuns DEF Bind, Serve
<1> QED
  BY <1>1, <1>2, <1>3 DEF DaemonStep

(* After any step, every run comes from somewhere.                            *)
StepRunsCome ==
  \A b \in Daemons : \A n \in runs'[b] : RunFrom(b, n)

LEMMA AllRuns == ASSUME SInv, MNext PROVE StepRunsCome
BY CommandRuns, SoulRunsCome, DaemonRuns DEF MNext, StepRunsCome

-----------------------------------------------------------------------------
(* A process whose request ended, or waits, does nothing more but end.        *)
Ended == {"waiting", "lost", "done", "failed"}
LEMMA EndedMoves ==
  ASSUME SInv, MNext, NEW q \in Procs, pc[q] \in Ended
  PROVE  Elsewhere(q)
<1>1. CASE CommandStep(q)
  <2>1. RegistryStep(q) \/ ClientGivesUp(q)
    BY <1>1 DEF CommandStep, Begin, Touched, RegistryDone, InitLex, InitCommit, NotSetUp, KitChanged,
         OpenStore, CloseLoaded, Save, Health, StartDaemon, PollTimesOut, SyncCommand, SyncInPlace,
         Ask, Refresh, FindAgain, NukeForget, Forgotten, NukeSnapshot, NukeDelete, NukeCommit,
         Terminate, AllExited, KillLeft, Ended
  <2>2. CASE RegistryStep(q)
    BY <2>2 DEF RegistryStep, client, Elsewhere
  <2>3. CASE ClientGivesUp(q)
    <3>1. /\ pc[q] \in {"waiting", "lost"} /\ UNCHANGED <<cmd, since>>
          /\ via' = [via EXCEPT ![q] = None]
          /\ \E l \in {"done", "failed"} : Goto(q, l)
      BY <2>3 DEF ClientGivesUp, Ended
    <3> QED
      BY <3>1 DEF Goto, Elsewhere, SInv, TypeInv, MTypeOK, CmdKnown
  <2> QED
    BY <2>1, <2>2, <2>3
<1>2. CASE \E p \in Procs \ {q} : CommandStep(p)
  BY <1>2, OthersMove DEF SInv
<1>3. CASE \E b \in Daemons : SoulStep(b)
  BY <1>3, SoulMoves DEF SInv
<1>4. CASE \E b \in Daemons : DaemonStep(b)
  BY <1>4, DaemonMoves DEF client, Elsewhere
<1> QED
  BY <1>1, <1>2, <1>3, <1>4 DEF MNext

LEMMA StepAskedBefore == ASSUME SInv, MNext PROVE AskedBefore'
<1> SUFFICES ASSUME NEW b \in Daemons, NEW n \in runs'[b], NEW q \in n.asked
             PROVE  /\ pc'[q] \in Ended
                    /\ pc'[q] = "waiting" => GenesisOf[n.dir] = GenesisOf[cmd'[q].dir]
                    /\ pc'[q] = "waiting" /\ cmd'[q].op = "sync" /\ cmd'[q].dir = n.dir
                         /\ n.phase # "spawned" => since'[q] <= n.to
  BY DEF AskedBefore, Ended
<1>0. RunFrom(b, n)
  BY AllRuns DEF StepRunsCome
<1>1. CASE \E r \in runs[b] : Goes(b, r, n)
  <2>1. PICK r \in runs[b] : Goes(b, r, n)
    BY <1>1
  <2>2. r \in Run /\ q \in r.asked /\ q \in Procs /\ r.to \in Nat /\ since[q] \in Nat
    BY <2>1 DEF Goes, SInv, TypeInv, MTypeOK, Run
  <2>3. pc[q] \in Ended /\ Elsewhere(q)
    BY <2>2, EndedMoves DEF SInv, SyncInv, AskedBefore, Ended
  <2>4. pc'[q] \in Ended /\ (pc'[q] = "waiting" => pc[q] = "waiting")
    BY <2>3 DEF Elsewhere, Ended
  <2> QED
    BY <2>1, <2>2, <2>3, <2>4 DEF Goes, Elsewhere, SInv, SyncInv, AskedBefore
<1>2. CASE \E r \in runs[b] : Enters(b, r, n)
  <2>1. PICK r \in runs[b] : Enters(b, r, n)
    BY <1>2
  <2>2. r \in Run /\ q \in r.asked /\ q \in Procs
    BY <2>1 DEF Enters, SInv, TypeInv, MTypeOK, Run
  <2>3. pc[q] \in Ended /\ (pc[q] = "waiting" => GenesisOf[r.dir] = GenesisOf[cmd[q].dir])
    BY <2>2 DEF SInv, SyncInv, AskedBefore, Ended
  <2>4. pc[q] = "waiting" /\ cmd[q].op = "sync" => since[q] <= head[cmd[q].dir]
    BY <2>2 DEF SInv, SyncInv, SinceSeen, Asking
  <2> QED
    BY <2>1, <2>3, <2>4 DEF Enters, client
<1>3. CASE Begins(b, n)
  BY <1>3 DEF Begins, Waiters, Found, client, Ended
<1> QED
  BY <1>0, <1>1, <1>2, <1>3 DEF RunFrom

LEMMA StepRunsHeld == ASSUME SInv, MNext PROVE RunsHeld'
BY AllRuns DEF StepRunsCome, RunFrom, Goes, Enters, Begins, RunsHeld, SInv, SyncInv

-----------------------------------------------------------------------------
(* HEAD only moves on.                                                        *)
LEMMA CommitsGrow ==
  ASSUME MTypeOK, NEW c, NEW d \in Dirs, Commits(c) \/ UNCHANGED head
  PROVE  head'[d] >= head[d]
BY DEF Commits, MTypeOK

LEMMA HeadsGrow ==
  ASSUME SInv, MNext, NEW d \in Dirs
  PROVE  head'[d] >= head[d]
<1>1. ASSUME NEW p \in Procs, CommandStep(p)
      PROVE  UNCHANGED head \/ Commits(cmd[p].dir)
  BY <1>1 DEF CommandStep, Begin, RegistryStep, Touched, RegistryDone,
       InitLex, InitCommit, NotSetUp, KitChanged, OpenStore, CloseLoaded, Save, Health, StartDaemon,
       PollTimesOut, SyncCommand, SyncInPlace, Ask, Refresh, FindAgain, ClientGivesUp, NukeForget,
       Forgotten, NukeSnapshot, NukeDelete, NukeCommit, Terminate, AllExited, KillLeft, repos
<1>2. ASSUME NEW b \in Daemons, SoulStep(b) \/ DaemonStep(b)
      PROVE  UNCHANGED head
  BY <1>2 DEF SoulStep, DaemonStep, WatchHead, BeginSync, WatchForget,
       CloseForgotten, WorkerEnters, WorkerCreates, EndSync, Bind, OpenNext, Serve, Exit, repos
<1> QED
  BY <1>1, <1>2, CommitsGrow DEF MNext, SInv, TypeInv

(* A command's own steps: where a sync goes.                                  *)
OwnSync(p) ==
  \/ /\ pc[p] = "run" /\ SyncCommand(p)
  \/ /\ UNCHANGED <<pc, via, since>>
  \/ /\ since'[p] = since[p]
     /\ \/ pc[p] = "ask" /\ pc'[p] \in {"waiting", "refresh", "failed"}
        \/ pc[p] = "refresh" /\ pc'[p] \in {"waiting", "in place", "failed"}
        \/ pc[p] = "in place" /\ pc'[p] \in {"syncing", "failed"}
        \/ pc[p] = "syncing" /\ pc'[p] = "done"
        \/ pc'[p] \in {"run", "failed"}

LEMMA OwnMoves ==
  ASSUME SInv, NEW p \in Procs, pc[p] # "new", cmd[p].op = "sync", CommandStep(p)
  PROVE  OwnSync(p) /\ UNCHANGED cmd
<1>1. pc[p] \in SyncPoints
  BY DEF SInv, SyncInv, SyncsStand
<1> QED
  BY <1>1 DEF SyncPoints, CommandStep, Begin, RegistryStep, Touched, RegistryDone, InitLex, InitCommit,
       NotSetUp, KitChanged, OpenStore, CloseLoaded, Save, Health, StartDaemon, PollTimesOut,
       SyncCommand, SyncInPlace, Ask, Refresh, FindAgain, ClientGivesUp, Handle, NukeForget, Forgotten,
       NukeSnapshot, NukeDelete, NukeCommit, Terminate, AllExited, KillLeft, Goto, client, CmdKnown,
       MTypeOK, SInv, TypeInv, OwnSync

LEMMA OthersElsewhere ==
  ASSUME SInv, MNext, NEW q \in Procs, ~CommandStep(q)
  PROVE  Elsewhere(q)
<1>1. CASE \E p \in Procs \ {q} : CommandStep(p)
  BY <1>1, OthersMove DEF SInv
<1>2. CASE \E b \in Daemons : SoulStep(b)
  BY <1>2, SoulMoves DEF SInv
<1>3. CASE \E b \in Daemons : DaemonStep(b)
  BY <1>3, DaemonMoves DEF client, Elsewhere
<1> QED
  BY <1>1, <1>2, <1>3 DEF MNext

LEMMA OthersStay ==
  ASSUME SInv, NEW p \in Procs, CommandStep(p), pc[p] # "new", cmd[p].op # "sync"
  PROVE  cmd'[p] = cmd[p] /\ pc'[p] \notin {"in place", "syncing"}
<1>1. pc[p] \notin {"in place", "syncing"}
  BY DEF SInv, SyncInv, SyncsStand
<1> QED
  BY <1>1 DEF CommandStep, Begin, RegistryStep, Touched, RegistryDone, InitLex, InitCommit,
       NotSetUp, KitChanged, OpenStore, CloseLoaded, Save, Health, StartDaemon, PollTimesOut,
       SyncCommand, SyncInPlace, Ask, Refresh, FindAgain, ClientGivesUp, Handle, NukeForget, Lost,
       Waiters, Forgotten, NukeSnapshot, NukeDelete, NukeCommit, Terminate, AllExited, KillLeft, Goto,
       client, AfterStop, CmdKnown, MTypeOK, SInv, TypeInv

LEMMA NewBegins ==
  ASSUME SInv, NEW p \in Procs, CommandStep(p), pc[p] = "new"
  PROVE  \/ UNCHANGED client
         \/ pc'[p] \in {"run", "touch", "unlisting", "failed"}
            /\ (cmd'[p].op = "sync" => pc'[p] \in {"touch", "failed"})
<1>1. Begin(p) \/ RegistryStep(p)
  BY DEF CommandStep, Touched, RegistryDone, InitLex, InitCommit, NotSetUp, KitChanged,
         OpenStore, CloseLoaded, Save, Health, StartDaemon, PollTimesOut, SyncCommand, SyncInPlace,
         Ask, Refresh, FindAgain, ClientGivesUp, NukeForget, Forgotten, NukeSnapshot, NukeDelete,
         NukeCommit, Terminate, AllExited, KillLeft
<1>2. CASE Begin(p)
  BY <1>2 DEF Begin, Goto, SInv, TypeInv, CmdKnown
<1> QED
  BY <1>1, <1>2 DEF RegistryStep

LEMMA StepSyncsStand == ASSUME SInv, MNext PROVE SyncsStand'
<1> SUFFICES ASSUME NEW q \in Procs, pc'[q] # "new"
             PROVE  /\ cmd'[q].op = "sync" => pc'[q] \in SyncPoints
                    /\ pc'[q] \in {"in place", "syncing"} => cmd'[q].op = "sync"
  BY DEF SyncsStand
<1>0. pc[q] # "new" => /\ cmd[q].op = "sync" => pc[q] \in SyncPoints
                       /\ pc[q] \in {"in place", "syncing"} => cmd[q].op = "sync"
  BY DEF SInv, SyncInv, SyncsStand
<1>1. CASE ~CommandStep(q)
  <2>1. Elsewhere(q)
    BY <1>1, OthersElsewhere
  <2>2. CASE pc'[q] = pc[q]
    BY <1>0, <2>1, <2>2 DEF Elsewhere
  <2>3. CASE pc[q] \in {"waiting", "lost"} /\ pc'[q] \in {"lost", "done", "failed"}
    BY <2>3 DEF SyncPoints
  <2> QED
    BY <2>1, <2>2, <2>3 DEF Elsewhere
<1>2. CASE CommandStep(q) /\ pc[q] = "new"
  BY <1>2, NewBegins DEF client, SyncPoints
<1>3. CASE CommandStep(q) /\ pc[q] # "new" /\ cmd[q].op # "sync"
  BY <1>3, OthersStay
<1>4. CASE CommandStep(q) /\ pc[q] # "new" /\ cmd[q].op = "sync"
  <2>1. OwnSync(q) /\ UNCHANGED cmd
    BY <1>4, OwnMoves
  <2>2. SyncCommand(q) => pc'[q] \in {"in place", "ask"}
    BY DEF SyncCommand, Goto, SInv, TypeInv, CmdKnown
  <2> QED
    BY <1>0, <1>4, <2>1, <2>2 DEF OwnSync, SyncPoints
<1> QED
  BY <1>1, <1>2, <1>3, <1>4

LEMMA StepSinceSeen == ASSUME SInv, MNext PROVE SinceSeen'
<1> SUFFICES ASSUME NEW q \in Procs, Asking(q)'
             PROVE  since'[q] <= head'[cmd'[q].dir]
  BY DEF SinceSeen
<1>0. Asking(q) => since[q] <= head[cmd[q].dir]
  BY DEF SInv, SyncInv, SinceSeen
<1>1. CASE CommandStep(q) /\ pc[q] = "new"
  BY <1>1, NewBegins DEF client, Asking
<1>2. pc[q] # "new" => cmd[q].dir \in Dirs
  BY KnownDir DEF SInv, TypeInv
<1>3. CASE pc[q] # "new" /\ CommandStep(q) /\ SyncCommand(q)
  <2>1. since'[q] = head[cmd[q].dir] /\ UNCHANGED <<cmd, head>>
    BY <1>3 DEF SyncCommand, repos, SInv, TypeInv, MTypeOK
  <2>2. head[cmd[q].dir] \in Nat
    BY <1>2, <1>3 DEF SInv, TypeInv, MTypeOK
  <2> QED
    BY <2>1, <2>2
<1>4. CASE pc[q] # "new" /\ cmd'[q] = cmd[q] /\ Asking(q) /\ since'[q] \in {since[q], 0}
  <2>1. head'[cmd[q].dir] >= head[cmd[q].dir]
    BY <1>2, <1>4, HeadsGrow
  <2>2. head[cmd[q].dir] \in Nat /\ since[q] \in Nat /\ head'[cmd[q].dir] \in Nat
    BY <1>2, <1>4, StepTypes DEF SInv, TypeInv, MTypeOK
  <2> QED
    BY <1>0, <1>4, <2>1, <2>2
<1>5. CASE ~CommandStep(q)
  <2>1. Elsewhere(q)
    BY <1>5, OthersElsewhere
  <2> QED
    BY <1>4, <2>1 DEF Elsewhere, Asking
<1>6. CASE pc[q] # "new" /\ CommandStep(q) /\ ~SyncCommand(q)
  <2>1. cmd[q].op = "sync" => OwnSync(q) /\ UNCHANGED cmd
    BY <1>6, OwnMoves
  <2>2. cmd[q].op # "sync" => cmd'[q] = cmd[q]
    BY <1>6, OthersStay
  <2> QED
    BY <1>4, <1>6, <2>1, <2>2 DEF OwnSync, Asking
<1> QED
  BY <1>1, <1>3, <1>5, <1>6

-----------------------------------------------------------------------------
LEMMA AdoptAt ==
  ASSUME TypeInv, NEW b \in Daemons, NEW d, Adopt(b, d), NEW c \in Daemons, c # b
  PROVE  held'[c] = held[c]
BY DEF Adopt, TypeInv, MTypeOK

LEMMA HandleAt ==
  ASSUME TypeInv, NEW p \in Procs, NEW b \in Daemons, Handle(p, b), NEW c \in Daemons, c # b
  PROVE  want'[c] = want[c]
BY DEF Handle, TypeInv, MTypeOK

LEMMA HandleVia ==
  ASSUME TypeInv, NEW p \in Procs, NEW b \in Daemons, Handle(p, b)
  PROVE  \A q \in Procs : via'[q] \in {via[q], None} \/ (q = p /\ via'[q] = b)
BY DEF Handle, TypeInv, MTypeOK

LEMMA ForgetQuiet ==
  ASSUME SInv, NEW b \in Daemons, NEW s, Forget(b, s), UNCHANGED dm
  PROVE  Quiet'
<1>1. \A c \in Daemons : held'[c] \subseteq held[c] /\ want'[c] \subseteq want[c]
                         /\ (runs[c] = {} => runs'[c] = {})
  BY DEF Forget, SInv, TypeInv, MTypeOK
<1> QED
  BY <1>1 DEF Quiet, SInv, SyncInv

LEMMA EndsQuiet ==
  ASSUME SInv, NEW B, Ends(B)
  PROVE  Quiet' /\ OnePort' /\ (\A b \in Daemons : dm'[b] \in {dm[b], "dead"})
BY DEF Ends, Quiet, OnePort, SInv, SyncInv

LEMMA CommandQuiet ==
  ASSUME SInv, NEW p \in Procs, CommandStep(p)
  PROVE  Quiet' /\ OnePort' /\ Reached'
<1>. USE DEF SInv
<1>0. Quiet /\ OnePort /\ Reached
  BY DEF SyncInv
<1>1. CASE StartDaemon(p)
  BY <1>0, <1>1, MachineConstants DEF StartDaemon, TypeInv, MTypeOK, Quiet, OnePort, Reached, repos, client
<1>2. CASE Ask(p)
  <2>1. UNCHANGED <<dm, held, runs>>
    BY <1>2 DEF Ask
  <2>2. CASE \E b \in Serving : Handle(p, b)
    <3>1. PICK b \in Serving : Handle(p, b)
      BY <2>2
    <3>2. b \in Daemons /\ dm[b] = "serving"
      BY DEF Serving
    <3>3. \A c \in Daemons : c # b => want'[c] = want[c]
      BY <3>1, <3>2, HandleAt
    <3>4. \A q \in Procs : via'[q] \in {via[q], None} \/ via'[q] = b
      BY <3>1, <3>2, HandleVia
    <3> QED
      BY <1>0, <2>1, <3>2, <3>3, <3>4 DEF Quiet, OnePort, Reached
  <2>3. CASE UNCHANGED want /\ ((\E b \in Serving : via' = [via EXCEPT ![p] = b]) \/ UNCHANGED via)
    BY <1>0, <2>1, <2>3 DEF Quiet, OnePort, Reached, Serving, TypeInv, MTypeOK
  <2> QED
    BY <1>2, <2>2, <2>3 DEF Ask
<1>3. CASE Refresh(p)
  <2>1. via[p] \in Daemons /\ dm[via[p]] \in {"serving", "stopping"}
    BY <1>0, <1>3, MachineConstants DEF Refresh, Alive, Reached, TypeInv, RefreshesAt
  <2>2. \A c \in Daemons : c # via[p] => held'[c] = held[c]
    BY <1>3, <2>1, AdoptAt DEF Refresh
  <2>3. UNCHANGED <<dm, want, runs, via>>
    BY <1>3 DEF Refresh, client
  <2> QED
    BY <1>0, <2>1, <2>2, <2>3 DEF Quiet, OnePort, Reached
<1>4. CASE FindAgain(p)
  <2>1. via[p] \in Daemons /\ dm[via[p]] \in {"serving", "stopping"}
    BY <1>0, <1>4, MachineConstants DEF FindAgain, Alive, Reached, TypeInv, RefreshesAt
  <2>2. UNCHANGED <<dm, held, runs>>
    BY <1>4 DEF FindAgain
  <2>3. CASE Handle(p, via[p])
    <3>1. \A c \in Daemons : c # via[p] => want'[c] = want[c]
      BY <2>1, <2>3, HandleAt
    <3>2. \A q \in Procs : via'[q] \in {via[q], None} \/ via'[q] = via[p]
      BY <2>1, <2>3, HandleVia
    <3> QED
      BY <1>0, <2>1, <2>2, <3>1, <3>2 DEF Quiet, OnePort, Reached
  <2>4. CASE UNCHANGED want /\ via' = [via EXCEPT ![p] = None]
    BY <1>0, <2>2, <2>4 DEF Quiet, OnePort, Reached, TypeInv, MTypeOK
  <2> QED
    BY <1>4, <2>3, <2>4 DEF FindAgain
<1>5. CASE NukeForget(p)
  <2>1. UNCHANGED dm
    BY <1>5 DEF NukeForget
  <2>2. CASE \E b \in Serving : (\E s : Forget(b, s)) /\ via' = [via EXCEPT ![p] = b]
    <3>1. Quiet'
      BY <2>1, <2>2, ForgetQuiet DEF Serving
    <3>2. Reached' /\ OnePort'
      BY <1>0, <2>1, <2>2 DEF Reached, OnePort, Serving, TypeInv, MTypeOK
    <3> QED
      BY <3>1, <3>2
  <2>3. CASE UNCHANGED <<held, want, runs, via>>
    BY <1>0, <2>1, <2>3 DEF Quiet, OnePort, Reached
  <2> QED
    BY <1>5, <2>2, <2>3 DEF NukeForget
<1>6. CASE Terminate(p)
  <2>1. Quiet'
    BY <1>0, <1>6 DEF Terminate, Quiet
  <2>2. OnePort'
    BY <1>0, <1>6 DEF Terminate, OnePort
  <2>3. Reached'
    BY <1>0, <1>6, MachineConstants DEF Terminate, Reached, TypeInv, MTypeOK
  <2> QED
    BY <2>1, <2>2, <2>3
<1>7. CASE KillLeft(p)
  <2>1. Quiet' /\ OnePort' /\ (\A b \in Daemons : dm'[b] \in {dm[b], "dead"}) /\ UNCHANGED via
    BY <1>7, EndsQuiet DEF KillLeft
  <2> QED
    BY <1>0, <2>1 DEF Reached, TypeInv, MTypeOK
<1>8. CASE UNCHANGED <<dm, held, want, runs>> /\ (UNCHANGED via \/ via' = [via EXCEPT ![p] = None])
  BY <1>0, <1>8 DEF Quiet, OnePort, Reached, TypeInv, MTypeOK
<1>9. ~StartDaemon(p) /\ ~Ask(p) /\ ~Refresh(p) /\ ~FindAgain(p) /\ ~NukeForget(p) /\ ~Terminate(p)
        /\ ~KillLeft(p) =>
      UNCHANGED <<dm, held, want, runs>> /\ (UNCHANGED via \/ via' = [via EXCEPT ![p] = None])
  BY DEF CommandStep, daemon, client, Begin, RegistryStep, CloseLoaded, NukeDelete, Touched,
         RegistryDone, InitLex, InitCommit, NotSetUp, KitChanged, OpenStore, Save, Health,
         PollTimesOut, SyncCommand, SyncInPlace, ClientGivesUp, Forgotten, NukeSnapshot, NukeCommit,
         AllExited
<1> QED
  BY <1>1, <1>2, <1>3, <1>4, <1>5, <1>6, <1>7, <1>8, <1>9

LEMMA SoulQuiet ==
  ASSUME SInv, NEW b \in Daemons, SoulStep(b)
  PROVE  Quiet' /\ OnePort' /\ Reached'
<1>. USE DEF SInv
<1>0. Quiet /\ OnePort /\ Reached
  BY DEF SyncInv
<1>1. UNCHANGED dm /\ \A q \in Procs : via'[q] \in {via[q], None}
  BY SoulMoves DEF Elsewhere, SoulStep, WatchHead, BeginSync, WatchForget, CloseForgotten, WorkerEnters,
     WorkerCreates, EndSync
<1>2. Reached' /\ OnePort'
  BY <1>0, <1>1 DEF Reached, OnePort
<1>3. CASE \E s \in Dirs : WatchForget(b, s)
  BY <1>1, <1>2, <1>3, ForgetQuiet DEF WatchForget
<1>4. CASE \E s \in Dirs : WatchHead(b, s) \/ BeginSync(b, s)
  <2>1. dm[b] \in {"serving", "stopping"}
    BY <1>0, <1>4 DEF WatchHead, Looping, BeginSync, Quiet
  <2>2. \A c \in Daemons : c # b => held'[c] = held[c] /\ want'[c] = want[c] /\ runs'[c] = runs[c]
    BY <1>4 DEF WatchHead, BeginSync, TypeInv, MTypeOK
  <2> QED
    BY <1>0, <1>1, <1>2, <2>1, <2>2 DEF Quiet
<1>5. CASE \E r \in runs[b] : WorkerEnters(b, r) \/ WorkerCreates(b, r) \/ EndSync(b, r)
  <2>1. dm[b] \in {"serving", "stopping"}
    BY <1>0, <1>5 DEF Quiet
  <2>2. \E R : runs' = [runs EXCEPT ![b] = R]
    BY <1>5 DEF WorkerEnters, WorkerCreates, Turned, EndSync
  <2>3. UNCHANGED <<held, want>>
    BY <1>5 DEF WorkerEnters, WorkerCreates, EndSync
  <2>4. \A c \in Daemons : c # b => runs'[c] = runs[c]
    BY <2>2 DEF TypeInv, MTypeOK
  <2> QED
    BY <1>0, <1>1, <1>2, <2>1, <2>3, <2>4 DEF Quiet
<1>6. CASE \E s \in Dirs : CloseForgotten(b, s)
  BY <1>0, <1>1, <1>2, <1>6 DEF CloseForgotten, Quiet
<1> QED
  BY <1>3, <1>4, <1>5, <1>6 DEF SoulStep

LEMMA DaemonQuiet ==
  ASSUME SInv, NEW b \in Daemons, DaemonStep(b)
  PROVE  Quiet' /\ OnePort' /\ Reached'
<1>. USE DEF SInv
<1>0. Quiet /\ OnePort /\ Reached
  BY DEF SyncInv
<1>1. UNCHANGED via
  BY DaemonMoves DEF client
<1>2. CASE Bind(b)
  BY <1>0, <1>1, <1>2, MachineConstants DEF Bind, PortTaken, Quiet, OnePort, Reached, TypeInv, MTypeOK, repos, client
<1>3. CASE OpenNext(b)
  <2>1. \A c \in Daemons : c # b => held'[c] = held[c]
    BY <1>3, AdoptAt DEF OpenNext
  <2> QED
    BY <1>0, <1>1, <1>3, <2>1 DEF OpenNext, Quiet, OnePort, Reached
<1>4. CASE Serve(b)
  BY <1>0, <1>1, <1>4 DEF Serve, Quiet, OnePort, Reached, TypeInv, MTypeOK
<1>5. CASE Exit(b)
  <2>1. Quiet' /\ OnePort' /\ (\A c \in Daemons : dm'[c] \in {dm[c], "dead"})
    BY <1>5, EndsQuiet DEF Exit
  <2> QED
    BY <1>0, <1>1, <2>1 DEF Reached, TypeInv, MTypeOK
<1> QED
  BY <1>2, <1>3, <1>4, <1>5 DEF DaemonStep

-----------------------------------------------------------------------------
(* Only Serve makes a daemon serve, and it has no sync then.                  *)
LEMMA ServesOn ==
  ASSUME SInv, MNext, NEW b \in Daemons, dm'[b] = "serving", runs'[b] # {}
  PROVE  dm[b] = "serving"
<1>. USE DEF SInv
<1>1. ASSUME NEW p \in Procs, CommandStep(p)
      PROVE  dm[b] = "serving"
  <2>1. StartDaemon(p) \/ Terminate(p) \/ KillLeft(p) \/ UNCHANGED dm
    BY <1>1 DEF CommandStep, daemon, Begin, RegistryStep, CloseLoaded, NukeDelete, Touched,
         RegistryDone, InitLex, InitCommit, NotSetUp, KitChanged, OpenStore, Save, Health, Ask, Refresh,
         FindAgain, NukeForget, PollTimesOut, SyncCommand, SyncInPlace, ClientGivesUp, Forgotten,
         NukeSnapshot, NukeCommit, AllExited
  <2>2. CASE StartDaemon(p)
    BY <2>2 DEF StartDaemon, TypeInv, MTypeOK
  <2>3. CASE Terminate(p)
    BY <2>3 DEF Terminate
  <2>4. CASE KillLeft(p)
    BY <2>4 DEF KillLeft, Ends
  <2> QED
    BY <2>1, <2>2, <2>3, <2>4
<1>2. ASSUME NEW c \in Daemons, SoulStep(c)
      PROVE  UNCHANGED dm
  BY <1>2 DEF SoulStep, WatchHead, BeginSync, WatchForget, CloseForgotten, WorkerEnters, WorkerCreates,
       EndSync
<1>3. ASSUME NEW c \in Daemons, DaemonStep(c)
      PROVE  dm[b] = "serving"
  <2>1. CASE Serve(c)
    BY <2>1 DEF Serve, SyncInv, Quiet, TypeInv, MTypeOK
  <2>2. CASE Bind(c) \/ OpenNext(c) \/ Exit(c)
    BY <2>2 DEF Bind, OpenNext, Exit, Ends, TypeInv, MTypeOK
  <2> QED
    BY <1>3, <2>1, <2>2 DEF DaemonStep
<1> QED
  BY <1>1, <1>2, <1>3 DEF MNext

LEMMA NatPositive == \A n \in Nat : 0 <= n
OBVIOUS

LEMMA StepNoneOlder == ASSUME SInv, MNext PROVE NoneOlder'
<1> SUFFICES ASSUME NEW q \in Procs, pc'[q] \in {"refresh", "in place", "syncing"}, cmd'[q].op = "sync",
                    NEW b \in Daemons, dm'[b] = "serving", NEW n \in runs'[b],
                    ~n.gone, n.dir = cmd'[q].dir, n.phase # "spawned"
             PROVE  since'[q] <= n.to
  BY DEF NoneOlder
<1>0. RunFrom(b, n) /\ dm[b] = "serving"
  BY AllRuns, ServesOn DEF StepRunsCome
<1>1. CASE /\ pc[q] \in {"refresh", "in place", "syncing"} /\ cmd[q] = cmd'[q]
           /\ since'[q] \in {since[q], 0}
  <2>1. since[q] \in Nat /\ SinceSeen /\ NoneOlder
    BY DEF SInv, TypeInv, MTypeOK, SyncInv
  <2>2. CASE \E r \in runs[b] : Goes(b, r, n)
    <3>1. PICK r \in runs[b] : Goes(b, r, n)
      BY <2>2
    <3>2. r.to \in Nat
      <4>1. r \in runs[b] /\ runs[b] \subseteq Run
        BY <3>1 DEF SInv, TypeInv, MTypeOK
      <4> QED
        BY <4>1 DEF Run
    <3>3. ~r.gone /\ r.dir = cmd[q].dir /\ r.phase # "spawned" /\ n.to = r.to
      BY <1>1, <3>1 DEF Goes
    <3>4. since[q] <= r.to
      BY <1>0, <1>1, <2>1, <3>3 DEF NoneOlder
    <3>5. since'[q] = since[q] \/ since'[q] = 0
      BY <1>1
    <3>6. 0 <= r.to
      BY <3>2, NatPositive
    <3>7. since'[q] <= r.to
      BY <3>4, <3>5, <3>6
    <3> QED
      BY <3>3, <3>7, Zenon
  <2>3. CASE \E r \in runs[b] : Enters(b, r, n)
    <3>1. since[q] <= head[cmd[q].dir]
      BY <1>1, <2>1 DEF SinceSeen, Asking
    <3>2. since'[q] = since[q] /\ n.to = head[cmd[q].dir]
      BY <1>1, <2>3 DEF Enters, client
    <3> QED
      BY <3>1, <3>2
  <2>4. CASE Begins(b, n)
    BY <2>4 DEF Begins
  <2> QED
    BY <1>0, <2>2, <2>3, <2>4 DEF RunFrom
<1>2. CASE ~CommandStep(q)
  BY <1>1, <1>2, OthersElsewhere DEF Elsewhere
<1>3. CASE CommandStep(q) /\ pc[q] = "new"
  BY <1>3, NewBegins DEF client
<1>4. CASE CommandStep(q) /\ pc[q] # "new"
  <2>1. CASE cmd[q].op = "sync"
    <3>1. OwnSync(q) /\ UNCHANGED cmd
      BY <1>4, <2>1, OwnMoves
    <3>2. CASE SyncCommand(q)
      <4>1. Serving = {}
        BY <3>2 DEF SyncCommand, Goto, SInv, TypeInv, CmdKnown
      <4> QED
        BY <1>0, <4>1 DEF Serving
    <3>3. CASE pc[q] = "ask" /\ pc'[q] = "refresh"
      <4>1. Ask(q)
        BY <1>4, <3>3 DEF CommandStep, client, Begin, RegistryStep, CloseLoaded, NukeDelete, Touched,
           RegistryDone, InitLex, InitCommit, NotSetUp, KitChanged, OpenStore, Save, Health, Refresh,
           FindAgain, NukeForget, StartDaemon, Terminate, KillLeft,
           PollTimesOut, SyncCommand, SyncInPlace, ClientGivesUp, Forgotten, NukeSnapshot, NukeCommit,
           AllExited
      <4>2. \E c \in Serving : Found(c, cmd[q].dir) = {}
        BY <3>3, <4>1 DEF Ask, Handle, Goto, SInv, TypeInv, CmdKnown
      <4>3. Found(b, cmd[q].dir) = {} /\ UNCHANGED <<runs, cmd>>
        BY <1>0, <4>1, <4>2 DEF Ask, Serving, SInv, SyncInv, OnePort
      <4>4. n.dir \in held[b]
        BY <4>3 DEF SInv, SyncInv, RunsHeld
      <4> QED
        BY <4>3, <4>4 DEF Found
    <3>4. CASE ~SyncCommand(q) /\ ~(pc[q] = "ask" /\ pc'[q] = "refresh")
      BY <1>1, <3>1, <3>4 DEF OwnSync
    <3> QED
      BY <3>2, <3>3, <3>4
  <2>2. CASE cmd[q].op # "sync"
    BY <1>4, <2>2, OthersStay
  <2> QED
    BY <2>1, <2>2
<1> QED
  BY <1>2, <1>3, <1>4

-----------------------------------------------------------------------------
(* What another's step does to the store under a sync in its own process: the *)
(* sync is excused, or a daemon that goes on swaps its run in, or the store is*)
(* its own, still, and no older.                                              *)
Excused(q) == since'[q] = 0
SwappedIn(q, b) ==
  /\ dm[b] # "stopping"
  /\ \E r \in runs[b] : ~r.gone /\ r.dir = cmd[q].dir /\ r.phase # "spawned" /\ store'[r.dir] = r.to
StoreStays(q) ==
  LET d == cmd[q].dir IN
  /\ holder[d] = q => holder'[d] = q
  /\ store'[d] = store[d] \/ store[d] = None \/ store'[d] = head[d]

LEMMA AdoptHolder ==
  ASSUME TypeInv, NEW b, NEW c, Adopt(b, c), NEW d \in Dirs, NEW q, holder[d] = q, q # None
  PROVE  holder'[d] = q
BY DEF Adopt, TypeInv, MTypeOK

LEMMA CommandUnder ==
  ASSUME SInv, NEW p \in Procs, CommandStep(p), NEW q \in Procs \ {p}, pc[q] = "syncing"
  PROVE  Excused(q) \/ StoreStays(q)
<1>. USE DEF SInv
<1>0. /\ cmd[q].dir \in Dirs /\ q # None /\ q \notin Daemons /\ q \in Procs
      /\ pc[p] # "new" => cmd[p].dir \in Dirs
  BY KnownDir, MachineConstants, RegistryConstants DEF TypeInv
<1>1. CASE OpenStore(p)
  BY <1>0, <1>1 DEF OpenStore, StoreStays, TypeInv, MTypeOK
<1>2. CASE CloseLoaded(p)
  BY <1>0, <1>2 DEF CloseLoaded, StoreStays, TypeInv, MTypeOK
<1>3. CASE SyncInPlace(p)
  BY <1>0, <1>3 DEF SyncInPlace, StoreStays, TypeInv, MTypeOK
<1>4. CASE Refresh(p)
  BY <1>0, <1>4, AdoptHolder DEF Refresh, StoreStays
<1>5. CASE NukeDelete(p)
  BY <1>0, <1>5 DEF NukeDelete, StoreStays, Excused, Excuse, InPlaceAt, TypeInv, MTypeOK
<1>6. CASE Terminate(p)
  BY <1>0, <1>6 DEF Terminate, StoreStays
<1>7. CASE KillLeft(p)
  BY <1>0, <1>7 DEF KillLeft, Ends, StoreStays
<1>8. CASE UNCHANGED <<store, holder>>
  BY <1>8 DEF StoreStays
<1>9. ~OpenStore(p) /\ ~CloseLoaded(p) /\ ~SyncInPlace(p) /\ ~Refresh(p) /\ ~NukeDelete(p)
        /\ ~Terminate(p) /\ ~KillLeft(p) => UNCHANGED <<store, holder>>
  BY DEF CommandStep, repos, Begin, RegistryStep, Touched, RegistryDone, InitLex, InitCommit, NotSetUp,
         KitChanged, Save, Health, StartDaemon, PollTimesOut, SyncCommand, Ask, FindAgain,
         ClientGivesUp, NukeForget, Forgotten, NukeSnapshot, NukeCommit, AllExited
<1> QED
  BY <1>1, <1>2, <1>3, <1>4, <1>5, <1>6, <1>7, <1>8, <1>9

LEMMA SoulUnder ==
  ASSUME SInv, NEW b \in Daemons, SoulStep(b), NEW q \in Procs, pc[q] = "syncing"
  PROVE  Excused(q) \/ StoreStays(q) \/ SwappedIn(q, b)
<1>. USE DEF SInv
<1>0. cmd[q].dir \in Dirs /\ q # None /\ q \notin Daemons
  BY KnownDir, MachineConstants, RegistryConstants DEF TypeInv
<1>1. CASE \E r \in runs[b] : EndSync(b, r)
  <2>1. PICK r \in runs[b] : EndSync(b, r)
    BY <1>1
  <2>2. r \in Run
    BY DEF TypeInv, MTypeOK
  <2>3. CASE ~(Succeeds(b, r) /\ ~r.gone)
    BY <2>1, <2>3 DEF EndSync, StoreStays
  <2>4. CASE Succeeds(b, r) /\ ~r.gone
    <3>1. /\ store' = [store EXCEPT ![r.dir] = r.to] /\ holder' = [holder EXCEPT ![r.dir] = b]
          /\ Excuse(IF dm[b] = "stopping" THEN InPlaceAt(r.dir) ELSE {})
      BY <2>1, <2>4 DEF EndSync
    <3>2. CASE r.dir # cmd[q].dir
      BY <1>0, <3>1, <3>2 DEF StoreStays, TypeInv, MTypeOK
    <3>3. CASE r.dir = cmd[q].dir /\ dm[b] = "stopping"
      BY <3>1, <3>3 DEF Excused, Excuse, InPlaceAt
    <3>4. CASE r.dir = cmd[q].dir /\ dm[b] # "stopping"
      <4>1. store'[r.dir] = r.to
        BY <1>0, <3>1, <3>4 DEF TypeInv, MTypeOK
      <4> QED
        BY <2>4, <3>4, <4>1 DEF SwappedIn, Succeeds
    <3> QED
      BY <3>2, <3>3, <3>4
  <2> QED
    BY <2>3, <2>4
<1>2. CASE \E s \in Dirs : CloseForgotten(b, s)
  BY <1>0, <1>2 DEF CloseForgotten, StoreStays, TypeInv, MTypeOK
<1>3. CASE UNCHANGED <<store, holder>>
  BY <1>3 DEF StoreStays
<1>4. \/ \E r \in runs[b] : EndSync(b, r)
      \/ \E s \in Dirs : CloseForgotten(b, s)
      \/ UNCHANGED <<store, holder>>
  BY DEF SoulStep, WatchHead, BeginSync, WatchForget, WorkerEnters, WorkerCreates, repos
<1> QED
  BY <1>1, <1>2, <1>3, <1>4

LEMMA DaemonUnder ==
  ASSUME SInv, NEW b \in Daemons, DaemonStep(b), NEW q \in Procs, pc[q] = "syncing"
  PROVE  StoreStays(q)
<1>. USE DEF SInv
<1>0. cmd[q].dir \in Dirs /\ q # None /\ q \notin Daemons
  BY KnownDir, MachineConstants, RegistryConstants DEF TypeInv
<1>1. CASE Bind(b) \/ Serve(b)
  BY <1>1 DEF Bind, Serve, repos, StoreStays
<1>2. CASE OpenNext(b)
  BY <1>0, <1>2, AdoptHolder DEF OpenNext, StoreStays
<1>3. CASE Exit(b)
  BY <1>0, <1>3 DEF Exit, Ends, StoreStays
<1> QED
  BY <1>1, <1>2, <1>3 DEF DaemonStep

LEMMA StepTakenNewer == ASSUME SInv, MNext PROVE TakenNewer'
<1> SUFFICES ASSUME NEW q \in Procs, pc'[q] = "syncing", holder'[cmd'[q].dir] # q, since'[q] # 0
             PROVE  store'[cmd'[q].dir] # None /\ store'[cmd'[q].dir] >= since'[q]
  BY DEF TakenNewer
<1>. USE DEF SInv
<1>1. ASSUME pc[q] = "syncing", cmd'[q] = cmd[q], since'[q] \in {since[q], 0},
             StoreStays(q) \/ \E b \in Daemons : SwappedIn(q, b)
      PROVE  store'[cmd'[q].dir] # None /\ store'[cmd'[q].dir] >= since'[q]
  <2> DEFINE d == cmd[q].dir
  <2>1. /\ d \in Dirs /\ cmd[q].op = "sync" /\ since'[q] = since[q] /\ since[q] \in Nat
        /\ store[d] \in Nat \cup {None} /\ head[d] \in Nat /\ None \notin Nat
    BY <1>1, KnownDir, MachineConstants DEF TypeInv, MTypeOK, SyncInv, SyncsStand
  <2>2. since[q] <= head[d]
    BY <1>1, <2>1 DEF SyncInv, SinceSeen, Asking
  <2>3. CASE StoreStays(q)
    <3>1. holder[d] # q
      BY <1>1, <2>3 DEF StoreStays
    <3>2. store[d] # None /\ store[d] >= since[q]
      BY <1>1, <2>1, <3>1 DEF SyncInv, TakenNewer
    <3>3. store'[d] = store[d] \/ store'[d] = head[d]
      BY <2>3, <3>2 DEF StoreStays
    <3> QED
      BY <1>1, <2>1, <2>2, <3>2, <3>3
  <2>4. CASE \E b \in Daemons : SwappedIn(q, b)
    <3>1. PICK b \in Daemons : SwappedIn(q, b)
      BY <2>4
    <3>2. PICK r \in runs[b] : ~r.gone /\ r.dir = d /\ r.phase # "spawned" /\ store'[r.dir] = r.to
      BY <3>1 DEF SwappedIn
    <3>3. dm[b] = "serving"
      BY <3>1, <3>2 DEF SwappedIn, SyncInv, Quiet
    <3>4. r.to \in Nat
      BY <3>2 DEF TypeInv, MTypeOK, Run
    <3>5. since[q] <= r.to
      BY <1>1, <2>1, <3>2, <3>3 DEF SyncInv, NoneOlder
    <3> QED
      BY <1>1, <2>1, <3>2, <3>4, <3>5
  <2> QED
    BY <1>1, <2>3, <2>4
<1>2. CASE ~CommandStep(q)
  <2>1. Elsewhere(q)
    BY <1>2, OthersElsewhere
  <2>2. pc[q] = "syncing" /\ cmd'[q] = cmd[q] /\ since'[q] \in {since[q], 0}
    BY <2>1 DEF Elsewhere
  <2>3. StoreStays(q) \/ \E b \in Daemons : SwappedIn(q, b)
    BY <1>2, <2>2, CommandUnder, SoulUnder, DaemonUnder DEF MNext, Excused
  <2> QED
    BY <1>1, <2>2, <2>3
<1>3. CASE CommandStep(q) /\ pc[q] = "new"
  BY <1>3, NewBegins DEF client
<1>4. CASE CommandStep(q) /\ pc[q] # "new" /\ cmd[q].op # "sync"
  BY <1>4, OthersStay
<1>5. CASE CommandStep(q) /\ pc[q] # "new" /\ cmd[q].op = "sync"
  <2>1. OwnSync(q) /\ UNCHANGED cmd
    BY <1>5, OwnMoves
  <2>2. CASE pc[q] = "in place"
    <3>1. OpenStore(q) \/ UNCHANGED client
      BY <1>5, <2>2 DEF CommandStep, Begin, RegistryStep, CloseLoaded, NukeDelete, Touched,
         RegistryDone, InitLex, InitCommit, NotSetUp, KitChanged, Save, Health, Ask, Refresh,
         FindAgain, NukeForget, StartDaemon, Terminate, KillLeft, PollTimesOut, SyncCommand,
         SyncInPlace, ClientGivesUp, Forgotten, NukeSnapshot, NukeCommit, AllExited
    <3>2. holder' = [holder EXCEPT ![cmd[q].dir] = q]
      BY <2>2, <3>1 DEF OpenStore, Goto, client, TypeInv, CmdKnown
    <3>3. cmd[q].dir \in Dirs
      BY <1>5, KnownDir DEF TypeInv
    <3> QED
      BY <2>1, <3>2, <3>3 DEF TypeInv, MTypeOK
  <2>3. CASE pc[q] = "syncing"
    <3>1. RegistryStep(q)
      BY <1>5, <2>3 DEF CommandStep, Begin, CloseLoaded, NukeDelete, Touched,
         RegistryDone, InitLex, InitCommit, NotSetUp, KitChanged, OpenStore, Save, Health, Ask, Refresh,
         FindAgain, NukeForget, StartDaemon, Terminate, KillLeft, PollTimesOut, SyncCommand,
         SyncInPlace, ClientGivesUp, Forgotten, NukeSnapshot, NukeCommit, AllExited, Goto, TypeInv,
         CmdKnown
    <3> QED
      BY <1>1, <2>3, <3>1 DEF RegistryStep, StoreStays, client, repos
  <2>4. CASE pc[q] \notin {"in place", "syncing"}
    BY <2>1, <2>4 DEF OwnSync, SyncCommand, Goto, TypeInv, CmdKnown
  <2> QED
    BY <2>2, <2>3, <2>4
<1> QED
  BY <1>2, <1>3, <1>4, <1>5

-----------------------------------------------------------------------------
LEMMA InitSyncs == MInit => SInv
<1> SUFFICES ASSUME MInit PROVE SyncInv
  BY InitTypes DEF SInv
<1>1. \A p \in Procs : pc[p] = "new" /\ via[p] = None
  BY DEF MInit
<1>2. \A b \in Daemons : held[b] = {} /\ want[b] = {} /\ runs[b] = {} /\ dm[b] \in {"off", "binding"}
  BY DEF MInit
<1> QED
  BY <1>1, <1>2 DEF SyncInv, SyncsStand, Quiet, OnePort, Reached, RunsHeld, SinceSeen, Asking,
     AskedBefore, NoneOlder, TakenNewer

LEMMA StepSyncs == SInv /\ [MNext]_mvars => SInv'
<1> SUFFICES ASSUME SInv, [MNext]_mvars PROVE SInv'
  OBVIOUS
<1>1. TypeInv'
  BY StepTypes DEF SInv
<1>2. CASE UNCHANGED mvars
  <2>1. UNCHANGED <<repos, daemon, client>>
    BY <1>2 DEF mvars
  <2>2. SyncsStand' /\ Quiet' /\ OnePort' /\ Reached'
    BY <2>1 DEF repos, daemon, client, SInv, SyncInv, SyncsStand, Quiet, OnePort, Reached
  <2>3. RunsHeld' /\ SinceSeen'
    BY <2>1 DEF repos, daemon, client, SInv, SyncInv, RunsHeld, SinceSeen, Asking
  <2>4. AskedBefore'
    BY <2>1 DEF repos, daemon, client, SInv, SyncInv, AskedBefore
  <2>5. NoneOlder' /\ TakenNewer'
    BY <2>1 DEF repos, daemon, client, SInv, SyncInv, NoneOlder, TakenNewer
  <2> QED
    BY <1>1, <2>2, <2>3, <2>4, <2>5 DEF SInv, SyncInv
<1>3. CASE MNext
  <2>1. Quiet' /\ OnePort' /\ Reached'
    BY <1>3, CommandQuiet, SoulQuiet, DaemonQuiet DEF MNext
  <2> QED
    BY <1>1, <1>3, <2>1, StepSyncsStand, StepRunsHeld, StepSinceSeen, StepAskedBefore, StepNoneOlder,
       StepTakenNewer DEF SInv, SyncInv
<1> QED
  BY <1>2, <1>3

(* How a sync comes to a good end.                                            *)
LEMMA EndsBy ==
  ASSUME SInv, MNext, NEW q \in Procs, SyncEndsWell(q)
  PROVE  \/ SyncInPlace(q) /\ pc[q] = "syncing"
         \/ \E b \in Daemons : \E r \in runs[b] :
              EndSync(b, r) /\ q \in r.asked /\ pc[q] = "waiting" /\ Succeeds(b, r) /\ ~r.gone
         \/ \E b \in Daemons : \E s \in Dirs :
              BeginSync(b, s) /\ GenesisOf[s] = GenesisOf[cmd[q].dir] /\ s \notin lex
<1>. USE DEF SInv
<1>1. CASE CommandStep(q) /\ pc[q] = "new"
  BY <1>1, NewBegins DEF client, SyncEndsWell
<1>2. CASE CommandStep(q) /\ pc[q] # "new"
  <2>1. OwnSync(q)
    BY <1>2, OwnMoves DEF SyncEndsWell
  <2>2. pc[q] = "syncing"
    BY <2>1 DEF OwnSync, SyncEndsWell, SyncCommand, Goto, TypeInv, CmdKnown
  <2>3. SyncInPlace(q)
    BY <1>2, <2>2, ZenonT(40) DEF CommandStep, Begin, RegistryStep, CloseLoaded, NukeDelete, Touched,
         RegistryDone, InitLex, InitCommit, NotSetUp, KitChanged, OpenStore, Save, Health, Ask, Refresh,
         FindAgain, NukeForget, StartDaemon, Terminate, KillLeft, PollTimesOut, SyncCommand,
         ClientGivesUp, Forgotten, NukeSnapshot, NukeCommit, AllExited, client, SyncEndsWell
  <2> QED
    BY <2>2, <2>3
<1>3. CASE \E p \in Procs \ {q} : CommandStep(p)
  <2>1. PICK p \in Procs \ {q} : CommandStep(p)
    BY <1>3
  <2> QED
    BY <2>1, ZenonT(60) DEF SyncEndsWell, CommandStep, Begin, RegistryStep, CloseLoaded, NukeDelete, Touched,
         RegistryDone, InitLex, InitCommit, NotSetUp, KitChanged, OpenStore, Save, Health, Ask, Refresh,
         FindAgain, Handle, NukeForget, Lost, StartDaemon, Terminate, KillLeft, PollTimesOut, SyncCommand,
         SyncInPlace, ClientGivesUp, Forgotten, NukeSnapshot, NukeCommit, AllExited, client, Goto,
         TypeInv, CmdKnown
<1>4. CASE \E b \in Daemons : SoulStep(b)
  <2>1. PICK b \in Daemons : SoulStep(b)
    BY <1>4
  <2>2. CASE \E s \in Dirs : BeginSync(b, s)
    <3>1. PICK s \in Dirs : BeginSync(b, s)
      BY <2>2
    <3>2. /\ s \notin lex
          /\ pc' = [p \in Procs |-> IF p \in Waiters(b, s) THEN AfterNoSync(p) ELSE pc[p]]
      BY <3>1 DEF BeginSync, SyncEndsWell
    <3>3. q \in Waiters(b, s)
      BY <3>2 DEF SyncEndsWell
    <3>4. GenesisOf[s] = GenesisOf[cmd[q].dir]
      BY <3>3 DEF Waiters, Found
    <3> QED
      BY <3>1, <3>2, <3>4
  <2>3. CASE \E r \in runs[b] : EndSync(b, r)
    <3>1. PICK r \in runs[b] : EndSync(b, r)
      BY <2>3
    <3> DEFINE sw == Succeeds(b, r) /\ ~r.gone
    <3>2. pc' = [p \in Procs |-> IF p \in Answered(b, r)
                                THEN IF sw THEN "done" ELSE "failed" ELSE pc[p]]
      BY <3>1 DEF EndSync
    <3> HIDE DEF sw
    <3>3. q \in Answered(b, r) /\ sw
      BY <3>2 DEF SyncEndsWell
    <3> QED
      BY <3>1, <3>3 DEF Answered, sw
  <2>4. CASE \E s \in Dirs : WatchForget(b, s)
    BY <2>4 DEF WatchForget, Lost, SyncEndsWell, TypeInv, CmdKnown
  <2>5. CASE UNCHANGED client
    BY <2>5 DEF client, SyncEndsWell
  <2> QED
    BY <2>1, <2>2, <2>3, <2>4, <2>5 DEF SoulStep, WatchHead, CloseForgotten, WorkerEnters, WorkerCreates
<1>5. CASE \E b \in Daemons : DaemonStep(b)
  BY <1>5, DaemonMoves DEF client, SyncEndsWell
<1> QED
  BY <1>1, <1>2, <1>3, <1>4, <1>5 DEF MNext

SyncedNow ==
  \A p \in Procs : SyncEndsWell(p) /\ cmd[p].dir \in lex /\ ~Cloned(cmd[p].dir) =>
    \/ since[p] = 0
    \/ store'[cmd[p].dir] # None /\ store'[cmd[p].dir] >= since[p]

LEMMA EndsSynced == ASSUME SInv, MNext PROVE SyncedNow
<1> SUFFICES ASSUME NEW q \in Procs, SyncEndsWell(q), cmd[q].dir \in lex, ~Cloned(cmd[q].dir), since[q] # 0
             PROVE  store'[cmd[q].dir] # None /\ store'[cmd[q].dir] >= since[q]
  BY DEF SyncedNow
<1>. USE DEF SInv
<1> DEFINE d == cmd[q].dir
<1>0. /\ d \in Dirs /\ since[q] \in Nat /\ head[d] \in Nat /\ None \notin Nat
      /\ \A e \in Dirs : GenesisOf[e] = GenesisOf[d] => e = d
      /\ store \in [Dirs -> Nat \cup {None}]
  BY MachineConstants DEF TypeInv, MTypeOK, Cloned
<1>1. CASE SyncInPlace(q) /\ pc[q] = "syncing"
  <2>1. CASE holder[d] = q
    <3>1. store'[d] = head[d]
      BY <1>0, <1>1, <2>1 DEF SyncInPlace
    <3>2. since[q] <= head[d]
      BY <1>1 DEF SyncInv, SinceSeen, Asking, SyncEndsWell
    <3> QED
      BY <1>0, <3>1, <3>2
  <2>2. CASE holder[d] # q
    BY <1>1, <2>2 DEF SyncInPlace, SyncInv, TakenNewer
  <2> QED
    BY <2>1, <2>2
<1>2. CASE \E b \in Daemons : \E r \in runs[b] :
             EndSync(b, r) /\ q \in r.asked /\ pc[q] = "waiting" /\ Succeeds(b, r) /\ ~r.gone
  <2>1. PICK b \in Daemons : \E r \in runs[b] :
               EndSync(b, r) /\ q \in r.asked /\ pc[q] = "waiting" /\ Succeeds(b, r) /\ ~r.gone
    BY <1>2
  <2>2. PICK r \in runs[b] :
               EndSync(b, r) /\ q \in r.asked /\ pc[q] = "waiting" /\ Succeeds(b, r) /\ ~r.gone
    BY <2>1
  <2>3. r.dir \in Dirs /\ r.to \in Nat
    BY <2>2 DEF TypeInv, MTypeOK, Run
  <2>4. r.dir = d
    BY <1>0, <2>2, <2>3 DEF SyncInv, AskedBefore
  <2>5. since[q] <= r.to
    BY <2>2, <2>4 DEF SyncInv, AskedBefore, Succeeds, SyncEndsWell
  <2>6. store' = [store EXCEPT ![r.dir] = r.to]
    BY <2>2 DEF EndSync
  <2> QED
    BY <1>0, <2>3, <2>4, <2>5, <2>6
<1>3. CASE \E b \in Daemons : \E s \in Dirs :
             BeginSync(b, s) /\ GenesisOf[s] = GenesisOf[cmd[q].dir] /\ s \notin lex
  BY <1>0, <1>3
<1> QED
  BY <1>1, <1>2, <1>3, EndsBy

(* A `git lex sync` that ends well has brought its repository's store at      *)
(* least to where HEAD was when it was asked for (main.rs:336-364), unless it *)
(* is excused: a nuke, or a daemon told to stop, took the store from under it *)
(* while it ran in its own process. Of clones a daemon holds only one.        *)
THEOREM SyncsComeHome == MSpec => SyncedHere
<1>1. SInv /\ [MNext]_mvars => [SyncedNow]_mvars
  BY EndsSynced
<1> QED
  BY <1>1, InitSyncs, StepSyncs, PTL DEF MSpec, SyncedHere, SyncedNow
=============================================================================
