------------------------------ MODULE Registry ------------------------------
(* The machine's registry of repositories, ~/.lex/repos.json (lib.rs:740-       *)
(* 1010). Every git-lex command rewrites the whole file: it locks               *)
(* repos.json.lock, reads, edits, writes a file of its own, renames it into     *)
(* place. Readers take no lock. A process may be killed between any two steps;  *)
(* the operating system then releases its lock.                                 *)
EXTENDS Naturals

CONSTANTS
  Procs,      \* processes that write the registry
  Dirs,       \* repositories on this machine
  Names,      \* paths they are, or were, known under
  DirOf,      \* name -> the repository it leads to, also through a symlink
  GenesisOf,  \* repository -> its first commit; clones share it
  None,       \* no first commit, no lock holder, no row
  Legacy,     \* the lines of the file that came before, ~/.lex/repos
  FirstNames  \* repository -> the path it has at first

ASSUME RegistryConstants ==
  /\ DirOf \in [Names -> Dirs]
  /\ FirstNames \in [Dirs -> Names]
  /\ \A d \in Dirs : DirOf[FirstNames[d]] = d
  /\ Legacy \subseteq Names
  /\ None \notin Procs

VARIABLES
  rows,    \* repos.json: name -> its row, or None
  legacy,  \* the old file's lines; {} once it is deleted
  lock,    \* the process holding repos.json.lock, or None
  home,    \* repository -> its path with every symlink resolved
  at,      \* where each process stands in registry_update
  op,      \* what it came to do: put or remove a repository
  draft,   \* the rows it is about to write
  listed   \* history: repositories registered and not removed since

rvars == <<rows, legacy, lock, home, at, op, draft, listed>>

Geneses == {GenesisOf[d] : d \in Dirs}
Row == [timed : BOOLEAN, genesis : Geneses \cup {None}]
MaybeRow == Row \cup {None}
Ops == [kind : {"put", "remove"}, dir : Dirs]

ASSUME NoneIsApart == None \notin Row /\ None \notin Ops /\ None \notin Geneses

NamesOf(d) == {n \in Names : DirOf[n] = d}

\* registry_key: canonicalize
Key(n) == home[DirOf[n]]

NewRow == [timed |-> FALSE, genesis |-> None]

(* The lines of the old file join with no time, unless a row has that path.   *)
WithLegacy(rs) ==
  [n \in Names |-> IF n \in legacy /\ rs[n] = None THEN NewRow ELSE rs[n]]

(* registry_put's edit: a first commit that is not known yet leaves what was  *)
(* recorded.                                                                  *)
PutRow(rs, d, known) ==
  LET old == rs[home[d]]
      gen == IF known THEN GenesisOf[d] ELSE IF old = None THEN None ELSE old.genesis
  IN [rs EXCEPT ![home[d]] = [timed |-> TRUE, genesis |-> gen]]

\* registry_remove's edit
DropRow(rs, d) == [rs EXCEPT ![home[d]] = None]

Edited(rs, o, known) ==
  IF o.kind = "put" THEN PutRow(rs, o.dir, known) ELSE DropRow(rs, o.dir)

(* fold_same_directory: rows whose paths resolve alike become one, at the     *)
(* resolved path, with the latest time and whichever first commit was there.  *)
SameDir(rs, k) == {n \in Names : rs[n] # None /\ Key(n) = k}

Merged(rs, group) ==
  [timed |-> \E n \in group : rs[n].timed,
   genesis |-> IF \E n \in group : rs[n].genesis # None
               THEN rs[CHOOSE n \in group : rs[n].genesis # None].genesis
               ELSE None]

FoldSameDirectory(rs) ==
  [k \in Names |-> IF SameDir(rs, k) = {} THEN None ELSE Merged(rs, SameDir(rs, k))]

RInit ==
  /\ rows = [n \in Names |-> None]
  /\ legacy = Legacy
  /\ lock = None
  /\ home = FirstNames
  /\ at = [p \in Procs |-> "out"]
  /\ op = [p \in Procs |-> None]
  /\ draft = [p \in Procs |-> rows]
  /\ listed = {DirOf[n] : n \in Legacy}

(* A process comes to register or to drop a repository. *)
Come(p, o) ==
  /\ at[p] = "out"
  /\ at' = [at EXCEPT ![p] = "locking"]
  /\ op' = [op EXCEPT ![p] = o]
  /\ UNCHANGED <<rows, legacy, lock, home, draft, listed>>

\* The exclusive lock on repos.json.lock; without it two writers lose a row.
LockIgnored == TRUE
LockFree == lock = None

(* Lock, read, edit, fold. One step: what is read cannot change under the     *)
(* lock. `known` is whether git or repo.yml gave a first commit.              *)
LockAndEdit(p, known) ==
  /\ at[p] = "locking"
  /\ LockFree
  /\ lock' = p
  /\ draft' = [draft EXCEPT ![p] = FoldSameDirectory(Edited(WithLegacy(rows), op[p], known))]
  /\ at' = [at EXCEPT ![p] = "writing"]
  /\ UNCHANGED <<rows, legacy, home, op, listed>>

(* The rename: what readers see from here on. *)
Publish(p) ==
  /\ at[p] = "writing"
  /\ rows' = draft[p]
  /\ listed' = IF op[p].kind = "put" THEN listed \cup {op[p].dir} ELSE listed \ {op[p].dir}
  /\ at' = [at EXCEPT ![p] = "cleaning"]
  /\ UNCHANGED <<legacy, lock, home, op, draft>>

\* As a mutant would: the lock file stays locked.
KeepLocked(p) ==
  /\ at[p] = "cleaning"
  /\ legacy' = {}
  /\ at' = [at EXCEPT ![p] = "out"]
  /\ UNCHANGED <<rows, lock, home, op, draft, listed>>

(* The old file goes once its lines are in the new one; the lock file closes. *)
Unlock(p) ==
  /\ at[p] = "cleaning"
  /\ legacy' = {}
  /\ lock' = None
  /\ at' = [at EXCEPT ![p] = "out"]
  /\ UNCHANGED <<rows, home, op, draft, listed>>

(* A write fails, or the process is killed. *)
GiveUp(p) ==
  /\ at[p] # "out"
  /\ lock' = IF lock = p THEN None ELSE lock
  /\ at' = [at EXCEPT ![p] = "out"]
  /\ UNCHANGED <<rows, legacy, home, op, draft, listed>>

(* The repository moves; a symlink stays at its old path. *)
MoveRepo(d, n) ==
  /\ DirOf[n] = d
  /\ home' = [home EXCEPT ![d] = n]
  /\ UNCHANGED <<rows, legacy, lock, at, op, draft, listed>>

UpdateStep(p) ==
  \/ \E known \in BOOLEAN : LockAndEdit(p, known)
  \/ Publish(p)
  \/ Unlock(p)
  \/ GiveUp(p)

RNext ==
  \/ \E p \in Procs : UpdateStep(p) \/ \E o \in Ops : Come(p, o)
  \/ \E d \in Dirs, n \in Names : MoveRepo(d, n)

RSpec == RInit /\ [][RNext]_rvars

-----------------------------------------------------------------------------
HasRow(rs, d) == \E n \in NamesOf(d) : rs[n] # None

RTypeOK ==
  /\ rows \in [Names -> MaybeRow]
  /\ legacy \subseteq Names
  /\ lock \in Procs \cup {None}
  /\ home \in [Dirs -> Names]
  /\ at \in [Procs -> {"out", "locking", "writing", "cleaning"}]
  /\ op \in [Procs -> Ops \cup {None}]
  /\ draft \in [Procs -> [Names -> MaybeRow]]
  /\ listed \subseteq Dirs

(* A repository that was registered, and not removed since, is in the         *)
(* registry: no writer drops another's row (lib.rs:838-845), none is lost     *)
(* with the old file, and none when its directory moves.                      *)
RowsKept ==
  \A d \in listed : HasRow(rows, d) \/ \E n \in legacy : DirOf[n] = d
=============================================================================
