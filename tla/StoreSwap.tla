------------------------------ MODULE StoreSwap ------------------------------
(***************************************************************************)
(* One soul's store on disk: the directories `oxigraph` (live),            *)
(* `oxigraph.next` and `oxigraph.prev` that gitlexd/daemon.rs copies,      *)
(* renames and removes while it syncs, and what it makes of them when it   *)
(* starts after having been killed at any point.                           *)
(*                                                                         *)
(* The worker process that writes `next` outlives a killed daemon          *)
(* (`gitlexd stop` kills daemons only).  A RocksDB directory that is being *)
(* written, copied or removed is a part of a store: not `whole`.           *)
(*                                                                         *)
(* Two ways out of the daemon's hands are switched by constants: renames   *)
(* that fail, and `git lex sync` writing the live store in place while no  *)
(* daemon runs.                                                            *)
(***************************************************************************)
EXTENDS Naturals

CONSTANTS
    Commits,        \* the commits HEAD may be at
    None,           \* no commit
    MaxCrashes,     \* bound: how often the daemon is killed
    MaxMoves,       \* bound: how often HEAD moves
    MaxSyncErrors,  \* bound: how often a copy or a worker fails
    MaxOpenErrors,  \* bound: how often Store::open fails
    MaxRenameErrors,\* bound: how often a rename fails
    InPlaceSyncs    \* bound: how many syncs run in place of a daemon's

ASSUME NoneAssumption == None \notin Commits
ASSUME StoreSwapBounds ==
    /\ MaxCrashes \in Nat
    /\ MaxMoves \in Nat
    /\ MaxSyncErrors \in Nat
    /\ MaxOpenErrors \in Nat
    /\ MaxRenameErrors \in Nat
    /\ InPlaceSyncs \in Nat

VARIABLES
    head,     \* the commit HEAD is at
    dir,      \* the three directories
    handle,   \* the store the daemon holds open, or NoDir
    step,     \* where the daemon stands
    starting, \* whether it is opening the soul, not syncing it
    built,    \* the HEAD the last worker resolved
    orphan,   \* a dead daemon's worker still writes the directory at `next`
    inPlace,  \* where a `git lex sync` without a daemon has its store, if one runs
    used      \* how often each bounded thing has happened

vars == <<head, dir, handle, step, starting, built, orphan, inPlace, used>>

-----------------------------------------------------------------------------
Names == {"live", "next", "prev"}
NoDir == [at |-> None, whole |-> FALSE]
Store(c) == [at |-> c, whole |-> TRUE]
Part(d) == [at |-> d.at, whole |-> FALSE]
Dirs == {NoDir} \cup [at : Commits, whole : BOOLEAN]
Half(c) == Part(Store(c))

Exists(n) == dir[n] # NoDir

Limits == [crash |-> MaxCrashes, move |-> MaxMoves, sync |-> MaxSyncErrors,
           open |-> MaxOpenErrors, rename |-> MaxRenameErrors,
           inplace |-> InPlaceSyncs]
Use(k) == used[k] < Limits[k] /\ used' = [used EXCEPT ![k] = @ + 1]

Steps == {"down", "recover", "sweep", "open", "idle", "copying", "work",
          "working", "close", "aside", "movein", "clean"}

Init ==
    /\ head \in Commits
    /\ dir \in {[n \in Names |-> NoDir]} \cup
               {[[n \in Names |-> NoDir] EXCEPT !["live"] = Store(c)] : c \in Commits}
    /\ handle = NoDir
    /\ step = "down"
    /\ starting = FALSE
    /\ built = None
    /\ orphan = FALSE
    /\ inPlace = "no"
    /\ used = [k \in DOMAIN Limits |-> 0]

MoveHead ==
    /\ Use("move")
    /\ head' \in Commits \ {head}
    /\ UNCHANGED <<dir, handle, step, starting, built, orphan, inPlace>>

-----------------------------------------------------------------------------
(* remove_dir_all.  The directories a step is about to remove may be half  *)
(* removed when the daemon is killed.                                      *)

RemovedAt(n) ==
    \/ step = "idle" /\ n = "next"
    \/ step = "close" /\ n = "prev"
    \/ step = "sweep" /\ Exists("live") /\ (n = "prev" => ~Exists("next"))
    \/ step = "clean" /\ (n = "prev" => ~Exists("next"))

RemovalUnderway ==
    /\ \E n \in {"next", "prev"} :
        /\ RemovedAt(n)
        /\ dir[n].whole
        /\ dir' = [dir EXCEPT ![n] = Part(@)]
        /\ orphan' = (orphan /\ n = "prev")
    /\ UNCHANGED <<head, handle, step, starting, built, inPlace, used>>

-----------------------------------------------------------------------------
(* A sync: copy_store, the worker, swap_in, the cleanup.                   *)

\* `next` is removed (an orphan loses its directory) and the backup begins.
CopyBegins ==
    /\ step = "idle"
    /\ dir' = [dir EXCEPT !["next"] = IF handle = NoDir THEN NoDir ELSE Part(handle)]
    /\ orphan' = FALSE
    /\ step' = "copying"
    /\ UNCHANGED <<head, handle, starting, built, inPlace, used>>

CopyOf(h) == h

CopyEnds ==
    /\ step = "copying"
    /\ dir' = [dir EXCEPT !["next"] = CopyOf(handle)]
    /\ step' = "work"
    /\ UNCHANGED <<head, handle, starting, built, orphan, inPlace, used>>

\* The worker opens the copy, or creates it, and resolves HEAD.
WorkerBegins ==
    /\ step = "work"
    /\ built' = head
    /\ dir' = [dir EXCEPT !["next"] = Half(head)]
    /\ step' = "working"
    /\ UNCHANGED <<head, handle, starting, orphan, inPlace, used>>

WorkerSucceeds ==
    /\ step = "working"
    /\ dir' = [dir EXCEPT !["next"] = Store(built)]
    /\ step' = "close"
    /\ UNCHANGED <<head, handle, starting, built, orphan, inPlace, used>>

\* Fault: the worker's exit status is not looked at.
SwapAnyway == "close"

AfterFailure == "clean"

\* A sync that cannot copy or whose worker fails leaves its copy to cleanup.
SyncFails ==
    /\ step \in {"copying", "work", "working"}
    /\ Use("sync")
    /\ step' = AfterFailure
    /\ UNCHANGED <<head, dir, handle, starting, built, orphan, inPlace>>

\* Fault: the store is renamed while it is open.
LeaveOpen == UNCHANGED handle

CloseHandle == handle' = NoDir

\* Under the write lock: close, and remove what an older swap left.
CloseStore ==
    /\ step = "close"
    /\ CloseHandle
    /\ dir' = [dir EXCEPT !["prev"] = NoDir]
    /\ step' = "aside"
    /\ UNCHANGED <<head, starting, built, orphan, inPlace, used>>

\* A failed rename ends the swap; the reopening sorts it out.
RenameFails ==
    /\ step \in {"aside", "movein"}
    /\ step = "aside" => Exists("live")
    /\ Use("rename")
    /\ step' = "recover"
    /\ UNCHANGED <<head, dir, handle, starting, built, orphan, inPlace>>

RenameLive ==
    /\ dir' = [dir EXCEPT !["prev"] = dir["live"], !["live"] = NoDir]
    /\ inPlace' = IF inPlace = "live" THEN "moved" ELSE inPlace

\* Fault: a first sync fails for want of a store to move aside.
MoveAsideStrict ==
    /\ step = "aside"
    /\ IF Exists("live") THEN RenameLive /\ step' = "movein"
                         ELSE UNCHANGED <<dir, inPlace>> /\ step' = "recover"
    /\ UNCHANGED <<head, handle, starting, built, orphan, used>>

\* A soul that was never synced has nothing to move.
MoveAside ==
    /\ step = "aside"
    /\ RenameLive
    /\ step' = "movein"
    /\ UNCHANGED <<head, handle, starting, built, orphan, used>>

MoveIn ==
    /\ step = "movein"
    /\ dir' = [dir EXCEPT !["live"] = dir["next"], !["next"] = NoDir]
    /\ step' = "recover"
    /\ UNCHANGED <<head, handle, starting, built, orphan, inPlace, used>>

\* After the swap or a failure, whatever is left of `next` and `prev` goes.
Cleanup ==
    /\ step = "clean"
    /\ \/ /\ Exists("next")
          /\ dir' = [dir EXCEPT !["next"] = NoDir]
          /\ UNCHANGED step
       \/ /\ ~Exists("next")
          /\ dir' = [dir EXCEPT !["prev"] = NoDir]
          /\ step' = "idle"
    /\ UNCHANGED <<head, handle, starting, built, orphan, inPlace, used>>

-----------------------------------------------------------------------------
(* recover_swap and open_existing.                                         *)

\* Fault: the old store is not needed to take the copy for a finished sync.
CopyAlone == ~Exists("live") /\ Exists("next")

\* The store is missing only between the two renames of swap_in.
HalfSwapped == ~Exists("live") /\ Exists("prev")

\* Fault: an interrupted swap is always undone.
OldStore == "prev"

\* The copy goes in, or without one the old store goes back.
Recovered == IF Exists("next") THEN "next" ELSE "prev"

Recover ==
    /\ step = "recover"
    /\ \/ /\ HalfSwapped
          /\ dir' = [dir EXCEPT !["live"] = dir[Recovered], ![Recovered] = NoDir]
          /\ UNCHANGED used
       \/ HalfSwapped /\ Use("rename") /\ UNCHANGED dir
       \/ ~HalfSwapped /\ UNCHANGED <<dir, used>>
    /\ step' = "sweep"
    /\ UNCHANGED <<head, handle, starting, built, orphan, inPlace>>

\* Leftovers go once the store is in its place, `next` before `prev`.
Sweep ==
    /\ step = "sweep"
    /\ IF Exists("live") /\ Exists("next")
         THEN /\ dir' = [dir EXCEPT !["next"] = NoDir]
              /\ orphan' = FALSE
              /\ UNCHANGED step
         ELSE /\ dir' = IF Exists("live") THEN [dir EXCEPT !["prev"] = NoDir] ELSE dir
              /\ step' = "open"
              /\ UNCHANGED orphan
    /\ UNCHANGED <<head, handle, starting, built, inPlace, used>>

\* Store::open takes RocksDB's lock; it fails while another process has it.
OpenStore ==
    /\ step = "open"
    /\ \/ inPlace # "live" /\ handle' = dir["live"] /\ UNCHANGED used
       \/ inPlace = "live" /\ handle' = NoDir /\ UNCHANGED used
       \/ Exists("live") /\ Use("open") /\ handle' = NoDir
    /\ step' = IF starting THEN "idle" ELSE "clean"
    /\ starting' = FALSE
    /\ UNCHANGED <<head, dir, built, orphan, inPlace>>

-----------------------------------------------------------------------------
(* The daemon is killed and started again; a worker it leaves behind.      *)

DaemonStarts ==
    /\ step = "down"
    /\ step' = "recover"
    /\ starting' = TRUE
    /\ UNCHANGED <<head, dir, handle, built, orphan, inPlace, used>>

Crash ==
    /\ step # "down"
    /\ Use("crash")
    /\ step' = "down"
    /\ starting' = FALSE
    /\ handle' = NoDir
    /\ orphan' = (orphan \/ step = "working")
    /\ UNCHANGED <<head, dir, built, inPlace>>

\* An orphan that still has its directory finishes it, or gives up.
OrphanEnds ==
    /\ orphan
    /\ orphan' = FALSE
    /\ \/ dir' = [dir EXCEPT !["next"] = Store(built)]
       \/ UNCHANGED dir
    /\ UNCHANGED <<head, handle, step, starting, built, inPlace, used>>

-----------------------------------------------------------------------------
(* `git lex sync` with no daemon: the engine writes the live store.        *)

InPlaceBegins ==
    /\ step = "down"
    /\ inPlace = "no"
    /\ Use("inplace")
    /\ inPlace' = "live"
    /\ dir' = [dir EXCEPT !["live"] = Half(head)]
    /\ UNCHANGED <<head, handle, step, starting, built, orphan>>

\* It ends with the store whole, or is killed and leaves it as it is.
InPlaceEnds ==
    /\ inPlace # "no"
    /\ inPlace' = "no"
    /\ \/ inPlace = "live" /\ dir' = [dir EXCEPT !["live"] = Store(dir["live"].at)]
       \/ UNCHANGED dir
    /\ UNCHANGED <<head, handle, step, starting, built, orphan, used>>

-----------------------------------------------------------------------------
SyncStep ==
    \/ CopyBegins \/ CopyEnds \/ WorkerBegins \/ WorkerSucceeds \/ SyncFails
    \/ CloseStore \/ RenameFails \/ MoveAside \/ MoveIn \/ Cleanup

OpenStep == Recover \/ Sweep \/ OpenStore

Next ==
    \/ MoveHead \/ RemovalUnderway \/ SyncStep \/ OpenStep
    \/ DaemonStarts \/ Crash \/ OrphanEnds
    \/ InPlaceBegins \/ InPlaceEnds

Spec == Init /\ [][Next]_vars

\* The next `git lex query` starts a daemon that is down, and has a soul that
\* has no open store synced.
FairSpec == Spec /\ WF_vars(SyncStep) /\ WF_vars(OpenStep) /\ WF_vars(DaemonStarts)

-----------------------------------------------------------------------------
TypeOK ==
    /\ head \in Commits
    /\ dir \in [Names -> Dirs]
    /\ handle \in Dirs
    /\ step \in Steps
    /\ starting \in BOOLEAN
    /\ built \in Commits \cup {None}
    /\ orphan \in BOOLEAN
    /\ inPlace \in {"no", "live", "moved"}
    /\ used \in [DOMAIN Limits -> Nat]

\* A query never reads a half-written store (docs/using/gitlexd.md:47).
NeverHalfWritten == handle # NoDir => handle.whole

\* The store the daemon holds open is the directory in its place: no rename,
\* removal or recovery touches it underneath (swap_in: "The store must be
\* closed").
HandleInPlace == handle # NoDir => handle = dir["live"]

\* Whatever the daemon was doing when it was killed, the directory recovery
\* would put in place is a store a sync finished.
OnDisk ==
    IF Exists("live") THEN dir["live"]
    ELSE IF ~Exists("prev") THEN NoDir
    ELSE IF Exists("next") THEN dir["next"] ELSE dir["prev"]

RecoveryFindsWhole == OnDisk # NoDir => OnDisk.whole

\* However it was killed and whatever failed, a daemon that stays up comes to
\* have a store open, for a soul that never had one too.
StoreComesBack == []<>(handle # NoDir)

-----------------------------------------------------------------------------
\* The abstract store: on offer is what recovery finds; a sync's candidate is
\* published by the rename that takes the old store out of the way, or, for a
\* first sync, by the rename that puts the new one in.
Unpublished ==
    step \in {"working", "close", "aside"} \/ (step = "movein" /\ ~Exists("prev"))

Offered == IF OnDisk.whole \/ OnDisk = NoDir THEN OnDisk.at ELSE "half a store"
Candidate == IF Unpublished THEN built ELSE None

Served == INSTANCE ServedStore WITH offered <- Offered, candidate <- Candidate

Implements == Served!Spec
=============================================================================
