-------------------------- MODULE StoreSwapProofs --------------------------
(***************************************************************************)
(* What StoreSwap promises for any number of commits, syncs, failures and  *)
(* kills.  That the open store is the directory in its place holds         *)
(* whatever fails.  That it is never half written, and that StoreSwap      *)
(* implements ServedStore, needs renames that do not fail and no sync in   *)
(* place of the daemon's: the two runs that switch these on refute it.     *)
(***************************************************************************)
EXTENDS StoreSwap, TLAPS

\* A directory that is there holds a store of a commit, or a part of one.
LEMMA DirFacts ==
    ASSUME NEW d \in Dirs
    PROVE  /\ d # NoDir => d.at \in Commits
           /\ d.whole \in BOOLEAN
           /\ d.whole => d # NoDir
           /\ d # NoDir => Part(d) \in Dirs /\ Part(d) # NoDir
           /\ ~Part(d).whole
<1>1. CASE d = NoDir
  <2>1. ~d.whole /\ d.whole \in BOOLEAN
    BY <1>1 DEF NoDir
  <2>2. ~Part(d).whole
    BY <1>1 DEF NoDir, Part
  <2> QED
    BY <1>1, <2>1, <2>2
<1>2. CASE d \in [at : Commits, whole : BOOLEAN]
  <2>1. d.at \in Commits /\ d.whole \in BOOLEAN
    BY <1>2
  <2>2. Part(d) \in Dirs
    BY <2>1 DEF Part, Dirs
  <2>3. Part(d).at = d.at /\ ~Part(d).whole
    BY DEF Part
  <2>4. NoDir.at = None /\ ~NoDir.whole
    BY DEF NoDir
  <2>5. Part(d) # NoDir
    BY <2>1, <2>3, <2>4, NoneAssumption
  <2> QED
    BY <2>1, <2>2, <2>3, <2>4, <2>5
<1> QED
  BY <1>1, <1>2 DEF Dirs

\* What a sync leaves, and what one leaves that is killed.
LEMMA StoreFacts ==
    ASSUME NEW c \in Commits
    PROVE  /\ Store(c) \in Dirs
           /\ Half(c) \in Dirs
           /\ Store(c).at = c
           /\ Store(c).whole
           /\ ~Half(c).whole
           /\ Store(c) # NoDir
           /\ Half(c) # NoDir
  BY NoneAssumption DEF Dirs, NoDir, Store, Half, Part

-----------------------------------------------------------------------------
(* Types.                                                                  *)

\* A worker has resolved HEAD; the directory a sync in place writes is there.
TypeInv ==
    /\ TypeOK
    /\ step \in {"working", "close", "aside", "movein"} => built \in Commits
    /\ orphan => built \in Commits
    /\ inPlace = "live" => Exists("live")
    /\ step = "movein" => ~Exists("live")

LEMMA UsedType ==
    ASSUME NEW k \in DOMAIN Limits, used \in [DOMAIN Limits -> Nat], Use(k)
    PROVE  used' \in [DOMAIN Limits -> Nat]
  BY DEF Use

LEMMA LimitNames == DOMAIN Limits = {"crash", "move", "sync", "open", "rename", "inplace"}
  BY DEF Limits

LEMMA TypeInvStep == TypeInv /\ [Next]_vars => TypeInv'
<1> SUFFICES ASSUME TypeInv, [Next]_vars PROVE TypeInv'
  OBVIOUS
<1> USE UsedType, LimitNames DEF TypeInv, TypeOK, Names, Steps, Exists
<1>1. CASE MoveHead
  BY <1>1 DEF MoveHead
<1>2. CASE RemovalUnderway
  <2>1. PICK n \in {"next", "prev"} :
            /\ dir[n].whole
            /\ dir' = [dir EXCEPT ![n] = Part(@)]
            /\ orphan' = (orphan /\ n = "prev")
    BY <1>2 DEF RemovalUnderway
  <2>2. dir[n] \in Dirs /\ dir[n] # NoDir
    BY <2>1, DirFacts
  <2>3. Part(dir[n]) \in Dirs
    BY <2>2, DirFacts
  <2>4. dir' \in [Names -> Dirs] /\ dir'["live"] = dir["live"]
    BY <2>1, <2>3
  <2>5. orphan' \in BOOLEAN /\ (orphan' => orphan)
    BY <2>1
  <2> QED
    BY <1>2, <2>4, <2>5 DEF RemovalUnderway
<1>3. CASE CopyBegins
  <2>1. (IF handle = NoDir THEN NoDir ELSE Part(handle)) \in Dirs
    BY DirFacts DEF Dirs
  <2>2. dir' \in [Names -> Dirs] /\ dir'["live"] = dir["live"]
    BY <1>3, <2>1 DEF CopyBegins
  <2> QED
    BY <1>3, <2>2 DEF CopyBegins
<1>4. CASE CopyEnds
  BY <1>4 DEF CopyEnds, CopyOf
<1>5. CASE WorkerBegins
  BY <1>5, StoreFacts DEF WorkerBegins
<1>6. CASE WorkerSucceeds
  BY <1>6, StoreFacts DEF WorkerSucceeds
<1>7. CASE SyncFails
  BY <1>7 DEF SyncFails, AfterFailure
<1>8. CASE CloseStore
  BY <1>8 DEF CloseStore, CloseHandle, Dirs
<1>9. CASE RenameFails
  BY <1>9 DEF RenameFails
<1>10. CASE MoveAside
  BY <1>10 DEF MoveAside, RenameLive, Dirs
<1>11. CASE MoveIn
  BY <1>11 DEF MoveIn, Dirs
<1>12. CASE Cleanup
  BY <1>12 DEF Cleanup, Dirs
<1>13. CASE Recover
  BY <1>13 DEF Recover, Recovered, HalfSwapped, Dirs
<1>14. CASE Sweep
  BY <1>14, ZenonT(30) DEF Sweep, Dirs
<1>15. CASE OpenStore
  BY <1>15 DEF OpenStore, Dirs
<1>16. CASE DaemonStarts
  BY <1>16 DEF DaemonStarts
<1>17. CASE Crash
  BY <1>17 DEF Crash, Dirs
<1>18. CASE OrphanEnds
  BY <1>18, StoreFacts, ZenonT(30) DEF OrphanEnds
<1>19. CASE InPlaceBegins
  BY <1>19, StoreFacts DEF InPlaceBegins
<1>20. CASE InPlaceEnds
  <2>1. CASE UNCHANGED dir
    BY <1>20, <2>1 DEF InPlaceEnds
  <2>2. CASE inPlace = "live" /\ dir' = [dir EXCEPT !["live"] = Store(dir["live"].at)]
    <3>1. dir["live"].at \in Commits
      BY <2>2, DirFacts
    <3>2. Store(dir["live"].at) \in Dirs /\ Store(dir["live"].at) # NoDir
      BY <3>1, StoreFacts
    <3>3. dir' \in [Names -> Dirs]
      BY <2>2, <3>2
    <3>4. step # "movein"
      BY <2>2
    <3> QED
      BY <1>20, <3>3, <3>4 DEF InPlaceEnds
  <2> QED
    BY <1>20, <2>1, <2>2 DEF InPlaceEnds
<1>21. CASE UNCHANGED vars
  BY <1>21 DEF vars
<1> QED
  BY <1>1, <1>2, <1>3, <1>4, <1>5, <1>6, <1>7, <1>8, <1>9, <1>10, <1>11, <1>12,
     <1>13, <1>14, <1>15, <1>16, <1>17, <1>18, <1>19, <1>20, <1>21
     DEF Next, SyncStep, OpenStep

LEMMA TypeInvInit == Init => TypeInv
<1> SUFFICES ASSUME Init PROVE TypeInv
  OBVIOUS
<1>1. dir \in [Names -> Dirs]
  BY StoreFacts DEF Init, Names, Dirs
<1>2. used \in [DOMAIN Limits -> Nat]
  BY DEF Init
<1>3. starting \in BOOLEAN /\ orphan \in BOOLEAN /\ ~orphan
  BY DEF Init
<1> QED
  BY <1>1, <1>2, <1>3 DEF Init, TypeInv, TypeOK, Steps, Dirs

\* The directories hold stores of commits, or nothing, whatever fails.
THEOREM TypeCorrect == Spec => []TypeOK
<1>1. TypeInv => TypeOK
  BY DEF TypeInv
<1> QED
  BY <1>1, TypeInvInit, TypeInvStep, PTL DEF Spec

-----------------------------------------------------------------------------
(* The open store is the directory in its place.                           *)

\* Whatever moves or writes the live directory does it with the store closed.
HandleInv ==
    /\ HandleInPlace
    /\ step \in {"down", "aside", "movein", "recover", "sweep", "open"} => handle = NoDir
    /\ inPlace = "live" => handle = NoDir

LEMMA HandleInvStep == TypeInv /\ HandleInv /\ [Next]_vars => HandleInv'
<1> SUFFICES ASSUME TypeInv, HandleInv, [Next]_vars PROVE HandleInv'
  OBVIOUS
<1> USE DEF TypeInv, TypeOK, HandleInv, HandleInPlace, Names, Exists
<1>1. CASE RemovalUnderway
  <2>1. dir'["live"] = dir["live"]
    BY <1>1 DEF RemovalUnderway
  <2> QED
    BY <1>1, <2>1 DEF RemovalUnderway
<1>2. CASE SyncStep
  <2>1. CASE CopyBegins \/ CopyEnds \/ WorkerBegins \/ WorkerSucceeds
    BY <2>1 DEF CopyBegins, CopyEnds, WorkerBegins, WorkerSucceeds
  <2>2. CASE SyncFails \/ RenameFails
    BY <2>2 DEF SyncFails, RenameFails, AfterFailure
  <2>3. CASE CloseStore
    BY <2>3 DEF CloseStore, CloseHandle
  <2>4. CASE MoveAside
    BY <2>4 DEF MoveAside, RenameLive
  <2>5. CASE MoveIn
    BY <2>5 DEF MoveIn
  <2>6. CASE Cleanup
    BY <2>6 DEF Cleanup
  <2> QED
    BY <1>2, <2>1, <2>2, <2>3, <2>4, <2>5, <2>6 DEF SyncStep
<1>3. CASE Recover
  BY <1>3 DEF Recover
<1>4. CASE Sweep
  BY <1>4 DEF Sweep
<1>5. CASE OpenStore
  BY <1>5 DEF OpenStore
<1>6. CASE MoveHead \/ DaemonStarts \/ Crash
  BY <1>6 DEF MoveHead, DaemonStarts, Crash
<1>7. CASE OrphanEnds
  BY <1>7 DEF OrphanEnds
<1>8. CASE InPlaceBegins
  BY <1>8 DEF InPlaceBegins
<1>9. CASE InPlaceEnds
  BY <1>9 DEF InPlaceEnds
<1>10. CASE UNCHANGED vars
  BY <1>10 DEF vars
<1> QED
  BY <1>1, <1>2, <1>3, <1>4, <1>5, <1>6, <1>7, <1>8, <1>9, <1>10 DEF Next, OpenStep

\* Whatever fails, however often the daemon is killed and whoever else writes
\* the store, the handle is a handle on the live directory.
THEOREM OpenStoreStaysInPlace == Spec => []HandleInPlace
<1>1. Init => TypeInv /\ HandleInv
  BY TypeInvInit DEF Init, HandleInv, HandleInPlace
<1>2. TypeInv /\ HandleInv /\ [Next]_vars => (TypeInv /\ HandleInv)'
  BY TypeInvStep, HandleInvStep
<1>3. HandleInv => HandleInPlace
  BY DEF HandleInv
<1> QED
  BY <1>1, <1>2, <1>3, PTL DEF Spec

-----------------------------------------------------------------------------
(* No half-written store is offered, when renames do not fail and no sync  *)
(* runs in the daemon's place.                                             *)

Copy == dir["next"]

\* Outside the two renames the live store is missing only if there is no old
\* one either, so recovery would not take the copy for a finished sync: the
\* copy may be half written, by a worker that outlived its daemon too.  When
\* the renames begin the copy is what a worker finished.
SwapInv ==
    /\ inPlace = "no"
    /\ RecoveryFindsWhole
    /\ step \notin {"movein", "recover", "down"} => Exists("live") \/ ~Exists("prev")
    /\ orphan => /\ step \in {"down", "recover", "sweep", "open", "idle"}
                 /\ starting <=> step \in {"recover", "sweep", "open"}
                 /\ Exists("live") \/ ~Exists("prev")
    /\ step \in {"close", "aside", "movein"} => Copy = Store(built)
    /\ step = "aside" => ~Exists("prev")

\* Every rename succeeds and every sync is the daemon's.
NoOtherFault == MaxRenameErrors = 0 /\ InPlaceSyncs = 0

LEMMA UseNone ==
    ASSUME TypeInv, NoOtherFault
    PROVE  ~Use("rename") /\ ~Use("inplace")
  BY LimitNames DEF NoOtherFault, Use, Limits, TypeInv, TypeOK

LEMMA SwapInvInit == Init => SwapInv
<1> SUFFICES ASSUME Init PROVE SwapInv
  OBVIOUS
<1>1. ~Exists("prev") /\ (Exists("live") => dir["live"].whole)
  <2>1. CASE dir = [n \in Names |-> NoDir]
    BY <2>1 DEF Exists, Names
  <2>2. CASE \E c \in Commits : dir = [[n \in Names |-> NoDir] EXCEPT !["live"] = Store(c)]
    BY <2>2, StoreFacts DEF Exists, Names
  <2> QED
    BY <2>1, <2>2 DEF Init
<1>2. step = "down" /\ ~orphan /\ inPlace = "no"
  BY DEF Init
<1> QED
  BY <1>1, <1>2 DEF SwapInv, RecoveryFindsWhole, OnDisk, Exists

LEMMA SwapInvStep == NoOtherFault /\ TypeInv /\ SwapInv /\ [Next]_vars => SwapInv'
<1> SUFFICES ASSUME NoOtherFault, TypeInv, SwapInv, [Next]_vars PROVE SwapInv'
  OBVIOUS
<1> USE DEF TypeInv, TypeOK, SwapInv, RecoveryFindsWhole, OnDisk, Copy, Names, Exists
<1>1. CASE MoveHead
  BY <1>1 DEF MoveHead
<1>2. CASE RemovalUnderway
  <2>1. PICK n \in {"next", "prev"} :
            /\ RemovedAt(n)
            /\ dir[n].whole
            /\ dir' = [dir EXCEPT ![n] = Part(@)]
            /\ orphan' = (orphan /\ n = "prev")
    BY <1>2 DEF RemovalUnderway
  <2>2. dir[n] \in Dirs /\ dir[n] # NoDir /\ Part(dir[n]) # NoDir
    BY <2>1, DirFacts
  <2>3. dir'["live"] = dir["live"] /\ (Exists("prev")' <=> Exists("prev"))
    BY <2>1, <2>2
  <2>4. Exists("live") \/ ~Exists("prev")
    BY <2>1 DEF RemovedAt
  <2>5. (orphan' => orphan) /\ starting' = starting /\ step' = step
          /\ inPlace' = inPlace /\ built' = built
    BY <1>2, <2>1 DEF RemovalUnderway
  <2>6. step = "close" => dir'["next"] = dir["next"]
    BY <2>1 DEF RemovedAt
  <2>7. step # "aside" /\ step # "movein"
    BY <2>1 DEF RemovedAt
  <2> QED
    BY <2>3, <2>4, <2>5, <2>6, <2>7
<1>3. CASE CopyBegins
  BY <1>3 DEF CopyBegins
<1>4. CASE CopyEnds
  BY <1>4 DEF CopyEnds
<1>5. CASE WorkerBegins
  BY <1>5 DEF WorkerBegins
<1>6. CASE WorkerSucceeds
  BY <1>6 DEF WorkerSucceeds
<1>7. CASE SyncFails
  BY <1>7 DEF SyncFails, AfterFailure
<1>8. CASE CloseStore
  BY <1>8 DEF CloseStore
<1>9. CASE RenameFails
  BY <1>9, UseNone DEF RenameFails
<1>10. CASE MoveAside
  BY <1>10, StoreFacts DEF MoveAside, RenameLive
<1>11. CASE MoveIn
  BY <1>11, StoreFacts DEF MoveIn
<1>12. CASE Cleanup
  BY <1>12 DEF Cleanup
<1>13. CASE Recover
  BY <1>13, UseNone DEF Recover, Recovered, HalfSwapped
<1>14. CASE Sweep
  BY <1>14 DEF Sweep
<1>15. CASE OpenStore
  BY <1>15 DEF OpenStore
<1>16. CASE DaemonStarts
  BY <1>16 DEF DaemonStarts
<1>17. CASE Crash
  BY <1>17 DEF Crash
<1>18. CASE OrphanEnds
  BY <1>18 DEF OrphanEnds
<1>19. CASE InPlaceBegins \/ InPlaceEnds
  BY <1>19, UseNone DEF InPlaceBegins, InPlaceEnds
<1>20. CASE UNCHANGED vars
  BY <1>20 DEF vars
<1> QED
  BY <1>1, <1>2, <1>3, <1>4, <1>5, <1>6, <1>7, <1>8, <1>9, <1>10, <1>11, <1>12,
     <1>13, <1>14, <1>15, <1>16, <1>17, <1>18, <1>19, <1>20
     DEF Next, SyncStep, OpenStep

\* The three invariants together, which the theorems below start from.
IInv == TypeInv /\ HandleInv /\ SwapInv

LEMMA IInvHolds ==
    ASSUME NoOtherFault
    PROVE  Spec => []IInv
<1>1. Init => IInv
  BY TypeInvInit, SwapInvInit DEF IInv, Init, HandleInv, HandleInPlace
<1>2. IInv /\ [Next]_vars => IInv'
  BY NoOtherFault, TypeInvStep, HandleInvStep, SwapInvStep DEF IInv
<1> QED
  BY <1>1, <1>2, PTL DEF Spec

\* However often the daemon is killed, in the middle of a removal or between
\* the renames too, recovery puts a store in place that a sync finished.
THEOREM WholeStoreRecovered ==
    ASSUME NoOtherFault
    PROVE  Spec => []RecoveryFindsWhole
<1>1. IInv => RecoveryFindsWhole
  BY DEF IInv, SwapInv
<1> QED
  BY <1>1, IInvHolds, PTL

\* A query never reads a half-written store.
THEOREM WholeStoreServed ==
    ASSUME NoOtherFault
    PROVE  Spec => []NeverHalfWritten
<1>1. IInv => NeverHalfWritten
  BY DEF IInv, SwapInv, HandleInv, HandleInPlace, RecoveryFindsWhole, OnDisk,
         NeverHalfWritten, Exists
<1> QED
  BY <1>1, IInvHolds, PTL

-----------------------------------------------------------------------------
(* StoreSwap implements ServedStore.                                       *)

\* What recovery would find changes only at the rename that takes the live
\* store out of the way, with the copy in its stead, and at the one that puts
\* a first store in.
LEMMA OnDiskKept ==
    ASSUME IInv, Next,
           ~MoveIn,
           MoveAside => ~Exists("live"),
           NoOtherFault
    PROVE  OnDisk' = OnDisk
<1> USE DEF IInv, TypeInv, TypeOK, SwapInv, RecoveryFindsWhole, OnDisk, Names, Exists
<1>1. CASE RemovalUnderway
  <2>1. PICK n \in {"next", "prev"} :
            /\ RemovedAt(n)
            /\ dir[n].whole
            /\ dir' = [dir EXCEPT ![n] = Part(@)]
    BY <1>1 DEF RemovalUnderway
  <2>2. dir[n] \in Dirs /\ dir[n] # NoDir /\ Part(dir[n]) # NoDir
    BY <2>1, DirFacts
  <2>3. dir'["live"] = dir["live"] /\ (Exists("prev")' <=> Exists("prev"))
    BY <2>1, <2>2
  <2>4. Exists("live") \/ ~Exists("prev")
    BY <2>1 DEF RemovedAt
  <2> QED
    BY <2>3, <2>4
<1>2. CASE CopyBegins \/ CopyEnds \/ WorkerBegins \/ WorkerSucceeds
  BY <1>2 DEF CopyBegins, CopyEnds, WorkerBegins, WorkerSucceeds
<1>3. CASE SyncFails \/ RenameFails
  BY <1>3 DEF SyncFails, RenameFails
<1>4. CASE CloseStore
  BY <1>4 DEF CloseStore
<1>5. CASE MoveAside
  BY <1>5 DEF MoveAside, RenameLive
<1>6. CASE Cleanup
  BY <1>6 DEF Cleanup
<1>7. CASE Recover
  BY <1>7, UseNone DEF Recover, Recovered, HalfSwapped
<1>8. CASE Sweep
  BY <1>8 DEF Sweep
<1>9. CASE OpenStore
  BY <1>9 DEF OpenStore
<1>10. CASE MoveHead \/ DaemonStarts \/ Crash
  BY <1>10 DEF MoveHead, DaemonStarts, Crash
<1>11. CASE OrphanEnds
  BY <1>11 DEF OrphanEnds
<1>12. CASE InPlaceBegins \/ InPlaceEnds
  BY <1>12, UseNone DEF InPlaceBegins, InPlaceEnds
<1> QED
  BY <1>1, <1>2, <1>3, <1>4, <1>5, <1>6, <1>7, <1>8, <1>9, <1>10, <1>11, <1>12
     DEF Next, SyncStep, OpenStep

\* A store a sync finished is offered as the commit it is of.
LEMMA OfferedStore ==
    ASSUME NEW c \in Commits
    PROVE  /\ OnDisk = Store(c) => Offered = c
           /\ OnDisk' = Store(c) => Offered' = c
  BY StoreFacts DEF Offered

LEMMA StepImplements ==
    ASSUME IInv, Next, NoOtherFault
    PROVE  [Served!Next]_(Served!vars)
<1> USE DEF IInv, TypeInv, TypeOK, Names, Exists
<1>1. CASE MoveHead
  <2>1. Offered' = Offered /\ Candidate' = Candidate
    BY <1>1 DEF MoveHead, Offered, OnDisk, Candidate, Unpublished
  <2> QED
    BY <1>1, <2>1 DEF MoveHead, Served!Next, Served!MoveHead
<1>2. CASE WorkerBegins
  <2>1. OnDisk' = OnDisk
    BY <1>2, OnDiskKept DEF WorkerBegins, MoveIn, MoveAside
  <2>2. Offered' = Offered /\ head' = head
    BY <1>2, <2>1 DEF Offered, WorkerBegins
  <2>3. Candidate = None /\ Candidate' = head
    BY <1>2 DEF Candidate, Unpublished, WorkerBegins
  <2> QED
    BY <2>2, <2>3 DEF Served!Next, Served!Build
<1>3. CASE MoveAside /\ Exists("live")
  <2>1. built \in Commits /\ Copy = Store(built) /\ built' = built /\ head' = head
    BY <1>3 DEF SwapInv, MoveAside
  <2>2. OnDisk' = Store(built)
    BY <1>3, <2>1, StoreFacts DEF OnDisk, Copy, MoveAside, RenameLive
  <2>3. Offered' = built
    BY <2>1, <2>2, OfferedStore
  <2>4. Candidate = built /\ Candidate' = None
    BY <1>3 DEF Candidate, Unpublished, MoveAside, RenameLive
  <2>5. built # None
    BY <2>1, NoneAssumption
  <2> QED
    BY <2>1, <2>3, <2>4, <2>5 DEF Served!Next, Served!Publish
<1>4. CASE MoveIn /\ ~Exists("prev")
  <2>1. built \in Commits /\ Copy = Store(built) /\ built' = built /\ head' = head
    BY <1>4 DEF SwapInv, MoveIn
  <2>2. OnDisk' = Store(built)
    BY <1>4, <2>1, StoreFacts DEF OnDisk, Copy, MoveIn
  <2>3. Offered' = built
    BY <2>1, <2>2, OfferedStore
  <2>4. Candidate = built /\ Candidate' = None
    BY <1>4 DEF Candidate, Unpublished, MoveIn
  <2>5. built # None
    BY <2>1, NoneAssumption
  <2> QED
    BY <2>1, <2>3, <2>4, <2>5 DEF Served!Next, Served!Publish
<1>5. CASE MoveIn /\ Exists("prev")
  <2>1. OnDisk' = OnDisk
    BY <1>5, StoreFacts DEF OnDisk, MoveIn, SwapInv, Copy
  <2>2. Offered' = Offered /\ head' = head
    BY <1>5, <2>1 DEF Offered, MoveIn
  <2>3. Candidate' = Candidate
    BY <1>5 DEF Candidate, Unpublished, MoveIn
  <2> QED
    BY <2>2, <2>3 DEF Served!vars
<1>6. CASE SyncFails \/ Crash
  <2>1. OnDisk' = OnDisk
    BY <1>6 DEF OnDisk, SyncFails, Crash
  <2>2. Offered' = Offered /\ head' = head
    BY <1>6, <2>1 DEF Offered, SyncFails, Crash
  <2>3. Candidate' = None
    BY <1>6 DEF Candidate, Unpublished, SyncFails, AfterFailure, Crash
  <2> QED
    BY <2>2, <2>3 DEF Served!Next, Served!Discard
<1>7. CASE /\ ~MoveHead /\ ~WorkerBegins /\ ~MoveIn /\ ~SyncFails /\ ~Crash
           /\ ~(MoveAside /\ Exists("live"))
  <2>1. OnDisk' = OnDisk
    BY <1>7, OnDiskKept
  <2>2. Offered' = Offered
    BY <2>1 DEF Offered
  <2>3. Candidate' = Candidate /\ head' = head
    <3>1. CASE RemovalUnderway
      BY <3>1 DEF RemovalUnderway, RemovedAt, Candidate, Unpublished
    <3>2. CASE CopyBegins \/ CopyEnds \/ WorkerSucceeds \/ CloseStore \/ Cleanup
      BY <3>2 DEF CopyBegins, CopyEnds, WorkerSucceeds, CloseStore, Cleanup,
                  Candidate, Unpublished
    <3>3. CASE RenameFails \/ InPlaceBegins \/ InPlaceEnds
      BY <3>3, UseNone DEF RenameFails, InPlaceBegins, InPlaceEnds, SwapInv
    <3>4. CASE MoveAside
      BY <1>7, <3>4 DEF MoveAside, RenameLive, Candidate, Unpublished
    <3>5. CASE Recover \/ Sweep \/ OpenStore \/ DaemonStarts
      BY <3>5 DEF Recover, Sweep, OpenStore, DaemonStarts, Candidate, Unpublished
    <3>6. CASE OrphanEnds
      BY <3>6 DEF OrphanEnds, Candidate, Unpublished, SwapInv
    <3> QED
      BY <1>7, <3>1, <3>2, <3>3, <3>4, <3>5, <3>6 DEF Next, SyncStep, OpenStep
  <2> QED
    BY <2>2, <2>3 DEF Served!vars
<1> QED
  BY <1>1, <1>2, <1>3, <1>4, <1>5, <1>6, <1>7

\* Seen by whoever queries it, the store changes in one step, to one a sync
\* finished; a sync that fails or dies with its daemon changes nothing.
THEOREM StoreSwapImplementsServedStore ==
    ASSUME NoOtherFault
    PROVE  Spec => Implements
<1>1. Init => Served!Init
  <2> SUFFICES ASSUME Init PROVE Served!Init
    OBVIOUS
  <2>1. OnDisk = NoDir \/ \E c \in Commits : OnDisk = Store(c)
    <3>1. CASE dir = [n \in Names |-> NoDir]
      BY <3>1 DEF OnDisk, Exists, Names
    <3>2. CASE \E c \in Commits : dir = [[n \in Names |-> NoDir] EXCEPT !["live"] = Store(c)]
      BY <3>2, StoreFacts DEF OnDisk, Exists, Names
    <3> QED
      BY <3>1, <3>2 DEF Init
  <2>2. Offered \in Commits \cup {None}
    <3>1. CASE OnDisk = NoDir
      BY <3>1 DEF Offered, NoDir
    <3>2. CASE \E c \in Commits : OnDisk = Store(c)
      BY <3>2, OfferedStore
    <3> QED
      BY <2>1, <3>1, <3>2
  <2>3. Candidate = None
    BY DEF Init, Candidate, Unpublished
  <2> QED
    BY <2>2, <2>3 DEF Init, Served!Init
<1>2. IInv /\ [Next]_vars => [Served!Next]_(Served!vars)
  <2> SUFFICES ASSUME IInv, UNCHANGED vars PROVE UNCHANGED Served!vars
    BY NoOtherFault, StepImplements
  <2> QED
    BY DEF vars, Served!vars, Offered, OnDisk, Candidate, Unpublished, Exists
<1> QED
  BY <1>1, <1>2, IInvHolds, PTL DEF Spec, Implements, Served!Spec

=============================================================================
