------------------------------ MODULE SoulSync ------------------------------
(***************************************************************************)
(* One soul held by gitlexd: the tasks that share one `Soul` object of     *)
(* gitlexd/daemon.rs and what the HTTP handlers of gitlexd/http.rs do to   *)
(* it.                                                                     *)
(*                                                                         *)
(*   - the sync loop turns requests (tickets) into syncs, one at a time,   *)
(*     folding the requests made while a sync runs into the next one;      *)
(*   - a sync copies the store, runs the engine in a worker process on the *)
(*     copy, and swaps the copy in under the store's write lock;           *)
(*   - the watcher polls HEAD and asks for a sync when it has moved, and   *)
(*     drops the soul when `.lex/` is gone;                                *)
(*   - handlers query the store under its read lock, ask for a sync (and   *)
(*     maybe wait for it), or drop the soul.                               *)
(*                                                                         *)
(* The directories behind copy and swap are the subject of StoreSwap; what *)
(* the engine does to the copy is the subject of SyncEngine.  Here a store *)
(* is the commit its marker names (synced_marker: the highest ordinal).     *)
(***************************************************************************)
EXTENDS Naturals

CONSTANTS
    Commits,      \* the commits HEAD may be at
    NoCommit,     \* "no commit": of an absent store, of a watcher's first look
    Clients,      \* HTTP requests, each served by one handler
    Ops,          \* what requests may ask: a subset of AllOps
    Moves,        \* the HEAD moves that may happen: pairs of commits
    Trailing,     \* <<h, m>>: m came after h, and no commit from h to m changed a fact
    MaxMoves,     \* bound: how often HEAD moves
    MaxFailures,  \* bound: how many copies, workers and swaps fail
    LexMayVanish, \* whether `.lex/` may be removed under the daemon
    MayHangUp     \* whether a client may give up on a DELETE it sent

AllOps == {"sync", "nudge", "query", "forget"}

ASSUME NoCommitAssumption == NoCommit \notin Commits
ASSUME MovesAssumption == Moves \cup Trailing \subseteq Commits \X Commits
ASSUME OpsAssumption == Ops \subseteq AllOps
\* An answer in words is no commit.
ASSUME WordsAssumption ==
    {"none", "accepted", "failed", "unopened", "unavailable", "rows", "dropped", "hungup"}
        \cap (Commits \cup {NoCommit}) = {}
ASSUME BoundsAssumption ==
    /\ MaxMoves \in Nat
    /\ MaxFailures \in Nat
    /\ LexMayVanish \in BOOLEAN
    /\ MayHangUp \in BOOLEAN

VARIABLES
    \* The repository.
    head,      \* the commit HEAD is at
    lex,       \* whether `.lex/` exists
    moves,     \* how often HEAD has moved (bound)
    \* The Soul object.
    store,     \* the marker of the open store; NoCommit when there is none open
    readers,   \* the requests that hold the store's read lock
    requested, \* the newest ticket handed out
    completed, \* the newest ticket the loop has announced as done
    wake,      \* the permits the Notify stores: at most one
    syncedTo,  \* SoulStatus.synced_to
    lastError, \* SoulStatus.last_error is set
    openError, \* SoulStatus.open_error is set
    \* The sync loop and the sync it runs.
    loop,      \* where the sync loop stands
    target,    \* the ticket this round of the loop will announce
    built,     \* the HEAD the worker resolved
    outcome,   \* how this sync went so far
    failures,  \* how many steps have failed (bound)
    \* The watcher.
    watch,     \* where the HEAD watcher stands
    last,      \* the HEAD it saw last
    \* Dropping the soul.
    forget,    \* where Daemon::forget stands
    dropper,   \* who called it: a client, or NoClient for the watcher
    \* The handlers.
    pc,        \* where each request's handler stands
    op,        \* what each request asks
    ticket,    \* the ticket it waits for
    retried,   \* a query's synced_once
    reply,     \* what it was answered
    \* History, read by no action.
    begun,     \* `requested` when the running (or last) sync began
    ended,     \* `begun` of the last sync that ended
    since      \* where HEAD has been since each request's ticket

repoVars   == <<head, lex, moves>>
statusVars == <<syncedTo, lastError, openError>>
loopVars   == <<loop, target, built, outcome, failures>>
watchVars  == <<watch, last>>
forgetVars == <<forget, dropper>>
clientVars == <<pc, op, ticket, retried, reply>>
history    == <<begun, ended, since>>
soulVars   == <<store, readers, requested, completed, wake>>
vars == <<repoVars, soulVars, statusVars, loopVars, watchVars, forgetVars,
          clientVars, history>>

-----------------------------------------------------------------------------
NoClient == "watcher"

\* The steps of a sync between taking and releasing `Soul::syncing`.
SyncSteps == {"copy", "worker", "building", "check", "swap", "finish"}
LoopSteps == {"idle", "target", "enter", "permit", "send", "ended"} \cup SyncSteps
Outcomes  == {"none", "failed", "skipped", "swapped", "swapfailed"}
Replies   == {"none", "accepted", "failed", "unopened", "unavailable", "rows", "dropped", "hungup"}
                \cup Commits \cup {NoCommit}

\* SoulStatus.syncing: a sync holds the `syncing` mutex.
Syncing == loop \in SyncSteps

\* Soul::gone; forget sets it in the step that takes the soul off the list.
Gone == forget # "no"
Listed == ~Gone

\* Fault: forget and sync do not wait for each other.
MutexIgnored == TRUE

\* The `syncing` mutex: one sync or one forget.
MutexFree == ~Syncing /\ forget # "close"

\* tokio's RwLock queues in order: a waiting writer holds new readers back.
WriterWaiting == loop = "swap" \/ forget = "close"

\* Soul::request_sync: the next ticket, and a permit for the loop.
RequestSync == requested' = requested + 1 /\ wake' = 1

-----------------------------------------------------------------------------
\* Soul::new on a repository in any state the daemon may find it in: never
\* synced, synced to some commit, or with a store that failed to open.
Init ==
    /\ head \in Commits
    /\ lex = TRUE
    /\ moves = 0
    /\ store \in Commits \cup {NoCommit}
    /\ readers = {}
    /\ requested = 0
    /\ completed = 0
    /\ wake = 0
    /\ syncedTo = store
    /\ lastError = FALSE
    /\ openError \in BOOLEAN
    /\ openError => store = NoCommit
    /\ loop = "idle"
    /\ target = 0
    /\ built = NoCommit
    /\ outcome = "none"
    /\ failures = 0
    /\ watch = "poll"
    /\ last = NoCommit
    /\ forget = "no"
    /\ dropper = NoClient
    /\ pc = [c \in Clients |-> "idle"]
    /\ op = [c \in Clients |-> "none"]
    /\ ticket = [c \in Clients |-> 0]
    /\ retried = [c \in Clients |-> FALSE]
    /\ reply = [c \in Clients |-> "none"]
    /\ begun = 0
    /\ ended = 0
    /\ since = [c \in Clients |-> {}]

-----------------------------------------------------------------------------
(* The repository: commits, resets, pulls; someone removes `.lex/`.        *)

MoveHead ==
    /\ moves < MaxMoves
    /\ \E h \in Commits :
        /\ <<head, h>> \in Moves
        /\ head' = h
        /\ since' = [c \in Clients |-> IF pc[c] \in {"wait", "tell"} THEN since[c] \cup {h}
                                                                     ELSE since[c]]
    /\ moves' = moves + 1
    /\ UNCHANGED <<lex, soulVars, statusVars, loopVars, watchVars, forgetVars,
                   clientVars, begun, ended>>

RemoveLex ==
    /\ LexMayVanish
    /\ lex
    /\ lex' = FALSE
    /\ UNCHANGED <<head, moves, soulVars, statusVars, loopVars, watchVars,
                   forgetVars, clientVars, history>>

-----------------------------------------------------------------------------
(* sync_loop and sync_once.                                                *)

\* The permit arrives.  A dropped soul's loop returns here, whatever is asked.
LoopWake ==
    /\ loop = "idle"
    /\ wake = 1
    /\ wake' = 0
    /\ loop' = IF Gone THEN "ended" ELSE "target"
    /\ UNCHANGED <<repoVars, store, readers, requested, completed, statusVars,
                   target, built, outcome, failures, watchVars, forgetVars,
                   clientVars, history>>

LoopTarget ==
    /\ loop = "target"
    /\ target' = requested
    /\ loop' = "enter"
    /\ UNCHANGED <<repoVars, soulVars, statusVars, built, outcome, failures,
                   watchVars, forgetVars, clientVars, history>>

\* sync_once runs no engine in a repository git-lex has left.
EnterSync ==
    /\ loop = "enter"
    /\ loop' = IF Gone \/ ~lex THEN "send" ELSE "permit"
    /\ UNCHANGED <<repoVars, soulVars, statusVars, target, built, outcome,
                   failures, watchVars, forgetVars, clientVars, history>>

\* The mutex is taken and `gone` read again: it may have been set meanwhile.
TakeSync ==
    /\ loop = "permit"
    /\ MutexFree
    /\ IF Gone
         THEN loop' = "send" /\ UNCHANGED <<outcome, begun>>
         ELSE loop' = "copy" /\ outcome' = "none" /\ begun' = requested
    /\ UNCHANGED <<repoVars, soulVars, statusVars, target, built, failures,
                   watchVars, forgetVars, clientVars, ended, since>>

Fail ==
    /\ failures < MaxFailures
    /\ failures' = failures + 1
    /\ outcome' = "failed"
    /\ loop' = "finish"

\* copy_store: the copy shares the store with the readers.
CopyStore ==
    /\ loop = "copy"
    /\ \/ loop' = "worker" /\ UNCHANGED <<outcome, failures>>
       \/ Fail
    /\ UNCHANGED <<repoVars, soulVars, statusVars, target, built, watchVars,
                   forgetVars, clientVars, history>>

\* The worker passes its gates and resolves HEAD; it refuses without `.lex/`.
WorkerResolvesHead ==
    /\ loop = "worker"
    /\ IF lex THEN loop' = "building" /\ built' = head /\ UNCHANGED outcome
              ELSE loop' = "finish" /\ outcome' = "failed" /\ UNCHANGED built
    /\ UNCHANGED <<repoVars, soulVars, statusVars, target, failures,
                   watchVars, forgetVars, clientVars, history>>

WorkerExits ==
    /\ loop = "building"
    /\ \/ loop' = "check" /\ UNCHANGED <<outcome, failures>>
       \/ Fail
    /\ UNCHANGED <<repoVars, soulVars, statusVars, target, built, watchVars,
                   forgetVars, clientVars, history>>

\* Never swap for a soul dropped while the worker ran.
CheckSwap ==
    /\ loop = "check"
    /\ IF Gone THEN loop' = "finish" /\ outcome' = "skipped"
               ELSE loop' = "swap" /\ UNCHANGED outcome
    /\ UNCHANGED <<repoVars, soulVars, statusVars, target, built, failures,
                   watchVars, forgetVars, clientVars, history>>

\* The marker of the finished copy: the HEAD it was built for; or the one it
\* had, when HEAD was reset to a commit with the same facts and the engine
\* finds an ordinal of HEAD and nothing to do.
Markers == {built} \cup {m \in {store} : <<built, m>> \in Trailing}

\* Under the write lock: close, swap the directories, reopen.  A swap that
\* fails leaves the old store, or the new one if recovery can still move it
\* in, or none if it cannot be reopened.
SwapStore ==
    /\ loop = "swap"
    /\ readers = {}
    /\ \/ store' \in Markers /\ outcome' = "swapped" /\ UNCHANGED failures
       \/ /\ failures < MaxFailures
          /\ failures' = failures + 1
          /\ store' \in {store, NoCommit} \cup Markers
          /\ outcome' = "swapfailed"
    /\ loop' = "finish"
    /\ UNCHANGED <<repoVars, readers, requested, completed, wake, statusVars,
                   target, built, watchVars, forgetVars, clientVars, history>>

\* Fault: only a swap that worked reaches the status.
SwapWorked == outcome = "swapped"

\* A swap was tried, so the marker has been read again.
SwapTried == outcome \in {"swapped", "swapfailed"}

\* The status of the finished sync; the mutex and the permit are released.
FinishSync ==
    /\ loop = "finish"
    /\ lastError' = (outcome = "failed")
    /\ openError' = IF outcome = "failed" THEN openError ELSE outcome = "swapfailed"
    /\ syncedTo' = IF SwapTried THEN store ELSE syncedTo
    /\ ended' = begun
    /\ outcome' = "none"
    /\ built' = NoCommit
    /\ loop' = "send"
    /\ UNCHANGED <<repoVars, soulVars, target, failures, watchVars, forgetVars,
                   clientVars, begun, since>>

\* Fault: requests made during the sync are announced with it.
SendLatest ==
    /\ loop = "send"
    /\ completed' = requested
    /\ loop' = "idle"
    /\ UNCHANGED <<repoVars, store, readers, requested, wake, statusVars,
                   target, built, outcome, failures, watchVars, forgetVars,
                   clientVars, history>>

\* The ticket is announced; requests that came meanwhile start another round.
SendCompleted ==
    /\ loop = "send"
    /\ completed' = target
    /\ loop' = IF requested > target THEN "target" ELSE "idle"
    /\ UNCHANGED <<repoVars, store, readers, requested, wake, statusVars,
                   target, built, outcome, failures, watchVars, forgetVars,
                   clientVars, history>>

-----------------------------------------------------------------------------
(* Daemon::forget.                                                         *)

\* Off the list, and marked gone.
ForgetBegins(who) ==
    /\ Listed
    /\ forget' = "lock"
    /\ dropper' = who

ForgetLocks ==
    /\ forget = "lock"
    /\ MutexFree
    /\ forget' = "close"
    /\ UNCHANGED <<repoVars, soulVars, statusVars, loopVars, watchVars, dropper,
                   clientVars, history>>

\* Fault: forget ends without waking the loop.
LeaveAsleep == UNCHANGED wake

WakeToEnd == wake' = 1

\* The store is closed under the write lock, then the loop is woken to end.
ForgetCloses ==
    /\ forget = "close"
    /\ readers = {}
    /\ store' = NoCommit
    /\ WakeToEnd
    /\ forget' = "done"
    /\ UNCHANGED <<repoVars, readers, requested, completed, statusVars,
                   loopVars, watchVars, dropper, clientVars, history>>

-----------------------------------------------------------------------------
(* watch_loop.                                                             *)

WatchEnds ==
    /\ watch = "poll"
    /\ Gone
    /\ watch' = "ended"
    /\ UNCHANGED <<repoVars, soulVars, statusVars, loopVars, last, forgetVars,
                   clientVars, history>>

WatchDropsSoul ==
    /\ watch = "poll"
    /\ ~lex
    /\ ForgetBegins(NoClient)
    /\ watch' = "dropping"
    /\ UNCHANGED <<repoVars, soulVars, statusVars, loopVars, last, clientVars,
                   history>>

WatchDropped ==
    /\ watch = "dropping"
    /\ forget = "done"
    /\ watch' = "ended"
    /\ UNCHANGED <<repoVars, soulVars, statusVars, loopVars, last, forgetVars,
                   clientVars, history>>

\* A poll that finds HEAD where it was changes nothing.
WatchSeesHead ==
    /\ watch = "poll"
    /\ ~Gone
    /\ lex
    /\ last' = head
    /\ watch' = IF head = last THEN "poll" ELSE "compare"
    /\ UNCHANGED <<repoVars, soulVars, statusVars, loopVars, forgetVars,
                   clientVars, history>>

\* Fault: a HEAD seen during a sync is taken to be that sync's business.
HeadUnsyncedAtRest == last # syncedTo /\ ~Syncing

HeadUnsynced == last # syncedTo

WatchCompares ==
    /\ watch = "compare"
    /\ IF HeadUnsynced THEN RequestSync ELSE UNCHANGED <<requested, wake>>
    /\ watch' = "poll"
    /\ UNCHANGED <<repoVars, store, readers, completed, statusVars, loopVars,
                   last, forgetVars, clientVars, history>>

-----------------------------------------------------------------------------
(* The handlers.  A request that finds the soul holds the Soul object from *)
(* then on; one that does not is another Soul object's business.           *)

Arrive(c) ==
    /\ pc[c] = "idle"
    /\ Listed
    /\ \E o \in Ops \ {"forget"} :
        /\ op' = [op EXCEPT ![c] = o]
        /\ pc' = [pc EXCEPT ![c] = IF o = "query" THEN "acquire" ELSE "request"]
    /\ UNCHANGED <<repoVars, soulVars, statusVars, loopVars, watchVars,
                   forgetVars, ticket, retried, reply, history>>

Answer(c, r) ==
    /\ pc' = [pc EXCEPT ![c] = "done"]
    /\ reply' = [reply EXCEPT ![c] = r]

\* Soul::request_sync by a handler: a nudge is answered at once.
AskSync(c) ==
    /\ pc[c] = "request"
    /\ RequestSync
    /\ ticket' = [ticket EXCEPT ![c] = requested + 1]
    /\ since' = [since EXCEPT ![c] = {head}]
    /\ IF op[c] = "nudge" THEN Answer(c, "accepted")
                          ELSE pc' = [pc EXCEPT ![c] = "wait"] /\ UNCHANGED reply
    /\ UNCHANGED <<repoVars, store, readers, completed, statusVars, loopVars,
                   watchVars, forgetVars, op, retried, begun, ended>>

\* Soul::wait_for has nothing left to wait for.
TicketDone(c) == completed >= ticket[c]

\* Fault: a failed sync is not looked at.
OpenFailed == openError

StatusFailed == lastError \/ openError

\* `?wait=1` reads the status when the wait is over, for the code of its
\* answer.  Of a failure the client looks at nothing else.
AnswerSync(c) ==
    /\ pc[c] = "wait"
    /\ op[c] = "sync"
    /\ TicketDone(c)
    /\ IF StatusFailed THEN Answer(c, "failed")
                       ELSE pc' = [pc EXCEPT ![c] = "tell"] /\ UNCHANGED reply
    /\ UNCHANGED <<repoVars, soulVars, statusVars, loopVars, watchVars,
                   forgetVars, op, ticket, retried, history>>

\* soul_json reads the status again, for the body: whatever sync has ended
\* meanwhile, the code stays.  "unopened" is a body with no commit and the
\* reason why the store did not open.
TellSync(c) ==
    /\ pc[c] = "tell"
    /\ Answer(c, IF syncedTo = NoCommit /\ openError THEN "unopened" ELSE syncedTo)
    /\ UNCHANGED <<repoVars, soulVars, statusVars, loopVars, watchVars,
                   forgetVars, op, ticket, retried, history>>

\* A query that had no store looks again once its sync is done.
RetryQuery(c) ==
    /\ pc[c] = "wait"
    /\ op[c] = "query"
    /\ TicketDone(c)
    /\ pc' = [pc EXCEPT ![c] = "acquire"]
    /\ retried' = [retried EXCEPT ![c] = TRUE]
    /\ UNCHANGED <<repoVars, soulVars, statusVars, loopVars, watchVars,
                   forgetVars, op, ticket, reply, history>>

\* Fault: the lock is kept while the query waits for its sync.
KeepLock(c) == readers' = readers \cup {c}

LetGo(c) == UNCHANGED readers

\* The read lock is taken; without a store it is let go before any wait.
AcquireStore(c) ==
    /\ pc[c] = "acquire"
    /\ ~WriterWaiting
    /\ IF store # NoCommit
         THEN /\ readers' = readers \cup {c}
              /\ pc' = [pc EXCEPT ![c] = "reading"]
              /\ UNCHANGED reply
         ELSE /\ IF retried[c] THEN Answer(c, "unavailable")
                               ELSE pc' = [pc EXCEPT ![c] = "request"] /\ UNCHANGED reply
              /\ LetGo(c)
    /\ UNCHANGED <<repoVars, store, requested, completed, wake, statusVars,
                   loopVars, watchVars, forgetVars, op, ticket, retried, history>>

ReadStore(c) ==
    /\ pc[c] = "reading"
    /\ readers' = readers \ {c}
    /\ Answer(c, "rows")
    /\ UNCHANGED <<repoVars, store, requested, completed, wake, statusVars,
                   loopVars, watchVars, forgetVars, op, ticket, retried, history>>

\* DELETE /soul/{genesis}.
AskForget(c) ==
    /\ pc[c] = "idle"
    /\ "forget" \in Ops
    /\ ForgetBegins(c)
    /\ op' = [op EXCEPT ![c] = "forget"]
    /\ pc' = [pc EXCEPT ![c] = "dropping"]
    /\ UNCHANGED <<repoVars, soulVars, statusVars, loopVars, watchVars, ticket,
                   retried, reply, history>>

AnswerForget(c) ==
    /\ pc[c] = "dropping"
    /\ forget = "done"
    /\ Answer(c, "dropped")
    /\ UNCHANGED <<repoVars, soulVars, statusVars, loopVars, watchVars,
                   forgetVars, op, ticket, retried, history>>

\* The client's ten seconds are over while forget still waits for a lock: the
\* connection closes and the server drops the handler's future, and with it
\* the rest of Daemon::forget.
HangUp(c) ==
    /\ MayHangUp
    /\ pc[c] = "dropping"
    /\ forget \in {"lock", "close"}
    /\ forget' = "dropped"
    /\ Answer(c, "hungup")
    /\ UNCHANGED <<repoVars, soulVars, statusVars, loopVars, watchVars, dropper,
                   op, ticket, retried, history>>

-----------------------------------------------------------------------------
LoopStep ==
    \/ LoopWake \/ LoopTarget \/ EnterSync \/ TakeSync \/ CopyStore
    \/ WorkerResolvesHead \/ WorkerExits \/ CheckSwap \/ SwapStore
    \/ FinishSync \/ SendCompleted

WatchStep == WatchEnds \/ WatchDropsSoul \/ WatchDropped \/ WatchSeesHead \/ WatchCompares

ForgetStep == ForgetLocks \/ ForgetCloses

\* What a handler does on its own once the request is in.
Handle(c) ==
    \/ AskSync(c) \/ AnswerSync(c) \/ TellSync(c) \/ RetryQuery(c)
    \/ AcquireStore(c) \/ ReadStore(c) \/ AnswerForget(c)

Next ==
    \/ MoveHead
    \/ RemoveLex
    \/ LoopStep
    \/ WatchStep
    \/ ForgetStep
    \/ \E c \in Clients : Arrive(c) \/ AskForget(c) \/ HangUp(c) \/ Handle(c)

Spec == Init /\ [][Next]_vars

\* tokio runs every task that is ready, a worker process ends, a query ends,
\* and the watcher's timer fires.  Nothing makes HEAD move, requests arrive,
\* `.lex/` vanish or a client hang up.
Fairness ==
    /\ WF_vars(LoopStep)
    /\ WF_vars(WatchStep)
    /\ WF_vars(ForgetStep)
    /\ \A c \in Clients : WF_vars(Handle(c))

FairSpec == Spec /\ Fairness

-----------------------------------------------------------------------------
(* Safety.                                                                 *)

TypeOK ==
    /\ head \in Commits
    /\ lex \in BOOLEAN
    /\ moves \in Nat
    /\ store \in Commits \cup {NoCommit}
    /\ readers \subseteq Clients
    /\ requested \in Nat
    /\ completed \in Nat
    /\ wake \in {0, 1}
    /\ syncedTo \in Commits \cup {NoCommit}
    /\ lastError \in BOOLEAN
    /\ openError \in BOOLEAN
    /\ loop \in LoopSteps
    /\ target \in Nat
    /\ built \in Commits \cup {NoCommit}
    /\ outcome \in Outcomes
    /\ failures \in Nat
    /\ watch \in {"poll", "compare", "dropping", "ended"}
    /\ last \in Commits \cup {NoCommit}
    /\ forget \in {"no", "lock", "close", "done", "dropped"}
    /\ dropper \in Clients \cup {NoClient}
    /\ pc \in [Clients -> {"idle", "request", "wait", "tell", "acquire",
                           "reading", "dropping", "done"}]
    /\ op \in [Clients -> AllOps \cup {"none"}]
    /\ ticket \in [Clients -> Nat]
    /\ retried \in [Clients -> BOOLEAN]
    /\ reply \in [Clients -> Replies]
    /\ begun \in Nat
    /\ ended \in Nat
    /\ since \in [Clients -> SUBSET Commits]

\* A ticket is announced only after a sync that began after it was handed out
\* has ended (Soul::request_sync).  Excepted: a soul git-lex has left, where
\* no sync runs any more.
TicketsHonest == completed <= ended \/ Gone \/ ~lex

\* The commits whose history says what HEAD's said at some moment since the
\* request of c.
Fresh(c) == {m \in Commits : \E h \in since[c] : m = h \/ <<h, m>> \in Trailing}

\* A successful answer to `?wait=1` names a commit HEAD has been at since the
\* request, or one reset away whose history says the same, whatever other
\* syncs ran and failed before and after the one waited for and between the
\* two readings of the status.  It may name none only together with the error
\* of a later sync that left no store open.
AnswersFresh ==
    \A c \in Clients :
        (op[c] = "sync" /\ reply[c] \in Commits \cup {NoCommit})
            => reply[c] \in Fresh(c) \/ Gone \/ ~lex

\* ... and not one that was reset away.
AnswersNameHead ==
    \A c \in Clients :
        (op[c] = "sync" /\ reply[c] \in Commits) => reply[c] \in since[c] \/ Gone \/ ~lex

\* Between syncs the status names what a query would read.
StatusTellsStore == ~Syncing /\ ~Gone => syncedTo = store

\* A dropped soul's store is closed for good: no sync still under way when it
\* was dropped, and no request made after, opens it again or runs the engine.
ForgottenStaysClosed == forget = "done" => store = NoCommit /\ ~Syncing

-----------------------------------------------------------------------------
(* Liveness.                                                               *)

\* Every request that waits for a sync is answered (Soul::wait_for).
WaitersAnswered == \A c \in Clients : pc[c] = "wait" ~> pc[c] # "wait"

\* Every request to a soul nobody drops is answered, whatever fails: no wake-up
\* is lost, and no lock is held across a wait.  A DELETE is answered as well.
RequestsAnswered ==
    \A c \in Clients :
        pc[c] # "idle" ~> pc[c] = "done" \/ (Gone /\ op[c] # "forget")

\* A daemon that starts with the store at HEAD, or with none, comes to be
\* synced to where HEAD stays once it has stopped moving, if no sync fails and
\* the soul stays (watch_loop: "A sync is asked for when HEAD is not what the
\* store is synced to").
CatchesUp ==
    store \in {head, NoCommit} =>
        \/ <>[](store = head /\ syncedTo = head)
        \/ <>(failures > 0 \/ Gone \/ ~lex)

\* A dropped soul ends: store closed, both loops over (Daemon::forget).
Retires == Gone ~> (store = NoCommit /\ loop = "ended" /\ watch = "ended")
=============================================================================
