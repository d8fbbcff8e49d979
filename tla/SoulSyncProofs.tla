--------------------------- MODULE SoulSyncProofs ---------------------------
(***************************************************************************)
(* What SoulSync promises for any number of requests, commits, failures    *)
(* and HEAD moves: its type invariant, honest tickets, a store that stays  *)
(* closed once its soul is dropped, and a status that tells the store.     *)
(***************************************************************************)
EXTENDS SoulSync, TLAPS

\* The tuples that UNCHANGED names.
LEMMA Unchanged ==
    UNCHANGED vars <=>
        /\ UNCHANGED <<head, lex, moves>>
        /\ UNCHANGED <<store, readers, requested, completed, wake>>
        /\ UNCHANGED <<syncedTo, lastError, openError>>
        /\ UNCHANGED <<loop, target, built, outcome, failures>>
        /\ UNCHANGED <<watch, last, forget, dropper>>
        /\ UNCHANGED <<pc, op, ticket, retried, reply>>
        /\ UNCHANGED <<begun, ended, since>>
  BY DEF vars, repoVars, soulVars, statusVars, loopVars, watchVars, forgetVars,
         clientVars, history

-----------------------------------------------------------------------------
(* The state of the three kinds of actors keeps its type.                  *)

LEMMA LoopKeepsType == TypeOK /\ LoopStep => TypeOK'
<1> SUFFICES ASSUME TypeOK, LoopStep PROVE TypeOK'
  OBVIOUS
<1> USE NoCommitAssumption DEF TypeOK, repoVars, soulVars, statusVars, loopVars,
        watchVars, forgetVars, clientVars, history, LoopSteps, SyncSteps, Outcomes
<1>1. CASE LoopWake
  BY <1>1 DEF LoopWake
<1>2. CASE LoopTarget
  BY <1>2 DEF LoopTarget
<1>3. CASE EnterSync
  BY <1>3 DEF EnterSync
<1>4. CASE TakeSync
  BY <1>4 DEF TakeSync
<1>5. CASE CopyStore
  BY <1>5 DEF CopyStore, Fail
<1>6. CASE WorkerResolvesHead
  BY <1>6 DEF WorkerResolvesHead
<1>7. CASE WorkerExits
  BY <1>7 DEF WorkerExits, Fail
<1>8. CASE CheckSwap
  BY <1>8 DEF CheckSwap
<1>9. CASE SwapStore
  BY <1>9, MovesAssumption DEF SwapStore, Markers
<1>10. CASE FinishSync
  BY <1>10, ZenonT(30) DEF FinishSync
<1>11. CASE SendCompleted
  BY <1>11 DEF SendCompleted
<1> QED
  BY <1>1, <1>2, <1>3, <1>4, <1>5, <1>6, <1>7, <1>8, <1>9, <1>10, <1>11
     DEF LoopStep

LEMMA WatchAndForgetKeepType == TypeOK /\ (WatchStep \/ ForgetStep) => TypeOK'
<1> SUFFICES ASSUME TypeOK, WatchStep \/ ForgetStep PROVE TypeOK'
  OBVIOUS
<1> USE DEF TypeOK, repoVars, soulVars, statusVars, loopVars, watchVars,
        forgetVars, clientVars, history, NoClient
<1>1. CASE WatchEnds
  BY <1>1 DEF WatchEnds
<1>2. CASE WatchDropsSoul
  BY <1>2 DEF WatchDropsSoul, ForgetBegins
<1>3. CASE WatchDropped
  BY <1>3 DEF WatchDropped
<1>4. CASE WatchSeesHead
  BY <1>4 DEF WatchSeesHead
<1>5. CASE WatchCompares
  BY <1>5 DEF WatchCompares, RequestSync
<1>6. CASE ForgetLocks
  BY <1>6 DEF ForgetLocks
<1>7. CASE ForgetCloses
  BY <1>7 DEF ForgetCloses, WakeToEnd
<1> QED
  BY <1>1, <1>2, <1>3, <1>4, <1>5, <1>6, <1>7 DEF WatchStep, ForgetStep

LEMMA RequestsKeepType ==
    ASSUME NEW c \in Clients, TypeOK,
           Arrive(c) \/ AskForget(c) \/ HangUp(c) \/ Handle(c)
    PROVE  TypeOK'
<1> USE OpsAssumption DEF TypeOK, repoVars, soulVars, statusVars, loopVars,
        watchVars, forgetVars, clientVars, history, Answer, Replies
<1>1. CASE Arrive(c)
  BY <1>1 DEF Arrive, AllOps
<1>2. CASE AskForget(c)
  BY <1>2 DEF AskForget, ForgetBegins, AllOps
<1>3. CASE HangUp(c)
  BY <1>3 DEF HangUp
<1>4. CASE AskSync(c)
  BY <1>4 DEF AskSync, RequestSync
<1>5. CASE AnswerSync(c)
  BY <1>5 DEF AnswerSync
<1>6. CASE RetryQuery(c)
  BY <1>6 DEF RetryQuery
<1>7. CASE AcquireStore(c)
  BY <1>7 DEF AcquireStore, LetGo
<1>8. CASE ReadStore(c)
  BY <1>8 DEF ReadStore
<1>9. CASE AnswerForget(c)
  BY <1>9 DEF AnswerForget
<1>10. CASE TellSync(c)
  BY <1>10 DEF TellSync
<1> QED
  BY <1>1, <1>2, <1>3, <1>4, <1>5, <1>6, <1>7, <1>8, <1>9, <1>10 DEF Handle

\* Every variable of the soul, its loops and its handlers keeps its type,
\* however many requests and HEAD moves there are.
THEOREM TypeCorrect == Spec => []TypeOK
<1>1. Init => TypeOK
  <2> SUFFICES ASSUME Init PROVE TypeOK
    OBVIOUS
  <2>1. /\ pc \in [Clients -> {"idle", "request", "wait", "tell", "acquire",
                              "reading", "dropping", "done"}]
        /\ op \in [Clients -> AllOps \cup {"none"}]
        /\ ticket \in [Clients -> Nat]
        /\ retried \in [Clients -> BOOLEAN]
        /\ reply \in [Clients -> Replies]
        /\ since \in [Clients -> SUBSET Commits]
    BY DEF Init, Replies
  <2>2. openError \in BOOLEAN /\ lastError \in BOOLEAN /\ lex \in BOOLEAN
    BY DEF Init
  <2> QED
    BY <2>1, <2>2 DEF Init, TypeOK, LoopSteps, SyncSteps, Outcomes, NoClient
<1>2. TypeOK /\ [Next]_vars => TypeOK'
  <2> SUFFICES ASSUME TypeOK, [Next]_vars PROVE TypeOK'
    OBVIOUS
  <2>1. CASE MoveHead
    <3>1. PICK h \in Commits :
            /\ head' = h
            /\ since' = [c \in Clients |-> IF pc[c] \in {"wait", "tell"} THEN since[c] \cup {h}
                                                                         ELSE since[c]]
      BY <2>1 DEF MoveHead
    <3>2. since' \in [Clients -> SUBSET Commits]
      BY <3>1 DEF TypeOK
    <3>3. /\ UNCHANGED <<lex, soulVars, statusVars, loopVars, watchVars,
                          forgetVars, clientVars, begun, ended>>
          /\ moves' = moves + 1
      BY <2>1 DEF MoveHead
    <3> QED
      BY <3>1, <3>2, <3>3 DEF TypeOK, soulVars, statusVars, loopVars, watchVars,
         forgetVars, clientVars
  <2>2. CASE RemoveLex
    <3>1. UNCHANGED <<head, moves, soulVars, statusVars, loopVars, watchVars,
                      forgetVars, clientVars, history>>
      BY <2>2 DEF RemoveLex
    <3>2. lex' \in BOOLEAN
      BY <2>2 DEF RemoveLex
    <3> QED
      BY <3>1, <3>2 DEF TypeOK, soulVars, statusVars, loopVars, watchVars, forgetVars,
                  clientVars, history
  <2>3. CASE LoopStep
    BY <2>3, LoopKeepsType
  <2>4. CASE WatchStep \/ ForgetStep
    BY <2>4, WatchAndForgetKeepType
  <2>5. CASE \E c \in Clients : Arrive(c) \/ AskForget(c) \/ HangUp(c) \/ Handle(c)
    BY <2>5, RequestsKeepType
  <2>6. CASE UNCHANGED vars
    BY <2>6, Unchanged DEF TypeOK
  <2> QED
    BY <2>1, <2>2, <2>3, <2>4, <2>5, <2>6 DEF Next
<1> QED
  BY <1>1, <1>2, PTL DEF Spec

-----------------------------------------------------------------------------
(* Honest tickets.                                                         *)

\* Why TicketsHonest is inductive: the round under way announces no ticket
\* newer than the requests that stood when its sync began.
TicketInv ==
    /\ completed <= target
    /\ target <= requested
    /\ Syncing => target <= begun
    /\ loop = "send" => target <= ended \/ Gone \/ ~lex
    /\ TicketsHonest

LEMMA LoopKeepsTickets == TypeOK /\ TicketInv /\ LoopStep => TicketInv'
<1> SUFFICES ASSUME TypeOK, TicketInv, LoopStep PROVE TicketInv'
  OBVIOUS
<1> USE DEF TypeOK, TicketInv, TicketsHonest, Syncing, SyncSteps, Gone, repoVars,
        soulVars, statusVars, forgetVars, history
<1>1. CASE LoopWake
  BY <1>1 DEF LoopWake
<1>2. CASE LoopTarget
  BY <1>2 DEF LoopTarget
<1>3. CASE EnterSync
  BY <1>3 DEF EnterSync
<1>4. CASE TakeSync
  BY <1>4 DEF TakeSync
<1>5. CASE CopyStore
  BY <1>5 DEF CopyStore, Fail
<1>6. CASE WorkerResolvesHead
  BY <1>6 DEF WorkerResolvesHead
<1>7. CASE WorkerExits
  BY <1>7 DEF WorkerExits, Fail
<1>8. CASE CheckSwap
  BY <1>8 DEF CheckSwap
<1>9. CASE SwapStore
  BY <1>9 DEF SwapStore
<1>10. CASE FinishSync
  BY <1>10 DEF FinishSync
<1>11. CASE SendCompleted
  BY <1>11 DEF SendCompleted
<1> QED
  BY <1>1, <1>2, <1>3, <1>4, <1>5, <1>6, <1>7, <1>8, <1>9, <1>10, <1>11
     DEF LoopStep

\* Every other step leaves the round alone: it may only ask for more, drop
\* the soul, or take `.lex/` away.
LEMMA OthersKeepTickets ==
    ASSUME TypeOK, TicketInv,
           UNCHANGED <<completed, target, loop, begun, ended>>,
           requested' = requested \/ requested' = requested + 1,
           Gone => Gone',
           lex' => lex
    PROVE  TicketInv'
  BY DEF TypeOK, TicketInv, TicketsHonest, Syncing

LEMMA NoneOfTheLoop ==
    ASSUME [Next]_vars, ~LoopStep
    PROVE  /\ UNCHANGED <<completed, target, loop, begun, ended, outcome, syncedTo>>
           /\ requested' = requested \/ requested' = requested + 1
           /\ Gone => Gone'
           /\ lex' => lex
<1> USE DEF Gone, repoVars, soulVars, statusVars, loopVars, forgetVars, history
<1>1. CASE MoveHead \/ RemoveLex
  BY <1>1 DEF MoveHead, RemoveLex
<1>2. CASE WatchStep
  BY <1>2 DEF WatchStep, WatchEnds, WatchDropsSoul, WatchDropped, WatchSeesHead,
              WatchCompares, ForgetBegins, RequestSync
<1>3. CASE ForgetStep
  BY <1>3 DEF ForgetStep, ForgetLocks, ForgetCloses
<1>4. ASSUME NEW c \in Clients, Arrive(c) \/ AskForget(c) \/ HangUp(c)
      PROVE  /\ UNCHANGED <<completed, target, loop, begun, ended, outcome, syncedTo>>
             /\ UNCHANGED <<requested, lex>>
             /\ Gone => Gone'
  BY <1>4 DEF Arrive, AskForget, HangUp, ForgetBegins
<1>5. ASSUME NEW c \in Clients, Handle(c)
      PROVE  /\ UNCHANGED <<completed, target, loop, begun, ended, outcome, syncedTo>>
             /\ UNCHANGED <<forget, lex>>
             /\ requested' = requested \/ requested' = requested + 1
  BY <1>5 DEF Handle, AskSync, AnswerSync, TellSync, RetryQuery, AcquireStore, ReadStore,
              AnswerForget, RequestSync
<1>6. CASE UNCHANGED vars
  BY <1>6, Unchanged
<1> QED
  BY <1>1, <1>2, <1>3, <1>4, <1>5, <1>6 DEF Next

\* Soul::request_sync's promise: a ticket is announced only after a sync that
\* began after the request has ended, unless git-lex has left the repository.
THEOREM TicketsAreHonest == Spec => []TicketsHonest
<1>1. Init => TicketInv
  BY DEF Init, TicketInv, TicketsHonest, Syncing, SyncSteps
<1>2. TypeOK /\ TicketInv /\ [Next]_vars => TicketInv'
  BY LoopKeepsTickets, NoneOfTheLoop, OthersKeepTickets
<1>3. TicketInv => TicketsHonest
  BY DEF TicketInv
<1> QED
  BY <1>1, <1>2, <1>3, TypeCorrect, PTL DEF Spec

-----------------------------------------------------------------------------
(* Dropped souls.                                                          *)

\* The mutex is what keeps a dropped store closed: while forget holds it no
\* sync runs, and afterwards every sync sees `gone` before it starts.
ClosedInv ==
    /\ forget = "close" => ~Syncing
    /\ ForgottenStaysClosed

\* A dropped soul's store is never opened again, and no engine runs for it.
THEOREM ForgottenSoulsStayClosed == Spec => []ForgottenStaysClosed
<1>1. Init => ClosedInv
  BY DEF Init, ClosedInv, ForgottenStaysClosed
<1>2. TypeOK /\ ClosedInv /\ [Next]_vars => ClosedInv'
  <2> SUFFICES ASSUME TypeOK, ClosedInv, [Next]_vars PROVE ClosedInv'
    OBVIOUS
  <2> USE DEF ClosedInv, ForgottenStaysClosed, Syncing, SyncSteps
  <2>1. CASE MoveHead \/ RemoveLex
    BY <2>1 DEF MoveHead, RemoveLex, soulVars, loopVars, forgetVars
  <2>2. CASE LoopStep
    BY <2>2 DEF LoopStep, LoopWake, LoopTarget, EnterSync, TakeSync, CopyStore, Fail,
                WorkerResolvesHead, WorkerExits, CheckSwap, SwapStore, FinishSync,
                SendCompleted, Gone, MutexFree, forgetVars, soulVars
  <2>3. CASE WatchStep
    BY <2>3 DEF WatchStep, WatchEnds, WatchDropsSoul, WatchDropped, WatchSeesHead,
                WatchCompares, ForgetBegins, soulVars, loopVars, forgetVars
  <2>4. CASE ForgetStep
    BY <2>4 DEF ForgetStep, ForgetLocks, ForgetCloses, MutexFree, soulVars, loopVars
  <2>5. ASSUME NEW c \in Clients, Arrive(c) \/ AskForget(c) \/ HangUp(c)
        PROVE  ClosedInv'
    BY <2>5 DEF Arrive, AskForget, HangUp, ForgetBegins, soulVars, loopVars, forgetVars
  <2>6. ASSUME NEW c \in Clients, Handle(c)
        PROVE  ClosedInv'
    BY <2>6 DEF Handle, AskSync, AnswerSync, TellSync, RetryQuery, AcquireStore, ReadStore,
                AnswerForget, soulVars, loopVars, forgetVars
  <2>7. CASE UNCHANGED vars
    BY <2>7, Unchanged
  <2> QED
    BY <2>1, <2>2, <2>3, <2>4, <2>5, <2>6, <2>7 DEF Next
<1>3. ClosedInv => ForgottenStaysClosed
  BY DEF ClosedInv
<1> QED
  BY <1>1, <1>2, <1>3, TypeCorrect, PTL DEF Spec

-----------------------------------------------------------------------------
(* The status.                                                             *)

\* Only the swap changes the store of a soul that is held, and the status
\* follows before the mutex is released.
StatusInv == Gone \/ syncedTo = store \/ (loop = "finish" /\ SwapTried)

LEMMA StatusFollows == Spec => []StatusInv
<1>1. Init => StatusInv
  BY DEF Init, StatusInv
<1>2. TypeOK /\ StatusInv /\ [Next]_vars => StatusInv'
  <2> SUFFICES ASSUME TypeOK, StatusInv, [Next]_vars PROVE StatusInv'
    OBVIOUS
  <2> USE DEF StatusInv, Gone, SwapTried
  <2>1. CASE LoopStep
    BY <2>1 DEF LoopStep, LoopWake, LoopTarget, EnterSync, TakeSync, CopyStore, Fail,
                WorkerResolvesHead, WorkerExits, CheckSwap, SwapStore, FinishSync,
                SendCompleted, forgetVars, statusVars, soulVars
  <2>2. CASE ForgetStep
    BY <2>2 DEF ForgetStep, ForgetLocks, ForgetCloses
  <2>3. CASE ~LoopStep /\ ~ForgetStep
    <3>1. store' = store
      BY <2>3 DEF Next, MoveHead, RemoveLex, WatchStep, WatchEnds, WatchDropsSoul,
                  WatchDropped, WatchSeesHead, WatchCompares, Arrive, AskForget,
                  HangUp, Handle, AskSync, AnswerSync, TellSync, RetryQuery, AcquireStore,
                  ReadStore, AnswerForget, soulVars, vars
    <3> QED
      BY <2>3, <3>1, NoneOfTheLoop
  <2> QED
    BY <2>1, <2>2, <2>3
<1> QED
  BY <1>1, <1>2, TypeCorrect, PTL DEF Spec

\* Between syncs `synced_to` names the commit that queries read.
THEOREM StatusIsTrue == Spec => []StatusTellsStore
<1>1. StatusInv => StatusTellsStore
  BY DEF StatusInv, StatusTellsStore, Syncing, SyncSteps
<1> QED
  BY <1>1, StatusFollows, PTL

-----------------------------------------------------------------------------
(* Fresh answers.                                                          *)

\* A sync that works with the HEAD its worker resolved.
AtWork == loop \in {"building", "check", "swap"} \/ (loop = "finish" /\ SwapTried)

\* A body an answer of success may have.
Told(c, m, unopened) == m \in Fresh(c) \/ (m = NoCommit /\ unopened)

\* What a request sees of syncs that began after its ticket: they work with a
\* HEAD of its time; once one has ended the status names a fresh commit or says
\* that the sync failed; and between the two readings of the status it goes on
\* naming one, or the store does not open.
Waits(c) == ended >= ticket[c] => StatusFailed \/ syncedTo \in Fresh(c) \/ Gone \/ ~lex
Tells(c) == Gone \/ ~lex \/ (ended >= ticket[c] /\ Told(c, syncedTo, openError))
WaitersFresh ==
    \A c \in Clients : pc[c] \in {"wait", "tell"} =>
        /\ head \in since[c] /\ ticket[c] <= requested
        /\ begun >= ticket[c] /\ AtWork => built \in since[c]
        /\ pc[c] = "wait" => Waits(c)
        /\ pc[c] = "tell" => Tells(c)

\* What a swap put in place, until the status tells it.
Swapped ==
    /\ outcome = "swapped" => store = built \/ <<built, store>> \in Trailing
    /\ outcome = "swapfailed" =>
         store \in {syncedTo, NoCommit, built} \/ <<built, store>> \in Trailing

\* A sync that is finishing went one of four ways.
OutcomeKnown ==
    loop = "finish" =>
        /\ outcome \in {"failed", "swapped", "swapfailed"} \/ (outcome = "skipped" /\ Gone)
        /\ Swapped \/ Gone

Unanswered == \A c \in Clients : pc[c] # "done" => reply[c] = "none"

AnswerInv ==
    /\ begun <= requested /\ ended <= begun
    /\ OutcomeKnown
    /\ WaitersFresh
    /\ Unanswered
    /\ AnswersFresh

LEMMA LoopKeepsAnswers == TypeOK /\ StatusInv /\ AnswerInv /\ LoopStep => AnswerInv'
<1> SUFFICES ASSUME TypeOK, StatusInv, AnswerInv, LoopStep PROVE AnswerInv'
  OBVIOUS
<1>1. UNCHANGED <<head, lex, forget, pc, op, ticket, reply, since, requested>>
  BY DEF LoopStep, LoopWake, LoopTarget, EnterSync, TakeSync, CopyStore, WorkerResolvesHead,
         WorkerExits, CheckSwap, SwapStore, FinishSync, SendCompleted,
         repoVars, forgetVars, clientVars, history, soulVars
<1>2. AnswersFresh' /\ Unanswered' /\ \A c : Fresh(c)' = Fresh(c)
  BY <1>1 DEF AnswerInv, AnswersFresh, Unanswered, Gone, Fresh
<1> USE DEF AnswerInv, OutcomeKnown, Swapped, WaitersFresh, Waits, Tells, Told, AtWork, SwapTried, TypeOK
<1>3. CASE LoopWake \/ LoopTarget \/ EnterSync \/ SendCompleted
  <2>1. /\ UNCHANGED <<begun, ended, outcome, store, syncedTo, lastError, openError>>
        /\ loop' \notin {"building", "check", "swap", "finish"}
    BY <1>3 DEF LoopWake, LoopTarget, EnterSync, SendCompleted, history, soulVars, statusVars
  <2> QED
    BY <1>1, <1>2, <2>1 DEF Gone, StatusFailed
<1>4. CASE TakeSync
  <2>1. /\ UNCHANGED <<ended, store, syncedTo, lastError, openError>> /\ begun' \in {begun, requested}
        /\ loop' \notin {"building", "check", "swap", "finish"}
    BY <1>4 DEF TakeSync, soulVars, statusVars
  <2> QED
    BY <1>1, <1>2, <2>1 DEF Gone, StatusFailed
<1>5. CASE CopyStore \/ WorkerExits
  <2>1. /\ UNCHANGED <<begun, ended, built, store, syncedTo, lastError, openError>>
        /\ \/ loop' = "worker"
           \/ loop' = "check" /\ loop = "building"
           \/ loop' = "finish" /\ outcome' = "failed"
    BY <1>5 DEF CopyStore, WorkerExits, Fail, history, soulVars, statusVars
  <2> QED
    BY <1>1, <1>2, <2>1 DEF Gone, StatusFailed
<1>6. CASE WorkerResolvesHead
  <2>1. /\ UNCHANGED <<begun, ended, store, syncedTo, lastError, openError>>
        /\ \/ loop' = "building" /\ built' = head
           \/ loop' = "finish" /\ outcome' = "failed"
    BY <1>6 DEF WorkerResolvesHead, history, soulVars, statusVars
  <2> QED
    BY <1>1, <1>2, <2>1 DEF Gone, StatusFailed
<1>7. CASE CheckSwap
  <2>1. /\ UNCHANGED <<begun, ended, built, store, syncedTo, lastError, openError>>
        /\ loop = "check"
        /\ \/ loop' = "swap" \/ (loop' = "finish" /\ outcome' = "skipped" /\ Gone)
    BY <1>7 DEF CheckSwap, history, soulVars, statusVars
  <2> QED
    BY <1>1, <1>2, <2>1 DEF Gone, StatusFailed
<1>8. CASE SwapStore
  <2>1. /\ UNCHANGED <<begun, ended, built, syncedTo, lastError, openError>>
        /\ loop = "swap" /\ loop' = "finish"
        /\ outcome' \in {"swapped", "swapfailed"}
    BY <1>8 DEF SwapStore, history, statusVars
  <2>2. Swapped' \/ Gone'
    BY <1>1, <1>8, <2>1 DEF SwapStore, Markers, StatusInv, Gone
  <2> QED
    BY <1>1, <1>2, <2>1, <2>2 DEF Gone, StatusFailed
<1>9. CASE FinishSync
  <2>1. /\ UNCHANGED <<begun, store>> /\ ended' = begun /\ loop = "finish" /\ loop' = "send"
        /\ lastError' = (outcome = "failed")
        /\ openError' = IF outcome = "failed" THEN openError ELSE outcome = "swapfailed"
        /\ syncedTo' = IF outcome \in {"swapped", "swapfailed"} THEN store ELSE syncedTo
    BY <1>9 DEF FinishSync, soulVars
  <2>2. \A c \in Clients : begun >= ticket[c] /\ pc[c] \in {"wait", "tell"} /\ outcome = "swapped"
                             => store \in Fresh(c) \/ Gone
    BY <2>1, MovesAssumption DEF Fresh
  <2>3. \A c \in Clients : pc[c] = "wait" => Waits(c)'
    BY <1>1, <1>2, <2>1, <2>2 DEF Gone, StatusFailed
  <2>4. ASSUME NEW c \in Clients, pc[c] = "tell" PROVE Tells(c)'
    <3>1. CASE Gone \/ ~lex
      BY <1>1, <3>1 DEF Gone
    <3>2. CASE ~Gone /\ lex
      <4>1. begun >= ticket[c] /\ ended' >= ticket[c] /\ Told(c, syncedTo, openError)
        BY <2>1, <2>4, <3>2
      <4>2. CASE outcome = "failed"
        BY <1>1, <1>2, <2>1, <4>1, <4>2
      <4>3. CASE outcome = "swapped"
        BY <1>1, <1>2, <2>1, <2>2, <2>4, <3>2, <4>1, <4>3
      <4>4. CASE outcome = "swapfailed"
        <5>1. built \in since[c] /\ (store \in {syncedTo, NoCommit, built} \/ <<built, store>> \in Trailing)
          BY <2>1, <2>4, <3>2, <4>1, <4>4
        <5>2. store = built \/ <<built, store>> \in Trailing => store \in Fresh(c)
          BY <5>1, MovesAssumption DEF Fresh
        <5> QED
          BY <1>1, <1>2, <2>1, <4>1, <4>4, <5>1, <5>2
      <4> QED
        BY <2>1, <3>2, <4>2, <4>3, <4>4
    <3> QED
      BY <3>1, <3>2
  <2> QED
    BY <1>1, <1>2, <2>1, <2>3, <2>4 DEF Gone
<1> QED
  BY <1>3, <1>4, <1>5, <1>6, <1>7, <1>8, <1>9 DEF LoopStep

\* A step of no handler: HEAD may move, and every waiting request sees it.
LEMMA OthersKeepAnswers ==
    ASSUME TypeOK, AnswerInv,
           UNCHANGED <<loop, begun, ended, outcome, built, syncedTo, lastError, openError>>,
           UNCHANGED <<pc, op, ticket, reply>>,
           store' = store \/ Gone',
           requested' = requested \/ requested' = requested + 1,
           Gone => Gone', lex' => lex,
           since' \in [Clients -> SUBSET Commits],
           \A c \in Clients : since[c] \subseteq since'[c],
           \A c \in Clients : pc[c] \in {"wait", "tell"} => head' = head \/ head' \in since'[c]
    PROVE  AnswerInv'
<1>1. OutcomeKnown' /\ Unanswered'
  BY DEF AnswerInv, OutcomeKnown, Swapped, Unanswered
<1>2. \A c \in Clients : Fresh(c) \subseteq Fresh(c)'
  BY DEF Fresh
<1>3. AnswersFresh'
  BY <1>2 DEF AnswerInv, AnswersFresh
<1>4. ASSUME NEW c \in Clients, pc[c] = "wait", Waits(c) PROVE Waits(c)'
  BY <1>2, <1>4 DEF Waits, StatusFailed
<1>5. ASSUME NEW c \in Clients, pc[c] = "tell", Tells(c) PROVE Tells(c)'
  BY <1>2, <1>5 DEF Tells, Told
<1>6. WaitersFresh'
  BY <1>4, <1>5 DEF AnswerInv, WaitersFresh, AtWork, SwapTried, TypeOK
<1> QED
  BY <1>1, <1>3, <1>6 DEF AnswerInv, TypeOK

LEMMA RequestsKeepAnswers ==
    ASSUME NEW c \in Clients, TypeOK, AnswerInv, TicketsHonest,
           Arrive(c) \/ AskForget(c) \/ HangUp(c) \/ Handle(c)
    PROVE  AnswerInv'
<1> USE DEF TypeOK
<1>1. CASE Arrive(c) \/ AskForget(c) \/ HangUp(c) \/ RetryQuery(c) \/ AcquireStore(c) \/ ReadStore(c)
           \/ AnswerForget(c)
  <2>1. /\ UNCHANGED <<repoVars, store, requested, completed, syncedTo, lastError, openError, loopVars,
                        ticket, history>>
        /\ Gone => Gone'
        /\ \A d \in Clients \ {c} : UNCHANGED <<pc[d], op[d], reply[d]>>
        /\ pc'[c] \notin {"wait", "tell"}
        /\ reply'[c] = reply[c] \/ (pc'[c] = "done" /\ reply'[c] \in {"rows", "unavailable", "dropped", "hungup"})
        /\ op'[c] = op[c] \/ pc[c] = "idle"
    BY <1>1 DEF Arrive, AskForget, HangUp, RetryQuery, AcquireStore, ReadStore, AnswerForget, ForgetBegins,
                Answer, LetGo, Gone, repoVars, soulVars, statusVars, loopVars, forgetVars, history
  <2>2. pc'[c] # "done" => reply'[c] = reply[c] /\ pc[c] # "done"
    BY <1>1 DEF Arrive, AskForget, HangUp, RetryQuery, AcquireStore, ReadStore, AnswerForget, Answer,
                statusVars, loopVars
  <2>3. OutcomeKnown' /\ Unanswered'
    BY <2>1, <2>2 DEF AnswerInv, OutcomeKnown, Swapped, Unanswered, loopVars
  <2>4. reply'[c] \in Commits \cup {NoCommit} =>
          reply'[c] = reply[c] /\ op'[c] = op[c]
    <3>1. {"none", "rows", "unavailable", "dropped", "hungup"} \cap (Commits \cup {NoCommit}) = {}
      BY WordsAssumption
    <3>2. pc[c] = "idle" => reply[c] = "none"
      BY DEF AnswerInv, Unanswered
    <3> QED
      BY <2>1, <3>1, <3>2
  <2>5. AnswersFresh'
    BY <2>1, <2>4 DEF AnswerInv, AnswersFresh, Fresh, repoVars, history
  <2>6. WaitersFresh'
    BY <2>1 DEF AnswerInv, WaitersFresh, Waits, Tells, Told, AtWork, SwapTried, Fresh, StatusFailed, repoVars,
                loopVars, history
  <2> QED
    BY <2>1, <2>3, <2>5, <2>6 DEF AnswerInv, history
<1>2. CASE AskSync(c)
  <2>1. /\ UNCHANGED <<repoVars, store, statusVars, loopVars, forgetVars, op, begun, ended>>
        /\ requested' = requested + 1
        /\ \A d \in Clients \ {c} : UNCHANGED <<pc[d], reply[d], ticket[d], since[d]>>
        /\ ticket'[c] = requested + 1 /\ since'[c] = {head}
        /\ pc[c] = "request" /\ pc'[c] \in {"wait", "done"}
        /\ reply'[c] \in {reply[c], "accepted"}
        /\ pc'[c] = "wait" => reply'[c] = reply[c]
    BY <1>2 DEF AskSync, RequestSync, Answer
  <2> QED
    BY <2>1, WordsAssumption
       DEF AnswerInv, OutcomeKnown, Swapped, WaitersFresh, Waits, Tells, Told, AtWork, SwapTried, Unanswered,
           AnswersFresh, Fresh, StatusFailed, Gone, repoVars, statusVars, loopVars, forgetVars
<1>3. CASE AnswerSync(c)
  <2>1. /\ UNCHANGED <<repoVars, soulVars, statusVars, loopVars, forgetVars, op, ticket, history>>
        /\ \A d \in Clients \ {c} : UNCHANGED <<pc[d], reply[d]>>
        /\ pc[c] = "wait" /\ ticket[c] <= completed
        /\ IF StatusFailed THEN pc'[c] = "done" /\ reply'[c] = "failed"
                           ELSE pc'[c] = "tell" /\ reply'[c] = reply[c]
    BY <1>3 DEF AnswerSync, Answer, TicketDone
  <2>2. pc'[c] = "tell" => Tells(c)
    BY <2>1 DEF AnswerInv, WaitersFresh, Waits, Tells, Told, TicketsHonest
  <2>3. OutcomeKnown' /\ Unanswered'
    BY <2>1 DEF AnswerInv, OutcomeKnown, Swapped, Unanswered, Gone, soulVars, statusVars, loopVars, forgetVars
  <2>4. WaitersFresh'
    BY <2>1, <2>2 DEF AnswerInv, WaitersFresh, Waits, Tells, Told, AtWork, SwapTried, Fresh, StatusFailed, Gone,
                      repoVars, soulVars, statusVars, loopVars, forgetVars, history
  <2>5. AnswersFresh'
    BY <2>1, WordsAssumption DEF AnswerInv, AnswersFresh, Fresh, Gone, repoVars, forgetVars, history
  <2> QED
    BY <2>1, <2>3, <2>4, <2>5 DEF AnswerInv, soulVars, history
<1>4. CASE TellSync(c)
  <2>1. /\ UNCHANGED <<repoVars, soulVars, statusVars, loopVars, forgetVars, op, ticket, history>>
        /\ \A d \in Clients \ {c} : UNCHANGED <<pc[d], reply[d]>>
        /\ pc[c] = "tell" /\ pc'[c] = "done"
        /\ reply'[c] = IF syncedTo = NoCommit /\ openError THEN "unopened" ELSE syncedTo
    BY <1>4 DEF TellSync, Answer
  <2>2. Tells(c)
    BY <2>1 DEF AnswerInv, WaitersFresh
  <2>3. OutcomeKnown' /\ Unanswered'
    BY <2>1 DEF AnswerInv, OutcomeKnown, Swapped, Unanswered, Gone, soulVars, statusVars, loopVars, forgetVars
  <2>4. WaitersFresh'
    BY <2>1, <2>2 DEF AnswerInv, WaitersFresh, Waits, Tells, Told, AtWork, SwapTried, Fresh, StatusFailed, Gone,
                      repoVars, soulVars, statusVars, loopVars, forgetVars, history
  <2>5. AnswersFresh'
    <3>1. reply'[c] \in Commits \cup {NoCommit} => reply'[c] \in Fresh(c) \/ Gone \/ ~lex
      BY <2>1, <2>2, WordsAssumption DEF Tells, Told
    <3> QED
      BY <2>1, <3>1 DEF AnswerInv, AnswersFresh, Fresh, Gone, repoVars, forgetVars, history
  <2> QED
    BY <2>1, <2>3, <2>4, <2>5 DEF AnswerInv, soulVars, history
<1> QED
  BY <1>1, <1>2, <1>3, <1>4 DEF Handle

\* Whatever syncs run, fail, overlap with requests or are folded into one, and
\* whatever of the facts a reset leaves as they were: a successful answer to
\* `?wait=1` names a commit HEAD has been at since the request, or one with
\* such a commit's history.
THEOREM AnswersAreFresh == Spec => []AnswersFresh
<1>1. Init => AnswerInv
  BY WordsAssumption DEF Init, AnswerInv, OutcomeKnown, WaitersFresh, Unanswered, AnswersFresh
<1>2. TypeOK /\ TypeOK' /\ TicketsHonest /\ StatusInv /\ AnswerInv /\ [Next]_vars => AnswerInv'
  <2> SUFFICES ASSUME TypeOK, TypeOK', TicketsHonest, StatusInv, AnswerInv, [Next]_vars PROVE AnswerInv'
    OBVIOUS
  <2>0. since' \in [Clients -> SUBSET Commits]
    BY DEF TypeOK
  <2>1. CASE MoveHead
    BY <2>0, <2>1, OthersKeepAnswers
       DEF MoveHead, soulVars, statusVars, loopVars, forgetVars, clientVars, Gone, TypeOK
  <2>2. CASE RemoveLex
    BY <2>0, <2>2, OthersKeepAnswers
       DEF RemoveLex, soulVars, statusVars, loopVars, forgetVars, clientVars, history, Gone
  <2>3. CASE LoopStep
    BY <2>3, LoopKeepsAnswers
  <2>4. CASE WatchStep
    BY <2>0, <2>4, OthersKeepAnswers
       DEF WatchStep, WatchEnds, WatchDropsSoul, WatchDropped, WatchSeesHead, WatchCompares, ForgetBegins,
           RequestSync, repoVars, soulVars, statusVars, loopVars, forgetVars, clientVars, history, Gone
  <2>5. CASE ForgetStep
    BY <2>0, <2>5, OthersKeepAnswers
       DEF ForgetStep, ForgetLocks, ForgetCloses, repoVars, soulVars, statusVars, loopVars, clientVars,
           history, Gone
  <2>6. CASE \E c \in Clients : Arrive(c) \/ AskForget(c) \/ HangUp(c) \/ Handle(c)
    BY <2>6, RequestsKeepAnswers
  <2>7. CASE UNCHANGED vars
    BY <2>0, <2>7, Unchanged, OthersKeepAnswers DEF Gone
  <2> QED
    BY <2>1, <2>2, <2>3, <2>4, <2>5, <2>6, <2>7 DEF Next
<1>3. AnswerInv => AnswersFresh
  BY DEF AnswerInv
<1> QED
  BY <1>1, <1>2, <1>3, TypeCorrect, TicketsAreHonest, StatusFollows, PTL DEF Spec
=============================================================================
