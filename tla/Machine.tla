------------------------------ MODULE Machine ------------------------------
(* One machine: git-lex commands in its repositories, the registry they all     *)
(* rewrite (Registry), and the gitlexd processes that clients start and stop    *)
(* (bin/gitlexd.rs, gitlexd/client.rs, gitlexd/daemon.rs:115-301, main.rs,      *)
(* init.rs). What a soul does with its store is SoulSync and StoreSwap; here a  *)
(* sync is three steps and a store the number of the commit it was synced to.   *)
EXTENDS Registry, FiniteSets

CONSTANTS
  Daemons,    \* processes clients may start as gitlexd: a bound on starts
  CmdOps,     \* the commands that are run, each process runs one
  OldRepos,   \* repositories initialised and committed to before
  Synced,     \* ... and those of them that were synced
  Started,    \* a daemon already started by hand, or none
  Impatient   \* whether clients give up waiting (10 s for DELETE, 1 h for a sync)

ASSUME MachineConstants ==
  /\ None \notin Daemons \cup Dirs \cup Nat
  /\ Daemons \cap Procs = {}
  /\ CmdOps \subseteq {"init", "save", "query", "sync", "kit", "nuke", "stop", "restart"}
  /\ OldRepos \subseteq Dirs /\ Synced \subseteq OldRepos
  /\ Started \subseteq Daemons /\ Cardinality(Started) <= 1
  /\ Impatient \in BOOLEAN

VARIABLES
  lex,      \* repositories with a .lex/
  yml,      \* ... with a .lex/repo.yml: set up, which only init does
  head,     \* repository -> number of commits on its branch
  store,    \* repository -> the commit its store was synced to; 0 an empty one; None
  holder,   \* repository -> the process with its store directory open (RocksDB's lock)
  dm,       \* where each gitlexd process stands
  todo,     \* process or daemon -> registry entries its re-read has yet to take in
  held,     \* daemon -> repositories whose soul is on its list
  open,     \* daemon -> souls on the list with an open store
  moved,    \* daemon -> souls whose watcher has not seen HEAD yet
  want,     \* daemon -> souls asked to sync
  closing,  \* daemon -> repositories a forget is about to close the store of
  runs,     \* daemon -> its running syncs
  cmd,      \* process -> its command
  pc,       \* process -> where it stands
  via,      \* process -> the daemon its request is at
  since,    \* process -> history: HEAD when its sync was asked for; 0 when excused
  gone      \* history: repositories nuked and not initialised since

repos == <<lex, yml, head, store, holder>>
daemon == <<dm, held, open, moved, want, closing, runs>>
client == <<cmd, pc, via, since>>
mvars == <<rvars, repos, daemon, todo, client, gone>>

Run == [dir : Dirs, gone : BOOLEAN, robbed : BOOLEAN, asked : SUBSET Procs,
        phase : {"spawned", "entered", "writing"}, to : Nat]

Alive(b) == dm[b] \in {"binding", "opening", "serving", "stopping"}
PortTaken == \E b \in Daemons : dm[b] \in {"opening", "serving"}
Serving == {b \in Daemons : dm[b] = "serving"}

(* registry_entries, as far as a daemon can key them: rows whose .lex/ is     *)
(* there, with a first commit recorded or found by git.                       *)
Entries ==
  {d \in lex : \E n \in NamesOf(d) : rows[n] # None /\ (rows[n].genesis # None \/ head[d] > 0)}

(* The soul a genesis finds: with clones it need not be the repository's own. *)
Found(b, d) == {s \in held[b] : GenesisOf[s] = GenesisOf[d]}

MInit ==
  /\ RInit
  /\ lex = OldRepos /\ yml = OldRepos
  /\ head = [d \in Dirs |-> IF d \in OldRepos THEN 1 ELSE 0]
  /\ store = [d \in Dirs |-> IF d \in Synced THEN 1 ELSE None]
  /\ holder = [d \in Dirs |-> None]
  /\ dm = [b \in Daemons |-> IF b \in Started THEN "binding" ELSE "off"]
  /\ todo = [x \in Procs \cup Daemons |-> {}]
  /\ held = [b \in Daemons |-> {}]
  /\ open = [b \in Daemons |-> {}]
  /\ moved = [b \in Daemons |-> {}]
  /\ want = [b \in Daemons |-> {}]
  /\ closing = [b \in Daemons |-> {}]
  /\ runs = [b \in Daemons |-> {}]
  /\ cmd = [p \in Procs |-> None]
  /\ pc = [p \in Procs |-> "new"]
  /\ via = [p \in Procs |-> None]
  /\ since = [p \in Procs |-> 0]
  /\ gone = {}

Goto(p, l) == pc' = [pc EXCEPT ![p] = l]

(* A commit moves HEAD; every watcher has yet to see it. *)
Commits(d) ==
  /\ head' = [head EXCEPT ![d] = @ + 1]
  /\ moved' = [b \in Daemons |-> moved[b] \cup ({d} \cap held[b])]

-----------------------------------------------------------------------------
(* Every command: main() registers the repository before it runs.             *)

Begin(p) ==
  /\ pc[p] = "new"
  /\ \E o \in CmdOps, d \in Dirs :
       /\ cmd' = [cmd EXCEPT ![p] = [op |-> o, dir |-> d]]
       /\ IF o \in {"stop", "restart"}
          THEN Goto(p, "run") /\ UNCHANGED rvars
          ELSE \/ d \in lex /\ Come(p, [kind |-> "put", dir |-> d]) /\ Goto(p, "touch")
               \/ d \notin lex /\ o = "init" /\ Goto(p, "run") /\ UNCHANGED rvars
               \/ d \notin lex /\ o = "nuke" /\ Come(p, [kind |-> "remove", dir |-> d])
                               /\ Goto(p, "unlisting")
               \/ d \notin lex /\ o \notin {"init", "nuke"} /\ Goto(p, "failed") /\ UNCHANGED rvars
  /\ UNCHANGED <<repos, daemon, todo, via, since, gone>>

(* Registering is bookkeeping: whether it worked changes nothing. *)
Touched(p) ==
  /\ pc[p] = "touch" /\ at[p] = "out"
  /\ Goto(p, "run")
  /\ UNCHANGED <<rvars, repos, daemon, todo, cmd, via, since, gone>>

RegistryStep(p) == UpdateStep(p) /\ UNCHANGED <<repos, daemon, todo, client, gone>>

-----------------------------------------------------------------------------
(* git lex init: .lex/, then a commit, the ontologies into the store, and the *)
(* registry last.                                                             *)

InitLex(p) ==
  /\ pc[p] = "run" /\ cmd[p].op = "init"
  /\ lex' = lex \cup {cmd[p].dir}
  /\ yml' = yml \cup {cmd[p].dir}
  /\ gone' = gone \ {cmd[p].dir}
  /\ Goto(p, "init commit")
  /\ UNCHANGED <<rvars, head, store, holder, daemon, todo, cmd, via, since>>

InitCommit(p) ==
  /\ pc[p] = "init commit"
  /\ Commits(cmd[p].dir)
  /\ Goto(p, "load")
  /\ UNCHANGED <<rvars, lex, yml, store, holder, dm, held, open, want, closing, runs, todo, cmd,
                 via, since, gone>>

NotSetUp(p) ==
  /\ pc[p] = "run" /\ cmd[p].op \in {"save", "kit"}
  /\ cmd[p].dir \notin yml
  /\ Goto(p, "failed")
  /\ UNCHANGED <<rvars, repos, daemon, todo, cmd, via, since, gone>>

(* git lex kit-update, kit-add, kit-remove end as init does: reload_ontology_ *)
(* graph opens the store in this process. It fails while another has it open. *)
KitChanged(p) ==
  /\ pc[p] = "run" /\ cmd[p].op = "kit" /\ cmd[p].dir \in yml
  /\ Goto(p, "load")
  /\ UNCHANGED <<rvars, repos, daemon, todo, cmd, via, since, gone>>

OpenStore(p) ==
  LET d == cmd[p].dir IN
  /\ pc[p] \in {"load", "in place"}
  /\ IF d \in yml /\ holder[d] = None
     THEN /\ holder' = [holder EXCEPT ![d] = p]
          /\ store' = [store EXCEPT ![d] = IF @ = None THEN 0 ELSE @]
          /\ Goto(p, IF pc[p] = "load" THEN "loading" ELSE "syncing")
     ELSE Goto(p, "failed") /\ UNCHANGED <<holder, store>>
  /\ UNCHANGED <<rvars, lex, yml, head, daemon, todo, cmd, via, since, gone>>

(* The directory may have been moved aside or deleted meanwhile. *)
CloseLoaded(p) ==
  LET d == cmd[p].dir IN
  /\ pc[p] = "loading"
  /\ holder' = IF holder[d] = p THEN [holder EXCEPT ![d] = None] ELSE holder
  /\ IF cmd[p].op = "init"
     THEN Come(p, [kind |-> "put", dir |-> d]) /\ Goto(p, "adding")
     ELSE Goto(p, "done") /\ UNCHANGED rvars
  /\ UNCHANGED <<lex, yml, head, store, daemon, todo, cmd, via, since, gone>>

RegistryDone(p) ==
  /\ at[p] = "out"
  /\ \/ pc[p] = "adding" /\ Goto(p, "done")
     \/ pc[p] = "unlisting" /\ Goto(p, "last commit")
  /\ UNCHANGED <<rvars, repos, daemon, todo, cmd, via, since, gone>>

-----------------------------------------------------------------------------
(* git lex save commits and nudges; git lex sync hands over to a running      *)
(* gitlexd; git lex query starts one if it must.                              *)

Save(p) ==
  /\ pc[p] = "run" /\ cmd[p].op = "save"
  /\ cmd[p].dir \in yml
  /\ Commits(cmd[p].dir)
  /\ Goto(p, "ask")
  /\ UNCHANGED <<rvars, lex, yml, store, holder, dm, held, open, want, closing, runs, todo, cmd,
                 via, since, gone>>

Health(p) ==
  /\ \/ pc[p] = "run" /\ cmd[p].op = "query"
     \/ pc[p] = "poll"
  /\ Serving # {}
  /\ Goto(p, "ask")
  /\ UNCHANGED <<rvars, repos, daemon, todo, cmd, via, since, gone>>

StartDaemon(p) ==
  /\ \/ pc[p] = "run" /\ cmd[p].op = "query" /\ Serving = {} /\ Goto(p, "poll")
     \/ pc[p] = "restarting" /\ Goto(p, "done")
  /\ \E b \in Daemons : dm[b] = "off" /\ dm' = [dm EXCEPT ![b] = "binding"]
  /\ UNCHANGED <<rvars, repos, held, open, moved, want, closing, runs, todo, cmd, via, since, gone>>

(* Sixty seconds without an answer; nothing left to wait for; or one start    *)
(* more than Daemons bounds.                                                  *)
PollTimesOut(p) ==
  /\ \/ /\ pc[p] = "poll" /\ Serving = {}
        /\ Impatient \/ \A b \in Daemons : dm[b] \in {"dead", "stopping"}
     \/ pc[p] = "restarting" /\ \A b \in Daemons : dm[b] # "off"
     \/ pc[p] = "run" /\ cmd[p].op = "query" /\ Serving = {} /\ \A b \in Daemons : dm[b] # "off"
  /\ Goto(p, "failed")
  /\ UNCHANGED <<rvars, repos, daemon, todo, cmd, via, since, gone>>

SyncCommand(p) ==
  /\ pc[p] = "run" /\ cmd[p].op = "sync"
  /\ since' = [since EXCEPT ![p] = head[cmd[p].dir]]
  /\ Goto(p, IF Serving = {} THEN "in place" ELSE "ask")
  /\ UNCHANGED <<rvars, repos, daemon, todo, cmd, via, gone>>

(* The engine in this process: it writes the store where it lies. A nuke, and *)
(* a daemon told to stop whose sync still ends, may take it away meanwhile.   *)
InPlaceAt(d) == {p \in Procs : pc[p] = "syncing" /\ cmd[p].dir = d}
Excuse(P) == since' = [p \in Procs |-> IF p \in P THEN 0 ELSE since[p]]

SyncInPlace(p) ==
  LET d == cmd[p].dir IN
  /\ pc[p] = "syncing"
  /\ IF holder[d] = p
     THEN store' = [store EXCEPT ![d] = head[d]] /\ holder' = [holder EXCEPT ![d] = None]
     ELSE UNCHANGED <<store, holder>>
  /\ Goto(p, "done")
  /\ UNCHANGED <<rvars, lex, yml, head, daemon, todo, cmd, via, since, gone>>

-----------------------------------------------------------------------------
(* A request at the daemon, once it has its soul: a query reads an open       *)
(* store, all else asks for a sync. A nudge does not wait for it.             *)

Handle(p, b) ==
  LET s == CHOOSE x \in Found(b, cmd[p].dir) : TRUE
      answered == cmd[p].op = "save" \/ (cmd[p].op = "query" /\ s \in open[b]) IN
  /\ want' = IF cmd[p].op = "query" /\ s \in open[b] THEN want
             ELSE [want EXCEPT ![b] = @ \cup {s}]
  /\ via' = [via EXCEPT ![p] = IF answered THEN None ELSE b]
  /\ Goto(p, IF answered THEN "done" ELSE "waiting")

(* A genesis it does not hold makes it read the registry again, entry by      *)
(* entry, before the request is a miss.                                       *)
Ask(p) ==
  /\ pc[p] = "ask"
  /\ \/ \E b \in Serving :
          IF Found(b, cmd[p].dir) # {}
          THEN Handle(p, b) /\ UNCHANGED todo
          ELSE /\ via' = [via EXCEPT ![p] = b]
               /\ todo' = [todo EXCEPT ![p] = {d \in Entries : Found(b, d) = {}}]
               /\ Goto(p, "refresh")
               /\ UNCHANGED want
     \/ /\ Serving = {}
        /\ Goto(p, IF cmd[p].op = "save" THEN "done" ELSE "failed")
        /\ UNCHANGED <<via, todo, want>>
  /\ UNCHANGED <<rvars, repos, dm, held, open, moved, closing, runs, cmd, since, gone>>

\* As mutants would: no look for a duplicate; no first reading of HEAD.
AdoptAnyway(b, d) ==
  /\ held' = [held EXCEPT ![b] = @ \cup {d}]
  /\ moved' = [moved EXCEPT ![b] = @ \cup {d}]
  /\ UNCHANGED <<open, holder>>

AdoptAsSynced(b, d) ==
  /\ held' = [held EXCEPT ![b] = @ \cup {d}]
  /\ IF store[d] # None /\ holder[d] = None
     THEN open' = [open EXCEPT ![b] = @ \cup {d}] /\ holder' = [holder EXCEPT ![d] = b]
     ELSE UNCHANGED <<open, holder>>
  /\ UNCHANGED moved

(* Daemon::adopt, under the list's write lock: nothing when a soul with this  *)
(* first commit is held; else open the store, if there is one and it opens.   *)
Adopt(b, d) ==
  IF Found(b, d) # {}
  THEN UNCHANGED <<held, open, moved, holder>>
  ELSE /\ held' = [held EXCEPT ![b] = @ \cup {d}]
       /\ moved' = [moved EXCEPT ![b] = @ \cup {d}]
       /\ IF store[d] # None /\ holder[d] = None
          THEN open' = [open EXCEPT ![b] = @ \cup {d}] /\ holder' = [holder EXCEPT ![d] = b]
          ELSE UNCHANGED <<open, holder>>

Refresh(p) ==
  /\ pc[p] = "refresh" /\ Alive(via[p])
  /\ \E d \in todo[p] :
       /\ Adopt(via[p], d)
       /\ todo' = [todo EXCEPT ![p] = @ \ {d}]
  /\ UNCHANGED <<rvars, lex, yml, head, store, dm, want, closing, runs, client, gone>>

FindAgain(p) ==
  /\ pc[p] = "refresh" /\ todo[p] = {} /\ Alive(via[p])
  /\ IF Found(via[p], cmd[p].dir) # {}
     THEN Handle(p, via[p])
     ELSE /\ via' = [via EXCEPT ![p] = None]
          /\ Goto(p, CASE cmd[p].op = "sync" -> "in place"
                       [] cmd[p].op = "save" -> "done"
                       [] OTHER -> "failed")
          /\ UNCHANGED want
  /\ UNCHANGED <<rvars, repos, dm, held, open, moved, closing, runs, todo, cmd, since, gone>>

(* A client stops waiting, or its daemon is no more.                          *)
ClientGivesUp(p) ==
  /\ pc[p] \in {"waiting", "lost", "refresh", "forgetting"}
  /\ Impatient \/ dm[via[p]] = "dead"
  /\ IF pc[p] = "forgetting"
     THEN /\ closing' = [closing EXCEPT ![via[p]] = @ \ {cmd[p].dir}]
          /\ Goto(p, "snapshot")
     ELSE Goto(p, IF cmd[p].op = "save" THEN "done" ELSE "failed") /\ UNCHANGED closing
  /\ via' = [via EXCEPT ![p] = None]
  /\ todo' = [todo EXCEPT ![p] = {}]
  /\ UNCHANGED <<rvars, repos, dm, held, open, moved, want, runs, cmd, since, gone>>

-----------------------------------------------------------------------------
(* The daemon's soul loops run from serve on, until the process ends. *)

Looping(b) == dm[b] \in {"serving", "stopping"}

WatchHead(b, s) ==
  /\ Looping(b) /\ s \in moved[b] /\ s \in lex
  /\ moved' = [moved EXCEPT ![b] = @ \ {s}]
  /\ want' = IF head[s] > 0 /\ (s \notin open[b] \/ store[s] # head[s])
             THEN [want EXCEPT ![b] = @ \cup {s}] ELSE want
  /\ UNCHANGED <<rvars, repos, dm, held, open, closing, runs, todo, client, gone>>

SoulRuns(b, s) == {r \in runs[b] : r.dir = s /\ ~r.gone}

(* Whoever waits for soul s at b and has asked before this sync begins. *)
Waiters(b, s) == {p \in Procs : pc[p] = "waiting" /\ via[p] = b /\ s \in Found(b, cmd[p].dir)}

(* Without .lex/ there is nothing to do, which `git lex sync` calls synced; a *)
(* query has no store.                                                        *)
AfterNoSync(p) == IF cmd[p].op = "sync" THEN "done" ELSE "failed"

BeginSync(b, s) ==
  /\ s \in want[b] /\ s \in held[b] /\ SoulRuns(b, s) = {}
  /\ want' = [want EXCEPT ![b] = @ \ {s}]
  /\ IF s \in lex
     THEN /\ runs' = [runs EXCEPT ![b] = @ \cup
               {[dir |-> s, gone |-> FALSE, robbed |-> FALSE, asked |-> Waiters(b, s),
                 phase |-> "spawned", to |-> 0]}]
          /\ UNCHANGED <<pc, via>>
     ELSE /\ pc' = [p \in Procs |-> IF p \in Waiters(b, s) THEN AfterNoSync(p) ELSE pc[p]]
          /\ via' = [p \in Procs |-> IF p \in Waiters(b, s) THEN None ELSE via[p]]
          /\ UNCHANGED runs
  /\ UNCHANGED <<rvars, repos, dm, held, open, moved, closing, todo, cmd, since, gone>>

Turned(b, r, new) == runs' = [runs EXCEPT ![b] = (@ \ {r}) \cup {new}]

(* The worker refuses a repository without .lex/ (require_lex_repo), resolves *)
(* HEAD ...                                                                   *)
WorkerEnters(b, r) ==
  /\ r \in runs[b] /\ r.phase = "spawned" /\ r.dir \in yml
  /\ Turned(b, r, [r EXCEPT !.phase = "entered", !.to = head[r.dir]])
  /\ UNCHANGED <<rvars, repos, dm, held, open, moved, want, closing, todo, client, gone>>

(* ... and from then on creates what is missing on the way to its store. *)
WorkerCreates(b, r) ==
  /\ r \in runs[b] /\ r.phase = "entered"
  /\ Turned(b, r, [r EXCEPT !.phase = "writing"])
  /\ lex' = lex \cup {r.dir}
  /\ UNCHANGED <<rvars, yml, head, store, holder, dm, held, open, moved, want, closing, todo, client,
                 gone>>

(* A sync ends. Only a finished copy of a soul still held is swapped in: the  *)
(* new directory is this daemon's, whoever had the old one open. Then the     *)
(* copy's directory is cleaned up, also the one of another sync of this soul. *)
Succeeds(b, r) == r.phase = "writing" /\ r.dir \in lex /\ ~r.robbed

\* As a mutant would: with the sync that ends, everybody is answered.
AnsweredAll(b, r) == {p \in Waiters(b, r.dir) : ~r.gone}

(* Only the loop of a soul still held announces, and only to those who had    *)
(* asked before the sync began.                                               *)
Answered(b, r) ==
  {p \in r.asked : ~r.gone /\ via[p] = b /\ pc[p] = "waiting"}

EndSync(b, r) ==
  LET d == r.dir
      swapped == Succeeds(b, r) /\ ~r.gone IN
  /\ r \in runs[b]
  /\ r.phase = "writing" \/ (r.phase = "spawned" /\ d \notin yml)
  /\ runs' = [runs EXCEPT ![b] =
       {IF o.dir = d THEN [o EXCEPT !.robbed = TRUE] ELSE o : o \in @ \ {r}}]
  /\ IF swapped
     THEN /\ store' = [store EXCEPT ![d] = r.to]
          /\ holder' = [holder EXCEPT ![d] = b]
          /\ open' = [open EXCEPT ![b] = @ \cup {d}]
     ELSE UNCHANGED <<store, holder, open>>
  /\ pc' = [p \in Procs |-> IF p \in Answered(b, r)
                            THEN IF swapped THEN "done" ELSE "failed" ELSE pc[p]]
  /\ via' = [p \in Procs |-> IF p \in Answered(b, r) THEN None ELSE via[p]]
  /\ Excuse(IF swapped /\ dm[b] = "stopping" THEN InPlaceAt(d) ELSE {})
  /\ UNCHANGED <<rvars, lex, yml, head, dm, held, moved, want, closing, todo, cmd, gone>>

(* Daemon::forget takes the soul off the list; its store is closed when no    *)
(* sync of it runs.                                                           *)
Forget(b, s) ==
  /\ held' = [held EXCEPT ![b] = @ \ {s}]
  /\ open' = [open EXCEPT ![b] = @ \ {s}]
  /\ moved' = [moved EXCEPT ![b] = @ \ {s}]
  /\ want' = [want EXCEPT ![b] = @ \ {s}]
  /\ runs' = [runs EXCEPT ![b] = {IF r.dir = s THEN [r EXCEPT !.gone = TRUE] ELSE r : r \in @}]
  /\ closing' = [closing EXCEPT ![b] = @ \cup {s}]

(* ... and whoever waits for it is not told any more.                         *)
Lost(b, s, l) == [p \in Procs |-> IF p \in Waiters(b, s) THEN "lost" ELSE l[p]]

WatchForget(b, s) ==
  /\ Looping(b) /\ s \in held[b] /\ s \notin lex
  /\ Forget(b, s)
  /\ pc' = Lost(b, s, pc)
  /\ UNCHANGED <<rvars, repos, dm, todo, cmd, via, since, gone>>

CloseForgotten(b, s) ==
  /\ s \in closing[b]
  /\ \A r \in runs[b] : r.dir = s => ~r.gone
  /\ closing' = [closing EXCEPT ![b] = @ \ {s}]
  /\ holder' = IF holder[s] = b /\ s \notin open[b] THEN [holder EXCEPT ![s] = None] ELSE holder
  /\ UNCHANGED <<rvars, lex, yml, head, store, dm, held, open, moved, want, runs, todo, client, gone>>

-----------------------------------------------------------------------------
(* git lex nuke. *)

NukeForget(p) ==
  LET d == cmd[p].dir IN
  /\ pc[p] = "run" /\ cmd[p].op = "nuke"
  /\ \/ \E b \in Serving : \E s \in Found(b, d) :
          /\ Forget(b, s)
          /\ via' = [via EXCEPT ![p] = b]
          /\ pc' = Lost(b, s, [pc EXCEPT ![p] = "forgetting"])
     \/ /\ \A b \in Serving : Found(b, d) = {}
        /\ Goto(p, "snapshot")
        /\ UNCHANGED <<held, open, moved, want, runs, closing, via>>
  /\ UNCHANGED <<rvars, repos, dm, todo, cmd, since, gone>>

Forgotten(p) ==
  /\ pc[p] = "forgetting"
  /\ cmd[p].dir \notin closing[via[p]]
  /\ via' = [via EXCEPT ![p] = None]
  /\ Goto(p, "snapshot")
  /\ UNCHANGED <<rvars, repos, daemon, todo, cmd, since, gone>>

NukeSnapshot(p) ==
  /\ pc[p] = "snapshot"
  /\ Commits(cmd[p].dir)
  /\ Goto(p, "delete")
  /\ UNCHANGED <<rvars, lex, yml, store, holder, dm, held, open, want, closing, runs, todo, cmd, via,
                 since, gone>>

NukeDelete(p) ==
  LET d == cmd[p].dir IN
  /\ pc[p] = "delete"
  /\ lex' = lex \ {d} /\ yml' = yml \ {d}
  /\ store' = [store EXCEPT ![d] = None]
  /\ holder' = [holder EXCEPT ![d] = None]
  /\ gone' = gone \cup {d}
  /\ Excuse(InPlaceAt(d))
  /\ Come(p, [kind |-> "remove", dir |-> d])
  /\ Goto(p, "unlisting")
  /\ UNCHANGED <<head, daemon, todo, cmd, via>>

(* Commit what the removal changed, if it changed anything. *)
NukeCommit(p) ==
  /\ pc[p] = "last commit"
  /\ Commits(cmd[p].dir) \/ UNCHANGED <<head, moved>>
  /\ Goto(p, "done")
  /\ UNCHANGED <<rvars, lex, yml, store, holder, dm, held, open, want, closing, runs, todo, cmd, via,
                 since, gone>>

-----------------------------------------------------------------------------
(* gitlexd processes. *)

(* The port is bound before anything else; who loses it exits. *)
Bind(b) ==
  /\ dm[b] = "binding"
  /\ IF PortTaken
     THEN dm' = [dm EXCEPT ![b] = "dead"] /\ UNCHANGED todo
     ELSE dm' = [dm EXCEPT ![b] = "opening"] /\ todo' = [todo EXCEPT ![b] = Entries]
  /\ UNCHANGED <<rvars, repos, held, open, moved, want, closing, runs, client, gone>>

OpenNext(b) ==
  /\ dm[b] = "opening"
  /\ \E d \in todo[b] : Adopt(b, d) /\ todo' = [todo EXCEPT ![b] = @ \ {d}]
  /\ UNCHANGED <<rvars, lex, yml, head, store, dm, want, closing, runs, client, gone>>

Serve(b) ==
  /\ dm[b] = "opening" /\ todo[b] = {}
  /\ dm' = [dm EXCEPT ![b] = "serving"]
  /\ UNCHANGED <<rvars, repos, held, open, moved, want, closing, runs, todo, client, gone>>

InFlight(b) == \E p \in Procs : via[p] = b

(* The process ends: its stores are closed by the system. *)
Ends(B) ==
  /\ dm' = [b \in Daemons |-> IF b \in B THEN "dead" ELSE dm[b]]
  /\ held' = [b \in Daemons |-> IF b \in B THEN {} ELSE held[b]]
  /\ open' = [b \in Daemons |-> IF b \in B THEN {} ELSE open[b]]
  /\ moved' = [b \in Daemons |-> IF b \in B THEN {} ELSE moved[b]]
  /\ want' = [b \in Daemons |-> IF b \in B THEN {} ELSE want[b]]
  /\ closing' = [b \in Daemons |-> IF b \in B THEN {} ELSE closing[b]]
  /\ runs' = [b \in Daemons |-> IF b \in B THEN {} ELSE runs[b]]
  /\ holder' = [d \in Dirs |-> IF holder[d] \in B THEN None ELSE holder[d]]
  /\ todo' = [x \in Procs \cup Daemons |-> IF x \in B THEN {} ELSE todo[x]]

(* gitlexd stop: SIGTERM. A serving daemon closes its port and lets requests  *)
(* finish; one that does not serve yet has no handler and dies.               *)
Terminate(p) ==
  LET early == {b \in Daemons : dm[b] \in {"binding", "opening"}} IN
  /\ pc[p] = "run" /\ cmd[p].op \in {"stop", "restart"}
  /\ dm' = [b \in Daemons |-> CASE b \in early -> "dead"
                                [] dm[b] = "serving" -> "stopping"
                                [] OTHER -> dm[b]]
  /\ todo' = [x \in Procs \cup Daemons |-> IF x \in early THEN {} ELSE todo[x]]
  /\ held' = [b \in Daemons |-> IF b \in early THEN {} ELSE held[b]]
  /\ open' = [b \in Daemons |-> IF b \in early THEN {} ELSE open[b]]
  /\ moved' = [b \in Daemons |-> IF b \in early THEN {} ELSE moved[b]]
  /\ holder' = [d \in Dirs |-> IF holder[d] \in early THEN None ELSE holder[d]]
  /\ Goto(p, "stopping")
  /\ UNCHANGED <<rvars, lex, yml, head, store, want, closing, runs, cmd, via, since, gone>>

Exit(b) ==
  /\ dm[b] = "stopping" /\ ~InFlight(b)
  /\ Ends({b})
  /\ UNCHANGED <<rvars, lex, yml, head, store, client, gone>>

AfterStop(p) == IF cmd[p].op = "restart" THEN "restarting" ELSE "done"

AllExited(p) ==
  /\ pc[p] = "stopping"
  /\ \A b \in Daemons : ~Alive(b)
  /\ Goto(p, AfterStop(p))
  /\ UNCHANGED <<rvars, repos, daemon, todo, cmd, via, since, gone>>

(* Five seconds later: SIGKILL for whoever is left, a newcomer included. *)
KillLeft(p) ==
  /\ pc[p] = "stopping"
  /\ \E b \in Daemons : Alive(b)
  /\ Ends({b \in Daemons : Alive(b)})
  /\ Goto(p, AfterStop(p))
  /\ UNCHANGED <<rvars, lex, yml, head, store, cmd, via, since, gone>>

-----------------------------------------------------------------------------
CommandStep(p) ==
  \/ Begin(p) \/ Touched(p) \/ RegistryStep(p) \/ RegistryDone(p)
  \/ InitLex(p) \/ InitCommit(p) \/ NotSetUp(p) \/ KitChanged(p) \/ OpenStore(p) \/ CloseLoaded(p)
  \/ Save(p) \/ Health(p) \/ StartDaemon(p) \/ PollTimesOut(p) \/ SyncCommand(p)
  \/ SyncInPlace(p) \/ Ask(p) \/ Refresh(p) \/ FindAgain(p) \/ ClientGivesUp(p)
  \/ NukeForget(p) \/ Forgotten(p) \/ NukeSnapshot(p) \/ NukeDelete(p) \/ NukeCommit(p)
  \/ Terminate(p) \/ AllExited(p) \/ KillLeft(p)

SoulStep(b) ==
  \/ \E s \in Dirs : \/ WatchHead(b, s) \/ BeginSync(b, s)
                     \/ WatchForget(b, s) \/ CloseForgotten(b, s)
  \/ \E r \in runs[b] : WorkerEnters(b, r) \/ WorkerCreates(b, r) \/ EndSync(b, r)

DaemonStep(b) == Bind(b) \/ OpenNext(b) \/ Serve(b) \/ Exit(b)

MNext ==
  \/ \E p \in Procs : CommandStep(p)
  \/ \E b \in Daemons : SoulStep(b) \/ DaemonStep(b)

MSpec == MInit /\ [][MNext]_mvars

-----------------------------------------------------------------------------
MTypeOK ==
  /\ lex \subseteq Dirs /\ yml \subseteq lex /\ gone \subseteq Dirs
  /\ head \in [Dirs -> Nat]
  /\ store \in [Dirs -> Nat \cup {None}]
  /\ holder \in [Dirs -> Procs \cup Daemons \cup {None}]
  /\ dm \in [Daemons -> {"off", "binding", "opening", "serving", "stopping", "dead"}]
  /\ todo \in [Procs \cup Daemons -> SUBSET Dirs]
  /\ held \in [Daemons -> SUBSET Dirs] /\ open \in [Daemons -> SUBSET Dirs]
  /\ moved \in [Daemons -> SUBSET Dirs] /\ want \in [Daemons -> SUBSET Dirs]
  /\ closing \in [Daemons -> SUBSET Dirs]
  /\ runs \in [Daemons -> SUBSET Run]
  /\ via \in [Procs -> Daemons \cup {None}]
  /\ since \in [Procs -> Nat]

(* Two requests that miss at once re-read the registry side by side; a soul   *)
(* joins once (daemon.rs:209-232, http.rs:31-34), clones included.            *)
OneSoulPerGenesis ==
  \A b \in Daemons : \A s, t \in held[b] : GenesisOf[s] = GenesisOf[t] => s = t

(* A `git lex sync` that ends well leaves this repository's store at least    *)
(* where HEAD was when it was asked for, whoever did the sync (main.rs:336-   *)
(* 364): the daemon or this process, beside daemons that start, swap and stop.*)
(* Excused is a sync in this process under which a nuke took the store, or a  *)
(* daemon told to stop put an older one. Of clones on one machine a daemon    *)
(* holds one, and syncs that one.                                             *)
SyncEndsWell(p) == pc[p] # "done" /\ pc'[p] = "done" /\ cmd[p].op = "sync"
Cloned(d) == \E e \in Dirs : e # d /\ GenesisOf[e] = GenesisOf[d]

SyncedHere ==
  [][\A p \in Procs : SyncEndsWell(p) /\ cmd[p].dir \in lex /\ ~Cloned(cmd[p].dir) =>
       \/ since[p] = 0
       \/ store'[cmd[p].dir] # None /\ store'[cmd[p].dir] >= since[p]]_mvars

(* A command comes to its end: no lock, wait or stop holds it for ever. The    *)
(* run has those that use the registry, a daemon or both: save, sync, restart. *)
CommandsEnd == \A p \in Procs : <>(pc[p] \in {"done", "failed"})

(* Once no command runs, a daemon that serves brings the store of every soul  *)
(* it holds to where HEAD is: a commit whose nudge met a daemon that was      *)
(* starting or stopping is not left out (daemon.rs:290-301).                  *)
AtRest(b, d) ==
  /\ \A p \in Procs : pc[p] \in {"done", "failed"}
  /\ dm[b] = "serving" /\ d \in held[b]

StoresCatchUp == \A b \in Daemons, d \in Dirs : AtRest(b, d) ~> store[d] = head[d]

(* Said of the code, not so of the code: `git lex nuke` has the daemon close  *)
(* the store first, which then "never syncs the repository again"             *)
(* (http.rs:218-220).                                                         *)
NukedStaysGone == gone \cap lex = {}

(* Said of the code, not so of the code: the port "is what keeps two gitlexd  *)
(* from ever holding stores at once" (http.rs:361-362).                       *)
OneHoldsStores == \A b, c \in Daemons : open[b] # {} /\ open[c] # {} => b = c

-----------------------------------------------------------------------------
(* The scheduler runs every process and every task of a daemon. Nobody need   *)
(* be killed over the registry.                                               *)
Killed(p) == at[p] \in {"locking", "writing"} /\ at'[p] = "out"

MFairness ==
  /\ \A p \in Procs : WF_mvars(CommandStep(p) /\ ~Killed(p))
  /\ \A b \in Daemons :
       /\ WF_mvars(DaemonStep(b))
       /\ \A s \in Dirs : /\ WF_mvars(WatchHead(b, s))
                         /\ WF_mvars(BeginSync(b, s))
                         /\ WF_mvars(CloseForgotten(b, s))
       /\ WF_mvars(\E r \in runs[b] : WorkerEnters(b, r) \/ WorkerCreates(b, r) \/ EndSync(b, r))

MFairSpec == MSpec /\ MFairness
=============================================================================
