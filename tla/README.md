# git-lex in TLA+

Models of git-lex (Rust, `src/src/`), checked with TLC and proved about with
TLAPS. git-lex turns the documents of a git repository into RDF: a pre-commit
hook writes one *sidecar* per document under `.lex/extract/`, and *sync* walks
the commits of the default branch and keeps an oxigraph (RocksDB) store with
every statement's history. One daemon, *gitlexd*, holds the stores of all
repositories (*souls*) of a machine, queries them over HTTP and syncs them by
running the sync engine in a worker process on a copy of the store.

Paths below are relative to `src/src/`.

## 1. Inventory

### gitlexd

| Component | State | Operations | Hard because |
|---|---|---|---|
| **Soul** (`gitlexd/daemon.rs:46-113, 290-512`, `gitlexd/http.rs`) | the open store behind an `RwLock`, `SoulStatus`, ticket counters `requested`/`completed`, a `Notify`, the `syncing` mutex, `gone` | `request_sync`, `wait_for`, `sync_loop`, `sync_once`, `watch_loop`, `forget`; handlers: query, sync (`?wait=1` or not), DELETE | three kinds of task and any number of handlers share one object; status is read after waits; a client that hangs up drops its handler in the middle |
| **Store directories** (`daemon.rs:403-462`, `layout.rs:88-109`) | `oxigraph`, `oxigraph.next`, `oxigraph.prev` on disk, the open handle | `copy_store`, the worker, `swap_in`, `recover_swap`, `open_existing`, cleanup | the daemon may be killed between any two file operations; its worker outlives it; renames, copies and opens fail; `git lex sync` may write the live store without it |
| **List of souls** (`daemon.rs:115-288`) | genesis → `Soul`, read again from `~/.lex/repos.json` | `find`, `refresh`, `adopt`, `souls`, `forget` | a soul forgotten and adopted again has two `Soul` objects over the same directories for a while |
| **Process** (`bin/gitlexd.rs`, `gitlexd/client.rs`) | the port, pid, spawned daemons | `run`, `bind_port`, `stop_all`, `ensure_running`, `is_worker` | clients start daemons at the same time; the port is freed before the stores are closed |

A handler talks to its soul through shared memory (`Arc<Soul>`), the daemon to
the worker through a child process and its exit code, the worker to the daemon
through the directory it leaves, and git-lex commands to the daemon over HTTP
with a timeout of ten seconds (`client.rs:124`).

*Correct* means: a request that waits for a sync is answered, with a store no
older than the request; the status tells what a query would read; a dropped
soul's store is closed and stays closed; what is served is always a store some
sync finished, also after a crash; the store follows HEAD.

### Sync engine

| Component | State | Operations | Hard because |
|---|---|---|---|
| **Run** (`sync.rs:59-252, 286-690, 1113-1628`) | the store's graphs: one graph (events, base facts), commits graph (ordinals: the marker), now view | fast path, resume, rebuild, clear, verify, now view | nothing but the store says how far a run got; each phase is its own transaction |
| **Walk** (`spo_events.rs:112-163, 1000-1740`) | pending net effect, batches | one event set per commit, retract guard, base layer | several sidecars state one fact; several commits of one append touch one fact; a killed run is walked again |
| **Git layer** (`git2_nquads.rs`, `sync.rs:692-958`) | commits, refs and file-tree graphs, and a text copy beside the store | load diffed, marker last | the text copy belongs to the live store, a worker writes a copy of it |

*Correct* means: a sync that appends ends where a sync from the first commit
would; a run that says "already synced" is right; whatever was killed, a later
sync that succeeds is coherent.

### Commands on one machine

| Component | State | Operations | Hard because |
|---|---|---|---|
| **Registry** (`lib.rs:740-1010`) | `~/.lex/repos.json`, its lock file, the old `~/.lex/repos` | `registry_touch`, `registry_add`, `registry_remove`, `registry_entries` | every command rewrites the whole file; readers take no lock; a writer may be killed; paths are spelled in several ways |
| **Clients and daemons** (`gitlexd/client.rs`, `bin/gitlexd.rs`, `main.rs`) | the port, who holds which store directory, which souls are on a daemon's list | start, adopt, sync over HTTP or in place, `nuke`, `stop`, `restart` | two clients start a daemon at once; the port is free before the stores are; a client gives up while its request goes on |

*Correct* means: no command loses another's repository; a daemon has one soul
per first commit; whoever does the sync, `git lex sync` that says so has synced;
every command ends; the stores catch up with their branches.

### From the working tree to a commit

| Component | State | Operations | Hard because |
|---|---|---|---|
| **Save and the hook** (`save.rs`, `hooks.rs`, `heal.rs`, `spo_events.rs:300-760`) | documents and sidecars in git's three trees | orphans, `git add`, link healing, dates, sidecar moves, extraction, validation, commit; the same hook under a plain `git commit` | each step edits a tree the next one reads; renames are git's guess; a step may fail and the user goes on editing |
| **Walk cache** (`walkcache.rs`, `nquad.rs:746-1268`) | list, manifest and fragments under `.lex/_ignore/` | a walk of a save, a sync or a query | a walk may die at each file; sidecars are git's, the cache is not |
| **Gate** (`shacl.rs`, `ontology.rs`, `extraction.rs`, `resolve.rs`, `save.rs:459-547`) | mirrored ontologies, generated shapes | building the shapes, judging a document | classes of several kits inherit from one another, properties have several spellings, a key is a name |

*Correct* means: what is committed was judged, and its sidecars are the facts of
the committed bytes; dates, links and notes survive renames; a cached walk says
what a full one says; the gate and sync make the same of a document.

### Kits

`kit_cmds.rs`, `kit.rs`, `init.rs`, `harness/`: kits are fetched from GitHub,
their ontologies mirrored, shapes, folders, hooks, agent settings and skills
derived from the mirror. A command is a sequence of steps over files that kits
share; each may fail. *Correct* means: after an update everything derived is
what the installed kits ask for, a receipt never promises bytes nobody fetched,
and nothing of the user's is lost.

### The rest

The git layer's triples, the export spine, read-only queries and authoring
commands. `PROJECT.json` lists each component with its status, and under
`hazards` what is hard to test at the line where it bites.

## 2. Modules

| Module | Models | Composes |
|---|---|---|
| `SoulSync` | one `Soul` and every task that shares it | – |
| `MCSoulSync` | its instances for TLC | `SoulSync` |
| `SoulSyncProofs` | its theorems | `SoulSync` |
| `ServedStore` | what a store promises who queries it: an abstract specification | – |
| `StoreSwap` | the three directories, the daemon's crashes, the worker | implements `ServedStore` |
| `StoreSwapProofs` | its theorems | `StoreSwap` |
| `SyncEngine` | runs of the engine over a branch that grows and is reset | – |
| `MCSyncEngine` | its instances for TLC | `SyncEngine` |
| `SyncEngineProofs` | its theorems | `SyncEngine` |
| `Registry` | `repos.json`, its lock, its writers | – |
| `Machine` | commands, clients and daemons of one machine | `Registry`, whose steps are its commands' steps |
| `MachineProofs` | its theorems, and the registry's | `Machine` |
| `MCMachine` | its instances for TLC | `Machine` |
| `Commit` | save, dry run and commit through the pre-commit hook | – |
| `MCCommit` | its instance for TLC | `Commit` |
| `CommitProofs` | its theorems | `Commit` |
| `WalkCache` | walks and their cache | – |
| `WalkCacheProofs` | its theorems | `WalkCache` |
| `MCWalkCache` | its instance for TLC | `WalkCache` |
| `Gate` | shapes and the judgement of documents | – |
| `MCGate` | its instances for TLC | `Gate` |
| `GateProofs` | its theorems | `Gate` |
| `Kits` | kit commands over the files kits share | – |
| `KitsProofs` | its theorems | `Kits` |
| `MCKits` | its instance for TLC | `Kits` |

`SoulSync`, `StoreSwap` and `SyncEngine` sit on top of one another. In `SoulSync` a store is the commit its
marker names; copying and swapping it is one step each, and `StoreSwap` is
what those steps do on disk. In `StoreSwap` a store is that commit and whether
a run finished it; what a run does to a copy is `SyncEngine`. Each level keeps
of the one below only what its own properties tell apart: `SwapStore` either
installs the new store, keeps the old one or leaves none, which are the
outcomes `StoreSwap`'s swap has. `Machine` is above them: of a soul it keeps
whether its store is open and what it was synced to, of a sync that it was asked
for, entered the repository and ended. `Commit` has the hook's walk as one step
that may die and gitlexd's as a list, reads and writes, and `WalkCache` is what
they do; `Gate` is what its validation
means. What a kit command leaves for `Gate` to read is `Kits`' `shapes`.

### SoulSync

Every variable of the *Soul object* block is a field of `Soul` or
`SoulStatus`; `loop`, `watch`, `forget` and `pc` are where the sync loop, the
watcher, `Daemon::forget` and each handler stand between two awaits.

- `LoopWake` … `SendCompleted` are `sync_loop` and `sync_once` cut at their
  awaits and at the reads of `gone` and `.lex/`. The permit of a `Notify` is
  `wake`, at most one.
- `SwapStore` and `ForgetCloses` need the write lock: no readers. Tokio's lock
  queues in order, so a waiting writer keeps new readers out
  (`WriterWaiting`).
- `built` is the HEAD a worker resolved: HEAD may move before and after. What
  the finished copy is marked with is in `Markers`: `built`, or the commit the
  store had, when HEAD was reset away from a commit that changed no fact
  (`Trailing`), the engine finds HEAD's ordinal and has nothing to do. A swap
  that fails leaves the old store, the new one, or none.
- `?wait=1` reads the status twice, for the code of its answer (`AnswerSync`) and
  for the body (`TellSync`).
- `WatchSeesHead` and `WatchCompares` are one poll, cut where the code reads
  `synced_to` after it has read HEAD.
- `HangUp` is a client giving up on a DELETE: hyper drops the handler's future,
  and with it the rest of `Daemon::forget`.
- `begun`, `ended` and `since` are history variables: no guard reads them.

The semaphore for `PARALLEL_SYNCS` is left out: with one soul it is free.

### StoreSwap and ServedStore

A directory is the commit it is a store of and whether it is whole;
`NoDir` is its absence. RocksDB directories being copied, written or removed
are not whole. `step` is where the daemon stands; `starting` tells adopting
(`open_existing` when the daemon starts) from reopening after a swap. `Crash`
may happen at every step and leaves a running worker as `orphan`, which still
writes the directory at `next` until someone removes it. `RemovalUnderway` is
a `remove_dir_all` killed part-way. Renames are atomic.

`ServedStore` has two variables besides HEAD: the commit on offer and the
candidate of the running sync. `StoreSwap` implements it with `Offered` (what
recovery would find on disk) and `Candidate` (what the running sync has built
until the rename that publishes it).

### SyncEngine

A tree is the set of things each sidecar says. What the walk makes of a
sidecar is `FactsOf`: its document is a File; unless it is `Plain` it anchors
the Thing it is about (`git-lex:fileId`) and says the rest about that Thing.
Two documents with one id are about one Thing, which is where the retract
guard has work to do. `line` is the default branch as a sequence of commits;
`Commit` and `Reset` move it while a run is under way, the run goes on with
the branch `at` it resolved.

A run is `BeginSync`, `ClearDerived`, (`EmptyHistory`,) `WalkCommit`s and
`WriteBatch`es or one `BeginWrite`/`RemoveFact`/`LoadEvents`, the now view, the
git layer, `VerifyOnegraph`, the refresh: the order of `cmd_sync_into`, with a
step for each transaction. `Stop` may end it anywhere. With `OnCopy` a run that
does not succeed leaves the store as it was, because gitlexd throws the copy
away; without it, what was written stays. `unproved` is history: whether, since
the last rebuild, a run in place ended between its ordinals and a check that
passes. Nothing reads it but `SyncedIsCoherent`.

`History` and `TreeFacts` are the reference: what a sync from the first commit
writes, defined without pending sets, guards, batches or markers.

Abstracted, because no property here tells it apart:

- the fact that a rebuild clears and fills the now view in batches: a rebuild
  has removed the ordinals, so the next run rebuilds whatever is there;
- a rebuild that runs out of memory for its batch in the middle of a commit
  writes earlier than `WriteBatch` does: again no ordinal is there;
- refs, file tree and ontology graphs, gates before the run, and what is
  printed. The fast path is `FastPathHit` with a clean `.lex/extract/`;
  `BeginSync` is also possible with the fast path open, which is what
  uncommitted changes there cause;
- merges (the branch is a line of commits), renamed sidecars, and the
  `dev_history_horizon` setting.

### Registry and Machine

`Registry` is `registry_update` cut at its file operations: lock, read and edit
(`draft`), rename, removal of the old file, unlock; a killed process releases
the lock. A row is under a *name*; several names may lead to one repository, so
`PutRow` has to drop and merge rows (`Merged`) as `registry_put` does. `MoveRepo`
(a repository moves to another path while commands run) is in `Registry`'s own
specification `RSpec`, which the theorems are about; `Machine`'s runs keep
repositories where they are.

`Machine` extends it: `CommandStep` is a command between two things another
process can see; `SoulStep` a daemon's task; `holder` is RocksDB's lock on a
store directory, `dm` a daemon's life, `runs` its syncs with the clients that
wait. With `GenesisOf` two repositories may be clones. `since` and `gone` are
history variables; `since` is HEAD when a `git lex sync` was asked for, 0 once
it is excused (3.1).

### Commit

`work`, `index`, `head` and `sideWork`, `sideIndex`, `sideHead` are documents
and sidecars in git's three trees. `git diff -M` is `Renames`: an added
document that says the same as a deleted one, one each. The steps of `cmd_save`
and of the hook are the values of `pc`; `…Dies` and `Dies` end a command in the
middle of one or after it. `Write`, `MoveOnDisk`, `GitMv`, `Stage` and the rest
of the user go on while a command runs; properties about a commit of the user's
documents ask for a command they did not disturb (`quiet`) where they must. `own`
and `tidy` are two more history variables: what the command found when it began
(3.1).

gitlexd's worker walks the same working tree. `SyncLists` is its list of files,
`SyncReads` the reading and parsing of a chunk of them (`Chunks`), `SyncWrites`
the writing of one document's sidecars, from what was read and whatever has
happened since; between any two of these a command or the user may take steps,
and the walk may stop anywhere. `late` is history: whether such a write came
where the command's own steps do not make it good (`Stale`).

`Stamp` goes on as the hook does when it cannot date a document: `missed` is any
set of them, for files it cannot read or write, no clock or no `git diff`, and
always has those whose path git quotes (`Quoted`). `undated` is history: the
documents that should have been dated. `StampDies` is the failure that does stop
the hook, dated files git could not stage.

### WalkCache

A fragment or a sidecar is modelled by what it was made of: the text, the
documents it links to, git's blob and the context (ontology and build). A walk
reads (`Read`), serves or extracts each document, then writes list and manifest
in two steps. `ResetHard` and `Switch` are git putting other bytes and sidecars
in place. `torn`, `swapped` and `reread` are history variables for the three ways
out of the properties, each a finding of its own.

### Kits

A command is a plan: the sequence of steps its function makes with the kits as
they are when it begins. Every step is an action, `StepFails` and `Killed` end
the plan between two. `payload`, `receipt`, `mirror`, `shapes`, `graph`,
`scripts`, `folder`, `deployed` are what lies on disk; versions stand for
contents. A set of kits is listed in the order of their collection (`Sorted`).
What lies under a kit's folder base, which is all that is audited and purged, is
`ContentOf`. A fetch that fails leaves of the payload nothing, an empty directory
or as much as the archive's unpacking got to. Publishers and the user act between steps.

### Gate

The axioms of the installed ontologies are the state; a change unsets `built`
until the shapes are built again. `shapes` are the generated property blocks;
`Quads` is what sync makes of a document, `Turtle` what the gate makes of it,
`Passes` its judgement, `Asks` and `Satisfies` what the ontologies themselves
ask. The generator walks a list of classes still to visit (`Pop`, `Chain`),
spreads over the spellings of a property (`Spread`, `Equivalents`) and takes of a
property's spellings the first that comes (`ComesFirst`, `Placed`); what the
ontologies ask is said with least closed sets instead (`Above`, `Group`). The
closures are recursive functions, which the prover can unfold.

A document is a set of entries: the class its key names, the key's name, a value.
A list item may be `Blank` and a value a `Wikilink`, which gate and sync treat
differently, as they do keys of a second class (`Turtle` and `Quads` follow
each); the subjects of triples and the triples that state types are left out.
`Counts` are restrictions to at least one, at least two and exactly one value:
to the generator they are all `sh:minCount 1` (`Required`), to `DemandMet` what
they say.

The judgement is stated for classes in order: what is demanded is carried by the
class (`Demandable`: the generator silently drops a demand on a property no class
of the chain carries), spellings agree (`Agreed`), and no other class has the
local name of one that values are demanded of (`Unmistaken`, else
`ReadsTheClass`), and in two directions: what the ontologies ask is enough to
pass, always; whatever passes has it, where no count above one is asked
(`OneWillDo`, else `CountsWhatIsAsked`). `GateAgrees` is about plain entries of
one class (`PlainEntries`). Where gate and sync do differ is stated by itself:
properties without a domain (`JudgesWhatSyncEmits`), a second class
(`JudgesEachClass`), wikilinks (`NothingErrsLater`), blanks (`BlankIsAbsent`).
`Authorable` asks for properties whose names are distinct (`Distinct`, else
`NeverCollides`) and spellings that agree; the document it promises is drafted
in the proof.

## 3. What the runs check

Every run finishes without an error; between them every action of every module
fires. What comments say and the code does not do is in 3.2.

| Run | States | Shows |
|---|---|---|
| `soul_safety` | 5,891,436 | two requests of any kind against loop, watcher, a moving HEAD, a failing sync, a vanishing `.lex/` and a client that hangs up. Tickets are announced only after a sync that began after them (`TicketsHonest`); a successful answer to `?wait=1` names a commit HEAD was at since the request, or one reset away that says the same, also when another sync starts, fails or ends between the wait and the two readings of the status (`AnswersFresh`); between syncs the status is what a query would read (`StatusTellsStore`); a dropped soul stays closed (`ForgottenStaysClosed`) |
| `soul_live` | 438,958 | every request to a soul nobody drops is answered, and so is a DELETE (`RequestsAnswered`): no lost wake-up, no lock held across a wait. The watcher brings the store to where HEAD comes to rest (`CatchesUp`). A dropped soul ends: store closed, both loops over (`Retires`) |
| `swap_crash` | 15,042 | kills at every step, orphaned workers, failing copies, workers and opens: no half-written store is served (`NeverHalfWritten`) or found by recovery (`RecoveryFindsWhole`), the directories implement `ServedStore` (`Implements`), and a daemon that stays up comes to have a store open (`StoreComesBack`) |
| `swap_any_fault` | 106,068 | with failing renames and in-place syncs too, the open store is the directory in its place (`HandleInPlace`) |
| `engine_copy` | 728,317 | on gitlexd's copies, two documents about one Thing, one of them with a second sidecar that anchors nothing: appends and rebuilds end where a rebuild of the branch would (`SyncedIsFresh`), "already synced" is right (`AlreadyIsTrue`), the check never fails an undisturbed copy (`NeverDamaged`) |
| `engine_stops` | 1,294,309 | in place, stopped anywhere and twice, with a reset: a commit with an ordinal has its events (`MarkerIsEarned`), a rebuild heals everything (`RebuildIsFresh`), no event of a lost commit survives a success (`HistoryOnBranch`), and on a branch that only grew, and on which no run ended unchecked, a success leaves as current what its history says (`SyncedIsCoherent`) |
| `machine` | 225,055 | two repositories, one a clone of the other, one of them known under two paths; any two commands, two daemons, clients that give up, kills: a repository registered and not removed is in the registry (`RowsKept`), and no daemon has two souls of one first commit (`OneSoulPerGenesis`) |
| `machine_live` | 128,814 | one repository, saves, syncs and restarts, with fairness: `git lex sync` that ends well left the store at least where HEAD was (`SyncedHere`), commands end (`CommandsEnd`), and a daemon that serves brings its stores to HEAD once commands rest, also when the nudge met a daemon starting or stopping (`StoresCatchUp`) |
| `commit` | 595,725 | two commands of save, dry run and commit, two acts of the user or an act and a walk of gitlexd at any moment, steps that die, documents the hook cannot date. No sidecar left by an earlier command stops a save (`SaveNotStuck`). A save's or a fully staged commit's sidecars are the facts and links of the bytes it commits (`PairsCommitted`) and belong to documents (`NoOrphansCommitted`); nothing rejected, unparsable or claiming a taken id is committed (`GatesHold`); birth dates stay, changes are dated but for documents the hook could not date (`DatesKept`); links follow renames (`LinksFollow`), notes go with a moved document (`NotesFollowCommit`) |
| `walkcache` | 1,128,352 | three walks of any kind, two edits, resets and switches, deaths: after an undisturbed walk that writes, sidecars are what a full walk writes (`SidecarsRight`); a query is served what a full walk would say (`ServedRight`); an erroneous document fails every walk (`ErrorsLoud`) |
| `kits` | 1,454,330 | three kits of which two share a folder base, publishers and the user acting between steps, two commands with failing steps: a receipt never names newer bytes than those beside it (`ReceiptNotAhead`); an update of every kit that ends well leaves exactly what the kits ship, whatever went wrong before (`Converged`); shapes and ontology graph follow the mirror after any command (`ShapesFollow`); what only the user has stays (`UserWorkKept`) |
| `gate` | 31,576 | three changes of the ontologies out of sixteen, in two orders of answers, documents of up to two values: the gate passes every document that has what the ontologies ask, counts included, and none that has not, where one value is as good as several (`GateAgrees`); and whatever is demanded can be written (`Authorable`) |

### 3.1 Where the properties stop

`AlreadyIsTrue` lets the marker name more than the branch has: a commit that
changed no fact can be reset away and the fast path still hits (`sync.rs:362`);
and so does `AnswersFresh` let the answer to a sync name it (`AnswersNameHead`
in 3.2). The code of that answer and its body are two readings of the status: an
answer that says OK may name no commit, with the reason why the store did not
open, when a later sync's swap failed in between (`unopened`).
`SyncedIsCoherent` asks for a branch that only grew: an append killed between
its removals and its load, followed by a reset to the commit the store is marked
at, is followed by an append of nothing, which checks nothing. It also asks that
no run in place ended behind its ordinals without a check that passed
(`~unproved`): the next run starts behind them and checks what it changes itself
(`ProvesOrAborts` in 3.2; the proof of `SyncsCohere` found this, TLC had not on
three commits and one property). `NeverHalfWritten` is about renames that work:
`recover_swap` does not notice one that fails (`daemon.rs:445`). `SyncedHere`
excuses a sync in its own process under which a nuke took the store away, or a
daemon told to stop put an older one before it was gone (`Excuse`), and of
clones on one machine it says nothing: a daemon holds one of them and syncs that
one. `CommandsEnd` is checked of save, sync and restart, not of `nuke`.
`PairsCommitted`, `NoOrphansCommitted`, `GatesHold` and `SaveNotStuck` are about
commands between whose steps no walk of gitlexd wrote a sidecar that was out of
date (`late`); without the condition the first three are findings. A sidecar,
and a document that could not be dated, is taken to be written whole or left as
it was, and two walks at once write sidecars but share no cache. `DatesKept`
asks for a new date where the hook could write one (`undated`, else
`ChangesDated`). It is about a command that found in the working tree the birth
dates of the committed documents, or none (`own`): not after a hook dated
documents without a commit following (`DatesKeptAlways`), nor where another
document is put in the place of one. That changes are dated it says of a
repository where nobody passes `--no-restamp`. `NotesFollowCommit` is about a
commit that found no sidecar staged and no tracked notes missing (`tidy`).
`SidecarsRight` and `ServedRight` are about a cache no walk left torn and into
which no walk stored other bytes than it had compared (`reread`; for sidecars,
also no checkout under a walk). `Converged` is about updates whose copies of the
mirror all worked (`sound`), because one that fails is reported and the update
goes on; of scaffold folders of classes no kit ships it asks only under the
folder bases of installed kits, because a `kit-remove` whose user says so leaves
a kit's folders and nothing audits a base no installed kit has. Where a property
of 3.2 has the name, going without the condition is a finding.

### 3.2 What comments and documentation say, and the code does not do

`PROJECT.json` quotes the line under `findings`. A property named here is
defined in its module; put in the place of the properties of the configuration
named (or checked with the configuration's own, where it is listed there), TLC
finds it violated.

| Property | Configuration | What happens |
|---|---|---|
| `WaitersAnswered` | `SoulSyncLostWaiter.cfg` | `sync_loop` returns for a dropped soul without announcing the tickets handed out: a waiter waits for ever |
| `CatchesUp` | `SoulSyncReset.cfg` | the watcher compares HEAD with the HEAD it saw last; HEAD moves, a requested sync takes the store along, HEAD is reset before the next poll: nothing asks for a sync |
| `Retires` | `SoulSyncHangUp.cfg` | a DELETE whose client gives up leaves the soul off the list, its store open and its loop asleep |
| `NeverHalfWritten` | `StoreSwapInPlace.cfg` | a killed in-place sync leaves a half-written store that the next daemon serves |
| `SyncedIsFresh` | `SyncEngineRewalk.cfg` | an append killed after it removed an anchor walks the range again, misses a document that still states the fact, and retracts it |
| `AlreadyIsTrue` | `SyncEngineStaleNow.cfg` | an append killed after the ordinals and before the now view's refresh: the next run is "already synced" |
| `ProvesOrAborts` | `SyncEngineUnproved.cfg` | an append is killed after it removed an anchor, the next after it recorded the retract that followed; the third states the fact again, fails its check and is behind its ordinals: the fourth changes nothing, checks nothing and succeeds |
| `AnswersNameHead` | `SoulSyncSafety.cfg` | HEAD is reset away from a commit that changed no fact; a sync that was waited for answers that the store is synced to it |
| `NukedStaysGone` | `MachineNuke.cfg` | between the DELETE and the removal of `.lex/` another command's request has the daemon adopt and sync the repository again |
| `OneHoldsStores` | `MachineStop.cfg` | a daemon told to stop frees the port before its stores; the next one opens others |
| `ReapKnowsAll` | `KitsReap.cfg` | a failed fetch leaves an empty kit directory, and an update of another kit reaps its hooks |
| `ReceiptTells` | `Kits.cfg` | the publisher pushes between `ls-remote` and the fetch: the receipt names an older commit than the bytes |
| `ComposedInstalled` | `Kits.cfg` | the directory of a kit that is not installed still gives its part to `.agents/hooks.json` |
| `EditsKept` | `Kits.cfg` | uncommitted edits of a tracked skill are pruned with it |
| `BirthComesAlong` | `Commit.cfg` | a document from elsewhere gets the date of today |
| `DatesKeptAlways` | `Commit.cfg` | a hook dated a moved document as new, nothing was committed; the whole move is saved with that date |
| `NotesFollowSave` | `Commit.cfg` | `cmd_save` removes a moved document's committed notes as orphans before the hook could move them |
| `CommitNotStuck` | `Commit.cfg` | a sync wrote the sidecar at the new path before the commit of a `git mv`: the hook's own move fails |
| `PairsAlways` | `Commit.cfg` | a document edited after `git add` is committed with the facts of its later bytes |
| `PairsBesideWalks` | `Commit.cfg` | a walk of gitlexd that read a document before its last edit writes its sidecar between the save's extraction and the staging: index and disk agree, the commit carries older facts |
| `NoOrphansBesideWalks` | `Commit.cfg` | the same with a document that was deleted: its sidecar is back after the removal of orphans |
| `GatesBesideWalks` | `Commit.cfg` | the same after the identity gate: the committed sidecars claim an id twice, or name one that is gone |
| `ChangesDated` | `Commit.cfg` | a changed document whose path git quotes, or that cannot be written, is committed with its old date |
| `SidecarsRightAlways` | `WalkCache.cfg` | a reset while a walk ran puts other sidecars under its entries |
| `SidecarsRightReread` | `WalkCacheReread.cfg` | a walk found a document unchanged, a rewrite came before it extracted it after all: the new text's sidecars under the old text's hash |
| `ServedRightAlways` | `WalkCacheTorn.cfg` | a walk died between a fragment and the manifest; what it linked to went and came back |
| `JudgesWhatSyncEmits` | `Gate.cfg` | a property without a domain is a literal to the gate, a reference to sync |
| `JudgesEachClass` | `Gate.cfg` | keys of a second class are read as the first's by the gate, as their own by sync |
| `NothingErrsLater` | `Gate.cfg` | a value with `[[…]]` passes the gate and is refused by sync |
| `BlankIsAbsent` | `Gate.cfg` | a list of one blank satisfies a demand for a value, and sync drops it |
| `CountsWhatIsAsked` | `Gate.cfg` | two values pass where `owl:cardinality 1` asks for one, one where two are asked |
| `NeverCollides` | `Gate.cfg` | an inherited property of another kit takes the key of the kit's own |
| `ReadsTheClass` | `GateTwoPlaces.cfg` | two kits have a class Place; a reference to the one passes where the other is demanded |

### Bounds

- *SoulSync*: two requests are enough for one to wait while the other's sync
  runs, fails, or drops the soul; one move lets HEAD be elsewhere before and
  after a worker resolves it, a commit that changes no fact or the reset that
  takes it away; one failure, because a failed sync leaves nothing
  but its flags. `FewDisturbances` limits what may happen in one behaviour of
  `soul_safety`: HEAD moves and a step fails, or one of these and the soul is
  dropped, or `.lex/` vanishes, or a client hangs up. `soul_live` has one
  request, and all of these but the hang-up: its properties are about one
  request against the loop, the watcher and forget. Tickets are bounded by the
  requests and HEAD moves.
- *StoreSwap*: three kills reach a crash in the recovery of a crash in the
  recovery of a swap; two commits tell the old store from the new; one failure
  of each other kind, two of renames.
- *SyncEngine*: with three commits one append walks two commits after the first
  sync, or one append follows another, or a commit follows a reset; one stop
  (two in place) anywhere in a run. One property and two or three sidecars are
  the least that state one fact twice and drop it in any order.
  `SyncEngineUnproved.cfg` follows five given commits (`OnScript`), which is what
  its counterexample needs.

- *Machine*: two processes are two commands against one another and the daemons
  they start; two daemons are the one that stops and its successor. `machine`
  has every command, clones and a path through a symlink, and processes are
  interchangeable (symmetry). `machine_live` has one repository, because its
  promises are about one, the commands that move HEAD, sync it or change
  daemons, and no symmetry, which liveness does not allow.
- *Commit*: a document with an id, one that refers to it and links to it, prose
  and one the shapes reject, on three paths: a rename onto a path that was just
  left, a swap, and a deletion beside an addition; and one that does not parse.
  Two commands: the second meets what the first left, dead at any step. Two
  edits, or an edit and a walk of gitlexd, whose chunk of 2,048 files is the whole
  of so small a tree (`AllAtOnce`). One of the paths is one git quotes.
- *WalkCache*: two documents, one of which may link to the other; the walk that
  wrote the cache, one that spoils it and the one that uses it; two edits are a
  change between or during walks and its return.
- *Kits*: the base kit, the domain kit, whose second version retires a class and
  renames its hook, and an optional kit with the same folder base, whose second
  version is broken. Two commands, because the second meets what the first left.
- *Gate*: `Menu` has an axiom of each kind twice where two of them can meet;
  three changes are a class, its parent and a property. Two values are the least
  that can be too many, and the least that can be too few where two are asked.
  `GateTwoPlaces.cfg` adds a class of the same local name
  as one that is demanded.

### Fairness

`SoulSync!FairSpec`: the tokio runtime runs every ready task, a worker process
and a query end, the watcher's timer fires (weak fairness of the loop, the
watcher, forget and each handler). The guards that wait for a lock become and
stay true: a waiting writer holds new readers back, and readers end. Nothing
makes HEAD move, a request arrive, `.lex/` vanish or a client hang up.
`StoreSwap!FairSpec`: a daemon that is down is started (every client command
calls `ensure_running`), a soul without a store is synced again (a query asks
for it), and both get through their steps. `SyncEngine` has no liveness
property: a run is a sequential program.

`Machine!MFairSpec`: the operating system runs every process, and a daemon's
runtime its tasks: a command that can take a step takes one and is not killed
over the registry for ever (`Killed`); a daemon binds, adopts, serves and exits;
its watchers, syncs and workers go on. No client has to give up and nothing has
to be started.

`CHECK_DEADLOCK FALSE` stands where the system may really stop: a retired soul,
or the bound on commands, walks or edits reached. `gate` checks it.

## 4. What is proved

For every set of commits and clients and every bound, with tlapm:

`SoulSyncProofs` (assuming only the module's named assumptions on constants)

- `TypeCorrect`: `Spec => []TypeOK`.
- `TicketsAreHonest`. `TicketsHonest` is not inductive: the loop announces
  `target`, so `TicketInv` adds that the round's target is between what was
  announced and what was requested, that a running sync began when `requested`
  had at least that value, and that a round about to announce has a sync behind
  it that ended so, or a soul git-lex has left.
- `ForgottenSoulsStayClosed`. The strengthening is that no sync runs while
  forget holds the mutex; after it every sync reads `gone` before it starts.
- `StatusIsTrue`. `StatusInv`: status and store agree except between the swap
  and the step that reads the marker again.
- `AnswersAreFresh`. `AnswerInv` follows a request from its ticket to its
  answer: a sync that began after the ticket works with a HEAD of that time,
  and until the status is read the store's marker is a commit that says what
  that HEAD or a later one says, or there is a failure. From the first reading of the
  status to the second (`Tells`) it names such a commit, or none, because a
  later swap left no store to open and recorded why; `StatusFollows` is that
  status and store agree but where a sync is about to tell what it swapped in.
  `WordsAssumption` keeps answers in words and commits apart.

`StoreSwapProofs`

- `TypeCorrect` and `OpenStoreStaysInPlace` (`HandleInPlace`), whatever
  crashes and fails.
- Under `NoOtherFault` (no rename fails, no sync runs in place of the daemon,
  the two ways out of the argument described above):
  `WholeStoreRecovered`, `WholeStoreServed` and
  `StoreSwapImplementsServedStore`. `SwapInv` is the reason the recovery rule
  is right: outside the two renames the store is missing only if there is no
  old one either, so a copy still being written, also by a worker that outlived
  its daemon, is never taken for a finished one; and when the renames begin the
  copy is what a worker finished.

`SyncEngineProofs`, for any sidecars, commits, resets and stops, on a copy or in
place

- `SyncsAreFresh` (`SyncedIsFresh`), `NothingToDoIsTrue` (`AlreadyIsTrue`) and
  `ChecksNeverFail` (`NeverDamaged`), on copies (`OnCopy`). What a run leaves on
  a copy it finished is the whole history of its branch and the facts of its
  newest tree; so an append starts from a base layer that is the tree of the
  newest marked commit, and `GuardIsExact` (below) applies to every commit it
  walks, as to a rebuild's.
- `MarkersAreEarned` (`MarkerIsEarned`). `EarnedInv` needs the marker's history
  as well as the run's: of every line that is the branch or a run's branch, the
  marked commits are a beginning and have their events, in the store and in the
  one a copy was taken of (`KeptInv`); two such lines that share a commit share
  what is before it (`Alike`); what a run has walked is in the store or pending
  (`WalkInv`), which is why an append may start at the newest marked commit.
- `NoLostCommitsEvent` (`HistoryOnBranch`). From the moment a run has compared
  the events with its branch, or has emptied the history, every event is of the
  branch.
- `SyncsCohere` (`SyncedIsCoherent`), in place as well, where after a kill base
  layer and events may disagree and nothing says about what. The argument is
  that the next walk touches it all. A walk is a step function on base layers
  (`Walk`: without what it retracts, with what it asserts), and because a larger
  base layer anchors more documents and so retracts less (`LostOfLess`), the
  walk is monotone: from a store from which a stopped run took facts, it
  retracts all that the stopped one would have (`WalkOfLess`). `TouchInv` says
  of each stage of a run what store and history may disagree about (`Agree`):
  between runs, what a walk from the marker's end to the branch's retracts or
  asserts (`WillTouch`); before the write, the facts in `changed`; behind it,
  those of them some commit asserts, because a fact that is only retracted is out
  of the base layer and its last event is a retract; after a check that passed,
  nothing. `GrownInv` has the rest: on a branch that only grew the ordinals are
  a beginning of it, and a "+" is what its commit asserts.
- `RebuildsHeal` (`RebuildIsFresh`). After each commit base layer and pending
  writes together are that commit's tree (`RebuildInv`). `GuardIsExact` is the
  lemma it rests on: where the base layer is the parent's tree, anchors lead the
  retract guard to every sidecar that may still state a fact.

`MachineProofs`

- `RegistryTyped`: `RSpec => []RTypeOK`.
- `NoRowLost`: `RSpec => []RowsKept`, for any number of processes, repositories
  and paths, with kills and moves. `RInv` adds that whoever writes or cleans up
  holds the lock (`LockHeld`), that a draft about to be published has every
  repository that will then be listed (`DraftKeeps`), and that between the
  rename and the removal of the old file `repos.json` alone has them all
  (`RowsComplete`): the reason the two files may be replaced one after the other.
- `MachineImplementsRegistry`: `MSpec => RSpec`. Each step of a command, a
  client or a daemon is one step of the registry or leaves it alone (`CmdKnown`:
  where a command stands says which of the registry's steps it may take).
- `NoCommandLosesRow` (`RowsKept`) follows for the whole machine.
- `OneSoulHeld` (`OneSoulPerGenesis`), inductive but for the shape of the lists:
  who adds a soul looks for its first commit in the list first, under one lock.
- `MachineTyped` (`MTypeOK`), with where a command stands (`CmdKnown`).
- `SyncsComeHome`: `MSpec => SyncedHere`, for any number of commands, daemons
  and repositories. Through a daemon: whoever waits for a sync asked before it
  looked at HEAD (`AskedBefore`), HEAD only moves on (`SinceSeen`), and a soul
  that syncs is held (`RunsHeld`). In its own process: a daemon that goes on has
  no older sync of that store under way (`NoneOlder`), because one daemon at
  most has the port (`OnePort`) and it had no soul for this repository when the
  command was sent away, or there was no daemon yet; so a store swapped in
  under it is new enough (`TakenNewer`). The proof found that `SyncedHere` as
  stated before held for two processes only: with a third, a daemon told to stop
  puts an older store under the sync and is gone before the sync ends. It found
  too that the model let requests go on in a dead daemon (`Refresh`, `FindAgain`
  now need it `Alive`).

`KitsProofs`

- `ReceiptsAreEarned` (`ReceiptNotAhead`). The strengthening (`AskedPublished`)
  is that an answer of `ls-remote` not yet written down is a version the owner
  had published by then, and a fetch after it can only bring that or a later one.
- `NothingOfTheUserTaken`: `Spec => UserWorkKept`, step by step.
- `ShapesAreCurrent` (`ShapesFollow`). `PlanInv` says that the steps a command
  has left stand in the order of its plan (`Part`, `Rank`) and that the last one
  loads the graph; `AllCanSort` that a set of kits has a list in order at all.
  `ShapesInv`: a kit that stays installed has the step that makes its shapes
  still before it, or has no shapes, or nothing that changes a vocabulary is
  left and its shapes are of what is mirrored.
- `UpdatesConverge` (`Converged`), from whatever state earlier commands left.
  `UpdateInv` says of each kind of step what is true behind it and no later one
  undoes: payloads are there (`Fetched`), mirrored (`InPlace`), stale scripts
  gone (`Reaped`), the others registered (`Registered`), vocabularies of kits
  that left gone (`Unorphaned`), old shapes with them (`Cleared`), folders made
  (`Foldered`) and those of retired classes reaped (`Audited`). An audit may
  reap the folder of a class of another kit with the same base whose shapes are
  not made yet; that kit's own step is then still to come and makes the folder
  again, and behind it the class is declared, so no later audit takes it.

`WalkCacheProofs`

- `WalkTyped`: `Spec => []WTypeOK`.
- `NoErrorIsCached` (`ErrorsLoud`). `ErrorInv`: no entry, on disk or in a
  walk, is of a text that does not extract, so a walk reads such a document
  itself, and counts it if the tree stays as it was.
- `ServedIsRight` (`ServedRight`) and `SidecarsAreRight` (`SidecarsRight`).
  `TrustInv` says what an entry is worth (`Vouched`): a fragment and sidecars
  made of its text and of the links that text had in the tree of the manifest.
  A walk may take its word for what it did not read because the manifest still
  names the tree (`ManifestTrue`) or the walk has marked as changed every
  document that links to one that came or went (`Trusts`), and because git's
  index vouches for sidecars nobody wrote since (`Untouched`). Looking for it
  showed that `reread` was missing, which TLC's bounds of then had not reached;
  TLC agrees with `TrustInv` on the instance of `walkcache`.

`CommitProofs`, for any set of paths and documents, any matching of renames and
any number of commands and edits

- `CommitTyped`: `Spec => []CTypeOK`.
- `SidecarsMatchDocuments` (`PairsCommitted`), `NoOrphanIsCommitted`
  (`NoOrphansCommitted`), `GatesAreKept` (`GatesHold`), `DatesAreKept`
  (`DatesKept`), `LinksAreHealed` (`LinksFollow`), `NotesComeAlong`
  (`NotesFollowCommit`) and `SavesGoThrough` (`SaveNotStuck`) share one
  invariant, `CommitInv`: what each step of a command that nobody disturbed has
  made true, and no later one undoes. From `git add` on the index is the working
  tree (`Staged`), because healing and stamping stage what they rewrite; no
  sidecar is an orphan in the one or the other (`Swept`), which the hook's moves
  keep because a rename's new name is a document; no link leads to a renamed
  path (`Linked`), which stamping keeps because it touches no link; behind the
  walk the sidecars are the documents' (`Gated`). gitlexd's walks run through all
  of it: a write of theirs is either made good by a step still to come, or says
  what is there already (`ExtractedSame`), or makes the command `late`, of which
  the invariant then says only what no sidecar decides (`WritesHold`). Of dates it
  needs that none is after the clock (`Dating`), since what the hook fails to
  date keeps the one it had. `RenamesExist` shows that a matching no
  pair can be added to exists at all, for any finite set of paths. The proofs
  found that `DatesKept` and `NotesFollowCommit` as stated before held for two
  edits and two commands only; `own` and `tidy` came of that (3.1).

`GateProofs`, for any classes, properties and axioms of the form `WellFormed`, and
any orders in which the store returns them

- `GateTyped`: `Spec => []TypeOK`.
- `GateJudgesRight` (`GateAgrees`). Each turn of the walk up the classes takes
  one off the list or finds it empty (`PopWalks`), so with as many turns as there
  are classes a class's line is what is above it (`LineIsAbove`); each round of
  spreading adds a property or is the last, so `Equivalents` is `Group`. Every
  group a class carries has exactly one placed spelling, because `ComesFirst`
  orders the candidates. So each property block stands for one group, each
  qualified block for one demand; a document's triples are the same for gate and
  sync, because its entries are plain, and block by block the constraint holds of
  them exactly when the demand does, but for counts: what a count asks is there
  only if something is, and where one value will do that is all it asks
  (`CountsAgree`). What a recursive function
  computes is argued by least counterexample (`LeastOf`), since induction over an
  operator is out of reach. The proof found `GateAgrees` false as stated before
  (without `Unmistaken`; `ReadsTheClass` is the finding that came of it), and
  that it needs neither distinct names nor that a property's datatype agree with
  its kind.
- `DemandsCanBeMet` (`Authorable`). The document drafted has a key for each
  placed property, with a value its range takes, which for a property of which
  values of a class are demanded is an address of it. Because names are distinct
  and keys are read back by class and name, each key reaches its own property.

The type invariants named here are proved for every constant, so no run repeats
them.

Every invariant and action property of a run is a theorem. Only model-checked is
liveness: fairness and ENABLED are beyond the prover. No module declares a
RECURSIVE operator.

## 5. Not modelled, and why

- *Git layer.* `SyncEngine` has the commit ordinals, which everything else
  decides by. The refs and file-tree graphs are translations of git's answers;
  the text copy beside the store is a listed hazard (`sync.rs:857`).
- *Merges.* A walk diffs a merge against its first parent in topological order
  (`spo_events.rs:123`). What it ought to say of a merge is not stated in the
  code, so there is no reference to check it against.
- *Two `Soul` objects over one set of directories* (a soul forgotten and adopted
  again while a sync of the first runs), and `PARALLEL_SYNCS`.
- *Kits.* Local tweaks of ontologies, Gemini's and Claude's settings files as
  text.
- *Small failures taken not to happen.* `CopyBegins` and `Sweep` end an older
  worker's hold on `next` at once (section 2); `ClearDerived` removes its graphs,
  where the code warns and goes on if the store cannot (`sync.rs:601`);
  `NukeDelete` removes `.lex/`, where the code ends with an error and the row still
  in the registry if a file will not go (`main.rs:500`); a daemon answers the
  health question within its 800 ms (`client.rs:103`).
- *Two walks at once over one walk cache* (a save's and gitlexd's): `Commit` has
  both and no cache, `WalkCache` has the cache and one walk at a time.
- *Repository lifecycle.* The files `init` writes, SOUL.md, git's configuration.
- *Export spine, queries, context, authoring, man pages.* Reading and text: no
  state another actor of the program decides by.
- *Emission.* The text of triples, SHACL shapes, JSON-LD and Turtle; parsing of
  Markdown, YAML and RDF. What the text says is in `Gate`, `Commit` and
  `WalkCache` where a property depends on it.
