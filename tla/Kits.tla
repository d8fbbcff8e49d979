-------------------------------- MODULE Kits --------------------------------
(* Kits in one repository (kit_cmds.rs, kit.rs, init.rs, harness/): what is     *)
(* installed, the vocabulary mirrored from it, and all that is derived from     *)
(* that: shapes, class folders, the ontology graph, hook scripts and their      *)
(* registrations, deployed skills. A command is a plan of steps; one that fails *)
(* or is killed leaves what its steps so far did. Kits are published, and the   *)
(* user works in the same folders, in between. Disk errors are modelled only    *)
(* where the code copies the mirror.                                            *)
EXTENDS Naturals, Sequences, SequencesExt, FiniteSets

CONSTANTS
  Order,        \* every kit: the base kit, the domain kit, then the optional ones
  Newest,         \* kit -> the last version its owner publishes
  Hooks, Classes, Skills,  \* kit -> version -> the hook scripts, classes and skills it ships
  Composing,    \* kits that ship a part of .agents/hooks.json
  HomeOf,       \* class -> the folder it lives in
  BaseOf,       \* kit -> its folder base, or None
  Broken, Odd,  \* <<kit, version>> whose Turtle does not parse, whose scope is not optional
  LocalHooks, OwnHooks,  \* the user's scripts: named `local`, and not
  OwnSkills,    \* skills the user may write
  Substrates,   \* of "claude" and "gemini"
  Named,        \* whether repo.yml has an agent_name
  None,
  MaxCommands,  \* bound on the commands
  MaxEdits      \* bound on what the user does

Kits == ToSet(Order)
Base == Order[1]
Domain == Order[2]
AllClasses == DOMAIN HomeOf

ASSUME KitConstants ==
  /\ Order \in Seq(Kits) /\ Len(Order) >= 2 /\ IsInjective(Order)
  /\ \A k \in Kits : /\ Newest[k] \in Nat \ {0}
                     /\ Len(Hooks[k]) = Newest[k] /\ Len(Classes[k]) = Newest[k] /\ Len(Skills[k]) = Newest[k]
                     /\ \A v \in 1..Newest[k] : \A c \in Classes[k][v] : HomeOf[c] = BaseOf[k]
  /\ Substrates \subseteq {"claude", "gemini"} /\ Named \in BOOLEAN
  /\ None \notin Kits \cup Nat \cup {"new", "kept", "edited", "scaffold", "content"}
  /\ None \notin [Kits -> Nat \cup {None}]
  /\ MaxCommands \in Nat /\ MaxEdits \in Nat

VARIABLES
  tip,         \* kit -> its version on GitHub
  listed,      \* optional_kits of .lex/repo.yml
  payload,     \* kit -> the version in .lex/kit/<org>/<repo>/, Empty, or None
  receipt,     \* kit -> what its .kit-sha says, or None
  mirror,      \* kit -> the version of its vocabulary in .lex/ontology/, or None
  shapes,      \* kit -> the vocabularies its shapes were generated from, or None
  graph,       \* the vocabularies in the store's ontology graph
  scripts,     \* .claude/hooks/
  registered,  \* the scripts settings.json registers
  composed,    \* the kits whose part .agents/hooks.json has
  folder,      \* class -> "scaffold", "content", or None
  source,      \* the skills under Skill/, or None without that folder
  deployed,    \* substrate -> skill -> "kept" (committed), "edited" since, "new", or None
  cmd, plan,   \* the command, and the steps it has before it
  asked,       \* kit -> what ls-remote answered before its fetch, or None
  outcome,     \* how the last command ended
  sound,       \* history: every copy of this command's mirror succeeded
  commands, edits

kitDirs == <<payload, receipt>>
derived == <<mirror, shapes, graph>>
wired == <<scripts, registered, composed>>
skills == <<source, deployed>>
counts == <<commands, edits>>
vars == <<tip, listed, kitDirs, derived, wired, folder, skills, cmd, plan, asked, outcome, sound, counts>>

Empty == 0   \* a kit's directory after a fetch wiped it and failed
AllSkills == OwnSkills \cup UNION {UNION ToSet(Skills[k]) : k \in Kits}

(* installed_kit_specs: repo.yml is the only answer, base and domain first.   *)
Installed == {Base, Domain} \cup listed
Place(k) == CHOOSE i \in DOMAIN Order : Order[i] = k
InOrderOf(s, ks) == ToSet(s) = ks /\ \A i, j \in DOMAIN s : i < j => Place(s[i]) < Place(s[j])
Sorted(ks) == CHOOSE s \in [1..Cardinality(ks) -> ks] : InOrderOf(s, ks)
Ready(k) == payload[k] \notin {None, Empty}
Ships(of, k) == IF Ready(k) THEN of[k][payload[k]] ELSE {}

(* The vocabulary a reader sees: of the installed kits, what parses. The base *)
(* kit's lies under another name than its own, so it never has shapes.        *)
View == [k \in Kits |-> IF k \in Installed /\ <<k, mirror[k]>> \notin Broken THEN mirror[k] ELSE None]
Shaped(k) == k # Base /\ mirror[k] # None
ClassesIn(sh, k) == IF sh[k] = None THEN {} ELSE Classes[k][sh[k][k]]
(* folders_declared_by_installed_kits: a kit without kit.yml has no base.     *)
Declared(sh) == UNION {ClassesIn(sh, k) : k \in {j \in Installed : Ready(j)}}

Idle == plan = <<>>
NoCommand == <<"none", None>>
Unasked == [k \in Kits |-> None]
Each(step, ks) == [i \in DOMAIN ks |-> <<step, ks[i]>>]
Fetches(ks) == [i \in 1..(2 * Len(ks)) |-> <<IF i % 2 = 1 THEN "ask" ELSE "fetch", ks[(i + 1) \div 2]>>]
One(step) == <<<<step, None>>>>
Wire == One("compose") \o One("setup")

\* As a mutant would: shapes only for the kits that were fetched.
UpdatePlanAlone(ks) ==
  Fetches(ks) \o Each("install", ks) \o One("reap") \o Wire \o One("orphans")
  \o Each("mirror", Sorted(Installed)) \o Each("regen", ks) \o One("load")
\* As a mutant would: scripts are registered before the stale ones are reaped.
UpdatePlanWiredFirst(ks) ==
  Fetches(ks) \o Each("install", ks) \o Wire \o One("reap") \o One("orphans")
  \o Each("mirror", Sorted(Installed)) \o Each("regen", Sorted(Installed)) \o One("load")
UpdatePlan(ks) ==
  Fetches(ks) \o Each("install", ks) \o One("reap") \o Wire \o One("orphans")
  \o Each("mirror", Sorted(Installed)) \o Each("regen", Sorted(Installed)) \o One("load")
AddPlan(k) ==
  Each("fetch", <<k>>) \o Each("list", <<k>>) \o Each("install", <<k>>)
  \o Each("regen", Sorted(Installed \cup {k})) \o Wire \o One("load")
RemovePlan(k) ==
  Each("drop", <<k>>) \o Each("regen", Sorted(Installed \ {k})) \o Wire \o One("load")
InitPlan ==
  One("wipe") \o Each("fetch", <<Base, Domain>>) \o Each("install", <<Base, Domain>>)
  \o Each("regen", <<Domain>>) \o Wire \o One("load")

-----------------------------------------------------------------------------
(* A repository in which a kit-update has finished, with optional kits or not.*)
Init ==
  /\ tip = [k \in Kits |-> 1] /\ listed \in SUBSET (Kits \ {Base, Domain})
  /\ payload = [k \in Kits |-> IF k \in Installed THEN 1 ELSE None]
  /\ receipt = payload /\ mirror = payload
  /\ graph = View
  /\ shapes = [k \in Kits |-> IF Shaped(k) THEN View ELSE None]
  /\ scripts = UNION {Ships(Hooks, k) : k \in Kits}
  /\ registered = IF Named THEN scripts ELSE {}
  /\ composed = Composing \cap Installed
  /\ folder = [c \in AllClasses |-> IF c \in Declared(shapes) THEN "scaffold" ELSE None]
  /\ source = {}
  /\ deployed = [s \in Substrates |-> [n \in AllSkills |->
       IF s = "claude" /\ \E k \in Kits : n \in Ships(Skills, k) THEN "kept" ELSE None]]
  /\ cmd = NoCommand /\ plan = <<>> /\ asked = Unasked /\ outcome = "done" /\ sound = TRUE
  /\ commands = 0 /\ edits = 0

At(step, k) == plan # <<>> /\ Head(plan) = <<step, k>>
Advance ==
  /\ plan' = Tail(plan)
  /\ IF Len(plan) = 1 THEN outcome' = "done" /\ cmd' = NoCommand ELSE UNCHANGED <<outcome, cmd>>
  /\ UNCHANGED counts
Abort == plan' = <<>> /\ outcome' = "stopped" /\ cmd' = NoCommand /\ UNCHANGED <<sound, counts>>

Begin(op, k, steps) ==
  /\ Idle /\ commands < MaxCommands
  /\ commands' = commands + 1
  /\ cmd' = <<op, k>> /\ plan' = steps /\ outcome' = "running" /\ sound' = TRUE /\ asked' = Unasked
  /\ UNCHANGED <<tip, listed, kitDirs, derived, wired, folder, skills, edits>>

(* kit-update, of one kit or of all of them.                                  *)
KitUpdate == Begin("update", None, UpdatePlan(Sorted(Installed)))
KitUpdateOne(k) == k \in Installed /\ Begin("update", k, UpdatePlan(<<k>>))
(* kit-add refuses a kit that is installed, kit-remove one that is not        *)
(* optional. --force deletes the kit's content folder too.                    *)
KitAdd(k) == k \notin Installed /\ Begin("add", k, AddPlan(k))
KitRemove(k) == k \in listed /\ Begin("remove", k, RemovePlan(k))
KitPurge(k) == k \in listed /\ Begin("purge", k, RemovePlan(k))
ReInit == Begin("init", Domain, InitPlan)

-----------------------------------------------------------------------------
(* git ls-remote, which may fail, before the tarball of main is fetched.      *)
Ask(k) ==
  /\ At("ask", k)
  /\ \E newest \in {None, tip[k]} : asked' = [asked EXCEPT ![k] = newest]
  /\ Advance
  /\ UNCHANGED <<tip, listed, kitDirs, derived, wired, folder, skills, sound>>

(* The kit's directory is wiped first, its receipt with it. Only kit-update   *)
(* writes a receipt: what it was told before the fetch.                       *)
Receipt(k) == IF cmd[1] = "update" THEN asked[k] ELSE None
Fetch(k) ==
  /\ At("fetch", k)
  /\ cmd[1] = "add" => <<k, tip[k]>> \notin Odd
  /\ payload' = [payload EXCEPT ![k] = tip[k]]
  /\ receipt' = [receipt EXCEPT ![k] = Receipt(k)]
  /\ asked' = [asked EXCEPT ![k] = None]
  /\ Advance
  /\ UNCHANGED <<tip, listed, derived, wired, folder, skills, sound>>

\* As a mutant would: the receipt lies outside what is wiped.
ReceiptKept(k) == receipt
Unreceipted(k) == [receipt EXCEPT ![k] = None]
(* The network fails and what was unpacked by then stays, nothing or as much  *)
(* as the whole kit, except under kit-add; or GitHub answers with a renamed   *)
(* kit, whose bytes are taken away again.                                     *)
FetchFails(k) ==
  /\ At("fetch", k)
  /\ \E left \in {None} \cup (IF cmd[1] = "add" THEN {} ELSE {Empty, tip[k]}) :
       payload' = [payload EXCEPT ![k] = left]
  /\ receipt' = Unreceipted(k)
  /\ asked' = [asked EXCEPT ![k] = None]
  /\ Abort
  /\ UNCHANGED <<tip, listed, derived, wired, folder, skills>>

(* kit-add refuses a kit that is not optional, and leaves it for inspection.  *)
WrongScope(k) ==
  /\ At("fetch", k) /\ cmd[1] = "add" /\ <<k, tip[k]>> \in Odd
  /\ payload' = [payload EXCEPT ![k] = tip[k]]
  /\ receipt' = Unreceipted(k)
  /\ Abort
  /\ UNCHANGED <<tip, listed, derived, wired, folder, skills, asked>>

List(k) ==
  /\ At("list", k)
  /\ listed' = listed \cup {k}
  /\ Advance
  /\ UNCHANGED <<tip, kitDirs, derived, wired, folder, skills, asked, sound>>

(* The kit's files into the repository: its vocabulary over the mirrored one, *)
(* its hook scripts, its skills.                                              *)
Install(k) ==
  /\ At("install", k)
  /\ mirror' = [mirror EXCEPT ![k] = payload[k]]
  /\ scripts' = scripts \cup Ships(Hooks, k)
  /\ deployed' = [deployed EXCEPT !["claude"] = [n \in AllSkills |->
       IF n \notin Ships(Skills, k) THEN @[n] ELSE IF @[n] \in {None, "new"} THEN "new" ELSE "kept"]]
  /\ Advance
  /\ UNCHANGED <<tip, listed, kitDirs, shapes, graph, registered, composed, folder, source, asked, sound>>

(* reap_stale_hooks: skipped when the directory of an installed kit is gone.  *)
KnownHooks == UNION {Ships(Hooks, k) : k \in Installed}
Reap ==
  /\ At("reap", None)
  /\ scripts' = IF \A k \in Installed : payload[k] # None
                THEN scripts \cap (KnownHooks \cup LocalHooks) ELSE scripts
  /\ Advance
  /\ UNCHANGED <<tip, listed, kitDirs, derived, registered, composed, folder, skills, asked, sound>>

(* run_substrate_setup: .agents/hooks.json from every kit directory on disk,  *)
(* untouched when none ships a part; then, for an agent with a name, the      *)
(* registrations of scripts that are gone leave and all that are there enter. *)
Compose ==
  /\ At("compose", None)
  /\ LET parts == {k \in Composing : Ready(k)}
     IN  composed' = IF parts = {} THEN composed ELSE parts
  /\ Advance
  /\ UNCHANGED <<tip, listed, kitDirs, derived, scripts, registered, folder, skills, asked, sound>>

Setup ==
  /\ At("setup", None)
  /\ registered' = IF Named THEN scripts ELSE registered
  /\ Advance
  /\ UNCHANGED <<tip, listed, kitDirs, derived, scripts, composed, folder, skills, asked, sound>>

(* converge_ontology_mirror. What no installed kit's payload ships leaves,    *)
(* unless no payload ships anything; then each kit's folder is replaced by a  *)
(* copy of its payload, which has no shapes.                                  *)
Owned == {k \in Installed : Ready(k)}
Orphans ==
  /\ At("orphans", None)
  /\ LET gone == IF Owned = {} THEN {} ELSE Kits \ Owned
     IN  /\ mirror' = [k \in Kits |-> IF k \in gone THEN None ELSE mirror[k]]
         /\ shapes' = [k \in Kits |-> IF k \in gone THEN None ELSE shapes[k]]
  /\ Advance
  /\ UNCHANGED <<tip, listed, kitDirs, graph, wired, folder, skills, asked, sound>>

Mirror(k) ==
  /\ At("mirror", k)
  /\ IF Ready(k) THEN mirror' = [mirror EXCEPT ![k] = payload[k]] /\ shapes' = [shapes EXCEPT ![k] = None]
     ELSE UNCHANGED <<mirror, shapes>>
  /\ Advance
  /\ UNCHANGED <<tip, listed, kitDirs, graph, wired, folder, skills, asked, sound>>

(* The copy fails and the folder stays as it was, or the swap does and it is  *)
(* gone; either is reported and the update goes on. At most once in a command.*)
MirrorFails(k) ==
  /\ At("mirror", k) /\ Ready(k) /\ sound
  /\ sound' = FALSE
  /\ \/ UNCHANGED <<mirror, shapes>>
     \/ mirror' = [mirror EXCEPT ![k] = None] /\ shapes' = [shapes EXCEPT ![k] = None]
  /\ Advance
  /\ UNCHANGED <<tip, listed, kitDirs, graph, wired, folder, skills, asked>>

(* regenerate_kit_artifacts: the shapes, unless the kit's Turtle is broken;   *)
(* folders for its classes, where the command makes them; and the audit, which*)
(* reaps under the kit's base what no class explains and holds only scaffold. *)
(* init makes folders and audits none.                                        *)
\* As a mutant would: whatever it holds.
ReapableAnyhow(held) == held # None
Reapable(held) == held = "scaffold"
ContentOf(k) == {c \in AllClasses : HomeOf[c] = BaseOf[k] /\ BaseOf[k] # None}
MakesFolders(k) == cmd[1] \in {"update", "init"} \/ cmd = <<"add", k>>
Regen(k) ==
  LET new == IF Shaped(k) THEN [shapes EXCEPT ![k] = View] ELSE shapes
      made == [c \in AllClasses |->
                 IF MakesFolders(k) /\ c \in ClassesIn(new, k) /\ folder[c] = None THEN "scaffold" ELSE folder[c]]
      audited == IF Ready(k) /\ cmd[1] # "init" THEN ContentOf(k) ELSE {}
      extra == {c \in audited : c \notin ClassesIn(new, k) \cup Declared(new) /\ Reapable(made[c])}
  IN  /\ At("regen", k)
      /\ Shaped(k) => <<k, mirror[k]>> \notin Broken
      /\ shapes' = new
      /\ folder' = [c \in AllClasses |-> IF c \in extra THEN None ELSE made[c]]
      /\ Advance
      /\ UNCHANGED <<tip, listed, kitDirs, mirror, graph, wired, skills, asked, sound>>

(* "a broken kit ontology must not install silently"                          *)
RegenFails(k) ==
  /\ At("regen", k) /\ Shaped(k) /\ <<k, mirror[k]>> \in Broken
  /\ Abort
  /\ UNCHANGED <<tip, listed, kitDirs, derived, wired, folder, skills, asked>>

(* reload_ontology_graph, and the agent context with it.                      *)
Load ==
  /\ At("load", None)
  /\ graph' = View
  /\ Advance
  /\ UNCHANGED <<tip, listed, kitDirs, mirror, shapes, wired, folder, skills, asked, sound>>

(* kit-remove: off the list, its directories deleted, the content folder too  *)
(* if the user said so.                                                       *)
Drop(k) ==
  /\ At("drop", k)
  /\ listed' = listed \ {k}
  /\ payload' = [payload EXCEPT ![k] = None] /\ receipt' = Unreceipted(k)
  /\ mirror' = [mirror EXCEPT ![k] = None] /\ shapes' = [shapes EXCEPT ![k] = None]
  /\ folder' = [c \in AllClasses |->
       IF cmd[1] = "purge" /\ Ready(k) /\ c \in ContentOf(k) THEN None ELSE folder[c]]
  /\ Advance
  /\ UNCHANGED <<tip, graph, wired, skills, asked, sound>>

(* init again: every kit's payload and vocabulary, the optional ones' too.    *)
Wipe ==
  /\ At("wipe", None)
  /\ payload' = [k \in Kits |-> None] /\ receipt' = payload'
  /\ mirror' = payload' /\ shapes' = payload'
  /\ Advance
  /\ UNCHANGED <<tip, listed, graph, wired, folder, skills, asked, sound>>

(* repo.yml cannot be written; settings.json does not parse, or a script's    *)
(* name is no event; gitlexd holds the store.                                 *)
StepFails ==
  /\ plan # <<>> /\ Head(plan)[1] \in {"list", "setup", "load"}
  /\ Abort
  /\ UNCHANGED <<tip, listed, kitDirs, derived, wired, folder, skills, asked>>

Killed ==
  /\ plan # <<>>
  /\ Abort
  /\ UNCHANGED <<tip, listed, kitDirs, derived, wired, folder, skills, asked>>

-----------------------------------------------------------------------------
(* A save, which a gate may stop before it commits: sync_all writes each      *)
(* authored skill where the agents look, and prunes what has no source: for   *)
(* Claude Code unless a kit ships it, or git does not have all of it, or a    *)
(* kit's directory is gone.                                                   *)
\* As a mutant would: whether git has it or not.
RecoverableAnyhow(held) == held # None
Recoverable(held) == held \in {"kept", "edited"}
Prunes(s, n) ==
  \/ s = "gemini"
  \/ /\ \A k \in Installed : payload[k] # None
     /\ \A k \in Installed : n \notin Ships(Skills, k)
     /\ Recoverable(deployed[s][n])
Synced(s, n) ==
  IF n \in source THEN IF deployed[s][n] \in {None, "new"} THEN "new" ELSE "kept"
  ELSE IF Prunes(s, n) THEN None ELSE deployed[s][n]
Save == \E committed \in BOOLEAN :
  /\ Idle /\ commands < MaxCommands /\ commands' = commands + 1
  /\ deployed' = [s \in Substrates |-> [n \in AllSkills |->
       LET held == IF source = None THEN deployed[s][n] ELSE Synced(s, n)
       IN  IF committed /\ held # None THEN "kept" ELSE held]]
  /\ UNCHANGED <<tip, listed, kitDirs, derived, wired, folder, source, cmd, plan, asked, outcome, sound, edits>>

(* A kit's owner. Only ask and fetch look, so it is soon enough just before.  *)
Publish(k) ==
  /\ At("ask", k) \/ At("fetch", k)
  /\ tip[k] < Newest[k]
  /\ tip' = [tip EXCEPT ![k] = @ + 1]
  /\ UNCHANGED <<listed, kitDirs, derived, wired, folder, skills, cmd, plan, asked, outcome, sound, counts>>

(* The user, between commands, and not after the last.                        *)
Edit ==
  /\ Idle /\ commands < MaxCommands /\ edits < MaxEdits /\ edits' = edits + 1
  /\ UNCHANGED <<tip, listed, kitDirs, derived, registered, composed, cmd, plan, asked, outcome, sound, commands>>
WriteHook(h) ==
  /\ Edit /\ h \notin scripts /\ scripts' = scripts \cup {h}
  /\ UNCHANGED <<folder, skills>>
Fill(c) ==
  /\ Edit /\ folder[c] = "scaffold" /\ folder' = [folder EXCEPT ![c] = "content"]
  /\ UNCHANGED <<scripts, skills>>
WriteSkill(n) ==
  /\ Edit /\ source # None
  /\ source' \in {source \cup {n}, source \ {n}, None} \ {source}
  /\ UNCHANGED <<scripts, folder, deployed>>
EditDeployed(s, n) ==
  /\ Edit
  /\ deployed' = [deployed EXCEPT ![s][n] = IF @ \in {None, "new"} THEN "new" ELSE "edited"]
  /\ UNCHANGED <<scripts, folder, source>>

CommandStep ==
  \/ KitUpdate \/ ReInit
  \/ \E k \in Kits : \/ KitUpdateOne(k) \/ KitAdd(k) \/ KitRemove(k) \/ KitPurge(k)
                     \/ Ask(k) \/ Fetch(k) \/ FetchFails(k) \/ WrongScope(k) \/ List(k) \/ Install(k)
                     \/ Mirror(k) \/ MirrorFails(k) \/ Regen(k) \/ RegenFails(k) \/ Drop(k)
  \/ Reap \/ Compose \/ Setup \/ Orphans \/ Load \/ Wipe \/ StepFails \/ Killed
UserStep ==
  \/ \E h \in LocalHooks \cup OwnHooks : WriteHook(h)
  \/ \E c \in AllClasses : Fill(c)
  \/ \E n \in OwnSkills : WriteSkill(n) \/ \E s \in Substrates : EditDeployed(s, n)
Next == CommandStep \/ Save \/ UserStep \/ \E k \in Kits : Publish(k)

Spec == Init /\ [][Next]_vars
-----------------------------------------------------------------------------
(* PROPERTIES *)

Ending == outcome = "running" /\ outcome' = "done"

(* Whatever failed or was killed before: a kit-update of every kit that ends  *)
(* well, with every mirror copied, leaves exactly what the kits it fetched    *)
(* ship: vocabulary, shapes, graph, hook scripts registered, class folders,   *)
(* and under their folder bases no scaffold of a class that is retired.       *)
(* (kit-authoring.md, "kit-update, End to End"; #28, #71, #102)               *)
Shipped == UNION {Ships(Classes, k) : k \in Installed \ {Base}}
ConvergedNow ==
  /\ \A k \in Kits : mirror[k] = IF k \in Installed THEN payload[k] ELSE None
  /\ \A k \in Installed \ {Base} : shapes[k] = View
  /\ graph = View
  /\ KnownHooks \subseteq scripts /\ scripts \subseteq KnownHooks \cup LocalHooks
  /\ Named => registered = scripts
  /\ \A c \in AllClasses :
       IF c \in Shipped THEN folder[c] # None
       ELSE (\E k \in Installed : c \in ContentOf(k)) => folder[c] # "scaffold"
Converged == [][Ending /\ cmd = <<"update", None>> /\ sound => ConvergedNow']_vars

(* Any command that ends well leaves the shapes of every kit with a vocabulary*)
(* derived from what is mirrored now, and the ontology graph with it: what a  *)
(* save validates against is what a query sees. (kit_cmds.rs:48-51, #102)     *)
ShapesFollow == [][Ending =>
  (/\ \A k \in Installed : Shaped(k) => shapes[k] = View
   /\ graph = View)']_vars

(* A receipt never names a version newer than the files beside it, also when  *)
(* the kit's owner publishes between the question and the fetch, and whatever *)
(* failed. (kit.rs:462-470)                                                   *)
ReceiptNotAhead == \A k \in Kits : receipt[k] # None => Ready(k) /\ receipt[k] <= payload[k]

(* What only the user has is never taken: a deployed skill git does not hold, *)
(* a class folder with documents unless its kit is removed with it, a local   *)
(* hook. (claude.rs:302-305, kit_cmds.rs:187-190, kit.rs:1044-1048)           *)
UserWorkKept == [][
  /\ \A n \in AllSkills : "claude" \in Substrates /\ deployed["claude"][n] = "new" => deployed'["claude"][n] # None
  /\ \A c \in AllClasses : folder[c] = "content" /\ cmd[1] # "purge" => folder'[c] = "content"
  /\ scripts \cap LocalHooks \subseteq scripts']_vars

(* What the code's comments say and what it does not keep.                    *)

(* "Never reap on a partial fetch": a script goes only when every installed   *)
(* kit's files are there to say what they ship. (kit.rs:1056-1062)            *)
ReapKnowsAll == [][scripts \subseteq scripts' \/ \A k \in Installed : Ready(k)]_vars

(* "a stale marker is not possible by construction" (kit.rs:470)              *)
ReceiptTells == \A k \in Kits : receipt[k] # None => receipt[k] = payload[k]

(* What is on disk is never consulted for which kits are installed            *)
(* (lib.rs:1036-1038): .agents/hooks.json has parts of installed kits only.   *)
ComposedInstalled == [][Ending => (composed \subseteq Installed)']_vars

(* "its bytes live in git history, so the prune is a convergence, not a loss" *)
(* (claude.rs:304-305)                                                        *)
EditsKept ==
  [][\A n \in AllSkills : deployed["claude"][n] = "edited" => deployed'["claude"][n] # None]_vars
=============================================================================
