----------------------------- MODULE KitsProofs -----------------------------
(* Proofs about Kits: for every set of kits, whatever they ship and however    *)
(* often they are published, no receipt is ahead of the files beside it, what  *)
(* only the user has is never taken, a command that ends well leaves shapes    *)
(* that follow the vocabulary, and an update of every kit converges. The last  *)
(* two follow a command along its plan: which steps are left says what the     *)
(* ones behind it have made true.                                              *)
EXTENDS Kits, FiniteSetTheorems, WellFoundedInduction, SequenceTheorems, TLAPS

Version == Nat \cup {None}
Held == {"kept", "edited", "new", None}
Content == {"scaffold", "content", None}

(* The type of what the two properties speak of.                              *)
KTypeOK ==
  /\ tip \in [Kits -> Nat \ {0}]
  /\ payload \in [Kits -> Version] /\ receipt \in [Kits -> Version] /\ asked \in [Kits -> Version]
  /\ deployed \in [Substrates -> [AllSkills -> Held]]
  /\ folder \in [AllClasses -> Content]

(* An answer is of a version that is published, and main moves only forward:  *)
(* what is fetched after it was asked is as new as the answer.                *)
AskedPublished == \A k \in Kits : asked[k] # None => asked[k] <= tip[k]

ReceiptInv == KTypeOK /\ AskedPublished /\ ReceiptNotAhead

(* The conjuncts of UserWorkKept.                                             *)
NewSkillsKept ==
  \A n \in AllSkills : "claude" \in Substrates /\ deployed["claude"][n] = "new" => deployed'["claude"][n] # None
ContentKept == \A c \in AllClasses : folder[c] = "content" /\ cmd[1] # "purge" => folder'[c] = "content"
LocalHooksKept == scripts \cap LocalHooks \subseteq scripts'

-----------------------------------------------------------------------------
(* No version, no kit and nothing held is None.                               *)
LEMMA NoneIsNothing == None \notin Kits \cup Nat \cup {"new", "kept", "edited", "scaffold", "content"}
BY KitConstants DEF KitConstants

LEMMA InitReceipt == Init => ReceiptInv
BY NoneIsNothing DEF Init, ReceiptInv, KTypeOK, AskedPublished, ReceiptNotAhead, Version, Held, Content,
     Ready, Empty, Unasked

(* A step that leaves kits' directories, questions and the user's things alone*)
(* or moves them within their types.                                          *)
LEMMA Elsewhere ==
  ASSUME ReceiptInv, UNCHANGED <<tip, kitDirs>>,
         \A k \in Kits : asked'[k] \in {asked[k], None}, asked' \in [Kits -> Version],
         deployed' \in [Substrates -> [AllSkills -> Held]], folder' \in [AllClasses -> Content]
  PROVE  ReceiptInv'
BY DEF ReceiptInv, KTypeOK, AskedPublished, ReceiptNotAhead, Ready, kitDirs

LEMMA Quiet ==
  ASSUME ReceiptInv, UNCHANGED <<tip, kitDirs, asked, folder, skills>>
  PROVE  ReceiptInv'
BY DEF ReceiptInv, KTypeOK, AskedPublished, ReceiptNotAhead, Ready, kitDirs, skills

LEMMA BeginReceipt ==
  ASSUME ReceiptInv, NEW op, NEW k, NEW steps, Begin(op, k, steps)
  PROVE  ReceiptInv'
<1>1. asked' \in [Kits -> Version] /\ \A j \in Kits : asked'[j] = None
  BY DEF Begin, Unasked, Version
<1> QED
  BY <1>1, Elsewhere DEF Begin, skills, ReceiptInv, KTypeOK

LEMMA AskReceipt ==
  ASSUME ReceiptInv, NEW k \in Kits, Ask(k)
  PROVE  ReceiptInv'
BY DEF Ask, ReceiptInv, KTypeOK, AskedPublished, ReceiptNotAhead, Ready, kitDirs, skills, Version

LEMMA FetchReceipt ==
  ASSUME ReceiptInv, NEW k \in Kits, Fetch(k)
  PROVE  ReceiptInv'
<1>1. Receipt(k) = None \/ (Receipt(k) \in Nat /\ Receipt(k) <= tip[k])
  BY DEF Receipt, ReceiptInv, KTypeOK, AskedPublished, Version
<1>2. KTypeOK'
  BY <1>1 DEF Fetch, ReceiptInv, KTypeOK, Version, skills
<1>3. AskedPublished'
  BY DEF Fetch, ReceiptInv, KTypeOK, AskedPublished
<1>4. ReceiptNotAhead'
  BY <1>1, NoneIsNothing DEF Fetch, ReceiptInv, KTypeOK, ReceiptNotAhead, Ready, Empty
<1> QED
  BY <1>2, <1>3, <1>4 DEF ReceiptInv

(* The kit's directory is wiped or replaced, and its receipt gone.            *)
LEMMA WipedReceipt ==
  ASSUME ReceiptInv, NEW k \in Kits, NEW v \in Version, UNCHANGED tip,
         payload' = [payload EXCEPT ![k] = v], receipt' = Unreceipted(k),
         \A j \in Kits : asked'[j] \in {asked[j], None}, asked' \in [Kits -> Version],
         deployed' \in [Substrates -> [AllSkills -> Held]], folder' \in [AllClasses -> Content]
  PROVE  ReceiptInv'
<1>1. KTypeOK' /\ AskedPublished'
  BY DEF ReceiptInv, KTypeOK, AskedPublished, Unreceipted, Version
<1>2. ReceiptNotAhead'
  BY DEF ReceiptInv, KTypeOK, ReceiptNotAhead, Ready, Unreceipted
<1> QED
  BY <1>1, <1>2 DEF ReceiptInv

LEMMA FetchFailsReceipt ==
  ASSUME ReceiptInv, NEW k \in Kits, FetchFails(k)
  PROVE  ReceiptInv'
<1>1. PICK left \in {None, Empty, tip[k]} : payload' = [payload EXCEPT ![k] = left]
  BY DEF FetchFails
<1>2. left \in Version
  BY <1>1 DEF ReceiptInv, KTypeOK, Version, Empty
<1>3. asked' \in [Kits -> Version] /\ \A j \in Kits : asked'[j] \in {asked[j], None}
  BY DEF FetchFails, ReceiptInv, KTypeOK, Version
<1> QED
  BY <1>1, <1>2, <1>3, WipedReceipt DEF FetchFails, ReceiptInv, KTypeOK, skills

LEMMA WrongScopeReceipt ==
  ASSUME ReceiptInv, NEW k \in Kits, WrongScope(k)
  PROVE  ReceiptInv'
<1>1. tip[k] \in Version
  BY DEF ReceiptInv, KTypeOK, Version
<1> QED
  BY <1>1, WipedReceipt DEF WrongScope, ReceiptInv, KTypeOK, skills

LEMMA DropReceipt ==
  ASSUME ReceiptInv, NEW k \in Kits, Drop(k)
  PROVE  ReceiptInv'
<1>1. folder' \in [AllClasses -> Content]
  BY DEF Drop, ReceiptInv, KTypeOK, Content
<1> QED
  BY <1>1, WipedReceipt DEF Drop, ReceiptInv, KTypeOK, skills, Version

LEMMA WipeReceipt ==
  ASSUME ReceiptInv, Wipe
  PROVE  ReceiptInv'
BY DEF Wipe, ReceiptInv, KTypeOK, AskedPublished, ReceiptNotAhead, Version, skills

LEMMA InstallReceipt ==
  ASSUME ReceiptInv, NEW k \in Kits, Install(k)
  PROVE  ReceiptInv'
<1>1. deployed' \in [Substrates -> [AllSkills -> Held]]
  BY DEF Install, ReceiptInv, KTypeOK, Held
<1> QED
  BY <1>1, Elsewhere DEF Install, ReceiptInv, KTypeOK

LEMMA RegenReceipt ==
  ASSUME ReceiptInv, NEW k \in Kits, Regen(k)
  PROVE  ReceiptInv'
<1>1. folder' \in [AllClasses -> Content]
  BY DEF Regen, ReceiptInv, KTypeOK, Content
<1> QED
  BY <1>1, Elsewhere DEF Regen, ReceiptInv, KTypeOK, skills

LEMMA SaveReceipt ==
  ASSUME ReceiptInv, Save
  PROVE  ReceiptInv'
<1>1. deployed' \in [Substrates -> [AllSkills -> Held]]
  BY DEF Save, Synced, ReceiptInv, KTypeOK, Held
<1> QED
  BY <1>1, Elsewhere DEF Save, ReceiptInv, KTypeOK

LEMMA PublishReceipt ==
  ASSUME ReceiptInv, NEW k \in Kits, Publish(k)
  PROVE  ReceiptInv'
<1>1. \A j \in Kits : tip'[j] \in Nat \ {0} /\ tip[j] <= tip'[j]
  BY DEF Publish, ReceiptInv, KTypeOK
<1>2. tip' \in [Kits -> Nat \ {0}]
  BY <1>1 DEF Publish, ReceiptInv, KTypeOK
<1>3. AskedPublished'
  BY <1>1, NoneIsNothing DEF Publish, ReceiptInv, KTypeOK, AskedPublished, Version
<1> QED
  BY <1>2, <1>3 DEF Publish, ReceiptInv, KTypeOK, ReceiptNotAhead, Ready, kitDirs, skills

LEMMA CommandReceipt ==
  ASSUME ReceiptInv, CommandStep
  PROVE  ReceiptInv'
<1>1. CASE \/ KitUpdate \/ ReInit
           \/ \E k \in Kits : KitUpdateOne(k) \/ KitAdd(k) \/ KitRemove(k) \/ KitPurge(k)
  BY <1>1, BeginReceipt DEF KitUpdate, ReInit, KitUpdateOne, KitAdd, KitRemove, KitPurge
<1>2. CASE \E k \in Kits : Ask(k) \/ Fetch(k) \/ FetchFails(k) \/ WrongScope(k)
  BY <1>2, AskReceipt, FetchReceipt, FetchFailsReceipt, WrongScopeReceipt
<1>3. CASE \E k \in Kits : List(k) \/ Mirror(k) \/ MirrorFails(k) \/ RegenFails(k)
  BY <1>3, Quiet DEF List, Mirror, MirrorFails, RegenFails
<1>4. CASE \E k \in Kits : Install(k) \/ Regen(k) \/ Drop(k)
  BY <1>4, InstallReceipt, RegenReceipt, DropReceipt
<1>5. CASE Reap \/ Compose \/ Setup \/ Orphans \/ Load \/ StepFails \/ Killed
  BY <1>5, Quiet DEF Reap, Compose, Setup, Orphans, Load, StepFails, Killed
<1>6. CASE Wipe
  BY <1>6, WipeReceipt
<1> QED
  BY <1>1, <1>2, <1>3, <1>4, <1>5, <1>6 DEF CommandStep

LEMMA UserReceipt ==
  ASSUME ReceiptInv, UserStep
  PROVE  ReceiptInv'
<1>1. CASE \E h \in LocalHooks \cup OwnHooks : WriteHook(h)
  BY <1>1, Quiet DEF WriteHook, Edit
<1>2. CASE \E c \in AllClasses : Fill(c)
  <2>1. PICK c \in AllClasses : Fill(c)
    BY <1>2
  <2>2. folder' \in [AllClasses -> Content]
    BY <2>1 DEF Fill, ReceiptInv, KTypeOK, Content
  <2> QED
    BY <2>1, <2>2, Elsewhere DEF Fill, Edit, skills, ReceiptInv, KTypeOK
<1>3. CASE \E n \in OwnSkills : WriteSkill(n)
  BY <1>3, Elsewhere DEF WriteSkill, Edit, ReceiptInv, KTypeOK
<1>4. CASE \E n \in OwnSkills : \E s \in Substrates : EditDeployed(s, n)
  <2>1. PICK n \in OwnSkills, s \in Substrates : EditDeployed(s, n)
    BY <1>4
  <2>2. deployed' \in [Substrates -> [AllSkills -> Held]]
    BY <2>1 DEF EditDeployed, ReceiptInv, KTypeOK, Held
  <2> QED
    BY <2>1, <2>2, Elsewhere DEF EditDeployed, Edit, ReceiptInv, KTypeOK
<1> QED
  BY <1>1, <1>2, <1>3, <1>4 DEF UserStep

LEMMA NextReceipt == ReceiptInv /\ [Next]_vars => ReceiptInv'
<1> SUFFICES ASSUME ReceiptInv, [Next]_vars PROVE ReceiptInv'
  OBVIOUS
<1>1. CASE CommandStep
  BY <1>1, CommandReceipt
<1>2. CASE Save
  BY <1>2, SaveReceipt
<1>3. CASE UserStep
  BY <1>3, UserReceipt
<1>4. CASE \E k \in Kits : Publish(k)
  BY <1>4, PublishReceipt
<1>5. CASE UNCHANGED vars
  BY <1>5, Quiet DEF vars
<1> QED
  BY <1>1, <1>2, <1>3, <1>4, <1>5 DEF Next

(* Whenever the owner of a kit publishes, whatever fails or is killed: a      *)
(* receipt never names a version newer than the files beside it, so no update *)
(* skips bytes that never came. (kit.rs:462-470)                              *)
THEOREM ReceiptsAreEarned == Spec => []ReceiptNotAhead
<1>1. ReceiptInv => ReceiptNotAhead
  BY DEF ReceiptInv
<1> QED
  BY <1>1, InitReceipt, NextReceipt, PTL DEF Spec

-----------------------------------------------------------------------------
(* A step that leaves the user's scripts, folders and skills alone.           *)
LEMMA Untouched ==
  ASSUME KTypeOK, UNCHANGED <<scripts, folder, deployed>>
  PROVE  NewSkillsKept /\ ContentKept /\ LocalHooksKept
BY NoneIsNothing DEF NewSkillsKept, ContentKept, LocalHooksKept

LEMMA CommandKeepsWork ==
  ASSUME KTypeOK, CommandStep
  PROVE  NewSkillsKept /\ ContentKept /\ LocalHooksKept
<1>1. CASE \/ KitUpdate \/ ReInit
           \/ \E k \in Kits : KitUpdateOne(k) \/ KitAdd(k) \/ KitRemove(k) \/ KitPurge(k)
  BY <1>1, NoneIsNothing, Untouched DEF KitUpdate, ReInit, KitUpdateOne, KitAdd, KitRemove, KitPurge, Begin, wired, skills
<1>2. CASE \E k \in Kits : \/ Ask(k) \/ Fetch(k) \/ FetchFails(k) \/ WrongScope(k) \/ List(k)
                            \/ Mirror(k) \/ MirrorFails(k) \/ RegenFails(k)
  BY <1>2, NoneIsNothing, Untouched DEF Ask, Fetch, FetchFails, WrongScope, List, Mirror, MirrorFails, RegenFails, wired, skills
<1>3. CASE Compose \/ Setup \/ Orphans \/ Load \/ Wipe \/ StepFails \/ Killed
  BY <1>3, NoneIsNothing, Untouched DEF Compose, Setup, Orphans, Load, Wipe, StepFails, Killed, wired, skills
<1>4. CASE \E k \in Kits : Install(k)
  BY <1>4, NoneIsNothing DEF Install, KTypeOK, NewSkillsKept, ContentKept, LocalHooksKept
<1>5. CASE \E k \in Kits : Regen(k)
  BY <1>5, NoneIsNothing DEF Regen, Reapable, KTypeOK, NewSkillsKept, ContentKept, LocalHooksKept, wired, skills
<1>6. CASE \E k \in Kits : Drop(k)
  <2>0. PICK k \in Kits : Drop(k)
    BY <1>6
  <2>1. UNCHANGED <<scripts, deployed>>
    BY <2>0 DEF Drop, wired, skills
  <2>2. \A c \in AllClasses : cmd[1] # "purge" => folder'[c] = folder[c]
    BY <2>0 DEF Drop
  <2>3. NewSkillsKept
    BY <2>1, NoneIsNothing DEF NewSkillsKept
  <2>4. ContentKept
    BY <2>2, SMT DEF ContentKept
  <2>5. LocalHooksKept
    BY <2>1 DEF LocalHooksKept
  <2> QED
    BY <2>3, <2>4, <2>5
<1>7. CASE Reap
  BY <1>7, NoneIsNothing DEF Reap, KTypeOK, NewSkillsKept, ContentKept, LocalHooksKept, skills
<1> QED
  BY <1>1, <1>2, <1>3, <1>4, <1>5, <1>6, <1>7, Zenon DEF CommandStep

(* A save prunes of Claude Code's skills only what git has.                   *)
LEMMA SaveKeepsWork ==
  ASSUME KTypeOK, Save
  PROVE  NewSkillsKept /\ ContentKept /\ LocalHooksKept
<1>1. NewSkillsKept
  BY NoneIsNothing DEF Save, Synced, Prunes, Recoverable, KTypeOK, NewSkillsKept
<1> QED
  BY <1>1 DEF Save, ContentKept, LocalHooksKept, wired

LEMMA UserKeepsWork ==
  ASSUME KTypeOK, UserStep
  PROVE  NewSkillsKept /\ ContentKept /\ LocalHooksKept
BY NoneIsNothing, SMTT(30) DEF UserStep, WriteHook, Fill, WriteSkill, EditDeployed, Edit, skills,
     KTypeOK, NewSkillsKept, ContentKept, LocalHooksKept

(* No command, whatever its kits ship or retire and wherever it stops, takes  *)
(* what only the user has: a deployed skill git does not hold, a class folder *)
(* with documents unless its kit is removed with it, a local hook.            *)
(* (claude.rs:302-305, kit_cmds.rs:187-190, kit.rs:1044-1048)                 *)
THEOREM NothingOfTheUserTaken == Spec => UserWorkKept
<1>1. ReceiptInv /\ [Next]_vars => NewSkillsKept /\ ContentKept /\ LocalHooksKept
  <2> SUFFICES ASSUME KTypeOK, [Next]_vars PROVE NewSkillsKept /\ ContentKept /\ LocalHooksKept
    BY DEF ReceiptInv
  <2>1. CASE CommandStep
    BY <2>1, CommandKeepsWork
  <2>2. CASE Save
    BY <2>2, SaveKeepsWork
  <2>3. CASE UserStep
    BY <2>3, UserKeepsWork
  <2>4. CASE (\E k \in Kits : Publish(k)) \/ UNCHANGED vars
    BY <2>4, NoneIsNothing, Untouched DEF Publish, vars, wired, skills
  <2> QED
    BY <2>1, <2>2, <2>3, <2>4 DEF Next
<1> QED
  BY <1>1, InitReceipt, NextReceipt, PTL DEF Spec, UserWorkKept, NewSkillsKept, ContentKept, LocalHooksKept

-----------------------------------------------------------------------------
LEMMA SmallestExists ==
  ASSUME NEW S \in SUBSET Nat, S # {}
  PROVE  \E m \in S : \A j \in S : m <= j
<1>1. PICK m \in S : \A j \in S : ~ (<<j, m>> \in OpToRel(<, Nat))
  BY NatLessThanWellFounded, WFMin
<1>2. \A j \in S : ~ (j < m)
  BY <1>1 DEF OpToRel
<1> QED
  BY <1>2

LEMMA OrderOfKits ==
  /\ Len(Order) \in Nat /\ Len(Order) >= 2 /\ DOMAIN Order = 1..Len(Order)
  /\ Kits = {Order[i] : i \in 1..Len(Order)} /\ \A i \in 1..Len(Order) : Order[i] \in Kits
  /\ \A i, j \in 1..Len(Order) : Order[i] = Order[j] => i = j
<1>1. Order \in Seq(Kits) /\ Len(Order) >= 2 /\ IsInjective(Order)
  BY KitConstants DEF KitConstants
<1>2. Len(Order) \in Nat /\ DOMAIN Order = 1..Len(Order)
  BY <1>1, LenProperties
<1>3. Kits = {Order[i] : i \in 1..Len(Order)}
  BY <1>2 DEF Kits, ToSet
<1> QED
  BY <1>1, <1>2, <1>3 DEF IsInjective

LEMMA BaseAndDomain == Base \in Kits /\ Domain \in Kits /\ Base # Domain
BY OrderOfKits DEF Base, Domain

LEMMA Places == \A k \in Kits : /\ Place(k) \in 1..Len(Order) /\ Order[Place(k)] = k
                                 /\ \A i \in 1..Len(Order) : Order[i] = k => Place(k) = i
<1> SUFFICES ASSUME NEW k \in Kits
             PROVE  /\ Place(k) \in 1..Len(Order) /\ Order[Place(k)] = k
                    /\ \A i \in 1..Len(Order) : Order[i] = k => Place(k) = i
  OBVIOUS
<1>1. \E i \in DOMAIN Order : Order[i] = k
  BY OrderOfKits
<1>2. Place(k) \in DOMAIN Order /\ Order[Place(k)] = k
  BY <1>1 DEF Place
<1> QED
  BY <1>2, OrderOfKits

(* The kits among the first n can be listed in their order: were there a least*)
(* n with a set that cannot, leaving its last kit out would give a smaller.   *)
Upto(n) == {k \in Kits : Place(k) <= n}
CanSort(ks) == \E s \in Seq(ks) : InOrderOf(s, ks)

LEMMA SortedWithLast ==
  ASSUME NEW ks \in SUBSET Kits, NEW k \in ks, \A j \in ks \ {k} : Place(j) < Place(k), CanSort(ks \ {k})
  PROVE  CanSort(ks)
<1>1. PICK s \in Seq(ks \ {k}) : InOrderOf(s, ks \ {k})
  BY DEF CanSort
<1> DEFINE t == Append(s, k)
<1>2. Len(s) \in Nat /\ DOMAIN s = 1..Len(s) /\ \A i \in 1..Len(s) : s[i] \in ks \ {k}
  BY LenProperties, ElementOfSeq
<1>3. s \in Seq(ks)
  BY SeqMonotonic, ks \ {k} \subseteq ks
<1>4. t \in Seq(ks) /\ Len(t) = Len(s) + 1 /\ DOMAIN t = 1..(Len(s) + 1)
      /\ t[Len(s) + 1] = k /\ \A i \in 1..Len(s) : t[i] = s[i]
  BY <1>2, <1>3
<1> HIDE DEF t
<1>5. ToSet(s) = ks \ {k} /\ \A i, j \in 1..Len(s) : i < j => Place(s[i]) < Place(s[j])
  BY <1>1, <1>2 DEF InOrderOf
<1>6. ToSet(t) = ks
  BY <1>2, <1>4, <1>5 DEF ToSet
<1>7. \A i, j \in 1..(Len(s) + 1) : i < j => Place(t[i]) < Place(t[j])
  <2> SUFFICES ASSUME NEW i \in 1..(Len(s) + 1), NEW j \in 1..(Len(s) + 1), i < j PROVE Place(t[i]) < Place(t[j])
    OBVIOUS
  <2>1. i \in 1..Len(s) /\ t[i] = s[i]
    BY <1>2, <1>4
  <2>2. CASE j = Len(s) + 1
    BY <1>2, <1>4, <2>1, <2>2
  <2>3. CASE j \in 1..Len(s)
    BY <1>4, <1>5, <2>1, <2>3
  <2> QED
    BY <1>2, <2>2, <2>3
<1> QED
  BY <1>4, <1>6, <1>7 DEF CanSort, InOrderOf

LEMMA AllCanSort == \A ks \in SUBSET Kits : CanSort(ks)
<1> DEFINE Bad == {n \in Nat : \E ks \in SUBSET Upto(n) : ~CanSort(ks)}
<1>1. Bad = {}
  <2> SUFFICES ASSUME Bad # {} PROVE FALSE
    OBVIOUS
  <2>1. PICK n \in Bad : \A j \in Bad : n <= j
    BY SmallestExists
  <2>2. PICK ks \in SUBSET Upto(n) : ~CanSort(ks)
    BY <2>1
  <2>3. n \in Nat /\ ks \in SUBSET Kits
    BY <2>1, <2>2 DEF Upto
  <2>4. CASE n = 0
    <3>1. ks = {}
      BY <2>2, <2>4, OrderOfKits, Places DEF Upto
    <3>2. <<>> \in Seq(ks) /\ InOrderOf(<<>>, ks)
      BY <3>1 DEF InOrderOf, ToSet
    <3> QED
      BY <2>2, <3>2 DEF CanSort
  <2>5. CASE n > 0
    <3>1. n - 1 \notin Bad
      BY <2>1, <2>3, <2>5
    <3>2. \A js \in SUBSET Upto(n - 1) : CanSort(js)
      BY <2>3, <2>5, <3>1
    <3>3. CASE \E k \in ks : Place(k) = n
      <4>1. PICK k \in ks : Place(k) = n
        BY <3>3
      <4>2. \A j \in ks \ {k} : Place(j) <= n /\ Place(j) # n /\ Place(j) \in Nat
        BY <2>2, <4>1, Places, OrderOfKits DEF Upto
      <4>3. ks \ {k} \in SUBSET Upto(n - 1) /\ \A j \in ks \ {k} : Place(j) < Place(k)
        BY <2>3, <4>1, <4>2 DEF Upto
      <4> HIDE DEF Bad
      <4> QED
        BY <2>2, <2>3, <3>2, <4>1, <4>3, SortedWithLast
    <3>4. CASE \A k \in ks : Place(k) # n
      <4>1. \A j \in ks : Place(j) <= n /\ Place(j) # n /\ Place(j) \in Nat
        BY <2>2, <3>4, Places, OrderOfKits DEF Upto
      <4>2. ks \in SUBSET Upto(n - 1)
        BY <2>3, <4>1 DEF Upto
      <4> QED
        BY <2>2, <3>2, <4>2
    <3> QED
      BY <3>3, <3>4
  <2> QED
    BY <2>3, <2>4, <2>5
<1>2. \A ks \in SUBSET Kits : ks \in SUBSET Upto(Len(Order))
  BY OrderOfKits, Places DEF Upto
<1> QED
  BY <1>1, <1>2, OrderOfKits

LEMMA SortedIs ==
  ASSUME NEW ks \in SUBSET Kits
  PROVE  Sorted(ks) \in Seq(ks) /\ ToSet(Sorted(ks)) = ks
<1>1. PICK s \in Seq(ks) : InOrderOf(s, ks)
  BY AllCanSort DEF CanSort
<1>2. Len(s) \in Nat /\ s \in [1..Len(s) -> ks] /\ DOMAIN s = 1..Len(s)
  BY LenProperties
<1>3. \A i \in 1..Len(s) : s[i] \in ks /\ Place(s[i]) \in Int
  BY <1>2, Places, OrderOfKits
<1>4. \A i, j \in 1..Len(s) : s[i] = s[j] => i = j
  BY <1>1, <1>2, <1>3 DEF InOrderOf
<1>5. s \in Bijection(1..Len(s), ks)
  BY <1>1, <1>2, <1>4 DEF InOrderOf, ToSet, Bijection, Injection, Surjection, IsInjective
<1>6. IsFiniteSet(1..Len(s)) /\ Cardinality(1..Len(s)) = Len(s)
  BY <1>2, FS_Interval
<1>7. ExistsBijection(1..Len(s), ks)
  BY <1>5 DEF ExistsBijection
<1>8. IsFiniteSet(ks) /\ Cardinality(ks) = Len(s)
  BY <1>6, <1>7, FS_Bijection
<1>9. s \in [1..Cardinality(ks) -> ks]
  BY <1>2, <1>8
<1>10. Sorted(ks) \in [1..Cardinality(ks) -> ks] /\ InOrderOf(Sorted(ks), ks)
  BY <1>1, <1>9 DEF Sorted
<1> QED
  BY <1>2, <1>8, <1>10 DEF InOrderOf

-----------------------------------------------------------------------------
(* The steps of a command, and the order a plan keeps: what changes kits and  *)
(* their vocabulary comes before what derives from it.                        *)
First == {"ask", "fetch", "list", "drop", "wipe"}
Steps == First \cup {"install", "reap", "compose", "setup", "orphans", "mirror", "regen", "load"}
Step == Steps \X (Kits \cup {None})
Rank(op, step) ==
  IF step \in First THEN 0
  ELSE IF step = "install" THEN 1
  ELSE IF step = "reap" THEN 2
  ELSE IF step \in {"compose", "setup"} THEN IF op = "update" THEN 3 ELSE 7
  ELSE IF step = "orphans" THEN 4
  ELSE IF step = "mirror" THEN 5
  ELSE IF step = "regen" THEN 6 ELSE 8

(* The part of a plan from one rank to another.                               *)
Part(op, s, lo, hi) ==
  /\ s \in Seq(Step)
  /\ \A i \in 1..Len(s) : lo <= Rank(op, s[i][1]) /\ Rank(op, s[i][1]) <= hi
  /\ \A i, j \in 1..Len(s) : i <= j => Rank(op, s[i][1]) <= Rank(op, s[j][1])

LEMMA RankNat == \A op, step : Rank(op, step) \in 0..8
BY DEF Rank

LEMMA ToSetIs ==
  ASSUME NEW S, NEW s \in Seq(S)
  PROVE  \A x : x \in ToSet(s) <=> \E i \in 1..Len(s) : s[i] = x
BY LenProperties DEF ToSet

LEMMA PartsJoin ==
  ASSUME NEW op, NEW s, NEW t, NEW a \in Nat, NEW b \in Nat, NEW c \in Nat, NEW d \in Nat,
         Part(op, s, a, b), Part(op, t, c, d), a <= c, b <= c, b <= d
  PROVE  Part(op, s \o t, a, d) /\ ToSet(s \o t) = ToSet(s) \cup ToSet(t)
<1> DEFINE u == s \o t
           r(x) == Rank(op, x[1])
<1>1. s \in Seq(Step) /\ t \in Seq(Step)
  BY DEF Part
<1>2. /\ u \in Seq(Step) /\ Len(u) = Len(s) + Len(t) /\ Len(s) \in Nat /\ Len(t) \in Nat
      /\ \A i \in 1..Len(s) + Len(t) : u[i] = IF i <= Len(s) THEN s[i] ELSE t[i - Len(s)]
  BY <1>1, ConcatProperties, LenProperties
<1>0. \A x : r(x) \in Nat
  BY RankNat
<1>3. /\ \A i \in 1..Len(s) : a <= r(s[i]) /\ r(s[i]) <= b /\ r(s[i]) \in Nat
      /\ \A i \in 1..Len(t) : c <= r(t[i]) /\ r(t[i]) <= d /\ r(t[i]) \in Nat
  BY <1>0 DEF Part
<1>4. /\ \A i, j \in 1..Len(s) : i <= j => r(s[i]) <= r(s[j])
      /\ \A i, j \in 1..Len(t) : i <= j => r(t[i]) <= r(t[j])
  BY DEF Part
<1> HIDE DEF u, r
<1>5. \A i \in 1..Len(u) : \/ i \in 1..Len(s) /\ u[i] = s[i]
                           \/ i \notin 1..Len(s) /\ i - Len(s) \in 1..Len(t) /\ u[i] = t[i - Len(s)]
  BY <1>2
<1>6. \A i \in 1..Len(u) : a <= r(u[i]) /\ r(u[i]) <= d
  <2> SUFFICES ASSUME NEW i \in 1..Len(u) PROVE a <= r(u[i]) /\ r(u[i]) <= d
    OBVIOUS
  <2>1. CASE i \in 1..Len(s) /\ u[i] = s[i]
    BY <1>3, <2>1
  <2>2. CASE i - Len(s) \in 1..Len(t) /\ u[i] = t[i - Len(s)]
    BY <1>3, <2>2
  <2> QED
    BY <1>5, <2>1, <2>2
<1>7. \A i, j \in 1..Len(u) : i <= j => r(u[i]) <= r(u[j])
  <2> SUFFICES ASSUME NEW i \in 1..Len(u), NEW j \in 1..Len(u), i <= j PROVE r(u[i]) <= r(u[j])
    OBVIOUS
  <2>1. CASE i \in 1..Len(s) /\ j \in 1..Len(s)
    BY <1>4, <1>5, <2>1
  <2>2. CASE i \in 1..Len(s) /\ j \notin 1..Len(s)
    BY <1>3, <1>5, <2>2
  <2>3. CASE i \notin 1..Len(s) /\ j \notin 1..Len(s)
    <3>1. i - Len(s) \in 1..Len(t) /\ j - Len(s) \in 1..Len(t) /\ i - Len(s) <= j - Len(s)
      BY <1>2, <1>5, <2>3
    <3> QED
      BY <1>4, <1>5, <2>3, <3>1
  <2>4. CASE i \notin 1..Len(s) /\ j \in 1..Len(s)
    BY <1>2, <2>4
  <2> QED
    BY <2>1, <2>2, <2>3, <2>4
<1>8. \A i \in 1..Len(s) : i \in 1..Len(u) /\ u[i] = s[i]
  BY <1>2
<1>9. \A i \in 1..Len(t) : i + Len(s) \in 1..Len(u) /\ u[i + Len(s)] = t[i]
  <2> SUFFICES ASSUME NEW i \in 1..Len(t) PROVE i + Len(s) \in 1..Len(u) /\ u[i + Len(s)] = t[i]
    OBVIOUS
  <2>1. i + Len(s) \in 1..Len(s) + Len(t) /\ ~(i + Len(s) <= Len(s)) /\ i + Len(s) - Len(s) = i
    BY <1>2
  <2> QED
    BY <1>2, <2>1
<1>10. /\ \A x : x \in ToSet(u) <=> \E i \in 1..Len(u) : u[i] = x
       /\ \A x : x \in ToSet(s) <=> \E i \in 1..Len(s) : s[i] = x
       /\ \A x : x \in ToSet(t) <=> \E i \in 1..Len(t) : t[i] = x
  BY <1>1, <1>2, ToSetIs
<1>11. ToSet(u) = ToSet(s) \cup ToSet(t)
  <2>1. \A x \in ToSet(u) : x \in ToSet(s) \cup ToSet(t)
    BY <1>5, <1>10
  <2>2. \A x \in ToSet(s) \cup ToSet(t) : x \in ToSet(u)
    BY <1>8, <1>9, <1>10
  <2> QED
    BY <2>1, <2>2
<1>12. Part(op, u, a, d)
  BY <1>2, <1>6, <1>7 DEF Part, r
<1> QED
  BY <1>11, <1>12 DEF u

LEMMA OnePart ==
  ASSUME NEW op, NEW step \in Steps
  PROVE  /\ Part(op, One(step), Rank(op, step), Rank(op, step))
         /\ \A p : p \in ToSet(One(step)) <=> p = <<step, None>>
<1>1. One(step) \in Seq(Step) /\ Len(One(step)) = 1 /\ One(step)[1] = <<step, None>>
  BY DEF One, Step
<1>2. \A p : p \in ToSet(One(step)) <=> p = <<step, None>>
  <2>1. \A p : p \in ToSet(One(step)) <=> \E i \in 1..1 : One(step)[i] = p
    BY <1>1, ToSetIs
  <2>2. \A i : i \in 1..1 <=> i = 1
    OBVIOUS
  <2>3. \A p : p \in ToSet(One(step)) <=> One(step)[1] = p
    BY <2>1, <2>2, Zenon
  <2> QED
    BY <1>1, <2>3, Zenon
<1> QED
  BY <1>1, <1>2, RankNat DEF Part

LEMMA EachPart ==
  ASSUME NEW op, NEW step \in Steps, NEW ks \in Seq(Kits)
  PROVE  /\ Part(op, Each(step, ks), Rank(op, step), Rank(op, step))
         /\ \A p : p \in ToSet(Each(step, ks)) <=> \E k \in ToSet(ks) : p = <<step, k>>
<1> DEFINE n == Len(ks)
           s == Each(step, ks)
<1>1. n \in Nat /\ DOMAIN ks = 1..n /\ \A i \in 1..n : ks[i] \in Kits
  BY LenProperties, ElementOfSeq
<1>2. s = [i \in 1..n |-> <<step, ks[i]>>]
  BY <1>1 DEF Each
<1>3. s \in [1..n -> Step]
  BY <1>1, <1>2 DEF Step
<1>4. s \in Seq(Step) /\ Len(s) = n /\ \A i \in 1..n : s[i] = <<step, ks[i]>>
  BY <1>1, <1>2, <1>3
<1>5. \A p : p \in ToSet(s) <=> \E k \in ToSet(ks) : p = <<step, k>>
  <2>1. \A x : x \in ToSet(s) <=> \E i \in 1..n : s[i] = x
    BY <1>4, ToSetIs
  <2>2. \A x : x \in ToSet(ks) <=> \E i \in 1..n : ks[i] = x
    BY ToSetIs
  <2> HIDE DEF s, n
  <2>3. \A p \in ToSet(s) : \E k \in ToSet(ks) : p = <<step, k>>
    <3> SUFFICES ASSUME NEW p \in ToSet(s) PROVE \E k \in ToSet(ks) : p = <<step, k>>
      OBVIOUS
    <3>1. PICK i \in 1..n : s[i] = p
      BY <2>1
    <3>2. ks[i] \in ToSet(ks) /\ p = <<step, ks[i]>>
      BY <1>4, <2>2, <3>1
    <3> QED
      BY <3>2
  <2>4. \A k \in ToSet(ks) : <<step, k>> \in ToSet(s)
    <3> SUFFICES ASSUME NEW k \in ToSet(ks) PROVE <<step, k>> \in ToSet(s)
      OBVIOUS
    <3>1. PICK i \in 1..n : ks[i] = k
      BY <2>2
    <3>2. s[i] = <<step, k>>
      BY <1>4, <3>1
    <3> QED
      BY <2>1, <3>2
  <2> QED
    BY <2>3, <2>4
<1>6. Part(op, s, Rank(op, step), Rank(op, step))
  <2>1. Rank(op, step) \in Int
    BY RankNat
  <2>2. \A i \in 1..n : Rank(op, s[i][1]) = Rank(op, step)
    BY <1>4
  <2> HIDE DEF s, n
  <2> QED
    BY <1>4, <2>1, <2>2 DEF Part
<1> QED
  BY <1>5, <1>6

LEMMA FetchesPart ==
  ASSUME NEW op, NEW ks \in Seq(Kits)
  PROVE  /\ Part(op, Fetches(ks), 0, 0)
         /\ \A p : p \in ToSet(Fetches(ks)) <=> \E k \in ToSet(ks) : p = <<"ask", k>> \/ p = <<"fetch", k>>
<1> DEFINE n == Len(ks)
           s == Fetches(ks)
<1>1. n \in Nat /\ DOMAIN ks = 1..n /\ \A i \in 1..n : ks[i] \in Kits
  BY LenProperties, ElementOfSeq
<1>2. \A i \in 1..(2 * n) : (i + 1) \div 2 \in 1..n
  BY <1>1
<1>3. s = [i \in 1..(2 * n) |-> <<IF i % 2 = 1 THEN "ask" ELSE "fetch", ks[(i + 1) \div 2]>>]
  BY DEF Fetches
<1>4. s \in [1..(2 * n) -> Step]
  BY <1>1, <1>2, <1>3 DEF Step, Steps, First
<1>5. 2 * n \in Nat
  BY <1>1
<1>6. s \in Seq(Step) /\ Len(s) = 2 * n
  BY <1>4, <1>5
<1>7. \A i \in 1..(2 * n) : s[i] = <<IF i % 2 = 1 THEN "ask" ELSE "fetch", ks[(i + 1) \div 2]>>
  BY <1>3
<1>8. \A i \in 1..(2 * n) : \E k \in ToSet(ks) : s[i] = <<"ask", k>> \/ s[i] = <<"fetch", k>>
  <2>1. \A x : x \in ToSet(ks) <=> \E i \in 1..n : ks[i] = x
    BY ToSetIs
  <2> HIDE DEF s, n
  <2> QED
    BY <1>2, <1>7, <2>1
<1>9. \A i \in 1..n : /\ 2 * i - 1 \in 1..(2 * n) /\ s[2 * i - 1] = <<"ask", ks[i]>>
                      /\ 2 * i \in 1..(2 * n) /\ s[2 * i] = <<"fetch", ks[i]>>
  <2> SUFFICES ASSUME NEW i \in 1..n
               PROVE  /\ 2 * i - 1 \in 1..(2 * n) /\ s[2 * i - 1] = <<"ask", ks[i]>>
                      /\ 2 * i \in 1..(2 * n) /\ s[2 * i] = <<"fetch", ks[i]>>
    OBVIOUS
  <2>1. /\ 2 * i - 1 \in 1..(2 * n) /\ (2 * i - 1) % 2 = 1 /\ (2 * i - 1 + 1) \div 2 = i
        /\ 2 * i \in 1..(2 * n) /\ (2 * i) % 2 = 0 /\ (2 * i + 1) \div 2 = i
    BY <1>1
  <2> HIDE DEF s, n
  <2>2. s[2 * i - 1] = <<"ask", ks[i]>>
    <3> DEFINE j == 2 * i - 1
    <3>1. j \in 1..(2 * n) /\ j % 2 = 1 /\ (j + 1) \div 2 = i
      BY <2>1
    <3> HIDE DEF j
    <3>2. s[j] = <<"ask", ks[i]>>
      BY <1>7, <3>1
    <3> QED
      BY <3>2 DEF j
  <2>3. s[2 * i] = <<"fetch", ks[i]>>
    <3> DEFINE j == 2 * i
    <3>1. j \in 1..(2 * n) /\ j % 2 = 0 /\ (j + 1) \div 2 = i
      BY <2>1
    <3> HIDE DEF j
    <3>2. s[j] = <<"fetch", ks[i]>>
      BY <1>7, <3>1
    <3> QED
      BY <3>2 DEF j
  <2> QED
    BY <2>1, <2>2, <2>3
<1>10. \A p : p \in ToSet(s) <=> \E k \in ToSet(ks) : p = <<"ask", k>> \/ p = <<"fetch", k>>
  <2>1. \A x : x \in ToSet(s) <=> \E i \in 1..(2 * n) : s[i] = x
    BY <1>6, ToSetIs
  <2>2. \A x : x \in ToSet(ks) <=> \E i \in 1..n : ks[i] = x
    BY ToSetIs
  <2> HIDE DEF s, n
  <2>3. \A p \in ToSet(s) : \E k \in ToSet(ks) : p = <<"ask", k>> \/ p = <<"fetch", k>>
    BY <1>8, <2>1
  <2>4. \A k \in ToSet(ks) : <<"ask", k>> \in ToSet(s) /\ <<"fetch", k>> \in ToSet(s)
    BY <1>9, <2>1, <2>2
  <2> QED
    BY <2>3, <2>4
<1>11. \A i \in 1..(2 * n) : Rank(op, s[i][1]) = 0
  BY <1>8 DEF Rank, First
<1>12. Part(op, s, 0, 0)
  BY <1>6, <1>11 DEF Part
<1> QED
  BY <1>10, <1>12

Left == ToSet(plan)
Pending(step, k) == <<step, k>> \in Left
(* What is left of a command is in order and ends with the loading.           *)
PlanInv ==
  plan # <<>> => Part(cmd[1], plan, 0, 8) /\ plan[Len(plan)] = <<"load", None>>

(* A step takes the head of the plan.                                         *)
LEMMA Popped ==
  ASSUME PlanInv, plan # <<>>, Advance
  PROVE  /\ PlanInv'
         /\ Head(plan) \in Left /\ Head(plan) \in Step
         /\ \A p : p \in Left => p \in Step
         /\ \A p : p \in Left <=> p \in Left' \/ p = Head(plan)
         /\ \A p \in Left' : Rank(cmd[1], Head(plan)[1]) <= Rank(cmd[1], p[1])
         /\ plan' # <<>> => cmd' = cmd /\ outcome' = outcome
         /\ plan' = <<>> => \A p \in Left : p = <<"load", None>>
<1>1. Part(cmd[1], plan, 0, 8) /\ plan[Len(plan)] = <<"load", None>>
  BY DEF PlanInv
<1>2. plan \in Seq(Step) /\ plan' = Tail(plan)
  BY <1>1 DEF Part, Advance
<1> DEFINE n == Len(plan)
<1>3. n \in Nat /\ n # 0 /\ Head(plan) = plan[1] /\ \A i \in 1..n : plan[i] \in Step
  BY <1>2, LenProperties, ElementOfSeq, EmptySeq
<1>4. plan' \in Seq(Step) /\ Len(plan') = n - 1 /\ \A i \in 1..(n - 1) : plan'[i] = plan[i + 1]
  BY <1>2, HeadTailProperties
<1>5. /\ \A p : p \in Left <=> \E i \in 1..n : plan[i] = p
      /\ \A p : p \in Left' <=> \E i \in 1..(n - 1) : plan'[i] = p
  <2>1. \A p : p \in ToSet(plan) <=> \E i \in 1..Len(plan) : plan[i] = p
    BY <1>2, ToSetIs
  <2>2. \A p : p \in ToSet(plan') <=> \E i \in 1..Len(plan') : plan'[i] = p
    BY <1>4, ToSetIs
  <2> QED
    BY <1>4, <2>1, <2>2 DEF Left
<1>6. plan' = <<>> <=> n = 1
  BY <1>3, <1>4, EmptySeq
<1>7. /\ plan' # <<>> => cmd' = cmd /\ outcome' = outcome
  BY <1>6 DEF Advance
<1> HIDE DEF n
<1>8. \A i \in 1..n : i = 1 \/ (i - 1 \in 1..(n - 1) /\ plan'[i - 1] = plan[i])
  BY <1>3, <1>4
<1>9. \A i \in 1..(n - 1) : i + 1 \in 1..n /\ 1 \in 1..n /\ 1 <= i + 1 /\ plan'[i] = plan[i + 1]
  BY <1>3, <1>4
<1>10. \A p : p \in Left <=> p \in Left' \/ p = Head(plan)
  <2>1. \A p \in Left : p \in Left' \/ p = Head(plan)
    BY <1>3, <1>5, <1>8
  <2>2. \A p \in Left' : p \in Left
    BY <1>5, <1>9
  <2>3. 1 \in 1..n
    BY <1>3
  <2>4. Head(plan) \in Left
    BY <1>3, <1>5, <2>3
  <2> QED
    BY <2>1, <2>2, <2>4
<1>11. \A i, j \in 1..n : i <= j => Rank(cmd[1], plan[i][1]) <= Rank(cmd[1], plan[j][1])
  BY <1>1 DEF Part, n
<1>12. \A p \in Left' : Rank(cmd[1], Head(plan)[1]) <= Rank(cmd[1], p[1])
  <2> SUFFICES ASSUME NEW p \in Left' PROVE Rank(cmd[1], plan[1][1]) <= Rank(cmd[1], p[1])
    BY <1>3
  <2>1. PICK i \in 1..(n - 1) : plan'[i] = p
    BY <1>5
  <2>2. i + 1 \in 1..n /\ 1 \in 1..n /\ 1 <= i + 1 /\ p = plan[i + 1]
    BY <1>9, <2>1
  <2> QED
    BY <1>11, <2>2
<1>13. plan' = <<>> => \A p \in Left : p = <<"load", None>>
  <2> SUFFICES ASSUME n = 1, NEW p \in Left PROVE p = <<"load", None>>
    BY <1>6
  <2>1. PICK i \in 1..n : plan[i] = p
    BY <1>5
  <2>2. i = n
    BY <2>1
  <2> QED
    BY <1>1, <2>1, <2>2 DEF n
<1>14. \A p \in Left : p \in Step
  BY <1>3, <1>5
<1>15. PlanInv'
  <2> SUFFICES ASSUME plan' # <<>>
               PROVE  Part(cmd[1], plan', 0, 8) /\ plan'[Len(plan')] = <<"load", None>>
    BY <1>7 DEF PlanInv
  <2>1. n - 1 \in Nat /\ n - 1 # 0 /\ Len(plan') \in Nat
    BY <1>3, <1>4, <1>6
  <2>2. plan'[Len(plan')] = plan[n]
    <3>1. n - 1 \in 1..(n - 1) /\ (n - 1) + 1 = n
      BY <1>3, <2>1
    <3>2. plan'[n - 1] = plan[(n - 1) + 1]
      BY <1>4, <3>1
    <3> QED
      BY <1>4, <3>1, <3>2
  <2>3. \A i \in 1..Len(plan') : 0 <= Rank(cmd[1], plan'[i][1]) /\ Rank(cmd[1], plan'[i][1]) <= 8
    BY RankNat
  <2>4. \A i, j \in 1..Len(plan') : i <= j => Rank(cmd[1], plan'[i][1]) <= Rank(cmd[1], plan'[j][1])
    <3> SUFFICES ASSUME NEW i \in 1..(n - 1), NEW j \in 1..(n - 1), i <= j
                 PROVE  Rank(cmd[1], plan'[i][1]) <= Rank(cmd[1], plan'[j][1])
      BY <1>4
    <3>1. i + 1 \in 1..n /\ j + 1 \in 1..n /\ i + 1 <= j + 1 /\ plan'[i] = plan[i + 1] /\ plan'[j] = plan[j + 1]
      BY <1>9, <2>1
    <3> QED
      BY <1>11, <3>1
  <2>5. Part(cmd[1], plan', 0, 8)
    BY <1>4, <2>3, <2>4, Zenon DEF Part
  <2> QED
    BY <1>1, <2>2, <2>5 DEF n
<1> QED
  BY <1>3, <1>7, <1>10, <1>12, <1>13, <1>14, <1>15

-----------------------------------------------------------------------------
LEMMA PartsFollow ==
  ASSUME NEW op, NEW s, NEW t, NEW b \in Nat, NEW c \in Nat, Part(op, s, 0, b), Part(op, t, c, c), b <= c
  PROVE  /\ Part(op, s \o t, 0, c)
         /\ \A p : p \in ToSet(s \o t) <=> p \in ToSet(s) \/ p \in ToSet(t)
<1>1. 0 \in Nat /\ 0 <= c
  OBVIOUS
<1> QED
  BY <1>1, PartsJoin

(* What each command has before it.                                           *)
EndsInLoad(s) == s[Len(s)] = <<"load", None>> /\ s # <<>>

LEMMA LoadedLast ==
  ASSUME NEW op, NEW s, NEW b \in 0..8, Part(op, s, 0, b)
  PROVE  /\ Part(op, s \o One("load"), 0, 8) /\ EndsInLoad(s \o One("load"))
         /\ \A p : p \in ToSet(s \o One("load")) <=> p \in ToSet(s) \/ p = <<"load", None>>
<1>0. "load" \in Steps
  BY DEF Steps
<1>1. Part(op, One("load"), 8, 8) /\ \A p : p \in ToSet(One("load")) <=> p = <<"load", None>>
  BY <1>0, OnePart DEF Rank, First
<1>2. /\ Part(op, s \o One("load"), 0, 8)
      /\ \A p : p \in ToSet(s \o One("load")) <=> p \in ToSet(s) \/ p \in ToSet(One("load"))
  BY <1>1, PartsFollow
<1>3. s \in Seq(Step) /\ Len(One("load")) = 1 /\ One("load")[1] = <<"load", None>> /\ One("load") \in Seq(Step)
  BY <1>1 DEF Part, One
<1>4. Len(s) \in Nat /\ Len(s \o One("load")) = Len(s) + 1 /\ (s \o One("load"))[Len(s) + 1] = <<"load", None>>
  <2> DEFINE t == One("load")
  <2>1. /\ Len(s \o t) = Len(s) + Len(t)
        /\ \A i \in 1..Len(s) + Len(t) : (s \o t)[i] = IF i <= Len(s) THEN s[i] ELSE t[i - Len(s)]
    BY <1>3, ConcatProperties
  <2>2. Len(s) \in Nat
    BY <1>3, LenProperties
  <2>3. Len(t) = 1 /\ t[1] = <<"load", None>>
    BY <1>3
  <2> HIDE DEF t
  <2>4. Len(s) + 1 \in 1..Len(s) + Len(t) /\ ~(Len(s) + 1 <= Len(s)) /\ Len(s) + 1 - Len(s) = 1
    BY <2>2, <2>3
  <2>5. (s \o t)[Len(s) + 1] = t[1]
    BY <2>1, <2>4
  <2> QED
    BY <2>1, <2>2, <2>3, <2>5 DEF t
<1>5. s \o One("load") # <<>>
  BY <1>3, <1>4, ConcatProperties, EmptySeq
<1> QED
  BY <1>1, <1>2, <1>4, <1>5 DEF EndsInLoad

LEMMA WirePart ==
  ASSUME NEW op
  PROVE  /\ op = "update" => Part(op, Wire, 3, 3)
         /\ op # "update" => Part(op, Wire, 7, 7)
         /\ \A p : p \in ToSet(Wire) <=> p = <<"compose", None>> \/ p = <<"setup", None>>
<1> DEFINE r == IF op = "update" THEN 3 ELSE 7
<1>1. "compose" \in Steps /\ "setup" \in Steps /\ Rank(op, "compose") = r /\ Rank(op, "setup") = r /\ r \in Nat
  BY DEF Steps, Rank, First
<1> HIDE DEF r
<1>2. /\ Part(op, One("compose"), r, r) /\ Part(op, One("setup"), r, r)
      /\ \A p : p \in ToSet(One("compose")) <=> p = <<"compose", None>>
      /\ \A p : p \in ToSet(One("setup")) <=> p = <<"setup", None>>
  BY <1>1, OnePart
<1>3. r <= r
  BY <1>1
<1>4. Part(op, Wire, r, r) /\ ToSet(Wire) = ToSet(One("compose")) \cup ToSet(One("setup"))
  BY <1>1, <1>2, <1>3, PartsJoin DEF Wire
<1>5. \A p : p \in ToSet(Wire) <=> p = <<"compose", None>> \/ p = <<"setup", None>>
  <2>1. \A p : p \in ToSet(Wire) <=> p \in ToSet(One("compose")) \/ p \in ToSet(One("setup"))
    BY <1>4
  <2> QED
    BY <1>2, <2>1
<1> QED
  BY <1>4, <1>5 DEF r

LEMMA UpdatePlanIs ==
  ASSUME NEW ks \in Seq(Kits), NEW all \in SUBSET Kits, Installed = all
  PROVE  /\ Part("update", UpdatePlan(ks), 0, 8) /\ EndsInLoad(UpdatePlan(ks))
         /\ \A p : p \in ToSet(UpdatePlan(ks)) <=>
              \/ \E k \in ToSet(ks) : p = <<"ask", k>> \/ p = <<"fetch", k>> \/ p = <<"install", k>>
              \/ \E k \in all : p = <<"mirror", k>> \/ p = <<"regen", k>>
              \/ p = <<"reap", None>> \/ p = <<"compose", None>> \/ p = <<"setup", None>>
              \/ p = <<"orphans", None>> \/ p = <<"load", None>>
<1> DEFINE op == "update"
           a == Fetches(ks)
           b == Each("install", ks)
           c == One("reap")
           d == Wire
           e == One("orphans")
           f == Each("mirror", Sorted(all))
           g == Each("regen", Sorted(all))
<1>1. Sorted(all) \in Seq(Kits) /\ ToSet(Sorted(all)) = all
  BY SortedIs, SeqMonotonic
<1>2. /\ {"install", "reap", "orphans", "mirror", "regen"} \subseteq Steps
      /\ Rank(op, "install") = 1 /\ Rank(op, "reap") = 2 /\ Rank(op, "orphans") = 4
      /\ Rank(op, "mirror") = 5 /\ Rank(op, "regen") = 6
  BY DEF Steps, Rank, First
<1>3. Part(op, a, 0, 0) /\ \A p : p \in ToSet(a) <=> \E k \in ToSet(ks) : p = <<"ask", k>> \/ p = <<"fetch", k>>
  BY FetchesPart
<1>4. Part(op, b, 1, 1) /\ \A p : p \in ToSet(b) <=> \E k \in ToSet(ks) : p = <<"install", k>>
  BY <1>2, EachPart
<1>5. Part(op, c, 2, 2) /\ \A p : p \in ToSet(c) <=> p = <<"reap", None>>
  BY <1>2, OnePart
<1>6. Part(op, d, 3, 3) /\ \A p : p \in ToSet(d) <=> p = <<"compose", None>> \/ p = <<"setup", None>>
  BY WirePart
<1>7. Part(op, e, 4, 4) /\ \A p : p \in ToSet(e) <=> p = <<"orphans", None>>
  BY <1>2, OnePart
<1>8. Part(op, f, 5, 5) /\ \A p : p \in ToSet(f) <=> \E k \in all : p = <<"mirror", k>>
  BY <1>1, <1>2, EachPart
<1>9. Part(op, g, 6, 6) /\ \A p : p \in ToSet(g) <=> \E k \in all : p = <<"regen", k>>
  BY <1>1, <1>2, EachPart
<1>10. UpdatePlan(ks) = a \o b \o c \o d \o e \o f \o g \o One("load")
  BY DEF UpdatePlan
<1> HIDE DEF a, b, c, d, e, f, g, op
<1>11. /\ Part(op, a \o b, 0, 1)
       /\ \A p : p \in ToSet(a \o b) <=> p \in ToSet(a) \/ p \in ToSet(b)
  BY <1>3, <1>4, PartsFollow
<1>12. /\ Part(op, a \o b \o c, 0, 2)
       /\ \A p : p \in ToSet(a \o b \o c) <=> p \in ToSet(a \o b) \/ p \in ToSet(c)
  BY <1>11, <1>5, PartsFollow
<1>13. /\ Part(op, a \o b \o c \o d, 0, 3)
       /\ \A p : p \in ToSet(a \o b \o c \o d) <=> p \in ToSet(a \o b \o c) \/ p \in ToSet(d)
  BY <1>12, <1>6, PartsFollow
<1>14. /\ Part(op, a \o b \o c \o d \o e, 0, 4)
       /\ \A p : p \in ToSet(a \o b \o c \o d \o e) <=> p \in ToSet(a \o b \o c \o d) \/ p \in ToSet(e)
  BY <1>13, <1>7, PartsFollow
<1>15. /\ Part(op, a \o b \o c \o d \o e \o f, 0, 5)
       /\ \A p : p \in ToSet(a \o b \o c \o d \o e \o f) <=> p \in ToSet(a \o b \o c \o d \o e) \/ p \in ToSet(f)
  BY <1>14, <1>8, PartsFollow
<1>16. /\ Part(op, a \o b \o c \o d \o e \o f \o g, 0, 6)
       /\ \A p : p \in ToSet(a \o b \o c \o d \o e \o f \o g) <=> p \in ToSet(a \o b \o c \o d \o e \o f) \/ p \in ToSet(g)
  BY <1>15, <1>9, PartsFollow
<1> DEFINE u == a \o b \o c \o d \o e \o f \o g
<1>17. /\ Part(op, u \o One("load"), 0, 8) /\ EndsInLoad(u \o One("load"))
       /\ \A p : p \in ToSet(u \o One("load")) <=> p \in ToSet(u) \/ p = <<"load", None>>
  BY <1>16, LoadedLast
<1>18. \A p : p \in ToSet(u) <=>
         \/ p \in ToSet(a) \/ p \in ToSet(b) \/ p \in ToSet(c) \/ p \in ToSet(d)
         \/ p \in ToSet(e) \/ p \in ToSet(f) \/ p \in ToSet(g)
  BY <1>11, <1>12, <1>13, <1>14, <1>15, <1>16
<1> HIDE DEF u
<1>19. \A p : p \in ToSet(u \o One("load")) <=>
         \/ \E k \in ToSet(ks) : p = <<"ask", k>> \/ p = <<"fetch", k>> \/ p = <<"install", k>>
         \/ \E k \in all : p = <<"mirror", k>> \/ p = <<"regen", k>>
         \/ p = <<"reap", None>> \/ p = <<"compose", None>> \/ p = <<"setup", None>>
         \/ p = <<"orphans", None>> \/ p = <<"load", None>>
  BY <1>3, <1>4, <1>5, <1>6, <1>7, <1>8, <1>9, <1>17, <1>18
<1> QED
  BY <1>10, <1>17, <1>19 DEF op, u

LEMMA EachOfOne ==
  ASSUME NEW op, NEW step \in Steps, NEW k \in Kits
  PROVE  /\ Part(op, Each(step, <<k>>), Rank(op, step), Rank(op, step))
         /\ \A p : p \in ToSet(Each(step, <<k>>)) <=> p = <<step, k>>
<1> DEFINE ks == <<k>>
<1>1. ks \in Seq(Kits) /\ \A j : j \in ToSet(ks) <=> j = k
  BY DEF ToSet
<1> HIDE DEF ks
<1>2. /\ Part(op, Each(step, ks), Rank(op, step), Rank(op, step))
      /\ \A p : p \in ToSet(Each(step, ks)) <=> p = <<step, k>>
  BY <1>1, EachPart
<1> QED
  BY <1>2 DEF ks

LEMMA EachOfTwo ==
  ASSUME NEW op, NEW step \in Steps
  PROVE  /\ Part(op, Each(step, <<Base, Domain>>), Rank(op, step), Rank(op, step))
         /\ \A p : p \in ToSet(Each(step, <<Base, Domain>>)) <=> \E k \in {Base, Domain} : p = <<step, k>>
<1> DEFINE ks == <<Base, Domain>>
<1>1. ks \in Seq(Kits) /\ \A j : j \in ToSet(ks) <=> j \in {Base, Domain}
  BY BaseAndDomain DEF ToSet
<1> HIDE DEF ks
<1>2. /\ Part(op, Each(step, ks), Rank(op, step), Rank(op, step))
      /\ \A p : p \in ToSet(Each(step, ks)) <=> \E k \in {Base, Domain} : p = <<step, k>>
  BY <1>1, EachPart
<1> QED
  BY <1>2 DEF ks

LEMMA AddPlanIs ==
  ASSUME NEW k \in Kits, NEW all \in SUBSET Kits, Installed \cup {k} = all
  PROVE  /\ Part("add", AddPlan(k), 0, 8) /\ EndsInLoad(AddPlan(k))
         /\ \A p : p \in ToSet(AddPlan(k)) <=>
              \/ p = <<"fetch", k>> \/ p = <<"list", k>> \/ p = <<"install", k>>
              \/ \E j \in all : p = <<"regen", j>>
              \/ p = <<"compose", None>> \/ p = <<"setup", None>> \/ p = <<"load", None>>
<1> DEFINE op == "add"
           a == Each("fetch", <<k>>)
           b == Each("list", <<k>>)
           c == Each("install", <<k>>)
           d == Each("regen", Sorted(all))
           e == Wire
<1>1. Sorted(all) \in Seq(Kits) /\ ToSet(Sorted(all)) = all
  BY SortedIs, SeqMonotonic
<1>2. /\ {"fetch", "list", "install", "regen"} \subseteq Steps
      /\ Rank(op, "fetch") = 0 /\ Rank(op, "list") = 0 /\ Rank(op, "install") = 1 /\ Rank(op, "regen") = 6
  BY DEF Steps, Rank, First
<1>4. Part(op, a, 0, 0) /\ \A p : p \in ToSet(a) <=> p = <<"fetch", k>>
  BY <1>2, EachOfOne
<1>5. Part(op, b, 0, 0) /\ \A p : p \in ToSet(b) <=> p = <<"list", k>>
  BY <1>2, EachOfOne
<1>6. Part(op, c, 1, 1) /\ \A p : p \in ToSet(c) <=> p = <<"install", k>>
  BY <1>2, EachOfOne
<1>7. Part(op, d, 6, 6) /\ \A p : p \in ToSet(d) <=> \E j \in all : p = <<"regen", j>>
  BY <1>1, <1>2, EachPart
<1>8. Part(op, e, 7, 7) /\ \A p : p \in ToSet(e) <=> p = <<"compose", None>> \/ p = <<"setup", None>>
  BY WirePart
<1>9. AddPlan(k) = a \o b \o c \o d \o e \o One("load")
  BY DEF AddPlan
<1> HIDE DEF a, b, c, d, e, op
<1>10. /\ Part(op, a \o b, 0, 0)
       /\ \A p : p \in ToSet(a \o b) <=> p \in ToSet(a) \/ p \in ToSet(b)
  BY <1>4, <1>5, PartsFollow
<1>11. /\ Part(op, a \o b \o c, 0, 1)
       /\ \A p : p \in ToSet(a \o b \o c) <=> p \in ToSet(a \o b) \/ p \in ToSet(c)
  BY <1>6, <1>10, PartsFollow
<1>12. /\ Part(op, a \o b \o c \o d, 0, 6)
       /\ \A p : p \in ToSet(a \o b \o c \o d) <=> p \in ToSet(a \o b \o c) \/ p \in ToSet(d)
  BY <1>7, <1>11, PartsFollow
<1>13. /\ Part(op, a \o b \o c \o d \o e, 0, 7)
       /\ \A p : p \in ToSet(a \o b \o c \o d \o e) <=> p \in ToSet(a \o b \o c \o d) \/ p \in ToSet(e)
  BY <1>8, <1>12, PartsFollow
<1> DEFINE u == a \o b \o c \o d \o e
<1>14. /\ Part(op, u \o One("load"), 0, 8) /\ EndsInLoad(u \o One("load"))
       /\ \A p : p \in ToSet(u \o One("load")) <=> p \in ToSet(u) \/ p = <<"load", None>>
  BY <1>13, LoadedLast
<1>15. \A p : p \in ToSet(u) <=>
         p \in ToSet(a) \/ p \in ToSet(b) \/ p \in ToSet(c) \/ p \in ToSet(d) \/ p \in ToSet(e)
  BY <1>10, <1>11, <1>12, <1>13
<1> HIDE DEF u
<1>16. \A p : p \in ToSet(u \o One("load")) <=>
         \/ p = <<"fetch", k>> \/ p = <<"list", k>> \/ p = <<"install", k>>
         \/ \E j \in all : p = <<"regen", j>>
         \/ p = <<"compose", None>> \/ p = <<"setup", None>> \/ p = <<"load", None>>
  BY <1>4, <1>5, <1>6, <1>7, <1>8, <1>14, <1>15
<1> QED
  BY <1>9, <1>14, <1>16 DEF op, u

LEMMA RemovePlanIs ==
  ASSUME NEW op \in {"remove", "purge"}, NEW k \in Kits, NEW all \in SUBSET Kits, Installed \ {k} = all
  PROVE  /\ Part(op, RemovePlan(k), 0, 8) /\ EndsInLoad(RemovePlan(k))
         /\ \A p : p \in ToSet(RemovePlan(k)) <=>
              \/ p = <<"drop", k>> \/ \E j \in all : p = <<"regen", j>>
              \/ p = <<"compose", None>> \/ p = <<"setup", None>> \/ p = <<"load", None>>
<1> DEFINE a == Each("drop", <<k>>)
           b == Each("regen", Sorted(all))
           c == Wire
<1>1. Sorted(all) \in Seq(Kits) /\ ToSet(Sorted(all)) = all
  BY SortedIs, SeqMonotonic
<1>2. {"drop", "regen"} \subseteq Steps /\ Rank(op, "drop") = 0 /\ Rank(op, "regen") = 6
  BY DEF Steps, Rank, First
<1>4. Part(op, a, 0, 0) /\ \A p : p \in ToSet(a) <=> p = <<"drop", k>>
  BY <1>2, EachOfOne
<1>5. Part(op, b, 6, 6) /\ \A p : p \in ToSet(b) <=> \E j \in all : p = <<"regen", j>>
  BY <1>1, <1>2, EachPart
<1>6. Part(op, c, 7, 7) /\ \A p : p \in ToSet(c) <=> p = <<"compose", None>> \/ p = <<"setup", None>>
  BY WirePart
<1>7. RemovePlan(k) = a \o b \o c \o One("load")
  BY DEF RemovePlan
<1> HIDE DEF a, b, c
<1>8. /\ Part(op, a \o b, 0, 6)
      /\ \A p : p \in ToSet(a \o b) <=> p \in ToSet(a) \/ p \in ToSet(b)
  BY <1>4, <1>5, PartsFollow
<1>9. /\ Part(op, a \o b \o c, 0, 7)
      /\ \A p : p \in ToSet(a \o b \o c) <=> p \in ToSet(a \o b) \/ p \in ToSet(c)
  BY <1>6, <1>8, PartsFollow
<1> DEFINE u == a \o b \o c
<1>10. /\ Part(op, u \o One("load"), 0, 8) /\ EndsInLoad(u \o One("load"))
       /\ \A p : p \in ToSet(u \o One("load")) <=> p \in ToSet(u) \/ p = <<"load", None>>
  BY <1>9, LoadedLast
<1>11. \A p : p \in ToSet(u \o One("load")) <=>
         \/ p = <<"drop", k>> \/ \E j \in all : p = <<"regen", j>>
         \/ p = <<"compose", None>> \/ p = <<"setup", None>> \/ p = <<"load", None>>
  BY <1>4, <1>5, <1>6, <1>8, <1>9, <1>10
<1> HIDE DEF u
<1> QED
  BY <1>7, <1>10, <1>11 DEF u

LEMMA InitPlanIs ==
  /\ Part("init", InitPlan, 0, 8) /\ EndsInLoad(InitPlan)
  /\ \A p : p \in ToSet(InitPlan) <=>
       \/ p = <<"wipe", None>>
       \/ \E k \in {Base, Domain} : p = <<"fetch", k>> \/ p = <<"install", k>>
       \/ p = <<"regen", Domain>>
       \/ p = <<"compose", None>> \/ p = <<"setup", None>> \/ p = <<"load", None>>
<1> DEFINE op == "init"
           a == One("wipe")
           b == Each("fetch", <<Base, Domain>>)
           c == Each("install", <<Base, Domain>>)
           d == Each("regen", <<Domain>>)
           e == Wire
<1>2. /\ {"wipe", "fetch", "install", "regen"} \subseteq Steps
      /\ Rank(op, "wipe") = 0 /\ Rank(op, "fetch") = 0 /\ Rank(op, "install") = 1 /\ Rank(op, "regen") = 6
  BY DEF Steps, Rank, First
<1>3. Domain \in Kits
  BY BaseAndDomain
<1>4. Part(op, a, 0, 0) /\ \A p : p \in ToSet(a) <=> p = <<"wipe", None>>
  BY <1>2, OnePart
<1>5. Part(op, b, 0, 0) /\ \A p : p \in ToSet(b) <=> \E k \in {Base, Domain} : p = <<"fetch", k>>
  BY <1>2, EachOfTwo
<1>6. Part(op, c, 1, 1) /\ \A p : p \in ToSet(c) <=> \E k \in {Base, Domain} : p = <<"install", k>>
  BY <1>2, EachOfTwo
<1>7. Part(op, d, 6, 6) /\ \A p : p \in ToSet(d) <=> p = <<"regen", Domain>>
  BY <1>2, <1>3, EachOfOne
<1>8. Part(op, e, 7, 7) /\ \A p : p \in ToSet(e) <=> p = <<"compose", None>> \/ p = <<"setup", None>>
  BY WirePart
<1>9. InitPlan = a \o b \o c \o d \o e \o One("load")
  BY DEF InitPlan
<1> HIDE DEF a, b, c, d, e, op
<1>10. /\ Part(op, a \o b, 0, 0)
       /\ \A p : p \in ToSet(a \o b) <=> p \in ToSet(a) \/ p \in ToSet(b)
  BY <1>4, <1>5, PartsFollow
<1>11. /\ Part(op, a \o b \o c, 0, 1)
       /\ \A p : p \in ToSet(a \o b \o c) <=> p \in ToSet(a \o b) \/ p \in ToSet(c)
  BY <1>6, <1>10, PartsFollow
<1>12. /\ Part(op, a \o b \o c \o d, 0, 6)
       /\ \A p : p \in ToSet(a \o b \o c \o d) <=> p \in ToSet(a \o b \o c) \/ p \in ToSet(d)
  BY <1>7, <1>11, PartsFollow
<1>13. /\ Part(op, a \o b \o c \o d \o e, 0, 7)
       /\ \A p : p \in ToSet(a \o b \o c \o d \o e) <=> p \in ToSet(a \o b \o c \o d) \/ p \in ToSet(e)
  BY <1>8, <1>12, PartsFollow
<1> DEFINE u == a \o b \o c \o d \o e
<1>14. /\ Part(op, u \o One("load"), 0, 8) /\ EndsInLoad(u \o One("load"))
       /\ \A p : p \in ToSet(u \o One("load")) <=> p \in ToSet(u) \/ p = <<"load", None>>
  BY <1>13, LoadedLast
<1>15. \A p : p \in ToSet(u) <=>
         p \in ToSet(a) \/ p \in ToSet(b) \/ p \in ToSet(c) \/ p \in ToSet(d) \/ p \in ToSet(e)
  BY <1>10, <1>11, <1>12, <1>13
<1> HIDE DEF u
<1>16. \A p : p \in ToSet(u \o One("load")) <=>
         \/ p = <<"wipe", None>>
         \/ \E k \in {Base, Domain} : p = <<"fetch", k>> \/ p = <<"install", k>>
         \/ p = <<"regen", Domain>>
         \/ p = <<"compose", None>> \/ p = <<"setup", None>> \/ p = <<"load", None>>
  BY <1>4, <1>5, <1>6, <1>7, <1>8, <1>14, <1>15
<1> QED
  BY <1>9, <1>14, <1>16 DEF op, u

-----------------------------------------------------------------------------
DerivedOK ==
  /\ listed \in SUBSET (Kits \ {Base, Domain})
  /\ mirror \in [Kits -> Version] /\ shapes \in [Kits -> {None} \cup [Kits -> Version]]
  /\ shapes[Base] = None

(* The steps that change what is installed or its vocabulary. A kit that the  *)
(* command leaves installed has its shapes before it, or has no vocabulary    *)
(* and gets none, or nothing changes any more and its shapes are right.       *)
Changers == {"list", "drop", "wipe", "install", "orphans", "mirror"}
Settled == \A p \in Left : p[1] \notin Changers
Bare(k) == /\ ~Pending("install", k) /\ ~Pending("mirror", k)
           /\ mirror[k] = None \/ Pending("wipe", None)
Coming(k) == (k \in Installed /\ ~Pending("drop", k)) \/ Pending("list", k)
Follows(k) == \/ k = Base \/ Pending("regen", k) \/ Bare(k)
              \/ Settled /\ (Shaped(k) => shapes[k] = View)
OptionalOnly == \A p \in Left : p[1] \in {"list", "drop"} => p[2] \notin {Base, Domain}
ShapesInv ==
  /\ DerivedOK /\ PlanInv /\ OptionalOnly
  /\ plan # <<>> => \A k \in Kits : Coming(k) => Follows(k)

LEMMA ViewType ==
  ASSUME DerivedOK
  PROVE  View \in [Kits -> Version] /\ View # None
<1>1. View \in [Kits -> Version]
  BY DEF DerivedOK, View, Version
<1> QED
  BY <1>1, KitConstants DEF KitConstants, Version

LEMMA NothingLeft ==
  ASSUME plan' = <<>>
  PROVE  \A p : p \notin Left'
BY DEF Left, ToSet

LEMMA InitShapes == Init => ShapesInv
<1> SUFFICES ASSUME Init PROVE ShapesInv
  OBVIOUS
<1>1. listed \in SUBSET (Kits \ {Base, Domain}) /\ mirror \in [Kits -> Version]
  BY DEF Init, Version
<1>2. View \in [Kits -> Version]
  BY <1>1 DEF View, Version
<1>3. shapes \in [Kits -> {None} \cup [Kits -> Version]]
  BY <1>2 DEF Init
<1>4. shapes[Base] = None
  BY BaseAndDomain DEF Init, Shaped
<1>5. plan = <<>> /\ Left = {}
  BY DEF Init, Left, ToSet
<1> QED
  BY <1>1, <1>3, <1>4, <1>5 DEF ShapesInv, DerivedOK, PlanInv, OptionalOnly

LEMMA Aborted ==
  ASSUME plan' = <<>>, DerivedOK'
  PROVE  ShapesInv'
BY NothingLeft DEF ShapesInv, PlanInv, OptionalOnly

LEMMA Still ==
  ASSUME ShapesInv, UNCHANGED <<plan, cmd, listed, mirror, shapes>>
  PROVE  ShapesInv'
<1>1. Left' = Left /\ View' = View
  BY DEF Left, View, Installed
<1>2. DerivedOK' /\ PlanInv' /\ OptionalOnly'
  BY <1>1 DEF ShapesInv, DerivedOK, PlanInv, OptionalOnly
<1>3. \A k \in Kits : (Coming(k)' <=> Coming(k)) /\ (Follows(k)' <=> Follows(k))
  BY <1>1 DEF Coming, Follows, Pending, Bare, Settled, Shaped, Installed
<1> QED
  BY <1>2, <1>3 DEF ShapesInv

LEMMA BegunShapes ==
  ASSUME ShapesInv, NEW op, NEW arg, NEW steps, Begin(op, arg, steps),
         Part(op, steps, 0, 8), EndsInLoad(steps),
         \A k \in {Base, Domain} : <<"list", k>> \notin ToSet(steps) /\ <<"drop", k>> \notin ToSet(steps),
         \A k \in Kits : \/ k = Base \/ <<"regen", k>> \in ToSet(steps)
                         \/ (k \notin Installed \/ <<"drop", k>> \in ToSet(steps)) /\ <<"list", k>> \notin ToSet(steps)
                         \/ /\ <<"wipe", None>> \in ToSet(steps)
                            /\ <<"install", k>> \notin ToSet(steps) /\ <<"mirror", k>> \notin ToSet(steps)
  PROVE  ShapesInv'
<1>1. plan' = steps /\ Left' = ToSet(steps) /\ cmd'[1] = op /\ UNCHANGED <<listed, mirror, shapes>>
  BY DEF Begin, Left, derived
<1>2. DerivedOK' /\ PlanInv'
  BY <1>1 DEF ShapesInv, DerivedOK, PlanInv, EndsInLoad
<1>3. OptionalOnly'
  <2> SUFFICES ASSUME NEW p \in Left', p[1] \in {"list", "drop"}, p[2] \in {Base, Domain} PROVE FALSE
    BY DEF OptionalOnly
  <2>1. steps \in Seq(Step)
    BY DEF Part
  <2>2. PICK i \in 1..Len(steps) : steps[i] = p
    BY <1>1, <2>1, ToSetIs
  <2>3. p \in Step
    BY <2>1, <2>2, ElementOfSeq
  <2>4. p = <<p[1], p[2]>>
    BY <2>3 DEF Step
  <2> QED
    BY <1>1, <2>4
<1>4. \A k \in Kits : Coming(k)' => Follows(k)'
  BY <1>1 DEF Coming, Follows, Pending, Bare, Installed
<1> QED
  BY <1>2, <1>3, <1>4 DEF ShapesInv

-----------------------------------------------------------------------------
(* A step that leaves the kits and their vocabulary alone.                    *)
LEMMA QuietShapes ==
  ASSUME ShapesInv, plan # <<>>, Advance, UNCHANGED <<listed, mirror, shapes>>,
         Head(plan)[1] \notin {"list", "drop", "wipe", "regen"}
  PROVE  ShapesInv'
<1>1. /\ PlanInv' /\ \A p : p \in Left <=> p \in Left' \/ p = Head(plan)
  BY Popped DEF ShapesInv
<1>2. DerivedOK' /\ OptionalOnly' /\ View' = View
  BY <1>1 DEF ShapesInv, DerivedOK, OptionalOnly, View, Installed
<1>3. \A k : /\ Pending("regen", k)' <=> Pending("regen", k)
             /\ Pending("drop", k)' <=> Pending("drop", k)
             /\ Pending("list", k)' <=> Pending("list", k)
             /\ Pending("wipe", k)' <=> Pending("wipe", k)
             /\ Pending("install", k)' => Pending("install", k)
             /\ Pending("mirror", k)' => Pending("mirror", k)
  BY <1>1 DEF Pending
<1>4. Settled => Settled'
  BY <1>1 DEF Settled
<1>5. \A k \in Kits : Coming(k)' => Coming(k)
  BY <1>3 DEF Coming, Installed
<1>6. \A k \in Kits : Follows(k) => Follows(k)'
  BY <1>2, <1>3, <1>4 DEF Follows, Bare, Shaped
<1> QED
  BY <1>1, <1>2, <1>5, <1>6 DEF ShapesInv

(* A step that changes the vocabulary of some kit, while nothing is settled:  *)
(* what has no vocabulary and gets none keeps having none.                    *)
LEMMA ChangingShapes ==
  ASSUME ShapesInv, plan # <<>>, Advance, UNCHANGED listed, DerivedOK',
         Head(plan)[1] \in {"install", "orphans", "mirror", "wipe"},
         \A k \in Kits : mirror'[k] # None => \/ mirror[k] # None /\ Head(plan) # <<"wipe", None>>
                                             \/ Head(plan) \in {<<"install", k>>, <<"mirror", k>>}
  PROVE  ShapesInv'
<1>1. /\ PlanInv' /\ \A p : p \in Left <=> p \in Left' \/ p = Head(plan)
  BY Popped DEF ShapesInv
<1>2. OptionalOnly' /\ ~Settled
  BY <1>1 DEF ShapesInv, OptionalOnly, Settled, Changers
<1>3. \A k : /\ Pending("regen", k)' <=> Pending("regen", k)
             /\ Pending("drop", k)' <=> Pending("drop", k)
             /\ Pending("list", k)' <=> Pending("list", k)
             /\ Pending("install", k)' => Pending("install", k)
             /\ Pending("mirror", k)' => Pending("mirror", k)
             /\ Pending("wipe", k) => Pending("wipe", k)' \/ Head(plan) = <<"wipe", k>>
  BY <1>1 DEF Pending
<1>4. \A k \in Kits : Coming(k)' => Coming(k)
  BY <1>3 DEF Coming, Installed
<1>5. \A k \in Kits : Bare(k) => Bare(k)'
  <2> SUFFICES ASSUME NEW k \in Kits, Bare(k) PROVE Bare(k)'
    OBVIOUS
  <2>1. ~Pending("install", k) /\ ~Pending("mirror", k) /\ (mirror[k] = None \/ Pending("wipe", None))
    BY DEF Bare
  <2>2. Head(plan) \notin {<<"install", k>>, <<"mirror", k>>}
    BY <1>1, <2>1 DEF Pending
  <2>3. mirror'[k] = None \/ Pending("wipe", None)'
    BY <1>3, <2>1, <2>2
  <2> QED
    BY <1>3, <2>1, <2>3 DEF Bare
<1>6. \A k \in Kits : Follows(k) => Follows(k)'
  BY <1>2, <1>3, <1>5 DEF Follows
<1> QED
  BY <1>1, <1>2, <1>4, <1>6 DEF ShapesInv

LEMMA ListShapes ==
  ASSUME ShapesInv, NEW k \in Kits, List(k)
  PROVE  ShapesInv'
<1>0. plan # <<>> /\ Advance /\ Head(plan) = <<"list", k>> /\ UNCHANGED <<mirror, shapes>> /\ listed' = listed \cup {k}
  BY DEF List, At, derived
<1>1. /\ PlanInv' /\ \A p : p \in Left <=> p \in Left' \/ p = Head(plan)
  BY <1>0, Popped DEF ShapesInv
<1>2. OptionalOnly' /\ k \notin {Base, Domain} /\ ~Settled
  BY <1>0, <1>1 DEF ShapesInv, OptionalOnly, Settled, Changers
<1>3. DerivedOK'
  BY <1>0, <1>2 DEF ShapesInv, DerivedOK
<1>4. \A j : /\ Pending("regen", j)' <=> Pending("regen", j)
             /\ Pending("drop", j)' <=> Pending("drop", j)
             /\ Pending("list", j) <=> Pending("list", j)' \/ j = k
             /\ Pending("install", j)' <=> Pending("install", j)
             /\ Pending("mirror", j)' <=> Pending("mirror", j)
             /\ Pending("wipe", j)' <=> Pending("wipe", j)
  BY <1>0, <1>1 DEF Pending
<1>5. \A j \in Kits : Coming(j)' => Coming(j)
  BY <1>0, <1>4 DEF Coming, Installed
<1>6. \A j \in Kits : Follows(j) => Follows(j)'
  BY <1>0, <1>2, <1>4 DEF Follows, Bare
<1> QED
  BY <1>0, <1>1, <1>2, <1>3, <1>5, <1>6 DEF ShapesInv

LEMMA DropShapes ==
  ASSUME ShapesInv, NEW k \in Kits, Drop(k)
  PROVE  ShapesInv'
<1>0. /\ plan # <<>> /\ Advance /\ Head(plan) = <<"drop", k>> /\ listed' = listed \ {k}
      /\ mirror' = [mirror EXCEPT ![k] = None] /\ shapes' = [shapes EXCEPT ![k] = None]
  BY DEF Drop, At
<1>1. /\ PlanInv' /\ \A p : p \in Left <=> p \in Left' \/ p = Head(plan)
  BY <1>0, Popped DEF ShapesInv
<1>2. OptionalOnly' /\ k \notin {Base, Domain} /\ ~Settled
  BY <1>0, <1>1 DEF ShapesInv, OptionalOnly, Settled, Changers
<1>3. DerivedOK'
  BY <1>0, BaseAndDomain DEF ShapesInv, DerivedOK, Version
<1>4. \A j : /\ Pending("regen", j)' <=> Pending("regen", j)
             /\ Pending("drop", j) <=> Pending("drop", j)' \/ j = k
             /\ Pending("list", j)' <=> Pending("list", j)
             /\ Pending("install", j)' <=> Pending("install", j)
             /\ Pending("mirror", j)' <=> Pending("mirror", j)
             /\ Pending("wipe", j)' <=> Pending("wipe", j)
  BY <1>0, <1>1 DEF Pending
<1>5. \A j \in Kits : Coming(j)' => Coming(j)
  BY <1>0, <1>2, <1>4 DEF Coming, Installed
<1>6. \A j \in Kits : mirror[j] = None => mirror'[j] = None
  BY <1>0 DEF ShapesInv, DerivedOK
<1>7. \A j \in Kits : Follows(j) => Follows(j)'
  BY <1>2, <1>4, <1>6 DEF Follows, Bare
<1> QED
  BY <1>0, <1>1, <1>2, <1>3, <1>5, <1>7 DEF ShapesInv

(* When the first shapes are generated nothing changes their source any more. *)
LEMMA RegenSettled ==
  ASSUME ShapesInv, NEW k \in Kits, plan # <<>>, Advance, Head(plan) = <<"regen", k>>
  PROVE  Settled /\ Settled'
<1>1. /\ \A p : p \in Left <=> p \in Left' \/ p = Head(plan)
      /\ \A p \in Left' : Rank(cmd[1], "regen") <= Rank(cmd[1], p[1])
  BY Popped DEF ShapesInv
<1>2. Rank(cmd[1], "regen") = 6
  BY DEF Rank, First
<1>3. \A step \in Changers : Rank(cmd[1], step) \in 0..5
  BY DEF Rank, First, Changers
<1>4. \A p \in Left' : p[1] \notin Changers
  BY <1>1, <1>2, <1>3
<1> QED
  BY <1>1, <1>4 DEF Settled, Changers

LEMMA RegenIs ==
  ASSUME NEW k \in Kits, Regen(k), DerivedOK
  PROVE  /\ plan # <<>> /\ Advance /\ Head(plan) = <<"regen", k>> /\ UNCHANGED <<listed, mirror, payload, sound, scripts>>
         /\ shapes' = IF Shaped(k) THEN [shapes EXCEPT ![k] = View] ELSE shapes
         /\ Shaped(k) => <<k, mirror[k]>> \notin Broken
         /\ DerivedOK' /\ View' = View
<1>1. /\ plan # <<>> /\ Advance /\ Head(plan) = <<"regen", k>> /\ UNCHANGED <<listed, mirror, payload, sound, scripts>>
      /\ shapes' = IF Shaped(k) THEN [shapes EXCEPT ![k] = View] ELSE shapes
      /\ Shaped(k) => <<k, mirror[k]>> \notin Broken
  BY DEF Regen, At, kitDirs, wired
<1>2. View' = View
  BY <1>1 DEF View, Installed
<1>3. DerivedOK'
  BY <1>1, ViewType DEF DerivedOK, Shaped
<1> QED
  BY <1>1, <1>2, <1>3

LEMMA RegenShapes ==
  ASSUME ShapesInv, NEW k \in Kits, Regen(k)
  PROVE  ShapesInv'
<1>0. DerivedOK
  BY DEF ShapesInv
<1>1. /\ plan # <<>> /\ Advance /\ Head(plan) = <<"regen", k>> /\ UNCHANGED <<listed, mirror>>
      /\ shapes' = IF Shaped(k) THEN [shapes EXCEPT ![k] = View] ELSE shapes
      /\ DerivedOK' /\ View' = View
  BY <1>0, RegenIs
<1>2. /\ PlanInv' /\ \A p : p \in Left <=> p \in Left' \/ p = Head(plan)
  BY <1>1, Popped DEF ShapesInv
<1>3. Settled /\ Settled'
  BY <1>1, RegenSettled
<1>4. OptionalOnly'
  BY <1>2 DEF ShapesInv, OptionalOnly
<1>5. \A j : /\ Pending("regen", j) <=> Pending("regen", j)' \/ j = k
             /\ Pending("drop", j)' <=> Pending("drop", j)
             /\ Pending("list", j)' <=> Pending("list", j)
             /\ Pending("install", j)' <=> Pending("install", j)
             /\ Pending("mirror", j)' <=> Pending("mirror", j)
             /\ Pending("wipe", j)' <=> Pending("wipe", j)
  BY <1>1, <1>2 DEF Pending
<1>6. \A j \in Kits : Coming(j)' => Coming(j)
  BY <1>1, <1>5 DEF Coming, Installed
<1>7. \A j \in Kits : Shaped(j)' <=> Shaped(j)
  BY <1>1 DEF Shaped
<1>8. \A j \in Kits : Follows(j) => Follows(j)'
  <2> SUFFICES ASSUME NEW j \in Kits, Follows(j) PROVE Follows(j)'
    OBVIOUS
  <2>1. CASE j = k
    <3>1. Shaped(k) => shapes'[k] = View
      BY <1>0, <1>1 DEF DerivedOK
    <3> QED
      BY <1>1, <1>3, <1>7, <2>1, <3>1 DEF Follows
  <2>2. CASE j # k
    <3>1. shapes'[j] = shapes[j]
      BY <1>0, <1>1, <2>2 DEF DerivedOK
    <3>2. Bare(j) => Bare(j)'
      BY <1>1, <1>5 DEF Bare
    <3> QED
      BY <1>1, <1>3, <1>5, <1>7, <2>2, <3>1, <3>2 DEF Follows
  <2> QED
    BY <2>1, <2>2
<1> QED
  BY <1>1, <1>2, <1>4, <1>6, <1>8 DEF ShapesInv

LEMMA SameDerived ==
  ASSUME DerivedOK, UNCHANGED <<listed, mirror, shapes>>
  PROVE  DerivedOK'
BY DEF DerivedOK

(* A mirror changes in some kits, and shapes only go.                         *)
LEMMA DerivedMoves ==
  ASSUME DerivedOK, UNCHANGED listed, mirror' \in [Kits -> Version],
         shapes' \in [Kits -> {None} \cup [Kits -> Version]],
         \A k \in Kits : shapes'[k] \in {shapes[k], None}
  PROVE  DerivedOK'
BY BaseAndDomain DEF DerivedOK

LEMMA BeginShapes ==
  ASSUME ShapesInv,
         \/ KitUpdate \/ ReInit
         \/ \E k \in Kits : KitUpdateOne(k) \/ KitAdd(k) \/ KitRemove(k) \/ KitPurge(k)
  PROVE  ShapesInv'
<1>0. Installed \in SUBSET Kits /\ {Base, Domain} \in SUBSET Installed /\ listed \in SUBSET (Kits \ {Base, Domain})
  BY BaseAndDomain DEF Installed, ShapesInv, DerivedOK
<1>1. ASSUME NEW ks \in Seq(Kits), NEW arg, Begin("update", arg, UpdatePlan(ks))
      PROVE  ShapesInv'
  <2>1. \A p \in ToSet(UpdatePlan(ks)) : p[1] \notin {"list", "drop"}
    BY <1>0, UpdatePlanIs
  <2>2. \A k \in Installed : <<"regen", k>> \in ToSet(UpdatePlan(ks))
    BY <1>0, UpdatePlanIs
  <2>3. \A k : <<"list", k>> \notin ToSet(UpdatePlan(ks)) /\ <<"drop", k>> \notin ToSet(UpdatePlan(ks))
    BY <2>1
  <2> QED
    BY <1>0, <1>1, <2>2, <2>3, UpdatePlanIs, BegunShapes
<1>2. CASE KitUpdate
  <2>1. Sorted(Installed) \in Seq(Kits)
    BY <1>0, SortedIs, SeqMonotonic
  <2> QED
    BY <1>1, <1>2, <2>1 DEF KitUpdate
<1>3. CASE \E k \in Kits : KitUpdateOne(k)
  <2>1. PICK k \in Kits : KitUpdateOne(k)
    BY <1>3
  <2>2. <<k>> \in Seq(Kits)
    OBVIOUS
  <2> QED
    BY <1>1, <2>1, <2>2 DEF KitUpdateOne
<1>4. CASE \E k \in Kits : KitAdd(k)
  <2>1. PICK k \in Kits : KitAdd(k)
    BY <1>4
  <2> DEFINE all == Installed \cup {k}
             s == AddPlan(k)
  <2>2. all \in SUBSET Kits /\ k \notin Installed /\ Begin("add", k, s)
    BY <1>0, <2>1 DEF KitAdd
  <2>3. /\ Part("add", s, 0, 8) /\ EndsInLoad(s)
        /\ \A p : p \in ToSet(s) <=>
              \/ p = <<"fetch", k>> \/ p = <<"list", k>> \/ p = <<"install", k>>
              \/ \E j \in all : p = <<"regen", j>>
              \/ p = <<"compose", None>> \/ p = <<"setup", None>> \/ p = <<"load", None>>
    BY <2>2, AddPlanIs
  <2> HIDE DEF all, s
  <2>4. \A j : /\ <<"list", j>> \in ToSet(s) <=> j = k
               /\ <<"drop", j>> \notin ToSet(s)
               /\ <<"regen", j>> \in ToSet(s) <=> j \in all
    BY <2>3
  <2>5. \A j \in {Base, Domain} : <<"list", j>> \notin ToSet(s) /\ <<"drop", j>> \notin ToSet(s)
    BY <1>0, <2>2, <2>4
  <2>6. \A j \in Kits : \/ j = Base \/ <<"regen", j>> \in ToSet(s)
                        \/ /\ j \notin Installed \/ <<"drop", j>> \in ToSet(s)
                           /\ <<"list", j>> \notin ToSet(s)
    BY <2>4 DEF all
  <2> QED
    BY <2>2, <2>3, <2>5, <2>6, BegunShapes
<1>5. CASE \E k \in Kits : KitRemove(k) \/ KitPurge(k)
  <2>1. PICK k \in Kits : KitRemove(k) \/ KitPurge(k)
    BY <1>5
  <2>2. PICK op \in {"remove", "purge"} : Begin(op, k, RemovePlan(k))
    BY <2>1 DEF KitRemove, KitPurge
  <2> DEFINE all == Installed \ {k}
             s == RemovePlan(k)
  <2>3. all \in SUBSET Kits /\ k \notin {Base, Domain}
    BY <1>0, <2>1 DEF KitRemove, KitPurge
  <2>4. /\ Part(op, s, 0, 8) /\ EndsInLoad(s)
        /\ \A p : p \in ToSet(s) <=>
              \/ p = <<"drop", k>> \/ \E j \in all : p = <<"regen", j>>
              \/ p = <<"compose", None>> \/ p = <<"setup", None>> \/ p = <<"load", None>>
    BY <2>3, RemovePlanIs
  <2> HIDE DEF all, s
  <2>5. \A j : /\ <<"drop", j>> \in ToSet(s) <=> j = k
               /\ <<"list", j>> \notin ToSet(s)
               /\ <<"regen", j>> \in ToSet(s) <=> j \in all
    BY <2>4
  <2>6. \A j \in {Base, Domain} : <<"list", j>> \notin ToSet(s) /\ <<"drop", j>> \notin ToSet(s)
    BY <2>3, <2>5
  <2>7. \A j \in Kits : \/ j = Base \/ <<"regen", j>> \in ToSet(s)
                        \/ /\ j \notin Installed \/ <<"drop", j>> \in ToSet(s)
                           /\ <<"list", j>> \notin ToSet(s)
    BY <2>5 DEF all
  <2>8. Begin(op, k, s)
    BY <2>2 DEF s
  <2> QED
    BY <2>4, <2>6, <2>7, <2>8, BegunShapes
<1>6. CASE ReInit
  <2> DEFINE s == InitPlan
  <2>1. /\ Part("init", s, 0, 8) /\ EndsInLoad(s)
        /\ \A p : p \in ToSet(s) <=>
             \/ p = <<"wipe", None>>
             \/ \E k \in {Base, Domain} : p = <<"fetch", k>> \/ p = <<"install", k>>
             \/ p = <<"regen", Domain>>
             \/ p = <<"compose", None>> \/ p = <<"setup", None>> \/ p = <<"load", None>>
    BY InitPlanIs
  <2>2. Begin("init", Domain, s)
    BY <1>6 DEF ReInit
  <2> HIDE DEF s
  <2>3. \A j : /\ <<"drop", j>> \notin ToSet(s) /\ <<"list", j>> \notin ToSet(s) /\ <<"mirror", j>> \notin ToSet(s)
               /\ <<"install", j>> \in ToSet(s) <=> j \in {Base, Domain}
    BY <2>1
  <2>4. <<"wipe", None>> \in ToSet(s) /\ <<"regen", Domain>> \in ToSet(s)
    BY <2>1
  <2>5. \A j \in {Base, Domain} : <<"list", j>> \notin ToSet(s) /\ <<"drop", j>> \notin ToSet(s)
    BY <2>3
  <2>6. \A j \in Kits : \/ j = Base \/ <<"regen", j>> \in ToSet(s)
                        \/ /\ <<"wipe", None>> \in ToSet(s)
                           /\ <<"install", j>> \notin ToSet(s) /\ <<"mirror", j>> \notin ToSet(s)
    BY <2>3, <2>4
  <2> QED
    BY <2>1, <2>2, <2>5, <2>6, BegunShapes
<1> QED
  BY <1>2, <1>3, <1>4, <1>5, <1>6

LEMMA MirrorShapes ==
  ASSUME ShapesInv, KTypeOK, NEW k \in Kits, Mirror(k) \/ MirrorFails(k) \/ Install(k)
  PROVE  ShapesInv'
<1>1. /\ plan # <<>> /\ Advance /\ UNCHANGED listed
      /\ Head(plan) \in {<<"install", k>>, <<"mirror", k>>}
      /\ \/ UNCHANGED <<mirror, shapes>>
         \/ /\ mirror' \in {[mirror EXCEPT ![k] = payload[k]], [mirror EXCEPT ![k] = None]}
            /\ shapes' \in {shapes, [shapes EXCEPT ![k] = None]}
  BY DEF Mirror, MirrorFails, Install, At
<1>2. DerivedOK
  BY DEF ShapesInv
<1>3. /\ mirror' \in [Kits -> Version] /\ shapes' \in [Kits -> {None} \cup [Kits -> Version]]
      /\ \A j \in Kits : shapes'[j] \in {shapes[j], None} /\ (mirror'[j] # None => mirror[j] # None \/ j = k)
  BY <1>1, <1>2 DEF DerivedOK, KTypeOK, Version
<1>4. DerivedOK'
  BY <1>1, <1>2, <1>3, DerivedMoves
<1>5. Head(plan)[1] \in {"install", "mirror"} /\ Head(plan) # <<"wipe", None>>
  BY <1>1
<1> QED
  BY <1>1, <1>3, <1>4, <1>5, ChangingShapes

LEMMA OrphansShapes ==
  ASSUME ShapesInv, Orphans
  PROVE  ShapesInv'
<1>1. /\ plan # <<>> /\ Advance /\ UNCHANGED listed /\ Head(plan) = <<"orphans", None>>
      /\ mirror' \in [Kits -> {None} \cup {mirror[k] : k \in Kits}]
      /\ \A k \in Kits : mirror'[k] \in {mirror[k], None} /\ shapes'[k] \in {shapes[k], None}
      /\ shapes' = [k \in Kits |-> shapes'[k]] /\ mirror' = [k \in Kits |-> mirror'[k]]
  BY DEF Orphans, At
<1>2. DerivedOK
  BY DEF ShapesInv
<1>3. mirror' \in [Kits -> Version] /\ shapes' \in [Kits -> {None} \cup [Kits -> Version]]
  BY <1>1, <1>2 DEF DerivedOK, Version
<1>4. DerivedOK'
  BY <1>1, <1>2, <1>3, DerivedMoves
<1>5. Head(plan)[1] = "orphans" /\ Head(plan) # <<"wipe", None>> /\ \A k \in Kits : mirror'[k] # None => mirror[k] # None
  BY <1>1
<1> QED
  BY <1>1, <1>4, <1>5, ChangingShapes

LEMMA WipeShapes ==
  ASSUME ShapesInv, Wipe
  PROVE  ShapesInv'
<1>1. /\ plan # <<>> /\ Advance /\ UNCHANGED listed /\ Head(plan) = <<"wipe", None>>
      /\ mirror' = [k \in Kits |-> None] /\ shapes' = [k \in Kits |-> None]
  BY DEF Wipe, At
<1>2. DerivedOK
  BY DEF ShapesInv
<1>3. DerivedOK'
  BY <1>1, <1>2, DerivedMoves DEF Version
<1> QED
  BY <1>1, <1>3, ChangingShapes

LEMMA AbortShapes ==
  ASSUME ShapesInv, KTypeOK,
         \/ \E k \in Kits : FetchFails(k) \/ WrongScope(k) \/ RegenFails(k)
         \/ StepFails \/ Killed
  PROVE  ShapesInv'
<1>1. plan' = <<>> /\ UNCHANGED <<listed, mirror, shapes>>
  BY DEF FetchFails, WrongScope, RegenFails, StepFails, Killed, Abort, derived
<1> QED
  BY <1>1, SameDerived, Aborted DEF ShapesInv

LEMMA QuietStepShapes ==
  ASSUME ShapesInv,
         \/ \E k \in Kits : Ask(k) \/ Fetch(k)
         \/ Reap \/ Compose \/ Setup \/ Load
  PROVE  ShapesInv'
<1>1. /\ plan # <<>> /\ Advance /\ UNCHANGED <<listed, mirror, shapes>>
      /\ Head(plan)[1] \notin {"list", "drop", "wipe", "regen"}
  <2>1. CASE \E k \in Kits : Ask(k) \/ Fetch(k)
    BY <2>1 DEF Ask, Fetch, At, derived
  <2>2. CASE Reap \/ Compose \/ Setup
    BY <2>2 DEF Reap, Compose, Setup, At, derived
  <2>3. CASE Load
    BY <2>3 DEF Load, At
  <2> QED
    BY <2>1, <2>2, <2>3
<1> QED
  BY <1>1, QuietShapes

LEMMA NextShapes ==
  ASSUME ShapesInv, KTypeOK, [Next]_vars
  PROVE  ShapesInv'
<1>1. CASE CommandStep
  BY <1>1, BeginShapes, MirrorShapes, OrphansShapes, WipeShapes, AbortShapes, QuietStepShapes,
     ListShapes, DropShapes, RegenShapes, Zenon DEF CommandStep
<1>2. CASE Save \/ UserStep \/ (\E k \in Kits : Publish(k)) \/ UNCHANGED vars
  <2>1. UNCHANGED <<plan, cmd, listed, mirror, shapes>>
    BY <1>2 DEF Save, UserStep, WriteHook, Fill, WriteSkill, EditDeployed, Edit, Publish, vars, derived
  <2> QED
    BY <2>1, Still
<1> QED
  BY <1>1, <1>2 DEF Next

(* A command ends well only with the loading, last of its steps.              *)
EndingNow == outcome = "running" /\ outcome' = "done"
LEMMA EndsWithLoad ==
  ASSUME ShapesInv, [Next]_vars, EndingNow
  PROVE  /\ Load /\ plan # <<>> /\ plan' = <<>> /\ \A p \in Left : p = <<"load", None>>
         /\ graph' = View /\ UNCHANGED <<listed, payload, mirror, shapes, scripts, registered, folder>> /\ View' = View
<1>1. CommandStep /\ plan # <<>> /\ Advance /\ Len(plan) = 1
  <2>1. CASE Save \/ UserStep \/ (\E k \in Kits : Publish(k)) \/ UNCHANGED vars
    <3>1. UNCHANGED outcome
      BY <2>1 DEF Save, UserStep, WriteHook, Fill, WriteSkill, EditDeployed, Edit, Publish, vars
    <3> QED
      BY <3>1 DEF EndingNow
  <2>2. CASE CommandStep
    <3>1. ~(KitUpdate \/ ReInit \/ \E k \in Kits : KitUpdateOne(k) \/ KitAdd(k) \/ KitRemove(k) \/ KitPurge(k))
      BY DEF KitUpdate, ReInit, KitUpdateOne, KitAdd, KitRemove, KitPurge, Begin, EndingNow
    <3>2. ~(StepFails \/ Killed \/ \E k \in Kits : FetchFails(k) \/ WrongScope(k) \/ RegenFails(k))
      BY DEF StepFails, Killed, FetchFails, WrongScope, RegenFails, Abort, EndingNow
    <3>3. Advance /\ plan # <<>>
      <4>1. CASE Reap \/ Compose \/ Setup \/ Orphans \/ Load \/ Wipe
        BY <4>1 DEF Reap, Compose, Setup, Orphans, Load, Wipe, At
      <4>2. CASE \E k \in Kits : \/ Ask(k) \/ Fetch(k) \/ List(k) \/ Install(k)
                                 \/ Mirror(k) \/ MirrorFails(k) \/ Regen(k) \/ Drop(k)
        BY <4>2 DEF Ask, Fetch, List, Install, Mirror, MirrorFails, Regen, Drop, At
      <4> QED
        BY <2>2, <3>1, <3>2, <4>1, <4>2, Zenon DEF CommandStep
    <3> QED
      BY <2>2, <3>3 DEF EndingNow, Advance
  <2> QED
    BY <2>1, <2>2 DEF Next
<1>2. PlanInv
  BY DEF ShapesInv
<1>3. plan \in Seq(Step) /\ plan[1] = <<"load", None>>
  BY <1>1, <1>2 DEF PlanInv, Part
<1>4. Head(plan) = <<"load", None>> /\ plan' = <<>>
  BY <1>1, <1>3, HeadTailProperties, EmptySeq DEF Advance
<1>5. \A p \in Left : p = <<"load", None>>
  BY <1>1, <1>2, <1>4, Popped
<1>6. Load
  <2>1. ~(KitUpdate \/ ReInit \/ \E k \in Kits : KitUpdateOne(k) \/ KitAdd(k) \/ KitRemove(k) \/ KitPurge(k))
    BY <1>1 DEF KitUpdate, ReInit, KitUpdateOne, KitAdd, KitRemove, KitPurge, Begin, Idle
  <2>2. ~(StepFails \/ Killed \/ \E k \in Kits : FetchFails(k) \/ WrongScope(k) \/ RegenFails(k))
    BY DEF StepFails, Killed, FetchFails, WrongScope, RegenFails, Abort, EndingNow
  <2>3. ~(Reap \/ Compose \/ Setup \/ Orphans \/ Wipe)
    BY <1>4 DEF Reap, Compose, Setup, Orphans, Wipe, At
  <2>4. ~\E k \in Kits : Ask(k) \/ Fetch(k) \/ List(k) \/ Install(k) \/ Mirror(k) \/ MirrorFails(k) \/ Regen(k) \/ Drop(k)
    <3>1. \A k : /\ ~At("ask", k) /\ ~At("fetch", k) /\ ~At("list", k) /\ ~At("install", k)
                 /\ ~At("mirror", k) /\ ~At("regen", k) /\ ~At("drop", k)
      BY <1>4 DEF At
    <3> QED
      BY <3>1, Zenon DEF Ask, Fetch, List, Install, Mirror, MirrorFails, Regen, Drop
  <2> QED
    BY <1>1, <2>1, <2>2, <2>3, <2>4 DEF CommandStep
<1>7. graph' = View /\ UNCHANGED <<listed, payload, mirror, shapes, scripts, registered, folder>>
  BY <1>6 DEF Load, kitDirs, wired
<1>8. View' = View
  BY <1>7 DEF View, Installed
<1> QED
  BY <1>1, <1>4, <1>5, <1>6, <1>7, <1>8

ShapesNow == (\A k \in Installed : Shaped(k) => shapes[k] = View) /\ graph = View

LEMMA EndsWithShapes ==
  ASSUME ShapesInv, [Next]_vars, EndingNow
  PROVE  ShapesNow'
<1>1. /\ plan # <<>> /\ \A p \in Left : p = <<"load", None>>
      /\ graph' = View /\ UNCHANGED <<listed, mirror, shapes>> /\ View' = View
  BY EndsWithLoad
<1>2. \A step, k : step # "load" => ~Pending(step, k)
  BY <1>1 DEF Pending
<1>3. \A k \in Installed : k \in Kits /\ (Shaped(k) => shapes[k] = View)
  <2> SUFFICES ASSUME NEW k \in Installed PROVE k \in Kits /\ (Shaped(k) => shapes[k] = View)
    OBVIOUS
  <2>1. k \in Kits
    BY BaseAndDomain DEF Installed, ShapesInv, DerivedOK
  <2>2. Coming(k) /\ Follows(k)
    BY <1>1, <1>2, <2>1 DEF Coming, ShapesInv
  <2> QED
    BY <1>2, <2>1, <2>2 DEF Follows, Bare, Shaped
<1>4. \A k : Shaped(k)' <=> Shaped(k)
  BY <1>1 DEF Shaped
<1>5. Installed' = Installed
  BY <1>1 DEF Installed
<1> QED
  BY <1>1, <1>3, <1>4, <1>5 DEF ShapesNow

(* Whatever failed before and whatever kits ship: a command that ends well    *)
(* leaves every kit with a vocabulary the shapes of what is mirrored now, and *)
(* the store's ontology graph the same. (kit_cmds.rs:48-51, #102)             *)
THEOREM ShapesAreCurrent == Spec => ShapesFollow
<1>1. Init => ReceiptInv /\ ShapesInv
  BY InitReceipt, InitShapes
<1>2. ReceiptInv /\ ShapesInv /\ [Next]_vars => (ReceiptInv /\ ShapesInv)'
  BY NextReceipt, NextShapes DEF ReceiptInv
<1>3. ReceiptInv /\ ShapesInv /\ [Next]_vars => (EndingNow => ShapesNow')
  BY EndsWithShapes
<1> QED
  BY <1>1, <1>2, <1>3, PTL DEF Spec, ShapesFollow, EndingNow, Ending, ShapesNow

-----------------------------------------------------------------------------
(* What a kit-update of every kit has made true by the steps it has behind it.*)
NoFetch == \A p \in Left : p[1] \notin First
NoInstall == \A p \in Left : p[1] \notin First \cup {"install"}
NoReap == \A p \in Left : p[1] \notin First \cup {"install", "reap"}
Deriving == \A p \in Left : p[1] \notin First \cup Changers
OnlyInstalled == \A p \in Left : /\ p[1] \notin {"list", "drop", "wipe"}
                                 /\ p[1] \in {"fetch", "install", "mirror", "regen"} => p[2] \in Installed
Fetched == \A k \in Installed : Pending("fetch", k) \/ Ready(k)
InPlace == \A k \in Installed : \/ Pending("install", k)
                                \/ /\ NoFetch /\ Ships(Hooks, k) \subseteq scripts
                                   /\ sound => mirror[k] = payload[k]
Reaped == Pending("reap", None) \/ (NoInstall /\ scripts \subseteq KnownHooks \cup LocalHooks)
Registered == Pending("setup", None) \/ (NoReap /\ (Named => registered = scripts))
Unorphaned == Pending("orphans", None) \/ (NoInstall /\ \A k \in Kits \ Installed : mirror[k] = None)
Fresh(k) == Settled /\ shapes[k] = View /\ <<k, mirror[k]>> \notin Broken
Cleared == \A k \in Installed : Pending("mirror", k) \/ (sound => shapes[k] = None \/ Fresh(k))
Foldered == \A k \in Installed \ {Base} :
  \/ Pending("regen", k)
  \/ Deriving /\ (sound => /\ <<k, mirror[k]>> \notin Broken
                           /\ \A c \in AllClasses : c \in Ships(Classes, k) => folder[c] # None)
Audited == \A k \in Installed :
  \/ Pending("regen", k)
  \/ Deriving /\ (sound => \A c \in AllClasses : c \in ContentOf(k) /\ c \notin Shipped => folder[c] # "scaffold")
Updating == plan # <<>> /\ cmd = <<"update", None>>
UpdateParts ==
  OnlyInstalled /\ Fetched /\ InPlace /\ Reaped /\ Registered /\ Unorphaned /\ Cleared /\ Foldered /\ Audited
UpdateInv == Updating => UpdateParts

(* One step of such an update: what it has behind it it keeps, and what it    *)
(* does not touch stays.                                                      *)
Popping == \A p : p \in Left <=> p \in Left' \/ p = Head(plan)

LEMMA PendingPops ==
  ASSUME Popping
  PROVE  /\ \A s, k : Pending(s, k)' => Pending(s, k)
         /\ \A s, k : Pending(s, k) => Pending(s, k)' \/ Head(plan) = <<s, k>>
         /\ NoFetch => NoFetch'
         /\ NoInstall => NoInstall'
         /\ NoReap => NoReap'
         /\ Deriving => Deriving'
         /\ Settled => Settled'
BY DEF Popping, Pending, NoFetch, NoInstall, NoReap, Deriving, Settled

LEMMA Frames ==
  ASSUME UpdateParts, Popping, UNCHANGED listed
  PROVE  /\ OnlyInstalled'
         /\ UNCHANGED payload /\ Head(plan)[1] # "fetch" => Fetched'
         /\ UNCHANGED <<payload, mirror, scripts, sound>> /\ Head(plan)[1] # "install" => InPlace'
         /\ UNCHANGED <<payload, scripts>> /\ Head(plan)[1] # "reap" => Reaped'
         /\ UNCHANGED <<scripts, registered>> /\ Head(plan)[1] # "setup" => Registered'
         /\ UNCHANGED mirror /\ Head(plan)[1] # "orphans" => Unorphaned'
         /\ UNCHANGED <<mirror, shapes, sound>> /\ Head(plan)[1] # "mirror" => Cleared'
         /\ UNCHANGED <<payload, mirror, folder, sound>> /\ Head(plan)[1] # "regen" => Foldered' /\ Audited'
<1>0. /\ \A s, k : Pending(s, k)' => Pending(s, k)
      /\ \A s, k : Head(plan)[1] # s /\ Pending(s, k) => Pending(s, k)'
      /\ NoFetch => NoFetch'
      /\ NoInstall => NoInstall'
      /\ NoReap => NoReap'
      /\ Deriving => Deriving'
      /\ Settled => Settled'
  BY PendingPops
<1>1. Installed' = Installed
  BY DEF Installed
<1>2. OnlyInstalled'
  BY <1>1 DEF UpdateParts, OnlyInstalled, Popping
<1>3. ASSUME UNCHANGED payload, Head(plan)[1] # "fetch" PROVE Fetched'
  BY <1>0, <1>1, <1>3 DEF UpdateParts, Fetched, Ready
<1>4. ASSUME UNCHANGED payload PROVE /\ \A k : Ships(Hooks, k)' = Ships(Hooks, k) /\ Ships(Classes, k)' = Ships(Classes, k)
                                    /\ KnownHooks' = KnownHooks /\ Shipped' = Shipped
  BY <1>1, <1>4 DEF Ships, Ready, KnownHooks, Shipped
<1>5. ASSUME UNCHANGED <<payload, mirror, scripts, sound>>, Head(plan)[1] # "install" PROVE InPlace'
  BY <1>0, <1>1, <1>4, <1>5 DEF UpdateParts, InPlace
<1>6. ASSUME UNCHANGED <<payload, scripts>>, Head(plan)[1] # "reap" PROVE Reaped'
  BY <1>0, <1>4, <1>6 DEF UpdateParts, Reaped
<1>7. ASSUME UNCHANGED <<scripts, registered>>, Head(plan)[1] # "setup" PROVE Registered'
  BY <1>0, <1>7 DEF UpdateParts, Registered
<1>8. ASSUME UNCHANGED mirror, Head(plan)[1] # "orphans" PROVE Unorphaned'
  BY <1>0, <1>1, <1>8 DEF UpdateParts, Unorphaned
<1>9. ASSUME UNCHANGED <<mirror, shapes, sound>>, Head(plan)[1] # "mirror" PROVE Cleared'
  <2>1. View' = View
    BY <1>1, <1>9 DEF View
  <2> QED
    BY <1>0, <1>1, <1>9, <2>1 DEF UpdateParts, Cleared, Fresh
<1>10. ASSUME UNCHANGED <<payload, mirror, folder, sound>>, Head(plan)[1] # "regen" PROVE Foldered' /\ Audited'
  <2>1. Foldered'
    BY <1>0, <1>1, <1>4, <1>10 DEF UpdateParts, Foldered
  <2>2. Audited'
    BY <1>0, <1>1, <1>4, <1>10 DEF UpdateParts, Audited, ContentOf
  <2> QED
    BY <2>1, <2>2
<1> QED
  BY <1>2, <1>3, <1>5, <1>6, <1>7, <1>8, <1>9, <1>10

(* Before the deriving starts nothing is said of the folders.                 *)
LEMMA NotDeriving ==
  ASSUME UpdateParts, Popping, UNCHANGED listed, Head(plan) \in Left, Head(plan)[1] \in First \cup Changers
  PROVE  Foldered' /\ Audited'
<1>1. ~Deriving
  BY DEF Deriving
<1>2. \A k \in Installed : Pending("regen", k)
  BY <1>1, BaseAndDomain DEF UpdateParts, Audited
<1>3. Head(plan)[1] # "regen"
  BY DEF First, Changers
<1>4. \A k \in Installed : Pending("regen", k)'
  BY <1>2, <1>3, PendingPops
<1>5. Installed' = Installed
  BY DEF Installed
<1> QED
  BY <1>4, <1>5 DEF Foldered, Audited

(* How far an update is, by the step it is at.                                *)
LEMMA HowFar ==
  ASSUME PlanInv, plan # <<>>, Advance, cmd = <<"update", None>>
  PROVE  /\ Popping /\ Head(plan) \in Left
         /\ Head(plan)[1] = "install" => NoFetch /\ NoFetch'
         /\ Head(plan)[1] = "reap" => NoInstall /\ NoInstall'
         /\ Head(plan)[1] = "setup" => NoReap /\ NoReap'
         /\ Head(plan)[1] \in {"orphans", "mirror"} => NoReap /\ NoReap'
         /\ Head(plan)[1] = "regen" => Deriving /\ Deriving'
<1>1. /\ Popping /\ Head(plan) \in Left
      /\ \A p \in Left' : Rank("update", Head(plan)[1]) <= Rank("update", p[1])
  BY Popped DEF Popping
<1>2. \A p \in Left : p = Head(plan) \/ Rank("update", Head(plan)[1]) <= Rank("update", p[1])
  BY <1>1 DEF Popping
<1>3. /\ \A s \in First : Rank("update", s) = 0
      /\ Rank("update", "install") = 1 /\ Rank("update", "reap") = 2 /\ Rank("update", "setup") = 3
      /\ Rank("update", "orphans") = 4 /\ Rank("update", "mirror") = 5 /\ Rank("update", "regen") = 6
  BY DEF Rank, First
<1>4. {"install", "reap", "setup", "orphans", "mirror", "regen"} \cap First = {}
  BY DEF First
<1>5. Head(plan)[1] = "install" => NoFetch
  BY <1>2, <1>3, <1>4 DEF NoFetch
<1>6. Head(plan)[1] = "reap" => NoInstall
  BY <1>2, <1>3, <1>4 DEF NoInstall
<1>7. Head(plan)[1] \in {"setup", "orphans", "mirror"} => NoReap
  BY <1>2, <1>3, <1>4 DEF NoReap
<1>8. Head(plan)[1] = "regen" => Deriving'
  <2>1. \A s \in Changers : s \in First \/ Rank("update", s) \in {1, 4, 5}
    BY <1>3 DEF Changers, First
  <2> QED
    BY <1>1, <1>3, <2>1 DEF Deriving
<1>9. Head(plan)[1] = "regen" => Deriving
  BY <1>1, <1>4, <1>8 DEF Deriving, Popping, Changers, First
<1> QED
  BY <1>1, <1>5, <1>6, <1>7, <1>8, <1>9, PendingPops

(* The state of an update at its next step.                                   *)
UpdateNow == UpdateParts /\ ShapesInv /\ KTypeOK /\ Updating

LEMMA UpdatingStep ==
  ASSUME UpdateNow, Advance
  PROVE  /\ Popping /\ Head(plan) \in Left
         /\ Head(plan)[1] = "install" => NoFetch /\ NoFetch'
         /\ Head(plan)[1] = "reap" => NoInstall /\ NoInstall'
         /\ Head(plan)[1] = "setup" => NoReap /\ NoReap'
         /\ Head(plan)[1] \in {"orphans", "mirror"} => NoReap /\ NoReap'
         /\ Head(plan)[1] = "regen" => Deriving /\ Deriving'
BY HowFar DEF UpdateNow, Updating, ShapesInv

(* Once everything is fetched every installed kit's files are there.          *)
LEMMA AllReady ==
  ASSUME UpdateParts, NoFetch
  PROVE  \A k \in Installed : Ready(k) /\ payload[k] # None
BY DEF UpdateParts, Fetched, NoFetch, Pending, First, Ready

LEMMA AllInPlace ==
  ASSUME UpdateParts, NoInstall
  PROVE  /\ NoFetch
         /\ \A k \in Installed : Ships(Hooks, k) \subseteq scripts /\ (sound => mirror[k] = payload[k])
BY DEF UpdateParts, InPlace, NoFetch, NoInstall, Pending

LEMMA FetchUpdate ==
  ASSUME UpdateNow, NEW k \in Kits, Fetch(k)
  PROVE  UpdateParts'
<1>1. /\ Advance /\ Head(plan) = <<"fetch", k>> /\ payload' = [payload EXCEPT ![k] = tip[k]]
      /\ UNCHANGED <<listed, mirror, shapes, scripts, registered, folder, sound>>
  BY DEF Fetch, At, derived, wired
<1>2. Popping /\ Head(plan) \in Left /\ UpdateParts
  BY <1>1, UpdatingStep DEF UpdateNow
<1>3. OnlyInstalled' /\ Registered' /\ Unorphaned' /\ Cleared'
  BY <1>1, <1>2, Frames
<1>4. ~NoFetch /\ ~NoInstall
  BY <1>1, <1>2 DEF NoFetch, NoInstall, First
<1>5. Foldered' /\ Audited'
  BY <1>1, <1>2, NotDeriving DEF First
<1>6. \A s, j : Pending(s, j) /\ s # "fetch" => Pending(s, j)'
  BY <1>1, <1>2, PendingPops
<1>7. Installed' = Installed /\ Installed \subseteq Kits
  BY <1>1, BaseAndDomain DEF Installed, UpdateNow, ShapesInv, DerivedOK
<1>8. InPlace' /\ Reaped'
  BY <1>2, <1>4, <1>6, <1>7 DEF UpdateParts, InPlace, Reaped
<1>9. Fetched'
  <2> SUFFICES ASSUME NEW j \in Installed PROVE Pending("fetch", j)' \/ Ready(j)'
    BY <1>7 DEF Fetched
  <2>1. CASE j = k
    <3>1. payload'[k] = tip[k] /\ tip[k] \in Nat \ {0}
      BY <1>1 DEF UpdateNow, KTypeOK
    <3> QED
      BY <2>1, <3>1, NoneIsNothing DEF Ready, Empty
  <2>2. CASE j # k
    <3>1. payload'[j] = payload[j]
      BY <1>1, <1>7, <2>2 DEF UpdateNow, KTypeOK
    <3>2. Pending("fetch", j) => Pending("fetch", j)'
      BY <1>1, <1>2, <2>2, PendingPops
    <3> QED
      BY <1>2, <3>1, <3>2 DEF UpdateParts, Fetched, Ready
  <2> QED
    BY <2>1, <2>2
<1> QED
  BY <1>3, <1>5, <1>8, <1>9 DEF UpdateParts

LEMMA InstallUpdate ==
  ASSUME UpdateNow, NEW k \in Kits, Install(k)
  PROVE  UpdateParts'
<1>1. /\ Advance /\ Head(plan) = <<"install", k>> /\ mirror' = [mirror EXCEPT ![k] = payload[k]]
      /\ scripts' = scripts \cup Ships(Hooks, k)
      /\ UNCHANGED <<listed, payload, shapes, registered, folder, sound>>
  BY DEF Install, At, kitDirs
<1>2. Popping /\ Head(plan) \in Left /\ UpdateParts /\ NoFetch'
  BY <1>1, UpdatingStep DEF UpdateNow
<1>3. OnlyInstalled' /\ Fetched'
  BY <1>1, <1>2, Frames
<1>4. ~NoInstall /\ ~NoReap /\ ~Settled
  BY <1>1, <1>2 DEF NoInstall, NoReap, Settled, Changers
<1>5. Foldered' /\ Audited'
  BY <1>1, <1>2, NotDeriving DEF Changers
<1>6. \A s, j : Pending(s, j) /\ s # "install" => Pending(s, j)'
  BY <1>1, <1>2, PendingPops
<1>7. Installed' = Installed /\ Installed \subseteq Kits
  BY <1>1, BaseAndDomain DEF Installed, UpdateNow, ShapesInv, DerivedOK
<1>8. Reaped' /\ Registered' /\ Unorphaned'
  BY <1>2, <1>4, <1>6 DEF UpdateParts, Reaped, Registered, Unorphaned
<1>9. Cleared'
  BY <1>1, <1>2, <1>4, <1>6, <1>7 DEF UpdateParts, Cleared, Fresh
<1>10. InPlace'
  <2> SUFFICES ASSUME NEW j \in Installed
               PROVE  \/ Pending("install", j)'
                      \/ NoFetch' /\ Ships(Hooks, j)' \subseteq scripts' /\ (sound' => mirror'[j] = payload'[j])
    BY <1>7 DEF InPlace
  <2>1. Ships(Hooks, j)' = Ships(Hooks, j)
    BY <1>1 DEF Ships, Ready
  <2>2. CASE j = k
    <3>1. mirror'[k] = payload[k]
      BY <1>1 DEF UpdateNow, ShapesInv, DerivedOK
    <3> QED
      BY <1>1, <1>2, <2>1, <2>2, <3>1
  <2>3. CASE j # k
    <3>1. mirror'[j] = mirror[j]
      BY <1>1, <1>7, <2>3 DEF UpdateNow, ShapesInv, DerivedOK
    <3>2. Pending("install", j) => Pending("install", j)'
      BY <1>1, <1>2, <2>3, PendingPops
    <3> QED
      BY <1>1, <1>2, <2>1, <3>1, <3>2 DEF UpdateParts, InPlace
  <2> QED
    BY <2>2, <2>3
<1> QED
  BY <1>3, <1>5, <1>8, <1>9, <1>10 DEF UpdateParts

LEMMA ReapUpdate ==
  ASSUME UpdateNow, Reap
  PROVE  UpdateParts'
<1>1. /\ Advance /\ Head(plan) = <<"reap", None>>
      /\ scripts' = IF \A k \in Installed : payload[k] # None
                    THEN scripts \cap (KnownHooks \cup LocalHooks) ELSE scripts
      /\ UNCHANGED <<listed, payload, mirror, shapes, registered, folder, sound>>
  BY DEF Reap, At, kitDirs, derived
<1>2. Popping /\ Head(plan) \in Left /\ UpdateParts /\ NoInstall /\ NoInstall'
  BY <1>1, UpdatingStep DEF UpdateNow
<1>3. OnlyInstalled' /\ Fetched' /\ Unorphaned' /\ Cleared' /\ Foldered' /\ Audited'
  BY <1>1, <1>2, Frames
<1>4. /\ NoFetch /\ NoFetch'
      /\ \A k \in Installed : Ships(Hooks, k) \subseteq scripts /\ (sound => mirror[k] = payload[k])
  BY <1>2, AllInPlace, PendingPops
<1>5. scripts' = scripts \cap (KnownHooks \cup LocalHooks)
  BY <1>1, <1>2, <1>4, AllReady
<1>6. Installed' = Installed /\ KnownHooks' = KnownHooks /\ \A k : Ships(Hooks, k)' = Ships(Hooks, k)
  BY <1>1 DEF Installed, KnownHooks, Ships, Ready
<1>7. Reaped'
  BY <1>2, <1>5, <1>6 DEF Reaped
<1>8. InPlace'
  BY <1>1, <1>4, <1>5, <1>6 DEF InPlace, KnownHooks
<1>9. Registered'
  <2>1. ~NoReap
    BY <1>1, <1>2 DEF NoReap
  <2>2. Pending("setup", None)'
    BY <1>1, <1>2, <2>1, PendingPops DEF UpdateParts, Registered
  <2> QED
    BY <2>2 DEF Registered
<1> QED
  BY <1>3, <1>7, <1>8, <1>9 DEF UpdateParts

LEMMA SetupUpdate ==
  ASSUME UpdateNow, Setup
  PROVE  UpdateParts'
<1>1. /\ Advance /\ Head(plan) = <<"setup", None>> /\ registered' = (IF Named THEN scripts ELSE registered)
      /\ UNCHANGED <<listed, payload, mirror, shapes, scripts, folder, sound>>
  BY DEF Setup, At, kitDirs, derived
<1>2. Popping /\ UpdateParts /\ NoReap'
  BY <1>1, UpdatingStep DEF UpdateNow
<1>3. OnlyInstalled' /\ Fetched' /\ InPlace' /\ Reaped' /\ Unorphaned' /\ Cleared' /\ Foldered' /\ Audited'
  BY <1>1, <1>2, Frames
<1>4. Registered'
  BY <1>1, <1>2 DEF Registered
<1> QED
  BY <1>3, <1>4 DEF UpdateParts

(* Nothing but its assignment of the questions, the composition, the graph.   *)
LEMMA QuietUpdate ==
  ASSUME UpdateNow, \/ \E k \in Kits : Ask(k)
                    \/ Compose \/ Load
  PROVE  UpdateParts'
<1>1. /\ Advance /\ Head(plan)[1] \in {"ask", "compose", "load"}
      /\ UNCHANGED <<listed, payload, mirror, shapes, scripts, registered, folder, sound>>
  <2>1. CASE \E k \in Kits : Ask(k)
    BY <2>1 DEF Ask, At, kitDirs, derived, wired
  <2>2. CASE Compose
    BY <2>2 DEF Compose, At, kitDirs, derived
  <2>3. CASE Load
    BY <2>3 DEF Load, At, kitDirs, wired
  <2> QED
    BY <2>1, <2>2, <2>3
<1>2. Popping /\ UpdateParts
  BY <1>1, UpdatingStep DEF UpdateNow
<1> QED
  BY <1>1, <1>2, Frames DEF UpdateParts

LEMMA OrphansUpdate ==
  ASSUME UpdateNow, Orphans
  PROVE  UpdateParts'
<1>1. /\ Advance /\ Head(plan) = <<"orphans", None>>
      /\ LET gone == IF Owned = {} THEN {} ELSE Kits \ Owned
         IN  /\ mirror' = [k \in Kits |-> IF k \in gone THEN None ELSE mirror[k]]
             /\ shapes' = [k \in Kits |-> IF k \in gone THEN None ELSE shapes[k]]
      /\ UNCHANGED <<listed, payload, scripts, registered, folder, sound>>
  BY DEF Orphans, At, kitDirs, wired
<1>2. Popping /\ Head(plan) \in Left /\ UpdateParts /\ NoReap'
  BY <1>1, UpdatingStep DEF UpdateNow
<1>3. NoReap /\ NoInstall /\ NoInstall' /\ NoFetch
  BY <1>1, UpdatingStep, PendingPops DEF NoReap, NoInstall, NoFetch
<1>4. OnlyInstalled' /\ Fetched' /\ Reaped' /\ Registered'
  BY <1>1, <1>2, Frames
<1>5. Foldered' /\ Audited'
  BY <1>1, <1>2, NotDeriving DEF Changers
<1>6. Installed' = Installed /\ Installed \subseteq Kits /\ Base \in Installed
  BY <1>1, BaseAndDomain DEF Installed, UpdateNow, ShapesInv, DerivedOK
<1>7. Owned = Installed
  BY <1>2, <1>3, AllReady DEF Owned
<1>8. /\ \A k \in Installed : mirror'[k] = mirror[k] /\ shapes'[k] = shapes[k]
      /\ \A k \in Kits \ Installed : mirror'[k] = None
  BY <1>1, <1>6, <1>7
<1>9. Unorphaned'
  BY <1>3, <1>6, <1>8 DEF Unorphaned
<1>10. InPlace'
  <2>1. \A k : Ships(Hooks, k)' = Ships(Hooks, k)
    BY <1>1 DEF Ships, Ready
  <2>2. NoFetch'
    BY <1>2, <1>3, PendingPops
  <2>3. \A k \in Installed : Ships(Hooks, k) \subseteq scripts /\ (sound => mirror[k] = payload[k])
    BY <1>2, <1>3, AllInPlace
  <2> QED
    BY <1>1, <1>6, <1>8, <2>1, <2>2, <2>3 DEF InPlace
<1>11. Cleared'
  <2>1. ~Settled
    BY <1>1, <1>2 DEF Settled, Changers
  <2>2. \A s, k : Pending(s, k) /\ s # "orphans" => Pending(s, k)'
    BY <1>1, <1>2, PendingPops
  <2> QED
    BY <1>1, <1>2, <1>6, <1>8, <2>1, <2>2 DEF UpdateParts, Cleared, Fresh
<1> QED
  BY <1>4, <1>5, <1>9, <1>10, <1>11 DEF UpdateParts

(* A kit's mirror replaced, or its copy failed.                               *)
LEMMA MirrorUpdate ==
  ASSUME UpdateNow, NEW k \in Kits, Mirror(k) \/ MirrorFails(k)
  PROVE  UpdateParts'
<1>1. /\ Advance /\ Head(plan) = <<"mirror", k>>
      /\ UNCHANGED <<listed, payload, scripts, registered, folder>>
  BY DEF Mirror, MirrorFails, At, kitDirs, wired
<1>2. Popping /\ Head(plan) \in Left /\ UpdateParts /\ NoReap /\ NoReap'
  BY <1>1, UpdatingStep DEF UpdateNow
<1>3. NoInstall /\ NoInstall' /\ NoFetch /\ NoFetch'
  BY <1>2 DEF NoReap, NoInstall, NoFetch
<1>4. Installed' = Installed /\ Installed \subseteq Kits /\ k \in Installed /\ Ready(k)
  BY <1>1, <1>2, <1>3, AllReady, BaseAndDomain DEF Installed, UpdateNow, ShapesInv, DerivedOK, UpdateParts, OnlyInstalled
<1>5. OnlyInstalled' /\ Fetched' /\ Reaped' /\ Registered'
  BY <1>1, <1>2, Frames
<1>6. Foldered' /\ Audited'
  BY <1>1, <1>2, NotDeriving DEF Changers
<1>7. DerivedOK
  BY DEF UpdateNow, ShapesInv
<1>8. /\ \A j \in Kits \ {k} : mirror'[j] = mirror[j] /\ shapes'[j] = shapes[j]
      /\ sound' => sound /\ mirror'[k] = payload[k] /\ shapes'[k] = None
  <2>1. CASE Mirror(k)
    <3>1. mirror' = [mirror EXCEPT ![k] = payload[k]] /\ shapes' = [shapes EXCEPT ![k] = None] /\ sound' = sound
      BY <1>4, <2>1 DEF Mirror
    <3> QED
      BY <1>7, <3>1 DEF DerivedOK
  <2>2. CASE MirrorFails(k)
    <3>1. \/ UNCHANGED <<mirror, shapes>>
          \/ mirror' = [mirror EXCEPT ![k] = None] /\ shapes' = [shapes EXCEPT ![k] = None]
      BY <2>2 DEF MirrorFails
    <3>2. sound' = FALSE
      BY <2>2 DEF MirrorFails
    <3> QED
      BY <1>7, <3>1, <3>2 DEF DerivedOK
  <2> QED
    BY <2>1, <2>2
<1>9. Unorphaned'
  <2>1. Pending("orphans", None) => Pending("orphans", None)'
    BY <1>1, <1>2, PendingPops
  <2> QED
    BY <1>2, <1>3, <1>4, <1>8, <2>1 DEF UpdateParts, Unorphaned
<1>10. InPlace'
  <2>1. \A j : Ships(Hooks, j)' = Ships(Hooks, j)
    BY <1>1 DEF Ships, Ready
  <2>2. \A j \in Installed : Ships(Hooks, j) \subseteq scripts /\ (sound => mirror[j] = payload[j])
    BY <1>2, <1>3, AllInPlace
  <2>3. \A j \in Installed : sound' => mirror'[j] = payload[j]
    BY <1>4, <1>8, <2>2
  <2> QED
    BY <1>1, <1>3, <1>4, <2>1, <2>2, <2>3 DEF InPlace
<1>11. Cleared'
  <2>1. ~Settled
    BY <1>1, <1>2 DEF Settled, Changers
  <2>2. \A j : j # k /\ Pending("mirror", j) => Pending("mirror", j)'
    BY <1>1, <1>2, PendingPops
  <2>3. \A j \in Installed \ {k} : Pending("mirror", j) \/ (sound => shapes[j] = None)
    BY <1>2, <2>1 DEF UpdateParts, Cleared, Fresh
  <2>4. \A j \in Installed : Pending("mirror", j)' \/ (sound' => shapes'[j] = None)
    BY <1>4, <1>8, <2>2, <2>3
  <2> QED
    BY <1>4, <2>4 DEF Cleared
<1> QED
  BY <1>5, <1>6, <1>9, <1>10, <1>11 DEF UpdateParts

(* What regenerating a kit's artifacts does to the folder of a class.         *)
LEMMA RegenFolders ==
  ASSUME NEW k \in Kits, Regen(k), cmd = <<"update", None>>, Ready(k), NEW c \in AllClasses
  PROVE  /\ c \in ClassesIn(shapes', k) => folder'[c] # None
         /\ folder[c] # None /\ c \in Declared(shapes') => folder'[c] # None
         /\ folder'[c] = "scaffold" => folder[c] = "scaffold" \/ c \in ClassesIn(shapes', k)
         /\ c \in ContentOf(k) /\ folder'[c] = "scaffold" =>
              c \in ClassesIn(shapes', k) \/ c \in Declared(shapes')
<1> DEFINE made == [d \in AllClasses |->
                      IF MakesFolders(k) /\ d \in ClassesIn(shapes', k) /\ folder[d] = None
                      THEN "scaffold" ELSE folder[d]]
           audited == IF Ready(k) /\ cmd[1] # "init" THEN ContentOf(k) ELSE {}
           extra == {d \in audited : d \notin ClassesIn(shapes', k) \cup Declared(shapes') /\ Reapable(made[d])}
<1>1. folder' = [d \in AllClasses |-> IF d \in extra THEN None ELSE made[d]]
  BY DEF Regen
<1>2. MakesFolders(k) /\ audited = ContentOf(k)
  BY DEF MakesFolders
<1>3. made[c] = IF c \in ClassesIn(shapes', k) /\ folder[c] = None THEN "scaffold" ELSE folder[c]
  BY <1>2
<1> HIDE DEF made, audited
<1>4. c \in extra <=> /\ c \in ContentOf(k) /\ c \notin ClassesIn(shapes', k) /\ c \notin Declared(shapes')
                      /\ made[c] = "scaffold"
  BY <1>2 DEF Reapable
<1>5. folder'[c] = IF c \in extra THEN None ELSE made[c]
  BY <1>1
<1> HIDE DEF extra
<1> QED
  BY <1>3, <1>4, <1>5, NoneIsNothing

LEMMA RegenUpdate ==
  ASSUME UpdateNow, NEW k \in Kits, Regen(k)
  PROVE  UpdateParts'
<1>1. DerivedOK /\ DerivedOK' /\ cmd = <<"update", None>> /\ UpdateParts /\ ShapesInv
  BY RegenIs DEF UpdateNow, Updating, ShapesInv
<1>2. /\ plan # <<>> /\ Advance /\ Head(plan) = <<"regen", k>> /\ UNCHANGED <<listed, mirror, payload, sound, scripts>>
      /\ shapes' = IF Shaped(k) THEN [shapes EXCEPT ![k] = View] ELSE shapes
      /\ Shaped(k) => <<k, mirror[k]>> \notin Broken
      /\ View' = View
  BY <1>1, RegenIs
<1>3. UNCHANGED registered
  BY DEF Regen, wired
<1>4. Popping /\ Head(plan) \in Left /\ Deriving /\ Deriving'
  BY <1>2, UpdatingStep
<1>5. OnlyInstalled' /\ Fetched' /\ InPlace' /\ Reaped' /\ Registered' /\ Unorphaned'
  BY <1>1, <1>2, <1>3, <1>4, Frames
<1>6. Settled /\ Settled' /\ NoInstall /\ NoFetch
  BY <1>4 DEF Deriving, Settled, NoInstall, NoFetch, Changers, First
<1>7. Installed' = Installed /\ Installed \subseteq Kits /\ Base \in Installed /\ k \in Installed
  BY <1>1, <1>2, <1>4, BaseAndDomain DEF Installed, DerivedOK, UpdateParts, OnlyInstalled
<1>8. \A j \in Installed : Ready(j) /\ payload[j] # None /\ (sound => mirror[j] = payload[j])
  BY <1>1, <1>6, AllReady, AllInPlace
<1>9. \A j \in Kits : shapes'[j] = IF j = k /\ Shaped(k) THEN View ELSE shapes[j]
  BY <1>1, <1>2 DEF DerivedOK
<1>10. \A s, j : /\ Pending(s, j)' => Pending(s, j)
                 /\ Pending(s, j) => Pending(s, j)' \/ (s = "regen" /\ j = k)
  BY <1>2, <1>4, PendingPops
<1>11. \A j \in Installed : sound => shapes'[j] = None \/ (shapes'[j] = View /\ <<j, mirror[j]>> \notin Broken)
  <2>1. \A j \in Installed : ~Pending("mirror", j)
    BY <1>6 DEF Settled, Pending, Changers
  <2>2. \A j \in Installed : sound => shapes[j] = None \/ (shapes[j] = View /\ <<j, mirror[j]>> \notin Broken)
    BY <1>1, <2>1 DEF UpdateParts, Cleared, Fresh
  <2> QED
    BY <1>2, <1>7, <1>9, <2>2
<1>12. Cleared'
  BY <1>2, <1>6, <1>7, <1>11 DEF Cleared, Fresh
<1>13. shapes'[Base] = None
  BY <1>1 DEF DerivedOK
<1>14. \A j \in Installed : Ships(Classes, j) = Classes[j][payload[j]]
  BY <1>8 DEF Ships
<1>15. \A j \in Kits : View[j] = IF j \in Installed /\ <<j, mirror[j]>> \notin Broken THEN mirror[j] ELSE None
  BY DEF View
<1>16. View # None
  BY <1>1, ViewType
<1>17. ASSUME sound, NEW j \in Installed, shapes'[j] = View, <<j, mirror[j]>> \notin Broken
       PROVE  ClassesIn(shapes', j) = Ships(Classes, j)
  <2>1. View[j] = payload[j]
    BY <1>7, <1>8, <1>15, <1>17
  <2> QED
    BY <1>14, <1>16, <1>17, <2>1 DEF ClassesIn
<1>18. ASSUME sound PROVE \A j \in Installed : ClassesIn(shapes', j) \subseteq Shipped
  <2> SUFFICES ASSUME NEW j \in Installed PROVE ClassesIn(shapes', j) \subseteq Shipped
    OBVIOUS
  <2>1. CASE shapes'[j] = None
    BY <2>1 DEF ClassesIn
  <2>2. CASE shapes'[j] # None
    <3>1. ClassesIn(shapes', j) = Ships(Classes, j)
      BY <1>11, <1>17, <1>18, <2>2
    <3>2. j # Base
      BY <1>13, <2>2
    <3> QED
      BY <3>1, <3>2 DEF Shipped
  <2> QED
    BY <2>1, <2>2
<1>19. Declared(shapes') = UNION {ClassesIn(shapes', j) : j \in Installed}
  BY <1>8 DEF Declared
<1>20. /\ Shipped' = Shipped /\ \A j : Ships(Classes, j)' = Ships(Classes, j)
  BY <1>2, <1>7 DEF Shipped, Ships, Ready
<1>21. \A c \in AllClasses :
         /\ c \in ClassesIn(shapes', k) => folder'[c] # None
         /\ folder[c] # None /\ c \in Declared(shapes') => folder'[c] # None
         /\ folder'[c] = "scaffold" => folder[c] = "scaffold" \/ c \in ClassesIn(shapes', k)
         /\ c \in ContentOf(k) /\ folder'[c] = "scaffold" =>
              c \in ClassesIn(shapes', k) \/ c \in Declared(shapes')
  BY <1>1, <1>7, <1>8, RegenFolders
<1>22. Foldered'
  <2> SUFFICES ASSUME NEW j \in Installed \ {Base}, ~Pending("regen", j)', sound
               PROVE  /\ <<j, mirror[j]>> \notin Broken
                      /\ \A c \in AllClasses : c \in Ships(Classes, j) => folder'[c] # None
    BY <1>2, <1>4, <1>7, <1>20 DEF Foldered
  <2>0. j \in Installed /\ j # Base /\ j \in Kits
    BY <1>7
  <2>1. mirror[j] = payload[j] /\ Shaped(j)
    BY <1>8, <2>0 DEF Shaped
  <2>2. CASE j = k
    <3>1. shapes'[j] = View /\ <<j, mirror[j]>> \notin Broken
      BY <1>2, <1>9, <2>0, <2>1, <2>2
    <3>2. ClassesIn(shapes', j) = Ships(Classes, j)
      BY <1>17, <2>0, <3>1
    <3> QED
      BY <1>21, <2>2, <3>1, <3>2
  <2>3. CASE j # k
    <3>1. ~Pending("regen", j)
      BY <1>10, <2>3
    <3>2. <<j, mirror[j]>> \notin Broken /\ \A c \in AllClasses : c \in Ships(Classes, j) => folder[c] # None
      BY <1>1, <3>1 DEF UpdateParts, Foldered
    <3>3. Coming(j) /\ Follows(j)
      <4>1. ~Pending("drop", j)
        BY <1>6 DEF Settled, Pending, Changers
      <4> QED
        BY <1>1, <1>2, <2>0, <4>1 DEF Coming, ShapesInv
    <3>4. ~Pending("wipe", None)
      BY <1>6 DEF Settled, Pending, Changers
    <3>5. shapes[j] = View
      BY <2>0, <2>1, <3>1, <3>3, <3>4 DEF Follows, Bare, Shaped
    <3>6. ClassesIn(shapes', j) = Ships(Classes, j)
      BY <1>9, <1>17, <2>0, <2>3, <3>2, <3>5
    <3>7. Ships(Classes, j) \subseteq Declared(shapes')
      BY <1>19, <2>0, <3>6
    <3> QED
      BY <1>21, <3>2, <3>7
  <2> QED
    BY <2>2, <2>3
<1>23. Audited'
  <2> SUFFICES ASSUME NEW j \in Installed, ~Pending("regen", j)', sound,
                      NEW c \in AllClasses, c \in ContentOf(j), c \notin Shipped, folder'[c] = "scaffold"
               PROVE  FALSE
    BY <1>2, <1>4, <1>7, <1>20 DEF Audited, ContentOf
  <2>1. c \notin ClassesIn(shapes', k) /\ c \notin Declared(shapes')
    BY <1>7, <1>18, <1>19
  <2>2. folder[c] = "scaffold" /\ j # k
    BY <1>21, <2>1
  <2>3. ~Pending("regen", j)
    BY <1>10, <2>2
  <2> QED
    BY <1>1, <2>2, <2>3 DEF UpdateParts, Audited
<1> QED
  BY <1>5, <1>12, <1>22, <1>23 DEF UpdateParts

LEMMA BeginUpdate ==
  ASSUME ShapesInv, KitUpdate
  PROVE  UpdateParts'
<1> DEFINE s == UpdatePlan(Sorted(Installed))
<1>0. Installed \in SUBSET Kits
  BY BaseAndDomain DEF Installed, ShapesInv, DerivedOK
<1>1. Sorted(Installed) \in Seq(Kits) /\ ToSet(Sorted(Installed)) = Installed
  BY <1>0, SortedIs, SeqMonotonic
<1>2. \A p : p \in ToSet(s) <=>
        \/ \E k \in Installed : p = <<"ask", k>> \/ p = <<"fetch", k>> \/ p = <<"install", k>>
        \/ \E k \in Installed : p = <<"mirror", k>> \/ p = <<"regen", k>>
        \/ p = <<"reap", None>> \/ p = <<"compose", None>> \/ p = <<"setup", None>>
        \/ p = <<"orphans", None>> \/ p = <<"load", None>>
  BY <1>0, <1>1, UpdatePlanIs
<1>3. plan' = s /\ UNCHANGED listed
  BY DEF KitUpdate, Begin
<1>4. Left' = ToSet(s) /\ Installed' = Installed
  BY <1>3 DEF Left, Installed
<1> HIDE DEF s
<1>5. /\ \A k \in Installed : /\ Pending("fetch", k)' /\ Pending("install", k)'
                              /\ Pending("mirror", k)' /\ Pending("regen", k)'
      /\ Pending("reap", None)' /\ Pending("setup", None)' /\ Pending("orphans", None)'
  BY <1>2, <1>4 DEF Pending
<1>6. OnlyInstalled'
  BY <1>2, <1>4 DEF OnlyInstalled
<1> QED
  BY <1>4, <1>5, <1>6 DEF UpdateParts, Fetched, InPlace, Reaped, Registered, Unorphaned, Cleared, Foldered, Audited

LEMMA StillUpdate ==
  ASSUME UpdateInv, UNCHANGED <<plan, cmd, listed, payload, mirror, shapes, scripts, registered, folder, sound>>
  PROVE  UpdateInv'
<1> SUFFICES ASSUME UpdateParts PROVE UpdateParts'
  BY DEF UpdateInv, Updating
<1>1. Left' = Left /\ Installed' = Installed /\ View' = View
  BY DEF Left, Installed, View
<1>2. /\ \A s, k : Pending(s, k)' <=> Pending(s, k)
      /\ NoFetch' <=> NoFetch
      /\ NoInstall' <=> NoInstall
      /\ NoReap' <=> NoReap
      /\ Deriving' <=> Deriving
      /\ Settled' <=> Settled
  BY <1>1 DEF Pending, NoFetch, NoInstall, NoReap, Deriving, Settled
<1>3. /\ \A k : Ships(Hooks, k)' = Ships(Hooks, k) /\ Ships(Classes, k)' = Ships(Classes, k)
      /\ \A k : Ready(k)' <=> Ready(k)
      /\ KnownHooks' = KnownHooks /\ Shipped' = Shipped
  BY <1>1 DEF Ships, Ready, KnownHooks, Shipped
<1>4. OnlyInstalled' /\ Fetched' /\ InPlace'
  BY <1>1, <1>2, <1>3 DEF UpdateParts, OnlyInstalled, Fetched, InPlace
<1>5. Reaped' /\ Registered' /\ Unorphaned'
  BY <1>1, <1>2, <1>3 DEF UpdateParts, Reaped, Registered, Unorphaned
<1>6. Cleared'
  BY <1>1, <1>2 DEF UpdateParts, Cleared, Fresh
<1>7. Foldered' /\ Audited'
  BY <1>1, <1>2, <1>3 DEF UpdateParts, Foldered, Audited, ContentOf
<1> QED
  BY <1>4, <1>5, <1>6, <1>7 DEF UpdateParts

LEMMA NextUpdate ==
  ASSUME UpdateInv, ShapesInv, KTypeOK, [Next]_vars
  PROVE  UpdateInv'
<1>1. CASE Save \/ UserStep
  <2>1. plan' = <<>>
    BY <1>1 DEF Save, UserStep, WriteHook, Fill, WriteSkill, EditDeployed, Edit, Idle
  <2> QED
    BY <2>1 DEF UpdateInv, Updating
<1>2. CASE (\E k \in Kits : Publish(k)) \/ UNCHANGED vars
  BY <1>2, StillUpdate DEF Publish, vars, kitDirs, derived, wired
<1>3. CASE KitUpdate
  BY <1>3, BeginUpdate DEF UpdateInv
<1>4. CASE ReInit \/ \E k \in Kits : KitUpdateOne(k) \/ KitAdd(k) \/ KitRemove(k) \/ KitPurge(k)
  <2>1. cmd' # <<"update", None>>
    <3>1. CASE \E k \in Kits : KitUpdateOne(k)
      <4>1. PICK k \in Kits : cmd' = <<"update", k>>
        BY <3>1 DEF KitUpdateOne, Begin
      <4>2. k # None
        BY NoneIsNothing
      <4> QED
        BY <4>1, <4>2
    <3>2. CASE ReInit
      BY <3>2 DEF ReInit, Begin
    <3>3. CASE \E k \in Kits : KitAdd(k) \/ KitRemove(k) \/ KitPurge(k)
      BY <3>3 DEF KitAdd, KitRemove, KitPurge, Begin
    <3> QED
      BY <1>4, <3>1, <3>2, <3>3
  <2> QED
    BY <2>1 DEF UpdateInv, Updating
<1>5. CASE \/ \E k \in Kits : FetchFails(k) \/ WrongScope(k) \/ RegenFails(k)
           \/ StepFails \/ Killed
  BY <1>5 DEF FetchFails, WrongScope, RegenFails, StepFails, Killed, Abort, UpdateInv, Updating
<1>6. CASE \/ \E k \in Kits : \/ Ask(k) \/ Fetch(k) \/ List(k) \/ Install(k)
                              \/ Mirror(k) \/ MirrorFails(k) \/ Regen(k) \/ Drop(k)
           \/ Reap \/ Compose \/ Setup \/ Orphans \/ Load \/ Wipe
  <2> SUFFICES ASSUME Updating' PROVE UpdateParts'
    BY DEF UpdateInv
  <2>1. Advance /\ plan # <<>>
    BY <1>6 DEF Ask, Fetch, List, Install, Mirror, MirrorFails, Regen, Drop,
       Reap, Compose, Setup, Orphans, Load, Wipe, At
  <2>2. UpdateNow /\ Head(plan) \in Left
    BY <2>1, Popped DEF UpdateNow, UpdateInv, Updating, ShapesInv
  <2>3. Head(plan)[1] \notin {"list", "drop", "wipe"}
    BY <2>2 DEF UpdateNow, UpdateParts, OnlyInstalled
  <2>4. ~Wipe /\ \A k \in Kits : ~List(k) /\ ~Drop(k)
    BY <2>3 DEF List, Drop, Wipe, At
  <2>5. CASE \E k \in Kits : Fetch(k) \/ Install(k) \/ Mirror(k) \/ MirrorFails(k) \/ Regen(k)
    BY <2>2, <2>5, FetchUpdate, InstallUpdate, MirrorUpdate, RegenUpdate
  <2>6. CASE Reap \/ Setup \/ Orphans
    BY <2>2, <2>6, ReapUpdate, SetupUpdate, OrphansUpdate
  <2>7. CASE Compose \/ Load \/ \E k \in Kits : Ask(k)
    BY <2>2, <2>7, QuietUpdate
  <2> QED
    BY <1>6, <2>4, <2>5, <2>6, <2>7, Zenon
<1> QED
  BY <1>1, <1>2, <1>3, <1>4, <1>5, <1>6, Zenon DEF Next, CommandStep

LEMMA EndsConverged ==
  ASSUME UpdateInv, ShapesInv, [Next]_vars, EndingNow, cmd = <<"update", None>>, sound
  PROVE  ConvergedNow'
<1>1. /\ plan # <<>> /\ \A p \in Left : p = <<"load", None>>
      /\ graph' = View /\ UNCHANGED <<listed, payload, mirror, shapes, scripts, registered, folder>> /\ View' = View
  BY EndsWithLoad
<1>2. UpdateParts
  BY <1>1 DEF UpdateInv, Updating
<1>3. \A s, k : s # "load" => ~Pending(s, k)
  BY <1>1 DEF Pending
<1>4. NoInstall /\ NoReap /\ NoFetch
  BY <1>1 DEF NoInstall, NoReap, NoFetch, First
<1>5. /\ Installed \subseteq Kits
      /\ \A k \in Installed : Ready(k) /\ payload[k] # None /\ mirror[k] = payload[k] /\ Ships(Hooks, k) \subseteq scripts
  BY <1>2, <1>4, AllReady, AllInPlace, BaseAndDomain DEF Installed, ShapesInv, DerivedOK
<1>6. \A k \in Kits : mirror[k] = IF k \in Installed THEN payload[k] ELSE None
  BY <1>2, <1>3, <1>5 DEF UpdateParts, Unorphaned
<1>7. \A k \in Installed \ {Base} : shapes[k] = View
  <2> SUFFICES ASSUME NEW k \in Installed, k # Base PROVE shapes[k] = View
    OBVIOUS
  <2>1. Coming(k) /\ Follows(k) /\ Shaped(k)
    BY <1>1, <1>3, <1>5 DEF Coming, ShapesInv, Shaped
  <2> QED
    BY <1>3, <2>1 DEF Follows, Bare, Shaped
<1>8. /\ KnownHooks \subseteq scripts /\ scripts \subseteq KnownHooks \cup LocalHooks
      /\ Named => registered = scripts
  BY <1>2, <1>3, <1>5 DEF UpdateParts, Reaped, Registered, KnownHooks
<1>9. \A c \in AllClasses : c \in Shipped => folder[c] # None
  <2> SUFFICES ASSUME NEW c \in AllClasses, c \in Shipped PROVE folder[c] # None
    OBVIOUS
  <2>1. PICK k \in Installed \ {Base} : c \in Ships(Classes, k)
    BY DEF Shipped
  <2> QED
    BY <1>2, <1>3, <2>1 DEF UpdateParts, Foldered
<1>10. \A c \in AllClasses : c \notin Shipped /\ (\E k \in Installed : c \in ContentOf(k)) => folder[c] # "scaffold"
  BY <1>2, <1>3 DEF UpdateParts, Audited
<1>11. /\ Installed' = Installed /\ KnownHooks' = KnownHooks /\ Shipped' = Shipped
       /\ \A k : ContentOf(k)' = ContentOf(k)
  BY <1>1 DEF Installed, KnownHooks, Shipped, Ships, Ready, ContentOf
<1> QED
  BY <1>1, <1>6, <1>7, <1>8, <1>9, <1>10, <1>11 DEF ConvergedNow

(* Whatever failed or was killed before, whatever kits ship and whenever they *)
(* are published: a kit-update of every kit that ends well, with every mirror *)
(* copied, leaves exactly what the kits it fetched ship. (kit-authoring.md,   *)
(* "kit-update, End to End"; #28, #71, #102)                                  *)
THEOREM UpdatesConverge == Spec => Converged
<1>1. Init => ReceiptInv /\ ShapesInv /\ UpdateInv
  <2>1. Init => UpdateInv
    BY DEF Init, UpdateInv, Updating
  <2> QED
    BY <2>1, InitReceipt, InitShapes
<1>2. ReceiptInv /\ ShapesInv /\ UpdateInv /\ [Next]_vars => (ReceiptInv /\ ShapesInv /\ UpdateInv)'
  BY NextReceipt, NextShapes, NextUpdate DEF ReceiptInv
<1>3. ReceiptInv /\ ShapesInv /\ UpdateInv /\ [Next]_vars
        => (EndingNow /\ cmd = <<"update", None>> /\ sound => ConvergedNow')
  BY EndsConverged
<1> QED
  BY <1>1, <1>2, <1>3, PTL DEF Spec, Converged, EndingNow, Ending
=============================================================================
