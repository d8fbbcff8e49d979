----------------------------- MODULE GateProofs -----------------------------
(* Proofs about Gate, for any classes, properties and ontologies, in whatever  *)
(* order the store returns them: a document that has what the ontologies ask   *)
(* of its class passes the gate; one that passes has it, where one value is as *)
(* good as several; and what they ask can be written. The walk up the classes  *)
(* and the spreading over spellings come to their ends in as many rounds as    *)
(* there are classes and properties, since each round adds one or is the last; *)
(* so a class's line is what is above it, a property's spellings are its       *)
(* group, and each group has one placed spelling. Then blocks and demands are  *)
(* compared one kind at a time, and a document is drafted that has one key for *)
(* each group of properties.                                                   *)
EXTENDS Gate, FiniteSetTheorems, WellFoundedInduction, SequenceTheorems, TLAPS

LEMMA LeastOf ==
  ASSUME NEW S \in SUBSET Nat, S # {}
  PROVE  \E m \in S : \A j \in S : m <= j
<1>1. PICK m \in S : \A j \in S : ~ (<<j, m>> \in OpToRel(<, Nat))
  BY NatLessThanWellFounded, WFMin
<1>2. \A j \in S : ~ (j < m)
  BY <1>1 DEF OpToRel
<1> QED
  BY <1>2

(* Sequences.                                                                  *)
LEMMA SetOfAppend ==
  ASSUME NEW T, NEW s \in Seq(T), NEW x \in T
  PROVE  /\ Append(s, x) \in Seq(T)
         /\ ToSet(Append(s, x)) = ToSet(s) \cup {x}
         /\ IsInjective(s) /\ x \notin ToSet(s) => IsInjective(Append(s, x))
<1>1. /\ Append(s, x) \in Seq(T) /\ Len(Append(s, x)) = Len(s) + 1 /\ Len(s) \in Nat
      /\ \A i \in 1..Len(s) : Append(s, x)[i] = s[i]
      /\ Append(s, x)[Len(s) + 1] = x
  BY AppendProperties
<1>2. DOMAIN s = 1..Len(s) /\ DOMAIN Append(s, x) = 1..(Len(s) + 1)
  BY <1>1
<1>3. \A i \in 1..(Len(s) + 1) : i \in 1..Len(s) \/ i = Len(s) + 1
  BY <1>1
<1>4. \A i \in 1..Len(s) : i \in 1..(Len(s) + 1)
  BY <1>1
<1>5. Len(s) + 1 \in 1..(Len(s) + 1)
  BY <1>1
<1>6. ToSet(Append(s, x)) = ToSet(s) \cup {x}
  BY <1>1, <1>2, <1>3, <1>4, <1>5 DEF ToSet
<1>7. IsInjective(s) /\ x \notin ToSet(s) => IsInjective(Append(s, x))
  BY <1>1, <1>2, <1>3 DEF ToSet, IsInjective
<1> QED
  BY <1>1, <1>6, <1>7

KeptUpTo(seq, S, g, n) ==
  g = [i \in 0..n |-> IF i = 0 THEN <<>>
                      ELSE IF seq[i] \in S THEN Append(g[i - 1], seq[i]) ELSE g[i - 1]]

LEMMA AmongExists ==
  ASSUME NEW seq, NEW S, NEW n \in Nat
  PROVE  \E g : KeptUpTo(seq, S, g, n)
<1> DEFINE T == {k \in Nat : ~ \E g : KeptUpTo(seq, S, g, k)}
<1>1. SUFFICES ASSUME T # {} PROVE FALSE
  OBVIOUS
<1>2. PICK m \in T : \A j \in T : m <= j
  BY <1>1, LeastOf
<1>3. m \in Nat /\ ~ \E g : KeptUpTo(seq, S, g, m)
  OBVIOUS
<1>4. m # 0
  <2>1. KeptUpTo(seq, S, [i \in 0..0 |-> <<>>], 0)
    BY DEF KeptUpTo
  <2> QED
    BY <1>3, <2>1
<1>5. m - 1 \in Nat /\ m - 1 \notin T
  BY <1>2, <1>3, <1>4
<1>6. PICK g : KeptUpTo(seq, S, g, m - 1)
  BY <1>5
<1> DEFINE h == [i \in 0..m |-> IF i = m THEN IF seq[m] \in S THEN Append(g[m - 1], seq[m])
                                              ELSE g[m - 1]
                                ELSE g[i]]
<1>7. \A i \in 0..m : i # 0 => i - 1 \in 0..(m - 1) /\ i - 1 \in 0..m /\ i - 1 # m
  BY <1>3
<1>8. \A i \in 0..m : i # m => i \in 0..(m - 1)
  BY <1>3
<1>9. \A i \in 0..(m - 1) : g[i] = IF i = 0 THEN <<>>
                      ELSE IF seq[i] \in S THEN Append(g[i - 1], seq[i]) ELSE g[i - 1]
  BY <1>6 DEF KeptUpTo
<1>10. \A i \in 0..(m - 1) : h[i] = g[i]
  BY <1>3
<1>11. KeptUpTo(seq, S, h, m)
  <2>1. \A i \in 0..m : h[i] = IF i = 0 THEN <<>>
                      ELSE IF seq[i] \in S THEN Append(h[i - 1], seq[i]) ELSE h[i - 1]
    BY <1>4, <1>7, <1>8, <1>9, <1>10
  <2> QED
    BY <2>1 DEF KeptUpTo
<1> QED
  BY <1>3, <1>11

(* Among keeps the members of the set, in the sequence's order and no more     *)
(* often than the sequence has them.                                           *)
LEMMA AmongIs ==
  ASSUME NEW T, NEW seq \in Seq(T), NEW S
  PROVE  /\ Among(seq, S) \in Seq(T)
         /\ ToSet(Among(seq, S)) = ToSet(seq) \cap S
         /\ IsInjective(seq) => IsInjective(Among(seq, S))
<1> DEFINE g == CHOOSE f : KeptUpTo(seq, S, f, Len(seq))
           n == Len(seq)
<1>1. n \in Nat /\ DOMAIN seq = 1..n /\ \A i \in 1..n : seq[i] \in T
  OBVIOUS
<1>2. KeptUpTo(seq, S, g, n)
  BY <1>1, AmongExists
<1>3. Among(seq, S) = g[n]
  BY DEF Among, KeptUpTo
<1> DEFINE Good(i) == /\ g[i] \in Seq(T)
                      /\ ToSet(g[i]) = {seq[j] : j \in 1..i} \cap S
                      /\ IsInjective(seq) => IsInjective(g[i])
           Bad == {i \in 0..n : ~ Good(i)}
<1> HIDE DEF g
<1>4. \A i \in 0..n : g[i] = IF i = 0 THEN <<>>
                      ELSE IF seq[i] \in S THEN Append(g[i - 1], seq[i]) ELSE g[i - 1]
  BY <1>2 DEF KeptUpTo
<1>5. Bad = {}
  <2> SUFFICES ASSUME Bad # {} PROVE FALSE
    OBVIOUS
  <2>1. PICK m \in Bad : \A j \in Bad : m <= j
    <3>1. Bad \in SUBSET Nat
      BY <1>1
    <3> HIDE DEF Bad
    <3> QED
      BY <3>1, LeastOf
  <2>2. m \in 0..n /\ ~ Good(m)
    OBVIOUS
  <2>3. m # 0
    <3>1. g[0] = <<>>
      BY <1>1, <1>4
    <3>2. <<>> \in Seq(T) /\ ToSet(<<>>) = {} /\ IsInjective(<<>>)
      BY DEF ToSet, IsInjective
    <3>3. {seq[j] : j \in 1..0} = {}
      OBVIOUS
    <3>4. ToSet(g[0]) = {seq[j] : j \in 1..0} \cap S
      BY <3>1, <3>2, <3>3
    <3>5. g[0] \in Seq(T) /\ IsInjective(g[0])
      BY <3>1, <3>2
    <3>6. Good(0)
      BY <3>4, <3>5
    <3> QED
      BY <2>2, <3>6
  <2>4. m - 1 \in 0..n /\ m - 1 \notin Bad /\ m \in 1..n
    <3>1. m \in 0..n /\ n \in Nat
      BY <1>1, <2>2
    <3> HIDE DEF n, Bad
    <3>2. m - 1 \in 0..n /\ m \in 1..n /\ ~ (m <= m - 1)
      BY <2>3, <3>1
    <3> QED
      BY <2>1, <3>2
  <2>5. Good(m - 1)
    BY <2>4
  <2>6. {seq[j] : j \in 1..m} = {seq[j] : j \in 1..(m - 1)} \cup {seq[m]}
    BY <2>4, <1>1
  <2>7. CASE seq[m] \in S
    <3>1. g[m] = Append(g[m - 1], seq[m])
      BY <1>4, <2>3, <2>4, <2>7
    <3>2. IsInjective(seq) => seq[m] \notin {seq[j] : j \in 1..(m - 1)}
      BY <1>1, <2>4 DEF IsInjective
    <3>3. seq[m] \in T
      BY <1>1, <2>4
    <3>4. /\ g[m - 1] \in Seq(T)
          /\ ToSet(g[m - 1]) = {seq[j] : j \in 1..(m - 1)} \cap S
          /\ IsInjective(seq) => IsInjective(g[m - 1])
      BY <2>5
    <3>5. /\ g[m] \in Seq(T)
          /\ ToSet(g[m]) = ToSet(g[m - 1]) \cup {seq[m]}
          /\ IsInjective(g[m - 1]) /\ seq[m] \notin ToSet(g[m - 1]) => IsInjective(g[m])
      BY <3>1, <3>3, <3>4, SetOfAppend
    <3>6. IsInjective(seq) => IsInjective(g[m])
      BY <3>2, <3>4, <3>5
    <3>7. ToSet(g[m]) = {seq[j] : j \in 1..m} \cap S
      BY <2>6, <2>7, <3>4, <3>5
    <3> QED
      BY <2>2, <3>5, <3>6, <3>7
  <2>8. CASE seq[m] \notin S
    <3>1. g[m] = g[m - 1]
      BY <1>4, <2>3, <2>4, <2>8
    <3> QED
      BY <2>2, <2>5, <2>6, <2>8, <3>1
  <2> QED
    BY <2>7, <2>8
<1>6. Good(n)
  <2>1. n \in 0..n
    BY <1>1
  <2>2. n \notin Bad
    BY <1>5
  <2> QED
    BY <2>1, <2>2
<1> QED
  BY <1>1, <1>3, <1>6 DEF ToSet

-----------------------------------------------------------------------------
LEMMA LastAndFront ==
  ASSUME NEW T, NEW s \in Seq(T), s # <<>>
  PROVE  /\ Last(s) \in T /\ Front(s) \in Seq(T)
         /\ ToSet(s) = ToSet(Front(s)) \cup {Last(s)}
         /\ IsInjective(s) => IsInjective(Front(s)) /\ Last(s) \notin ToSet(Front(s))
<1> DEFINE n == Len(s)
<1>1. n \in Nat /\ n # 0 /\ DOMAIN s = 1..n /\ \A i \in 1..n : s[i] \in T
  OBVIOUS
<1>a. n = Len(s)
  OBVIOUS
<1> HIDE DEF n
<1>2. Last(s) = s[n] /\ n \in 1..n
  BY <1>a, <1>1 DEF Last
<1>3. Front(s) = [i \in 1..(n - 1) |-> s[i]]
  BY <1>a, <1>1 DEF Front
<1>4. \A i \in 1..n : i \in 1..(n - 1) \/ i = n
  BY <1>1
<1>5. \A i \in 1..(n - 1) : i \in 1..n /\ i # n
  BY <1>1
<1>6. Front(s) \in Seq(T)
  <2>1. n - 1 \in Nat
    BY <1>1
  <2>2. \A i \in 1..(n - 1) : s[i] \in T
    BY <1>1, <1>5
  <2> QED
    BY <1>3, <2>1, <2>2, IsASeq
<1>7. ToSet(s) = ToSet(Front(s)) \cup {Last(s)}
  BY <1>1, <1>2, <1>3, <1>4, <1>5 DEF ToSet
<1>8. IsInjective(s) => IsInjective(Front(s)) /\ Last(s) \notin ToSet(Front(s))
  BY <1>1, <1>2, <1>3, <1>5 DEF ToSet, IsInjective
<1> QED
  BY <1>1, <1>2, <1>6, <1>7, <1>8

LEMMA SetOfConcat ==
  ASSUME NEW T, NEW s \in Seq(T), NEW t \in Seq(T)
  PROVE  /\ s \o t \in Seq(T)
         /\ ToSet(s \o t) = ToSet(s) \cup ToSet(t)
         /\ IsInjective(s) /\ IsInjective(t) /\ ToSet(s) \cap ToSet(t) = {} => IsInjective(s \o t)
<1> DEFINE m == Len(s)  n == Len(t)
<1>1. /\ m \in Nat /\ n \in Nat /\ DOMAIN s = 1..m /\ DOMAIN t = 1..n
      /\ s \o t \in Seq(T) /\ DOMAIN (s \o t) = 1..(m + n)
      /\ \A i \in 1..(m + n) : (s \o t)[i] = IF i <= m THEN s[i] ELSE t[i - m]
  BY ConcatProperties
<1> HIDE DEF m, n
<1>0. m \in Nat /\ n \in Nat
  BY <1>1
<1>2. \A i \in 1..(m + n) : (i \in 1..m /\ i <= m) \/ (i - m \in 1..n /\ ~ (i <= m))
  BY <1>0
<1>3. \A i \in 1..m : i \in 1..(m + n) /\ i <= m
  BY <1>0
<1>4. \A i \in 1..n : i + m \in 1..(m + n) /\ ~ (i + m <= m) /\ (i + m) - m = i
  BY <1>0
<1>5. ToSet(s \o t) = ToSet(s) \cup ToSet(t)
  <2>1. \A x \in ToSet(s \o t) : x \in ToSet(s) \cup ToSet(t)
    BY <1>1, <1>2 DEF ToSet
  <2>2. \A x \in ToSet(s) : x \in ToSet(s \o t)
    BY <1>1, <1>3 DEF ToSet
  <2>3. \A i \in 1..n : i + m \in DOMAIN (s \o t) /\ (s \o t)[i + m] = t[i]
    BY <1>1, <1>4
  <2>4. \A x \in ToSet(t) : x \in ToSet(s \o t)
    BY <1>1, <2>3 DEF ToSet
  <2> QED
    BY <2>1, <2>2, <2>4
<1>6. ASSUME IsInjective(s), IsInjective(t), ToSet(s) \cap ToSet(t) = {}
      PROVE  IsInjective(s \o t)
  <2> SUFFICES ASSUME NEW i \in 1..(m + n), NEW j \in 1..(m + n), (s \o t)[i] = (s \o t)[j]
               PROVE  i = j
    BY <1>1 DEF IsInjective
  <2>1. CASE i <= m /\ j <= m
    BY <1>1, <1>2, <1>6, <2>1 DEF IsInjective
  <2>2. CASE ~ (i <= m) /\ ~ (j <= m)
    <3>1. i - m = j - m
      BY <1>1, <1>2, <1>6, <2>2 DEF IsInjective
    <3> QED
      BY <1>1, <3>1
  <2>3. CASE i <= m /\ ~ (j <= m)
    BY <1>1, <1>2, <1>6, <2>3 DEF ToSet
  <2>4. CASE ~ (i <= m) /\ j <= m
    BY <1>1, <1>2, <1>6, <2>4 DEF ToSet
  <2> QED
    BY <2>1, <2>2, <2>3, <2>4
<1> QED
  BY <1>1, <1>5, <1>6

LEMMA SetOfOne ==
  ASSUME NEW T, NEW x \in T
  PROVE  <<x>> \in Seq(T) /\ ToSet(<<x>>) = {x} /\ IsInjective(<<x>>)
BY DEF ToSet, IsInjective

(* The classes above a class.                                                  *)
LEMMA AboveIsClosed ==
  ASSUME NEW c \in Classes
  PROVE  /\ c \in Above(c) /\ Above(c) \subseteq Classes
         /\ \A x \in Above(c), y \in Classes : <<"sub", x, y>> \in axioms => y \in Above(c)
BY DEF Above

LEMMA AboveIsLeast ==
  ASSUME NEW c \in Classes, NEW S \in SUBSET Classes, c \in S,
         \A x \in S, y \in Classes : <<"sub", x, y>> \in axioms => y \in S
  PROVE  Above(c) \subseteq S
BY DEF Above

Popped(w) == w.seen \ ToSet(w.stack)

\* A walk after i turns of the loop.
Walking(c, w, i) ==
  /\ w.stack \in Seq(Classes) /\ IsInjective(w.stack)
  /\ w.out \in Seq(Classes)
  /\ w.seen = {c} \cup ToSet(w.out)
  /\ ToSet(w.stack) \subseteq w.seen
  /\ w.seen \subseteq Above(c)
  /\ \A x \in Popped(w), d \in Classes : <<"sub", x, d>> \in axioms => d \in w.seen
  /\ i <= Cardinality(Popped(w)) \/ w.stack = <<>>

LEMMA PopWalks ==
  ASSUME order \in Orders, NEW c \in Classes, NEW i \in Nat, NEW w, Walking(c, w, i)
  PROVE  Walking(c, Pop(w), i + 1)
<1>1. CASE w.stack = <<>>
  BY <1>1 DEF Pop, Walking
<1>2. CASE w.stack # <<>>
  <2> DEFINE top == Last(w.stack)
             up == {d \in Classes : <<"sub", top, d>> \in axioms}
             found == Among(order, up \ w.seen)
             v == Pop(w)
  <2>1. v = [stack |-> Front(w.stack) \o found, out |-> w.out \o found,
             seen |-> w.seen \cup ToSet(found)]
    BY <1>2 DEF Pop
  <2>2. order \in Seq(Classes) /\ IsInjective(order) /\ ToSet(order) = Classes
    BY GateConstants
  <2>3. found \in Seq(Classes) /\ IsInjective(found) /\ ToSet(found) = up \ w.seen
    <3>1. found \in Seq(Classes) /\ IsInjective(found) /\ ToSet(found) = Classes \cap (up \ w.seen)
      BY <2>2, AmongIs
    <3> QED
      BY <3>1
  <2>4. /\ top \in Classes /\ Front(w.stack) \in Seq(Classes) /\ IsInjective(Front(w.stack))
        /\ ToSet(w.stack) = ToSet(Front(w.stack)) \cup {top}
        /\ top \notin ToSet(Front(w.stack))
    BY <1>2, LastAndFront DEF Walking
  <2> HIDE DEF found, v, top, up
  <2>5. /\ v.stack \in Seq(Classes) /\ IsInjective(v.stack)
        /\ ToSet(v.stack) = ToSet(Front(w.stack)) \cup ToSet(found)
    <3>1. v.stack = Front(w.stack) \o found
      BY <2>1
    <3>2. ToSet(Front(w.stack)) \cap ToSet(found) = {}
      BY <2>3, <2>4 DEF Walking
    <3> QED
      BY <2>3, <2>4, <3>1, <3>2, SetOfConcat
  <2>6. v.out \in Seq(Classes) /\ ToSet(v.out) = ToSet(w.out) \cup ToSet(found)
    <3>1. v.out = w.out \o found
      BY <2>1
    <3> QED
      BY <2>3, <3>1, SetOfConcat DEF Walking
  <2>7. v.seen = w.seen \cup ToSet(found)
    BY <2>1
  <2>8. top \in w.seen /\ top \notin Popped(w) /\ Popped(v) = Popped(w) \cup {top}
    BY <2>3, <2>4, <2>5, <2>7 DEF Walking, Popped
  <2>9. v.seen \subseteq Above(c)
    <3>1. up \subseteq Above(c)
      BY <2>8, AboveIsClosed DEF Walking, up
    <3> QED
      BY <2>3, <2>7, <3>1 DEF Walking
  <2>10. \A x \in Popped(v), d \in Classes : <<"sub", x, d>> \in axioms => d \in v.seen
    <3>1. \A d \in Classes : <<"sub", top, d>> \in axioms => d \in v.seen
      BY <2>3, <2>7 DEF up
    <3> QED
      BY <2>7, <2>8, <3>1 DEF Walking
  <2>11. i + 1 <= Cardinality(Popped(v))
    <3>1. Popped(w) \subseteq Classes /\ IsFiniteSet(Classes)
      BY GateConstants, AboveIsClosed DEF Walking, Popped
    <3>2. IsFiniteSet(Popped(w))
      BY <3>1, FS_Subset
    <3>3. Cardinality(Popped(v)) = Cardinality(Popped(w)) + 1 /\ Cardinality(Popped(w)) \in Nat
      BY <2>8, <3>2, FS_AddElement, FS_CardinalityType
    <3> QED
      BY <1>2, <3>3 DEF Walking
  <2> QED
    <3>1. v.seen = {c} \cup ToSet(v.out) /\ ToSet(v.stack) \subseteq v.seen
      BY <2>4, <2>5, <2>6, <2>7 DEF Walking
    <3>2. Walking(c, v, i + 1)
      BY <2>5, <2>6, <2>9, <2>10, <2>11, <3>1 DEF Walking
    <3> QED
      BY <3>2 DEF v
<1> QED
  BY <1>1, <1>2

WalkUpTo(c, g, n) ==
  g = [i \in 0..n |-> IF i = 0 THEN [stack |-> <<c>>, out |-> <<>>, seen |-> {c}]
                      ELSE Pop(g[i - 1])]

LEMMA WalkExists ==
  ASSUME NEW c, NEW n \in Nat
  PROVE  \E g : WalkUpTo(c, g, n)
<1> DEFINE T == {k \in Nat : ~ \E g : WalkUpTo(c, g, k)}
<1>1. SUFFICES ASSUME T # {} PROVE FALSE
  OBVIOUS
<1>2. PICK m \in T : \A j \in T : m <= j
  BY <1>1, LeastOf
<1>3. m \in Nat /\ ~ \E g : WalkUpTo(c, g, m)
  OBVIOUS
<1>4. m # 0
  <2>1. WalkUpTo(c, [i \in 0..0 |-> [stack |-> <<c>>, out |-> <<>>, seen |-> {c}]], 0)
    BY DEF WalkUpTo
  <2> QED
    BY <1>3, <2>1
<1>5. m - 1 \in Nat /\ m - 1 \notin T
  BY <1>2, <1>3, <1>4
<1>6. PICK g : WalkUpTo(c, g, m - 1)
  BY <1>5
<1> DEFINE h == [i \in 0..m |-> IF i = m THEN Pop(g[m - 1]) ELSE g[i]]
<1>7. \A i \in 0..m : i # 0 => i - 1 \in 0..(m - 1) /\ i - 1 \in 0..m /\ i - 1 # m
  BY <1>3
<1>8. \A i \in 0..m : i # m => i \in 0..(m - 1)
  BY <1>3
<1>9. \A i \in 0..(m - 1) : g[i] = IF i = 0 THEN [stack |-> <<c>>, out |-> <<>>, seen |-> {c}]
                                   ELSE Pop(g[i - 1])
  BY <1>6 DEF WalkUpTo
<1>10. \A i \in 0..(m - 1) : h[i] = g[i]
  BY <1>3
<1>11. WalkUpTo(c, h, m)
  <2>1. \A i \in 0..m : h[i] = IF i = 0 THEN [stack |-> <<c>>, out |-> <<>>, seen |-> {c}]
                                ELSE Pop(h[i - 1])
    BY <1>4, <1>7, <1>8, <1>9, <1>10
  <2> QED
    BY <2>1 DEF WalkUpTo
<1> QED
  BY <1>3, <1>11

(* The walk has come to its end when it has turned as often as there are       *)
(* classes, so a class's line is what is above it.                             *)
LEMMA LineIsAbove ==
  ASSUME order \in Orders, NEW c \in Classes
  PROVE  Line(c) = Above(c) /\ Chain(c) \in Seq(Classes)
<1> DEFINE n == Cardinality(Classes)
           g == CHOOSE f : WalkUpTo(c, f, n)
<1>1. IsFiniteSet(Classes) /\ n \in Nat
  BY GateConstants, FS_CardinalityType
<1>2. WalkUpTo(c, g, n)
  BY <1>1, WalkExists
<1>3. Chain(c) = g[n].out
  BY DEF Chain, WalkUpTo
<1> HIDE DEF g
<1>4. \A i \in 0..n : g[i] = IF i = 0 THEN [stack |-> <<c>>, out |-> <<>>, seen |-> {c}]
                             ELSE Pop(g[i - 1])
  BY <1>2 DEF WalkUpTo
<1> DEFINE Bad == {i \in 0..n : ~ Walking(c, g[i], i)}
<1>5. Bad = {}
  <2> SUFFICES ASSUME Bad # {} PROVE FALSE
    OBVIOUS
  <2>1. PICK m \in Bad : \A j \in Bad : m <= j
    <3>1. Bad \in SUBSET Nat
      BY <1>1
    <3> HIDE DEF Bad
    <3> QED
      BY <3>1, LeastOf
  <2>2. m \in 0..n /\ ~ Walking(c, g[m], m)
    OBVIOUS
  <2>3. m # 0
    <3>0. 0 \in 0..n
      BY <1>1
    <3>1. g[0] = [stack |-> <<c>>, out |-> <<>>, seen |-> {c}]
      BY <1>4, <3>0
    <3>a. <<c>> \in Seq(Classes) /\ ToSet(<<c>>) = {c} /\ IsInjective(<<c>>)
      BY SetOfOne
    <3>2. <<>> \in Seq(Classes) /\ ToSet(<<>>) = {}
      BY DEF ToSet
    <3>b. g[0].stack = <<c>> /\ g[0].out = <<>> /\ g[0].seen = {c}
      BY <3>1
    <3>3. Popped(g[0]) = {} /\ IsFiniteSet(Popped(g[0]))
      BY <3>b, <3>a, FS_EmptySet DEF Popped
    <3>4. 0 <= Cardinality(Popped(g[0]))
      BY <3>3, FS_EmptySet
    <3>5. Walking(c, g[0], 0)
      BY <3>b, <3>2, <3>3, <3>4, <3>a, AboveIsClosed DEF Walking
    <3> QED
      BY <2>2, <3>5
  <2>4. m - 1 \in 0..n /\ m - 1 \in Nat /\ m - 1 \notin Bad /\ (m - 1) + 1 = m
    BY <1>1, <2>1, <2>2, <2>3
  <2>5. Walking(c, g[m - 1], m - 1)
    BY <2>4
  <2>6. g[m] = Pop(g[m - 1])
    BY <1>4, <2>2, <2>3
  <2>7. Walking(c, Pop(g[m - 1]), (m - 1) + 1)
    BY <2>4, <2>5, PopWalks
  <2> QED
    BY <2>2, <2>4, <2>6, <2>7
<1>6. Walking(c, g[n], n)
  <2>1. n \in 0..n
    BY <1>1
  <2> QED
    BY <1>5, <2>1
<1> DEFINE w == g[n]
<1>w. Walking(c, w, n)
  BY <1>6
<1> HIDE DEF n, Bad, w
<1>7. w.stack = <<>>
  <2> SUFFICES ASSUME w.stack # <<>> PROVE FALSE
    OBVIOUS
  <2>1. Popped(w) \subseteq Classes /\ ToSet(w.stack) \subseteq Classes
    BY <1>w, AboveIsClosed DEF Walking, Popped
  <2>2. IsFiniteSet(Popped(w)) /\ Cardinality(Popped(w)) <= n
    BY <1>1, <2>1, FS_Subset DEF n
  <2>3. n <= Cardinality(Popped(w)) /\ Cardinality(Popped(w)) \in Nat
    BY <1>w, <2>2, FS_CardinalityType DEF Walking
  <2>4. Popped(w) = Classes
    BY <1>1, <2>1, <2>2, <2>3, FS_Subset DEF n
  <2>5. w.stack \in Seq(Classes)
    BY <1>w DEF Walking
  <2>a. ToSet(w.stack) = ToSet(Front(w.stack)) \cup {Last(w.stack)}
    BY <2>5, LastAndFront
  <2>6. Last(w.stack) \in ToSet(w.stack)
    BY <2>a
  <2> QED
    BY <2>1, <2>4, <2>6 DEF Popped
<1>8. Popped(w) = w.seen
  BY <1>7 DEF Popped, ToSet
<1>9. w.seen \subseteq Above(c) /\ c \in w.seen
  BY <1>w DEF Walking
<1>10. \A x \in w.seen, y \in Classes : <<"sub", x, y>> \in axioms => y \in w.seen
  BY <1>w, <1>8 DEF Walking
<1>11. w.seen \subseteq Classes
  BY <1>9, AboveIsClosed
<1>12. Above(c) \subseteq w.seen
  BY <1>9, <1>10, <1>11, AboveIsLeast
<1>13. {c} \cup ToSet(w.out) = w.seen /\ w.out \in Seq(Classes)
  BY <1>w DEF Walking
<1>14. Chain(c) = w.out
  BY <1>3 DEF w
<1> QED
  BY <1>9, <1>12, <1>13, <1>14 DEF Line

-----------------------------------------------------------------------------
(* Spellings.                                                                  *)
LEMMA GroupIsClosed ==
  ASSUME NEW p \in Props
  PROVE  /\ p \in Group(p) /\ Group(p) \subseteq Props
         /\ \A x \in Group(p), y \in Props : Bridged(x, y) => y \in Group(p)
BY DEF Group

LEMMA GroupIsLeast ==
  ASSUME NEW p \in Props, NEW S \in SUBSET Props, p \in S,
         \A x \in S, y \in Props : Bridged(x, y) => y \in S
  PROVE  Group(p) \subseteq S
BY DEF Group

LEMMA GroupsAgree ==
  ASSUME NEW p \in Props, NEW q \in Group(p)
  PROVE  q \in Props /\ Group(q) = Group(p)
<1>1. \A x \in Props : \A y \in Group(x) : y \in Props /\ Group(y) \subseteq Group(x)
  BY GroupIsClosed, GroupIsLeast
<1> DEFINE S == {x \in Props : p \in Group(x)}
<1>2. p \in S
  BY GroupIsClosed
<1>3. ASSUME NEW x \in S, NEW y \in Props, Bridged(x, y) PROVE y \in S
  <2>1. Bridged(y, x)
    BY <1>3 DEF Bridged
  <2>2. x \in Group(y)
    BY <2>1, GroupIsClosed
  <2> QED
    BY <1>1, <2>2
<1>4. Group(p) \subseteq S
  BY <1>2, <1>3, GroupIsLeast
<1> QED
  BY <1>1, <1>4

LEMMA PropsFinite == IsFiniteSet(Props) /\ Cardinality(Props) \in Nat
<1> DEFINE n == Len(Properties)
<1>1. Properties \in Seq(Props) /\ Props = {Properties[i] : i \in DOMAIN Properties}
  BY GateConstants DEF Props, ToSet
<1>2. n \in Nat /\ DOMAIN Properties = 1..n /\ Properties \in [1..n -> Props]
  BY <1>1
<1>3. Properties \in Surjection(1..n, Props)
  BY <1>1, <1>2 DEF Surjection
<1>4. IsFiniteSet(1..n)
  BY <1>2, FS_Interval
<1>5. IsFiniteSet(Props)
  BY <1>3, <1>4, FS_Surjection
<1> QED
  BY <1>5, FS_CardinalityType

Spreading(p, seen, i) ==
  /\ p \in seen /\ seen \subseteq Group(p)
  /\ i < Cardinality(seen) \/ Spread(seen) = seen

SpreadUpTo(p, g, n) == g = [i \in 0..n |-> IF i = 0 THEN {p} ELSE Spread(g[i - 1])]

LEMMA SpreadSpreads ==
  ASSUME NEW p \in Props, NEW i \in Nat, NEW seen, Spreading(p, seen, i)
  PROVE  Spreading(p, Spread(seen), i + 1)
<1>1. p \in Spread(seen) /\ seen \subseteq Spread(seen)
  BY DEF Spreading, Spread
<1>2. Spread(seen) \subseteq Group(p)
  BY GroupIsClosed DEF Spreading, Spread
<1>3. CASE Spread(seen) = seen
  BY <1>1, <1>2, <1>3 DEF Spreading
<1>4. CASE Spread(seen) # seen
  <2>1. IsFiniteSet(Spread(seen))
    BY <1>2, GroupIsClosed, PropsFinite, FS_Subset
  <2>2. /\ Cardinality(seen) \in Nat /\ Cardinality(Spread(seen)) \in Nat
        /\ Cardinality(seen) <= Cardinality(Spread(seen))
        /\ Cardinality(seen) # Cardinality(Spread(seen))
    BY <1>1, <1>4, <2>1, FS_Subset, FS_CardinalityType
  <2>3. i < Cardinality(seen)
    BY <1>4 DEF Spreading
  <2>4. i + 1 < Cardinality(Spread(seen))
    BY <2>2, <2>3
  <2> QED
    BY <1>1, <1>2, <2>4 DEF Spreading
<1> QED
  BY <1>3, <1>4

LEMMA SpreadExists ==
  ASSUME NEW p, NEW n \in Nat
  PROVE  \E g : SpreadUpTo(p, g, n)
<1> DEFINE T == {k \in Nat : ~ \E g : SpreadUpTo(p, g, k)}
<1>1. SUFFICES ASSUME T # {} PROVE FALSE
  OBVIOUS
<1>2. PICK m \in T : \A j \in T : m <= j
  BY <1>1, LeastOf
<1>3. m \in Nat /\ ~ \E g : SpreadUpTo(p, g, m)
  OBVIOUS
<1>4. m # 0
  <2>1. SpreadUpTo(p, [i \in 0..0 |-> {p}], 0)
    BY DEF SpreadUpTo
  <2> QED
    BY <1>3, <2>1
<1>5. m - 1 \in Nat /\ m - 1 \notin T
  BY <1>2, <1>3, <1>4
<1>6. PICK g : SpreadUpTo(p, g, m - 1)
  BY <1>5
<1> DEFINE h == [i \in 0..m |-> IF i = m THEN Spread(g[m - 1]) ELSE g[i]]
<1>7. \A i \in 0..m : i # 0 => i - 1 \in 0..(m - 1) /\ i - 1 \in 0..m /\ i - 1 # m
  BY <1>3
<1>8. \A i \in 0..m : i # m => i \in 0..(m - 1)
  BY <1>3
<1>9. \A i \in 0..(m - 1) : g[i] = IF i = 0 THEN {p} ELSE Spread(g[i - 1])
  BY <1>6 DEF SpreadUpTo
<1>10. \A i \in 0..(m - 1) : h[i] = g[i]
  BY <1>3
<1>11. SpreadUpTo(p, h, m)
  <2>1. \A i \in 0..m : h[i] = IF i = 0 THEN {p} ELSE Spread(h[i - 1])
    BY <1>4, <1>7, <1>8, <1>9, <1>10
  <2> QED
    BY <2>1 DEF SpreadUpTo
<1> QED
  BY <1>3, <1>11

(* Spreading comes to its end when it has been done as often as there are      *)
(* properties, so the spellings of a property are its group.                   *)
LEMMA EquivalentsAreGroup ==
  ASSUME NEW p \in Props
  PROVE  Equivalents(p) = Group(p)
<1> DEFINE n == Cardinality(Props)
           g == CHOOSE f : SpreadUpTo(p, f, n)
<1>1. n \in Nat
  BY PropsFinite
<1>2. SpreadUpTo(p, g, n)
  BY <1>1, SpreadExists
<1>3. Equivalents(p) = g[n]
  BY DEF Equivalents, SpreadUpTo
<1> HIDE DEF g, n
<1>4. \A i \in 0..n : g[i] = IF i = 0 THEN {p} ELSE Spread(g[i - 1])
  BY <1>2 DEF SpreadUpTo
<1> DEFINE Bad == {i \in 0..n : ~ Spreading(p, g[i], i)}
<1>5. Bad = {}
  <2> SUFFICES ASSUME Bad # {} PROVE FALSE
    OBVIOUS
  <2>1. PICK m \in Bad : \A j \in Bad : m <= j
    <3>1. Bad \in SUBSET Nat
      BY <1>1
    <3> HIDE DEF Bad
    <3> QED
      BY <3>1, LeastOf
  <2>2. m \in 0..n /\ ~ Spreading(p, g[m], m)
    OBVIOUS
  <2>3. m # 0
    <3>1. 0 \in 0..n
      BY <1>1
    <3>2. g[0] = {p}
      BY <1>4, <3>1
    <3>3. 0 < Cardinality(g[0])
      BY <3>2, FS_Singleton
    <3>4. Spreading(p, g[0], 0)
      BY <3>2, <3>3, GroupIsClosed DEF Spreading
    <3> QED
      BY <2>2, <3>4
  <2>4. m - 1 \in 0..n /\ m - 1 \in Nat /\ m - 1 \notin Bad /\ (m - 1) + 1 = m
    BY <1>1, <2>1, <2>2, <2>3
  <2>5. Spreading(p, g[m - 1], m - 1)
    BY <2>4
  <2>6. g[m] = Spread(g[m - 1])
    BY <1>4, <2>2, <2>3
  <2>7. Spreading(p, Spread(g[m - 1]), (m - 1) + 1)
    BY <2>4, <2>5, SpreadSpreads
  <2> QED
    BY <2>2, <2>4, <2>6, <2>7
<1>6. Spreading(p, g[n], n)
  <2>1. n \in 0..n
    BY <1>1
  <2> QED
    BY <1>5, <2>1
<1>7. g[n] \subseteq Props
  BY <1>6, GroupIsClosed DEF Spreading
<1>8. Cardinality(g[n]) \in Nat /\ Cardinality(g[n]) <= n
  BY <1>7, PropsFinite, FS_Subset, FS_CardinalityType DEF n
<1>9. Spread(g[n]) = g[n]
  BY <1>1, <1>6, <1>8 DEF Spreading
<1>10. \A x \in g[n], y \in Props : Bridged(x, y) => y \in g[n]
  BY <1>9 DEF Spread
<1>11. Group(p) \subseteq g[n]
  BY <1>6, <1>7, <1>10, GroupIsLeast DEF Spreading
<1> QED
  BY <1>3, <1>6, <1>11 DEF Spreading

LEMMA SetOfCons ==
  ASSUME NEW T, NEW x \in T, NEW s \in Seq(T)
  PROVE  /\ <<x>> \o s \in Seq(T) /\ Len(<<x>> \o s) = Len(s) + 1
         /\ (<<x>> \o s)[1] = x /\ ToSet(<<x>> \o s) = {x} \cup ToSet(s)
<1> DEFINE one == <<x>>
<1>1. one \in Seq(T) /\ ToSet(one) = {x} /\ Len(one) = 1 /\ one[1] = x
  BY SetOfOne
<1> HIDE DEF one
<1>2. one \o s \in Seq(T) /\ ToSet(one \o s) = ToSet(one) \cup ToSet(s)
  BY <1>1, SetOfConcat
<1>3. Len(s) \in Nat
  OBVIOUS
<1>4. /\ Len(one \o s) = Len(one) + Len(s)
      /\ \A i \in 1..(Len(one) + Len(s)) : (one \o s)[i] = IF i <= Len(one) THEN one[i] ELSE s[i - Len(one)]
  BY <1>1, ConcatProperties
<1>5. 1 \in 1..(Len(one) + Len(s)) /\ 1 <= Len(one) /\ Len(one) + Len(s) = Len(s) + 1
  BY <1>1, <1>3
<1> QED
  BY <1>1, <1>2, <1>4, <1>5 DEF one

LEMMA SpellingsAreGroup ==
  ASSUME NEW p \in Props
  PROVE  /\ Spellings(p) \in Seq(Props) /\ Len(Spellings(p)) \in Nat \ {0}
         /\ Spellings(p)[1] = p /\ ToSet(Spellings(p)) = Group(p)
<1>1. Properties \in Seq(Props) /\ ToSet(Properties) = Props
  BY GateConstants DEF Props
<1>2. PICK rest : rest = Among(Properties, Equivalents(p) \ {p})
  OBVIOUS
<1>3. rest \in Seq(Props) /\ ToSet(rest) = Group(p) \ {p}
  BY <1>1, <1>2, AmongIs, EquivalentsAreGroup, GroupIsClosed
<1>4. Len(rest) \in Nat
  BY <1>3
<1>5. /\ <<p>> \o rest \in Seq(Props) /\ Len(<<p>> \o rest) = Len(rest) + 1
      /\ (<<p>> \o rest)[1] = p /\ ToSet(<<p>> \o rest) = {p} \cup ToSet(rest)
  BY <1>3, SetOfCons
<1>6. Spellings(p) = <<p>> \o rest
  BY <1>2 DEF Spellings
<1>7. ToSet(<<p>> \o rest) = Group(p)
  BY <1>3, <1>5, GroupIsClosed
<1>8. Len(rest) + 1 \in Nat \ {0}
  BY <1>4
<1> QED
  BY <1>5, <1>6, <1>7, <1>8

-----------------------------------------------------------------------------
(* The properties placed on a class.                                           *)
LEMMA CandidatesAreCarried ==
  ASSUME order \in Orders, NEW c \in Classes
  PROVE  Candidates(c) = Carried(c) /\ Carried(c) \subseteq Props
BY LineIsAbove DEF Candidates, Carried

LEMMA DistanceIs ==
  ASSUME order \in Orders, NEW c \in Classes, NEW p \in Carried(c)
  PROVE  Distance(c, p) \in Nat
<1>1. PICK line : line = <<c>> \o Chain(c)
  OBVIOUS
<1>2. line \in Seq(Classes) /\ ToSet(line) = {c} \cup ToSet(Chain(c))
  BY <1>1, LineIsAbove, SetOfCons
<1>3. DomainOf(p) \cap ToSet(line) # {}
  BY <1>2, LineIsAbove DEF Carried, Line
<1> DEFINE At == {i \in DOMAIN line : line[i] \in DomainOf(p)}
<1>4. DOMAIN line = 1..Len(line) /\ Len(line) \in Nat
  BY <1>2
<1>5. At \in SUBSET Nat /\ At # {}
  BY <1>3, <1>4 DEF ToSet
<1>6. PICK m \in At : \A j \in At : m <= j
  <2> HIDE DEF At
  <2> QED
    BY <1>5, LeastOf
<1>7. m \in DOMAIN line /\ line[m] \in DomainOf(p)
  OBVIOUS
<1>8. \A j \in 1..(m - 1) : line[j] \notin DomainOf(p)
  <2> SUFFICES ASSUME NEW j \in 1..(m - 1), line[j] \in DomainOf(p) PROVE FALSE
    OBVIOUS
  <2>1. j \in DOMAIN line /\ ~ (m <= j)
    BY <1>4, <1>7
  <2>2. j \in At
    BY <2>1
  <2> QED
    BY <1>6, <2>1, <2>2
<1> HIDE DEF At
<1>9. Distance(c, p) =
        CHOOSE i \in DOMAIN line :
          line[i] \in DomainOf(p) /\ \A j \in 1..(i - 1) : line[j] \notin DomainOf(p)
  BY <1>1 DEF Distance
<1>10. Distance(c, p) \in DOMAIN line
  BY <1>7, <1>8, <1>9
<1> QED
  BY <1>4, <1>10

LEMMA RankIs ==
  ASSUME NEW p \in Props
  PROVE  Rank(p) \in Nat /\ Properties[Rank(p)] = p
<1>1. \E i \in DOMAIN Properties : Properties[i] = p
  BY DEF Props, ToSet
<1>2. Rank(p) \in DOMAIN Properties /\ Properties[Rank(p)] = p
  BY <1>1 DEF Rank
<1>3. Properties \in Seq(Props)
  BY GateConstants DEF Props
<1>4. DOMAIN Properties = 1..Len(Properties) /\ Len(Properties) \in Nat
  BY <1>3
<1> QED
  BY <1>2, <1>4

(* Every property of the class is placed on it under exactly one spelling.     *)
LEMMA PlacedIsOneSpelling ==
  ASSUME order \in Orders, NEW c \in Classes
  PROVE  /\ Placed(c) \subseteq Carried(c)
         /\ \A p \in Carried(c) : \E r \in Placed(c) : r \in Group(p)
         /\ \A p, r \in Placed(c) : r \in Group(p) => r = p
<1>1. Placed(c) = {p \in Carried(c) : \A q \in Carried(c) \cap Group(p) : ComesFirst(c, p, q)}
  BY CandidatesAreCarried, EquivalentsAreGroup DEF Placed
<1>2. \A p \in Carried(c) : p \in Props /\ Distance(c, p) \in Nat /\ Rank(p) \in Nat
  BY CandidatesAreCarried, DistanceIs, RankIs
<1>3. ASSUME NEW p \in Carried(c) PROVE \E r \in Placed(c) : r \in Group(p)
  <2> DEFINE S == Carried(c) \cap Group(p)
             D == {Distance(c, q) : q \in S}
  <2>1. p \in S
    BY <1>2, GroupIsClosed
  <2>2. D \in SUBSET Nat /\ D # {}
    BY <1>2, <2>1
  <2>3. PICK d \in D : \A x \in D : d <= x
    <3> HIDE DEF D
    <3> QED
      BY <2>2, LeastOf
  <2> DEFINE R == {Rank(q) : q \in {x \in S : Distance(c, x) = d}}
  <2>4. R \in SUBSET Nat /\ R # {}
    BY <1>2
  <2>5. PICK k \in R : \A x \in R : k <= x
    <3> HIDE DEF R
    <3> QED
      BY <2>4, LeastOf
  <2>6. PICK r \in S : Distance(c, r) = d /\ Rank(r) = k
    OBVIOUS
  <2>7. r \in Props /\ Group(r) = Group(p)
    BY <1>2, <2>6, GroupsAgree
  <2>8. ASSUME NEW q \in S PROVE ComesFirst(c, r, q)
    <3>1. Distance(c, q) \in Nat /\ d \in Nat /\ d <= Distance(c, q)
      BY <1>2, <2>2, <2>3
    <3>2. CASE Distance(c, q) = d
      BY <2>5, <2>6, <3>2 DEF ComesFirst
    <3>3. CASE d < Distance(c, q)
      BY <2>6, <3>3 DEF ComesFirst
    <3> QED
      BY <3>1, <3>2, <3>3
  <2> QED
    BY <1>1, <2>6, <2>7, <2>8
<1>4. ASSUME NEW p \in Placed(c), NEW r \in Placed(c), r \in Group(p) PROVE r = p
  <2>1. p \in Carried(c) /\ r \in Carried(c) /\ p \in Props /\ r \in Props
    BY <1>1, <1>2
  <2>2. p \in Group(r)
    BY <1>4, <2>1, GroupsAgree, GroupIsClosed
  <2>3. ComesFirst(c, p, r) /\ ComesFirst(c, r, p)
    BY <1>1, <1>4, <2>1, <2>2
  <2>4. Rank(p) = Rank(r)
    BY <1>2, <2>1, <2>3 DEF ComesFirst
  <2> QED
    BY <2>1, <2>4, RankIs
<1> QED
  BY <1>1, <1>3, <1>4

-----------------------------------------------------------------------------
(* The shapes as they are built.                                               *)
Current == axioms \subseteq Menu /\ order \in Orders /\ shapes = GenerateShapes

LEMMA ShapesAre ==
  ASSUME Current, NEW c \in LiveClasses
  PROVE  /\ c \in Classes
         /\ shapes[c] = {PropertyShape(c, p) : p \in Placed(c)}
                          \cup {QualifiedShape(a) : a \in Qualified(c)}
BY DEF Current, GenerateShapes, ClassShape, LiveClasses

LEMMA DemandIs ==
  ASSUME Current, NEW c \in Classes, NEW a \in Demands(c)
  PROVE  /\ a[3] \in Props /\ a \in axioms /\ a[2] \in Above(c)
         /\ a[1] \in Counts \cup {"minOf", "exactlyOf"}
         /\ a[1] \in Counts => a = <<a[1], a[2], a[3]>>
         /\ a[1] \notin Counts => a[4] \in Classes /\ a[4] # None /\ <<"address", a[4]>> \in Values
<1>1. a \in Menu /\ a \in axioms /\ a[2] \in Above(c) /\ a[1] \in Counts \cup {"minOf", "exactlyOf"}
  BY DEF Current, Demands
<1>2. CASE a[1] \in Counts
  <2>1. a \in {a[1]} \X Classes \X Props
    BY <1>1, <1>2, WellFormed DEF Props
  <2> QED
    BY <1>1, <1>2, <2>1
<1>3. CASE a[1] \notin Counts
  <2>1. a \in {a[1]} \X Classes \X Props \X Classes /\ <<"address", a[4]>> \in Values
    BY <1>1, <1>3, WellFormed DEF Props
  <2>2. a[3] \in Props /\ a[4] \in Classes
    BY <2>1
  <2> QED
    BY <1>1, <1>3, <2>1, <2>2, GateConstants
<1> QED
  BY <1>2, <1>3

LEMMA QualifiedAre ==
  ASSUME Current, NEW c \in Classes
  PROVE  Qualified(c) = {a \in Demands(c) : a[1] \notin Counts}
<1>1. Line(c) = Above(c)
  BY LineIsAbove DEF Current
<1> QED
  BY <1>1 DEF Qualified, Demands, Counts

LEMMA HeadsAre ==
  ASSUME Current, NEW c \in LiveClasses, NEW n
  PROVE  /\ Heads(c, n) = {p \in Placed(c) \cup {a[3] : a \in Qualified(c)} : Name(p) = n}
         /\ Heads(c, n) \subseteq Props
<1>1. \A p \in Placed(c) : p \in Props /\ PropertyShape(c, p).path[1] = p
  BY ShapesAre, PlacedIsOneSpelling, CandidatesAreCarried, SpellingsAreGroup DEF PropertyShape, Current
<1>2. \A a \in Qualified(c) : a[3] \in Props /\ QualifiedShape(a).path[1] = a[3]
  <2> SUFFICES ASSUME NEW a \in Qualified(c)
               PROVE  a[3] \in Props /\ QualifiedShape(a).path[1] = a[3]
    OBVIOUS
  <2>1. a[3] \in Props
    BY ShapesAre, QualifiedAre, DemandIs
  <2> QED
    BY <2>1, SpellingsAreGroup DEF QualifiedShape
<1>3. \A b \in shapes[c] : \/ \E p \in Placed(c) : b = PropertyShape(c, p)
                           \/ \E a \in Qualified(c) : b = QualifiedShape(a)
  BY ShapesAre
<1>4. ASSUME NEW h \in Heads(c, n)
      PROVE  h \in {p \in Placed(c) \cup {a[3] : a \in Qualified(c)} : Name(p) = n}
  <2>1. PICK b \in shapes[c] : Name(b.path[1]) = n /\ h = b.path[1]
    BY <1>4 DEF Heads
  <2> QED
    BY <1>1, <1>2, <1>3, <2>1
<1>5. ASSUME NEW p \in Placed(c), Name(p) = n
      PROVE  p \in Heads(c, n)
  <2>1. PropertyShape(c, p) \in shapes[c]
    BY ShapesAre
  <2> QED
    BY <1>1, <1>5, <2>1 DEF Heads
<1>6. ASSUME NEW a \in Qualified(c), Name(a[3]) = n
      PROVE  a[3] \in Heads(c, n)
  <2>1. QualifiedShape(a) \in shapes[c]
    BY ShapesAre
  <2> QED
    BY <1>2, <1>6, <2>1 DEF Heads
<1> QED
  BY <1>1, <1>2, <1>4, <1>5, <1>6

LEMMA IriIsHead ==
  ASSUME Current, NEW c \in LiveClasses, NEW n, Heads(c, n) # {}
  PROVE  PropertyIri(c, n) \in Heads(c, n)
<1>1. Properties \in Seq(Props) /\ ToSet(Properties) = Props
  BY GateConstants DEF Props
<1>2. PICK kept : kept = Among(Properties, Heads(c, n))
  OBVIOUS
<1>3. kept \in Seq(Props) /\ ToSet(kept) = Heads(c, n)
  <2>1. Heads(c, n) \subseteq Props
    BY HeadsAre
  <2>2. kept \in Seq(Props) /\ ToSet(kept) = Props \cap Heads(c, n)
    BY <1>1, <1>2, AmongIs
  <2> QED
    BY <2>1, <2>2
<1>4. kept # <<>>
  BY <1>3 DEF ToSet
<1>5. ToSet(kept) = ToSet(Front(kept)) \cup {Last(kept)}
  BY <1>3, <1>4, LastAndFront
<1> QED
  BY <1>2, <1>3, <1>5 DEF PropertyIri

(* What kind of value a property's shape asks for is what its ranges ask.      *)
LEMMA DeclaredIsRange ==
  ASSUME Current, NEW c \in Classes, Agreed(c), NEW p \in Carried(c)
  PROVE  IF RangesOf(p) = {} THEN DeclaredRange(p) = None ELSE RangesOf(p) = {DeclaredRange(p)}
<1>1. p \in Props /\ Listed(p) /\ Group(p) \subseteq Props /\ p \in Group(p)
  BY CandidatesAreCarried, GroupIsClosed DEF Carried, Current
<1>2. \A q \in Group(p) : Listed(q)
  BY <1>1 DEF Agreed
<1>3. PICK ranged : ranged = Among(Spellings(p), {q \in Props : Listed(q) /\ RangeOf(q) # None})
  OBVIOUS
<1>4. ranged \in Seq(Props) /\ ToSet(ranged) = {q \in Group(p) : RangeOf(q) # None}
  <2>1. ranged \in Seq(Props) /\ ToSet(ranged) = Group(p) \cap {q \in Props : Listed(q) /\ RangeOf(q) # None}
    BY <1>1, <1>3, SpellingsAreGroup, AmongIs
  <2> QED
    BY <1>1, <1>2, <2>1
<1>5. DeclaredRange(p) = IF ranged = <<>> THEN None ELSE RangeOf(ranged[1])
  BY <1>3 DEF DeclaredRange
<1>6. CASE ranged = <<>>
  <2>1. ToSet(ranged) = {}
    BY <1>6 DEF ToSet
  <2>2. RangesOf(p) = {}
    BY <1>4, <2>1 DEF RangesOf
  <2> QED
    BY <1>5, <1>6, <2>2
<1>7. CASE ranged # <<>>
  <2>1. 1 \in DOMAIN ranged
    BY <1>4, <1>7
  <2>2. ranged[1] \in ToSet(ranged)
    BY <2>1 DEF ToSet
  <2>3. DeclaredRange(p) \in RangesOf(p)
    BY <1>4, <1>5, <1>7, <2>2 DEF RangesOf
  <2>5. RangesOf(p) = {DeclaredRange(p)}
    BY <2>3 DEF Agreed
  <2> QED
    BY <2>3, <2>5
<1> QED
  BY <1>6, <1>7

-----------------------------------------------------------------------------
LEMMA KindsHold ==
  ASSUME NEW t
  PROVE  /\ KindHolds("IRI", t) <=> t.kind = "IRI"
         /\ KindHolds("in", t) <=> t.kind = "plain" /\ t.value = <<"word">>
         /\ KindHolds("integer", t) <=> t.kind = "typed" /\ t.value \in {<<"five">>, <<"six">>}
         /\ KindHolds("bounded", t) <=> t.kind = "typed" /\ t.value = <<"five">>
         /\ KindHolds("any", t)
BY DEF KindHolds

Asked(p) == [group |-> Group(p), ranges |-> RangesOf(p), object |-> \E q \in Group(p) : IsObject(q)]

LEMMA KindIsRange ==
  ASSUME Current, NEW c \in Classes, Agreed(c), NEW p \in Carried(c), NEW t
  PROVE  /\ KindHolds(ValueConstraint(p), t) <=> RangeMet(Asked(p), t)
         /\ ValueConstraint(p) = "IRI" <=> IsObject(p)
<1>1. p \in Props /\ Listed(p) /\ Group(p) \subseteq Props /\ p \in Group(p)
  BY CandidatesAreCarried, GroupIsClosed DEF Carried, Current
<1>2. \A q \in Group(p) : Listed(q) /\ IsObject(q) = IsObject(p)
  BY <1>1 DEF Agreed
<1>3. Equivalents(p) = Group(p)
  BY <1>1, EquivalentsAreGroup
<1>4. CASE IsObject(p)
  <2>1. ValueConstraint(p) = "IRI"
    BY <1>1, <1>3, <1>4 DEF ValueConstraint
  <2>2. Asked(p).object
    BY <1>1, <1>4 DEF Asked
  <2> QED
    BY <1>4, <2>1, <2>2, KindsHold DEF RangeMet
<1>5. CASE ~ IsObject(p)
  <2>1. ~ \E q \in Group(p) : IsObject(q)
    BY <1>2, <1>5
  <2> DEFINE d == DeclaredRange(p)
  <2>2. ValueConstraint(p) = CASE d = Enumerated -> "in"
                               [] d = Bounded -> "bounded"
                               [] d = Integer -> "integer"
                               [] OTHER -> "any"
    BY <1>3, <2>1 DEF ValueConstraint
  <2>3. RangeMet(Asked(p), t) <=>
          \A r \in RangesOf(p) :
             CASE r = Enumerated -> t.kind = "plain" /\ t.value = <<"word">>
               [] r = Integer -> t.kind = "typed" /\ t.value \in {<<"five">>, <<"six">>}
               [] r = Bounded -> t.kind = "typed" /\ t.value = <<"five">>
               [] OTHER -> TRUE
    BY <2>1 DEF RangeMet, Asked
  <2>4. IF RangesOf(p) = {} THEN d = None ELSE RangesOf(p) = {d}
    BY DeclaredIsRange
  <2> HIDE DEF d
  <2>5. CASE RangesOf(p) = {}
    <3>1. ValueConstraint(p) = "any"
      BY <2>2, <2>4, <2>5, GateConstants
    <3> QED
      BY <1>5, <2>3, <2>5, <3>1, KindsHold
  <2>6. CASE RangesOf(p) = {d}
    <3>1. CASE d = Enumerated
      BY <1>5, <2>2, <2>3, <2>6, <3>1, KindsHold, GateConstants
    <3>2. CASE d = Bounded
      BY <1>5, <2>2, <2>3, <2>6, <3>2, KindsHold, GateConstants
    <3>3. CASE d = Integer
      BY <1>5, <2>2, <2>3, <2>6, <3>3, KindsHold, GateConstants
    <3>4. CASE d \notin {Enumerated, Bounded, Integer}
      BY <1>5, <2>2, <2>3, <2>6, <3>4, KindsHold, GateConstants
    <3> QED
      BY <3>1, <3>2, <3>3, <3>4
  <2> QED
    BY <2>4, <2>5, <2>6
<1> QED
  BY <1>4, <1>5

(* What a block says of a document: of the terms under a group of properties.  *)
Under(triples, group) == {t[2] : t \in {t \in triples : t[1] \in group}}

LEMMA PropertyBlock ==
  ASSUME NEW c, NEW p \in Props, NEW triples
  PROVE  BlockHolds(PropertyShape(c, p), triples) <=>
           /\ \A t \in Under(triples, Group(p)) : KindHolds(ValueConstraint(p), t)
           /\ Required(c, p) => Under(triples, Group(p)) # {}
<1> DEFINE b == PropertyShape(c, p)
<1>1. ToSet(b.path) = Group(p) /\ b.kind = ValueConstraint(p) /\ b.required = Required(c, p) /\ b.of = None
  BY SpellingsAreGroup DEF PropertyShape
<1> HIDE DEF b
<1>2. BlockHolds(b, triples) <=>
           /\ \A t \in Under(triples, Group(p)) : KindHolds(ValueConstraint(p), t)
           /\ Required(c, p) => Under(triples, Group(p)) # {}
  BY <1>1 DEF BlockHolds, Under
<1> QED
  BY <1>2 DEF b

Matching(triples, a) == {t \in Under(triples, Group(a[3])) : Matches(t, a[4])}

LEMMA QualifiedBlock ==
  ASSUME NEW a, a[3] \in Props, a[4] # None, NEW triples
  PROVE  BlockHolds(QualifiedShape(a), triples) <=>
           IF a[1] = "exactlyOf" THEN Cardinality(Matching(triples, a)) = 1
           ELSE Matching(triples, a) # {}
<1> DEFINE b == QualifiedShape(a)
<1>1. /\ ToSet(b.path) = Group(a[3]) /\ b.kind = "any" /\ b.required = FALSE /\ b.of = a[4]
      /\ b.exact = (a[1] = "exactlyOf")
  BY SpellingsAreGroup DEF QualifiedShape
<1>2. \A t : KindHolds("any", t)
  BY KindsHold
<1> HIDE DEF b
<1>3. {t \in Under(triples, ToSet(b.path)) : b.of # None /\ Matches(t, b.of)} = Matching(triples, a)
  BY <1>1 DEF Matching
<1>4. BlockHolds(b, triples) <=>
           IF a[1] = "exactlyOf" THEN Cardinality(Matching(triples, a)) = 1
           ELSE Matching(triples, a) # {}
  BY <1>1, <1>2, <1>3 DEF BlockHolds, Under
<1> QED
  BY <1>4 DEF b

LEMMA BlocksAre ==
  ASSUME Current, NEW c \in LiveClasses, NEW triples
  PROVE  (\A b \in shapes[c] : BlockHolds(b, triples)) <=>
           /\ \A p \in Placed(c) :
                /\ \A t \in Under(triples, Group(p)) : KindHolds(ValueConstraint(p), t)
                /\ Required(c, p) => Under(triples, Group(p)) # {}
           /\ \A a \in Qualified(c) :
                IF a[1] = "exactlyOf" THEN Cardinality(Matching(triples, a)) = 1
                ELSE Matching(triples, a) # {}
<1>1. c \in Classes /\ \A p \in Placed(c) : p \in Props
  BY ShapesAre, PlacedIsOneSpelling, CandidatesAreCarried DEF Current
<1>2. \A a \in Qualified(c) : a[3] \in Props /\ a[4] # None
  BY <1>1, QualifiedAre, DemandIs
<1>3. (\A b \in shapes[c] : BlockHolds(b, triples)) <=>
        /\ \A p \in Placed(c) : BlockHolds(PropertyShape(c, p), triples)
        /\ \A a \in Qualified(c) : BlockHolds(QualifiedShape(a), triples)
  BY ShapesAre
<1> QED
  BY <1>1, <1>2, <1>3, PropertyBlock, QualifiedBlock

-----------------------------------------------------------------------------
OfClass(triples, a) == {t \in Under(triples, Group(a[3])) : t.of = a[4]}
CountMet(a, terms) ==
  CASE a[1] = "min" -> terms # {}
    [] a[1] = "two" -> Cardinality(terms) >= 2
    [] a[1] = "one" -> Cardinality(terms) = 1

(* What the ontologies ask of a document.                                      *)
LEMMA SatisfiesIs ==
  ASSUME Current, NEW c \in Classes, NEW triples
  PROVE  Satisfies(Asks(c), triples) <=>
           /\ \A p \in Carried(c) : \A t \in Under(triples, Group(p)) : RangeMet(Asked(p), t)
           /\ \A a \in Demands(c) : a[1] \in Counts => CountMet(a, Under(triples, Group(a[3])))
           /\ \A a \in Qualified(c) :
                IF a[1] = "exactlyOf" THEN Cardinality(OfClass(triples, a)) = 1
                ELSE OfClass(triples, a) # {}
<1> DEFINE asks == Asks(c)
           D(a) == [kind |-> a[1], group |-> Group(a[3]),
                    of |-> IF a[1] \in Counts THEN None ELSE a[4]]
<1>1. asks.carried = {Asked(p) : p \in Carried(c)} /\ asks.demands = {D(a) : a \in Demands(c)}
  BY DEF Asks, Asked
<1>2. (\A p \in asks.carried, t \in triples : t[1] \in p.group => RangeMet(p, t[2])) <=>
        \A p \in Carried(c) : \A t \in Under(triples, Group(p)) : RangeMet(Asked(p), t)
  <2>1. \A p : Asked(p).group = Group(p)
    BY DEF Asked
  <2> HIDE DEF asks
  <2> QED
    BY <1>1, <2>1 DEF Under
<1>3. (\A d \in asks.demands : DemandMet(d, triples)) <=>
        \A a \in Demands(c) : DemandMet(D(a), triples)
  BY <1>1
<1>4. ASSUME NEW a \in Demands(c), a[1] \in Counts
      PROVE  DemandMet(D(a), triples) <=> CountMet(a, Under(triples, Group(a[3])))
  <2> DEFINE d == D(a)
  <2>1. d.kind = a[1] /\ d.group = Group(a[3])
    BY <1>4
  <2> HIDE DEF d
  <2>2. DemandMet(d, triples) <=> CountMet(a, Under(triples, Group(a[3])))
    BY <1>4, <2>1 DEF DemandMet, CountMet, Under, Counts
  <2> QED
    BY <2>2 DEF d
<1>5. ASSUME NEW a \in Demands(c), a[1] \notin Counts
      PROVE  DemandMet(D(a), triples) <=>
               IF a[1] = "exactlyOf" THEN Cardinality(OfClass(triples, a)) = 1
               ELSE OfClass(triples, a) # {}
  <2> DEFINE d == D(a)
  <2>1. d.kind = a[1] /\ d.group = Group(a[3]) /\ d.of = a[4]
    BY <1>5
  <2>2. a[1] \in {"minOf", "exactlyOf"}
    BY <1>5, DemandIs
  <2> HIDE DEF d
  <2>3. {t \in Under(triples, d.group) : t.of = d.of} = OfClass(triples, a)
    BY <2>1 DEF OfClass
  <2>4. DemandMet(d, triples) <=>
               IF a[1] = "exactlyOf" THEN Cardinality(OfClass(triples, a)) = 1
               ELSE OfClass(triples, a) # {}
    BY <2>1, <2>2, <2>3 DEF DemandMet, Under
  <2> QED
    BY <2>4 DEF d
<1>6. Satisfies(asks, triples) <=>
        /\ \A p \in asks.carried, t \in triples : t[1] \in p.group => RangeMet(p, t[2])
        /\ \A d \in asks.demands : DemandMet(d, triples)
  BY DEF Satisfies
<1> HIDE DEF asks, D
<1>7. Satisfies(asks, triples) <=>
           /\ \A p \in Carried(c) : \A t \in Under(triples, Group(p)) : RangeMet(Asked(p), t)
           /\ \A a \in Demands(c) : a[1] \in Counts => CountMet(a, Under(triples, Group(a[3])))
           /\ \A a \in Qualified(c) :
                IF a[1] = "exactlyOf" THEN Cardinality(OfClass(triples, a)) = 1
                ELSE OfClass(triples, a) # {}
  BY <1>2, <1>3, <1>4, <1>5, <1>6, QualifiedAre
<1> QED
  BY <1>7 DEF asks

(* The shape of a placed property speaks for all of its spellings.             *)
LEMMA KindsAgree ==
  ASSUME Current, NEW c \in Classes, Agreed(c), NEW triples
  PROVE  (\A p \in Placed(c) : \A t \in Under(triples, Group(p)) : KindHolds(ValueConstraint(p), t))
           <=> \A p \in Carried(c) : \A t \in Under(triples, Group(p)) : RangeMet(Asked(p), t)
<1>0. order \in Orders
  BY DEF Current
<1>1. \A p \in Carried(c) : \E r \in Placed(c) : Group(r) = Group(p) /\ Asked(r) = Asked(p)
  <2> SUFFICES ASSUME NEW p \in Carried(c)
               PROVE  \E r \in Placed(c) : Group(r) = Group(p) /\ Asked(r) = Asked(p)
    OBVIOUS
  <2>1. p \in Props
    BY <1>0, CandidatesAreCarried
  <2>2. PICK r \in Placed(c) : r \in Group(p)
    BY <1>0, PlacedIsOneSpelling
  <2>3. Group(r) = Group(p)
    BY <2>1, <2>2, GroupsAgree
  <2> QED
    BY <2>2, <2>3 DEF Asked, RangesOf
<1>2. \A p \in Placed(c) : p \in Carried(c)
  BY <1>0, PlacedIsOneSpelling
<1>3. \A p \in Placed(c) : \A t : KindHolds(ValueConstraint(p), t) <=> RangeMet(Asked(p), t)
  BY <1>2, KindIsRange
<1> QED
  BY <1>1, <1>2, <1>3

(* A property is required when any number of values is demanded of it.         *)
LEMMA MinimaAgree ==
  ASSUME Current, NEW c \in Classes, Demandable(c), NEW triples
  PROVE  (\A p \in Placed(c) : Required(c, p) => Under(triples, Group(p)) # {})
           <=> \A a \in Demands(c) : a[1] \in Counts => Under(triples, Group(a[3])) # {}
<1>0. order \in Orders /\ Line(c) = Above(c)
  BY LineIsAbove DEF Current
<1>1. \A p \in Placed(c) : p \in Carried(c) /\ p \in Props /\ Equivalents(p) = Group(p)
  BY <1>0, PlacedIsOneSpelling, CandidatesAreCarried, EquivalentsAreGroup
<1>2. ASSUME NEW p \in Placed(c), Required(c, p)
      PROVE  \E a \in Demands(c) : a[1] \in Counts /\ Group(a[3]) = Group(p)
  <2>1. PICK x \in Above(c), q \in Group(p), number \in Counts : <<number, x, q>> \in axioms
    BY <1>0, <1>1, <1>2 DEF Required
  <2>2. <<number, x, q>> \in Demands(c)
    BY <2>1 DEF Demands
  <2>3. Group(q) = Group(p)
    BY <1>1, <2>1, GroupsAgree
  <2> QED
    BY <2>2, <2>3
<1>3. ASSUME NEW a \in Demands(c), a[1] \in Counts
      PROVE  \E p \in Placed(c) : Required(c, p) /\ Group(p) = Group(a[3])
  <2>1. a[3] \in Props /\ a = <<a[1], a[2], a[3]>> /\ a \in axioms /\ a[2] \in Above(c)
    BY <1>3, DemandIs
  <2>2. PICK q \in Carried(c) : q \in Group(a[3])
    BY DEF Demandable
  <2>3. q \in Props /\ Group(q) = Group(a[3])
    BY <2>1, <2>2, GroupsAgree
  <2>4. PICK p \in Placed(c) : p \in Group(q)
    BY <1>0, <2>2, PlacedIsOneSpelling
  <2>5. Group(p) = Group(a[3])
    BY <2>3, <2>4, GroupsAgree
  <2>6. a[3] \in Group(p)
    BY <2>1, <2>5, GroupIsClosed
  <2>7. Required(c, p)
    BY <1>0, <1>1, <1>3, <2>1, <2>4, <2>6 DEF Required
  <2> QED
    BY <2>4, <2>5, <2>7
<1> QED
  BY <1>2, <1>3

(* What a count asks for is there only if something is, and that is all it     *)
(* asks where one value will do.                                               *)
LEMMA CountsAgree ==
  ASSUME NEW c, NEW a \in Demands(c), a[1] \in Counts, NEW terms
  PROVE  /\ CountMet(a, terms) => terms # {}
         /\ OneWillDo(c) /\ terms # {} => CountMet(a, terms)
<1>1. CASE a[1] = "min"
  BY <1>1 DEF CountMet
<1>2. CASE a[1] \in {"two", "one"}
  <2>1. ~ OneWillDo(c)
    BY <1>2 DEF OneWillDo
  <2>2. ASSUME terms = {} PROVE ~ CountMet(a, terms)
    <3>1. Cardinality(terms) = 0
      BY <2>2, FS_EmptySet
    <3>2. CASE a[1] = "two"
      <4>1. CountMet(a, terms) <=> Cardinality(terms) >= 2
        BY <3>2 DEF CountMet
      <4> QED
        BY <3>1, <4>1
    <3>3. CASE a[1] = "one"
      <4>1. CountMet(a, terms) <=> Cardinality(terms) = 1
        BY <3>3 DEF CountMet
      <4> QED
        BY <3>1, <4>1
    <3> QED
      BY <1>2, <3>2, <3>3
  <2> QED
    BY <2>1, <2>2
<1> QED
  BY <1>1, <1>2 DEF Counts

\* Triples of a document: every one comes of a key and a value, and is a term.
Written(c, triples) ==
  \A t \in triples : \E n \in Names, v \in Values :
    t = <<PropertyIri(c, n), TurtleTerm(c, n, v)>> /\ t[2] # Error

LEMMA ReferenceMatches ==
  ASSUME Current, NEW c \in Classes, InOrder(c), NEW n \in Names, NEW v \in Values,
         NEW a \in Qualified(c), PropertyIri(c, n) \in Group(a[3]),
         TurtleTerm(c, n, v).kind = "IRI", TurtleTerm(c, n, v) # Error
  PROVE  Matches(TurtleTerm(c, n, v), a[4]) <=> TurtleTerm(c, n, v).of = a[4]
<1> DEFINE P == PropertyIri(c, n)
           t == TurtleTerm(c, n, v)
           R == ReferenceRange(P)
<1>1. a \in Demands(c) /\ a[1] \notin Counts /\ a[3] \in Props /\ a[4] \in Classes
  BY QualifiedAre, DemandIs
<1>2. PICK p \in Carried(c) : p \in Group(a[3])
  BY <1>1 DEF InOrder, Demandable
<1>3. Group(p) = Group(a[3]) /\ a[3] \in Group(p) /\ P \in Group(p)
  BY <1>1, <1>2, GroupsAgree, GroupIsClosed
<1>4. RangesOf(p) \subseteq {Thing, a[4]}
  BY <1>1, <1>3 DEF InOrder, Agreed
<1>5. \A k \in Classes : Name(k) = Name(a[4]) => k = a[4]
  BY <1>1 DEF InOrder, Unmistaken
<1>6. ObjectKey(c, n) /\ t = TurtleReference(v, R)
  <2>1. \A w, typed : Literal(w, typed).kind # "IRI"
    BY DEF Literal
  <2> QED
    BY <2>1 DEF TurtleTerm, Predicate
<1>7. Thing # None /\ Thing \in Classes /\ (v[1] = "address" => v \in {"address"} \X Classes)
  BY GateConstants
<1>8. R \in {Thing, None, a[4]}
  <2>1. R = None \/ R = RangeOf(P)
    BY DEF ReferenceRange
  <2>2. RangeOf(P) = None \/ RangeOf(P) \in RangesOf(p)
    BY <1>3 DEF RangesOf
  <2> QED
    BY <1>4, <2>1, <2>2
<1> HIDE DEF P, R
<1>9. CASE R \in {Thing, None}
  <2>1. t = AddressOf(v)
    BY <1>6, <1>7, <1>9 DEF TurtleReference, Resolved
  <2>2. v[1] = "address" /\ t = Reference(v, v[2])
    BY <2>1 DEF AddressOf
  <2>3. v[2] \in Classes
    BY <1>7, <2>2
  <2>4. t.kind = "IRI" /\ t.value = v /\ t.of = v[2]
    BY <2>2 DEF Reference
  <2>5. Matches(t, a[4]) <=> Name(v[2]) = Name(a[4])
    BY <2>2, <2>4 DEF Matches
  <2> QED
    BY <1>5, <2>3, <2>4, <2>5
<1>10. CASE R \notin {Thing, None}
  <2>1. R = a[4]
    BY <1>8, <1>10
  <2>2. t = Reference(v, a[4])
    BY <1>6, <1>10, <2>1 DEF TurtleReference
  <2>3. t.kind = "IRI" /\ t.of = a[4]
    BY <2>2 DEF Reference
  <2> QED
    BY <2>3 DEF Matches
<1> QED
  BY <1>9, <1>10

LEMMA MatchingIsOfClass ==
  ASSUME Current, NEW c \in Classes, InOrder(c), NEW triples, Written(c, triples),
         \A p \in Carried(c) : \A t \in Under(triples, Group(p)) : RangeMet(Asked(p), t),
         NEW a \in Qualified(c)
  PROVE  Matching(triples, a) = OfClass(triples, a)
<1>1. a \in Demands(c) /\ a[1] \notin Counts /\ a[3] \in Props
  BY QualifiedAre, DemandIs
<1>2. PICK p \in Carried(c) : p \in Group(a[3])
  BY <1>1 DEF InOrder, Demandable
<1>3. Group(p) = Group(a[3]) /\ a[3] \in Group(p) /\ p \in Group(p)
  BY <1>1, <1>2, GroupsAgree, GroupIsClosed
<1>4. IsObject(p)
  BY <1>1, <1>3 DEF InOrder, Agreed
<1> SUFFICES ASSUME NEW t \in Under(triples, Group(a[3]))
             PROVE  Matches(t, a[4]) <=> t.of = a[4]
  BY DEF Matching, OfClass
<1>5. t.kind = "IRI"
  <2>1. RangeMet(Asked(p), t) /\ Asked(p).object
    BY <1>3, <1>4 DEF Asked
  <2> QED
    BY <2>1 DEF RangeMet
<1>6. PICK x \in triples : x[1] \in Group(a[3]) /\ t = x[2]
  BY DEF Under
<1>7. PICK n \in Names, v \in Values : x = <<PropertyIri(c, n), TurtleTerm(c, n, v)>> /\ x[2] # Error
  BY DEF Written
<1>8. PropertyIri(c, n) \in Group(a[3]) /\ t = TurtleTerm(c, n, v) /\ t # Error
  BY <1>6, <1>7
<1> QED
  BY <1>5, <1>8, ReferenceMatches

(* The blocks of a class's shape hold of a document's triples that satisfy     *)
(* what the ontologies ask of the class, and of no others where one value of a *)
(* demanded property is as good as several.                                    *)
LEMMA BlocksAsk ==
  ASSUME Current, NEW c \in LiveClasses, InOrder(c), NEW triples, Written(c, triples)
  PROVE  /\ Satisfies(Asks(c), triples) => \A b \in shapes[c] : BlockHolds(b, triples)
         /\ OneWillDo(c) /\ (\A b \in shapes[c] : BlockHolds(b, triples)) => Satisfies(Asks(c), triples)
<1>1. c \in Classes /\ Agreed(c) /\ Demandable(c)
  BY ShapesAre DEF InOrder
<1>2. CASE \A p \in Carried(c) : \A t \in Under(triples, Group(p)) : RangeMet(Asked(p), t)
  <2>1. \A a \in Qualified(c) : Matching(triples, a) = OfClass(triples, a)
    BY <1>1, <1>2, MatchingIsOfClass
  <2>2. (\A p \in Placed(c) : Required(c, p) => Under(triples, Group(p)) # {})
          <=> \A a \in Demands(c) : a[1] \in Counts => Under(triples, Group(a[3])) # {}
    BY <1>1, MinimaAgree
  <2>3. \A a \in Demands(c) : a[1] \in Counts =>
          /\ CountMet(a, Under(triples, Group(a[3]))) => Under(triples, Group(a[3])) # {}
          /\ OneWillDo(c) /\ Under(triples, Group(a[3])) # {} => CountMet(a, Under(triples, Group(a[3])))
    BY CountsAgree
  <2>4. (\A p \in Placed(c) : \A t \in Under(triples, Group(p)) : KindHolds(ValueConstraint(p), t))
    BY <1>1, <1>2, KindsAgree
  <2> QED
    BY <1>1, <1>2, <2>1, <2>2, <2>3, <2>4, BlocksAre, SatisfiesIs
<1>3. CASE ~ \A p \in Carried(c) : \A t \in Under(triples, Group(p)) : RangeMet(Asked(p), t)
  BY <1>1, <1>3, BlocksAre, SatisfiesIs, KindsAgree
<1> QED
  BY <1>2, <1>3

-----------------------------------------------------------------------------
(* The gate and sync make the same triples of plain entries of one class.      *)
LEMMA TriplesAgree ==
  ASSUME NEW c, NEW doc \in SUBSET PlainEntries(c)
  PROVE  Turtle(c, doc) = Quads(doc)
<1>1. \A v, range : TurtleReference(v, range) = QuadReference(v, range)
  BY DEF TurtleReference, QuadReference
<1>2. \A n : Predicate(c, n) = PropertyIri(c, n)
  BY DEF Predicate
<1>3. \A n, v : ~ Open(n) /\ v # Wikilink => TurtleTerm(c, n, v) = QuadTerm(c, n, v)
  <2> SUFFICES ASSUME NEW n, NEW v, ~ Open(n), v # Wikilink
               PROVE  TurtleTerm(c, n, v) = QuadTerm(c, n, v)
    OBVIOUS
  <2>1. ~ OpenObject(n) /\ ~ OpenTyped(n)
    BY DEF OpenObject, OpenTyped
  <2> QED
    BY <1>1, <1>2, <2>1 DEF TurtleTerm, QuadTerm, Literal
<1>4. \A e \in doc : e[1] = c /\ ~ Open(e[2]) /\ e[3] # Blank /\ e[3] # Wikilink
  BY DEF PlainEntries, Plain
<1>5. Turtle(c, doc) = {<<Predicate(c, e[2]), TurtleTerm(c, e[2], e[3])>> : e \in doc}
  BY <1>4 DEF Turtle
<1>6. Quads(doc) = {<<PropertyIri(c, e[2]), QuadTerm(c, e[2], e[3])>> : e \in doc}
  <2>1. {e \in doc : e[3] # Blank} = doc
    BY <1>4
  <2>2. Quads(doc) = {<<PropertyIri(e[1], e[2]), QuadTerm(e[1], e[2], e[3])>> : e \in doc}
    BY <2>1 DEF Quads
  <2> QED
    BY <1>4, <2>2
<1>7. \A e \in doc : <<Predicate(c, e[2]), TurtleTerm(c, e[2], e[3])>>
                       = <<PropertyIri(c, e[2]), QuadTerm(c, e[2], e[3])>>
  BY <1>2, <1>3, <1>4
<1> QED
  BY <1>5, <1>6, <1>7

LEMMA GateAgreesOn ==
  ASSUME Current, NEW c \in LiveClasses, InOrder(c), NEW doc \in SUBSET PlainEntries(c)
  PROVE  /\ Stored(Asks(c), Quads(doc)) => Passes(c, doc)
         /\ OneWillDo(c) /\ Passes(c, doc) => Stored(Asks(c), Quads(doc))
<1>1. \A e \in doc : e[2] \in Names /\ e[3] \in Values
  BY DEF PlainEntries, Plain
<1>2. PICK triples : triples = Turtle(c, doc)
  OBVIOUS
<1>3. triples = Quads(doc)
  BY <1>2, TriplesAgree
<1>4. ASSUME \A t \in triples : t[2] # Error
      PROVE  Written(c, triples)
  <2> SUFFICES ASSUME NEW t \in triples
               PROVE  \E n \in Names, v \in Values :
                        t = <<PropertyIri(c, n), TurtleTerm(c, n, v)>> /\ t[2] # Error
    BY DEF Written
  <2>1. PICK e \in doc : t = <<Predicate(c, e[2]), TurtleTerm(c, e[2], e[3])>>
    BY <1>2 DEF Turtle
  <2> QED
    BY <1>1, <1>4, <2>1 DEF Predicate
<1>5. Passes(c, doc) <=> (\A t \in triples : t[2] # Error) /\ \A b \in shapes[c] : BlockHolds(b, triples)
  BY <1>2 DEF Passes
<1>6. Stored(Asks(c), Quads(doc)) <=> Satisfies(Asks(c), triples) /\ \A t \in triples : t[2] # Error
  BY <1>3 DEF Stored
<1> QED
  BY <1>4, <1>5, <1>6, BlocksAsk

LEMMA DocumentsAre ==
  ASSUME NEW entries, NEW doc \in Documents(entries)
  PROVE  doc \in SUBSET entries
<1>1. CASE doc = {}
  BY <1>1
<1>2. CASE \E s \in [1..MaxValues -> entries] : doc = ToSet(s)
  <2>1. PICK s \in [1..MaxValues -> entries] : doc = ToSet(s)
    BY <1>2
  <2>2. \A i \in DOMAIN s : s[i] \in entries
    OBVIOUS
  <2> QED
    BY <2>1, <2>2 DEF ToSet
<1> QED
  BY <1>1, <1>2 DEF Documents

(* The shapes are those of the ontologies whenever they have been built.       *)
GateInv ==
  /\ axioms \subseteq Menu /\ order \in Orders
  /\ built => shapes = GenerateShapes

LEMMA ShapesStay ==
  ASSUME UNCHANGED <<axioms, order>>
  PROVE  GenerateShapes' = GenerateShapes
BY DEF GenerateShapes, LiveClasses, ClassShape, PropertyShape, QualifiedShape, Placed, Candidates,
       ComesFirst, Distance, Line, Chain, Pop, Equivalents, Spread, Bridged, Spellings, Listed,
       DomainOf, IsObject, RangeOf, DeclaredRange, ValueConstraint, Required, Qualified

LEMMA GateInvInit == Init => GateInv
BY GateConstants DEF Init, GateInv

LEMMA GateInvNext == GateInv /\ [Next]_vars => GateInv'
<1> SUFFICES ASSUME GateInv, [Next]_vars PROVE GateInv'
  OBVIOUS
<1>1. CASE MirrorOntology
  BY <1>1 DEF GateInv, MirrorOntology
<1>2. CASE BuildShapes
  BY <1>2, ShapesStay DEF GateInv, BuildShapes
<1>3. CASE UNCHANGED vars
  BY <1>3, ShapesStay DEF GateInv, vars
<1> QED
  BY <1>1, <1>2, <1>3 DEF Next

LEMMA GateAgreesThen == GateInv => GateAgrees
<1> SUFFICES ASSUME GateInv, built, NEW c \in LiveClasses, InOrder(c),
                    NEW doc \in Documents(PlainEntries(c))
             PROVE  /\ Stored(Asks(c), Quads(doc)) => Passes(c, doc)
                    /\ OneWillDo(c) /\ Passes(c, doc) => Stored(Asks(c), Quads(doc))
  BY DEF GateAgrees
<1>1. Current
  BY DEF GateInv, Current
<1> QED
  BY <1>1, DocumentsAre, GateAgreesOn

(* The gate and the ontologies agree about every document of plain entries     *)
(* (GateAgrees): validate_document over generated shapes, beside emit_kit_line *)
(* and the ontologies themselves, counts they demand included; what satisfies  *)
(* them is never refused, and what does not never passes where one value of a  *)
(* demanded property is as good as several.                                    *)
THEOREM GateJudgesRight == Spec => []GateAgrees
<1> QED
  BY GateInvInit, GateInvNext, GateAgreesThen, PTL DEF Spec

-----------------------------------------------------------------------------
(* A document for a class: under one key for each property, what is wanted.    *)
HeadsOf(c) == Placed(c) \cup {a[3] : a \in Qualified(c)}
Rep(c, g) == IF Placed(c) \cap g # {} THEN CHOOSE h \in Placed(c) : h \in g
             ELSE CHOOSE h \in HeadsOf(c) : h \in g
KeyOf(c, g) == Name(Rep(c, g))
Wanted(c, g) == {a \in Qualified(c) : a[3] \in g}
ClassNamed(c, g, m) == CHOOSE k \in {a[4] : a \in Wanted(c, g)} : Name(k) = m
AnAddress == CHOOSE v \in Values : v[1] = "address"
ValueFor(p) ==
  IF ValueConstraint(p) = "IRI" THEN AnAddress
  ELSE IF ValueConstraint(p) \in {"integer", "bounded"} THEN <<"five">> ELSE <<"word">>
Given(c, g) ==
  IF Wanted(c, g) # {} THEN {<<"address", ClassNamed(c, g, Name(a[4]))>> : a \in Wanted(c, g)}
  ELSE {ValueFor(p) : p \in {p \in Placed(c) : p \in g /\ Required(c, p)}}
Draft(c) ==
  {e \in {c} \X Names \X Plain :
     \E h \in HeadsOf(c) : e[2] = KeyOf(c, Group(h)) /\ e[3] \in Given(c, Group(h))}

LEMMA HeadsAreProps ==
  ASSUME Current, NEW c \in LiveClasses
  PROVE  /\ c \in Classes /\ order \in Orders
         /\ \A h \in HeadsOf(c) : h \in Props /\ h \in Carried(c) \cup {a[3] : a \in Demands(c)}
         /\ \A p \in Placed(c) : p \in Props /\ p \in Carried(c)
<1>1. c \in Classes /\ order \in Orders
  BY ShapesAre DEF Current
<1>2. \A p \in Placed(c) : p \in Props /\ p \in Carried(c)
  BY <1>1, PlacedIsOneSpelling, CandidatesAreCarried
<1>3. \A a \in Qualified(c) : a \in Demands(c) /\ a[3] \in Props
  BY <1>1, QualifiedAre, DemandIs
<1> QED
  BY <1>1, <1>2, <1>3 DEF HeadsOf

(* The key stands for the properties of its group and no other.                *)
LEMMA KeyIs ==
  ASSUME Current, NEW c \in LiveClasses, Distinct(c), NEW h \in HeadsOf(c)
  PROVE  /\ KeyOf(c, Group(h)) \in Names
         /\ \A x \in HeadsOf(c) : Name(x) = KeyOf(c, Group(h)) => Group(x) = Group(h) /\ x \in Group(h)
         /\ PropertyIri(c, KeyOf(c, Group(h))) \in Group(h)
<1> DEFINE g == Group(h)
           r == Rep(c, g)
           n == KeyOf(c, g)
<1>1. h \in Props /\ h \in g
  BY HeadsAreProps, GroupIsClosed
<1>2. r \in HeadsOf(c) /\ r \in g
  <2>1. CASE Placed(c) \cap g # {}
    BY <2>1 DEF Rep, HeadsOf
  <2>2. CASE Placed(c) \cap g = {}
    BY <1>1, <2>2 DEF Rep
  <2> QED
    BY <2>1, <2>2
<1>3. r \in Props /\ Group(r) = g /\ n = Name(r)
  BY <1>1, <1>2, HeadsAreProps, GroupsAgree DEF KeyOf
<1> HIDE DEF r, n
<1>4. \A x \in HeadsOf(c) : Name(x) = n => Group(x) = g /\ x \in g
  <2> SUFFICES ASSUME NEW x \in HeadsOf(c), Name(x) = n PROVE Group(x) = g /\ x \in g
    OBVIOUS
  <2>1. x \in Group(r)
    BY <1>2, <1>3, HeadsAreProps DEF Distinct
  <2> QED
    BY <1>3, <2>1, GroupsAgree
<1>5. Heads(c, n) = {x \in HeadsOf(c) : Name(x) = n}
  BY HeadsAre DEF HeadsOf
<1>6. r \in Heads(c, n)
  BY <1>2, <1>3, <1>5
<1>7. PropertyIri(c, n) \in g
  BY <1>4, <1>5, <1>6, IriIsHead
<1>8. n \in Names
  BY <1>3 DEF Names
<1> QED
  BY <1>4, <1>7, <1>8 DEF n

\* How a key's values are written is what the placed property's shape says.
LEMMA KeysAre ==
  ASSUME Current, NEW c \in LiveClasses, NEW n
  PROVE  /\ ObjectKey(c, n) <=> \E p \in Placed(c) : Name(p) = n /\ ValueConstraint(p) = "IRI"
         /\ TypedKey(c, n) <=> \E p \in Placed(c) : Name(p) = n /\ ValueConstraint(p) \in {"integer", "bounded"}
<1>1. \A p \in Placed(c) : PropertyShape(c, p).path[1] = p /\ PropertyShape(c, p).kind = ValueConstraint(p)
  BY HeadsAreProps, SpellingsAreGroup DEF PropertyShape
<1>2. \A a \in Qualified(c) : QualifiedShape(a).kind = "any"
  BY DEF QualifiedShape
<1>3. \A b : b \in shapes[c] <=> \/ \E p \in Placed(c) : b = PropertyShape(c, p)
                                 \/ \E a \in Qualified(c) : b = QualifiedShape(a)
  BY ShapesAre
<1> QED
  BY <1>1, <1>2, <1>3 DEF ObjectKey, TypedKey

\* The one placed property a key stands for, if there is one.
LEMMA PlacedKey ==
  ASSUME Current, NEW c \in LiveClasses, Distinct(c), NEW p \in Placed(c)
  PROVE  /\ ObjectKey(c, KeyOf(c, Group(p))) <=> ValueConstraint(p) = "IRI"
         /\ TypedKey(c, KeyOf(c, Group(p))) <=> ValueConstraint(p) \in {"integer", "bounded"}
<1> DEFINE g == Group(p)
           n == KeyOf(c, g)
<1>1. p \in Props /\ p \in g /\ p \in HeadsOf(c)
  BY HeadsAreProps, GroupIsClosed DEF HeadsOf
<1>2. Rep(c, g) \in Placed(c) /\ Rep(c, g) \in g
  BY <1>1 DEF Rep
<1>3. Rep(c, g) = p
  BY <1>2, HeadsAreProps, PlacedIsOneSpelling
<1>4. \A x \in Placed(c) : Name(x) = n <=> x = p
  <2>1. \A x \in Placed(c) : Name(x) = n => x \in g
    BY <1>1, KeyIs DEF HeadsOf
  <2> QED
    BY <1>3, <2>1, HeadsAreProps, PlacedIsOneSpelling DEF KeyOf
<1> HIDE DEF n, g
<1>5. ObjectKey(c, n) <=> ValueConstraint(p) = "IRI"
  BY <1>4, KeysAre
<1>6. TypedKey(c, n) <=> ValueConstraint(p) \in {"integer", "bounded"}
  BY <1>4, KeysAre
<1> QED
  BY <1>5, <1>6 DEF n, g

LEMMA UnplacedKey ==
  ASSUME Current, NEW c \in LiveClasses, Distinct(c), NEW h \in HeadsOf(c),
         Placed(c) \cap Group(h) = {}
  PROVE  ~ ObjectKey(c, KeyOf(c, Group(h))) /\ ~ TypedKey(c, KeyOf(c, Group(h)))
<1>1. \A x \in Placed(c) : Name(x) # KeyOf(c, Group(h))
  BY KeyIs DEF HeadsOf
<1> QED
  BY <1>1, KeysAre

-----------------------------------------------------------------------------
LEMMA NamedIs ==
  ASSUME NEW c, NEW g, NEW a \in Wanted(c, g)
  PROVE  /\ ClassNamed(c, g, Name(a[4])) \in {b[4] : b \in Wanted(c, g)}
         /\ Name(ClassNamed(c, g, Name(a[4]))) = Name(a[4])
BY DEF ClassNamed

LEMMA WantedAre ==
  ASSUME Current, NEW c \in LiveClasses, NEW g, NEW a \in Wanted(c, g)
  PROVE  /\ a \in Demands(c) /\ a \in Qualified(c) /\ a[1] \notin Counts /\ a[3] \in g /\ a[3] \in Props
         /\ a[4] \in Classes /\ a[4] # None /\ <<"address", a[4]>> \in Values
<1>1. c \in Classes /\ a \in Qualified(c) /\ a[3] \in g
  BY ShapesAre DEF Wanted
<1> QED
  BY <1>1, QualifiedAre, DemandIs

LEMMA AddressIsPlain ==
  ASSUME NEW v \in Values, v[1] = "address"
  PROVE  v \in Plain
<1>1. Blank[1] = "blank" /\ Wikilink[1] = "wikilink"
  BY DEF Blank, Wikilink
<1> QED
  BY <1>1 DEF Plain

LEMMA GivenArePlain ==
  ASSUME Current, NEW c \in LiveClasses, NEW g
  PROVE  Given(c, g) \subseteq Plain
<1>1. CASE Wanted(c, g) # {}
  <2> SUFFICES ASSUME NEW a \in Wanted(c, g)
               PROVE  <<"address", ClassNamed(c, g, Name(a[4]))>> \in Plain
    BY <1>1 DEF Given
  <2>1. PICK b \in Wanted(c, g) : ClassNamed(c, g, Name(a[4])) = b[4]
    BY NamedIs
  <2>2. <<"address", b[4]>> \in Values
    BY WantedAre
  <2>3. <<"address", b[4]>> \in Plain
    BY <2>2, AddressIsPlain
  <2> QED
    BY <2>1, <2>3
<1>2. CASE Wanted(c, g) = {}
  <2>1. \A p : ValueFor(p) \in Plain
    <3>1. AnAddress \in Plain
      BY GateConstants, AddressIsPlain DEF AnAddress
    <3>2. <<"word">> \in Plain /\ <<"five">> \in Plain
      BY GateConstants DEF Plain, Blank, Wikilink
    <3> QED
      BY <3>1, <3>2 DEF ValueFor
  <2> QED
    BY <1>2, <2>1 DEF Given
<1> QED
  BY <1>1, <1>2

LEMMA NoErrors ==
  /\ \A v, typed : Literal(v, typed) # Error /\ Literal(v, typed).kind # "IRI" /\ Literal(v, typed).value = v
  /\ \A v, k : Reference(v, k) # Error /\ Reference(v, k).kind = "IRI" /\ Reference(v, k).value = v
               /\ Reference(v, k).of = k
<1>1. Error.kind = "error"
  BY DEF Error
<1>2. \A v, typed : Literal(v, typed).kind \in {"typed", "plain"} /\ Literal(v, typed).value = v
  BY DEF Literal
<1>3. \A v, k : Reference(v, k).kind = "IRI" /\ Reference(v, k).value = v /\ Reference(v, k).of = k
  BY DEF Reference
<1> QED
  BY <1>1, <1>2, <1>3

LEMMA AddressWritten ==
  ASSUME NEW v \in Values, v[1] = "address", NEW range
  PROVE  TurtleReference(v, range) = Reference(v, IF range \in {Thing, None} THEN v[2] ELSE range)
<1>1. Thing # None
  BY GateConstants
<1>2. AddressOf(v) = Reference(v, v[2])
  BY DEF AddressOf
<1>3. CASE range = Thing
  BY <1>1, <1>2, <1>3 DEF TurtleReference
<1>4. CASE range = None
  BY <1>1, <1>2, <1>4 DEF TurtleReference, Resolved
<1>5. CASE range # Thing /\ range # None
  BY <1>5 DEF TurtleReference
<1> QED
  BY <1>3, <1>4, <1>5

\* What is wanted of a class becomes a term that says so.
LEMMA WantedTerm ==
  ASSUME Current, NEW c \in LiveClasses, Distinct(c), Agreed(c), NEW h \in HeadsOf(c),
         NEW v \in Given(c, Group(h)), NEW a \in Wanted(c, Group(h)),
         NEW t, t = TurtleTerm(c, KeyOf(c, Group(h)), v)
  PROVE  /\ t # Error
         /\ Placed(c) \cap Group(h) # {} => t.kind = "IRI"
         /\ Matches(t, a[4]) <=> Name(v[2]) = Name(a[4])
<1> DEFINE g == Group(h)
           n == KeyOf(c, g)
           P == PropertyIri(c, n)
           R == ReferenceRange(P)
<1>1. v \in Values
  BY GivenArePlain DEF Plain
<1>2. PICK b \in Wanted(c, g) : v = <<"address", b[4]>>
  <2>1. PICK x \in Wanted(c, g) : v = <<"address", ClassNamed(c, g, Name(x[4]))>>
    BY DEF Given
  <2> QED
    BY <2>1, NamedIs
<1>3. v[1] = "address" /\ v[2] = b[4]
  BY <1>2
<1>4. CASE Placed(c) \cap g = {}
  <2>1. ~ ObjectKey(c, n)
    BY <1>4, UnplacedKey
  <2>2. t = Literal(v, TypedKey(c, n))
    BY <2>1 DEF TurtleTerm
  <2>3. t # Error /\ t.kind # "IRI" /\ t.value = v
    BY <2>2, NoErrors
  <2> QED
    BY <1>3, <1>4, <2>3 DEF Matches
<1>5. CASE Placed(c) \cap g # {}
  <2>1. PICK p \in Placed(c) : p \in g
    BY <1>5
  <2>2. p \in Carried(c) /\ p \in Props /\ h \in Props /\ c \in Classes
    BY HeadsAreProps
  <2>3. Group(p) = g
    BY <2>1, <2>2, GroupsAgree
  <2>4. \A x \in Wanted(c, g) : IsObject(p) /\ RangesOf(p) \subseteq {Thing, x[4]}
    BY <2>2, <2>3, WantedAre DEF Agreed
  <2>5. ValueConstraint(p) = "IRI"
    BY <2>2, <2>4, KindIsRange
  <2>6. ObjectKey(c, n)
    BY <2>3, <2>5, PlacedKey
  <2>7. t = TurtleReference(v, R)
    BY <2>6 DEF TurtleTerm, Predicate
  <2>8. P \in g
    BY KeyIs
  <2>9. R = None \/ R \in RangesOf(p)
    BY <2>3, <2>8 DEF ReferenceRange, RangesOf
  <2>10. t = Reference(v, IF R \in {Thing, None} THEN v[2] ELSE R)
    BY <1>1, <1>3, <2>7, AddressWritten
  <2>11. t # Error /\ t.kind = "IRI" /\ t.value = v /\ t.of = IF R \in {Thing, None} THEN v[2] ELSE R
    BY <2>10, NoErrors
  <2>12. R \notin {Thing, None} => R = a[4] /\ R = v[2]
    BY <1>3, <2>4, <2>9
  <2> HIDE DEF R
  <2>13. Matches(t, a[4]) <=> Name(v[2]) = Name(a[4])
    BY <1>3, <2>11, <2>12 DEF Matches
  <2> QED
    BY <2>11, <2>13
<1> QED
  BY <1>4, <1>5

\* A required property is given a value of its kind.
LEMMA RequiredTerm ==
  ASSUME Current, NEW c \in LiveClasses, Distinct(c), Agreed(c), NEW p \in Placed(c),
         NEW t, t = TurtleTerm(c, KeyOf(c, Group(p)), ValueFor(p))
  PROVE  t # Error /\ KindHolds(ValueConstraint(p), t)
<1> DEFINE n == KeyOf(c, Group(p))
           v == ValueFor(p)
           kind == ValueConstraint(p)
<1>1. kind \in {"IRI", "in", "bounded", "integer", "any"}
  BY DEF ValueConstraint
<1>2. (ObjectKey(c, n) <=> kind = "IRI") /\ (TypedKey(c, n) <=> kind \in {"integer", "bounded"})
  BY PlacedKey
<1>3. CASE kind = "IRI"
  <2>1. v \in Values /\ v[1] = "address"
    BY <1>3, GateConstants DEF ValueFor, AnAddress
  <2>2. t = TurtleReference(v, ReferenceRange(PropertyIri(c, n)))
    BY <1>2, <1>3 DEF TurtleTerm, Predicate
  <2>3. t # Error /\ t.kind = "IRI"
    BY <2>1, <2>2, AddressWritten, NoErrors
  <2> QED
    BY <1>3, <2>3, KindsHold
<1>4. CASE kind # "IRI"
  <2>1. t = Literal(v, TypedKey(c, n))
    BY <1>2, <1>4 DEF TurtleTerm
  <2>2. t # Error
    BY <2>1, NoErrors
  <2>3. CASE kind \in {"integer", "bounded"}
    <3>1. t.kind = "typed" /\ t.value = <<"five">>
      BY <1>2, <2>1, <2>3 DEF Literal, ValueFor
    <3> QED
      BY <2>2, <2>3, <3>1, KindsHold
  <2>4. CASE kind = "in"
    <3>1. t.kind = "plain" /\ t.value = <<"word">>
      BY <1>2, <2>1, <2>4 DEF Literal, ValueFor
    <3> QED
      BY <2>2, <2>4, <3>1, KindsHold
  <2>5. CASE kind = "any"
    BY <2>2, <2>5, KindsHold
  <2> QED
    BY <1>1, <1>4, <2>3, <2>4, <2>5
<1> QED
  BY <1>3, <1>4

-----------------------------------------------------------------------------
TermOf(c, g, v) == TurtleTerm(c, KeyOf(c, g), v)

LEMMA DraftTriples ==
  ASSUME NEW c
  PROVE  Turtle(c, Draft(c)) = {<<PropertyIri(c, e[2]), TurtleTerm(c, e[2], e[3])>> : e \in Draft(c)}
<1>1. \A e \in Draft(c) : e[3] # Blank
  BY DEF Draft, Plain
<1>2. {e \in Draft(c) : ~(e[3] = Blank /\ ObjectKey(c, e[2]))} = Draft(c)
  BY <1>1
<1> QED
  BY <1>2 DEF Turtle, Predicate

\* Of a property the draft says what is given under its key, and nothing else.
LEMMA DraftUnder ==
  ASSUME Current, NEW c \in LiveClasses, Distinct(c), NEW h \in HeadsOf(c)
  PROVE  Under(Turtle(c, Draft(c)), Group(h)) = {TermOf(c, Group(h), v) : v \in Given(c, Group(h))}
<1> DEFINE g == Group(h)
<1>1. ASSUME NEW v \in Given(c, g)
      PROVE  TermOf(c, g, v) \in Under(Turtle(c, Draft(c)), g)
  <2>1. KeyOf(c, g) \in Names /\ PropertyIri(c, KeyOf(c, g)) \in g
    BY KeyIs
  <2>2. v \in Plain
    BY GivenArePlain
  <2>3. <<c, KeyOf(c, g), v>> \in Draft(c)
    BY <2>1, <2>2 DEF Draft
  <2>4. <<PropertyIri(c, KeyOf(c, g)), TermOf(c, g, v)>> \in Turtle(c, Draft(c))
    BY <2>3, DraftTriples DEF TermOf
  <2> QED
    BY <2>1, <2>4 DEF Under
<1>2. ASSUME NEW t \in Under(Turtle(c, Draft(c)), g)
      PROVE  \E v \in Given(c, g) : t = TermOf(c, g, v)
  <2>1. PICK x \in Turtle(c, Draft(c)) : x[1] \in g /\ t = x[2]
    BY DEF Under
  <2>2. PICK e \in Draft(c) : x = <<PropertyIri(c, e[2]), TurtleTerm(c, e[2], e[3])>>
    BY <2>1, DraftTriples
  <2>3. PICK k \in HeadsOf(c) : e[2] = KeyOf(c, Group(k)) /\ e[3] \in Given(c, Group(k))
    BY DEF Draft
  <2>4. x[1] \in Group(k)
    BY <2>2, <2>3, KeyIs
  <2>5. Group(k) = g
    BY <2>1, <2>4, HeadsAreProps, GroupsAgree
  <2> QED
    BY <2>1, <2>2, <2>3, <2>5 DEF TermOf
<1> QED
  BY <1>1, <1>2

LEMMA DraftWanted ==
  ASSUME Current, NEW c \in LiveClasses, Distinct(c), Agreed(c), NEW a \in Qualified(c)
  PROVE  \E t : Matching(Turtle(c, Draft(c)), a) = {t}
<1> DEFINE g == Group(a[3])
           given(v) == TermOf(c, g, v)
           m == Name(a[4])
           mine == <<"address", ClassNamed(c, g, m)>>
<1>1. a[3] \in HeadsOf(c) /\ a[3] \in Props /\ a[3] \in g
  BY HeadsAreProps, GroupIsClosed DEF HeadsOf
<1>2. a \in Wanted(c, g)
  BY <1>1 DEF Wanted
<1>3. Given(c, g) = {<<"address", ClassNamed(c, g, Name(b[4]))>> : b \in Wanted(c, g)}
  BY <1>2 DEF Given
<1>4. mine \in Given(c, g) /\ Name(mine[2]) = m
  BY <1>2, <1>3, NamedIs
<1>5. \A v \in Given(c, g) : Name(v[2]) = m => v = mine
  BY <1>3, NamedIs
<1>6. \A v \in Given(c, g) : Matches(given(v), a[4]) <=> Name(v[2]) = m
  BY <1>1, <1>2, WantedTerm DEF TermOf
<1>7. Matching(Turtle(c, Draft(c)), a) = {t \in {given(v) : v \in Given(c, g)} : Matches(t, a[4])}
  BY <1>1, DraftUnder DEF Matching
<1> HIDE DEF given, mine, m, g
<1>8. Matching(Turtle(c, Draft(c)), a) = {given(mine)}
  BY <1>4, <1>5, <1>6, <1>7
<1> QED
  BY <1>8

LEMMA DraftKinds ==
  ASSUME Current, NEW c \in LiveClasses, Distinct(c), Agreed(c), NEW p \in Placed(c),
         NEW t \in Under(Turtle(c, Draft(c)), Group(p))
  PROVE  KindHolds(ValueConstraint(p), t)
<1> DEFINE g == Group(p)
<1>1. p \in HeadsOf(c) /\ p \in Props /\ p \in g /\ p \in Carried(c) /\ c \in Classes
  BY HeadsAreProps, GroupIsClosed DEF HeadsOf
<1>2. PICK v \in Given(c, g) : t = TermOf(c, g, v)
  BY <1>1, DraftUnder
<1>3. t = TurtleTerm(c, KeyOf(c, g), v)
  BY <1>2 DEF TermOf
<1>4. CASE Wanted(c, g) # {}
  <2>1. PICK a \in Wanted(c, g) : TRUE
    BY <1>4
  <2>2. t.kind = "IRI"
    BY <1>1, <1>3, <2>1, WantedTerm
  <2>3. IsObject(p)
    BY <1>1, <2>1, WantedAre DEF Agreed
  <2> QED
    BY <1>1, <2>2, <2>3, KindIsRange, KindsHold
<1>5. CASE Wanted(c, g) = {}
  <2>1. PICK x \in Placed(c) : x \in g /\ v = ValueFor(x)
    BY <1>5 DEF Given
  <2>2. x = p
    BY <1>1, <2>1, HeadsAreProps, PlacedIsOneSpelling
  <2> QED
    BY <1>3, <2>1, <2>2, RequiredTerm
<1> QED
  BY <1>4, <1>5

LEMMA DraftComplete ==
  ASSUME Current, NEW c \in LiveClasses, Distinct(c), Agreed(c), NEW p \in Placed(c), Required(c, p)
  PROVE  Under(Turtle(c, Draft(c)), Group(p)) # {}
<1>1. p \in HeadsOf(c) /\ p \in Group(p)
  BY HeadsAreProps, GroupIsClosed DEF HeadsOf
<1>2. Given(c, Group(p)) # {}
  BY <1>1 DEF Given
<1> QED
  BY <1>1, <1>2, DraftUnder

LEMMA DraftHasNoError ==
  ASSUME Current, NEW c \in LiveClasses, Distinct(c), Agreed(c), NEW t \in Turtle(c, Draft(c))
  PROVE  t[2] # Error
<1>1. PICK e \in Draft(c) : t = <<PropertyIri(c, e[2]), TurtleTerm(c, e[2], e[3])>>
  BY DraftTriples
<1>2. PICK h \in HeadsOf(c) : e[2] = KeyOf(c, Group(h)) /\ e[3] \in Given(c, Group(h))
  BY DEF Draft
<1> DEFINE g == Group(h)
<1>3. CASE Wanted(c, g) # {}
  BY <1>1, <1>2, <1>3, WantedTerm
<1>4. CASE Wanted(c, g) = {}
  <2>1. PICK p \in Placed(c) : p \in g /\ e[3] = ValueFor(p)
    BY <1>2, <1>4 DEF Given
  <2>2. Group(p) = g
    BY <2>1, HeadsAreProps, GroupsAgree
  <2> QED
    BY <1>1, <1>2, <2>1, <2>2, RequiredTerm
<1> QED
  BY <1>3, <1>4

(* The draft passes the gate.                                                  *)
LEMMA DraftPasses ==
  ASSUME Current, NEW c \in LiveClasses, Distinct(c), Agreed(c)
  PROVE  Passes(c, Draft(c)) /\ Draft(c) \in SUBSET ({c} \X Names \X Plain)
<1>1. PICK triples : triples = Turtle(c, Draft(c))
  OBVIOUS
<1>2. \A a \in Qualified(c) : Cardinality(Matching(triples, a)) = 1 /\ Matching(triples, a) # {}
  <2> SUFFICES ASSUME NEW a \in Qualified(c)
               PROVE  Cardinality(Matching(triples, a)) = 1 /\ Matching(triples, a) # {}
    OBVIOUS
  <2>1. PICK t : Matching(triples, a) = {t}
    BY <1>1, DraftWanted
  <2> QED
    BY <2>1, FS_Singleton
<1>3. \A p \in Placed(c) :
        /\ \A t \in Under(triples, Group(p)) : KindHolds(ValueConstraint(p), t)
        /\ Required(c, p) => Under(triples, Group(p)) # {}
  BY <1>1, DraftKinds, DraftComplete
<1>4. \A b \in shapes[c] : BlockHolds(b, triples)
  BY <1>2, <1>3, BlocksAre
<1>5. \A t \in triples : t[2] # Error
  BY <1>1, DraftHasNoError
<1> QED
  BY <1>1, <1>4, <1>5 DEF Passes, Draft

LEMMA AuthorableThen == GateInv => Authorable
<1> SUFFICES ASSUME GateInv, built, NEW c \in LiveClasses, Distinct(c), Agreed(c)
             PROVE  \E doc \in SUBSET ({c} \X Names \X Plain) : Passes(c, doc)
  BY DEF Authorable
<1>1. Current
  BY DEF GateInv, Current
<1> QED
  BY <1>1, DraftPasses

(* Whatever is demanded of a class, some document of it passes the gate        *)
(* (Authorable): the keys parse_shape_file reads back reach every property     *)
(* that write_class_shape asks for.                                            *)
THEOREM DemandsCanBeMet == Spec => []Authorable
<1> QED
  BY GateInvInit, GateInvNext, AuthorableThen, PTL DEF Spec

-----------------------------------------------------------------------------
LEMMA GeneratedTyped ==
  ASSUME axioms \subseteq Menu, order \in Orders, NEW c \in LiveClasses, NEW b \in GenerateShapes[c]
  PROVE  ToSet(b.path) \subseteq Props /\ b.of \in Classes \cup {None}
<1>1. c \in Classes /\ Line(c) = Above(c)
  BY LineIsAbove DEF LiveClasses
<1>2. \/ \E p \in Placed(c) : b = PropertyShape(c, p)
      \/ \E a \in Qualified(c) : b = QualifiedShape(a)
  BY DEF GenerateShapes, ClassShape
<1>3. CASE \E p \in Placed(c) : b = PropertyShape(c, p)
  <2>1. PICK p \in Props : b = PropertyShape(c, p)
    BY <1>1, <1>3, PlacedIsOneSpelling, CandidatesAreCarried
  <2> QED
    BY <2>1, SpellingsAreGroup, GroupIsClosed DEF PropertyShape
<1>4. CASE \E a \in Qualified(c) : b = QualifiedShape(a)
  <2>1. PICK a \in Qualified(c) : b = QualifiedShape(a)
    BY <1>4
  <2>2. a \in Menu /\ a[1] \in {"minOf", "exactlyOf"}
    BY <2>1 DEF Qualified
  <2>3. a \in {a[1]} \X Classes \X Props \X Classes
    BY <2>2, WellFormed DEF Props
  <2>4. a[3] \in Props /\ a[4] \in Classes
    BY <2>3
  <2> QED
    BY <2>1, <2>4, SpellingsAreGroup, GroupIsClosed DEF QualifiedShape
<1> QED
  BY <1>2, <1>3, <1>4

(* The shapes are those of the domain kit's classes in use, over known         *)
(* properties and classes (TypeOK).                                            *)
THEOREM GateTyped == Spec => []TypeOK
<1>1. Init => TypeOK
  <2> SUFFICES ASSUME Init PROVE TypeOK
    OBVIOUS
  <2>1. axioms \subseteq Menu /\ order \in Orders /\ shapes = GenerateShapes
    BY GateConstants DEF Init
  <2> QED
    BY <2>1, GeneratedTyped DEF TypeOK, GenerateShapes
<1>2. TypeOK /\ [Next]_vars => TypeOK'
  <2> SUFFICES ASSUME TypeOK, [Next]_vars PROVE TypeOK'
    OBVIOUS
  <2>1. CASE MirrorOntology
    BY <2>1 DEF TypeOK, MirrorOntology
  <2>2. CASE BuildShapes
    <3>1. shapes' = GenerateShapes /\ axioms' = axioms /\ order' = order /\ LiveClasses' = LiveClasses
      BY <2>2 DEF BuildShapes, LiveClasses
    <3>2. DOMAIN shapes' = LiveClasses
      BY <3>1 DEF GenerateShapes
    <3>3. \A c \in LiveClasses : \A b \in shapes'[c] :
            ToSet(b.path) \subseteq Props /\ b.of \in Classes \cup {None}
      BY <3>1, GeneratedTyped DEF TypeOK
    <3> QED
      BY <3>1, <3>2, <3>3 DEF TypeOK
  <2>3. CASE UNCHANGED vars
    BY <2>3 DEF TypeOK, vars, LiveClasses
  <2> QED
    BY <2>1, <2>2, <2>3 DEF Next
<1> QED
  BY <1>1, <1>2, PTL DEF Spec
=============================================================================
