-------------------------------- MODULE Gate --------------------------------
(* The save gate's judgement (shacl.rs, ontology.rs, extraction.rs:294-691,    *)
(* save.rs:459-547) beside what sync makes of the same document                *)
(* (nquad.rs:1473-1768). A kit update turns the installed ontologies into the  *)
(* domain kit's shapes; tables read back from the shapes say under which       *)
(* property and as which kind of term each frontmatter key is written, for the *)
(* gate's one-document graph and for the triples sync puts in the store.       *)
EXTENDS Naturals, FiniteSets, SequencesExt

CONSTANTS
  Classes,    \* class IRIs, <<kit, local name>>
  Properties, \* property IRIs, a sequence in the order of their text
  DomainKit,  \* the kit whose documents the gate judges
  Thing,      \* git-lex:Thing
  Integer, Bounded, Enumerated, \* ranges of datatype properties, as IRIs
  Values,     \* what a key can hold: <<"word">>, <<"five">>, <<"six">>, the
              \* addresses <<"address", class>>, written <kit/Class/id>, a list
              \* item without text <<"blank">> and a <<"wikilink">>
  None,
  Installed,  \* the axioms of the ontologies first installed
  Menu,       \* the axioms a new version of a kit may add or drop
  Orders,     \* orders in which the store may return classes
  MaxChanges, \* bound on the changes of the ontologies
  MaxValues   \* bound on the values of a document

(* An axiom is <<"domain", p, c>>, <<"range", p, r>>, <<"object", p>>,          *)
(* <<"same", p, q>> (owl:equivalentProperty), <<"sub", c, d>>,                 *)
(* <<"deprecated", x>>, a restriction <<"min", c, p>> (owl:minCardinality 1),  *)
(* <<"two", c, p>> (owl:minCardinality 2) or <<"one", c, p>> (owl:cardinality  *)
(* 1), or one on the values of class k: <<"minOf", c, p, k>> (at least one) or *)
(* <<"exactlyOf", c, p, k>> (one).                                             *)
(* Every property is declared by its kit; one without a domain is open to any  *)
(* class, and one that is no object property is a datatype property.           *)
Counts == {"min", "two", "one"}
Blank == <<"blank">>
Wikilink == <<"wikilink">>
ASSUME GateConstants ==
  /\ IsFiniteSet(Classes) /\ Thing \in Classes /\ None \notin Classes
  /\ Properties \in Seq(ToSet(Properties)) /\ IsInjective(Properties)
  /\ Integer # Bounded /\ Integer # Enumerated /\ Bounded # Enumerated
  /\ None \notin {Integer, Bounded, Enumerated}
  /\ {<<"word">>, <<"five">>} \subseteq Values
  /\ \E v \in Values : v[1] = "address"
  /\ \A v \in Values : v[1] = "address" => v \in {"address"} \X Classes
  /\ Installed \subseteq Menu
  /\ \A order \in Orders : order \in Seq(Classes) /\ IsInjective(order) /\ ToSet(order) = Classes
  /\ MaxChanges \in Nat /\ MaxValues \in Nat

(* Axioms have their form: a property has one range at most, and what can be   *)
(* demanded are values of a known property, of a known class whose things have *)
(* addresses.                                                                  *)
ASSUME WellFormed ==
  /\ \A a, b \in Menu : a[1] = "range" /\ b[1] = "range" /\ a[2] = b[2] => a = b
  /\ \A a \in Menu :
       /\ a[1] = "range" => a[3] # None
       /\ a[1] \in Counts => a \in {a[1]} \X Classes \X ToSet(Properties)
       /\ a[1] \in {"minOf", "exactlyOf"} =>
            /\ a \in {a[1]} \X Classes \X ToSet(Properties) \X Classes
            /\ <<"address", a[4]>> \in Values

VARIABLES
  axioms,  \* what the installed ontologies say
  order,   \* the order in which the store returns a class's parents
  shapes,  \* class of the domain kit -> its shape: a set of property blocks
  built    \* whether the shapes were built since the ontologies last changed

vars == <<axioms, order, shapes, built>>

Props == ToSet(Properties)
Name(iri) == iri[2]
Names == {Name(p) : p \in Props}
-----------------------------------------------------------------------------
(* Reading the ontologies.                                                     *)
\* The members of a set in the order of a sequence.
Among(seq, S) ==
  LET kept[i \in 0..Len(seq)] ==
        IF i = 0 THEN <<>>
        ELSE IF seq[i] \in S THEN Append(kept[i - 1], seq[i]) ELSE kept[i - 1]
  IN kept[Len(seq)]

Pop(walk) ==
  IF walk.stack = <<>> THEN walk
  ELSE LET found == Among(order, {d \in Classes : <<"sub", Last(walk.stack), d>> \in axioms}
                                   \ walk.seen)
       IN [stack |-> Front(walk.stack) \o found, out |-> walk.out \o found,
           seen |-> walk.seen \cup ToSet(found)]
\* As a mutant would: a class inherits from its direct parents alone.
ParentsOnly(c) == Among(order, {d \in Classes : <<"sub", c, d>> \in axioms})
Chain(c) ==
  LET walk[i \in 0..Cardinality(Classes)] ==
        IF i = 0 THEN [stack |-> <<c>>, out |-> <<>>, seen |-> {c}] ELSE Pop(walk[i - 1])
  IN walk[Cardinality(Classes)].out

LiveClasses == {c \in Classes : c[1] = DomainKit /\ <<"deprecated", c>> \notin axioms}
DomainOf(p) == {c \in Classes : <<"domain", p, c>> \in axioms}
Listed(p) == DomainOf(p) # {} /\ <<"deprecated", p>> \notin axioms
IsObject(p) == <<"object", p>> \in axioms
RangeOf(p) ==
  IF \E a \in axioms : a[1] = "range" /\ a[2] = p
  THEN (CHOOSE a \in axioms : a[1] = "range" /\ a[2] = p)[3] ELSE None

Bridged(p, q) == <<"same", p, q>> \in axioms \/ <<"same", q, p>> \in axioms
Spread(seen) == seen \cup {q \in Props : \E r \in seen : Bridged(r, q)}
Equivalents(p) ==
  LET seen[i \in 0..Cardinality(Props)] == IF i = 0 THEN {p} ELSE Spread(seen[i - 1])
  IN seen[Cardinality(Props)]
Spellings(p) == <<p>> \o Among(Properties, Equivalents(p) \ {p})

(* The properties a class's shape lists: its own, then its ancestors', each    *)
(* class's in the order of their text, and of the spellings of a property the  *)
(* first that comes.                                                           *)
Line(c) == {c} \cup ToSet(Chain(c))
Candidates(c) == {p \in Props : Listed(p) /\ DomainOf(p) \cap Line(c) # {}}
Distance(c, p) ==
  LET line == <<c>> \o Chain(c)
  IN CHOOSE i \in DOMAIN line :
       line[i] \in DomainOf(p) /\ \A j \in 1..(i - 1) : line[j] \notin DomainOf(p)
Rank(p) == CHOOSE i \in DOMAIN Properties : Properties[i] = p
ComesFirst(c, p, q) ==
  \/ Distance(c, p) < Distance(c, q)
  \/ Distance(c, p) = Distance(c, q) /\ Rank(p) <= Rank(q)
Placed(c) ==
  {p \in Candidates(c) : \A q \in Candidates(c) \cap Equivalents(p) : ComesFirst(c, p, q)}
-----------------------------------------------------------------------------
(* Writing the shapes.                                                         *)
DeclaredRange(p) ==
  LET ranged == Among(Spellings(p), {q \in Props : Listed(q) /\ RangeOf(q) # None})
  IN IF ranged = <<>> THEN None ELSE RangeOf(ranged[1])
ValueConstraint(p) ==
  IF \E q \in Equivalents(p) : Listed(q) /\ IsObject(q) THEN "IRI"
  ELSE CASE DeclaredRange(p) = Enumerated -> "in"
         [] DeclaredRange(p) = Bounded -> "bounded"
         [] DeclaredRange(p) = Integer -> "integer"
         [] OTHER -> "any"
\* Whatever number a restriction names, the shape has sh:minCount 1.
Required(c, p) ==
  \E a \in Line(c), q \in Equivalents(p), number \in Counts : <<number, a, q>> \in axioms
Qualified(c) == {a \in axioms : a[1] \in {"minOf", "exactlyOf"} /\ a[2] \in Line(c)}
PropertyShape(c, p) ==
  [path |-> Spellings(p), kind |-> ValueConstraint(p), required |-> Required(c, p),
   of |-> None, exact |-> FALSE]
QualifiedShape(a) ==
  [path |-> Spellings(a[3]), kind |-> "any", required |-> FALSE,
   of |-> a[4], exact |-> a[1] = "exactlyOf"]
ClassShape(c) ==
  {PropertyShape(c, p) : p \in Placed(c)} \cup {QualifiedShape(a) : a \in Qualified(c)}
GenerateShapes == [c \in LiveClasses |-> ClassShape(c)]
-----------------------------------------------------------------------------
(* Reading the shapes back. A key kit.Class.name is looked up by class and     *)
(* name; the head of a block's path is the property it stands for, and of two  *)
(* blocks under one name the later in the order of their paths wins.           *)
Heads(c, n) == {b.path[1] : b \in {s \in shapes[c] : Name(s.path[1]) = n}}
PropertyIri(c, n) ==
  IF Heads(c, n) = {} THEN <<DomainKit, n>>
  ELSE Last(Among(Properties, Heads(c, n)))
ObjectKey(c, n) == \E b \in shapes[c] : Name(b.path[1]) = n /\ b.kind = "IRI"
TypedKey(c, n) ==
  \E b \in shapes[c] : Name(b.path[1]) = n /\ b.kind \in {"integer", "bounded"}
ReferenceRange(p) == IF IsObject(p) /\ RangeOf(p) # Integer THEN RangeOf(p) ELSE None
Open(n) == <<DomainKit, n>> \in Props /\ DomainOf(<<DomainKit, n>>) = {}

(* Terms: a reference to a thing of a class, a literal with or without a       *)
(* datatype. Error stands for a value no term is made of.                      *)
Error == [kind |-> "error", value |-> None, of |-> None]
Literal(v, typed) == [kind |-> IF typed THEN "typed" ELSE "plain", value |-> v, of |-> None]
Reference(v, c) == [kind |-> "IRI", value |-> v, of |-> c]

\* A range of Thing takes an address and nothing else; so does a property
\* without a range, of the values here (it would take paths and URLs as well);
\* any other range makes an identifier of whatever is written.
AddressOf(v) == IF v[1] = "address" THEN Reference(v, v[2]) ELSE Error
Resolved(v) == AddressOf(v)

(* The gate's Turtle for the value v of the key with name n.                   *)
\* As a mutant would: the key's own kit is where the property is declared.
Glued(c, n) == <<DomainKit, n>>
Predicate(c, n) == PropertyIri(c, n)
TurtleReference(v, range) ==
  CASE range = Thing -> AddressOf(v)
    [] range = None -> Resolved(v)
    [] OTHER -> Reference(v, range)
TurtleTerm(c, n, v) ==
  IF ObjectKey(c, n) THEN TurtleReference(v, ReferenceRange(Predicate(c, n)))
  ELSE Literal(v, TypedKey(c, n))

(* Sync's quads for it: a domain-open property of the key's kit is a reference *)
(* or typed whatever the shapes say.                                           *)
OpenObject(n) == Open(n) /\ IsObject(<<DomainKit, n>>)
OpenTyped(n) == Open(n) /\ RangeOf(<<DomainKit, n>>) = Integer
QuadReference(v, range) ==
  CASE range = Thing -> AddressOf(v)
    [] range = None -> Resolved(v)
    [] OTHER -> Reference(v, range)
QuadTerm(c, n, v) ==
  IF v = Wikilink THEN Error
  ELSE IF ObjectKey(c, n) \/ OpenObject(n)
  THEN QuadReference(v, ReferenceRange(PropertyIri(c, n)))
  ELSE Literal(v, TypedKey(c, n) \/ OpenTyped(n))

(* A document is a set of entries <<class, name, value>>, one for each value   *)
(* under the key kit.Class.name (a list has several); its class is that of its *)
(* first key. The gate reads every key as one of that class, sync as one of    *)
(* the class it names. A blank item of a list is no reference to the gate, and *)
(* nothing at all to sync. Subjects and the triples of types are left out.     *)
Turtle(c, doc) ==
  {<<Predicate(c, e[2]), TurtleTerm(c, e[2], e[3])>> :
     e \in {e \in doc : ~(e[3] = Blank /\ ObjectKey(c, e[2]))}}
Quads(doc) ==
  {<<PropertyIri(e[1], e[2]), QuadTerm(e[1], e[2], e[3])>> : e \in {e \in doc : e[3] # Blank}}

(* SHACL's constraints on the values of a path; sh:pattern finds "/Class/" in  *)
(* an IRI that derives from the class, and in any text that spells it.         *)
KindHolds(kind, t) ==
  CASE kind = "IRI" -> t.kind = "IRI"
    [] kind = "in" -> t.kind = "plain" /\ t.value = <<"word">>
    [] kind = "integer" -> t.kind = "typed" /\ t.value \in {<<"five">>, <<"six">>}
    [] kind = "bounded" -> t.kind = "typed" /\ t.value = <<"five">>
    [] kind = "any" -> TRUE
Matches(t, k) ==
  \/ t.kind = "IRI" /\ Name(t.of) = Name(k)
  \/ t.value[1] = "address" /\ Name(t.value[2]) = Name(k)
BlockHolds(b, triples) ==
  LET terms == {t[2] : t \in {t \in triples : t[1] \in ToSet(b.path)}}
      matching == {t \in terms : b.of # None /\ Matches(t, b.of)}
  IN /\ \A t \in terms : KindHolds(b.kind, t)
     /\ b.required => terms # {}
     /\ b.of # None => IF b.exact THEN Cardinality(matching) = 1 ELSE matching # {}
Passes(c, doc) ==
  LET triples == Turtle(c, doc)
  IN /\ \A t \in triples : t[2] # Error
     /\ \A b \in shapes[c] : BlockHolds(b, triples)
-----------------------------------------------------------------------------
Init ==
  /\ axioms = Installed
  /\ order \in Orders
  /\ shapes = GenerateShapes
  /\ built = TRUE

(* `git lex kit-update` after a kit's owner added or dropped an axiom: the     *)
(* ontology is mirrored, then the shapes are built from it.                    *)
MirrorOntology ==
  /\ built
  /\ \E a \in Menu : axioms' = IF a \in axioms THEN axioms \ {a} ELSE axioms \cup {a}
  /\ Cardinality((axioms' \ Installed) \cup (Installed \ axioms')) <= MaxChanges
  /\ built' = FALSE
  /\ UNCHANGED <<order, shapes>>

BuildShapes ==
  /\ ~built
  /\ shapes' = GenerateShapes
  /\ built' = TRUE
  /\ UNCHANGED <<axioms, order>>

Next == MirrorOntology \/ BuildShapes
Spec == Init /\ [][Next]_vars
-----------------------------------------------------------------------------
(* What the ontologies ask of a document, said without the shapes: the classes *)
(* above a class and the spellings of a property are least sets closed under   *)
(* their axioms.                                                               *)
Above(c) ==
  {a \in Classes : \A S \in SUBSET Classes :
     c \in S /\ (\A x \in S, y \in Classes : <<"sub", x, y>> \in axioms => y \in S) => a \in S}
Group(p) ==
  {q \in Props : \A S \in SUBSET Props :
     p \in S /\ (\A x \in S, y \in Props : Bridged(x, y) => y \in S) => q \in S}
Carried(c) == {p \in Props : Listed(p) /\ DomainOf(p) \cap Above(c) # {}}
RangesOf(p) == {RangeOf(q) : q \in Group(p)} \ {None}
Demands(c) == {a \in axioms : a[1] \in Counts \cup {"minOf", "exactlyOf"} /\ a[2] \in Above(c)}
(* The same for a class as one record: the properties with what their values   *)
(* may be, and what is demanded of them.                                       *)
Asks(c) ==
  [carried |-> {[group |-> Group(p), ranges |-> RangesOf(p),
                 object |-> \E q \in Group(p) : IsObject(q)] : p \in Carried(c)},
   demands |-> {[kind |-> a[1], group |-> Group(a[3]),
                 of |-> IF a[1] \in Counts THEN None ELSE a[4]] : a \in Demands(c)}]
RangeMet(p, t) ==
  IF p.object THEN t.kind = "IRI"
  ELSE \A r \in p.ranges :
         CASE r = Enumerated -> t.kind = "plain" /\ t.value = <<"word">>
           [] r = Integer -> t.kind = "typed" /\ t.value \in {<<"five">>, <<"six">>}
           [] r = Bounded -> t.kind = "typed" /\ t.value = <<"five">>
           [] OTHER -> TRUE
DemandMet(d, triples) ==
  LET given == {t[2] : t \in {t \in triples : t[1] \in d.group}}
      ofClass == {t \in given : t.of = d.of}
  IN CASE d.kind = "min" -> given # {}
       [] d.kind = "two" -> Cardinality(given) >= 2
       [] d.kind = "one" -> Cardinality(given) = 1
       [] d.kind = "minOf" -> ofClass # {}
       [] d.kind = "exactlyOf" -> Cardinality(ofClass) = 1
Satisfies(asks, triples) ==
  /\ \A p \in asks.carried, t \in triples : t[1] \in p.group => RangeMet(p, t[2])
  /\ \A d \in asks.demands : DemandMet(d, triples)

(* An ontology in order, as seen from a class: what is demanded of the class   *)
(* is placed on it, the spellings of a property agree on what its values are,  *)
(* and no other class has the local name of one that values are demanded of.   *)
(* Distinct, that two properties of the class share no local name unless they  *)
(* are spellings of one, matters to who writes a document and not to the gate. *)
Distinct(c) ==
  \A p, q \in Carried(c) \cup {a[3] : a \in Demands(c)} :
    Name(p) = Name(q) => q \in Group(p)
Demandable(c) == \A a \in Demands(c) : Group(a[3]) \cap Carried(c) # {}
Agreed(c) ==
  \A p \in Carried(c) :
    /\ \A r, s \in RangesOf(p) : r = s
    /\ \A q, r \in Group(p) : IsObject(q) = IsObject(r) /\ Listed(q) = Listed(r)
    /\ \A a \in Demands(c) :
         a[1] \notin Counts /\ a[3] \in Group(p) => IsObject(p) /\ RangesOf(p) \subseteq {Thing, a[4]}
Unmistaken(c) ==
  \A a \in Demands(c), k \in Classes : a[1] \notin Counts /\ Name(k) = Name(a[4]) => k = a[4]
InOrder(c) == Demandable(c) /\ Agreed(c) /\ Unmistaken(c)
\* Of any value at all, no more is demanded than that there is one.
OneWillDo(c) == \A a \in Demands(c) : a[1] \notin {"two", "one"}

(* Documents of a few entries; those of one class, under keys of declared      *)
(* domain, with values sync makes a term of or refuses as the gate does.       *)
Documents(entries) == {{}} \cup {ToSet(s) : s \in [1..MaxValues -> entries]}
Plain == Values \ {Blank, Wikilink}
PlainEntries(c) == {c} \X {n \in Names : ~Open(n)} \X Plain
Stored(asks, quads) == Satisfies(asks, quads) /\ \A t \in quads : t[2] # Error
-----------------------------------------------------------------------------
(* TypeOK: the shapes are those of the domain kit's classes in use.            *)
TypeOK ==
  /\ axioms \subseteq Menu /\ order \in Orders
  /\ built => DOMAIN shapes = LiveClasses
  /\ \A c \in DOMAIN shapes : \A b \in shapes[c] :
       ToSet(b.path) \subseteq Props /\ b.of \in Classes \cup {None}

(* GateAgrees: where the ontology is in order, no document is refused that     *)
(* sync makes terms of and whose triples satisfy what the ontologies ask of    *)
(* its class, inheritance, bridged spellings, other kits' restrictions and     *)
(* counts included, in whatever order the store returns them; and none passes  *)
(* that is not such a document, if one value is as good as several where any   *)
(* are demanded. What the gate does beyond plain entries is stated below.      *)
GateAgrees ==
  built => \A c \in LiveClasses : InOrder(c) =>
    LET asks == Asks(c)
    IN \A doc \in Documents(PlainEntries(c)) :
         /\ Stored(asks, Quads(doc)) => Passes(c, doc)
         /\ OneWillDo(c) /\ Passes(c, doc) => Stored(asks, Quads(doc))

(* Authorable: whatever the ontologies require, some document an author can    *)
(* write passes the gate (the release incident of extraction.rs:277-283: a     *)
(* required property of another kit, and no key to write it under).            *)
Authorable ==
  built => \A c \in LiveClasses : Distinct(c) /\ Agreed(c) =>
    \E doc \in SUBSET ({c} \X Names \X Plain) : Passes(c, doc)

(* What the comments say beyond that; the code does not hold to it.            *)
(* extraction.rs:441: "so validate judges the exact triples sync will emit".   *)
JudgesWhatSyncEmits ==
  built => \A c \in LiveClasses :
    \A doc \in Documents({c} \X Names \X Plain) : Turtle(c, doc) = Quads(doc)
(* The same of documents with keys of several classes, none domain-open.       *)
JudgesEachClass ==
  built => \A c \in LiveClasses :
    \A doc \in Documents(UNION {PlainEntries(d) : d \in LiveClasses}) :
      (\E e \in doc : e[1] = c) => Turtle(c, doc) = Quads(doc)
(* extraction.rs:442-445: a value that "PASSED validation and then errored at  *)
(* save time" was the finding two resolution policies had led to.              *)
NothingErrsLater ==
  built => \A c \in LiveClasses :
    \A doc \in Documents({c} \X {n \in Names : ~Open(n)} \X Values) :
      Passes(c, doc) => \A t \in Quads(doc) : t[2] # Error
(* extraction.rs:772: "Empty is absent: a blank value must not satisfy         *)
(* sh:minCount."                                                               *)
BlankIsAbsent ==
  built => \A c \in LiveClasses : \A doc \in Documents({c} \X Names \X Values) :
    Passes(c, doc) => Passes(c, {e \in doc : e[3] # Blank})
(* shacl.rs:577-578, 778: a restriction asks for "exactly one subtexture:id on *)
(* every Thing", and on a class under whatever spelling it has.                *)
CountsWhatIsAsked ==
  built => \A c \in LiveClasses : InOrder(c) =>
    \A doc \in Documents(PlainEntries(c)) : Passes(c, doc) => Stored(Asks(c), Quads(doc))
(* ontology.rs:384-386: "same-named properties in different kits/classes can   *)
(* never collide".                                                             *)
NeverCollides ==
  built => \A c \in LiveClasses : Agreed(c) =>
    \E doc \in SUBSET ({c} \X Names \X Plain) : Passes(c, doc)
(* shacl.rs:754-756: the class read out of the path of an IRI is "sound only   *)
(* because instance IRIs are <namespace/Class/id>" - but the pattern does not  *)
(* name the namespace.                                                         *)
ReadsTheClass ==
  built => \A c \in LiveClasses : Demandable(c) /\ Agreed(c) /\ OneWillDo(c) =>
    \A doc \in Documents(PlainEntries(c)) : Passes(c, doc) => Satisfies(Asks(c), Quads(doc))
=============================================================================
