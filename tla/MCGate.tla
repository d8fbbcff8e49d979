------------------------------- MODULE MCGate -------------------------------
(* An instance of Gate for TLC: the base kit's Thing, the domain kit's Note    *)
(* and Memory, a Place of another kit, and four properties, two with the same  *)
(* local name.                                                                 *)
EXTENDS Gate

ThingC == <<"git-lex", "Thing">>
Note == <<"soul", "Note">>
Memory == <<"soul", "Memory">>
Place == <<"copia", "Place">>
id == <<"git-lex", "id">>
place == <<"git-lex", "place">>
ownId == <<"soul", "id">>
label == <<"soul", "label">>

AllClasses == {ThingC, Note, Memory, Place}
InTextOrder == <<id, place, ownId, label>>
Whole == <<"xsd", "integer">>
OneToFive == <<"soul", "Score">>
Moods == <<"soul", "Mood">>
AllValues == {<<"word">>, <<"five">>, <<"six">>, <<"address", Place>>, <<"address", Note>>,
              Blank, Wikilink}

Kits == {<<"sub", Note, Memory>>, <<"sub", Memory, ThingC>>, <<"domain", id, ThingC>>,
         <<"domain", place, ThingC>>, <<"object", place>>, <<"domain", label, Memory>>,
         <<"min", ThingC, id>>, <<"domain", ownId, Note>>, <<"same", ownId, id>>}
Changes == {<<"sub", Note, ThingC>>, <<"sub", Memory, Note>>, <<"same", id, label>>,
            <<"object", ownId>>,
            <<"range", place, Place>>, <<"range", label, Moods>>, <<"range", id, OneToFive>>,
            <<"range", ownId, Whole>>, <<"min", Memory, label>>, <<"two", Memory, place>>,
            <<"one", ThingC, id>>, <<"minOf", ThingC, place, Place>>,
            <<"exactlyOf", Memory, place, Place>>, <<"minOf", Memory, place, Note>>,
            <<"deprecated", ownId>>, <<"deprecated", Memory>>}
AllAxioms == Kits \cup Changes
TwoOrders == {<<ThingC, Note, Memory, Place>>, <<Place, Memory, Note, ThingC>>}

(* The same with a class of the name Place in the domain kit too.              *)
OwnPlace == <<"soul", "Place">>
TwoPlaces == AllClasses \cup {OwnPlace}
EitherPlace == AllValues \cup {<<"address", OwnPlace>>}
OneOrder == {<<ThingC, Note, Memory, Place, OwnPlace>>}
=============================================================================
