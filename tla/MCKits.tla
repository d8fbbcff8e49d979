------------------------------- MODULE MCKits -------------------------------
(* Instances of Kits for TLC: a base kit, the domain kit, which in its second  *)
(* version renames its hook and retires a class, and an optional kit with the  *)
(* same folder base, whose second version does not parse and is not optional.  *)
EXTENDS Kits

CONSTANTS base, soul, copia, recall, remember, moment, era, scene, journal, own

Order3 == <<base, soul, copia>>
LastOf == [k \in {base, soul, copia} |-> CASE k = base -> 1 [] k = soul -> 2 [] k = copia -> 2]
ShipHooks == [k \in {base, soul, copia} |->
  CASE k = base -> <<{}>> [] k = soul -> <<{recall}, {remember}>> [] k = copia -> <<{moment}, {moment}>>]
ShipClasses == [k \in {base, soul, copia} |->
  CASE k = base -> <<{}>> [] k = soul -> <<{era}, {}>> [] k = copia -> <<{scene}, {scene}>>]
ShipSkills == [k \in {base, soul, copia} |->
  CASE k = base -> <<{}>> [] k = soul -> <<{}, {}>> [] k = copia -> <<{journal}, {journal}>>]
Homes == [c \in {era, scene} |-> "Soul"]
Bases == [k \in {base, soul, copia} |-> IF k = base THEN None ELSE "Soul"]
Unparsable == {<<copia, 2>>}
NotOptional == {<<copia, 2>>}
=============================================================================
