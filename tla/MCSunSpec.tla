----------------------------- MODULE MCSunSpec ------------------------------
(***************************************************************************)
(* A small SunSpec device: two ids, one of them with a length group, models *)
(* that repeat, that do not fit their class, that move and that disappear,  *)
(* a map without the marker and one of MaxModels models.                    *)
(***************************************************************************)
EXTENDS SunSpec

Common == 1
Curve == 2

Model(id, length) == [id |-> id, length |-> length]
Map(chain) == [marker |-> TRUE, models |-> chain]
ManyMaps ==
  {Map(<<Model(Common, 1), Model(Curve, 3)>>),
   Map(<<Model(Curve, 3), Model(Common, 1)>>),
   Map(<<Model(Common, 1), Model(Curve, 5)>>),
   Map(<<Model(Curve, 2), Model(Curve, 1)>>),
   Map(<<Model(Common, 1), Model(Common, 1), Model(Curve, 0)>>),
   Map(<<Model(Curve, 0), Model(Common, 1)>>),
   Map(<<Model(Curve, 18)>>),
   [marker |-> FALSE, models |-> <<>>]}
FixedOf(id) == IF id = Curve THEN 3 ELSE 6
StrideOf(id) == IF id = Curve THEN 2 ELSE 0
Preferences == {<<Curve, Common>>, <<Common>>}
=============================================================================
