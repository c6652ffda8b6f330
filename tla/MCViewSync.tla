----------------------------- MODULE MCViewSync -----------------------------
(***************************************************************************)
(* Small worlds for ViewSync.  All places lie on the row y = 0, so a view  *)
(* is an interval of blocks; a block is two units wide.                    *)
(***************************************************************************)
EXTENDS ViewSync, TLC

Spot(x) == <<x, 0>>
Row(a, b) == [tl |-> <<a, 0>>, br |-> <<b, 0>>]

\* A cell in each block, one of them on the border, one outside the map, and one
\* with a coordinate that is not a number.
TwoPlaces   == {Spot(1), Spot(2)}
EdgePlaces  == {Spot(1), Spot(2), Spot(-2)}
NaNPlaces   == {Spot(0), Spot(2), <<NaN, 0>>}
OnePlace    == {Spot(0)}
BothViews   == {Row(0, 0), Row(0, 1)}
AllViews    == {Row(0, 0), Row(0, 1), Row(1, 1)}
LeftView    == {Row(0, 0)}

Symmetry == Permutations(Spare)
=============================================================================
