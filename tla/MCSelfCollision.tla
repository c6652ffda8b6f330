-------------------------- MODULE MCSelfCollision --------------------------
(***************************************************************************)
(* Calls of CollideSelf on a few cells of two sizes: equal ones take the   *)
(* branch that steps myLoop back, a bigger first one the other.            *)
(***************************************************************************)
EXTENDS SelfCollision

UpToFive == 1 .. 5
JustFour == {4}
MixedSizes == {1, 2}
=============================================================================
