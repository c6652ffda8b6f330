------------------------------- MODULE MCMass -------------------------------
(***************************************************************************)
(* Two players among food and two viruses, with small weights.  A new      *)
(* cell that eats a virus gives all it has to a small ball, which can eat  *)
(* the other one and be left with nothing as well; a bigger one is halved  *)
(* first, and one whose player has no room keeps what it ate.              *)
(***************************************************************************)
EXTENDS Mass

Symmetry == Permutations(Players)
=============================================================================
