------------------------------ MODULE Vectors ------------------------------
(***************************************************************************)
(* What the loops over a std::vector share: they visit the chosen places   *)
(* of it in ascending order.                                               *)
(***************************************************************************)
EXTENDS Integers, SequencesExt

\* The one order in which a loop visits the places S.
Ascending(S) ==
  {o \in [1 .. Cardinality(S) -> S] : \A j, k \in DOMAIN o : j < k => o[j] < o[k]}
InOrder(S) == CHOOSE o \in Ascending(S) : TRUE
=============================================================================
