------------------------------ MODULE Merging ------------------------------
(***************************************************************************)
(* What a call of Player::CollideSelf promises to the rest of the game,    *)
(* whatever its two loops do: the cells of the player leave one by one,    *)
(* each that was eaten with a removal event, and a merge leaves a cell     *)
(* that can collide.  A cell may be mislaid, and then nobody hears of it;  *)
(* but only where something was eaten, and by a player of four and more.   *)
(* ViewSync!CollideSelf takes any number of these steps at once.           *)
(***************************************************************************)
EXTENDS Integers, FiniteSets

VARIABLES
  mine,       \* the cells in Player::Cells
  told,       \* those that left with a CELL_REMOVE_DYNAMIC event
  lost,       \* those that left without one
  ready       \* those that are past their CombineTime

vars == <<mine, told, lost, ready>>

Balls == mine \cup told \cup lost

Init ==
  /\ IsFiniteSet(mine) /\ ready \subseteq mine
  /\ told = {} /\ lost = {}

Leaves(c) ==
  /\ c \in mine
  /\ mine' = mine \ {c} /\ mine' \cap ready # {}
  /\ UNCHANGED ready

Eaten(c) ==
  /\ Leaves(c) /\ c \in ready
  /\ told' = told \cup {c} /\ UNCHANGED lost

Mislaid(c) ==
  /\ Leaves(c)
  /\ told # {} /\ Cardinality(Balls) >= 4
  /\ lost' = lost \cup {c} /\ UNCHANGED told

Next == \E c \in mine : Eaten(c) \/ Mislaid(c)

Spec == Init /\ [][Next]_vars
=============================================================================
