--------------------------- MODULE SelfCollision ---------------------------
(***************************************************************************)
(* Player::CollideSelf, statement by statement: the double loop that       *)
(* merges the cells of one player, while it erases from the vector both    *)
(* of its indices point into.  One behaviour is one call.                  *)
(*                                                                         *)
(* A cell is the number it had in the vector when the call began.  Pushing *)
(* cells apart changes only positions; they decide whether Collide says    *)
(* OVERLAP, which is a choice at each comparison.  Whether a cell is ready *)
(* to combine (CombineTime) does not change during the call.               *)
(***************************************************************************)
EXTENDS Integers, SequencesExt

CONSTANTS
  Counts,     \* how many cells the player may have
  Sizes       \* sizes they may have; the radius grows with the size

ASSUME CollisionAssumption ==
  /\ Counts \subseteq Nat
  /\ Sizes \subseteq Nat \ {0}

VARIABLES
  pc,         \* "outer", "inner", "done", or "crashed"
  Cells,      \* Player::Cells
  Size,       \* [cell -> Size()]
  ready,      \* the cells whose CombineTime is past
  myLoop, loop,
  cell,       \* the local variable: Cells[myLoop] when the inner loop began
  eaten,      \* CELL_REMOVE_DYNAMIC events of the call, in order
  eater,      \* history: the cell that ate last, 0 before
  total,      \* history: Size of all the cells when the call began
  apart,      \* history: two cells that were ready did not overlap
  misled      \* history: a cell that had been eaten ate, or was eaten again

history == <<eater, total, apart, misled>>
vars == <<pc, Cells, Size, ready, myLoop, loop, cell, eaten, history>>

Ball == DOMAIN Size
At(i) == Cells[i + 1]                       \* vectors count from zero
Erase(i) == RemoveAt(Cells, i + 1)
Mass(S, of) == SumFunctionOnSet(of, S)

Init ==
  /\ \E n \in Counts :
       /\ Cells = [i \in 1 .. n |-> i]
       /\ Size \in [1 .. n -> Sizes]
       /\ ready \in SUBSET (1 .. n)
       /\ total = Mass(1 .. n, Size)
  /\ pc = "outer" /\ myLoop = 0 /\ loop = 0
  /\ cell = 0 /\ eaten = <<>> /\ eater = 0 /\ apart = FALSE /\ misled = FALSE

\* for (myLoop ...): cell = Cells[myLoop], loop = myLoop + 1.  (The first form is
\* a slip: the inner loop begins with the cell itself.)
EnterOuterAtSelf ==
  /\ pc = "outer" /\ myLoop < Len(Cells)
  /\ cell' = At(myLoop)
  /\ loop' = myLoop
  /\ pc' = "inner"
  /\ UNCHANGED <<Cells, Size, ready, myLoop, eaten, history>>
EnterOuter ==
  /\ pc = "outer" /\ myLoop < Len(Cells)
  /\ cell' = At(myLoop)
  /\ loop' = myLoop + 1
  /\ pc' = "inner"
  /\ UNCHANGED <<Cells, Size, ready, myLoop, eaten, history>>

Return ==
  /\ pc = "outer" /\ myLoop >= Len(Cells)
  /\ pc' = "done"
  /\ UNCHANGED <<Cells, Size, ready, myLoop, loop, cell, eaten, history>>

\* (The first form is a slip: only a step back is counted up again.)
EndInnerStuck ==
  /\ pc = "inner" /\ loop >= Len(Cells)
  /\ myLoop' = IF myLoop < 0 THEN 0 ELSE myLoop
  /\ pc' = "outer"
  /\ UNCHANGED <<Cells, Size, ready, loop, cell, eaten, history>>
EndInner ==
  /\ pc = "inner" /\ loop >= Len(Cells)
  /\ myLoop' = myLoop + 1
  /\ pc' = "outer"
  /\ UNCHANGED <<Cells, Size, ready, loop, cell, eaten, history>>

Comparing == pc = "inner" /\ loop < Len(Cells)
MayCombine == {cell, At(loop)} \subseteq ready

\* The pointer of the inner loop has become stale.
Stale == cell \in ToSet(eaten)

\* The pair is not ready or does not overlap enough; at most it is pushed.
Pass ==
  /\ Comparing
  /\ loop' = loop + 1
  /\ apart' = (apart \/ MayCombine)
  /\ UNCHANGED <<pc, Cells, Size, ready, myLoop, cell, eaten, eater, total, misled>>

\* cell->Radius > otherCell->Radius.  (In the first form, a slip, AddSize is
\* missing.)
EatOtherForNothing ==
  /\ Comparing /\ MayCombine
  /\ Size[cell] > Size[At(loop)]
  /\ eaten' = Append(eaten, At(loop))
  /\ eater' = cell /\ misled' = (misled \/ Stale)
  /\ Cells' = Erase(loop)
  /\ UNCHANGED <<pc, Size, ready, myLoop, loop, cell, total, apart>>
EatOther ==
  /\ Comparing /\ MayCombine
  /\ Size[cell] > Size[At(loop)]
  /\ Size' = [Size EXCEPT ![cell] = @ + Size[At(loop)]]
  /\ eaten' = Append(eaten, At(loop))
  /\ eater' = cell /\ misled' = (misled \/ Stale)
  /\ Cells' = Erase(loop)
  /\ UNCHANGED <<pc, ready, myLoop, loop, cell, total, apart>>

\* Cells.erase(Cells.begin() + myLoop).  After the first such step of an inner
\* loop myLoop no longer points to cell; at -1 the erase is undefined: the
\* program dies, or the vector moves down over the word before it, which
\* loses its first element.  (The slips erase the other cell, and both.)
EraseOther == Cells' = Erase(loop) /\ pc' = pc
EraseBoth  == Cells' = SubSeq(Cells, 1, myLoop) \o SubSeq(Cells, loop + 2, Len(Cells)) /\ pc' = pc
EraseMine ==
  \/ myLoop >= 0 /\ Cells' = Erase(myLoop) /\ pc' = pc
  \/ myLoop < 0 /\ Cells' = Tail(Cells) /\ pc' \in {"inner", "crashed"}

\* The outer index goes back with the vector.  (The slips: it does not; it goes
\* below -1.)
NoStepBack == myLoop
StepFarBack == myLoop - 1
StepBack == IF myLoop - 1 > -1 THEN myLoop - 1 ELSE -1

\* The else branch: the other cell is at least as big.
BeEaten ==
  /\ Comparing /\ MayCombine
  /\ Size[cell] <= Size[At(loop)]
  /\ Size' = [Size EXCEPT ![At(loop)] = @ + Size[cell]]
  /\ eaten' = Append(eaten, cell)
  /\ eater' = At(loop) /\ misled' = (misled \/ Stale)
  /\ EraseMine
  /\ myLoop' = StepBack
  /\ loop' = loop + 1
  /\ UNCHANGED <<ready, cell, total, apart>>

Next == EnterOuter \/ Return \/ EndInner \/ Pass \/ EatOther \/ BeEaten

Spec == Init /\ [][Next]_vars /\ WF_vars(Next)

-----------------------------------------------------------------------------
(* Properties                                                              *)

TypeOK ==
  /\ pc \in {"outer", "inner", "done", "crashed"}
  /\ Size \in [Ball -> Nat] /\ Cells \in Seq(Ball)
  /\ ready \subseteq Ball /\ eaten \in Seq(Ball)
  /\ myLoop \in -1 .. Len(Cells) /\ loop \in Nat
  /\ cell \in Ball \cup {0} /\ eater \in Ball \cup {0}
  /\ pc = "inner" => cell # 0

\* As long as no stale pointer is used, merging neither creates nor destroys
\* mass ...
MassKept == ~misled => Mass(ToSet(Cells), Size) = total

\* ... every cell that leaves the vector leaves it with one removal event, which
\* is what the clients' pictures depend on (ViewSync!CollideSelf) ...
LeavesWithEvent ==
  ~misled => /\ eaten \in Seq(Ball \ ToSet(Cells))
             /\ Len(eaten) = Cardinality(Ball) - Len(Cells)

\* ... and when the cells that are ready to combine overlap they become one,
\* although both loops run over a vector that shrinks under them.
Merged ==
  ~misled /\ pc = "done" /\ ~apart => Cardinality(ToSet(Cells) \cap ready) <= 1

\* The stale pointer is used only by players of four cells and more: with fewer,
\* the inner loop has run out of cells when its own is eaten.
FewNeverMislead == misled => Cardinality(Ball) >= 4

\* The call returns, or dies of its stale index: stepping myLoop back does not
\* repeat the loop for ever.
Returns == <>(pc \in {"done", "crashed"})

\* Why it does: each step takes a cell away, or moves the outer index on, or the
\* inner one within the vector, although the former is also moved back.
Advances ==
  [][\/ Len(Cells') < Len(Cells)
     \/ /\ Len(Cells') = Len(Cells)
        /\ \/ myLoop' > myLoop /\ myLoop' <= Len(Cells)
           \/ myLoop' = myLoop /\ pc = "outer" /\ pc' # "outer"
           \/ myLoop' = myLoop /\ pc' = pc /\ loop' > loop /\ loop' <= Len(Cells)]_vars

\* However many cells there are and whatever the stale index erases, a cell with
\* a removal event is out of the vector: ViewSync!CollideSelf relies on it.
EatenAreGone == ToSet(eaten) \cap ToSet(Cells) = {}

\* And a merge leaves the player with a cell that can collide.
EaterRemains == eaten # <<>> => ToSet(Cells) \cap ready # {}

\* What the indices point to: the outer one to the cell it began with, until
\* that has been eaten; both to a place of the vector, or just before it.
IndicesValid ==
  /\ 0 \notin Ball
  /\ \A i, j \in DOMAIN Cells : Cells[i] = Cells[j] => i = j
  /\ pc = "outer" => myLoop >= 0
  /\ pc = "inner" => /\ myLoop < loop /\ myLoop < Len(Cells) /\ 1 <= loop
                     /\ cell \in ToSet(eaten) \/ (myLoop >= 0 /\ At(myLoop) = cell)

\* The one that ate the cell the inner loop still uses is behind its index.
EaterBehind ==
  pc = "inner" /\ cell \in ToSet(eaten) =>
    \E i \in 1 .. Len(Cells) : i <= loop /\ Cells[i] \in ready

\* What every statement of the call keeps, with any number of cells.
CollisionInv == TypeOK /\ IndicesValid /\ EatenAreGone /\ EaterRemains /\ EaterBehind

\* The pairs the two loops have compared, unless a cell did not overlap: the cells
\* before the outer index are not ready, or no later one is.
Settled(i) == \A j \in i + 1 .. Len(Cells) : ~({Cells[i], Cells[j]} \subseteq ready)
PairsSettled ==
  ~misled /\ ~apart =>
    /\ \A i \in 1 .. Len(Cells) : i <= myLoop => Settled(i)
    /\ pc = "inner" /\ Stale => \A i \in 1 .. Len(Cells) : i <= myLoop + 1 => Settled(i)
    /\ pc = "inner" /\ ~Stale =>
         \A j \in myLoop + 2 .. Len(Cells) : j <= loop => ~({cell, Cells[j]} \subseteq ready)
    /\ pc = "done" => myLoop >= Len(Cells)

\* With few cells the inner loop ends when its cell has been eaten.
FewEnd ==
  Cardinality(Ball) < 4 => ~misled /\ (pc = "inner" /\ Stale => loop >= Len(Cells))

MergeInv ==
  /\ CollisionInv /\ IsFiniteSet(Ball)
  /\ MassKept /\ LeavesWithEvent /\ PairsSettled /\ FewEnd

\* However many cells there are, the call keeps what Merging promises the game.
M == INSTANCE Merging WITH
       mine <- ToSet(Cells),
       told <- ToSet(eaten),
       lost <- Ball \ (ToSet(Cells) \cup ToSet(eaten))
ImplementsMerging == M!Spec

\* CollideSelf says "only let the bigger ball eat the smaller ball": the one
\* that eats should be one of the player's balls.
OnlyBallsEat == eater # 0 => eater \in ToSet(Cells)
=============================================================================
