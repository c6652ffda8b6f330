-------------------------------- MODULE Grid --------------------------------
(***************************************************************************)
(* The coordinate side of Map.cpp and Cell.cpp: the square world of        *)
(* MAP_SIZE units cut into NUM_BLOCKS x NUM_BLOCKS blocks, the two tests a *)
(* player's view is decided with, and the clamp every movement goes        *)
(* through.                                                                *)
(*                                                                         *)
(* A float coordinate is an integer: only its order relative to block      *)
(* borders and to radii matters here.  Floats have one more value that     *)
(* matters, not-a-number, which both coordinates of a cell of zero size    *)
(* acquire (0/0 in Cell::Update) and one coordinate may acquire alone      *)
(* (0 times infinity in its velocity).                                     *)
(***************************************************************************)
EXTENDS Integers

CONSTANTS
  BLOCK_SIZE,   \* side of a block (100 in Map.h)
  NUM_BLOCKS,   \* blocks per side of the map (160 in Map.h)
  NaN           \* the coordinate that is not a number

INT_MAX == 2147483647
MAP_SIZE == BLOCK_SIZE * NUM_BLOCKS

ASSUME GridAssumption ==
  /\ BLOCK_SIZE \in Nat \ {0}
  /\ NUM_BLOCKS \in Nat \ {0}
  /\ MAP_SIZE <= INT_MAX
  /\ NaN \notin Int

Scalar == Int \cup {NaN}
Point == Scalar \X Scalar
Index == 0 .. NUM_BLOCKS - 1
Block == Index \X Index

Nowhere == <<NaN, NaN>>
Placed(p) == p[1] # NaN /\ p[2] # NaN

\* A view: the corner indices TopLeft and BottomRight of a Player.
View == [tl : Block, br : Block]

Lesser(a, b)  == IF a < b THEN a ELSE b
Greater(a, b) == IF a > b THEN a ELSE b

\* The cast (int32_t): x86 turns what does not fit into the smallest integer.
ToInt32(c) == IF c <= INT_MAX THEN c ELSE -INT_MAX - 1

\* Division of C, which rounds towards zero.
BlockOf(i) == IF i >= 0 THEN i \div BLOCK_SIZE ELSE -((-i) \div BLOCK_SIZE)

\* One coordinate of IndexFromCoord: the macro max(NaN, 0.f) yields 0, the
\* cast comes next, and only what it gives is compared with MAP_SIZE - 1.
IndexOf(c) ==
  IF c = NaN THEN 0 ELSE BlockOf(Lesser(ToInt32(Greater(c, 0)), MAP_SIZE - 1))

IndexFromCoord(p) == <<IndexOf(p[1]), IndexOf(p[2])>>

\* The points whose coordinates survive the cast.
Castable(p) == \A i \in 1 .. 2 : p[i] = NaN \/ p[i] <= INT_MAX

\* Cell::_MoveAbs clamps a position into the map; max(0, NaN) stays NaN.
Clamp(c) == IF c = NaN THEN NaN ELSE Lesser(Greater(c, 0), MAP_SIZE - 1)
MoveUnclamped(p) == p   \* slip: no clamp
MoveAbs(p) == <<Clamp(p[1]), Clamp(p[2])>>

\* Cell::_MoveRel from p by an offset that would lead to q: NaN plus any
\* offset is NaN.
MoveRel(p, q) ==
  MoveAbs(<<IF p[1] = NaN THEN NaN ELSE q[1], IF p[2] = NaN THEN NaN ELSE q[2]>>)

\* Is the block that holds the point one of the visible blocks?
Inside(p, v) ==
  LET i == IndexFromCoord(p)
  IN  /\ v.tl[1] <= i[1] /\ i[1] <= v.br[1]
      /\ v.tl[2] <= i[2] /\ i[2] <= v.br[2]

\* Does the square around a cell of radius r reach the visible blocks?  Every
\* comparison with NaN is false.
\* (The first form is a slip: End is not moved to the far border.)
EdgeInsideShort(p, r, v) ==
  /\ Placed(p)
  /\ p[1] + r >= v.tl[1] * BLOCK_SIZE /\ p[2] + r >= v.tl[2] * BLOCK_SIZE
  /\ p[1] - r < v.br[1] * BLOCK_SIZE /\ p[2] - r < v.br[2] * BLOCK_SIZE + 1
EdgeInside(p, r, v) ==
  /\ Placed(p)
  /\ p[1] + r >= v.tl[1] * BLOCK_SIZE
  /\ p[2] + r >= v.tl[2] * BLOCK_SIZE
  /\ p[1] - r <= (v.br[1] + 1) * BLOCK_SIZE
  /\ p[2] - r <= (v.br[2] + 1) * BLOCK_SIZE

\* Player::Blocks as UpdateView fills it.
VisibleBlocks(v) == (v.tl[1] .. v.br[1]) \X (v.tl[2] .. v.br[2])

\* A position that the clamp of _MoveAbs leaves alone.
InMap(p) == p \in (0 .. MAP_SIZE - 1) \X (0 .. MAP_SIZE - 1)
=============================================================================
