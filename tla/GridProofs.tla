----------------------------- MODULE GridProofs -----------------------------
(***************************************************************************)
(* Facts about the coordinate operators, for every block size and every    *)
(* number of blocks.                                                       *)
(***************************************************************************)
EXTENDS Grid, TLAPS

\* Euclidean division by the block size.
LEMMA DivBlock ==
  ASSUME NEW c \in 0 .. MAP_SIZE - 1
  PROVE  /\ c \div BLOCK_SIZE \in Index
         /\ (c \div BLOCK_SIZE) * BLOCK_SIZE <= c
         /\ c < (c \div BLOCK_SIZE + 1) * BLOCK_SIZE
  BY GridAssumption DEF MAP_SIZE, Index

\* What one coordinate gives is an integer, and below the limit of the cast it
\* is one of the indices.
LEMMA IndexOfType ==
  ASSUME NEW c \in Scalar
  PROVE  /\ IndexOf(c) \in Int
         /\ IndexOf(c) \in Index <=> (c = NaN \/ c <= INT_MAX)
<1> USE GridAssumption DEF Scalar
<1> DEFINE low == Lesser(ToInt32(Greater(c, 0)), MAP_SIZE - 1)
<1>1. MAP_SIZE \in Int /\ 0 < MAP_SIZE
  BY DEF MAP_SIZE
<1>2. CASE c = NaN
  BY <1>2 DEF IndexOf, Index
<1>3. CASE c # NaN /\ c <= INT_MAX
  <2>1. low \in 0 .. MAP_SIZE - 1
    BY <1>1, <1>3 DEF ToInt32, Lesser, Greater, INT_MAX
  <2>2. IndexOf(c) = low \div BLOCK_SIZE
    BY <1>3, <2>1 DEF IndexOf, BlockOf
  <2>3. QED
    BY <1>3, <2>1, <2>2, DivBlock DEF Index
<1>4. CASE c # NaN /\ ~(c <= INT_MAX)
  <2>1. low = -INT_MAX - 1
    BY <1>1, <1>4 DEF ToInt32, Lesser, Greater, INT_MAX
  <2>2. IndexOf(c) = -((INT_MAX + 1) \div BLOCK_SIZE)
    <3>1. IndexOf(c) = BlockOf(low)
      BY <1>4 DEF IndexOf
    <3>2. ~(low >= 0) /\ -low = INT_MAX + 1
      BY <2>1 DEF INT_MAX
    <3> HIDE DEF low
    <3>3. QED
      BY <3>1, <3>2 DEF BlockOf
  <2>3. BLOCK_SIZE <= INT_MAX
    BY DEF MAP_SIZE, INT_MAX
  <2>4. (INT_MAX + 1) \div BLOCK_SIZE \in Int /\ (INT_MAX + 1) \div BLOCK_SIZE >= 1
    BY <2>3 DEF INT_MAX
  <2>5. QED
    BY <1>4, <2>2, <2>4 DEF Index
<1>5. QED
  BY <1>2, <1>3, <1>4

\* Map::IndexFromCoord stays within StaticMap exactly for the coordinates that
\* survive its cast: BlockFromCoord indexes the array without a check, and the
\* min that should bound the index comes after the cast.
THEOREM IndexInMap ==
  ASSUME NEW p \in Point
  PROVE  IndexFromCoord(p) \in Block <=> Castable(p)
<1>1. p[1] \in Scalar /\ p[2] \in Scalar
  BY DEF Point
<1>2. Castable(p) <=> (p[1] = NaN \/ p[1] <= INT_MAX) /\ (p[2] = NaN \/ p[2] <= INT_MAX)
  BY DEF Castable
<1>3. QED
  BY <1>1, <1>2, IndexOfType DEF IndexFromCoord, Block

\* A clamped coordinate is in the map or not a number.
LEMMA ClampType ==
  ASSUME NEW c \in Scalar
  PROVE  /\ Clamp(c) \in Scalar
         /\ Clamp(c) = NaN <=> c = NaN
         /\ c # NaN => Clamp(c) \in 0 .. MAP_SIZE - 1
  BY GridAssumption DEF Scalar, Clamp, Lesser, Greater, MAP_SIZE

\* The clamp of Cell::_MoveAbs puts every position of numbers into the map.
LEMMA MoveAbsInMap ==
  ASSUME NEW p \in Point
  PROVE  ~Placed(MoveAbs(p)) \/ InMap(MoveAbs(p))
  BY ClampType DEF Point, MoveAbs, Placed, InMap

\* It loses no number and makes none.
LEMMA MoveAbsPlaced ==
  ASSUME NEW p \in Point
  PROVE  Placed(MoveAbs(p)) <=> Placed(p)
  BY ClampType DEF Point, MoveAbs, Placed

\* Not-a-number stays what it is, so the clamp always gives a point.
LEMMA MoveAbsPoint ==
  ASSUME NEW p \in Point
  PROVE  MoveAbs(p) \in Point
  BY ClampType DEF Point, MoveAbs

\* A movement is a clamped one, so it gives a point in the map or keeps a
\* coordinate that is not a number.
LEMMA MoveRelPoint ==
  ASSUME NEW p \in Point, NEW q \in Point
  PROVE  /\ MoveRel(p, q) \in Point
         /\ ~Placed(MoveRel(p, q)) \/ InMap(MoveRel(p, q))
         /\ Placed(MoveRel(p, q)) => Placed(p)
<1> DEFINE s == <<IF p[1] = NaN THEN NaN ELSE q[1], IF p[2] = NaN THEN NaN ELSE q[2]>>
<1>1. s \in Point /\ MoveRel(p, q) = MoveAbs(s) /\ (Placed(s) => Placed(p))
  BY DEF Point, Scalar, MoveRel, Placed
<1> HIDE DEF s
<1>2. QED
  BY <1>1, MoveAbsPoint, MoveAbsInMap, MoveAbsPlaced

\* A position of the map is a position of numbers.
LEMMA InMapPlaced ==
  ASSUME NEW p, InMap(p)
  PROVE  Placed(p) /\ p \in Point /\ Castable(p)
  BY GridAssumption DEF InMap, Placed, MAP_SIZE, Point, Scalar, Castable, INT_MAX

\* Clamping a position of the map changes nothing.
LEMMA MoveAbsFixesInMap ==
  ASSUME NEW p, InMap(p)
  PROVE  MoveAbs(p) = p
<1>1. p \in (0 .. MAP_SIZE - 1) \X (0 .. MAP_SIZE - 1) /\ MAP_SIZE \in Int
  BY GridAssumption DEF InMap, MAP_SIZE
<1>2. Placed(p)
  BY InMapPlaced
<1>3. Clamp(p[1]) = p[1] /\ Clamp(p[2]) = p[2]
  BY <1>1, <1>2 DEF Clamp, Placed, Lesser, Greater
<1>4. QED
  BY <1>1, <1>3 DEF MoveAbs

\* Within the map the clamps and the cast of IndexFromCoord do nothing.
LEMMA IndexOfInMap ==
  ASSUME NEW c \in 0 .. MAP_SIZE - 1
  PROVE  IndexOf(c) = c \div BLOCK_SIZE
<1>1. MAP_SIZE \in Int /\ MAP_SIZE <= INT_MAX /\ c # NaN
  BY GridAssumption DEF MAP_SIZE
<1>2. Lesser(ToInt32(Greater(c, 0)), MAP_SIZE - 1) = c
  BY <1>1 DEF Lesser, ToInt32, Greater, INT_MAX
<1>3. QED
  BY <1>1, <1>2 DEF IndexOf, BlockOf

\* A cell inside the map whose centre is in a visible block also passes the
\* edge test, whatever its radius.  The per-player clean-up of CellHistory uses
\* Inside and the removal events use EdgeInside: this is why no removal of a
\* cell still in the history is missed.
THEOREM InsideReachesEdge ==
  ASSUME NEW p, InMap(p), NEW r \in Nat, NEW v \in View, Inside(p, v)
  PROVE  EdgeInside(p, r, v)
<1>1. p \in (0 .. MAP_SIZE - 1) \X (0 .. MAP_SIZE - 1) /\ MAP_SIZE \in Int
  BY GridAssumption DEF InMap, MAP_SIZE
<1>2. Placed(p)
  BY InMapPlaced
<1>3. IndexFromCoord(p) = <<p[1] \div BLOCK_SIZE, p[2] \div BLOCK_SIZE>>
  BY <1>1, IndexOfInMap DEF IndexFromCoord
<1> DEFINE i == p[1] \div BLOCK_SIZE
           j == p[2] \div BLOCK_SIZE
<1>4. /\ v.tl[1] <= i /\ i <= v.br[1]
      /\ v.tl[2] <= j /\ j <= v.br[2]
  BY <1>3 DEF Inside
<1>5. /\ i \in Index /\ i * BLOCK_SIZE <= p[1] /\ p[1] < (i + 1) * BLOCK_SIZE
      /\ j \in Index /\ j * BLOCK_SIZE <= p[2] /\ p[2] < (j + 1) * BLOCK_SIZE
  BY <1>1, DivBlock
<1>6. v.tl[1] \in Int /\ v.tl[2] \in Int /\ v.br[1] \in Int /\ v.br[2] \in Int
  BY DEF View, Block, Index
<1> HIDE DEF i, j
<1>7. /\ v.tl[1] * BLOCK_SIZE <= i * BLOCK_SIZE
      /\ v.tl[2] * BLOCK_SIZE <= j * BLOCK_SIZE
      /\ (i + 1) * BLOCK_SIZE <= (v.br[1] + 1) * BLOCK_SIZE
      /\ (j + 1) * BLOCK_SIZE <= (v.br[2] + 1) * BLOCK_SIZE
  BY <1>4, <1>5, <1>6, GridAssumption DEF Index
<1>8. QED
  BY <1>1, <1>2, <1>5, <1>6, <1>7, GridAssumption DEF EdgeInside, Index

\* Inside is membership of the cell's block in the visible blocks.
LEMMA InsideIsVisible ==
  ASSUME NEW p \in Point, NEW v \in View
  PROVE  Inside(p, v) <=> IndexFromCoord(p) \in VisibleBlocks(v)
<1>1. IndexOf(p[1]) \in Int /\ IndexOf(p[2]) \in Int
  BY IndexOfType DEF Point
<1>2. v.tl \in Block /\ v.br \in Block
  BY DEF View
<1>3. QED
  BY <1>1, <1>2 DEF Inside, IndexFromCoord, VisibleBlocks, Block, Index

\* The blocks of a view are blocks of the map: UpdateView takes their addresses.
LEMMA VisibleBlocksInMap ==
  ASSUME NEW v \in View
  PROVE  VisibleBlocks(v) \subseteq Block
  <1>1. /\ v.tl[1] \in Index /\ v.br[1] \in Index
        /\ v.tl[2] \in Index /\ v.br[2] \in Index
    BY DEF View, Block
  <1>2. \A i, j \in Index : i .. j \subseteq Index
    BY GridAssumption DEF Index
  <1> QED
    BY <1>1, <1>2 DEF VisibleBlocks, Block
=============================================================================
