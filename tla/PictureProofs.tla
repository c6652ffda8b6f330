---------------------------- MODULE PictureProofs ----------------------------
(***************************************************************************)
(* What a client shows is true: the places of the cells, and the food.     *)
(*                                                                         *)
(* PositionsTold, NoStaleFood and EnteredFoodTold follow from PictureInv,  *)
(* which is inductive together with SyncInv.  A known cell that is not     *)
(* sent has no velocity, so the clamp of its tick has not moved it, and    *)
(* whatever is near the view and can have moved is sent.  Food never       *)
(* moves, so the block it was taken from is the block its removal event    *)
(* is judged by, and the difference of two views counts it once.           *)
(***************************************************************************)
EXTENDS ViewSyncProofs, FiniteSetTheorems

-----------------------------------------------------------------------------
(* Steps that leave food alone.                                            *)

\* Nothing happens to the food, and the players that remain are told nothing of
\* it, look where they looked, and still have their events before them.
LEMMA FoodKept ==
  ASSUME SyncInv, SyncInv', PictureInv,
         UNCHANGED StaticMap, active' \subseteq active,
         \A f \in Food : Position'[f] = Position[f],
         \A p \in active' :
           /\ told'[p] = told[p] /\ view'[p] = view[p]
           /\ quiet'[p] = quiet[p] /\ leftover'[p] = leftover[p]
           /\ Behind(p) => Behind(p)' /\ CellEvents'.removeStatic = CellEvents.removeStatic,
         \A p \in Players, f \in Food : unsent'[p][f] # Unknown =>
           unsent[p][f] # Unknown /\ (p \in active => p \in active'),
         pc' # "idle" => CellEvents'.removeStatic \cap FoodIn(Block) = {}
  PROVE  FoodPlaced' /\ FoodGone' /\ FoodReason' /\ EnteredFoodTold'
  <1> USE DEF SyncInv, PictureInv
  <1>1. /\ \A b \in Block : StaticMap[b] \subseteq Food
        /\ \A p \in active : VisibleBlocks(view[p]) \subseteq Block
        /\ active \subseteq Players
    BY VisibleBlocksInMap DEF TypeOK
  <1>2. \A B : FoodIn(B)' = FoodIn(B)
    BY DEF FoodIn
  <1>3. FoodPlaced'
    BY <1>1 DEF FoodPlaced
  <1>4. FoodGone'
    BY DEF FoodGone, FoodIn
  <1>5. FoodReason'
    <2>1. \A p \in active' : EatenFood(p) = {f \in CellEvents.removeStatic :
                                             Inside(Position'[f], view'[p])}
      BY DEF EatenFood, TypeOK
    <2>2. \A p \in active' : FoodExpected(p) \subseteq FoodExpected(p)'
      BY <1>2, <2>1 DEF FoodExpected, EatenFood
    <2>3. \A p \in active' : p \in active
      OBVIOUS
    <2> QED
      BY <2>2, <2>3 DEF FoodReason
  <1>6. EnteredFoodTold'
    BY <1>1 DEF EnteredFoodTold
  <1> QED
    BY <1>3, <1>4, <1>5, <1>6

\* The kinds of cells do not mix.
LEMMA Kinds ==
  ASSUME SyncInv
  PROVE  /\ Live \subseteq Dynamic /\ fresh \subseteq Dynamic
         /\ DynamicMap \subseteq Live /\ PlayerCells \subseteq Live
         /\ DynamicMap \cap PlayerCells = {} /\ fresh \cap Live = {}
         /\ Food \cap Dynamic = {} /\ Dynamic \subseteq Cell /\ Food \subseteq Cell
  BY ViewAssumption DEF SyncInv, TypeOK, OneOwner, Live, PlayerCells, Dynamic, Cell

\* A place told stays true if the player was not behind, or the cell is a virus
\* or feed without velocity, and neither the cell nor what was told of it changes.
LEMMA PlaceKept ==
  ASSUME PictureInv, NEW p \in active, NEW c \in Live,
         Known(p, c), Tangible(c), Behind(p) => c \in DynamicMap \ moving,
         Position'[c] = Position[c], told'[p] = told[p]
  PROVE  told'[p][c] \in {Unknown, Position'[c]}
  BY DEF PictureInv, PlacesTold, Tangible

-----------------------------------------------------------------------------
(* The callbacks between two ticks.                                        *)

\* At the start nothing is shown and all food is in its block.
LEMMA InitPicture ==
  ASSUME Init
  PROVE  PictureInv
  <1> USE DEF Init
  <1>1. PlacesTold /\ FoodReason /\ EnteredFoodTold /\ FoodGone
    BY DEF PlacesTold, FoodReason, EnteredFoodTold, FoodGone, Blank, Cell
  <1>2. FoodPlaced
    BY DEF FoodPlaced
  <1> QED
    BY <1>1, <1>2 DEF PictureInv

\* Sending concerns nobody's picture of what was appended.
LEMMA WriteableKnownPicture ==
  ASSUME SyncInv, SyncInv', PictureInv, NEW w \in Players, WriteableKnown(w)
  PROVE  PictureInv'
  <1> USE DEF WriteableKnown, world
  <1>1. PlacesTold'
    BY DEF PictureInv, PlacesTold, Known, Tangible, Behind, Live, PlayerCells
  <1>2. FoodPlaced' /\ FoodGone' /\ FoodReason' /\ EnteredFoodTold'
    <2>1. \A p \in Players, f \in Food : unsent'[p][f] # Unknown => unsent[p][f] # Unknown
      BY FlushType DEF SyncInv, Cell
    <2> QED
      BY <2>1, FoodKept DEF Behind, PictureInv, FoodGone
  <1> QED
    BY <1>1, <1>2 DEF PictureInv

\* A new Player knows no cell, and what its client shows is left over.
LEMMA WriteableNewPicture ==
  ASSUME SyncInv, SyncInv', PictureInv, NEW w \in Players, WriteableNew(w)
  PROVE  PictureInv'
  <1>1. PICK S \in SUBSET active, c \in fresh, a \in InMapPlaces, v \in Views :
          /\ Flush(S)
          /\ fresh' = fresh \ {c}
          /\ Position' = [Position EXCEPT ![c] = a]
          /\ Cells' = [Cells EXCEPT ![w] = {c}]
          /\ view' = [view EXCEPT ![w] = v]
          /\ quiet' = [quiet EXCEPT ![w] = VisibleBlocks(v)]
    BY DEF WriteableNew
  <1>2. /\ pc = "idle" /\ active' = active \cup {w} /\ w \notin active
        /\ leftover' = [leftover EXCEPT ![w] = {x \in Cell : told[w][x] # Unknown}]
        /\ UNCHANGED <<pc, todo, StaticMap, DynamicMap, moving, CellEvents, CellHistory, told>>
    BY DEF WriteableNew
  <1>3. \A x \in Cell : x # c => Position'[x] = Position[x]
    BY <1>1 DEF SyncInv, TypeOK
  <1>4. c \notin Live /\ c \in Dynamic /\ Live' \subseteq Live \cup {c}
    <2>1. \A x \in Players : Cells'[x] \subseteq Cells[x] \cup {c}
      BY <1>1 DEF SyncInv, TypeOK
    <2> QED
      BY <1>2, <2>1, Kinds DEF Live, PlayerCells
  <1>5. \A p \in Players : /\ ~Known(p, c) /\ \A x \in Dynamic : ~Known(w, x)
    BY <1>2, <1>4 DEF SyncInv, KnownCells
  <1>6. PlacesTold'
    <2>1. ASSUME NEW p \in active', NEW x \in Live', Known(p, x)', Tangible(x)'
          PROVE  told'[p][x] \in {Unknown, Position'[x]}
      <3>1. x \in Dynamic /\ p \in Players
        BY <1>2, <1>4, Kinds DEF SyncInv, TypeOK
      <3>2. Known(p, x)
        BY <1>2, <2>1 DEF Known
      <3>3. p \in active /\ x \in Live /\ x # c
        BY <1>2, <1>4, <1>5, <3>1, <3>2
      <3>4. ~Behind(p)
        BY <1>2 DEF Behind, SyncInv, TypeOK
      <3>5. Position'[x] = Position[x]
        BY <1>3, <3>1, <3>3, Kinds
      <3> QED
        BY <1>2, <2>1, <3>2, <3>3, <3>4, <3>5, PlaceKept DEF Tangible
    <2> QED
      BY <2>1 DEF PlacesTold
  <1>7. \A f \in Food : Position'[f] = Position[f]
    BY <1>3, <1>4, Kinds
  <1>8. \A b \in Block : StaticMap[b] \subseteq Food
    BY DEF SyncInv, TypeOK
  <1>9. FoodPlaced' /\ FoodGone'
    BY <1>2, <1>7, <1>8 DEF PictureInv, FoodPlaced, FoodGone
  <1>10. FoodReason'
    <2>1. leftover'[w] = {x \in Cell : told[w][x] # Unknown}
      BY <1>2 DEF SyncInv, TypeOK
    <2>2. \A p \in active : /\ p # w /\ p \in Players /\ view'[p] = view[p]
                            /\ leftover'[p] = leftover[p]
      BY <1>1, <1>2 DEF SyncInv, TypeOK
    <2>3. \A p \in Players : ~Behind(p) /\ ~Behind(p)'
      BY <1>2 DEF SyncInv, TypeOK, Behind
    <2>4. \A p \in active : FoodExpected(p)' = FoodExpected(p)
      BY <1>2, <2>2, <2>3 DEF FoodExpected, FoodIn
    <2>5. \A p \in Players, f \in Food : unsent'[p][f] # Unknown => unsent[p][f] # Unknown
      BY <1>1, FlushType DEF SyncInv, Cell
    <2>6. \A f \in Food, p \in active' :
            told'[p][f] # Unknown => f \in leftover'[p] \cup FoodExpected(p)'
      BY <1>2, <2>1, <2>2, <2>4, Kinds DEF PictureInv, FoodReason
    <2>7. \A f \in Food, p \in Players :
            unsent'[p][f] # Unknown => p \in active' /\ f \in FoodExpected(p)'
      BY <1>2, <2>4, <2>5 DEF PictureInv, FoodReason
    <2> QED
      BY <2>6, <2>7 DEF FoodReason
  <1>11. EnteredFoodTold'
    <2>1. view'[w] = v /\ quiet'[w] = VisibleBlocks(v)
      BY <1>1 DEF SyncInv, TypeOK
    <2>2. \A p \in active : p # w /\ view'[p] = view[p] /\ quiet'[p] = quiet[p]
      BY <1>1, <1>2 DEF SyncInv, TypeOK
    <2>3. \A p \in active : VisibleBlocks(view[p]) \subseteq Block
      BY VisibleBlocksInMap DEF SyncInv, TypeOK
    <2> QED
      BY <1>2, <1>7, <1>8, <2>1, <2>2, <2>3 DEF PictureInv, EnteredFoodTold
  <1> QED
    BY <1>6, <1>9, <1>10, <1>11 DEF PictureInv

\* What erasing players leaves to the others.
LEMMA ErasePlayersPicture ==
  ASSUME SyncInv, NEW E \in SUBSET Players, ErasePlayers(E)
  PROVE  /\ active' = active \ E
         /\ \A p \in Players, f \in Food :
              unsent'[p][f] # Unknown => unsent[p][f] # Unknown /\ p \notin E
         /\ \A p \in active' : /\ Cells'[p] = Cells[p] /\ CellHistory'[p] = CellHistory[p]
                               /\ quiet'[p] = quiet[p] /\ leftover'[p] = leftover[p]
         /\ PlayerCells' \subseteq PlayerCells
  BY DEF SyncInv, TypeOK, ErasePlayers, PlayerCells, Blank, Cell

\* The client of a Player that goes is nobody's concern.
LEMMA PeerInitiatedClosePicture ==
  ASSUME SyncInv, SyncInv', PictureInv, NEW w \in Players, PeerInitiatedClose(w)
  PROVE  PictureInv'
  <1>1. /\ pc = "idle" /\ ErasePlayers({w}) /\ told' = [told EXCEPT ![w] = Blank]
        /\ UNCHANGED <<pc, todo, StaticMap, DynamicMap, Position, moving, CellEvents, view>>
    BY DEF PeerInitiatedClose
  <1>2. /\ active' = active \ {w} /\ PlayerCells' \subseteq PlayerCells
        /\ \A p \in active' : /\ CellHistory'[p] = CellHistory[p]
                              /\ quiet'[p] = quiet[p] /\ leftover'[p] = leftover[p]
        /\ \A p \in Players, f \in Food :
             unsent'[p][f] # Unknown => unsent[p][f] # Unknown /\ p # w
    BY <1>1, ErasePlayersPicture
  <1>3. \A p \in active' : p \in active /\ told'[p] = told[p]
    BY <1>1, <1>2 DEF SyncInv, TypeOK
  <1>4. \A p \in Players : ~Behind(p)
    BY <1>1 DEF SyncInv, TypeOK, Behind
  <1>5. PlacesTold'
    BY <1>1, <1>2, <1>3, <1>4 DEF PictureInv, PlacesTold, Known, Tangible, Live, SyncInv, TypeOK
  <1>6. FoodPlaced' /\ FoodGone' /\ FoodReason' /\ EnteredFoodTold'
    <2>1. \A p \in active' : ~Behind(p)
      BY <1>3, <1>4 DEF SyncInv, TypeOK
    <2> QED
      BY <1>1, <1>2, <1>3, <2>1, FoodKept
  <1> QED
    BY <1>5, <1>6 DEF PictureInv

\* A client that takes a Player over shows at most what its buffer says, and no
\* block counts as entered before it is told of it.
LEMMA EstablishedPicture ==
  ASSUME SyncInv, SyncInv', PictureInv, NEW w \in Players, Established(w)
  PROVE  PictureInv'
  <1>1. /\ UNCHANGED <<pc, todo, StaticMap, DynamicMap, Position, moving, Cells, CellEvents,
                       active, view, CellHistory, unsent>>
    BY DEF Established, world
  <1>2. /\ \A p \in Players : told'[p] = IF p = w THEN unsent[w] ELSE told[p]
        /\ \A p \in Players : p # w => /\ quiet'[p] = quiet[p]
                                       /\ leftover'[p] = leftover[p]
        /\ w \in active => quiet'[w] = VisibleBlocks(view[w])
        /\ active \subseteq Players
    BY DEF Established, SyncInv, TypeOK
  <1>3. \A p \in Players : Behind(p)' <=> Behind(p)
    BY <1>1 DEF Behind
  <1>4. PlacesTold'
    <2>1. ASSUME NEW p \in active, NEW c \in Live, Known(p, c), Tangible(c),
                 Behind(p) => c \in DynamicMap \ moving
          PROVE  told'[p][c] \in {Unknown, Position[c]}
      <3>1. told[p][c] \in {Unknown, Position[c]}
        BY <2>1 DEF PictureInv, PlacesTold
      <3>2. told'[p][c] \in {Unknown, told[p][c]}
        BY <1>2, Kinds DEF SyncInv, UnsentAgrees
      <3> QED
        BY <3>1, <3>2
    <2> QED
      BY <1>1, <1>2, <1>3, <2>1 DEF PlacesTold, Known, Tangible, Live, PlayerCells
  <1>5. FoodPlaced' /\ FoodGone'
    BY <1>1 DEF PictureInv, FoodPlaced, FoodGone, FoodIn
  <1>6. FoodReason'
    <2>1. \A p \in active : FoodExpected(p)' = FoodExpected(p)
      BY <1>1, <1>2, <1>3 DEF FoodExpected, FoodIn, EatenFood
    <2>2. \A f \in Food, p \in active :
            told'[p][f] # Unknown => f \in leftover'[p] \cup FoodExpected(p)
      BY <1>2 DEF PictureInv, FoodReason
    <2> QED
      BY <1>1, <2>1, <2>2 DEF PictureInv, FoodReason
  <1>7. EnteredFoodTold'
    BY <1>1, <1>2 DEF PictureInv, EnteredFoodTold
  <1> QED
    BY <1>4, <1>5, <1>6, <1>7 DEF PictureInv

-----------------------------------------------------------------------------
(* The stages of game_loop_cb.                                             *)

\* A known cell without velocity lies in the map, so the clamp leaves it where
\* its clients were told it is.
LEMMA BeginTickPicture ==
  ASSUME SyncInv, SyncInv', PictureInv, BeginTick
  PROVE  PictureInv'
  <1>1. PICK M \in SUBSET DynamicMap : \E to \in [M -> {a \in Places : Placed(a)}] :
          /\ moving' = M
          /\ Position' = [c \in Cell |->
               IF c \in M THEN MoveRel(Position[c], to[c])
               ELSE IF c \in DynamicMap THEN MoveAbs(Position[c]) ELSE Position[c]]
    BY DEF BeginTick
  <1>2. PICK to \in [M -> {a \in Places : Placed(a)}] :
          Position' = [c \in Cell |->
            IF c \in M THEN MoveRel(Position[c], to[c])
            ELSE IF c \in DynamicMap THEN MoveAbs(Position[c]) ELSE Position[c]]
    BY <1>1
  <1>3. PICK E \in SUBSET active :
          /\ ErasePlayers(E)
          /\ told' = [p \in Players |-> IF p \in E THEN shown[p] ELSE told[p]]
    BY DEF BeginTick
  <1>4. /\ pc = "idle" /\ pc' = "own" /\ CellEvents' = NoEvents
        /\ UNCHANGED <<todo, StaticMap, DynamicMap, view>>
    BY DEF BeginTick
  <1>5. E \in SUBSET Players
    BY DEF SyncInv, TypeOK
  <1>6. /\ active' = active \ E
        /\ \A p \in active' : /\ CellHistory'[p] = CellHistory[p]
                              /\ quiet'[p] = quiet[p] /\ leftover'[p] = leftover[p]
        /\ \A p \in Players, f \in Food :
             unsent'[p][f] # Unknown => unsent[p][f] # Unknown /\ p \notin E
    BY <1>3, <1>5, ErasePlayersPicture
  <1>7. PlayerCells' \subseteq PlayerCells
    BY <1>3, <1>5, ErasePlayersPicture
  <1>8. \A p \in active' : p \in active /\ p \in Players /\ told'[p] = told[p]
    BY <1>3, <1>6 DEF SyncInv, TypeOK
  <1>9. \A p \in active' : ~Behind(p) /\ Behind(p)'
    BY <1>4 DEF SyncInv, TypeOK, Behind
  <1>10. PlacesTold'
    <2>1. ASSUME NEW p \in active', NEW x \in DynamicMap \ M, Known(p, x)', Tangible(x)'
          PROVE  told'[p][x] \in {Unknown, Position'[x]}
      <3>1. x \in Live /\ x \in Dynamic /\ x \in Cell
        BY Kinds
      <3>2. Known(p, x)
        BY <1>6, <2>1 DEF Known
      <3>3. Position'[x] = MoveAbs(Position[x]) /\ Position[x] \in Point
        BY <1>2, <2>1, <3>1 DEF SyncInv, TypeOK
      <3>4. Placed(Position[x])
        BY <2>1, <3>3, MoveAbsPlaced DEF Tangible
      <3>5. InMap(Position[x])
        BY <1>8, <3>1, <3>2, <3>4 DEF SyncInv, KnownCells, Clamped, Tangible
      <3>6. Position'[x] = Position[x]
        BY <3>3, <3>5, MoveAbsFixesInMap
      <3> QED
        BY <1>8, <1>9, <2>1, <3>1, <3>2, <3>4, <3>6, PlaceKept DEF Tangible
    <2> QED
      BY <1>1, <1>4, <1>9, <2>1 DEF PlacesTold
  <1>11. \A f \in Food : Position'[f] = Position[f]
    BY <1>2, Kinds
  <1>12. FoodPlaced' /\ FoodGone' /\ FoodReason' /\ EnteredFoodTold'
    <2>1. CellEvents'.removeStatic = {}
      BY <1>4 DEF NoEvents
    <2>2. active' \subseteq active
      BY <1>8
    <2>3. \A p \in active' :
           /\ told'[p] = told[p] /\ view'[p] = view[p]
           /\ quiet'[p] = quiet[p] /\ leftover'[p] = leftover[p]
           /\ ~Behind(p)
      BY <1>4, <1>6, <1>8, <1>9
    <2>4. \A p \in Players, f \in Food : unsent'[p][f] # Unknown =>
            unsent[p][f] # Unknown /\ (p \in active => p \in active')
      BY <1>6
    <2> QED
      BY <1>4, <1>11, <2>1, <2>2, <2>3, <2>4, FoodKept
  <1> QED
    BY <1>10, <1>12 DEF PictureInv

\* Food that is eaten was in the block of its position only: who had that block
\* in view has the event before it.
LEMMA EatStaticPicture ==
  ASSUME SyncInv, SyncInv', PictureInv, NEW p \in Players, EatStatic(p)
  PROVE  PictureInv'
  <1>0. PICK b \in Block : \E f \in StaticMap[b] :
          /\ StaticMap' = [StaticMap EXCEPT ![b] = @ \ {f}]
          /\ CellEvents' = [CellEvents EXCEPT !.removeStatic = @ \cup {f}]
    BY DEF EatStatic
  <1>1. PICK f \in StaticMap[b] :
          /\ StaticMap' = [StaticMap EXCEPT ![b] = @ \ {f}]
          /\ CellEvents' = [CellEvents EXCEPT !.removeStatic = @ \cup {f}]
    BY <1>0
  <1>2. /\ pc = "own"
        /\ UNCHANGED <<pc, todo, DynamicMap, Position, moving, Cells, active, view,
                       CellHistory, told, unsent, quiet, leftover>>
    BY DEF EatStatic, sync
  <1>3. /\ \A x \in Block : StaticMap'[x] = StaticMap[x] \ (IF x = b THEN {f} ELSE {})
        /\ CellEvents'.removeStatic = CellEvents.removeStatic \cup {f}
        /\ f \in Food
    BY <1>1 DEF SyncInv, TypeOK
  <1>4. IndexFromCoord(Position[f]) = b /\ \A x \in Block : f \in StaticMap[x] => x = b
    BY DEF PictureInv, FoodPlaced
  <1>5. PlacesTold'
    BY <1>2 DEF PictureInv, PlacesTold, Known, Tangible, Behind, Live, PlayerCells
  <1>6. FoodPlaced'
    BY <1>2, <1>3 DEF PictureInv, FoodPlaced
  <1>7. FoodGone'
    BY <1>2, <1>3, <1>4 DEF PictureInv, FoodGone, FoodIn
  <1>8. \A q \in active : q \in Players /\ view[q] \in View /\ VisibleBlocks(view[q]) \subseteq Block
    BY VisibleBlocksInMap DEF SyncInv, TypeOK
  <1>9. EnteredFoodTold'
    BY <1>2, <1>3, <1>8 DEF PictureInv, EnteredFoodTold
  <1>10. FoodReason'
    <2>1. ASSUME NEW q \in active, NEW g \in FoodExpected(q)
          PROVE  g \in FoodExpected(q)'
      <3>1. CASE g \in FoodIn(VisibleBlocks(view[q]))
        <4>1. PICK x \in VisibleBlocks(view[q]) : g \in StaticMap[x]
          BY <3>1 DEF FoodIn
        <4>2. CASE x = b /\ g = f
          <5>1. Position[f] \in Point
            BY <1>3 DEF SyncInv, TypeOK, Cell
          <5>2. Inside(Position[f], view[q])
            BY <1>4, <1>8, <4>1, <4>2, <5>1, InsideIsVisible
          <5> QED
            BY <1>2, <1>3, <4>2, <5>2 DEF EatenFood, FoodExpected, Behind
        <4>3. CASE ~(x = b /\ g = f)
          <5>1. g \in StaticMap'[x]
            BY <1>3, <1>8, <4>1, <4>3
          <5> QED
            BY <1>2, <4>1, <5>1 DEF FoodExpected, FoodIn
        <4> QED
          BY <4>2, <4>3
      <3>2. CASE g \in EatenFood(q)
        BY <1>2, <1>3, <3>2 DEF EatenFood, FoodExpected, Behind
      <3> QED
        BY <3>1, <3>2 DEF FoodExpected
    <2> QED
      BY <1>2, <2>1 DEF PictureInv, FoodReason
  <1> QED
    BY <1>5, <1>6, <1>7, <1>9, <1>10 DEF PictureInv

\* Between the start of a tick and the updates all players are behind: steps that
\* move no virus, feed or food and take none of the food keep the pictures true.
LEMMA BehindPicture ==
  ASSUME SyncInv, SyncInv', PictureInv, pc # "idle",
         UNCHANGED <<StaticMap, moving, active, view, CellHistory, told, unsent, quiet,
                     leftover>>,
         \A p \in active : Behind(p) /\ Behind(p)',
         DynamicMap' \subseteq DynamicMap,
         \A c \in DynamicMap \cup Food : Position'[c] = Position[c],
         CellEvents'.removeStatic = CellEvents.removeStatic
  PROVE  PictureInv'
  <1>1. PlacesTold'
    <2>1. ASSUME NEW p \in active, NEW x \in DynamicMap \ moving, Known(p, x)', Tangible(x)'
          PROVE  told'[p][x] \in {Unknown, Position'[x]}
      <3>1. x \in Live
        BY Kinds
      <3>2. Known(p, x) /\ Position'[x] = Position[x]
        BY <2>1 DEF Known
      <3> QED
        BY <2>1, <3>1, <3>2, PlaceKept DEF Tangible
    <2> QED
      BY <2>1 DEF PlacesTold
  <1>2. FoodPlaced' /\ FoodGone' /\ FoodReason' /\ EnteredFoodTold'
    <2>1. CellEvents'.removeStatic \cap FoodIn(Block) = {}
      BY DEF PictureInv, FoodGone
    <2> QED
      BY <2>1, FoodKept
  <1> QED
    BY <1>1, <1>2 DEF PictureInv

\* A virus or feed is eaten; the popped cells are new.
LEMMA EatDynamicPicture ==
  ASSUME SyncInv, SyncInv', PictureInv, NEW p \in Players, EatDynamic(p)
  PROVE  PictureInv'
  <1>1. PICK d \in DynamicMap, pop \in SUBSET fresh : \E at \in [pop -> Places] :
          /\ Tangible(d)
          /\ pop # {} => d \in Viruses /\ Cardinality(Cells[p] \cup pop) <= MAX_CELLS
          /\ DynamicMap' = DynamicMap \ {d}
          /\ CellEvents' = [CellEvents EXCEPT !.removeDynamic = @ \cup {d}]
          /\ Cells' = [Cells EXCEPT ![p] = @ \cup pop]
          /\ fresh' = fresh \ pop
          /\ Position' = [c \in Cell |-> IF c \in pop THEN at[c] ELSE Position[c]]
    BY DEF EatDynamic
  <1>2. PICK at \in [pop -> Places] :
          Position' = [c \in Cell |-> IF c \in pop THEN at[c] ELSE Position[c]]
    BY <1>1
  <1>3. /\ pc = "own"
        /\ UNCHANGED <<pc, todo, StaticMap, moving, active, view, CellHistory, told, unsent,
                       quiet, leftover>>
    BY DEF EatDynamic, sync
  <1>4. \A c \in DynamicMap \cup Food : Position'[c] = Position[c]
    BY <1>2, Kinds
  <1>5. CellEvents'.removeStatic = CellEvents.removeStatic
    BY <1>1 DEF SyncInv, TypeOK
  <1>6. \A x \in active : Behind(x) /\ Behind(x)'
    BY <1>3 DEF Behind
  <1> QED
    BY <1>1, <1>3, <1>4, <1>5, <1>6, BehindPicture

\* A merge moves cells of one player only.
LEMMA CollideSelfPicture ==
  ASSUME SyncInv, SyncInv', PictureInv, NEW p \in Players, CollideSelf(p)
  PROVE  PictureInv'
  <1>1. PICK pushed \in SUBSET Cells[p] : \E to \in [pushed -> Places] :
          Position' = [c \in Cell |-> IF c \in pushed THEN MoveAbs(to[c]) ELSE Position[c]]
    BY DEF CollideSelf
  <1>2. PICK eaten \in SUBSET Cells[p] :
          CellEvents' = [CellEvents EXCEPT !.removeDynamic = @ \cup eaten]
    BY DEF CollideSelf
  <1>3. /\ pc = "own"
        /\ UNCHANGED <<pc, todo, StaticMap, DynamicMap, moving, active, view, CellHistory,
                       told, unsent, quiet, leftover>>
    BY DEF CollideSelf, sync
  <1>4. \A c \in DynamicMap \cup Food : Position'[c] = Position[c]
    <2>1. pushed \subseteq PlayerCells
      BY DEF PlayerCells
    <2> QED
      BY <1>1, <2>1, Kinds
  <1>5. CellEvents'.removeStatic = CellEvents.removeStatic
    BY <1>2 DEF SyncInv, TypeOK
  <1>6. \A x \in active : Behind(x) /\ Behind(x)'
    BY <1>3 DEF Behind
  <1> QED
    BY <1>3, <1>4, <1>5, <1>6, BehindPicture

\* The end of the first loop, and a cell that goes to a rival.
LEMMA RivalsPicture ==
  ASSUME SyncInv, SyncInv', PictureInv,
         EndOwn \/ \E p, q \in Players : EatRival(p, q)
  PROVE  PictureInv'
  <1>1. /\ pc \in {"own", "rivals"} /\ pc' \in {"own", "rivals"}
        /\ UNCHANGED <<StaticMap, DynamicMap, Position, moving, active, view, CellHistory,
                       told, unsent, quiet, leftover>>
    BY DEF EndOwn, EatRival, world, sync
  <1>2. CellEvents'.removeStatic = CellEvents.removeStatic
    BY DEF EndOwn, EatRival, SyncInv, TypeOK
  <1>3. \A x \in active : Behind(x) /\ Behind(x)'
    BY <1>1 DEF Behind
  <1> QED
    BY <1>1, <1>2, <1>3, BehindPicture

\* The players' cells move; every player still has its Update before it.
LEMMA MovePlayersPicture ==
  ASSUME SyncInv, SyncInv', PictureInv, MovePlayers
  PROVE  PictureInv'
  <1>1. PICK to \in [PlayerCells -> Places] :
          Position' = [c \in Cell |->
            IF c \in PlayerCells THEN MoveRel(Position[c], to[c]) ELSE Position[c]]
    BY DEF MovePlayers
  <1>2. /\ pc = "rivals" /\ pc' = "update" /\ todo' = active
        /\ UNCHANGED <<StaticMap, DynamicMap, moving, active, view, CellHistory, told, unsent,
                       quiet, leftover>>
    BY DEF MovePlayers, sync
  <1>3. \A c \in DynamicMap \cup Food : Position'[c] = Position[c]
    BY <1>1, Kinds
  <1>4. CellEvents'.removeStatic = CellEvents.removeStatic
    BY DEF MovePlayers, SyncInv, TypeOK
  <1>5. \A x \in active : Behind(x) /\ Behind(x)'
    BY <1>2 DEF Behind
  <1> QED
    BY <1>2, <1>3, <1>4, <1>5, BehindPicture

-----------------------------------------------------------------------------
(* Player::Update                                                          *)

\* What a client makes of an Update's records of food.
LEMMA ReadFood ==
  ASSUME NEW p \in Players, NEW r, NEW v, NEW pic,
         CellEvents.move \cup CellEvents.removeDynamic \subseteq Dynamic
  PROVE  \A f \in Food : Read(pic, p, r, v)[f] =
           IF f \in EnteredFood(p, v) THEN Position[f]
           ELSE IF f \in LeftFood(p, v) \cup EatenFood(p) THEN Unknown ELSE pic[f]
  <1> DEFINE cleaned == RemoveCells(pic, OutOfView(p))
             put     == PutCells(cleaned, Appeared(p, r) \cup Drawn(cleaned, Moved(p, r)))
             parsed  == RemoveCells(put, Removed(p, r) \cup EatenFood(p))
             left    == RemoveCells(parsed, LeftFood(p, v))
             new     == PutCells(left, EnteredFood(p, v))
  <1>1. Read(pic, p, r, v) = new
    BY DEF Read
  <1>2. \A f \in Food : /\ f \in Cell
                        /\ f \notin OutOfView(p) /\ f \notin Removed(p, r)
                        /\ f \notin Appeared(p, r)
                        /\ \A any : f \notin Drawn(any, Moved(p, r))
    BY ViewAssumption DEF Cell, OutOfView, Removed, Appeared, Moved, Drawn
  <1>3. \A f \in Food : new[f] =
              IF f \in EnteredFood(p, v) THEN Position[f]
              ELSE IF f \in LeftFood(p, v) \cup EatenFood(p) THEN Unknown ELSE pic[f]
    BY <1>2 DEF RemoveCells, PutCells
  <1> HIDE DEF new
  <1> QED
    BY <1>1, <1>3

\* What an Update does to the view.
LEMMA RefreshView ==
  ASSUME TypeOK, NEW p \in Players, NEW r, NEW v, Refresh(p, r, v)
  PROVE  /\ view'[p] = v /\ quiet'[p] = quiet[p] \cap VisibleBlocks(v)
         /\ \A q \in Players : q # p => view'[q] = view[q] /\ quiet'[q] = quiet[q]
  BY DEF Refresh, TypeOK

\* A new cell is not one of those that were there.
LEMMA SplitAndFeedDynamic ==
  ASSUME NEW p \in Players, SplitAndFeed(p)
  PROVE  DynamicMap' \subseteq DynamicMap \cup fresh
  <1>1. PICK split \in SUBSET fresh : \E feed \in SUBSET (fresh \ split) :
          \E at \in [split \cup feed -> Places] : Construct(p, split, feed, at)
    BY Zenon DEF SplitAndFeed
  <1> QED
    BY <1>1 DEF Construct

\* What is known and not sent has been in view without moving; the food of the two
\* views is told once.
LEMMA UpdatePlayerPicture ==
  ASSUME SyncInv, SyncInv', PictureInv, NEW p \in Players, UpdatePlayer(p)
  PROVE  PictureInv'
  <1>1. PICK r \in [CellEvents.move \cup CellEvents.removeDynamic -> Radii],
             v \in NextViews(p) : Refresh(p, r, v)
    BY DEF UpdatePlayer
  <1>2. /\ pc = "update" /\ p \in todo /\ SplitAndFeed(p) /\ todo' = todo \ {p}
        /\ UNCHANGED <<pc, StaticMap, moving, CellEvents, active, leftover>>
    BY DEF UpdatePlayer
  <1>3. /\ p \in active /\ v \in View /\ TypeOK
        /\ \A q \in active : q \in Players
    BY <1>2, NextViewsType DEF SyncInv, TypeOK
  <1>4. /\ CellEvents.move \subseteq Live /\ CellEvents.move \subseteq Dynamic
        /\ CellEvents.removeDynamic \subseteq Dynamic
        /\ \A x \in CellEvents.move : Clamped(x)
        /\ \A q \in Players, x \in Live : Known(q, x) => x \in CellEvents.move
    BY <1>2, <1>3 DEF SyncInv, TypeOK, MoveEvents
  <1>5. /\ Live' \subseteq Live \cup fresh
        /\ \A x \in Cell \ fresh : Position'[x] = Position[x]
    BY <1>2, <1>3, SplitAndFeedInv
  <1>6. \A q \in Players, x \in Dynamic : Known(q, x) => x \notin fresh
    BY DEF SyncInv, KnownCells
  <1>7. /\ \A q \in Players : q # p => CellHistory'[q] = CellHistory[q]
        /\ \A x \in Dynamic : CellHistory'[p][x] > 0 <=>
             /\ x \notin CellEvents.removeDynamic
             /\ x \in Appeared(p, r) \/ (Known(p, x) /\ x \notin OutOfView(p))
        /\ \A x \in Dynamic : x \in Removed(p, r) <=>
             /\ x \in CellEvents.removeDynamic
             /\ x \in Appeared(p, r) \/ (Known(p, x) /\ x \notin OutOfView(p))
    BY <1>1, <1>2, <1>3, RefreshHistory
  <1>8. /\ \A q \in Players : q # p => told'[q] = told[q] /\ unsent'[q] = unsent[q]
        /\ told'[p] = Read(told[p], p, r, v) /\ unsent'[p] = Read(unsent[p], p, r, v)
        /\ \A x \in Dynamic : told'[p][x] =
             IF x \in Removed(p, r) THEN Unknown
             ELSE IF x \in Appeared(p, r) \cup Drawn(told[p], Moved(p, r)) THEN Position[x]
             ELSE IF x \in OutOfView(p) THEN Unknown ELSE told[p][x]
    BY <1>1, <1>3, RefreshPicture, ReadPicture DEF TypeOK
  <1>9. \A q \in active : Behind(q)' <=> (q # p /\ Behind(q))
    BY <1>2 DEF Behind
  \* p itself.
  <1>10. ASSUME NEW x \in Live', Known(p, x)', Tangible(x)'
         PROVE  told'[p][x] \in {Unknown, Position'[x]}
    <2>1. /\ x \in Dynamic /\ x \notin CellEvents.removeDynamic
          /\ x \in Appeared(p, r) \/ (Known(p, x) /\ x \notin OutOfView(p))
      BY <1>5, <1>7, <1>10, Kinds DEF Known
    <2>2. x \in Live /\ x \notin fresh /\ x \in CellEvents.move
      BY <1>4, <1>5, <1>6, <2>1, Kinds DEF Appeared
    <2>3. Position'[x] = Position[x]
      BY <1>5, <2>1, <2>2, Kinds
    <2>4. x \notin Removed(p, r)
      BY <1>7, <2>1
    <2>5. CASE x \in Appeared(p, r) \cup Drawn(told[p], Moved(p, r))
      BY <1>8, <2>1, <2>3, <2>4, <2>5
    <2>7. CASE x \notin Appeared(p, r) \cup Drawn(told[p], Moved(p, r)) /\ x \in Moved(p, r)
      <3>1. told[p][x] = Unknown
        BY <2>7 DEF Drawn
      <3> QED
        BY <1>8, <2>1, <2>4, <2>7, <3>1
    <2>6. CASE x \notin Appeared(p, r) \cup Moved(p, r)
      <3>1. Known(p, x) /\ x \notin OutOfView(p)
        BY <2>1, <2>6
      <3>2. Inside(Position[x], view[p]) /\ InMap(Position[x]) /\ view[p] \in View
        BY <1>3, <1>4, <1>10, <2>1, <2>2, <2>3, <3>1
        DEF OutOfView, Known, Clamped, Tangible, TypeOK
      <3>3. r[x] \in Nat
        BY <1>1, <2>2, ViewAssumption
      <3>4. Near(p, r, x)
        BY <3>2, <3>3, InsideReachesEdge DEF Near
      <3>5. Cleaned(p)[x] > 0
        BY <2>1, <3>1 DEF Cleaned, Known
      <3>6. x \notin PlayerCells /\ x \notin moving
        BY <2>2, <2>6, <3>4, <3>5 DEF Moved
      <3>7. x \in DynamicMap \ moving
        BY <2>2, <3>6 DEF Live
      <3>8. told'[p][x] = told[p][x]
        BY <1>8, <2>1, <2>4, <2>6, <3>1 DEF Drawn
      <3> QED
        BY <1>3, <1>10, <2>2, <2>3, <3>1, <3>7, <3>8 DEF PictureInv, PlacesTold, Tangible
    <2> QED
      BY <2>5, <2>6, <2>7
  \* The other players.
  <1>11. ASSUME NEW q \in active, q # p, NEW x \in Live', Known(q, x)', Tangible(x)',
                Behind(q)' => x \in DynamicMap' \ moving
         PROVE  told'[q][x] \in {Unknown, Position'[x]}
    <2>1. x \in Dynamic /\ Known(q, x)
      BY <1>3, <1>5, <1>7, <1>11, Kinds DEF Known
    <2>2. x \in Live /\ x \notin fresh /\ Position'[x] = Position[x]
      BY <1>3, <1>5, <1>6, <2>1, Kinds
    <2>3. Behind(q) => x \in DynamicMap \ moving
      BY <1>2, <1>9, <1>11, <2>2, SplitAndFeedDynamic
    <2> QED
      BY <1>3, <1>8, <1>11, <2>1, <2>2, <2>3, PlaceKept DEF Tangible
  <1>12. PlacesTold'
    BY <1>2, <1>10, <1>11 DEF PlacesTold
  \* Food.
  <1>13. /\ view'[p] = v /\ quiet'[p] = quiet[p] \cap VisibleBlocks(v)
         /\ \A q \in Players : q # p => view'[q] = view[q] /\ quiet'[q] = quiet[q]
         /\ \A f \in Food : \A pic : Read(pic, p, r, v)[f] =
              IF f \in EnteredFood(p, v) THEN Position[f]
              ELSE IF f \in LeftFood(p, v) \cup EatenFood(p) THEN Unknown ELSE pic[f]
    <2>1. \A f \in Food : \A pic : Read(pic, p, r, v)[f] =
              IF f \in EnteredFood(p, v) THEN Position[f]
              ELSE IF f \in LeftFood(p, v) \cup EatenFood(p) THEN Unknown ELSE pic[f]
      <3> TAKE f \in Food
      <3> TAKE pic
      <3> QED
        BY <1>1, <1>3, <1>4, ReadFood
    <2> QED
      BY <1>1, <1>3, <1>4, <2>1, RefreshView
  <1>14. \A f \in Food : Position'[f] = Position[f]
    BY <1>5, Kinds
  <1>15. /\ \A b \in Block : StaticMap[b] \subseteq Food
         /\ \A q \in active : VisibleBlocks(view[q]) \subseteq Block
         /\ VisibleBlocks(v) \subseteq Block
    BY <1>3, VisibleBlocksInMap DEF TypeOK
  <1>16. FoodPlaced' /\ FoodGone'
    BY <1>2, <1>14, <1>15 DEF PictureInv, FoodPlaced, FoodGone, FoodIn
  <1>17. ASSUME NEW f \in Food, NEW pic, Read(pic, p, r, v)[f] # Unknown,
                pic[f] # Unknown => f \in FoodExpected(p)
         PROVE  f \in FoodIn(VisibleBlocks(v))
    <2>1. CASE f \in EnteredFood(p, v)
      BY <2>1 DEF EnteredFood, FoodIn
    <2>2. CASE f \notin EnteredFood(p, v)
      <3>1. pic[f] # Unknown /\ f \notin LeftFood(p, v) /\ f \notin EatenFood(p)
        BY <1>13, <1>17, <2>2
      <3>2. f \in FoodIn(VisibleBlocks(view[p]))
        BY <1>17, <3>1 DEF FoodExpected
      <3> QED
        BY <3>1, <3>2 DEF LeftFood, FoodIn
    <2> QED
      BY <2>1, <2>2
  <1>18. FoodReason'
    <2>1. \A B : FoodIn(B)' = FoodIn(B)
      BY <1>2 DEF FoodIn
    <2>2. FoodExpected(p)' = FoodIn(VisibleBlocks(v))
      BY <1>3, <1>9, <1>13, <2>1 DEF FoodExpected
    <2>3. ASSUME NEW q \in active, q # p
          PROVE  FoodExpected(q)' = FoodExpected(q)
      <3>1. EatenFood(q)' = EatenFood(q) /\ view'[q] = view[q]
        <4>1. CellEvents.removeStatic \subseteq Food /\ view'[q] = view[q]
          BY <1>3, <1>13, <2>3 DEF TypeOK
        <4> QED
          BY <1>2, <1>14, <4>1 DEF EatenFood
      <3> QED
        BY <1>9, <2>1, <2>3, <3>1 DEF FoodExpected
    <2>4. ASSUME NEW f \in Food, NEW q \in active, told'[q][f] # Unknown
          PROVE  f \in leftover[q] \cup FoodExpected(q)'
      <3>1. told[q][f] # Unknown => f \in leftover[q] \cup FoodExpected(q)
        BY DEF PictureInv, FoodReason
      <3>2. CASE q = p /\ f \notin leftover[p]
        BY <1>8, <1>17, <2>2, <2>4, <3>1, <3>2
      <3>3. CASE q # p
        BY <1>3, <1>8, <2>3, <2>4, <3>1, <3>3
      <3> QED
        BY <3>2, <3>3
    <2>5. ASSUME NEW f \in Food, NEW q \in Players, unsent'[q][f] # Unknown
          PROVE  q \in active /\ f \in FoodExpected(q)'
      <3>1. unsent[q][f] # Unknown => q \in active /\ f \in FoodExpected(q)
        BY DEF PictureInv, FoodReason
      <3>2. CASE q = p
        BY <1>3, <1>8, <1>17, <2>2, <2>5, <3>1, <3>2
      <3>3. CASE q # p
        BY <1>8, <2>3, <2>5, <3>1, <3>3
      <3> QED
        BY <3>2, <3>3
    <2> QED
      BY <1>2, <2>4, <2>5 DEF FoodReason
  <1>19. ASSUME NEW b \in VisibleBlocks(v) \ quiet'[p], NEW f \in StaticMap[b]
         PROVE  told'[p][f] = Position[f]
    <2>1. b \in Block /\ f \in Food /\ IndexFromCoord(Position[f]) = b
      BY <1>15 DEF PictureInv, FoodPlaced
    <2>2. CASE b \notin VisibleBlocks(view[p])
      BY <1>8, <1>13, <2>1, <2>2 DEF EnteredFood, FoodIn
    <2>3. CASE b \in VisibleBlocks(view[p])
      <3>1. told[p][f] = Position[f]
        BY <1>3, <1>13, <2>3 DEF PictureInv, EnteredFoodTold
      <3>2. f \notin EatenFood(p)
        BY <1>2, <2>1 DEF PictureInv, FoodGone, FoodIn, EatenFood
      <3>3. f \notin LeftFood(p, v)
        BY <1>3, <1>15, <2>1 DEF PictureInv, FoodPlaced, LeftFood, FoodIn
      <3> QED
        BY <1>8, <1>13, <2>1, <3>1, <3>2, <3>3
    <2> QED
      BY <2>2, <2>3
  <1>20. EnteredFoodTold'
    <2>1. ASSUME NEW q \in active, NEW b \in VisibleBlocks(view'[q]) \ quiet'[q],
                 NEW f \in StaticMap[b]
          PROVE  told'[q][f] = Position[f] /\ f \in Food
      <3>1. CASE q = p
        BY <1>13, <1>15, <1>19, <3>1
      <3>2. CASE q # p
        BY <1>3, <1>8, <1>13, <1>15, <3>2 DEF PictureInv, EnteredFoodTold
      <3> QED
        BY <3>1, <3>2
    <2> QED
      BY <1>2, <1>14, <2>1 DEF EnteredFoodTold
  <1> QED
    BY <1>12, <1>16, <1>18, <1>20 DEF PictureInv

\* Game::ParseEvents takes no food that is not gone already.
LEMMA ParseEventsPicture ==
  ASSUME SyncInv, SyncInv', PictureInv, ParseEvents
  PROVE  PictureInv'
  <1>1. /\ pc = "update" /\ todo = {} /\ pc' = "idle"
        /\ UNCHANGED <<todo, Position, moving, Cells, CellEvents, active, view, CellHistory,
                       told, unsent, quiet, leftover>>
    BY DEF ParseEvents, sync
  <1>2. DynamicMap' = DynamicMap
    BY DEF ParseEvents, SyncInv, EatenCells, Live
  <1>3. StaticMap' = StaticMap
    <2>1. StaticMap \in [Block -> SUBSET Food]
      BY DEF SyncInv, TypeOK
    <2>2. \A b \in Block : StaticMap[b] \cap CellEvents.removeStatic = {}
      BY <1>1 DEF PictureInv, FoodGone, FoodIn
    <2>3. \A b \in Block : StaticMap[b] =
            StaticMap[b] \ {f \in CellEvents.removeStatic : IndexFromCoord(Position[f]) = b}
      BY <2>2
    <2> QED
      BY <2>1, <2>3 DEF ParseEvents
  <1>4. \A p \in Players : ~Behind(p) /\ ~Behind(p)'
    BY <1>1 DEF Behind
  <1>5. active \subseteq Players
    BY DEF SyncInv, TypeOK
  <1>6. PlacesTold'
    BY <1>1, <1>2, <1>4, <1>5 DEF PictureInv, PlacesTold, Known, Tangible, Live, PlayerCells
  <1>7. FoodPlaced' /\ FoodGone' /\ FoodReason' /\ EnteredFoodTold'
    BY <1>1, <1>3, <1>4, <1>5, FoodKept
  <1> QED
    BY <1>6, <1>7 DEF PictureInv

\* A step that changes nothing.
LEMMA StutterPicture ==
  ASSUME SyncInv, SyncInv', PictureInv, UNCHANGED vars
  PROVE  PictureInv'
  <1> USE DEF vars, world, sync
  <1>1. PlacesTold'
    BY DEF PictureInv, PlacesTold, Known, Tangible, Behind, Live, PlayerCells
  <1>2. FoodPlaced' /\ FoodGone' /\ FoodReason' /\ EnteredFoodTold'
    BY FoodKept DEF Behind, PictureInv, FoodGone
  <1> QED
    BY <1>1, <1>2 DEF PictureInv

-----------------------------------------------------------------------------
(* The theorems.                                                           *)

\* What PictureInv says holds in every reachable state, for any number of players
\* and cells and any map.
THEOREM PictureInvariant == Spec => []PictureInv
  <1>1. Init => PictureInv
    BY InitPicture
  <1>2. SyncInv /\ SyncInv' /\ PictureInv /\ [Next]_vars => PictureInv'
    BY WriteableKnownPicture, WriteableNewPicture, PeerInitiatedClosePicture,
       EstablishedPicture, BeginTickPicture, EatStaticPicture, EatDynamicPicture,
       CollideSelfPicture, RivalsPicture, MovePlayersPicture, UpdatePlayerPicture,
       ParseEventsPicture, StutterPicture
    DEF Next
  <1> QED
    BY <1>1, <1>2, SyncInvariant, PTL DEF Spec

\* Between ticks a client knows where every live cell of its history is, unless
\* the cell was sent only to an earlier client of the Player: leaving the records
\* of cells without velocity out loses nothing.
THEOREM PlacesCorrect == Spec => []PositionsTold
  <1>1. SyncInv /\ PictureInv => PositionsTold
    BY Kinds DEF SyncInv, TypeOK, HistoryIsPicture, PictureInv, PlacesTold, PositionsTold, Behind,
           Known, Tangible
  <1> QED
    BY <1>1, SyncInvariant, PictureInvariant, PTL

\* Between ticks no client shows food that was eaten or whose block has left the
\* view since its Player was made.
THEOREM EatenFoodLeaves == Spec => []NoStaleFood
  <1>1. SyncInv /\ PictureInv => NoStaleFood
    BY DEF SyncInv, TypeOK, PictureInv, FoodReason, FoodExpected, FoodIn, NoStaleFood, Behind
  <1> QED
    BY <1>1, SyncInvariant, PictureInvariant, PTL

\* A client knows all the food of the blocks that have come into its view since it
\* got its Player: the differences of the block lists lose none, and no event takes
\* back too much.
THEOREM EnteredFoodComplete == Spec => []EnteredFoodTold
  <1>1. PictureInv => EnteredFoodTold
    BY DEF PictureInv
  <1> QED
    BY <1>1, PictureInvariant, PTL

-----------------------------------------------------------------------------
(* How much one Update appends.                                            *)

\* The sizes of three sets that share nothing and of the set they lie in.
LEMMA ThreeParts ==
  ASSUME NEW S, IsFiniteSet(S), NEW X \in SUBSET S, NEW Y \in SUBSET S, NEW Z \in SUBSET S,
         X \cap Y = {}, X \cap Z = {}, Y \cap Z = {}
  PROVE  /\ Cardinality(X) \in Nat /\ Cardinality(Y) \in Nat /\ Cardinality(Z) \in Nat
         /\ Cardinality(S) \in Nat
         /\ Cardinality(X) + Cardinality(Y) + Cardinality(Z) <= Cardinality(S)
  <1>1. IsFiniteSet(X) /\ IsFiniteSet(Y) /\ IsFiniteSet(Z)
    BY FS_Subset
  <1>2. /\ IsFiniteSet(X \cup Y)
        /\ Cardinality(X \cup Y) = Cardinality(X) + Cardinality(Y) - Cardinality(X \cap Y)
    BY <1>1, FS_Union
  <1>3. /\ IsFiniteSet((X \cup Y) \cup Z)
        /\ Cardinality((X \cup Y) \cup Z)
             = Cardinality(X \cup Y) + Cardinality(Z) - Cardinality((X \cup Y) \cap Z)
    BY <1>1, <1>2, FS_Union
  <1>4. Cardinality(X \cap Y) = 0 /\ Cardinality((X \cup Y) \cap Z) = 0
    <2>1. X \cap Y = {} /\ (X \cup Y) \cap Z = {}
      OBVIOUS
    <2>2. Cardinality({}) = 0
      BY FS_EmptySet
    <2> QED
      BY <2>1, <2>2, Zenon
  <1>5. Cardinality((X \cup Y) \cup Z) <= Cardinality(S)
    <2>1. (X \cup Y) \cup Z \subseteq S
      OBVIOUS
    <2> QED
      BY <2>1, FS_Subset
  <1>6. /\ Cardinality(X) \in Nat /\ Cardinality(Y) \in Nat /\ Cardinality(Z) \in Nat
        /\ Cardinality(S) \in Nat
    BY <1>1, FS_CardinalityType
  <1>7. /\ Cardinality(X \cup Y) = Cardinality(X) + Cardinality(Y)
        /\ Cardinality((X \cup Y) \cup Z) = Cardinality(X \cup Y) + Cardinality(Z)
    BY <1>2, <1>3, <1>4, <1>6
  <1> QED
    BY <1>5, <1>6, <1>7

\* A dynamic cell is announced, moved or removed, or taken out by the clean-up and
\* at most announced again; a food cell is eaten, leaves or enters.
LEMMA BytesOfAnUpdate ==
  ASSUME SyncInv, PictureInv, pc = "update", IsFiniteSet(Food), IsFiniteSet(Dynamic),
         NEW p \in todo, NEW r, NEW v \in View
  PROVE  UpdateBytes(p, r, v) <= MaxUpdateBytes
  <1>1. /\ p \in active /\ p \in Players
        /\ CellEvents.move \subseteq Dynamic /\ CellEvents.removeDynamic \subseteq Dynamic
        /\ CellEvents.removeStatic \subseteq Food
        /\ CellEvents.move \cap CellEvents.removeDynamic = {}
        /\ CellHistory[p] \in [Dynamic -> Nat]
    BY DEF SyncInv, TypeOK, MoveEvents, EatenCells
  <1>2. \A c \in Dynamic : CellHistory[p][c] \in Nat
    BY <1>1
  <1>3. /\ Appeared(p, r) \in SUBSET Dynamic /\ Moved(p, r) \in SUBSET Dynamic
        /\ Removed(p, r) \in SUBSET Dynamic /\ OutOfView(p) \in SUBSET Dynamic
    BY <1>1 DEF Appeared, Moved, Removed, OutOfView
  <1>4. /\ Appeared(p, r) \cap Moved(p, r) = {}
        /\ Appeared(p, r) \cap Removed(p, r) = {}
        /\ Moved(p, r) \cap Removed(p, r) = {}
    BY <1>1 DEF Appeared, Moved, Removed
  <1>5. /\ OutOfView(p) \cap Moved(p, r) = {}
        /\ OutOfView(p) \cap Removed(p, r) = {}
    BY <1>1 DEF Moved, Removed, Added, Appeared, Cleaned
  <1>6. /\ Cardinality(Appeared(p, r)) + Cardinality(Moved(p, r)) + Cardinality(Removed(p, r))
             <= Cardinality(Dynamic)
        /\ Cardinality(OutOfView(p)) + Cardinality(Moved(p, r)) + Cardinality(Removed(p, r))
             <= Cardinality(Dynamic)
        /\ Cardinality(Appeared(p, r)) \in Nat /\ Cardinality(Moved(p, r)) \in Nat
        /\ Cardinality(Removed(p, r)) \in Nat /\ Cardinality(OutOfView(p)) \in Nat
        /\ Cardinality(Dynamic) \in Nat
    BY <1>3, <1>4, <1>5, ThreeParts
  <1>7. /\ VisibleBlocks(v) \subseteq Block /\ VisibleBlocks(view[p]) \subseteq Block
        /\ \A b \in Block : StaticMap[b] \subseteq Food
    BY <1>1, VisibleBlocksInMap DEF SyncInv, TypeOK
  <1>8. /\ EatenFood(p) \in SUBSET Food /\ LeftFood(p, v) \in SUBSET Food
        /\ EnteredFood(p, v) \in SUBSET Food
    BY <1>1, <1>7 DEF EatenFood, LeftFood, EnteredFood, FoodIn
  <1>9. /\ EatenFood(p) \cap LeftFood(p, v) = {} /\ EatenFood(p) \cap EnteredFood(p, v) = {}
    BY <1>7 DEF PictureInv, FoodGone, EatenFood, LeftFood, EnteredFood, FoodIn
  <1>10. LeftFood(p, v) \cap EnteredFood(p, v) = {}
    BY <1>7 DEF PictureInv, FoodPlaced, LeftFood, EnteredFood, FoodIn
  <1>11. /\ Cardinality(EatenFood(p)) + Cardinality(LeftFood(p, v))
              + Cardinality(EnteredFood(p, v)) <= Cardinality(Food)
         /\ Cardinality(EatenFood(p)) \in Nat /\ Cardinality(LeftFood(p, v)) \in Nat
         /\ Cardinality(EnteredFood(p, v)) \in Nat /\ Cardinality(Food) \in Nat
    BY <1>8, <1>9, <1>10, ThreeParts
  <1> DEFINE a == Cardinality(Appeared(p, r))
             m == Cardinality(Moved(p, r))
             d == Cardinality(Removed(p, r))
             o == Cardinality(OutOfView(p))
             e == Cardinality(EatenFood(p))
             l == Cardinality(LeftFood(p, v))
             n == Cardinality(EnteredFood(p, v))
  <1>12. 23 * (a + n) + 21 * m + 5 * (o + d + e + l) + 9
           <= 28 * Cardinality(Dynamic) + 23 * Cardinality(Food) + 9
    <2> HIDE DEF a, m, d, o, e, l, n
    <2>1. /\ a \in Nat /\ m \in Nat /\ d \in Nat /\ o \in Nat /\ e \in Nat /\ l \in Nat
          /\ n \in Nat
          /\ a + m + d <= Cardinality(Dynamic) /\ o + m + d <= Cardinality(Dynamic)
          /\ e + l + n <= Cardinality(Food)
      BY <1>6, <1>11 DEF a, m, d, o, e, l, n
    <2> QED
      BY <1>6, <1>11, <2>1
  <1> QED
    BY <1>12 DEF UpdateBytes, MaxUpdateBytes

\* An Update appends a bounded number of bytes for each cell there can be, since no
\* cell gets two records of a kind: a small enough world fits the buffer of a client
\* that reads between the ticks.
THEOREM UpdatesFit ==
  ASSUME IsFiniteSet(Food), IsFiniteSet(Dynamic)
  PROVE  Spec => []UpdateFits
  <1>1. SyncInv /\ PictureInv => UpdateFits
    BY BytesOfAnUpdate, ViewAssumption DEF UpdateFits
  <1> QED
    BY <1>1, SyncInvariant, PictureInvariant, PTL
=============================================================================
