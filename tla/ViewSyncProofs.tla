--------------------------- MODULE ViewSyncProofs ---------------------------
(***************************************************************************)
(* The inductive invariant SyncInv of ViewSync, for every set of players   *)
(* and cells and every size of the map, and the properties that follow.    *)
(*                                                                         *)
(* The argument: a cell is in a player's CellHistory only if its position  *)
(* has been through _MoveAbs (Appeared reads move events, and every live   *)
(* cell has been moved by then).  So a cell that is eaten lies in the map, *)
(* and if the clean-up of the history keeps it (Inside), the removal event *)
(* reaches the player (EdgeInside, by InsideReachesEdge), which takes it   *)
(* out before the player's Update is over.  KnownReason says this between  *)
(* the stages of a tick; the other parts carry the types and ownership.    *)
(* UnsentAgrees is what a client that takes a Player over can count on:    *)
(* what the buffer leaves on its blank screen is known.                    *)
(* There is one lemma per action, with one step per part of the invariant. *)
(***************************************************************************)
EXTENDS ViewSync, GridProofs

-----------------------------------------------------------------------------
(* The pictures and the histories are functions of the right type.         *)

\* Telling a client of cells leaves it with a picture.
LEMMA PutCellsType ==
  ASSUME NEW pic \in Picture, NEW S, Position \in [Cell -> Point]
  PROVE  PutCells(pic, S) \in Picture
  BY DEF PutCells, Picture

\* And so does taking cells away.
LEMMA RemoveCellsType ==
  ASSUME NEW pic \in Picture, NEW S
  PROVE  RemoveCells(pic, S) \in Picture
  BY DEF RemoveCells, Picture

\* Two coordinates that are not numbers are a point.
LEMMA NowherePoint == Nowhere \in Point
  BY DEF Nowhere, Point, Scalar

\* The world Map::Init makes, with no player, satisfies the invariant.
LEMMA InitInv ==
  ASSUME Init
  PROVE  SyncInv
  <1> USE DEF Init
  <1>1. TypeOK
    <2>1. Position \in [Cell -> Point]
      BY ViewAssumption, NowherePoint DEF InMapPlaces
    <2>2. StaticMap \in [Block -> SUBSET Food]
      OBVIOUS
    <2>3. view \in [Players -> View]
      BY ViewAssumption
    <2>4. /\ CellHistory \in [Players -> [Dynamic -> Nat]]
          /\ told \in [Players -> Picture] /\ unsent = told
      BY DEF NoHistory, Blank, Picture
    <2> QED
      BY <2>1, <2>2, <2>3, <2>4 DEF TypeOK, NoEvents, Dynamic
  <1>2. NoDuplicates /\ KnownCells /\ KnownReason
    BY DEF NoDuplicates, KnownCells, KnownReason, Known, NoHistory
  <1>3. HistoryIsPicture /\ UnsentAgrees
    BY DEF HistoryIsPicture, UnsentAgrees, Blank, Cell
  <1>4. OneOwner
    BY ViewAssumption DEF OneOwner, PlayerCells, Live
  <1>5. EatenCells /\ MoveEvents
    BY DEF EatenCells, MoveEvents
  <1> QED
    BY <1>1, <1>2, <1>3, <1>4, <1>5 DEF SyncInv

-----------------------------------------------------------------------------
(* The callbacks between two ticks.                                        *)

\* Sending leaves every client with a picture, and buffers that agree with it.
LEMMA FlushType ==
  ASSUME TypeOK, NEW S, Flush(S)
  PROVE  /\ shown' \in [Players -> Picture] /\ unsent' \in [Players -> Picture]
         /\ \A p \in Players, c \in Cell : unsent'[p][c] \in {Unknown, unsent[p][c]}
  <1>1. Blank \in Picture /\ \A c \in Cell : Blank[c] = Unknown
    BY DEF Blank, Picture
  <1>2. shown' \in [Players -> Picture] /\ unsent' \in [Players -> Picture]
    BY <1>1 DEF TypeOK, Flush
  <1>3. \A p \in Players, c \in Cell : unsent'[p][c] \in {Unknown, unsent[p][c]}
    BY <1>1 DEF Flush
  <1> QED
    BY <1>2, <1>3

\* A writable callback of a connection with a Player changes only what is shown.
LEMMA WriteableKnownInv ==
  ASSUME SyncInv, NEW w \in Players, WriteableKnown(w)
  PROVE  SyncInv'
  <1> USE DEF WriteableKnown, world, SyncInv
  <1>1. TypeOK'
    BY FlushType DEF TypeOK
  <1>2. NoDuplicates' /\ HistoryIsPicture'
    BY DEF NoDuplicates, HistoryIsPicture
  <1>5. UnsentAgrees'
    BY FlushType DEF UnsentAgrees, Known, Cell
  <1>3. OneOwner' /\ KnownCells' /\ KnownReason'
    BY DEF OneOwner, KnownCells, KnownReason, Known, Clamped, Tangible, Behind, Live, PlayerCells
  <1>4. EatenCells' /\ MoveEvents'
    BY DEF EatenCells, MoveEvents, TypeOK
  <1> QED
    BY <1>1, <1>2, <1>3, <1>4, <1>5

\* A new Player starts with an empty history and one fresh cell; what its client
\* showed before is accounted for as leftover.
LEMMA WriteableNewInv ==
  ASSUME SyncInv, NEW w \in Players, WriteableNew(w)
  PROVE  SyncInv'
  <1> PICK S \in SUBSET active, c \in fresh, a \in InMapPlaces, v \in Views :
        /\ Flush(S)
        /\ fresh' = fresh \ {c}
        /\ Position' = [Position EXCEPT ![c] = a]
        /\ Cells' = [Cells EXCEPT ![w] = {c}]
        /\ view' = [view EXCEPT ![w] = v]
        /\ quiet' = [quiet EXCEPT ![w] = VisibleBlocks(v)]
    BY DEF WriteableNew
  <1> USE DEF WriteableNew, SyncInv
  <1>t. /\ c \in Dynamic /\ c \in Cell /\ a \in Point /\ InMap(a) /\ v \in View
        /\ Cells \in [Players -> SUBSET Dynamic] /\ Position \in [Cell -> Point]
        /\ Cells[w] = {}
    BY ViewAssumption DEF TypeOK, Dynamic, Cell, InMapPlaces, OneOwner
  <1>1. TypeOK'
    <2>1. VisibleBlocks(v) \in SUBSET Block
      BY <1>t, VisibleBlocksInMap
    <2>2. leftover' \in [Players -> SUBSET Cell] /\ quiet' \in [Players -> SUBSET Block]
      BY <2>1 DEF TypeOK
    <2>3. Position' \in [Cell -> Point] /\ view' \in [Players -> View]
      BY <1>t DEF TypeOK
    <2> QED
      BY <1>t, <2>2, <2>3, FlushType DEF TypeOK
  <1>c. \A x \in Players : Cells'[x] = IF x = w THEN {c} ELSE Cells[x]
    BY <1>t
  <1>l. Live' = Live \cup {c} /\ c \notin Live
    BY <1>t, <1>c DEF OneOwner, PlayerCells, Live
  <1>k. \A x \in Players : ~Known(x, c)
    BY <1>t DEF KnownCells, Known
  <1>2. NoDuplicates'
    BY DEF NoDuplicates
  <1>3. HistoryIsPicture'
    <2>1. \A x \in Dynamic : x \in Cell
      BY DEF Cell
    <2>2. leftover'[w] = {x \in Cell : told[w][x] # Unknown}
      BY DEF TypeOK
    <2>3. \A x \in Players : x # w => leftover'[x] = leftover[x]
      BY DEF TypeOK
    <2>4. \A x \in Dynamic : ~Known(w, x)
      BY DEF KnownCells
    <2> QED
      BY <2>1, <2>2, <2>3, <2>4 DEF HistoryIsPicture, Known
  <1>8. UnsentAgrees'
    BY FlushType DEF UnsentAgrees, Known, Cell
  <1>4. OneOwner'
    BY <1>t, <1>c, <1>l DEF OneOwner, PlayerCells, Live
  <1>5. KnownCells'
    BY <1>t, <1>k DEF KnownCells, Known, Clamped, Tangible, Cell
  <1>6. EatenCells' /\ MoveEvents'
    BY DEF EatenCells, MoveEvents
  <1>7. KnownReason'
    BY <1>l DEF KnownReason, Known, Behind
  <1> QED
    BY <1>1, <1>2, <1>3, <1>4, <1>5, <1>6, <1>7, <1>8

\* What ErasePlayers does to the ownership and to the histories.
LEMMA ErasePlayersInv ==
  ASSUME SyncInv, NEW E \in SUBSET Players, ErasePlayers(E), UNCHANGED <<DynamicMap, fresh>>
  PROVE  /\ OneOwner' /\ NoDuplicates'
         /\ Live \subseteq Live' \cup abandoned' /\ Live' \subseteq Live
         /\ Cells' \in [Players -> SUBSET Dynamic]
         /\ abandoned \subseteq abandoned' /\ abandoned' \subseteq Dynamic
         /\ CellHistory' \in [Players -> [Dynamic -> Nat]]
         /\ quiet' \in [Players -> SUBSET Block]
         /\ leftover' \in [Players -> SUBSET Cell]
         /\ inherited' \in [Players -> SUBSET Dynamic]
         /\ unsent' \in [Players -> Picture]
         /\ \A x \in Players : x \notin E => unsent'[x] = unsent[x]
         /\ \A x \in E, c \in Cell : unsent'[x][c] = Unknown
         /\ \A x \in Players, c \in Dynamic :
              (CellHistory'[x][c] > 0) <=> (x \notin E /\ CellHistory[x][c] > 0)
  <1> USE DEF ErasePlayers, SyncInv
  <1>t. Cells \in [Players -> SUBSET Dynamic]
    BY DEF TypeOK
  <1>1. OneOwner'
    BY <1>t DEF OneOwner, PlayerCells, Live
  <1>2. NoDuplicates' /\ CellHistory' \in [Players -> [Dynamic -> Nat]]
    BY DEF NoDuplicates, NoHistory, TypeOK
  <1>3. /\ Live \subseteq Live' \cup abandoned' /\ Live' \subseteq Live
        /\ abandoned' \subseteq Dynamic
    BY <1>t DEF PlayerCells, Live, TypeOK
  <1>4. \A x \in Players, c \in Dynamic :
          (CellHistory'[x][c] > 0) <=> (x \notin E /\ CellHistory[x][c] > 0)
    BY DEF NoHistory
  <1>5. /\ unsent' \in [Players -> Picture]
        /\ \A x \in Players : x \notin E => unsent'[x] = unsent[x]
        /\ \A x \in E, c \in Cell : unsent'[x][c] = Unknown
    BY DEF TypeOK, Blank, Picture
  <1> QED
    BY <1>t, <1>1, <1>2, <1>3, <1>4, <1>5 DEF TypeOK

\* A Player that leaves takes its history along; its cells are abandoned.
LEMMA PeerInitiatedCloseInv ==
  ASSUME SyncInv, NEW w \in Players, PeerInitiatedClose(w)
  PROVE  SyncInv'
  <1> USE DEF PeerInitiatedClose, SyncInv
  <1>e. /\ ErasePlayers({w}) /\ UNCHANGED <<DynamicMap, fresh>>
        /\ {w} \in SUBSET Players
    OBVIOUS
  <1>a. active' = active \ {w}
    BY DEF ErasePlayers
  <1>1. TypeOK'
    <2>1. Blank \in Picture
      BY DEF Blank, Picture
    <2>2. todo = {}
      BY DEF TypeOK
    <2> QED
      BY <1>e, <1>a, <2>1, <2>2, ErasePlayersInv DEF TypeOK
  <1>2. OneOwner' /\ NoDuplicates'
    BY <1>e, ErasePlayersInv
  <1>3. HistoryIsPicture'
    <2>1. \A x \in active' : /\ told'[x] = told[x] /\ leftover'[x] = leftover[x]
                             /\ CellHistory'[x] = CellHistory[x]
                             /\ inherited'[x] = inherited[x]
      BY <1>a DEF TypeOK, ErasePlayers
    <2> QED
      BY <1>a, <2>1 DEF HistoryIsPicture
  <1>7. UnsentAgrees'
    <2>1. \A x \in Players : x \notin {w} => told'[x] = told[x] /\ unsent'[x] = unsent[x]
      BY <1>e, ErasePlayersInv DEF TypeOK
    <2>2. \A x \in {w}, c \in Cell : unsent'[x][c] = Unknown
      BY <1>e, ErasePlayersInv
    <2>3. \A x \in Players, c \in Dynamic : x \notin {w} /\ Known(x, c) => Known(x, c)'
      BY <1>e, ErasePlayersInv DEF Known
    <2>4. Dynamic \subseteq Cell
      BY DEF Cell
    <2>5. ASSUME NEW x \in Players
          PROVE  /\ \A c \in Cell : unsent'[x][c] \in {Unknown, told'[x][c]}
                 /\ \A c \in Dynamic : unsent'[x][c] # Unknown => Known(x, c)'
      <3>1. CASE x \in {w}
        BY <2>2, <2>4, <3>1
      <3>2. CASE x \notin {w}
        BY <2>1, <2>3, <3>2 DEF UnsentAgrees
      <3> QED
        BY <3>1, <3>2
    <2> QED
      BY <2>5 DEF UnsentAgrees
  <1>4. KnownCells'
    BY <1>e, <1>a, ErasePlayersInv DEF KnownCells, Known, Clamped, Tangible
  <1>5. KnownReason'
    BY <1>e, ErasePlayersInv DEF KnownReason, Known, Behind
  <1>6. EatenCells' /\ MoveEvents'
    BY DEF EatenCells, MoveEvents
  <1> QED
    BY <1>1, <1>2, <1>3, <1>4, <1>5, <1>6, <1>7

\* Another client takes the place of the one a Player was made for.  What it will
\* show is what the buffer leaves on a blank screen, all of it known; the rest of
\* the history it inherits.
LEMMA EstablishedInv ==
  ASSUME SyncInv, NEW w \in Players, Established(w)
  PROVE  SyncInv'
  <1> USE DEF Established, world, SyncInv
  <1>1. TypeOK'
    <2>1. w \in active => VisibleBlocks(view[w]) \subseteq Block
      BY VisibleBlocksInMap DEF TypeOK
    <2>2. Blank \in Picture
      BY DEF Blank, Picture
    <2> QED
      BY <2>1, <2>2 DEF TypeOK
  <1>2. NoDuplicates'
    BY DEF NoDuplicates
  <1>t. \A x \in Players :
          /\ told'[x] = IF x = w THEN unsent[w] ELSE told[x]
          /\ x # w => inherited'[x] = inherited[x] /\ leftover'[x] = leftover[x]
    BY DEF TypeOK
  <1>3. HistoryIsPicture'
    <2>1. inherited'[w] = {c \in Dynamic : CellHistory[w][c] > 0 /\ unsent[w][c] = Unknown}
      BY DEF TypeOK
    <2>3. told'[w] = unsent[w]
      BY <1>t
    <2>4. \A c \in Dynamic :
            /\ CellHistory[w][c] > 0 => told'[w][c] # Unknown \/ c \in inherited'[w]
            /\ told'[w][c] # Unknown => CellHistory[w][c] > 0
      <3>1. \A c \in Dynamic : unsent[w][c] # Unknown => CellHistory[w][c] > 0
        BY DEF UnsentAgrees, Known
      <3> QED
        BY <2>1, <2>3, <3>1
    <2>2. ASSUME NEW x \in active, NEW c \in Dynamic
          PROVE  /\ CellHistory[x][c] > 0 => told'[x][c] # Unknown \/ c \in inherited'[x]
                 /\ told'[x][c] # Unknown => CellHistory[x][c] > 0 \/ c \in leftover'[x]
      <3>1. x \in Players
        BY DEF TypeOK
      <3>2. CASE x = w
        BY <2>4, <3>2
      <3>3. CASE x # w
        BY <1>t, <3>1, <3>3 DEF HistoryIsPicture
      <3> QED
        BY <3>2, <3>3
    <2> QED
      BY <2>2 DEF HistoryIsPicture
  <1>4. UnsentAgrees'
    BY <1>t DEF UnsentAgrees, Known
  <1>5. OneOwner' /\ KnownCells' /\ KnownReason'
    BY DEF OneOwner, KnownCells, KnownReason, Known, Clamped, Tangible, Behind, Live, PlayerCells
  <1>6. EatenCells' /\ MoveEvents'
    BY DEF EatenCells, MoveEvents, TypeOK
  <1> QED
    BY <1>1, <1>2, <1>3, <1>4, <1>5, <1>6

-----------------------------------------------------------------------------
(* The stages of game_loop_cb.                                             *)

\* The start of a tick: no events, the dynamic cells clamped into the map, and
\* the overflowed players gone.
LEMMA BeginTickInv ==
  ASSUME SyncInv, BeginTick
  PROVE  SyncInv'
  <1> USE DEF BeginTick, SyncInv
  <1> PICK M \in SUBSET DynamicMap : \E to \in [M -> {a \in Places : Placed(a)}] :
        /\ moving' = M
        /\ Position' = [c \in Cell |->
             IF c \in M THEN MoveRel(Position[c], to[c])
             ELSE IF c \in DynamicMap THEN MoveAbs(Position[c]) ELSE Position[c]]
    OBVIOUS
  <1> PICK to \in [M -> {a \in Places : Placed(a)}] :
        Position' = [c \in Cell |->
          IF c \in M THEN MoveRel(Position[c], to[c])
          ELSE IF c \in DynamicMap THEN MoveAbs(Position[c]) ELSE Position[c]]
    OBVIOUS
  <1> PICK E \in SUBSET active :
        /\ ErasePlayers(E)
        /\ told' = [p \in Players |-> IF p \in E THEN shown[p] ELSE told[p]]
    OBVIOUS
  <1>e. /\ E \in SUBSET Players /\ ErasePlayers(E) /\ UNCHANGED <<DynamicMap, fresh>>
        /\ active' = active \ E
    BY DEF TypeOK, ErasePlayers
  <1>m. /\ Position' \in [Cell -> Point]
        /\ \A c \in DynamicMap : Clamped(c)'
        /\ \A c \in Cell : Clamped(c) => Clamped(c)'
    <2>1. /\ Position \in [Cell -> Point] /\ DynamicMap \subseteq Cell
          /\ \A c \in M : to[c] \in Point
      BY ViewAssumption DEF TypeOK, Cell
    <2>2. \A x \in Point : MoveAbs(x) \in Point /\ (~Placed(MoveAbs(x)) \/ InMap(MoveAbs(x)))
      BY MoveAbsPoint, MoveAbsInMap
    <2>3. \A c \in M :
            /\ MoveRel(Position[c], to[c]) \in Point
            /\ ~Placed(MoveRel(Position[c], to[c])) \/ InMap(MoveRel(Position[c], to[c]))
      BY <2>1, MoveRelPoint
    <2>4. \A c \in Cell : Position'[c] \in Point
      BY <2>1, <2>2, <2>3
    <2>5. \A c \in DynamicMap : Clamped(c)'
      BY <2>1, <2>2, <2>3 DEF Clamped, Tangible
    <2> QED
      BY <2>4, <2>5 DEF Clamped, Tangible
  <1>1. TypeOK'
    <2>1. todo = {} /\ NoEvents \in [move : SUBSET Dynamic, removeStatic : SUBSET Food,
                                     removeDynamic : SUBSET Dynamic]
      BY DEF TypeOK, NoEvents
    <2>2. told' \in [Players -> Picture]
      BY DEF TypeOK
    <2> QED
      BY <1>e, <1>m, <2>1, <2>2, ErasePlayersInv DEF TypeOK
  <1>2. OneOwner' /\ NoDuplicates'
    BY <1>e, ErasePlayersInv
  <1>3. HistoryIsPicture'
    <2>1. \A x \in active' : /\ told'[x] = told[x] /\ leftover'[x] = leftover[x]
                             /\ CellHistory'[x] = CellHistory[x]
                             /\ inherited'[x] = inherited[x]
      BY <1>e DEF TypeOK, ErasePlayers
    <2> QED
      BY <1>e, <2>1 DEF HistoryIsPicture
  <1>7. UnsentAgrees'
    <2>1. \A x \in Players : x \notin E => told'[x] = told[x] /\ unsent'[x] = unsent[x]
      BY <1>e, ErasePlayersInv DEF TypeOK
    <2>2. \A x \in E, c \in Cell : unsent'[x][c] = Unknown
      BY <1>e, ErasePlayersInv
    <2>3. \A x \in Players, c \in Dynamic : x \notin E /\ Known(x, c) => Known(x, c)'
      BY <1>e, ErasePlayersInv DEF Known
    <2>4. Dynamic \subseteq Cell
      BY DEF Cell
    <2>5. ASSUME NEW x \in Players
          PROVE  /\ \A c \in Cell : unsent'[x][c] \in {Unknown, told'[x][c]}
                 /\ \A c \in Dynamic : unsent'[x][c] # Unknown => Known(x, c)'
      <3>1. CASE x \in E
        BY <2>2, <2>4, <3>1
      <3>2. CASE x \notin E
        BY <2>1, <2>3, <3>2 DEF UnsentAgrees
      <3> QED
        BY <3>1, <3>2
    <2> QED
      BY <2>5 DEF UnsentAgrees
  <1>4. KnownCells'
    BY <1>e, <1>m, ErasePlayersInv DEF KnownCells, Known, Cell
  <1>5. KnownReason'
    <2>1. \A x \in Players : ~Behind(x)
      BY DEF Behind, TypeOK
    <2> QED
      BY <1>e, <2>1, ErasePlayersInv DEF KnownReason, Known, Behind
  <1>6. EatenCells' /\ MoveEvents'
    BY <1>m DEF EatenCells, MoveEvents, NoEvents
  <1> QED
    BY <1>1, <1>2, <1>3, <1>4, <1>5, <1>6, <1>7

\* Eating food concerns no history.
LEMMA EatStaticInv ==
  ASSUME SyncInv, NEW p \in Players, EatStatic(p)
  PROVE  SyncInv'
  <1> PICK b \in Block : \E f \in StaticMap[b] :
        /\ StaticMap' = [StaticMap EXCEPT ![b] = @ \ {f}]
        /\ CellEvents' = [CellEvents EXCEPT !.removeStatic = @ \cup {f}]
    BY DEF EatStatic
  <1> PICK f \in StaticMap[b] :
        /\ StaticMap' = [StaticMap EXCEPT ![b] = @ \ {f}]
        /\ CellEvents' = [CellEvents EXCEPT !.removeStatic = @ \cup {f}]
    OBVIOUS
  <1> USE DEF EatStatic, sync, SyncInv
  <1>e. /\ f \in Food
        /\ CellEvents'.move = CellEvents.move
        /\ CellEvents'.removeDynamic = CellEvents.removeDynamic
    BY DEF TypeOK
  <1>1. TypeOK'
    BY <1>e DEF TypeOK
  <1>2. NoDuplicates' /\ HistoryIsPicture' /\ UnsentAgrees'
    BY DEF NoDuplicates, HistoryIsPicture, UnsentAgrees, Known
  <1>3. OneOwner' /\ KnownCells' /\ KnownReason'
    BY <1>e DEF OneOwner, KnownCells, KnownReason, Known, Clamped, Tangible, Behind, Live, PlayerCells
  <1>4. EatenCells' /\ MoveEvents'
    BY <1>e DEF EatenCells, MoveEvents, Live, PlayerCells, Known, Clamped, Tangible
  <1> QED
    BY <1>1, <1>2, <1>3, <1>4

\* A virus or feed that is eaten has its event, lies in the map if anybody knows
\* it, and does not come back.  The cells a virus pops out are known to nobody.
LEMMA EatDynamicInv ==
  ASSUME SyncInv, NEW p \in Players, EatDynamic(p)
  PROVE  SyncInv'
  <1>a. PICK d \in DynamicMap, pop \in SUBSET fresh : \E at \in [pop -> Places] :
          /\ Tangible(d)
          /\ pop # {} => d \in Viruses /\ Cardinality(Cells[p] \cup pop) <= MAX_CELLS
          /\ DynamicMap' = DynamicMap \ {d}
          /\ CellEvents' = [CellEvents EXCEPT !.removeDynamic = @ \cup {d}]
          /\ Cells' = [Cells EXCEPT ![p] = @ \cup pop]
          /\ fresh' = fresh \ pop
          /\ Position' = [c \in Cell |-> IF c \in pop THEN at[c] ELSE Position[c]]
    BY DEF EatDynamic
  <1>b. /\ Tangible(d)
        /\ DynamicMap' = DynamicMap \ {d}
        /\ CellEvents' = [CellEvents EXCEPT !.removeDynamic = @ \cup {d}]
        /\ Cells' = [Cells EXCEPT ![p] = @ \cup pop]
        /\ fresh' = fresh \ pop
    BY <1>a
  <1> PICK at \in [pop -> Places] :
        Position' = [c \in Cell |-> IF c \in pop THEN at[c] ELSE Position[c]]
    BY <1>a
  <1>u. /\ pc = "own" /\ p \in active
        /\ UNCHANGED <<pc, todo, StaticMap, moving, abandoned, active, view, CellHistory,
                       told, unsent, quiet, inherited, shown, leftover>>
    BY DEF EatDynamic, CanEat, sync
  <1> USE <1>b, <1>u DEF SyncInv
  <1>t. /\ Cells \in [Players -> SUBSET Dynamic] /\ d \in Dynamic /\ pop \subseteq Dynamic
        /\ DynamicMap \subseteq Dynamic /\ Dynamic \subseteq Cell
        /\ pop \subseteq fresh
    BY DEF TypeOK, Dynamic, Cell
  <1>c. \A x \in Players : Cells'[x] = Cells[x] \cup (IF x = p THEN pop ELSE {})
    BY <1>t
  <1>e. /\ CellEvents'.move = CellEvents.move
        /\ CellEvents'.removeDynamic = CellEvents.removeDynamic \cup {d}
        /\ CellEvents' \in [move : SUBSET Dynamic, removeStatic : SUBSET Food,
                            removeDynamic : SUBSET Dynamic]
    BY <1>t DEF TypeOK
  <1>l. /\ Live' = (Live \ {d}) \cup pop
        /\ d \notin fresh /\ pop \cap Live = {}
    BY <1>t, <1>c DEF OneOwner, PlayerCells, Live
  <1>o. \A c \in Cell : c \notin fresh => Position'[c] = Position[c]
    OBVIOUS
  <1>1. TypeOK'
    <2>1. Position' \in [Cell -> Point]
      BY ViewAssumption DEF TypeOK
    <2>2. Cells' \in [Players -> SUBSET Dynamic]
      BY <1>t
    <2> QED
      BY <1>e, <1>t, <2>1, <2>2 DEF TypeOK
  <1>2. NoDuplicates' /\ HistoryIsPicture' /\ UnsentAgrees'
    BY DEF NoDuplicates, HistoryIsPicture, UnsentAgrees, Known
  <1>3. OneOwner'
    BY <1>t, <1>c, <1>l DEF OneOwner, PlayerCells, Live
  <1>4. KnownCells'
    BY <1>t, <1>o DEF KnownCells, Known, Clamped, Tangible
  <1>5. KnownReason'
    BY <1>e, <1>l DEF KnownReason, Known, Behind
  <1>6. EatenCells'
    <2>1. CellEvents'.removeDynamic \cap (Live' \cup fresh') = {}
      BY <1>e, <1>l DEF EatenCells
    <2>2. ASSUME NEW x \in Players, NEW c \in CellEvents'.removeDynamic, Known(x, c)'
          PROVE  Tangible(c)'
      <3>1. c \in Dynamic /\ Known(x, c) /\ c \notin fresh
        BY <1>e, <2>2 DEF Known, KnownCells
      <3> QED
        BY <1>e, <1>t, <1>o, <3>1 DEF EatenCells, Tangible
    <2> QED
      BY <2>1, <2>2 DEF EatenCells
  <1>7. MoveEvents'
    BY <1>t, <1>l, <1>o DEF MoveEvents, Clamped, Tangible, OneOwner, Live
  <1> QED
    BY <1>1, <1>2, <1>3, <1>4, <1>5, <1>6, <1>7

\* A merge: the cells that were eaten have events, those that were lost are
\* abandoned, and the pushed ones stay in the map.
LEMMA CollideSelfInv ==
  ASSUME SyncInv, NEW p \in Players, CollideSelf(p)
  PROVE  SyncInv'
  <1> PICK pushed \in SUBSET {c \in Cells[p] : Tangible(c)} : \E to \in [pushed -> Places] :
        Position' = [c \in Cell |-> IF c \in pushed THEN MoveAbs(to[c]) ELSE Position[c]]
    BY DEF CollideSelf
  <1> PICK to \in [pushed -> Places] :
        Position' = [c \in Cell |-> IF c \in pushed THEN MoveAbs(to[c]) ELSE Position[c]]
    OBVIOUS
  <1> PICK eaten \in SUBSET Cells[p], lost \in SUBSET Cells[p] :
        /\ \A c \in eaten : Placed(Position'[c])
        /\ Cells' = [Cells EXCEPT ![p] = @ \ (eaten \cup lost)]
        /\ abandoned' = abandoned \cup lost
        /\ CellEvents' = [CellEvents EXCEPT !.removeDynamic = @ \cup eaten]
    BY DEF CollideSelf
  <1> USE DEF CollideSelf, sync, SyncInv
  <1>t. /\ Cells \in [Players -> SUBSET Dynamic] /\ eaten \subseteq Dynamic
        /\ lost \subseteq Dynamic /\ pushed \subseteq Cells[p]
        /\ Dynamic \subseteq Cell
    BY DEF TypeOK, Cell
  <1>c. \A x \in Players : Cells'[x] = Cells[x] \ (IF x = p THEN eaten \cup lost ELSE {})
    BY <1>t
  <1>e. /\ CellEvents'.move = CellEvents.move
        /\ CellEvents'.removeDynamic = CellEvents.removeDynamic \cup eaten
        /\ CellEvents' \in [move : SUBSET Dynamic, removeStatic : SUBSET Food,
                            removeDynamic : SUBSET Dynamic]
    BY <1>t DEF TypeOK
  <1>l. /\ Live' = Live \ (eaten \cup lost) /\ eaten \subseteq Live
        /\ pushed \cap DynamicMap = {} /\ pushed \subseteq Live
    BY <1>t, <1>c DEF OneOwner, PlayerCells, Live
  <1>m. /\ Position' \in [Cell -> Point]
        /\ \A c \in Cell : Clamped(c) => Clamped(c)'
    <2>1. \A c \in pushed : to[c] \in Point
      BY ViewAssumption
    <2>2. \A x \in Point : MoveAbs(x) \in Point /\ (~Placed(MoveAbs(x)) \/ InMap(MoveAbs(x)))
      BY MoveAbsPoint, MoveAbsInMap
    <2> QED
      BY <2>1, <2>2 DEF TypeOK, Clamped, Tangible
  <1>1. TypeOK'
    <2>1. Cells' \in [Players -> SUBSET Dynamic]
      BY <1>t
    <2> QED
      BY <1>e, <1>m, <1>t, <2>1 DEF TypeOK
  <1>2. NoDuplicates' /\ HistoryIsPicture' /\ UnsentAgrees'
    BY DEF NoDuplicates, HistoryIsPicture, UnsentAgrees, Known
  <1>3. OneOwner'
    BY <1>t, <1>c, <1>l DEF OneOwner, PlayerCells, Live
  <1>4. KnownCells'
    BY <1>t, <1>m DEF KnownCells, Known
  <1>5. KnownReason'
    BY <1>e, <1>l DEF KnownReason, Known, Behind
  <1>6. EatenCells'
    <2>1. CellEvents'.removeDynamic \cap (Live' \cup fresh') = {}
      BY <1>e, <1>l DEF EatenCells, OneOwner
    <2>2. ASSUME NEW x \in Players, NEW c \in CellEvents'.removeDynamic, Known(x, c)'
          PROVE  Tangible(c)'
      <3>1. CASE c \in eaten
        BY <3>1 DEF Tangible
      <3>2. CASE c \in CellEvents.removeDynamic
        <4>1. c \in Cell /\ c \notin pushed
          BY <1>e, <1>t, <1>l, <3>2 DEF EatenCells
        <4> QED
          BY <2>2, <3>2, <4>1 DEF EatenCells, Known, Tangible
      <3> QED
        BY <1>e, <3>1, <3>2
    <2> QED
      BY <2>1, <2>2 DEF EatenCells
  <1>7. MoveEvents'
    BY <1>t, <1>m, <1>l DEF MoveEvents, TypeOK
  <1> QED
    BY <1>1, <1>2, <1>3, <1>4, <1>5, <1>6, <1>7

\* The end of the first loop over the players.
LEMMA EndOwnInv ==
  ASSUME SyncInv, EndOwn
  PROVE  SyncInv'
  <1> USE DEF EndOwn, world, sync, SyncInv
  <1>1. TypeOK' /\ NoDuplicates' /\ HistoryIsPicture' /\ UnsentAgrees'
    BY DEF TypeOK, NoDuplicates, HistoryIsPicture, UnsentAgrees, Known
  <1>2. OneOwner' /\ KnownCells' /\ KnownReason'
    BY DEF OneOwner, KnownCells, KnownReason, Known, Clamped, Tangible, Behind, Live, PlayerCells
  <1>3. EatenCells' /\ MoveEvents'
    BY DEF EatenCells, MoveEvents, Known, Clamped, Tangible, Live, PlayerCells
  <1> QED
    BY <1>1, <1>2, <1>3

\* A cell eaten by another player leaves its owner with an event.
LEMMA EatRivalInv ==
  ASSUME SyncInv, NEW p \in Players, NEW q \in Players, EatRival(p, q)
  PROVE  SyncInv'
  <1> PICK c \in Cells[q] :
        /\ Tangible(c)
        /\ Cells' = [Cells EXCEPT ![q] = @ \ {c}]
        /\ CellEvents' = [CellEvents EXCEPT !.removeDynamic = @ \cup {c}]
    BY DEF EatRival
  <1> USE DEF EatRival, sync, SyncInv
  <1> DEFINE E == CellEvents.removeDynamic
  <1>t. TypeOK /\ Cells \in [Players -> SUBSET Dynamic] /\ c \in Dynamic
    BY DEF TypeOK
  <1>c. \A x \in Players : Cells'[x] = Cells[x] \ (IF x = q THEN {c} ELSE {})
    BY <1>t
  <1>e. /\ CellEvents'.move = CellEvents.move
        /\ CellEvents'.removeDynamic = E \cup {c}
        /\ CellEvents'.removeStatic = CellEvents.removeStatic
    BY <1>t DEF TypeOK
  <1>1. TypeOK'
    BY <1>t DEF TypeOK
  <1>2. NoDuplicates'
    BY DEF NoDuplicates
  <1>3. HistoryIsPicture' /\ UnsentAgrees'
    BY DEF HistoryIsPicture, UnsentAgrees, Known
  <1>4. OneOwner'
    BY <1>t, <1>c DEF OneOwner, PlayerCells, Live
  <1>l. Live' = Live \ {c}
    BY <1>t, <1>c DEF OneOwner, PlayerCells, Live
  <1>5. KnownCells'
    BY DEF KnownCells, Known, Clamped, Tangible
  <1>6. EatenCells'
    BY <1>t, <1>e, <1>l DEF EatenCells, OneOwner, PlayerCells, Live, Known, Tangible
  <1>7. KnownReason'
    BY <1>e, <1>l DEF KnownReason, Known, Behind
  <1>8. MoveEvents'
    BY DEF MoveEvents, Clamped, Tangible
  <1> QED BY <1>1, <1>2, <1>3, <1>4, <1>5, <1>6, <1>7, <1>8

\* After the players' cells have moved, every live cell lies in the map and has
\* a move event.
LEMMA MovePlayersInv ==
  ASSUME SyncInv, MovePlayers
  PROVE  SyncInv'
  <1> PICK to \in [PlayerCells -> Places] :
        Position' = [c \in Cell |->
          IF c \in PlayerCells THEN MoveRel(Position[c], to[c]) ELSE Position[c]]
    BY DEF MovePlayers
  <1> USE DEF MovePlayers, sync, SyncInv
  <1>t. /\ PlayerCells \subseteq Cell /\ Live \subseteq Dynamic
        /\ Dynamic \subseteq Cell
    BY DEF TypeOK, Cell, PlayerCells, Live
  <1>e. /\ CellEvents'.move = Live
        /\ CellEvents'.removeDynamic = CellEvents.removeDynamic
        /\ CellEvents' \in [move : SUBSET Dynamic, removeStatic : SUBSET Food,
                            removeDynamic : SUBSET Dynamic]
    BY <1>t DEF TypeOK
  <1>l. Live' = Live
    BY DEF Live, PlayerCells
  <1>m. /\ Position' \in [Cell -> Point]
        /\ \A c \in PlayerCells : Clamped(c)'
        /\ \A c \in Cell : Clamped(c) => Clamped(c)'
    <2>1. \A c \in PlayerCells : Position[c] \in Point /\ to[c] \in Point
      BY <1>t, ViewAssumption DEF TypeOK
    <2>2. \A c \in PlayerCells :
            /\ MoveRel(Position[c], to[c]) \in Point
            /\ ~Placed(MoveRel(Position[c], to[c])) \/ InMap(MoveRel(Position[c], to[c]))
      BY <2>1, MoveRelPoint
    <2>3. \A c \in PlayerCells : Clamped(c)'
      BY <1>t, <2>2 DEF Clamped, Tangible
    <2>4. Position' \in [Cell -> Point]
      BY <2>2 DEF TypeOK
    <2> QED
      BY <2>3, <2>4 DEF Clamped, Tangible
  <1>1. TypeOK'
    BY <1>e, <1>m DEF TypeOK
  <1>2. NoDuplicates' /\ HistoryIsPicture' /\ UnsentAgrees'
    BY DEF NoDuplicates, HistoryIsPicture, UnsentAgrees, Known
  <1>3. OneOwner'
    BY DEF OneOwner, PlayerCells, Live
  <1>4. KnownCells'
    BY <1>t, <1>m DEF KnownCells, Known
  <1>5. KnownReason'
    BY <1>e, <1>l DEF KnownReason, Known, Behind, KnownCells
  <1>6. EatenCells'
    <2>1. \A c \in CellEvents.removeDynamic : c \in Cell /\ c \notin PlayerCells
      BY <1>t DEF EatenCells, Live, TypeOK
    <2> QED
      BY <1>e, <1>l, <2>1 DEF EatenCells, Known, Tangible
  <1>7. MoveEvents'
    <2>1. \A c \in Live : Clamped(c)'
      BY <1>t, <1>m DEF MoveEvents, Live
    <2> QED
      BY <1>e, <1>l, <2>1 DEF MoveEvents
  <1> QED
    BY <1>1, <1>2, <1>3, <1>4, <1>5, <1>6, <1>7

-----------------------------------------------------------------------------
(* Player::Update                                                          *)

\* The new and fed cells are not known to anybody, and everybody else stays
\* where it is.
LEMMA SplitAndFeedInv ==
  ASSUME SyncInv, pc = "update", NEW p \in Players, p \in active, SplitAndFeed(p)
  PROVE  /\ Position' \in [Cell -> Point]
         /\ Cells' \in [Players -> SUBSET Dynamic]
         /\ DynamicMap' \subseteq Dynamic /\ fresh' \subseteq fresh
         /\ Live \subseteq Live' /\ Live' \subseteq Live \cup fresh
         /\ Live' \cap fresh' = {}
         /\ \A x, y \in Players : x # y => Cells'[x] \cap Cells'[y] = {}
         /\ DynamicMap' \cap PlayerCells' = {}
         /\ \A x \in Players \ active : Cells'[x] = {}
         /\ \A c \in Cell \ fresh : Position'[c] = Position[c]
  <1> USE DEF SyncInv
  <1>1. PICK split \in SUBSET fresh : \E feed \in SUBSET (fresh \ split) :
          \E at \in [split \cup feed -> Places] : Construct(p, split, feed, at)
    BY Zenon DEF SplitAndFeed
  <1>2. PICK feed \in SUBSET (fresh \ split) :
          \E at \in [split \cup feed -> Places] : Construct(p, split, feed, at)
    BY <1>1
  <1>3. PICK at \in [split \cup feed -> Places] : Construct(p, split, feed, at)
    BY <1>2
  <1> USE DEF Construct
  <1>t. /\ Cells \in [Players -> SUBSET Dynamic] /\ fresh \subseteq Dynamic
        /\ DynamicMap \subseteq Dynamic
    BY DEF TypeOK, Dynamic
  <1>c. \A x \in Players : Cells'[x] = Cells[x] \cup (IF x = p THEN split ELSE {})
    BY <1>3, <1>t
  <1>l. Live' = Live \cup split \cup feed
    BY <1>3, <1>c DEF Live, PlayerCells
  <1>4. Position' \in [Cell -> Point] /\ \A c \in Cell \ fresh : Position'[c] = Position[c]
    BY <1>3, ViewAssumption DEF TypeOK
  <1>5. /\ \A x, y \in Players : x # y => Cells'[x] \cap Cells'[y] = {}
        /\ DynamicMap' \cap PlayerCells' = {}
        /\ \A x \in Players \ active : Cells'[x] = {}
    BY <1>3, <1>t, <1>c DEF OneOwner, Live, PlayerCells
  <1>6. Live' \cap fresh' = {} /\ Live \subseteq Live' /\ Live' \subseteq Live \cup fresh
    BY <1>3, <1>l DEF OneOwner
  <1> QED
    BY <1>3, <1>t, <1>c, <1>4, <1>5, <1>6

\* What an Update leaves in the history: the cells it knew or announced that are
\* in the view and have no removal event.
LEMMA RefreshHistory ==
  ASSUME SyncInv, pc = "update", NEW p \in Players, p \in active,
         NEW r \in [CellEvents.move \cup CellEvents.removeDynamic -> Radii],
         NEW v, Refresh(p, r, v)
  PROVE  /\ CellHistory' \in [Players -> [Dynamic -> Nat]]
         /\ \A x \in Players : x # p => CellHistory'[x] = CellHistory[x]
         /\ \A c \in Dynamic :
              /\ CellHistory'[p][c] <= 1
              /\ CellHistory'[p][c] > 0 <=>
                   /\ c \notin CellEvents.removeDynamic
                   /\ c \in Appeared(p, r) \/ (Known(p, c) /\ c \notin OutOfView(p))
              /\ c \in Removed(p, r) <=>
                   /\ c \in CellEvents.removeDynamic
                   /\ c \in Appeared(p, r) \/ (Known(p, c) /\ c \notin OutOfView(p))
  <1> USE DEF SyncInv
  <1>t. /\ CellHistory \in [Players -> [Dynamic -> Nat]]
        /\ CellEvents.removeDynamic \subseteq Dynamic
        /\ CellEvents.move \subseteq Dynamic
        /\ view[p] \in View /\ Position \in [Cell -> Point]
        /\ Dynamic \subseteq Cell
    BY DEF TypeOK, Cell
  <1>h. ASSUME NEW c \in Dynamic
        PROVE  CellHistory[p][c] \in {0, 1}
    <2>1. CellHistory[p] \in [Dynamic -> Nat]
      BY <1>t
    <2>2. CellHistory[p][c] \in Nat /\ CellHistory[p][c] <= 1
      BY <2>1 DEF NoDuplicates
    <2> QED
      BY <2>2
  <1>c. \A c \in Dynamic :
          Cleaned(p)[c] = IF Known(p, c) /\ c \notin OutOfView(p) THEN 1 ELSE 0
    BY <1>h DEF Cleaned, Known, OutOfView
  <1>a. \A c \in Dynamic :
          Added(p, r)[c] = IF c \in Appeared(p, r) \/ (Known(p, c) /\ c \notin OutOfView(p))
                             THEN 1 ELSE 0
    BY <1>c DEF Added, Appeared
  \* The clean-up and the removal event use different tests: what the first
  \* leaves in the history the second always reaches.
  <1>n. ASSUME NEW c \in CellEvents.removeDynamic, Added(p, r)[c] > 0
        PROVE  Near(p, r, c)
    <2>1. CASE c \in Appeared(p, r)
      BY <2>1 DEF Appeared
    <2>2. CASE Known(p, c) /\ c \notin OutOfView(p)
      <3>1. Inside(Position[c], view[p])
        BY <1>t, <2>2 DEF OutOfView, Known
      <3>2. InMap(Position[c])
        BY <1>t, <2>2 DEF EatenCells, KnownCells, Clamped
      <3>3. r[c] \in Nat
        BY ViewAssumption
      <3> QED
        BY <1>t, <3>1, <3>2, <3>3, InsideReachesEdge DEF Near
    <2> QED
      BY <1>t, <1>a, <1>n, <2>1, <2>2
  <1>r. \A c \in Dynamic :
          c \in Removed(p, r) <=> c \in CellEvents.removeDynamic /\ Added(p, r)[c] > 0
    BY <1>n DEF Removed
  <1>1. CellHistory' = [CellHistory EXCEPT ![p] =
           [c \in Dynamic |-> Added(p, r)[c] - (IF c \in Removed(p, r) THEN 1 ELSE 0)]]
    BY DEF Refresh
  <1>2. \A c \in Dynamic : CellHistory'[p][c] =
          Added(p, r)[c] - (IF c \in Removed(p, r) THEN 1 ELSE 0)
    BY <1>1, <1>t
  <1>3. \A c \in Dynamic : CellHistory'[p][c] \in {0, 1}
    BY <1>2, <1>a, <1>r
  <1>4. CellHistory' \in [Players -> [Dynamic -> Nat]]
    <2>1. [c \in Dynamic |-> Added(p, r)[c] - (IF c \in Removed(p, r) THEN 1 ELSE 0)]
            \in [Dynamic -> Nat]
      BY <1>a, <1>r
    <2> QED
      BY <1>1, <1>t, <2>1
  <1>5. \A x \in Players : x # p => CellHistory'[x] = CellHistory[x]
    BY <1>1, <1>t
  <1>6. \A c \in Dynamic : CellHistory'[p][c] > 0 <=>
          /\ c \notin CellEvents.removeDynamic
          /\ c \in Appeared(p, r) \/ (Known(p, c) /\ c \notin OutOfView(p))
    BY <1>2, <1>a, <1>r
  <1>7. \A c \in Dynamic : c \in Removed(p, r) <=>
          /\ c \in CellEvents.removeDynamic
          /\ c \in Appeared(p, r) \/ (Known(p, c) /\ c \notin OutOfView(p))
    BY <1>a, <1>r
  <1> QED
    BY <1>3, <1>4, <1>5, <1>6, <1>7

\* What a client makes of an Update's records of the dynamic cells.  A cell that is
\* moved is one the clean-up has left in the history.
LEMMA ReadPicture ==
  ASSUME TypeOK, NEW p \in Players, NEW r, NEW v \in View, NEW pic \in Picture
  PROVE  /\ Read(pic, p, r, v) \in Picture
         /\ \A c \in Dynamic : Read(pic, p, r, v)[c] =
              IF c \in Removed(p, r) THEN Unknown
              ELSE IF c \in Appeared(p, r) \cup Drawn(pic, Moved(p, r)) THEN Position[c]
              ELSE IF c \in OutOfView(p) THEN Unknown ELSE pic[c]
  <1> DEFINE cleaned == RemoveCells(pic, OutOfView(p))
             put     == PutCells(cleaned, Appeared(p, r) \cup Drawn(cleaned, Moved(p, r)))
             parsed  == RemoveCells(put, Removed(p, r) \cup EatenFood(p))
             left    == RemoveCells(parsed, LeftFood(p, v))
             new     == PutCells(left, EnteredFood(p, v))
  <1>1. Read(pic, p, r, v) = new
    BY DEF Read
  <1>2. Position \in [Cell -> Point]
    BY DEF TypeOK
  <1>3. new \in Picture
    <2>1. cleaned \in Picture
      BY RemoveCellsType
    <2>2. put \in Picture
      BY <1>2, <2>1, PutCellsType
    <2>3. parsed \in Picture
      BY <2>2, RemoveCellsType
    <2>4. left \in Picture
      BY <2>3, RemoveCellsType
    <2> QED
      BY <1>2, <2>4, PutCellsType
  <1>4. \A c \in Dynamic : /\ c \in Cell
                           /\ c \notin EatenFood(p)
                           /\ c \notin LeftFood(p, v)
                           /\ c \notin EnteredFood(p, v)
    <2>1. \A b \in Block : StaticMap[b] \subseteq Food
      BY DEF TypeOK
    <2>2. CellEvents.removeStatic \subseteq Food
      BY DEF TypeOK
    <2>3. \A x \in Cell : x \in Food \/ x \in Dynamic
      BY DEF Cell
    <2>4. VisibleBlocks(v) \subseteq Block /\ VisibleBlocks(view[p]) \subseteq Block
      BY VisibleBlocksInMap DEF TypeOK
    <2> QED
      BY <2>1, <2>2, <2>3, <2>4, ViewAssumption
      DEF EatenFood, LeftFood, EnteredFood, FoodIn, Cell
  <1>d. \A c \in Dynamic : c \in Drawn(cleaned, Moved(p, r)) <=> c \in Drawn(pic, Moved(p, r))
    <2>1. \A c \in Dynamic : c \in Moved(p, r) => c \notin OutOfView(p)
      BY DEF Moved, Cleaned
    <2>2. \A c \in Dynamic : c \notin OutOfView(p) => cleaned[c] = pic[c]
      BY <1>4 DEF RemoveCells
    <2> HIDE DEF cleaned
    <2> QED
      BY <2>1, <2>2 DEF Drawn
  <1>5. \A c \in Dynamic : new[c] =
              IF c \in Removed(p, r) THEN Unknown
              ELSE IF c \in Appeared(p, r) \cup Drawn(pic, Moved(p, r)) THEN Position[c]
              ELSE IF c \in OutOfView(p) THEN Unknown ELSE pic[c]
    BY <1>4, <1>d DEF RemoveCells, PutCells
  <1> HIDE DEF new
  <1> QED
    BY <1>1, <1>3, <1>5

\* What an Update appends about the dynamic cells.
LEMMA RefreshPicture ==
  ASSUME TypeOK, NEW p \in Players, NEW r, NEW v \in View, Refresh(p, r, v)
  PROVE  /\ told' \in [Players -> Picture] /\ unsent' \in [Players -> Picture]
         /\ \A x \in Players : x # p => told'[x] = told[x] /\ unsent'[x] = unsent[x]
         /\ told'[p] = Read(told[p], p, r, v) /\ unsent'[p] = Read(unsent[p], p, r, v)
  <1>1. /\ told' = [told EXCEPT ![p] = Read(told[p], p, r, v)]
        /\ unsent' = [unsent EXCEPT ![p] = Read(unsent[p], p, r, v)]
    BY DEF Refresh
  <1>2. /\ told \in [Players -> Picture] /\ unsent \in [Players -> Picture]
        /\ Read(told[p], p, r, v) \in Picture /\ Read(unsent[p], p, r, v) \in Picture
    BY ReadPicture DEF TypeOK
  <1> QED
    BY <1>1, <1>2

\* A client that shows less to begin with shows less afterwards, and where it shows
\* a cell it shows it at the same place.
LEMMA ReadAgrees ==
  ASSUME NEW p, NEW r, NEW v, NEW a \in Picture, NEW b \in Picture,
         \A c \in Cell : a[c] \in {Unknown, b[c]}
  PROVE  \A c \in Cell : Read(a, p, r, v)[c] \in {Unknown, Read(b, p, r, v)[c]}
  <1> DEFINE ca == RemoveCells(a, OutOfView(p))
             cb == RemoveCells(b, OutOfView(p))
             da == PutCells(ca, Appeared(p, r) \cup Drawn(ca, Moved(p, r)))
             db == PutCells(cb, Appeared(p, r) \cup Drawn(cb, Moved(p, r)))
             ea == RemoveCells(da, Removed(p, r) \cup EatenFood(p))
             eb == RemoveCells(db, Removed(p, r) \cup EatenFood(p))
  <1>1. \A c \in Cell : ca[c] \in {Unknown, cb[c]}
    BY DEF RemoveCells
  <1>2. \A c \in Cell : da[c] \in {Unknown, db[c]}
    <2> HIDE DEF ca, cb
    <2> QED
      BY <1>1 DEF PutCells, Drawn
  <1>3. \A c \in Cell : ea[c] \in {Unknown, eb[c]}
    <2> HIDE DEF da, db
    <2> QED
      BY <1>2 DEF RemoveCells
  <1> HIDE DEF ea, eb
  <1>4. /\ Read(a, p, r, v) = PutCells(RemoveCells(ea, LeftFood(p, v)), EnteredFood(p, v))
        /\ Read(b, p, r, v) = PutCells(RemoveCells(eb, LeftFood(p, v)), EnteredFood(p, v))
    BY DEF Read, ea, eb, da, db, ca, cb
  <1> QED
    BY <1>3, <1>4 DEF PutCells, RemoveCells

\* The next view is a view, even that of a player without cells.
LEMMA NextViewsType ==
  ASSUME NEW p \in Players
  PROVE  NextViews(p) \subseteq View
  <1>1. IndexFromCoord(Nowhere) \in Block
    BY IndexInMap, NowherePoint DEF Castable, Nowhere
  <1> QED
    BY <1>1, ViewAssumption DEF NextViews, View

\* A player's Update: afterwards no event is still to reach the player, so what
\* its history holds is alive or abandoned.
LEMMA UpdatePlayerInv ==
  ASSUME SyncInv, NEW p \in Players, UpdatePlayer(p)
  PROVE  SyncInv'
  <1>1. PICK r \in [CellEvents.move \cup CellEvents.removeDynamic -> Radii],
             v \in NextViews(p) : Refresh(p, r, v)
    BY DEF UpdatePlayer
  <1>u. /\ pc = "update" /\ p \in todo /\ SplitAndFeed(p) /\ todo' = todo \ {p}
        /\ UNCHANGED <<pc, StaticMap, moving, abandoned, CellEvents, active, shown,
                       leftover>>
    BY DEF UpdatePlayer
  <1> USE <1>1, <1>u DEF SyncInv
  <1>a. p \in active /\ v \in View
    BY NextViewsType DEF TypeOK
  <1>t. /\ CellEvents.move \subseteq Dynamic /\ CellEvents.removeDynamic \subseteq Dynamic
        /\ Dynamic \subseteq Cell /\ fresh \subseteq Dynamic
        /\ CellEvents.move \subseteq Live
        /\ Position \in [Cell -> Point]
    BY DEF TypeOK, Dynamic, Cell, MoveEvents
  <1>s. /\ Position' \in [Cell -> Point]
        /\ Cells' \in [Players -> SUBSET Dynamic]
        /\ DynamicMap' \subseteq Dynamic /\ fresh' \subseteq fresh
        /\ Live \subseteq Live' /\ Live' \subseteq Live \cup fresh
        /\ OneOwner'
        /\ \A c \in Cell \ fresh : Position'[c] = Position[c]
    BY <1>a, SplitAndFeedInv DEF OneOwner
  \* The history of p after its Update, and of the others.
  <1>h. /\ CellHistory' \in [Players -> [Dynamic -> Nat]]
        /\ \A x \in Players : x # p => CellHistory'[x] = CellHistory[x]
        /\ \A c \in Dynamic : CellHistory'[p][c] <= 1
        /\ \A c \in Dynamic : CellHistory'[p][c] > 0 <=>
             /\ c \notin CellEvents.removeDynamic
             /\ c \in Appeared(p, r) \/ (Known(p, c) /\ c \notin OutOfView(p))
        /\ \A c \in Dynamic : c \in Removed(p, r) <=>
             /\ c \in CellEvents.removeDynamic
             /\ c \in Appeared(p, r) \/ (Known(p, c) /\ c \notin OutOfView(p))
    BY <1>a, RefreshHistory
  <1>p. /\ told' \in [Players -> Picture] /\ unsent' \in [Players -> Picture]
        /\ \A x \in Players : x # p => told'[x] = told[x] /\ unsent'[x] = unsent[x]
        /\ told'[p] = Read(told[p], p, r, v) /\ unsent'[p] = Read(unsent[p], p, r, v)
    BY <1>a, RefreshPicture
  <1>q. /\ told[p] \in Picture /\ unsent[p] \in Picture
        /\ \A pic \in Picture, c \in Dynamic : Read(pic, p, r, v)[c] =
             IF c \in Removed(p, r) THEN Unknown
             ELSE IF c \in Appeared(p, r) \cup Drawn(pic, Moved(p, r)) THEN Position[c]
             ELSE IF c \in OutOfView(p) THEN Unknown ELSE pic[c]
    BY <1>a, ReadPicture DEF TypeOK
  <1>i. /\ inherited' \in [Players -> SUBSET Dynamic]
        /\ \A x \in Players : x # p => inherited'[x] = inherited[x]
        /\ \A c \in inherited[p] :
             Known(p, c)' /\ told'[p][c] = Unknown => c \in inherited'[p]
    BY DEF Refresh, TypeOK, Known
  <1>n. /\ \A c \in Appeared(p, r) : c \in CellEvents.move
        /\ \A c \in Moved(p, r) : c \in Appeared(p, r) \/ (Known(p, c) /\ c \notin OutOfView(p))
        /\ \A c \in OutOfView(p) : Known(p, c)
    <2>1. \A c \in Moved(p, r) : c \in Dynamic /\ Cleaned(p)[c] > 0
      BY <1>t DEF Moved
    <2>2. \A c \in Dynamic : Cleaned(p)[c] > 0 => Known(p, c) /\ c \notin OutOfView(p)
      BY DEF Cleaned, Known
    <2> QED
      BY <2>1, <2>2 DEF Appeared, OutOfView, Known
  <1>k. \A c \in Dynamic : Known(p, c)' =>
          /\ c \notin CellEvents.removeDynamic
          /\ c \in CellEvents.move \/ Known(p, c)
    BY <1>h, <1>n DEF Known
  <1>o. \A x \in Players, c \in Dynamic : x # p => (Known(x, c)' <=> Known(x, c))
    BY <1>h DEF Known
  <1>2. TypeOK'
    <2>1. /\ view' = [view EXCEPT ![p] = v]
          /\ quiet' = [quiet EXCEPT ![p] = @ \cap VisibleBlocks(v)]
      BY DEF Refresh
    <2>2. view' \in [Players -> View] /\ quiet' \in [Players -> SUBSET Block]
      BY <1>a, <2>1 DEF TypeOK
    <2>3. /\ todo' \subseteq active /\ fresh' \subseteq Spare
      BY <1>s DEF TypeOK
    <2> QED
      BY <1>s, <1>h, <1>p, <1>i, <2>2, <2>3 DEF TypeOK
  <1>3. NoDuplicates'
    BY <1>h DEF NoDuplicates
  <1>4. HistoryIsPicture'
    <2>1. ASSUME NEW c \in Dynamic, Known(p, c)', told'[p][c] = Unknown
          PROVE  c \in inherited'[p]
      <3>1. c \notin Removed(p, r)
        BY <1>h, <2>1 DEF Known
      <3>2. Position[c] # Unknown
        BY <1>t, ViewAssumption
      <3>3. c \in Appeared(p, r) \/ (Known(p, c) /\ c \notin OutOfView(p))
        BY <1>h, <2>1 DEF Known
      <3>4. Known(p, c) /\ told[p][c] = Unknown
        BY <1>p, <1>q, <2>1, <3>1, <3>2, <3>3
      <3>5. c \in inherited[p]
        BY <1>a, <3>4 DEF HistoryIsPicture, Known
      <3> QED
        BY <1>i, <2>1, <3>5
    <2>2. ASSUME NEW c \in Dynamic, told'[p][c] # Unknown, ~Known(p, c)'
          PROVE  c \in leftover[p]
      <3>1. c \notin Removed(p, r)
        BY <1>p, <1>q, <2>2
      <3>2. ~(c \in Appeared(p, r) \/ (Known(p, c) /\ c \notin OutOfView(p)))
        BY <1>h, <2>2, <3>1 DEF Known
      <3>3. c \notin Drawn(told[p], Moved(p, r))
        BY <1>n, <3>2 DEF Drawn
      <3>4. told'[p][c] = told[p][c] /\ ~Known(p, c)
        BY <1>p, <1>q, <1>n, <2>2, <3>1, <3>2, <3>3
      <3> QED
        BY <1>a, <2>2, <3>4 DEF HistoryIsPicture, Known
    <2> QED
      <3>1. \A x \in active : /\ x \in Players
                              /\ x # p => /\ CellHistory'[x] = CellHistory[x]
                                          /\ told'[x] = told[x]
                                          /\ inherited'[x] = inherited[x]
        BY <1>h, <1>p, <1>i DEF TypeOK
      <3>2. \A x \in active, c \in Dynamic : x # p =>
              /\ CellHistory'[x][c] > 0 => told'[x][c] # Unknown \/ c \in inherited'[x]
              /\ told'[x][c] # Unknown => CellHistory'[x][c] > 0 \/ c \in leftover[x]
        BY <3>1 DEF HistoryIsPicture
      <3> QED
        BY <3>2, <2>1, <2>2 DEF HistoryIsPicture, Known
  <1>9. UnsentAgrees'
    <2>1. \A c \in Cell : unsent'[p][c] \in {Unknown, told'[p][c]}
      BY <1>p, <1>q, ReadAgrees DEF UnsentAgrees
    <2>2. ASSUME NEW c \in Dynamic, unsent'[p][c] # Unknown
          PROVE  Known(p, c)'
      <3>1. c \notin Removed(p, r)
        BY <1>p, <1>q, <2>2
      <3>2. c \in Appeared(p, r) \/ (Known(p, c) /\ c \notin OutOfView(p))
        <4>1. CASE c \in Drawn(unsent[p], Moved(p, r))
          BY <1>n, <4>1 DEF Drawn
        <4>2. CASE c \notin Drawn(unsent[p], Moved(p, r)) /\ c \notin Appeared(p, r)
          <5>1. c \notin OutOfView(p) /\ unsent[p][c] # Unknown
            BY <1>p, <1>q, <2>2, <3>1, <4>2
          <5> QED
            BY <5>1 DEF UnsentAgrees
        <4> QED
          BY <4>1, <4>2
      <3> QED
        BY <1>h, <3>1, <3>2 DEF Known
    <2> QED
      BY <1>p, <1>o, <2>1, <2>2 DEF UnsentAgrees
  <1>5. KnownCells'
    <2>1. ASSUME NEW x \in Players, NEW c \in Dynamic, Known(x, c)'
          PROVE  x \in active /\ c \notin fresh /\ Clamped(c)
      <3>1. CASE Known(x, c)
        BY <3>1 DEF KnownCells
      <3>2. CASE x = p /\ c \in CellEvents.move
        BY <1>a, <1>t, <3>2 DEF MoveEvents, OneOwner
      <3> QED
        BY <1>k, <1>o, <2>1, <3>1, <3>2
    <2> QED
      BY <1>s, <1>t, <2>1 DEF KnownCells, Clamped, Tangible
  <1>6. KnownReason'
    <2>1. ASSUME NEW x \in Players, NEW c \in Dynamic, Known(x, c)'
          PROVE  \/ c \in Live' \cup abandoned'
                 \/ Behind(x)' /\ c \in CellEvents'.removeDynamic
      <3>1. CASE x = p
        BY <1>k, <1>s, <1>t, <2>1, <3>1 DEF KnownReason, Behind
      <3>2. CASE x # p
        BY <1>o, <1>s, <2>1, <3>2 DEF KnownReason, Behind
      <3> QED
        BY <3>1, <3>2
    <2> QED
      BY <2>1 DEF KnownReason
  <1>7. EatenCells'
    <2>1. CellEvents.removeDynamic \cap (Live' \cup fresh') = {}
      BY <1>s DEF EatenCells
    <2>2. ASSUME NEW x \in Players, NEW c \in CellEvents.removeDynamic, Known(x, c)'
          PROVE  Tangible(c)'
      <3>1. x # p /\ Known(x, c)
        BY <1>k, <1>o, <1>t, <2>2
      <3>2. c \in Cell \ fresh /\ Tangible(c)
        BY <1>t, <3>1 DEF EatenCells
      <3> QED
        BY <1>s, <3>2 DEF Tangible
    <2> QED
      BY <2>1, <2>2 DEF EatenCells
  <1>8. MoveEvents'
    <2>1. \A c \in CellEvents.move : Clamped(c)'
      BY <1>s, <1>t DEF MoveEvents, OneOwner, Clamped, Tangible
    <2>2. ASSUME NEW x \in Players, NEW c \in Live', Known(x, c)'
          PROVE  c \in CellEvents.move
      <3>1. c \in Dynamic
        BY <1>s, <1>t DEF Live, PlayerCells
      <3>2. CASE c \in CellEvents.move
        BY <3>2
      <3>3. CASE Known(x, c)
        BY <1>s, <3>1, <3>3 DEF MoveEvents, KnownCells
      <3> QED
        BY <1>k, <1>o, <2>2, <3>1, <3>2, <3>3
    <2> QED
      BY <1>s, <1>t, <2>1, <2>2 DEF MoveEvents
  <1> QED
    BY <1>s, <1>2, <1>3, <1>4, <1>5, <1>6, <1>7, <1>8, <1>9

\* Game::ParseEvents removes nothing that the collisions have not removed.
LEMMA ParseEventsInv ==
  ASSUME SyncInv, ParseEvents
  PROVE  SyncInv'
  <1> USE DEF ParseEvents, sync, SyncInv
  \* The collisions have already removed what the events name.
  <1>1. DynamicMap' = DynamicMap
    BY DEF EatenCells, Live
  <1>2. TypeOK' /\ NoDuplicates' /\ HistoryIsPicture' /\ UnsentAgrees'
    BY <1>1 DEF TypeOK, NoDuplicates, HistoryIsPicture, UnsentAgrees, Known
  <1>3. OneOwner' /\ KnownCells'
    BY <1>1 DEF OneOwner, KnownCells, Known, Clamped, Tangible, Live, PlayerCells
  <1>4. KnownReason'
    BY <1>1 DEF KnownReason, Known, Behind, Live, PlayerCells
  <1>5. EatenCells' /\ MoveEvents'
    BY DEF EatenCells, MoveEvents
  <1> QED
    BY <1>2, <1>3, <1>4, <1>5

\* A step that changes nothing.
LEMMA StutterInv ==
  ASSUME SyncInv, UNCHANGED vars
  PROVE  SyncInv'
  <1> USE DEF vars, world, sync, SyncInv
  <1>1. TypeOK' /\ NoDuplicates' /\ HistoryIsPicture' /\ UnsentAgrees'
    BY DEF TypeOK, NoDuplicates, HistoryIsPicture, UnsentAgrees, Known
  <1>2. OneOwner' /\ KnownCells' /\ KnownReason'
    BY DEF OneOwner, KnownCells, KnownReason, Known, Clamped, Tangible, Behind, Live, PlayerCells
  <1>3. EatenCells' /\ MoveEvents'
    BY DEF EatenCells, MoveEvents, Known, Clamped, Tangible, Live, PlayerCells
  <1> QED
    BY <1>1, <1>2, <1>3

-----------------------------------------------------------------------------
(* The theorems.                                                           *)

\* The parts of SyncInv hold in every reachable state, for any number of
\* players, cells and blocks.
THEOREM SyncInvariant == Spec => []SyncInv
  <1>1. Init => SyncInv
    BY InitInv
  <1>2. SyncInv /\ [Next]_vars => SyncInv'
    BY WriteableKnownInv, WriteableNewInv, PeerInitiatedCloseInv, EstablishedInv, BeginTickInv,
       EatStaticInv, EatDynamicInv, CollideSelfInv, EndOwnInv, EatRivalInv,
       MovePlayersInv, UpdatePlayerInv, ParseEventsInv, StutterInv
    DEF Next
  <1> QED
    BY <1>1, <1>2, PTL DEF Spec

\* A client's picture agrees with CellHistory up to what an earlier Player left
\* behind and what an earlier client of the Player was sent in its place, and
\* CellHistory holds no cell twice: Player::DeleteDynamic may stop at the first
\* entry it finds.
THEOREM HistoryCorrect == Spec => [](TypeOK /\ NoDuplicates /\ HistoryIsPicture)
  <1>1. SyncInv => TypeOK /\ NoDuplicates /\ HistoryIsPicture
    BY DEF SyncInv
  <1> QED
    BY <1>1, SyncInvariant, PTL

\* The types of the world, the players and the pictures, by themselves.
THEOREM TypesKept == Spec => []TypeOK
  <1> QED
    BY HistoryCorrect, PTL

\* And that CellHistory has each cell once, which makes erasing one entry enough.
THEOREM HistoryOnce == Spec => []NoDuplicates
  <1> QED
    BY HistoryCorrect, PTL

\* No client goes on showing a cell that was eaten: the removal event reaches
\* everyone who knows the cell before the tick is over.
THEOREM EatenCellsForgotten == Spec => []NoEatenCell
  <1>1. SyncInv => NoEatenCell
    BY DEF SyncInv, TypeOK, KnownReason, Behind, Known, NoEatenCell
  <1> QED
    BY <1>1, SyncInvariant, PTL

\* A player's Update takes the player off the list, and is the only step that does.
LEMMA OnlyUpdateLeavesTodo ==
  ASSUME TypeOK, [Next]_vars, NEW p \in todo \ todo'
  PROVE  p \in Players /\ UpdatePlayer(p)
  <1>1. p \in Players
    BY DEF TypeOK
  <1>2. \A q \in Players : ~ UNCHANGED todo =>
          /\ ~ WriteableKnown(q) /\ ~ WriteableNew(q) /\ ~ PeerInitiatedClose(q)
          /\ ~ Established(q)
          /\ ~ EatStatic(q) /\ ~ EatDynamic(q) /\ ~ CollideSelf(q)
          /\ \A x \in Players : ~ EatRival(q, x)
    BY DEF WriteableKnown, WriteableNew, PeerInitiatedClose, Established, EatStatic, EatDynamic,
           CollideSelf, EatRival
  <1>3. ~ UNCHANGED todo => ~ BeginTick /\ ~ EndOwn /\ ~ ParseEvents
    BY DEF BeginTick, EndOwn, ParseEvents
  <1>4. ~ MovePlayers
    BY DEF MovePlayers, TypeOK
  <1>5. PICK q \in Players : UpdatePlayer(q)
    BY <1>2, <1>3, <1>4 DEF Next, vars
  <1>6. q = p
    BY <1>5 DEF UpdatePlayer
  <1> QED
    BY <1>1, <1>5, <1>6

\* An Update leaves no live cell out of the history whose centre was in the view
\* it started from: such a cell passes the edge test whatever its radius, and
\* what the history already held stays.
THEOREM NothingLeftOut == Spec => NothingHidden
  <1>1. ASSUME SyncInv, [Next]_vars, NEW p \in todo \ todo', NEW c \in CellEvents.move,
               Inside(Position[c], view[p]), Tangible(c)
        PROVE  CellHistory'[p][c] > 0
    <2>1. p \in Players /\ UpdatePlayer(p)
      BY <1>1, OnlyUpdateLeavesTodo DEF SyncInv
    <2>2. pc = "update" /\ p \in active
      BY <1>1, <2>1 DEF UpdatePlayer, SyncInv, TypeOK
    <2>3. PICK r \in [CellEvents.move \cup CellEvents.removeDynamic -> Radii],
               v \in NextViews(p) : Refresh(p, r, v)
      BY <2>1 DEF UpdatePlayer
    <2>4. /\ c \in Dynamic /\ c \in Cell /\ c \notin CellEvents.removeDynamic
          /\ InMap(Position[c]) /\ view[p] \in View
          /\ CellHistory[p] \in [Dynamic -> Nat]
      BY <1>1, <2>1, <2>2 DEF SyncInv, TypeOK, MoveEvents, EatenCells, Clamped,
                              Tangible, Cell
    <2>5. r[c] \in Nat
      BY <2>3, ViewAssumption
    <2>6. Near(p, r, c)
      BY <1>1, <2>4, <2>5, InsideReachesEdge DEF Near
    <2>7. c \notin OutOfView(p)
      BY <1>1 DEF OutOfView
    <2>8. CellHistory[p][c] \in Nat
      BY <2>4
    <2>9. c \in Appeared(p, r) \/ Known(p, c)
      BY <1>1, <2>4, <2>6, <2>7, <2>8 DEF Appeared, Cleaned, Known
    <2> QED
      BY <1>1, <2>1, <2>2, <2>3, <2>4, <2>7, <2>9, RefreshHistory
  <1>2. SyncInv /\ [Next]_vars =>
          [\A p \in todo \ todo' : \A c \in CellEvents.move :
             Inside(Position[c], view[p]) /\ Tangible(c) => CellHistory'[p][c] > 0]_vars
    BY <1>1
  <1> QED
    BY <1>2, SyncInvariant, PTL DEF Spec, NothingHidden
=============================================================================
