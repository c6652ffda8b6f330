------------------------------ MODULE ViewSync ------------------------------
(***************************************************************************)
(* How the server keeps every client's picture of the world in step with   *)
(* the world: Map (StaticMap, DynamicMap, CellEvents), the game loop, and  *)
(* the visibility part of Player (CellHistory, Blocks, the messages).      *)
(*                                                                         *)
(* The process has one thread.  An idle server runs a websocket callback   *)
(* or starts game_loop_cb; the loop is cut here into its stages, which pc  *)
(* orders, and nothing else runs until the last of them is done:           *)
(*                                                                         *)
(*   idle - BeginTick -> own - EndOwn -> rivals - MovePlayers -> update     *)
(*   - ParseEvents -> idle                                                 *)
(*                                                                         *)
(* A player's outgoing buffer is represented by what it will do to the     *)
(* client: shown[p] is the picture of what was sent to the client at p,    *)
(* told[p] the picture once it has read the buffer too, and unsent[p] the  *)
(* picture a client that shows nothing would get from the buffer alone.    *)
(* While a connection lasts it is in order and lossless, so sending makes  *)
(* shown catch up.  A connection that breaks without a close frame leaves  *)
(* its Player to the next client whose lws gets the same address.          *)
(***************************************************************************)
EXTENDS Grid, FiniteSets

CONSTANTS
  Players,      \* addresses of lws objects, each with the client behind it
  Food,         \* the static cells Map::Init makes
  Viruses,      \* the dynamic cells Map::Init makes
  Spare,        \* cells not constructed yet (bounds how many can ever be)
  Places,       \* positions movement and construction may ask for
  Radii,        \* radii a cell may have when it is looked at
  Views,        \* the views a camera may give
  MAX_CELLS,    \* cells per player (16 in Player.cpp)
  Unknown,      \* what a client knows of a cell it does not show
  MoveDraws     \* does a client draw a cell it only has a MoveCell record of?

Dynamic == Viruses \cup Spare
Cell == Food \cup Dynamic

ASSUME ViewAssumption ==
  /\ Food \cap Dynamic = {} /\ Viruses \cap Spare = {}
  /\ Places \subseteq Point
  /\ Radii \subseteq Nat
  /\ Views \subseteq View
  /\ MAX_CELLS \in Nat
  /\ Unknown \notin Point
  /\ MoveDraws \in BOOLEAN

VARIABLES
  pc,           \* stage of the game loop, "idle" between two callbacks
  todo,         \* players the loop over Players has still to come to
  StaticMap,    \* [Block -> food in it]
  DynamicMap,   \* viruses and ejected feed
  Position,     \* of every cell constructed so far
  moving,       \* dynamic cells with a velocity other than zero
  fresh,        \* cells not constructed yet: IDs CurrentID has not reached
  CellEvents,   \* events of the current tick
  active,       \* connections that have a Player object
  Cells,        \* [Players -> cells the player controls]
  view,         \* [Players -> TopLeft, BottomRight]
  CellHistory,  \* [Players -> how often the vector holds each cell]
  told,         \* [Players -> picture after everything sent and the buffer]
  shown,        \* [Players -> picture after everything sent]
  unsent,       \* [Players -> picture a blank client gets from the buffer]
  abandoned,    \* history: player cells erased without a removal event
  quiet,        \* history: blocks in view ever since the client got the Player
  leftover,     \* history: cells the client showed when the Player was made
  inherited     \* history: known cells a client that took the Player over has
                \* not been shown yet

world  == <<StaticMap, DynamicMap, Position, moving, fresh, Cells, abandoned>>
sync   == <<view, CellHistory, told, unsent, quiet, inherited>>
vars   == <<pc, todo, world, CellEvents, active, sync, shown, leftover>>

PlayerCells == UNION {Cells[p] : p \in Players}
Live == DynamicMap \cup PlayerCells

Picture == [Cell -> Point \cup {Unknown}]
Blank == [c \in Cell |-> Unknown]
NoHistory == [c \in Dynamic |-> 0]
NoEvents == [move |-> {}, removeStatic |-> {}, removeDynamic |-> {}]

InMapPlaces == {a \in Places : InMap(a)}

\* AddCell and MoveCell records carry the position, RemoveCell forgets the cell.
\* The client is not in the repository: what it makes of a MoveCell record of a
\* cell it does not show is left open.
PutCells(pic, S)    == [c \in Cell |-> IF c \in S THEN Position[c] ELSE pic[c]]
RemoveCellsUnsent(pic, S) == pic                    \* slip: nothing appended
RemoveCells(pic, S) == [c \in Cell |-> IF c \in S THEN Unknown ELSE pic[c]]
Drawn(pic, S) == {c \in S : MoveDraws \/ pic[c] # Unknown}

-----------------------------------------------------------------------------
\* Map::Init: AddStatic puts every food cell into the block of its position.
Init ==
  /\ pc = "idle" /\ todo = {}
  /\ Position \in {at \in [Cell -> InMapPlaces \cup {Nowhere}] :
                    \A c \in Cell : at[c] = Nowhere <=> c \in Spare}
  /\ StaticMap = [b \in Block |-> {f \in Food : IndexFromCoord(Position[f]) = b}]
  /\ DynamicMap = Viruses /\ moving = {} /\ fresh = Spare
  /\ CellEvents = NoEvents
  /\ active = {} /\ Cells = [p \in Players |-> {}]
  /\ view \in [Players -> Views]
  /\ CellHistory = [p \in Players |-> NoHistory]
  /\ told = [p \in Players |-> Blank] /\ shown = told /\ unsent = told
  /\ abandoned = {}
  /\ quiet = [p \in Players |-> {}] /\ leftover = quiet /\ inherited = quiet

-----------------------------------------------------------------------------
(* Websocket callbacks, between two ticks.                                 *)

\* Every writable callback walks over all players and sends for those that
\* can (CanSend, lws_write); S are the ones whose buffer goes out.
Flush(S) ==
  /\ shown' = [p \in Players |-> IF p \in S THEN told[p] ELSE shown[p]]
  /\ unsent' = [p \in Players |-> IF p \in S THEN Blank ELSE unsent[p]]

\* Writable, and the connection has its Player.
WriteableKnown(w) ==
  /\ pc = "idle" /\ w \in active
  /\ \E S \in (SUBSET active) \ {{}} : Flush(S)
  /\ UNCHANGED <<pc, todo, world, CellEvents, active, view, CellHistory, told, quiet,
                 inherited, leftover>>

\* Writable for a connection without one: Player::Player(wsi) with its first
\* cell at a random position.  Init calls UpdateView, which fills Blocks but
\* announces nothing.
WriteableNew(w) ==
  /\ pc = "idle" /\ w \notin active
  /\ \E S \in SUBSET active, c \in fresh, a \in InMapPlaces, v \in Views :
       /\ Flush(S)
       /\ fresh' = fresh \ {c}
       /\ Position' = [Position EXCEPT ![c] = a]
       /\ Cells' = [Cells EXCEPT ![w] = {c}]
       /\ view' = [view EXCEPT ![w] = v]
       /\ quiet' = [quiet EXCEPT ![w] = VisibleBlocks(v)]
  /\ active' = active \cup {w}
  /\ leftover' = [leftover EXCEPT ![w] = {c \in Cell : told[w][c] # Unknown}]
  /\ UNCHANGED <<pc, todo, StaticMap, DynamicMap, moving, CellEvents, CellHistory,
                 told, abandoned, inherited>>

\* Players.erase: the Player goes with its history and its unsent buffer; its
\* cells stay on the heap and no removal event is recorded for them.
\* (The first form is a slip: it keeps the history.)
ErasePlayersKeepHistory(E) ==
  /\ active' = active \ E
  /\ Cells' = [p \in Players |-> IF p \in E THEN {} ELSE Cells[p]]
  /\ abandoned' = abandoned \cup UNION {Cells[p] : p \in E}
  /\ UNCHANGED CellHistory
  /\ unsent' = [p \in Players |-> IF p \in E THEN Blank ELSE unsent[p]]
  /\ quiet' = [p \in Players |-> IF p \in E THEN {} ELSE quiet[p]]
  /\ leftover' = [p \in Players |-> IF p \in E THEN {} ELSE leftover[p]]
  /\ inherited' = [p \in Players |-> IF p \in E THEN {} ELSE inherited[p]]
ErasePlayers(E) ==
  /\ active' = active \ E
  /\ Cells' = [p \in Players |-> IF p \in E THEN {} ELSE Cells[p]]
  /\ abandoned' = abandoned \cup UNION {Cells[p] : p \in E}
  /\ CellHistory' = [p \in Players |-> IF p \in E THEN NoHistory ELSE CellHistory[p]]
  /\ unsent' = [p \in Players |-> IF p \in E THEN Blank ELSE unsent[p]]
  /\ quiet' = [p \in Players |-> IF p \in E THEN {} ELSE quiet[p]]
  /\ leftover' = [p \in Players |-> IF p \in E THEN {} ELSE leftover[p]]
  /\ inherited' = [p \in Players |-> IF p \in E THEN {} ELSE inherited[p]]

\* The client closes the connection with a close frame; its picture goes with it.
PeerInitiatedClose(w) ==
  /\ pc = "idle"
  /\ w \in active \/ told[w] # Blank
  /\ ErasePlayers({w})
  /\ told' = [told EXCEPT ![w] = Blank]
  /\ shown' = [shown EXCEPT ![w] = Blank]
  /\ UNCHANGED <<pc, todo, StaticMap, DynamicMap, Position, moving, fresh, CellEvents, view>>

\* A connection breaks without a close frame, to which no callback reacts, and
\* lws gives its address to a new client.  The first writable callback finds the
\* Player of the old client: the new one, who shows nothing, gets the rest of its
\* buffer, and a history of cells that were sent to somebody else.
Established(w) ==
  /\ pc = "idle"
  /\ w \in active \/ told[w] # Blank
  /\ told' = [told EXCEPT ![w] = unsent[w]]
  /\ shown' = [shown EXCEPT ![w] = Blank]
  /\ inherited' = [inherited EXCEPT ![w] =
       {c \in Dynamic : CellHistory[w][c] > 0 /\ unsent[w][c] = Unknown}]
  /\ quiet' = [quiet EXCEPT ![w] = IF w \in active THEN VisibleBlocks(view[w]) ELSE {}]
  /\ leftover' = [leftover EXCEPT ![w] = {}]
  /\ UNCHANGED <<pc, todo, world, CellEvents, active, view, CellHistory, unsent>>

-----------------------------------------------------------------------------
(* game_loop_cb                                                            *)

\* Events are cleared, the dynamic cells move, and the players whose buffer is
\* nearly full are erased: their client keeps what was sent to it.
BeginTick ==
  /\ pc = "idle"
  /\ CellEvents' = NoEvents
  /\ \E M \in SUBSET DynamicMap : \E to \in [M -> {a \in Places : Placed(a)}] :
       /\ moving' = M
       /\ Position' = [c \in Cell |->
            IF c \in M THEN MoveRel(Position[c], to[c])
            ELSE IF c \in DynamicMap THEN MoveAbs(Position[c]) ELSE Position[c]]
  /\ \E E \in SUBSET active :
       /\ ErasePlayers(E)
       /\ told' = [p \in Players |-> IF p \in E THEN shown[p] ELSE told[p]]
  /\ pc' = "own"
  /\ UNCHANGED <<todo, StaticMap, DynamicMap, fresh, view, shown>>

\* Cell::Collide is NONE when a coordinate is not a number.
TangibleAlways(c) == c \in Cell   \* slip: the comparison forgets NaN
Tangible(c) == Placed(Position[c])
CanEat(p) == p \in active /\ \E c \in Cells[p] : Tangible(c)

\* Player::CollideStatic eats one food cell: out of its block at once, and an
\* event for the views.
EatStatic(p) ==
  /\ pc = "own" /\ CanEat(p)
  /\ \E b \in Block : \E f \in StaticMap[b] :
       /\ StaticMap' = [StaticMap EXCEPT ![b] = @ \ {f}]
       /\ CellEvents' = [CellEvents EXCEPT !.removeStatic = @ \cup {f}]
  /\ UNCHANGED <<pc, todo, DynamicMap, Position, moving, fresh, Cells, abandoned,
                 active, sync, shown, leftover>>

\* Player::CollideDynamic eats one virus or feed; a virus pops the eater into
\* at most MAX_CELLS cells.
EatDynamic(p) ==
  /\ pc = "own" /\ CanEat(p)
  /\ \E d \in DynamicMap, pop \in SUBSET fresh : \E at \in [pop -> Places] :
       /\ Tangible(d)
       /\ pop # {} => d \in Viruses /\ Cardinality(Cells[p] \cup pop) <= MAX_CELLS
       /\ DynamicMap' = DynamicMap \ {d}
       /\ CellEvents' = [CellEvents EXCEPT !.removeDynamic = @ \cup {d}]
       /\ Cells' = [Cells EXCEPT ![p] = @ \cup pop]
       /\ fresh' = fresh \ pop
       /\ Position' = [c \in Cell |-> IF c \in pop THEN at[c] ELSE Position[c]]
  /\ UNCHANGED <<pc, todo, StaticMap, moving, abandoned, active, sync, shown, leftover>>

\* Player::CollideSelf pushes cells of one player apart and merges those that
\* are still numbers.  With four cells or more the loop's stale index can erase
\* a cell nobody ate, without an event.
CollideSelf(p) ==
  /\ pc = "own" /\ CanEat(p)
  /\ \E pushed \in SUBSET {c \in Cells[p] : Tangible(c)} : \E to \in [pushed -> Places] :
       Position' = [c \in Cell |-> IF c \in pushed THEN MoveAbs(to[c]) ELSE Position[c]]
  /\ \E eaten \in SUBSET Cells[p] : \E lost \in SUBSET (Cells[p] \ eaten) :
       /\ \A c \in eaten : Placed(Position'[c])
       /\ lost # {} => Cardinality(Cells[p]) >= 4
       /\ \E c \in Cells[p] \ (eaten \cup lost) : Tangible(c)
       /\ Cells' = [Cells EXCEPT ![p] = @ \ (eaten \cup lost)]
       /\ abandoned' = abandoned \cup lost
       /\ CellEvents' = [CellEvents EXCEPT !.removeDynamic = @ \cup eaten]
  /\ UNCHANGED <<pc, todo, StaticMap, DynamicMap, moving, fresh,
                 active, sync, shown, leftover>>

\* The first loop over the players is done.
EndOwn ==
  /\ pc = "own" /\ pc' = "rivals"
  /\ UNCHANGED <<todo, world, CellEvents, active, sync, shown, leftover>>

\* Player::CollideOtherPlayer: a cell of q goes to p.  (The first form is a
\* slip: it records no event.)
EatRivalSilently(p, q) ==
  /\ pc = "rivals" /\ CanEat(p) /\ p # q
  /\ \E c \in Cells[q] : Tangible(c) /\ Cells' = [Cells EXCEPT ![q] = @ \ {c}]
  /\ UNCHANGED <<pc, todo, StaticMap, DynamicMap, Position, moving, fresh, abandoned,
                 CellEvents, active, sync, shown, leftover>>
EatRival(p, q) ==
  /\ pc = "rivals" /\ CanEat(p) /\ p # q
  /\ \E c \in Cells[q] :
       /\ Tangible(c)
       /\ Cells' = [Cells EXCEPT ![q] = @ \ {c}]
       /\ CellEvents' = [CellEvents EXCEPT !.removeDynamic = @ \cup {c}]
  /\ UNCHANGED <<pc, todo, StaticMap, DynamicMap, Position, moving, fresh, abandoned,
                 active, sync, shown, leftover>>

\* Cell::Update for the players' cells, then one move event for every live cell.
MovePlayers ==
  /\ pc = "rivals"
  /\ \E to \in [PlayerCells -> Places] :
       Position' = [c \in Cell |->
         IF c \in PlayerCells THEN MoveRel(Position[c], to[c]) ELSE Position[c]]
  /\ CellEvents' = [CellEvents EXCEPT !.move = Live]
  /\ pc' = "update" /\ todo' = active
  /\ UNCHANGED <<StaticMap, DynamicMap, moving, fresh, Cells, abandoned,
                 active, sync, shown, leftover>>

\* Cell::Cell for new cells of p and new feed; at are the positions.
Construct(p, split, feed, at) ==
  /\ Cells' = [Cells EXCEPT ![p] = @ \cup split]
  /\ DynamicMap' = DynamicMap \cup feed
  /\ fresh' = fresh \ (split \cup feed)
  /\ Position' = [c \in Cell |-> IF c \in split \cup feed THEN at[c] ELSE Position[c]]

\* The split and feed commands at the head of Player::Update construct cells
\* whose positions no _MoveAbs has clamped yet.
SplitAndFeed(p) ==
  \E split \in SUBSET fresh : \E feed \in SUBSET (fresh \ split) :
  \E at \in [split \cup feed -> Places] :
    /\ Cardinality(split) <= Cardinality(Cells[p])
    /\ split # {} => Cardinality(Cells[p] \cup split) <= MAX_CELLS
    /\ Cardinality(feed) <= Cardinality(Cells[p] \cup split)
    /\ Construct(p, split, feed, at)

\* The clean-up of CellHistory: entries whose centre has left the view.
OutOfView(p) == {c \in Dynamic : CellHistory[p][c] > 0 /\ ~Inside(Position[c], view[p])}
Cleaned(p)   == [c \in Dynamic |-> IF c \in OutOfView(p) THEN 0 ELSE CellHistory[p][c]]

\* Player::ParseEvents, with the view of the last tick.  r gives the radius the
\* edge test sees for each cell.
Near(p, r, c) == EdgeInside(Position[c], r[c], view[p])
\* slip: the search through the history never sets Done
AppearedAgain(p, r) == {c \in CellEvents.move : Near(p, r, c)}
Appeared(p, r) == {c \in CellEvents.move : Near(p, r, c) /\ Cleaned(p)[c] = 0}
\* slip: only cells with velocity
MovedByVelocity(p, r) ==
  {c \in CellEvents.move : Near(p, r, c) /\ Cleaned(p)[c] > 0 /\ c \in moving}
Moved(p, r) == {c \in CellEvents.move :
                  Near(p, r, c) /\ Cleaned(p)[c] > 0 /\ (c \in PlayerCells \/ c \in moving)}
Added(p, r) == [c \in Dynamic |-> Cleaned(p)[c] + (IF c \in Appeared(p, r) THEN 1 ELSE 0)]
\* slips: no search through the history, no removal at all
RemovedUnknown(p, r) == {c \in CellEvents.removeDynamic : Near(p, r, c)}
RemovedNever(p, r) == {}
Removed(p, r) == {c \in CellEvents.removeDynamic : Near(p, r, c) /\ Added(p, r)[c] > 0}
EatenFoodForgotten(p) == {}   \* slip: no event read
EatenFood(p) == {f \in CellEvents.removeStatic : Inside(Position[f], view[p])}

\* Player::UpdateBlocks: the food of the blocks that leave or enter the view.
FoodIn(B) == UNION {StaticMap[b] : b \in B}
LeftFood(p, v)    == FoodIn(VisibleBlocks(view[p]) \ VisibleBlocks(v))
EnteredFoodSwapped(p, v) == LeftFood(p, v)   \* slip: difference the wrong way
EnteredFood(p, v) == FoodIn(VisibleBlocks(v) \ VisibleBlocks(view[p]))

\* What a client that has picture pic makes of the records of one Update: of the
\* clean-up, of the events, and of the new view v.
Read(pic, p, r, v) ==
  LET cleaned == RemoveCells(pic, OutOfView(p))
      drawn   == PutCells(cleaned, Appeared(p, r) \cup Drawn(cleaned, Moved(p, r)))
      parsed  == RemoveCells(drawn, Removed(p, r) \cup EatenFood(p))
  IN  PutCells(RemoveCells(parsed, LeftFood(p, v)), EnteredFood(p, v))

\* The rest of Player::Update: the clean-up, the events, the new view v.
Refresh(p, r, v) ==
  /\ CellHistory' = [CellHistory EXCEPT ![p] =
       [c \in Dynamic |-> Added(p, r)[c] - (IF c \in Removed(p, r) THEN 1 ELSE 0)]]
  /\ told' = [told EXCEPT ![p] = Read(@, p, r, v)]
  /\ unsent' = [unsent EXCEPT ![p] = Read(@, p, r, v)]
  /\ view' = [view EXCEPT ![p] = v]
  /\ quiet' = [quiet EXCEPT ![p] = @ \cap VisibleBlocks(v)]
  /\ inherited' = [inherited EXCEPT ![p] =
       {c \in @ : CellHistory'[p][c] > 0 /\ told'[p][c] = Unknown}]

\* The records of that Update: Message::AddCell, MoveCell, RemoveCell and Position
\* append 23, 21, 5 and 9 bytes.  SpaceLeft is not looked at.
UpdateBytes(p, r, v) ==
    23 * (Cardinality(Appeared(p, r)) + Cardinality(EnteredFood(p, v)))
  + 21 * Cardinality(Moved(p, r))
  + 5 * (Cardinality(OutOfView(p)) + Cardinality(Removed(p, r))
          + Cardinality(EatenFood(p)) + Cardinality(LeftFood(p, v)))
  + 9

\* UpdateView divides by the number of cells: with none left TopLeft and
\* BottomRight are both the index of a coordinate that is not a number.
NextViews(p) ==
  IF Cells'[p] = {} THEN {[tl |-> IndexFromCoord(Nowhere), br |-> IndexFromCoord(Nowhere)]}
                    ELSE Views

\* Player::Update
UpdatePlayer(p) ==
  /\ pc = "update" /\ p \in todo
  /\ SplitAndFeed(p)
  /\ \E r \in [CellEvents.move \cup CellEvents.removeDynamic -> Radii], v \in NextViews(p) :
       Refresh(p, r, v)
  /\ todo' = todo \ {p}
  /\ UNCHANGED <<pc, StaticMap, moving, abandoned, CellEvents, active, shown, leftover>>

\* Game::ParseEvents removes once more what the collisions already removed.
ParseEvents ==
  /\ pc = "update" /\ todo = {}
  /\ StaticMap' = [b \in Block |->
       StaticMap[b] \ {f \in CellEvents.removeStatic : IndexFromCoord(Position[f]) = b}]
  /\ DynamicMap' = DynamicMap \ CellEvents.removeDynamic
  /\ pc' = "idle"
  /\ UNCHANGED <<todo, Position, moving, fresh, Cells, abandoned, CellEvents,
                 active, sync, shown, leftover>>

Next ==
  \/ \E p \in Players :
       \/ WriteableKnown(p) \/ WriteableNew(p) \/ PeerInitiatedClose(p)
       \/ Established(p)
       \/ EatStatic(p) \/ EatDynamic(p) \/ CollideSelf(p)
       \/ \E q \in Players : EatRival(p, q)
       \/ UpdatePlayer(p)
  \/ BeginTick \/ EndOwn \/ MovePlayers \/ ParseEvents

Spec == Init /\ [][Next]_vars

-----------------------------------------------------------------------------
(* Properties                                                              *)

TypeOK ==
  /\ pc \in {"idle", "own", "rivals", "update"}
  /\ todo \subseteq active /\ active \subseteq Players
  /\ pc # "update" => todo = {}
  /\ StaticMap \in [Block -> SUBSET Food]
  /\ DynamicMap \subseteq Dynamic /\ moving \subseteq Dynamic
  /\ fresh \subseteq Spare /\ abandoned \subseteq Dynamic
  /\ Position \in [Cell -> Point]
  /\ CellEvents \in [move : SUBSET Dynamic, removeStatic : SUBSET Food,
                     removeDynamic : SUBSET Dynamic]
  /\ Cells \in [Players -> SUBSET Dynamic]
  /\ view \in [Players -> View]
  /\ CellHistory \in [Players -> [Dynamic -> Nat]]
  /\ told \in [Players -> Picture] /\ shown \in [Players -> Picture]
  /\ unsent \in [Players -> Picture]
  /\ quiet \in [Players -> SUBSET Block]
  /\ leftover \in [Players -> SUBSET Cell]
  /\ inherited \in [Players -> SUBSET Dynamic]

\* DeleteDynamic erases one matching entry of CellHistory and stops; its
\* comment asks why there are duplicates.  There are none: a cell is in the
\* vector at most once.
NoDuplicates == \A p \in Players, c \in Dynamic : CellHistory[p][c] <= 1

\* CellHistory is the server's only record of what a client shows: a dynamic
\* cell is in the client's picture exactly if it is in the history, apart from
\* two things that only the end of a Player or of a connection brings about: what
\* a client whose Player overflowed still showed when it got a new one, and what
\* was sent to the earlier client of a Player that another one took over.
HistoryIsPicture ==
  \A p \in active, c \in Dynamic :
    /\ CellHistory[p][c] > 0 => told[p][c] # Unknown \/ c \in inherited[p]
    /\ told[p][c] # Unknown => CellHistory[p][c] > 0 \/ c \in leftover[p]

\* Between ticks no history holds a cell that was eaten, although the clean-up
\* of the history and the removal events decide visibility by two different
\* tests: whatever it holds is alive or was erased without an event.
NoEatenCell ==
  pc = "idle" => \A p \in active, c \in Dynamic :
    CellHistory[p][c] > 0 => c \in Live \cup abandoned

\* Between ticks a client knows where every live cell of its history really is,
\* although nothing is sent for a cell that has no velocity, unless the cell was
\* sent to an earlier client of the same Player and not to this one.
PositionsTold ==
  pc = "idle" => \A p \in active, c \in Live :
    CellHistory[p][c] > 0 /\ Tangible(c)
      => told[p][c] = Position[c] \/ c \in inherited[p]

\* Between ticks a client shows no food that was eaten or is in a block that
\* has left its view, apart from what its previous Player left behind.
NoStaleFood ==
  pc = "idle" => \A p \in active, f \in Food :
    told[p][f] # Unknown =>
      f \in leftover[p] \cup UNION {StaticMap[b] : b \in VisibleBlocks(view[p])}

\* A client knows all the food of the blocks that have come into its view since
\* it got its Player, newly made or taken over from an earlier client.
EnteredFoodTold ==
  \A p \in active :
    \A b \in VisibleBlocks(view[p]) \ quiet[p] : \A f \in StaticMap[b] :
      told[p][f] = Position[f]

\* A player's Update leaves out no cell that was moved in this tick: each one whose
\* centre was in the view it started from is in the history afterwards.  Cells the
\* Updates themselves construct have no event before the next tick.
NothingHidden ==
  [][\A p \in todo \ todo' : \A c \in CellEvents.move :
       Inside(Position[c], view[p]) /\ Tangible(c) => CellHistory'[p][c] > 0]_vars

\* What the world may hold without an Update ever needing more bytes than this:
\* a dynamic cell costs the removal and the new record of one that is seen over
\* the border, a food cell the record of one that comes into view.  In a world
\* for which it is more than Message::Connected leaves, the buffer may overflow.
MaxUpdateBytes == 28 * Cardinality(Dynamic) + 23 * Cardinality(Food) + 9
UpdateFits ==
  pc = "update" => \A p \in todo :
    \A r \in [CellEvents.move \cup CellEvents.removeDynamic -> Radii], v \in Views :
      UpdateBytes(p, r, v) <= MaxUpdateBytes

-----------------------------------------------------------------------------
(* What clients are promised.                                              *)

\* The events of this tick have not reached p yet.
Behind(p) == pc \in {"own", "rivals"} \/ p \in todo

Known(p, c) == CellHistory[p][c] > 0

knownSets == [p \in Players |-> {c \in Dynamic : Known(p, c)}]
owedSets  == [p \in Players |-> {c \in knownSets[p] :
                                  Behind(p) /\ c \in CellEvents.removeDynamic}]
Shows(pic) == [p \in Players |-> {c \in Dynamic : pic[p][c] # Unknown}]

Sub == INSTANCE Subscription WITH
  Client <- Players, Item <- Dynamic,
  open <- pc # "idle", unborn <- fresh, live <- Live, lost <- abandoned,
  known <- knownSets, owed <- owedSets, picture <- Shows(told), screen <- Shows(shown)

\* The stages of the loop, the views, the events and the histories together keep
\* the promises of Subscription: whoever knows a cell that is eaten is told in
\* the same tick, whatever the clean-up and the edge test make of it, and a
\* client shows what its history says and what an earlier Player left, but for
\* what a client that took a Player over missed of it.
ImplementsSubscription == Sub!Spec

-----------------------------------------------------------------------------
(* Why the safety properties hold: what is true in the middle of a tick.   *)

Clamped(c) == ~Tangible(c) \/ InMap(Position[c])

\* A cell has one owner, and only a player that exists owns cells.
OneOwner ==
  /\ \A p \in Players \ active : Cells[p] = {}
  /\ \A p, q \in Players : p # q => Cells[p] \cap Cells[q] = {}
  /\ DynamicMap \cap PlayerCells = {}
  /\ fresh \cap Live = {}

\* Only a player that exists knows cells, and a cell it knows has been moved.
KnownCells ==
  \A p \in Players, c \in Dynamic :
    Known(p, c) => p \in active /\ c \notin fresh /\ Clamped(c)

\* A cell with a removal event is gone for good, and can be found at a place in
\* the map by whoever knows it.
EatenCells ==
  pc # "idle" =>
    /\ CellEvents.removeDynamic \cap (Live \cup fresh) = {}
    /\ \A p \in Players, c \in CellEvents.removeDynamic :
         Known(p, c) => Tangible(c)

\* What a player knows is alive, was erased without an event, or has an event
\* that is still to reach the player.
KnownReason ==
  \A p \in Players, c \in Dynamic : Known(p, c) =>
    \/ c \in Live \cup abandoned
    \/ Behind(p) /\ c \in CellEvents.removeDynamic

\* The move events name every cell whose position a player has to be told.
MoveEvents ==
  /\ pc \in {"own", "rivals"} => \A c \in DynamicMap : Clamped(c)
  /\ pc = "update" =>
       /\ CellEvents.move \subseteq Live
       /\ \A c \in CellEvents.move : Clamped(c)
       /\ \A p \in Players, c \in Live : Known(p, c) => c \in CellEvents.move

\* A live cell that a player knows and its client shows is shown at its place,
\* unless the player is behind and the cell is one that moves in this tick.
PlacesTold ==
  \A p \in active, c \in Live :
    Known(p, c) /\ Tangible(c) /\ (Behind(p) => c \in DynamicMap \ moving)
      => told[p][c] \in {Unknown, Position[c]}

\* Food lies in the block of its position, and what was eaten lies nowhere.
FoodPlaced == \A b \in Block : \A f \in StaticMap[b] : IndexFromCoord(Position[f]) = b
FoodGone == pc # "idle" => CellEvents.removeStatic \cap FoodIn(Block) = {}

\* What waits in a buffer agrees with the rest of the picture, and what it leaves
\* of a dynamic cell on a blank client is in the history.
UnsentAgrees ==
  \A p \in Players :
    /\ \A c \in Cell : unsent[p][c] \in {Unknown, told[p][c]}
    /\ \A c \in Dynamic : unsent[p][c] # Unknown => Known(p, c)

\* Food a client shows is in a visible block, was left behind by an earlier
\* Player, or was eaten there and has an event that is still to reach the player.
FoodExpected(p) ==
  FoodIn(VisibleBlocks(view[p])) \cup (IF Behind(p) THEN EatenFood(p) ELSE {})
FoodReason ==
  \A f \in Food :
    /\ \A p \in active : told[p][f] # Unknown => f \in leftover[p] \cup FoodExpected(p)
    /\ \A p \in Players : unsent[p][f] # Unknown => p \in active /\ f \in FoodExpected(p)

PictureInv == PlacesTold /\ FoodPlaced /\ FoodGone /\ FoodReason /\ EnteredFoodTold

SyncInv ==
  /\ TypeOK /\ NoDuplicates /\ HistoryIsPicture /\ UnsentAgrees
  /\ OneOwner /\ KnownCells /\ EatenCells /\ KnownReason /\ MoveEvents

-----------------------------------------------------------------------------
(* What the comments of the code say and the code does not do.             *)

\* Game::game_loop_cb says of Update "calculate new view and create WS message
\* based on changes", Player::ParseEvents "Update which cells are visible": a
\* player that has been updated should have no cell in its history that is not
\* in the world any more.
OnlyLiveCells ==
  pc = "update" => \A p \in active \ todo, c \in Dynamic :
    CellHistory[p][c] > 0 => c \in Live

\* Player::Blocks is the "list of currently visible Blocks": a player that has
\* been updated should have been told of the food in them.
VisibleFoodTold ==
  pc = "update" => \A p \in active \ todo :
    \A b \in VisibleBlocks(view[p]) : \A f \in StaticMap[b] : told[p][f] # Unknown

\* Player::ParseEvents says of a cell it finds in CellHistory "if we already know
\* about this cell", and sends no AddCell for it: once a player has been updated,
\* its client should show the cells of the history that are in its view.
KnownShown ==
  pc = "update" => \A p \in active \ todo, c \in Live :
    Known(p, c) /\ Inside(Position[c], view[p]) => told[p][c] # Unknown
=============================================================================
