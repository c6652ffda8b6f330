# Verification of the agar2 server

This directory holds TLA+ models of the server in `src/agar2`, the TLC
configurations that check them, and TLAPS proofs of the facts that keep the
clients in step with the world, the players' vectors in order, and the cells
within their limits and their mass. Line numbers refer to `src/agar2`.

Contents: [the system](#the-system), [modules](#modules), [runs](#runs),
[bounds](#bounds), [fairness](#fairness), [proofs](#proofs),
[findings](#findings), [what is not modelled](#what-is-not-modelled),
[plan](#plan).

## The system

A multiplayer game server in one process and one thread. libuv runs a timer,
libwebsockets runs callbacks, and both change the same global state without
locks; what interleaves is whole callbacks.

| Component | State | Operations | Hard parts |
|---|---|---|---|
| Map (`Map.*`) | `StaticMap` (160 x 160 blocks of food), `DynamicMap` (viruses and ejected feed), `CellEvents` (what happened in this tick) | `AddStatic`, `RemoveStatic`, `AddDynamic`, `RemoveDynamic`, `IndexFromCoord`, `EdgeInside`, `Inside`, `Init` | two visibility tests that must agree; unchecked array indices behind a cast; coordinates that are not numbers |
| Game loop (`Game.*`) | `Players`, `CurrentTime` | `game_loop_cb` (clear events, move, erase overflowed players, collide, move players, update players), `ParseEvents` | order of the stages; erasing a player between them; things removed twice |
| Player (`Player.*`) | `Cells`, `TopLeft`/`BottomRight`, `Blocks`, `CellHistory`, `WSMessage`, `DoSplit`, `DoFeed`, `SendTime`, `Camera` | `CollideStatic`, `CollideDynamic`, `CollideSelf`, `CollideOtherPlayer`, `Update`, `UpdateBlocks`, `ParseEvents`, `Send`, move operations | `CellHistory` mirrors the client; loops over vectors that shrink under them; moves that leave fields out |
| Message (`Message.*`) | 64 KiB buffer, `ACK` | `AddCell`, `MoveCell`, `RemoveCell`, `Position`, `Send`, `Connected` | nothing checks the room left while appending |
| Cell (`Cell.*`, `Vec.h`) | position, velocity, radius, flags, `CombineTime` | `Update`, `_MoveAbs`, `Collide`, `AddSize` | division by a size of zero; shares of a radius of zero; positions that are not clamped when a cell is constructed |
| Sessions (`WebSocket.cpp`) | the set of connections (in libwebsockets), who asked for a writable callback | `callback_wsapi` | a Player is made by the first writable callback; closing without a close frame is not handled; one callback sends for everybody |
| Program start (`Main.cpp`), colours (`Color.*`) | - | - | - |

How they interact. A client's message sets fields of its Player and asks for a
writable callback. The timer runs `game_loop_cb`, which moves and collides
everything, writes what happened into `CellEvents`, and lets every Player turn
the events and its view into records appended to `WSMessage`. Writable
callbacks send the buffers. The client builds its picture from the records
alone, and `CellHistory` is all the server knows about that picture, so the
central question is whether picture, history and world agree.

What makes each component correct:

* Map: an index computed from coordinates is inside the array, as far as the cast
  in `IndexFromCoord` allows; a cell whose centre is visible also passes the edge
  test.
* Game loop, Player, Map together: a client shows every live cell in its view,
  at its place, and no cell or food that is gone; a history has no duplicates
  and equals what the client shows.
* Game loop towards the clients: whoever knows a thing that goes is told of it
  before the round is over, unless it went with a connection.
* Sizes: no player has more cells than the limit, mass comes from nowhere, and a
  cell is not left without mass or place.
* `CollideSelf`: mass is kept, every cell that leaves has an event, ready cells
  that overlap end up as one, the call returns.
* Sessions: a connection has one Player; packets go out at the pace of the
  client; commands are carried out for who sent them; whoever speaks gets a Player; no buffer waits for ever.
* Message: what an Update appends is bounded by what is in the world, and a buffer
  runs past its end only if that bound is more than a quarter of it.

The hazards behind these are listed with their lines in `PROJECT.json`.

## Modules

| Module | Extends | Its model-checking module and runs | Its proofs |
|---|---|---|---|
| `Grid` | - | through ViewSync | `GridProofs` |
| `ViewSync` | `Grid`; instantiates `Subscription` | `MCViewSync`: picture, food, rivals, phantom, initial_food, inherited | `ViewSyncProofs` (with `GridProofs`), and on top of it `SubscriptionProofs`, `PictureProofs` |
| `Subscription` | - | rivals | `SubscriptionProofs` |
| `SelfCollision` | instantiates `Merging` | `MCSelfCollision`: merge, ghost_eater | `CollisionProofs` (with `ListFacts`) |
| `Merging` | - | merge | `CollisionProofs` |
| `Mass` | `Vectors` | `MCMass`: mass | `MassProofs` (with `ListFacts`) |
| `Session` | `Vectors` | session, wrong_feeder, overrun | `SessionProofs` (with `ListFacts`) |

**Grid** (`Map.cpp`, `Cell.cpp`): pure operators. A point is a pair of
coordinates; a coordinate is an integer or `NaN`, the one further value of a float
that matters, and either coordinate may have it alone. `IndexFromCoord` is
translated with its order of operations: `max(c, 0)` turns `NaN` into 0, the cast
to `int32_t` turns 2^31 and more (infinity with it) into the smallest integer, as
x86 does, and only then the minimum with the size of the map is taken
(`ToInt32`, `IndexOf`). `MoveAbs` and `MoveRel` (the clamp of `_MoveAbs`, in
which `NaN` stays), `Inside`, `EdgeInside`, `VisibleBlocks` are the others.

**ViewSync** (`Game.cpp`, `Player.cpp`, `Map.cpp`): the core. The game loop is
cut into its stages, which `pc` orders: `BeginTick` (clear events, move dynamic
cells, erase overflowed players), `EatStatic` / `EatDynamic` / `CollideSelf`
(the first loop over the players), `EatRival` (the second), `MovePlayers`,
`UpdatePlayer` once per player, and `ParseEvents`. `UpdateBytes` counts what
the records of an Update take (`Message.h`, `Message.cpp:87-148`). Between two ticks the
websocket callbacks run: `WriteableKnown`, `WriteableNew`,
`PeerInitiatedClose` and `Established`.

| Variable | Code |
|---|---|
| `StaticMap`, `DynamicMap`, `CellEvents` | the same names in `Map` |
| `Position`, `moving` | `Cell::_Position`, `GetVelocity() != 0` |
| `fresh` | cells not constructed yet |
| `active`, `Cells`, `view`, `CellHistory` | `Game::Players` and the members of `Player` |
| `told`, `shown` | the client's picture after everything appended, and after everything sent: what `WSMessage` holds is the difference |
| `unsent` | the picture that a client which shows nothing would get from `WSMessage` alone |
| `abandoned`, `quiet`, `leftover`, `inherited` | history variables: cells erased without an event, blocks in view since the client got the Player, what it showed before, and known cells that were sent to an earlier client of the Player and not yet to this one |

`Players` are the addresses of `lws` objects, each with the client behind it.
`Established` is a connection that breaks without a close frame and whose address
goes to a new client. `callback_wsapi` has no case for the break
(`WebSocket.cpp:148-170`), and the writable callback finds the Player by the
address (69-75): the new client shows nothing, gets what was left in the buffer
(`unsent`), and CellHistory says that it knows what its predecessor was sent.
What it makes of a MoveCell record of a cell it does not show is not in the
repository; the constant `MoveDraws` is either, and nothing proved depends on it.
If it is the address of a client whose Player had overflowed, the new client
starts from nothing. A broken connection whose address nobody gets is the same as
one that is never sent to again, until the overflow or the end of the run.

Sizes, distances, forces and the camera are choices: who eats whom, where a
cell moves, what the next view is. Nothing is assumed about them except that a
cell without coordinates collides with nothing (`Cell::Collide` returns `NONE`)
and that a player without cells gets the view of not-a-number (division by zero
in `UpdateView`). The guards and order of everything that touches the history,
the events and the messages are the code's.

**Subscription** is the abstract specification that ViewSync implements. It has
no views, events, buffers or blocks: items come and go in rounds, a client that
knows an item is owed notice of its removal, and a round cannot close while
anything is owed. Its actions are `Open`, `Change`, `Publish`, `Close`, and
between the rounds `Send`, `Leave` and `Replace` (another client takes the place of
one: what counts as known stays, and `Publish` may then leave the client blind for
it). The refinement mapping (`Sub` in
ViewSync) takes `known` from `CellHistory`, `owed` from the events of the tick
that a player has not parsed yet, `picture` and `screen` from `told` and `shown`,
and `lost` from `abandoned`. What it does not promise is as telling: an item
that is `lost` may stay known for ever, which is finding 1, and a client that
replaced another may never see what is taken to be known to it, which is finding 5.

**Mass** (`Player.cpp:122-224, 301-333, 352-408, 505-560`, `Cell.*`): the same
tick for sizes. `Cells` is the vector of each player, a cell has a size and
possibly a place; food, viruses and feeds are counted. Its actions are the
steps that change a size: `EatFood`, `EatFeed`, `EatVirus` (the pop, with its
halving loop and its small balls), `Merge`, `GhostEats` and `GhostEaten` (what
`CollideSelf` does through its stale pointer), `EatRival`. A place is lost by
collision in two ways: small balls are placed around the rest of a cell whose
radius is not a number (`Popped`), and two cells without mass push each other
apart by a share of 0/0 (`Push`); `Move` loses it by division. `Update`
splits, feeds and computes the Camera. Sizes are integers in a small unit.
Rounding decides something only where a cell gives all it has to its balls:
there every result is possible (`Leftover`): nothing, a little, or the root of a
negative number, which is no number. A cell without mass or place is what spoils
the `Camera` (`Framed`). Players are there from the start: the mass of a join
(`Player::Init`, in ViewSync and Session) and of a departure is not in `MassLaw`.

**Vectors**: the order in which a loop visits some of the places of a vector.

**SelfCollision** (`Player.cpp:226-299`): `CollideSelf` statement by statement.
The loop erases from the vector its two indices point into, and keeps a pointer
to a cell it has erased; that is the whole difficulty, so `Cells` is a sequence
and `myLoop`, `loop` and `cell` are variables. `erase(begin() - 1)` is
undefined; the model lets the program die or lose its first element, which is
what moving the vector down by one does. The history variable `misled` becomes
true when a cell that was eaten already (`Stale`) eats or is eaten again.

**Merging** is the abstract specification that SelfCollision implements: what a
call promises, without indices, vectors and pointers. The cells of a player
leave one by one, each that was eaten with a removal event; a cell may be mislaid
without one, but only after another was eaten and by a player of four cells or
more; after a merge a cell that can collide remains. The refinement mapping (`M`
in SelfCollision) takes the elements of `Cells` for the cells of the player, the
list of events for those that left with one, and the rest for the mislaid.
ViewSync's `CollideSelf` is any number of such steps at once.

**Session** (`WebSocket.cpp`, `Player.cpp:14-38, 697-709`, `Message.cpp:53-85`):
`Players` is the vector, because what goes wrong in it goes wrong by position:
erasing moves every later element down, and the move operations leave the
commands behind. A connection is an address: after a disconnection without a
close frame the Player stays, and the address may come back. `fill` is the
amount in the buffer, `age` the time since `SendTime`. An Update appends any of
the amounts in `Appended`, without a look at the room. `Connected` is translated
with its types: `SpaceLeft` is signed and what it is compared with is not, so a
buffer that has overrun passes (`Overrun`). What the records past the end of the
buffer destroy is not modelled; such a Player goes on, and what it gets on top is
not counted (`Filled`).

## Runs

| Run | Module, cfg | Question | Result |
|---|---|---|---|
| picture | MCViewSync, Picture | one client at a time, a virus that may pop its cell, all views, borders and positions outside the map, a Player that is inherited: do history, picture and world agree? | holds, 363 084 states |
| food | MCViewSync, Food | two food cells, all sequences of views: is the client's food right, and what does an Update need? | holds, 102 976 states |
| rivals | MCViewSync, Rivals | two players who join, leave, overflow, eat each other, may lose a coordinate or hand their Player on: inductive invariant, implementation of Subscription | holds, 137 599 states |
| merge | MCSelfCollision, Merge | all calls of `CollideSelf` on one to five cells | holds, 103 007 states |
| mass | MCMass, Mass | two players, two viruses, food: all orders of eating, popping, merging, splitting and feeding, with cells that are left without mass and push each other | holds, 180 755 states |
| session | Session, Session | two connections, one command, a buffer of four units, small and big Updates | holds, 80 742 states |
| phantom | MCViewSync, Phantom | is everything in an updated history in the world? | violated |
| initial_food | MCViewSync, InitialFood | is the food of the visible blocks announced? | violated |
| inherited | MCViewSync, Inherited | does a client show the cells in its view that its history holds? | violated |
| ghost_eater | MCSelfCollision, GhostEater | does only a ball of the player eat? | violated |
| wrong_feeder | Session, WrongFeeder | is a command carried out for who sent it? | violated |
| overrun | Session, Overrun | is a Player erased whose buffer has overrun? | violated |

The properties, and what would break them:

* `NoDuplicates`, `HistoryIsPicture`: the history is exact although three
  places add to and take from it (clean-up, move events, removal events). Two
  things are excused, and nothing else: what a client still shows from an earlier
  Player (`leftover`), and what was sent to an earlier client (`inherited`).
* `NoEatenCell`: removal events live for one tick. Everybody who knows an eaten
  cell must be near it in that tick; it is so because the clean-up runs first
  and `Inside` implies `EdgeInside` for a clamped position.
* `PositionsTold`: nothing is sent for a known cell without velocity, so such a
  cell must never move.
* `NothingHidden`: after its Update a player knows every cell that was moved in the
  tick and whose centre was in the view the Update started from. Cells that
  Updates of the same tick construct have no event before the next one.
* `NoStaleFood`, `EnteredFoodTold`: the block difference and the removal events
  use different views and different moments; together they must neither leave
  eaten food on the client nor omit food that came into view.
* `ImplementsSubscription`: every step of the loop is a step of Subscription or
  none. A removal that one player's clean-up, edge test or place in the loop
  hides from it would leave something owed when the round closes.
* `UpdateFits`: a dynamic cell costs an Update 28 bytes at most (a removal and a
  new record of a cell over the border), a food cell 23, the position 9. Nothing
  in the code bounds an Update; this is what the world must not exceed.
* `AtMostMaxCells`: the pop and the split test the limit in three places.
* `OnlyPoppingBlinds`: only a player one of whose cells popped can lose its Camera
  or have a cell without mass or place; no sequence of splits, feeds, merges
  and meals leads there, and nobody is harmed by what happened to another.
* `MassLaw`: mass is created by popping and by the cell that eats after its
  death, and by nothing else; the steps are those of the game, without the join.
* `MassKept`, `LeavesWithEvent`, `Merged`: until the stale pointer is used, merging
  keeps the mass, tells of every cell that goes, and leaves one of the ready
  cells if they all overlap: pairs must not be skipped although every erase
  moves the cells behind it under both indices.
* `FewNeverMislead`: the pointer is used after its cell was eaten only by players
  of four cells and more. The inner loop goes on after it, and that nothing is
  left for it to find is a matter of counting.
* `EatenAreGone`, `EaterRemains`, `Returns`: merging with any number of cells,
  whatever the stale index erases.
* `Advances`: why a call returns. The outer index is moved back, but only when a
  cell goes.
* `ImplementsMerging`: what the rest of the game may rely on, as one specification.
* `UniquePlayers`, `CommandsPressed`, `PacedSends`, `Joins`: what joining,
  leaving, overflowing, growing the vector and reused addresses must not break.
* `BuffersKept`: erasing, growing and sending for everybody from one callback must
  not cut, move or lose the buffer of anybody else; it is what makes each tick
  bring a pending buffer nearer to being sent or dropped.
* `OverrunsAreSudden`: the look at the room once a tick is enough for a client that
  falls behind bit by bit, whoever else is erased, moved or sent meanwhile: only a
  single Update of more than a quarter of the buffer takes it past the end.
* `SentOrDropped`: a buffer is sent, or its Player goes, or it overruns. A packet that was not due
  when the writable callback came depends on the next tick to ask again; a
  silent client is found out by the timeout or by its buffer.

`SyncInv`, `PictureInv`, `MergeInv` (with `CollisionInv` as a part of it) and
`SessionInv` are the inductive invariants of the proofs; the runs check them
too, so that what is proved is what the runs explore. (That of Mass is the
conjunction of its invariants.)

## Bounds

* Blocks: two by two, of side two; all positions lie on one row, so a view is
  an interval. Two blocks give every relation of a cell to a view: in it, next
  to it within a radius, out of it. Positions include the border of a block,
  a place outside the map (new cells are not clamped) and `NaN`.
* `Radii = {1}`: reaches into the next block from its border and not from
  anywhere else.
* `Spare` bounds how many cells are ever constructed: 1 with a virus and every
  view, 2 with two players. Calls of `CollideSelf` that lose a cell need four
  of one player and are left to the proofs, which hold for any number.
* `MAX_CELLS` is 2 in ViewSync and 4 in Mass instead of 16.
* `Places` of `rivals` include one with a single coordinate that is no number.
* `Views` are block intervals, so a view has its corners in the array. A corner
  leaves it only beyond the limit of the cast (`IndexInMap`), for a camera whose
  window, a few times the radii of the player's cells, is 2^31 wide.
* `MoveDraws` is false in `picture` and `food`, true in `rivals` and `inherited`.
* `Mass`: small weights. A new cell (5) that eats a virus (3) gives all it has to
  a small ball of 8, which can eat the second virus and do so again: two cells
  without mass are what `Push` takes. A cell of 9 and more is halved by its virus
  (`POP_SIZE` is 11), one that ate a rival or the food (4) also splits and feeds,
  and one whose player has four cells keeps the virus without popping. `MaxMass`
  (20) stops `GhostEaten` from counting mass twice without end, and stops nothing
  else.
* `SelfCollision`: up to five cells (the stale index needs four), sizes 1 and 2
  (equal cells take the else branch, a bigger first cell the other).
* `Session`: two connections (an erase with an element behind it), a buffer of
  four units, one of which is kept free in front, with Updates of one unit (a
  client falls behind bit by bit and is erased) and of three, more than a quarter
  (a buffer runs past its end), `SEND_INTERVAL = 0` and `TIMEOUT_ACK = 1` on a clock
  that counts to 2: before, between and after the two thresholds.

Deadlock is checked except in `Merge` and `GhostEater`, where a behaviour is
one call and ends.

## Fairness

ViewSync, Subscription, Mass and their properties are safety only.
`SelfCollision` has weak fairness of its next step: a call runs on. `Session`
assumes

* `WF_vars(Writeable(w))` for every connection: libwebsockets calls back for a
  socket that was asked about, or the connection ends, which is the action
  `Closed` or `PeerInitiatedClose` and disables the callback;
* `WF_vars(Tick)`: the timer is a repeating one (`WebSocket.cpp:54`).

Nothing is assumed of the clock or of the clients: they may be silent for ever,
and how often the timer runs before a socket becomes writable is not bounded.
`SentOrDropped` is therefore a disjunction: with a client that cannot be written
to, ticks fill the buffer until the Player is erased, or past its end.

## Proofs

All theorems are checked by TLAPS down to the last leaf; nothing is assumed but
the named assumptions on the constants (`GridAssumption`: positive sizes, a map
below 2^31, and `NaN` no integer; `ViewAssumption`: disjoint kinds of cells, well-typed
places, radii and views; `MassAssumption`: positive weights, a feed weighs no
more than it costs, finitely many players; `SessionAssumption`: an Update appends
something, how much is open, and the interval is shorter than the timeout;
`CollisionAssumption`: positive sizes). They
hold for any number of players, connections, cells, blocks and commands.

| Theorem | Statement |
|---|---|
| `IndexInMap` | coordinates, `NaN` included, give an index of `StaticMap` if and only if they survive the cast to `int32_t` |
| `InsideReachesEdge` | for a position in the map, `Inside` implies `EdgeInside`, whatever the radius |
| `SyncInvariant`, `HistoryCorrect`, `TypesKept`, `HistoryOnce`, `EatenCellsForgotten` | `Spec => []SyncInv` and what follows: `TypeOK`, `NoDuplicates`, `HistoryIsPicture`, `NoEatenCell` |
| `NothingLeftOut` | `Spec => NothingHidden`, an action property |
| `Implements` | `Spec => ImplementsSubscription` |
| `PictureInvariant`, `PlacesCorrect`, `EatenFoodLeaves`, `EnteredFoodComplete` | `Spec => []PictureInv`, and `PositionsTold`, `NoStaleFood`, `EnteredFoodTold` |
| `UpdatesFit` | `Spec => []UpdateFits`, if food and dynamic cells are finitely many |
| `MassInvariant`, `MassTypes`, `CellsLimited`, `PoppingBlinds` | `Spec => []MassInv`: `TypeOK`, `AtMostMaxCells`, `OnlyPoppingBlinds` |
| `MassLawHolds` | `Spec => MassLaw`, an action property |
| `SessionInvariant`, `OnePlayerEach`, `NoCommandInvented` | `Spec => []SessionInv`: `UniquePlayers`, `CommandsPressed`, and `TypeOK` |
| `SendsArePaced`, `BuffersAreKept`, `OverrunsTakeOneUpdate` | `Spec => PacedSends`, `Spec => BuffersKept`, `Spec => OverrunsAreSudden`, action properties |
| `CollisionInvariant`, `CollisionTypesKept`, `EatenLeave`, `EaterStays` | `Spec => []CollisionInv`: `TypeOK`, `EatenAreGone`, `EaterRemains` |
| `MergeInvariant`, `MassIsKept`, `EventForEveryCell`, `ReadyCellsMerge`, `FewAreNotMisled` | `Spec => []MergeInv`: `MassKept`, `LeavesWithEvent`, `Merged`, `FewNeverMislead` |
| `CallsAdvance`, `RefinesMerging` | `Spec => Advances`, `Spec => ImplementsMerging` |

**History.** `NoEatenCell` speaks of the time between ticks and is not inductive.
The strengthening is `KnownReason`: at every stage a cell that a player knows is
alive, was abandoned, or has a removal event in the current tick which that
player has not parsed yet (`Behind`). To keep it over `UpdatePlayer`, the event
of a known cell must pass the edge test: `EatenCells` and `KnownCells` say that
a known cell with an event has a clamped position, and the clean-up has just
made sure that it is inside the view, so `InsideReachesEdge` applies.
`MoveEvents` (every known live cell has a move event in the update stage) and
`OneOwner` (a cell has one place: in `DynamicMap`, with one player, or nowhere)
carry the rest. For an inherited Player `HistoryIsPicture` needs `UnsentAgrees`: what
waits in the buffer agrees with the picture, and of dynamic cells the history holds
all it leaves on a blank screen, so after `Established` exactly `inherited` is
missing. `NothingHidden` follows the same way: `MoveEvents` puts the cell
in the map, the edge test lets it through, and it has no removal event.

**Implementation.** `Implements` maps each action, under `SyncInv`, to one action of
Subscription or a stutter: `BeginTick` to `Open`, collisions to `Change`,
`UpdatePlayer` to `Publish`, the callbacks to `Send`, `Leave` and `Replace`,
`ParseEvents` to `Close`. The step that takes work is `Publish`: that a player's Update pays
all it is owed is `KnownReason` for the state after it.

**Picture.** `PictureInv` adds to `SyncInv` where a client believes things to be.
`PlacesTold` excuses a player that is behind for every cell except a dynamic one
at rest, which does not move in the tick; `FoodReason` lists the reasons why a
client may show food (visible block, left behind, or eaten with an event that
is still to come), `FoodPlaced` and `FoodGone` tie food to blocks.

**Bytes.** `UpdatesFit` bounds three cardinalities: no dynamic cell is counted
both as moved and as new, one that is new costs at most a removal more, and food
in new blocks is disjoint from food that is removed.

**Mass.** `MassInv` is inductive as it stands. For the limit: a pop makes at most as
many big balls as there is room and at most as many small ones as are left; a
split takes the first big cells in number of the room, and `InOrder` lists
exactly these (their rank is an injection into `1 .. Room`). For
`OnlyPoppingBlinds`: a split halves only what is above `PLAYER_MIN_SIZE`, a feed
leaves more than that. For `MassLaw`: the weight of everything is a sum over
players of sums over vectors, and each step is a statement about one or two
terms of it. Food and feed weigh what the cell gains; a merge and a meal move a
term to another (`WeightAdded`, `WeightRemoved`); a split replaces a cell by two
that weigh as much, or less by rounding (`WeightSplit`, which needs that the
places that split are listed once each); the feeds of all players together are
counted in pairs of player and place, each worth no more than it cost
(`WeightFeed`, `PairsCounted`). A cell whose size is not a number
counts for nothing, and no step gives it weight again.

**Sessions.** Three predicates say what a callback leaves of the vector: `SentTo`,
`ErasedAt`, `TickKept`. That erasing keeps elements apart is `RemoveAtFacts`, and
for several at once the increasing enumeration `Ascending`. `BuffersKept` follows
from them and `UniquePlayers`: a close takes exactly the Player of its
connection, a tick keeps everybody with room (the enumeration is a surjection),
and the new Player that the writable callback appends is of a connection that
had none, so that nobody else is heir to a buffer. `PacedSends` follows from
`BuffersKept`, for an empty buffer that was not empty was due, and from
`AckHeard`, that an acknowledgement is in the Player of a connection that has
spoken; the latter fails if the move operations leave `ACK` in its place as they
leave `DoFeed`.

`OverrunsAreSudden` follows from `UniquePlayers` (a connection's buffer is one) and
from what a tick does with a Player that was `Connected`: more than a quarter was
free before the Update.

**Merging.** `CollisionInv` follows the pointer `cell`: until its cell is eaten the
outer index points to it, so the first erase of the else branch erases the right
element; after that it is eaten already. `EaterBehind` says that the one that ate
it is behind the inner index, where no erase of the same loop can remove the last
of them. `Advances` follows from where the indices may point.

`MergeInv` adds what holds until the pointer is misled, without a bound on the
number of cells. `PairsSettled` says which pairs the loops have compared, in
terms of the vector as it is now: no cell before the outer index is ready
together with a later one; when the cell at the index is erased the index steps
back, and what is now at its place is still settled. `FewEnd` is the count behind
`FewNeverMislead`: when the inner loop's cell was eaten, its eater is behind
the inner index, and with three cells that leaves none for the index to reach.
`RefinesMerging` maps `Pass`, the loop heads and the return to stutters, the
branch that eats the other cell to `Eaten`, and the else branch to `Eaten` or,
with a stale pointer, to `Mislaid`; that `Mislaid` is allowed there is `FewEnd`,
and that something ready remains is `EaterRemains`.

`ListFacts` has what the library's theorems do not give: a set of naturals that
contains 0 and every successor is all of them (induction without a predicate as
parameter), the enumeration of a finite set of places, what `RemoveAt` leaves, and sums over
finite sets. A sum is defined by a fold that chooses an element at each step.
`PartialDefined` and `PartialsAgree` show by that induction that the recursive
function behind the fold is what its equation says, for every set; from there
`SumTake` says that any element may be taken out first, and the other lemmas
(sums of disjoint sets, of equal values, under a change of one or two terms, along
an injection) follow by induction on the cardinality.

Only model-checked: everything under fairness (`Returns`, `Joins`,
`SentOrDropped`), which is out of the prover's reach. Their safety kernels
are proved: `Advances` for `Returns`, `BuffersKept` for `SentOrDropped`.

## Findings

1. *Phantom cells* (`phantom`; `WebSocket.cpp:156`, `Game.cpp:82`). Erasing a
   Player records no removal event for its cells. Others keep showing them.
2. *Food of the first view* (`initial_food`; `Player.cpp:45-55, 467-500`). Only
   differences between views are sent and the first view has no predecessor.
3. *Stale index in `CollideSelf`* (`ghost_eater`; `Player.cpp:255-263`). With
   four cells or more a cell that was eaten goes on eating or is eaten twice
   (`FewNeverMislead` says that it takes four).
4. *Commands move to another player* (`wrong_feeder`; `Player.cpp:14-38`).
5. *The inherited Player* (`inherited`; `WebSocket.cpp:60-78, 148-170`). After a
   connection broke without a close frame, a new client at the same address gets
   the old Player with its full CellHistory. No AddCell is sent for what is in it;
   a virus at rest, for which nothing is sent, is not shown until the view leaves it.
6. *Overrun buffers are not found* (`overrun`; `Message.cpp:71-79`). Past the end
   the room left is negative, and the comparison with an unsigned number takes it
   for very much: the Player is not erased.

Two things besides, which the models contain and no run is spent on. The clean-up
of the history keeps what `Inside` accepts and the move events look for what
`EdgeInside` accepts (`Player.cpp:415, 588`), so a cell between the two is removed
and added again in every Update: that is the 28 bytes a cell may cost in
`UpdateFits`. And the pop that says "split in half" gives the new cell 60% and takes
40% from the old one (`Player.cpp:156-160`); its small balls may leave a cell of size
zero or not-a-number, after which the player's Camera is lost. `MassLaw` and
`OnlyPoppingBlinds` say that nothing else does either.

## What is not modelled

`Main.cpp` (start-up), colours, the order of the fields inside a record, the
floating-point arithmetic of forces, damping, distances and the camera's place,
who owns which heap block, and real time as opposed to what `clock()` counts.
Use of a dangling `lws` pointer after an unhandled disconnection is modelled as a
call without effect on the other connections, and what lies behind the end of a
buffer is not modelled. `Player::Mouse` only sets
directions, which are a choice here. The headers of libwebsockets, libuv and zlib
and the cJSON sources under `src/agar2/include` are third-party; cJSON and zlib
are never called, and of the others Session models the callbacks.
The server's own code is about 2300 lines, of which the modules translate half;
the rest is declarations, includes, logging, commented-out code and the
arithmetic above. `UpdateBlocks` takes the difference of two vectors of blocks
with `std::set_difference`, which needs them sorted; `UpdateView` fills them
column by column, which is the order of the addresses in `StaticMap`, so
ViewSync uses the difference of sets.
`CELL_ADD_STATIC` and `CELL_ADD_DYNAMIC` events are never recorded by any code,
and the branch of `CollideDynamic` in which a dynamic cell eats a player's cell
(`Player.cpp:212-221`) is dead: dynamic cells are viruses or food.

## Plan

Done: Grid, ViewSync, Subscription, SelfCollision, Merging, Mass, Session; the
proofs of all invariants, action properties and refinements that the runs check.

Left:

1. Composition of Session with ViewSync in one specification: it would put the
   buffer of `Session` and the picture `told` / `shown` of ViewSync under one
   writable callback. Both model that callback, each for its own variables.
2. An upper bound on what `MassLaw` allows: how much mass one pop can create.
