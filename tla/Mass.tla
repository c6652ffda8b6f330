-------------------------------- MODULE Mass --------------------------------
(***************************************************************************)
(* What the cells of the players weigh: eating, popping on a virus,        *)
(* merging, splitting and feeding, and what becomes of a cell that is left *)
(* without mass.                                                           *)
(*                                                                         *)
(* Size() is an integer in some small unit; a division drops the fraction. *)
(* Where rounding a float decides the sign (a cell that gives all it has   *)
(* to its balls) every outcome is possible: a size of zero, the smallest   *)
(* size, or the square root of a negative number, which is not a number    *)
(* and stays so.  Who overlaps whom is a choice; whether it is enough to   *)
(* eat is not.                                                             *)
(*                                                                         *)
(* The stages of a tick are those of game_loop_cb: collide, move, update.  *)
(***************************************************************************)
EXTENDS Vectors

CONSTANTS
  Players,
  MAX_CELLS,      \* 16
  BIG_POPS,       \* 4, the limit of bigPop
  START_SIZE,     \* of a new player's cell (radius 1000 with FREE_PLAY)
  MIN_SIZE,       \* PLAYER_MIN_SIZE, which is also the size of radius 42
  POP_SIZE,       \* 500: a bigger cell is halved
  FOOD_SIZE, VIRUS_SIZE,
  FEED_SIZE,      \* what a feed costs
  FEED_KEPT,      \* FEED_SIZE * FEED_MULT: what it weighs
  MaxFood, MaxViruses,  \* what Map::Init makes
  MaxMass,        \* bound: how far counting cells twice may go
  NaN

ASSUME MassAssumption ==
  /\ IsFiniteSet(Players)
  /\ MAX_CELLS \in Nat \ {0} /\ BIG_POPS \in Nat
  /\ START_SIZE \in Nat \ {0} /\ MIN_SIZE \in Nat \ {0} /\ POP_SIZE \in Nat \ {0}
  /\ FOOD_SIZE \in Nat /\ VIRUS_SIZE \in Nat \ {0}
  /\ FEED_SIZE \in Nat /\ FEED_KEPT \in 0 .. FEED_SIZE
  /\ MaxFood \in Nat /\ MaxViruses \in Nat /\ MaxMass \in Nat
  /\ NaN \notin Nat

VARIABLES
  stage,      \* of the tick: "collide" or "update"
  Cells,      \* [Players -> sequence of cells: size, placed]
  camera,     \* players whose Camera is a pair of numbers
  food, viruses, feeds,   \* how many there are
  ghost,      \* the erased cell a call of CollideSelf still uses, if any
  popped      \* history: players one of whose cells a virus popped

world == <<food, viruses, feeds>>
vars == <<stage, Cells, camera, world, ghost, popped>>

Size == Nat \cup {NaN}
Cell == [size : Size, placed : BOOLEAN]

\* A cell whose position or radius is not a number collides with nothing.
Tangible(c) == c.placed /\ c.size # NaN

\* Cell::Collide for cells that overlap: BIGGER and SMALLER.
Bigger(a, b)  == a * 10000 > b * 13333
Smaller(a, b) == a * 4 < b * 3

Lesser(a, b) == IF a < b THEN a ELSE b
Room(cs) == MAX_CELLS - Len(cs)

\* Cell::AddSize
AddSize(cs, i, s) == [cs EXCEPT ![i].size = @ + s]
Ball(s) == [size |-> s, placed |-> TRUE]

\* What the cells of a player weigh, and everything in the world.
Sizes(cs) == [i \in {k \in DOMAIN cs : cs[k].size # NaN} |-> cs[i].size]
Weight(cs) == SumFunction(Sizes(cs))
Total ==
  food * FOOD_SIZE + viruses * VIRUS_SIZE + feeds * FEED_KEPT
    + SumFunction([p \in Players |-> Weight(Cells[p])])

Init ==
  /\ stage = "collide"
  /\ Cells = [p \in Players |-> <<Ball(START_SIZE)>>]
  /\ camera = Players
  /\ food = MaxFood /\ viruses = MaxViruses /\ feeds = 0
  /\ ghost = {} /\ popped = {}

-----------------------------------------------------------------------------
(* Colliding with food, feed and viruses                                   *)

Eater(p, i) == stage = "collide" /\ Tangible(Cells[p][i])

\* Player::CollideStatic
EatFood(p, i) ==
  /\ Eater(p, i) /\ food > 0
  /\ Bigger(Cells[p][i].size, FOOD_SIZE)
  /\ food' = food - 1
  /\ Cells' = [Cells EXCEPT ![p] = AddSize(@, i, FOOD_SIZE)]
  /\ ghost' = {}
  /\ UNCHANGED <<stage, camera, viruses, feeds, popped>>

\* Player::CollideDynamic, an ejected feed
EatFeed(p, i) ==
  /\ Eater(p, i) /\ feeds > 0
  /\ Bigger(Cells[p][i].size, FEED_KEPT)
  /\ feeds' = feeds - 1
  /\ Cells' = [Cells EXCEPT ![p] = AddSize(@, i, FEED_KEPT)]
  /\ ghost' = {}
  /\ UNCHANGED <<stage, camera, food, viruses, popped>>

\* The loop that halves popCell, and then the half, while it is big enough:
\* what is called a half is 60%, and 40% is what is taken away for it.
Sixty(s) == s - (2 * s) \div 5
Portions(s) ==
  LET part[k \in 0 .. BIG_POPS] == IF k = 0 THEN s ELSE Sixty(part[k - 1]) IN part
Halvings(s, room) ==
  Lesser(room, Cardinality({k \in 0 .. BIG_POPS - 1 : Portions(s)[k] > POP_SIZE}))

\* The big balls: each has been halved once more, except for the last.
BigBalls(s, n) ==
  [k \in 1 .. n |-> Ball(Portions(s)[IF k < n THEN k + 1 ELSE k])]

\* The small balls: at most twice PLAYER_MIN_SIZE each, and at most all there is.
\* (The first form is a slip: the room is not looked at again.)
SmallBallsAnyRoom(s, room) == s \div MIN_SIZE
SmallBalls(s, room) == Lesser(room, s \div MIN_SIZE)
SizeSmall(s, n) == Lesser(2 * MIN_SIZE, s \div n)
Leftover(s, n) ==
  IF n = 0 THEN {s}
  ELSE IF 2 * MIN_SIZE * n < s THEN {s - 2 * MIN_SIZE * n} ELSE {0, 1, NaN}

\* Eating a virus: cell i of p, which weighs s with the virus, pops into n big
\* and m small balls, if there is room for another cell.  The small balls lie
\* around it at a distance that is not a number if what is left of it is not.
Popped(p, i) ==
  LET s == Cells[p][i].size + VIRUS_SIZE
      n == Halvings(s, Room(Cells[p]))
      t == IF n = 0 THEN s ELSE Sixty(s)
      m == SmallBalls(t, Room(Cells[p]) - n)
  IN  {[Cells[p] EXCEPT ![i].size = left] \o BigBalls(s, n)
         \o [k \in 1 .. m |-> [Ball(SizeSmall(t, m)) EXCEPT !.placed = left # NaN]]
       : left \in Leftover(t, m)}

EatVirus(p, i) ==
  /\ Eater(p, i) /\ viruses > 0
  /\ Bigger(Cells[p][i].size, VIRUS_SIZE)
  /\ viruses' = viruses - 1
  /\ IF Room(Cells[p]) > 0
     THEN /\ \E cs \in Popped(p, i) : Cells' = [Cells EXCEPT ![p] = cs]
          /\ popped' = popped \cup {p}
     ELSE /\ Cells' = [Cells EXCEPT ![p] = AddSize(@, i, VIRUS_SIZE)]
          /\ UNCHANGED popped
  /\ ghost' = {}
  /\ UNCHANGED <<stage, camera, food, feeds>>

-----------------------------------------------------------------------------
(* Colliding with oneself and with others                                  *)

\* Player::CollideSelf: of two cells that are ready the bigger eats the smaller,
\* the later one if they are equal.  If the earlier one goes, the loop goes on
\* with it, behind the next cell of a vector that has moved down.
Merge(p, i, j) ==
  /\ Eater(p, i) /\ Eater(p, j) /\ i < j
  /\ LET a == Cells[p][i].size
         b == Cells[p][j].size
     IN  IF a > b
         THEN /\ Cells' = [Cells EXCEPT ![p] = RemoveAt(AddSize(@, i, b), j)]
              /\ ghost' = {}
         ELSE /\ Cells' = [Cells EXCEPT ![p] = RemoveAt(AddSize(@, j, a), i)]
              /\ ghost' = {[player |-> p, size |-> a, loop |-> j + 1]}
  /\ UNCHANGED <<stage, camera, world, popped>>

\* The erased cell eats a further one: that mass is gone.
GhostEats(g, i) ==
  /\ i >= g.loop /\ Eater(g.player, i)
  /\ LET b == Cells[g.player][i].size
     IN  /\ g.size > b
         /\ ghost' = {[g EXCEPT !.size = @ + b, !.loop = i]}
  /\ Cells' = [Cells EXCEPT ![g.player] = RemoveAt(@, i)]
  /\ UNCHANGED <<stage, camera, world, popped>>

\* The erased cell is eaten again: its mass counts twice, and an index that has
\* been stepped back too far erases some other cell.
GhostEaten(g, i) ==
  /\ i >= g.loop /\ Eater(g.player, i)
  /\ LET b == Cells[g.player][i].size
     IN  /\ g.size <= b
         /\ \E lost \in DOMAIN Cells[g.player] :
              Cells' = [Cells EXCEPT ![g.player] = RemoveAt(AddSize(@, i, g.size), lost)]
  /\ ghost' = {[g EXCEPT !.loop = i + 1]}
  /\ UNCHANGED <<stage, camera, world, popped>>
  /\ Total' <= MaxMass

\* Cells that are not ready push each other away by their shares of the radius;
\* of two without one the share is 0/0.
Push(p, i, j) ==
  /\ Eater(p, i) /\ Eater(p, j) /\ i < j
  /\ Cells[p][i].size = 0 /\ Cells[p][j].size = 0
  /\ Cells' = [Cells EXCEPT ![p][i].placed = FALSE, ![p][j].placed = FALSE]
  /\ ghost' = {}
  /\ UNCHANGED <<stage, camera, world, popped>>

\* Player::CollideOtherPlayer: a cell of p eats one of q.
EatRival(p, i, q, j) ==
  /\ p # q /\ Eater(p, i) /\ Eater(q, j)
  /\ LET a == Cells[p][i].size
         b == Cells[q][j].size
     IN  /\ Bigger(a, b) \/ Smaller(b, a)
         /\ Cells' = [Cells EXCEPT ![p] = AddSize(@, i, b), ![q] = RemoveAt(@, j)]
  /\ ghost' = {}
  /\ UNCHANGED <<stage, camera, world, popped>>

-----------------------------------------------------------------------------
(* Moving and updating                                                     *)

\* Cell::Update divides the force by the size.  A cell without size gets an
\* infinite or indefinite velocity: it goes to the border of the map or to no
\* place at all, and the drag turns the former into the latter in the next tick.
Empty == UNION {{p} \X {i \in DOMAIN Cells[p] : Cells[p][i].size = 0} : p \in Players}

Move ==
  /\ stage = "collide" /\ stage' = "update"
  /\ \E off \in SUBSET Empty :
       Cells' = [p \in Players |-> [i \in DOMAIN Cells[p] |->
                   [Cells[p][i] EXCEPT !.placed = @ /\ Cells[p][i].size # NaN
                                                   /\ <<p, i>> \notin off]]]
  /\ ghost' = {}
  /\ UNCHANGED <<camera, world, popped>>

\* DoSplit: the cells that are big enough are halved in their order, as long as
\* there is room.  (The slips: the first half keeps its size; room is looked at
\* once, before the loop.)
Big(cs) == {i \in DOMAIN cs : cs[i].size # NaN /\ cs[i].size > MIN_SIZE}
SplitsAtOnce(cs) == IF Room(cs) > 0 THEN Big(cs) ELSE {}
Splits(cs) == {i \in Big(cs) : Cardinality({j \in Big(cs) : j < i}) < Room(cs)}
Half(c) == [c EXCEPT !.size = @ \div 2]
SplitWithoutLoss(cs) ==
  LET order == InOrder(Splits(cs))
  IN  cs \o [k \in DOMAIN order |-> Half(cs[order[k]])]
Split(cs) ==
  LET order == InOrder(Splits(cs))
  IN  [i \in DOMAIN cs |-> IF i \in Splits(cs) THEN Half(cs[i]) ELSE cs[i]]
        \o [k \in DOMAIN order |-> Half(cs[order[k]])]

\* DoFeed: whoever stays above PLAYER_MIN_SIZE.  (The first form is a slip: it
\* does not ask who can pay for the feed.)
FeedersUnpaid(cs) == {i \in DOMAIN cs : cs[i].size # NaN}
Feeders(cs) == {i \in DOMAIN cs : cs[i].size # NaN /\ cs[i].size - FEED_SIZE > MIN_SIZE}
Feed(cs) == [i \in DOMAIN cs |-> IF i \in Feeders(cs) THEN AddSize(cs, i, -FEED_SIZE)[i]
                                                     ELSE cs[i]]

\* CalculateCamera weighs the positions by their share of TotalRadius: one that
\* is not a number, or a total of zero, spoils the sum.
Framed(cs) ==
  /\ \A i \in DOMAIN cs : Tangible(cs[i])
  /\ cs # <<>> => \E i \in DOMAIN cs : cs[i].size > 0

\* Player::Update of every player, some with commands.  The Camera is averaged
\* with its last value, so it never recovers.
Update ==
  /\ stage = "update" /\ stage' = "collide"
  /\ \E splitting, feeding \in SUBSET Players :
       LET halved == [p \in Players |-> IF p \in splitting THEN Split(Cells[p]) ELSE Cells[p]]
       IN  /\ Cells' = [p \in Players |-> IF p \in feeding THEN Feed(halved[p]) ELSE halved[p]]
           /\ feeds' = feeds + Cardinality(UNION {{p} \X Feeders(halved[p]) : p \in feeding})
  /\ camera' = {p \in camera : Framed(Cells'[p])}
  /\ UNCHANGED <<food, viruses, ghost, popped>>

Next ==
  \/ \E p \in Players : \E i \in DOMAIN Cells[p] :
       \/ EatFood(p, i) \/ EatFeed(p, i) \/ EatVirus(p, i)
       \/ \E j \in DOMAIN Cells[p] : Merge(p, i, j) \/ Push(p, i, j)
       \/ \E q \in Players : \E j \in DOMAIN Cells[q] : EatRival(p, i, q, j)
  \/ \E g \in ghost : \E i \in DOMAIN Cells[g.player] : GhostEats(g, i) \/ GhostEaten(g, i)
  \/ Move \/ Update

Spec == Init /\ [][Next]_vars

-----------------------------------------------------------------------------
(* Properties                                                              *)

TypeOK ==
  /\ stage \in {"collide", "update"}
  /\ Cells \in [Players -> Seq(Cell)]
  /\ camera \subseteq Players /\ popped \subseteq Players
  /\ food \in 0 .. MaxFood /\ viruses \in 0 .. MaxViruses /\ feeds \in Nat
  /\ ghost \subseteq [player : Players, size : Nat, loop : Nat]

\* Three places let a player have more cells, each with a test of its own: the
\* halving loop and the count of small balls of a pop, and the loop of a split.
\* None of them goes past the limit.
AtMostMaxCells == \A p \in Players : Len(Cells[p]) <= MAX_CELLS

\* A player is blinded, or has a cell without mass or place, only after one of
\* its cells popped: nothing else that eats, merges, splits or feeds leaves a
\* cell with nothing, and what spoils one player's cells spoils no other's.
Sound(cs) == \A i \in DOMAIN cs : Tangible(cs[i]) /\ cs[i].size > 0
OnlyPoppingBlinds == \A p \in Players \ popped : p \in camera /\ Sound(Cells[p])

MassInv == TypeOK /\ AtMostMaxCells /\ OnlyPoppingBlinds

\* Mass is created by popping and by the cell CollideSelf goes on to use after it
\* was eaten, and by nothing else.
MassLaw == [][viruses' = viruses /\ ghost = {} => Total' <= Total]_vars
=============================================================================
