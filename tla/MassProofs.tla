----------------------------- MODULE MassProofs -----------------------------
(***************************************************************************)
(* What is true of the cells of the players whatever the sizes and limits  *)
(* are: MassInv is inductive as it stands.                                 *)
(*                                                                         *)
(* That a player never has more than MAX_CELLS cells rests on three        *)
(* arguments: a pop makes at most as many big balls as there is room for   *)
(* and at most as many small ones as they leave, and the cells that split  *)
(* are the first ones that are big enough, one for each free place.  That  *)
(* only popping leaves a cell without mass rests on the guards: what is    *)
(* halved weighs more than PLAYER_MIN_SIZE, what feeds keeps more, and     *)
(* only cells without mass are pushed to no place or spoil the Camera.     *)
(*                                                                         *)
(* That mass is created by popping and the stale pointer alone is shown    *)
(* step by step: the weight of everything is a sum over players of sums    *)
(* over vectors, and each step moves, halves or removes a few terms of it. *)
(***************************************************************************)
EXTENDS Mass, ListFacts

\* The types, taken apart.
LEMMA Types ==
  ASSUME MassInv, NEW p \in Players
  PROVE  /\ Cells[p] \in Seq(Cell) /\ Len(Cells[p]) \in Nat
         /\ DOMAIN Cells[p] = 1 .. Len(Cells[p])
         /\ \A i \in DOMAIN Cells[p] : Cells[p][i] \in Cell /\ Cells[p][i].size \in Size
         /\ Len(Cells[p]) <= MAX_CELLS
         /\ p \notin popped => p \in camera /\ Sound(Cells[p])
  <1>1. Cells[p] \in Seq(Cell)
    BY DEF MassInv, TypeOK
  <1>2. /\ Len(Cells[p]) \in Nat /\ DOMAIN Cells[p] = 1 .. Len(Cells[p])
        /\ \A i \in DOMAIN Cells[p] : Cells[p][i] \in Cell
    BY <1>1, LenProperties, ElementOfSeq
  <1>3. \A c \in Cell : c.size \in Size
    BY DEF Cell
  <1> QED
    BY <1>1, <1>2, <1>3 DEF MassInv, AtMostMaxCells, OnlyPoppingBlinds

\* A step that gives one player other cells, not too many, and none without mass
\* unless a virus popped one.
LEMMA NewCells ==
  ASSUME MassInv, NEW p \in Players, NEW cs \in Seq(Cell),
         Cells' = [Cells EXCEPT ![p] = cs],
         Len(cs) <= MAX_CELLS, p \in popped' \/ Sound(cs),
         popped \subseteq popped', popped' \subseteq Players,
         UNCHANGED <<stage, camera>>,
         food' \in 0 .. MaxFood, viruses' \in 0 .. MaxViruses, feeds' \in Nat,
         ghost' \subseteq [player : Players, size : Nat, loop : Nat]
  PROVE  MassInv'
  <1>1. \A q \in Players : Cells'[q] = IF q = p THEN cs ELSE Cells[q]
    BY DEF MassInv, TypeOK
  <1>2. TypeOK'
    BY <1>1 DEF MassInv, TypeOK
  <1>3. AtMostMaxCells'
    BY <1>1 DEF MassInv, AtMostMaxCells
  <1>4. OnlyPoppingBlinds'
    BY <1>1 DEF MassInv, OnlyPoppingBlinds
  <1> QED
    BY <1>2, <1>3, <1>4 DEF MassInv

\* A cell that grows.
LEMMA AddSizeFacts ==
  ASSUME NEW cs \in Seq(Cell), NEW i \in DOMAIN cs, Tangible(cs[i]), NEW s \in Nat
  PROVE  /\ AddSize(cs, i, s) \in Seq(Cell) /\ Len(AddSize(cs, i, s)) = Len(cs)
         /\ DOMAIN AddSize(cs, i, s) = DOMAIN cs
         /\ AddSize(cs, i, s)[i].size = cs[i].size + s
         /\ \A k \in DOMAIN cs : k # i => AddSize(cs, i, s)[k] = cs[k]
         /\ Sound(cs) => Sound(AddSize(cs, i, s))
  <1>1. cs[i] \in Cell /\ cs[i].size \in Nat /\ DOMAIN cs = 1 .. Len(cs) /\ Len(cs) \in Nat
    <2>1. cs[i] \in Cell /\ DOMAIN cs = 1 .. Len(cs) /\ Len(cs) \in Nat
      BY LenProperties, ElementOfSeq
    <2> QED
      BY <2>1 DEF Cell, Size, Tangible
  <1> DEFINE c == [cs[i] EXCEPT !.size = @ + s]
  <1>2. /\ c \in Cell /\ c.size = cs[i].size + s /\ c.placed = cs[i].placed
        /\ c.size \in Nat
    BY <1>1 DEF Cell, Size
  <1>3. AddSize(cs, i, s) = [cs EXCEPT ![i] = c]
    BY DEF AddSize
  <1> HIDE DEF c
  <1>4. /\ AddSize(cs, i, s) \in Seq(Cell) /\ Len(AddSize(cs, i, s)) = Len(cs)
        /\ \A j \in 1 .. Len(cs) : AddSize(cs, i, s)[j] = IF j = i THEN c ELSE cs[j]
    BY <1>1, <1>2, <1>3, ExceptSeq
  <1>5. DOMAIN AddSize(cs, i, s) = DOMAIN cs
    BY <1>3
  <1>6. ASSUME Sound(cs)
        PROVE  Sound(AddSize(cs, i, s))
    <2>1. cs[i].size > 0 /\ c.size > 0 /\ Tangible(c)
      <3>1. cs[i].size > 0 /\ NaN \notin Nat
        BY <1>6, MassAssumption DEF Sound
      <3>2. c.size > 0
        BY <1>1, <1>2, <3>1
      <3> QED
        BY <1>2, <3>1, <3>2 DEF Tangible
    <2> QED
      BY <1>1, <1>4, <1>5, <1>6, <2>1 DEF Sound
  <1> QED
    BY <1>1, <1>2, <1>4, <1>5, <1>6

\* A cell that goes.
LEMMA RemoveSound ==
  ASSUME NEW cs \in Seq(Cell), NEW i \in DOMAIN cs
  PROVE  /\ RemoveAt(cs, i) \in Seq(Cell) /\ Len(RemoveAt(cs, i)) = Len(cs) - 1
         /\ Len(RemoveAt(cs, i)) <= Len(cs)
         /\ Sound(cs) => Sound(RemoveAt(cs, i))
  <1> DEFINE rs == RemoveAt(cs, i)
  <1>1. DOMAIN cs = 1 .. Len(cs) /\ Len(cs) \in Nat
    BY LenProperties
  <1>2. /\ rs \in Seq(Cell) /\ Len(rs) = Len(cs) - 1
        /\ \A k \in 1 .. Len(cs) - 1 : rs[k] = IF k < i THEN cs[k] ELSE cs[k + 1]
    BY <1>1, RemoveAtFacts
  <1> HIDE DEF rs
  <1>3. DOMAIN rs = 1 .. Len(cs) - 1
    BY <1>2, LenProperties
  <1>4. ASSUME Sound(cs), NEW k \in 1 .. Len(cs) - 1
        PROVE  Tangible(rs[k]) /\ rs[k].size > 0
    <2>1. k \in DOMAIN cs /\ k + 1 \in DOMAIN cs
      BY <1>1
    <2>2. rs[k] = cs[k] \/ rs[k] = cs[k + 1]
      BY <1>2
    <2> QED
      BY <1>4, <2>1, <2>2 DEF Sound
  <1>5. Sound(cs) => Sound(rs)
    BY <1>3, <1>4 DEF Sound
  <1> QED
    BY <1>1, <1>2, <1>5 DEF rs

\* At the start every player has one cell with mass.
LEMMA InitMass ==
  ASSUME Init
  PROVE  MassInv
  <1> DEFINE b == Ball(START_SIZE)
  <1>1. b \in Cell /\ b.size > 0 /\ Tangible(b)
    BY MassAssumption DEF Ball, Cell, Size, Tangible
  <1> HIDE DEF b
  <1>2. <<b>> \in Seq(Cell) /\ Len(<<b>>) = 1 /\ DOMAIN <<b>> = {1} /\ <<b>>[1] = b
    BY <1>1
  <1>3. Sound(<<b>>)
    BY <1>1, <1>2 DEF Sound
  <1>4. \A p \in Players : Cells[p] = <<b>>
    BY DEF Init, b
  <1>5. Cells \in [Players -> Seq(Cell)]
    BY <1>2, <1>4 DEF Init, b
  <1>6. TypeOK
    BY <1>5, MassAssumption DEF Init, TypeOK
  <1>7. AtMostMaxCells
    <2>1. 1 <= MAX_CELLS
      BY MassAssumption
    <2> QED
      BY <1>2, <1>4, <2>1 DEF AtMostMaxCells
  <1>8. OnlyPoppingBlinds
    BY <1>3, <1>4 DEF OnlyPoppingBlinds, Init
  <1> QED
    BY <1>6, <1>7, <1>8 DEF MassInv

-----------------------------------------------------------------------------
(* Eating and merging                                                      *)

\* Food and feed only add.
LEMMA EatMass ==
  ASSUME MassInv, NEW p \in Players, NEW i \in DOMAIN Cells[p], EatFood(p, i) \/ EatFeed(p, i)
  PROVE  MassInv'
  <1> DEFINE s == IF EatFood(p, i) THEN FOOD_SIZE ELSE FEED_KEPT
  <1>1. s \in Nat
    BY MassAssumption
  <1>2. /\ Cells' = [Cells EXCEPT ![p] = AddSize(Cells[p], i, s)]
        /\ Tangible(Cells[p][i])
        /\ ghost' = {} /\ UNCHANGED <<stage, camera, popped>>
    BY DEF EatFood, EatFeed, Eater
  <1>3. /\ food' \in 0 .. MaxFood /\ viruses' \in 0 .. MaxViruses /\ feeds' \in Nat
        /\ popped \subseteq Players
    BY MassAssumption DEF EatFood, EatFeed, MassInv, TypeOK
  <1> HIDE DEF s
  <1>4. /\ AddSize(Cells[p], i, s) \in Seq(Cell)
        /\ Len(AddSize(Cells[p], i, s)) <= MAX_CELLS
        /\ p \in popped \/ Sound(AddSize(Cells[p], i, s))
    BY <1>1, <1>2, Types, AddSizeFacts
  <1> QED
    BY <1>2, <1>3, <1>4, NewCells

\* A merge makes one cell of two.
LEMMA MergeMass ==
  ASSUME MassInv, NEW p \in Players, NEW i \in DOMAIN Cells[p], NEW j \in DOMAIN Cells[p],
         Merge(p, i, j)
  PROVE  MassInv'
  <1>1. /\ Tangible(Cells[p][i]) /\ Tangible(Cells[p][j])
        /\ Cells[p][i].size \in Nat /\ Cells[p][j].size \in Nat
        /\ i \in Nat /\ j \in Nat
    BY Types DEF Merge, Eater, Tangible, Size
  <1>2. PICK a \in DOMAIN Cells[p], b \in DOMAIN Cells[p] :
          /\ Tangible(Cells[p][a]) /\ Cells[p][b].size \in Nat
          /\ Cells' = [Cells EXCEPT ![p] = RemoveAt(AddSize(Cells[p], a, Cells[p][b].size), b)]
    BY <1>1 DEF Merge
  <1>3. /\ UNCHANGED <<stage, camera, world, popped>>
        /\ ghost' \subseteq [player : Players, size : Nat, loop : Nat]
    <2>1. ghost' = {} \/ ghost' = {[player |-> p, size |-> Cells[p][i].size, loop |-> j + 1]}
      BY DEF Merge
    <2>2. [player |-> p, size |-> Cells[p][i].size, loop |-> j + 1]
            \in [player : Players, size : Nat, loop : Nat]
      BY <1>1
    <2> QED
      BY <2>1, <2>2 DEF Merge
  <1> DEFINE more == AddSize(Cells[p], a, Cells[p][b].size)
  <1>4. /\ more \in Seq(Cell) /\ Len(more) <= MAX_CELLS /\ b \in DOMAIN more
        /\ p \in popped \/ Sound(more)
    BY <1>2, Types, AddSizeFacts
  <1> HIDE DEF more
  <1>5. /\ RemoveAt(more, b) \in Seq(Cell) /\ Len(RemoveAt(more, b)) <= MAX_CELLS
        /\ p \in popped \/ Sound(RemoveAt(more, b))
    <2>1. Len(more) \in Nat /\ MAX_CELLS \in Nat
      BY <1>4, LenProperties, MassAssumption
    <2> QED
      BY <1>4, <2>1, RemoveSound
  <1> QED
    BY <1>2, <1>3, <1>5, NewCells DEF MassInv, TypeOK, world, more

\* The erased cell of CollideSelf eats on: a cell goes.
LEMMA GhostEatsMass ==
  ASSUME MassInv, NEW g \in ghost, NEW i \in DOMAIN Cells[g.player], GhostEats(g, i)
  PROVE  MassInv'
  <1> DEFINE p == g.player
  <1>1. g \in [player : Players, size : Nat, loop : Nat] /\ p \in Players
    BY DEF MassInv, TypeOK
  <1>2. Cells[p][i].size \in Nat /\ i \in Nat
    BY <1>1, Types DEF GhostEats, Eater, Tangible, Size
  <1>3. [g EXCEPT !.size = @ + Cells[p][i].size, !.loop = i]
          \in [player : Players, size : Nat, loop : Nat]
    <2> DEFINE b == Cells[p][i].size
    <2>1. g.size + b \in Nat
      BY <1>1, <1>2
    <2>2. \A s \in Nat, l \in Nat :
            [g EXCEPT !.size = s, !.loop = l] \in [player : Players, size : Nat, loop : Nat]
      BY <1>1
    <2> HIDE DEF b, p
    <2>3. [g EXCEPT !.size = g.size + b, !.loop = i] \in [player : Players, size : Nat, loop : Nat]
      BY <1>2, <2>1, <2>2
    <2> QED
      BY <2>3 DEF b
  <1>4. /\ Cells' = [Cells EXCEPT ![p] = RemoveAt(Cells[p], i)]
        /\ UNCHANGED <<stage, camera, world, popped>>
        /\ ghost' \subseteq [player : Players, size : Nat, loop : Nat]
    BY <1>3 DEF GhostEats
  <1> HIDE DEF p
  <1>5. i \in DOMAIN Cells[p]
    BY DEF p
  <1>6. /\ RemoveAt(Cells[p], i) \in Seq(Cell) /\ Len(RemoveAt(Cells[p], i)) <= MAX_CELLS
        /\ p \in popped \/ Sound(RemoveAt(Cells[p], i))
    <2>1. Len(Cells[p]) \in Nat /\ Len(Cells[p]) <= MAX_CELLS /\ MAX_CELLS \in Nat
      BY <1>1, Types, MassAssumption
    <2> QED
      BY <1>1, <1>5, <2>1, Types, RemoveSound
  <1> QED
    BY <1>1, <1>4, <1>6, NewCells DEF MassInv, TypeOK, world

\* And it is eaten: a cell grows and some cell goes.
LEMMA GhostEatenMass ==
  ASSUME MassInv, NEW g \in ghost, NEW i \in DOMAIN Cells[g.player], GhostEaten(g, i)
  PROVE  MassInv'
  <1> DEFINE p == g.player
  <1>1. g \in [player : Players, size : Nat, loop : Nat] /\ p \in Players /\ g.size \in Nat
    BY DEF MassInv, TypeOK
  <1>2. i \in Nat /\ Tangible(Cells[p][i])
    BY <1>1, Types DEF GhostEaten, Eater
  <1>3. [g EXCEPT !.loop = i + 1] \in [player : Players, size : Nat, loop : Nat]
    BY <1>1, <1>2
  <1>4. PICK lost \in DOMAIN Cells[p] :
          Cells' = [Cells EXCEPT ![p] = RemoveAt(AddSize(Cells[p], i, g.size), lost)]
    BY DEF GhostEaten
  <1>5. /\ UNCHANGED <<stage, camera, world, popped>>
        /\ ghost' \subseteq [player : Players, size : Nat, loop : Nat]
    BY <1>3 DEF GhostEaten
  <1> HIDE DEF p
  <1> DEFINE more == AddSize(Cells[p], i, g.size)
  <1>6. i \in DOMAIN Cells[p]
    BY DEF p
  <1>7. /\ more \in Seq(Cell) /\ Len(more) <= MAX_CELLS /\ lost \in DOMAIN more
        /\ p \in popped \/ Sound(more)
    BY <1>1, <1>2, <1>6, Types, AddSizeFacts
  <1> HIDE DEF more
  <1>8. /\ RemoveAt(more, lost) \in Seq(Cell) /\ Len(RemoveAt(more, lost)) <= MAX_CELLS
        /\ p \in popped \/ Sound(RemoveAt(more, lost))
    <2>1. Len(more) \in Nat /\ MAX_CELLS \in Nat
      BY <1>7, LenProperties, MassAssumption
    <2> QED
      BY <1>7, <2>1, RemoveSound
  <1> QED
    BY <1>1, <1>4, <1>5, <1>8, NewCells DEF MassInv, TypeOK, world, more

\* Only cells without mass are pushed to no place, and those have popped.
LEMMA PushMass ==
  ASSUME MassInv, NEW p \in Players, NEW i \in DOMAIN Cells[p], NEW j \in DOMAIN Cells[p],
         Push(p, i, j)
  PROVE  MassInv'
  <1> DEFINE c == [Cells[p][i] EXCEPT !.placed = FALSE]
             d == [Cells[p][j] EXCEPT !.placed = FALSE]
             one == [Cells[p] EXCEPT ![i] = c]
             two == [one EXCEPT ![j] = d]
  <1>1. c \in Cell /\ d \in Cell
    <2>1. Cells[p][i] \in Cell /\ Cells[p][j] \in Cell
      BY Types
    <2> QED
      BY <2>1 DEF Cell
  <1>2. Cells' = [Cells EXCEPT ![p] = two]
    <2>1. i # j
      BY Types DEF Push
    <2> QED
      BY <2>1 DEF Push
  <1>3. p \in popped
    BY Types DEF Push, Sound
  <1>4. UNCHANGED <<stage, camera, world, popped>> /\ ghost' = {}
    BY DEF Push
  <1> HIDE DEF c, d
  <1>5. two \in Seq(Cell) /\ Len(two) <= MAX_CELLS
    <2>1. one \in Seq(Cell) /\ Len(one) = Len(Cells[p])
      BY <1>1, Types, ExceptSeq
    <2> HIDE DEF one
    <2> QED
      BY <1>1, <2>1, Types, ExceptSeq
  <1> HIDE DEF two
  <1> QED
    BY <1>2, <1>3, <1>4, <1>5, NewCells DEF MassInv, TypeOK, world

\* A cell goes from one player to another.
LEMMA EatRivalMass ==
  ASSUME MassInv, NEW p \in Players, NEW i \in DOMAIN Cells[p],
         NEW q \in Players, NEW j \in DOMAIN Cells[q], EatRival(p, i, q, j)
  PROVE  MassInv'
  <1> DEFINE b == Cells[q][j].size
             more == AddSize(Cells[p], i, b)
             less == RemoveAt(Cells[q], j)
  <1>1. b \in Nat /\ Tangible(Cells[p][i])
    BY Types DEF EatRival, Eater, Tangible, Size
  <1>2. /\ p # q /\ UNCHANGED <<stage, camera, world, popped>> /\ ghost' = {}
        /\ Cells' = [Cells EXCEPT ![p] = more, ![q] = less]
    BY DEF EatRival
  <1>3. more \in Seq(Cell) /\ Len(more) <= MAX_CELLS /\ (p \in popped \/ Sound(more))
    <2> HIDE DEF b
    <2> QED
      BY <1>1, Types, AddSizeFacts
  <1>4. less \in Seq(Cell) /\ Len(less) <= MAX_CELLS /\ (q \in popped \/ Sound(less))
    <2>1. Len(Cells[q]) \in Nat /\ Len(Cells[q]) <= MAX_CELLS /\ MAX_CELLS \in Nat
      BY Types, MassAssumption
    <2> QED
      BY <2>1, Types, RemoveSound
  <1> HIDE DEF more, less
  <1>5. \A x \in Players : Cells'[x] = IF x = p THEN more ELSE IF x = q THEN less ELSE Cells[x]
    BY <1>2 DEF MassInv, TypeOK
  <1>6. TypeOK'
    BY <1>2, <1>3, <1>4 DEF MassInv, TypeOK, world
  <1>7. AtMostMaxCells'
    BY <1>3, <1>4, <1>5 DEF MassInv, AtMostMaxCells
  <1>8. OnlyPoppingBlinds'
    BY <1>2, <1>3, <1>4, <1>5 DEF MassInv, OnlyPoppingBlinds
  <1> QED
    BY <1>6, <1>7, <1>8 DEF MassInv

-----------------------------------------------------------------------------
(* Popping                                                                 *)

\* What is left after any number of halvings is a size.
LEMMA PortionsType ==
  ASSUME NEW s \in Nat
  PROVE  \A k \in 0 .. BIG_POPS : Portions(s)[k] \in Nat
  <1> DEFINE H(f) == [k \in 0 .. BIG_POPS |-> IF k = 0 THEN s ELSE Sixty(f[k - 1])]
             Good == {n \in Nat : \E f \in [0 .. n -> Nat] :
                        \A k \in 0 .. n : f[k] = IF k = 0 THEN s ELSE Sixty(f[k - 1])}
             part == Portions(s)
             Sizes1 == {n \in Nat : n <= BIG_POPS => part[n] \in Nat}
  <1>1. BIG_POPS \in Nat
    BY MassAssumption
  <1>2. \A x \in Nat : Sixty(x) \in Nat
    BY DEF Sixty
  <1>3. 0 \in Good
    <2> DEFINE f == [k \in 0 .. 0 |-> s]
    <2>1. f \in [0 .. 0 -> Nat] /\ \A k \in 0 .. 0 : k = 0 /\ f[k] = s
      OBVIOUS
    <2> QED
      BY <2>1
  <1>4. ASSUME NEW n \in Nat, n \in Good
        PROVE  n + 1 \in Good
    <2>1. PICK f \in [0 .. n -> Nat] :
            \A k \in 0 .. n : f[k] = IF k = 0 THEN s ELSE Sixty(f[k - 1])
      BY <1>4
    <2> DEFINE g == [k \in 0 .. n + 1 |-> IF k = n + 1 THEN Sixty(f[n]) ELSE f[k]]
    <2>2. /\ g[n + 1] = Sixty(f[n]) /\ f[n] \in Nat
          /\ \A k \in 0 .. n : g[k] = f[k] /\ f[k] \in Nat
      BY <2>1
    <2>3. g \in [0 .. n + 1 -> Nat]
      <3>1. ASSUME NEW k \in 0 .. n + 1
            PROVE  g[k] \in Nat
        <4>1. k = n + 1 \/ k \in 0 .. n
          OBVIOUS
        <4> HIDE DEF g
        <4> QED
          BY <1>2, <2>2, <4>1
      <3> QED
        BY <3>1
    <2> HIDE DEF g
    <2>4. ASSUME NEW k \in 0 .. n + 1
          PROVE  g[k] = IF k = 0 THEN s ELSE Sixty(g[k - 1])
      <3>1. CASE k = n + 1
        <4>1. k # 0 /\ k - 1 = n /\ n \in 0 .. n
          BY <3>1
        <4> QED
          BY <2>2, <3>1, <4>1
      <3>2. CASE k \in 0 .. n
        <4>1. k # 0 => k - 1 \in 0 .. n
          BY <3>2
        <4> QED
          BY <2>1, <2>2, <3>2, <4>1
      <3> QED
        BY <3>1, <3>2
    <2>5. n + 1 \in Nat
      OBVIOUS
    <2> QED
      BY <2>3, <2>4, <2>5
  <1>5. BIG_POPS \in Good
    <2> HIDE DEF Good
    <2> QED
      BY <1>1, <1>3, <1>4, NatsBySet
  <1>6. \E f : f = H(f)
    BY <1>5
  <1>7. part = H(part)
    BY <1>6 DEF Portions
  <1>8. 0 \in Sizes1
    BY <1>1, <1>7
  <1>9. ASSUME NEW n \in Nat, n \in Sizes1
        PROVE  n + 1 \in Sizes1
    <2>1. CASE n + 1 <= BIG_POPS
      <3>1. part[n] \in Nat /\ n + 1 \in 0 .. BIG_POPS /\ n + 1 # 0 /\ (n + 1) - 1 = n
        BY <1>1, <1>9, <2>1
      <3>2. part[n + 1] = Sixty(part[n])
        <4> HIDE DEF part
        <4> QED
          BY <1>7, <3>1
      <3> QED
        BY <1>2, <3>1, <3>2
    <2>2. CASE ~(n + 1 <= BIG_POPS)
      BY <2>2
    <2> QED
      BY <2>1, <2>2
  <1>10. Nat \subseteq Sizes1
    <2> HIDE DEF Sizes1
    <2> QED
      BY <1>8, <1>9, NatsBySet
  <1> QED
    BY <1>1, <1>10

\* A pop keeps to the room there is: n big balls, and m small ones beside them.
LEMMA PoppedType ==
  ASSUME MassInv, NEW p \in Players, NEW i \in DOMAIN Cells[p], EatVirus(p, i),
         Room(Cells[p]) > 0, NEW cs \in Popped(p, i)
  PROVE  cs \in Seq(Cell) /\ Len(cs) <= MAX_CELLS
  <1> DEFINE s == Cells[p][i].size + VIRUS_SIZE
             r == Room(Cells[p])
             bigs == {k \in 0 .. BIG_POPS - 1 : Portions(s)[k] > POP_SIZE}
             n == Halvings(s, r)
             t == IF n = 0 THEN s ELSE Sixty(s)
             m == SmallBalls(t, r - n)
  <1>1. /\ Cells[p] \in Seq(Cell) /\ DOMAIN Cells[p] = 1 .. Len(Cells[p])
        /\ Len(Cells[p]) \in Nat /\ Cells[p][i] \in Cell
    BY Types
  <1>2. /\ r \in Nat /\ MAX_CELLS \in Nat /\ BIG_POPS \in Nat /\ MIN_SIZE \in Nat /\ MIN_SIZE > 0
        /\ r + Len(Cells[p]) = MAX_CELLS
    BY <1>1, MassAssumption DEF Room
  <1>3. s \in Nat
    <2>1. Cells[p][i].size \in Nat
      BY Types DEF EatVirus, Eater, Tangible, Size
    <2> QED
      BY <2>1, MassAssumption
  <1> HIDE DEF s, r
  <1>4. n \in 0 .. r /\ n <= BIG_POPS
    <2>1. bigs \subseteq 0 .. BIG_POPS - 1 /\ IsFiniteSet(0 .. BIG_POPS - 1)
      <3>1. BIG_POPS - 1 \in Int /\ 0 \in Int
        BY <1>2
      <3>2. IsFiniteSet(0 .. BIG_POPS - 1)
        BY <3>1, FS_Interval
      <3> QED
        BY <3>2
    <2>2. Cardinality(0 .. BIG_POPS - 1) = BIG_POPS
      <3>1. Cardinality(0 .. BIG_POPS - 1)
              = IF 0 > BIG_POPS - 1 THEN 0 ELSE (BIG_POPS - 1) - 0 + 1
        BY <1>2, FS_Interval
      <3> QED
        BY <1>2, <3>1
    <2>3. IsFiniteSet(bigs) /\ Cardinality(bigs) <= BIG_POPS
      BY <2>1, <2>2, FS_Subset
    <2>4. Cardinality(bigs) \in Nat
      BY <2>3, FS_CardinalityType
    <2>5. n = IF r < Cardinality(bigs) THEN r ELSE Cardinality(bigs)
      BY DEF Halvings, Lesser
    <2> HIDE DEF bigs, n
    <2> QED
      BY <1>2, <2>3, <2>4, <2>5
  <1> HIDE DEF n
  <1>5. t \in Nat
    BY <1>3 DEF Sixty
  <1> HIDE DEF t
  <1>6. m \in 0 .. r - n /\ m * MIN_SIZE <= t
    <2>1. t \div MIN_SIZE \in Nat /\ (t \div MIN_SIZE) * MIN_SIZE <= t
      BY <1>2, <1>5
    <2> DEFINE d == t \div MIN_SIZE
    <2>2. m = IF r - n < d THEN r - n ELSE d
      BY DEF SmallBalls, Lesser
    <2> HIDE DEF d, m
    <2>3. m \in 0 .. r - n /\ m <= d
      BY <1>2, <1>4, <2>1, <2>2 DEF d
    <2>4. m * MIN_SIZE <= d * MIN_SIZE
      BY <1>2, <1>4, <2>1, <2>3 DEF d
    <2>5. d \in Nat /\ d * MIN_SIZE <= t
      BY <2>1 DEF d
    <2> QED
      BY <1>2, <1>4, <1>5, <2>3, <2>4, <2>5
  <1> HIDE DEF m
  <1> DEFINE B == BigBalls(s, n)
             D(l) == [k \in 1 .. m |-> [Ball(SizeSmall(t, m)) EXCEPT !.placed = l # NaN]]
  <1>7. n \in Nat /\ m \in Nat
    BY <1>2, <1>4, <1>6
  <1>8. B \in Seq(Cell) /\ Len(B) = n
    <2>1. ASSUME NEW k \in 1 .. n
          PROVE  Ball(Portions(s)[IF k < n THEN k + 1 ELSE k]) \in Cell
      <3> DEFINE l == IF k < n THEN k + 1 ELSE k
      <3>1. l \in 0 .. BIG_POPS
        BY <1>2, <1>4, <1>7
      <3> HIDE DEF l
      <3>2. Portions(s)[l] \in Nat
        BY <1>3, <3>1, PortionsType
      <3>3. Ball(Portions(s)[l]) \in Cell
        BY <3>2 DEF Ball, Cell, Size
      <3> QED
        BY <3>3 DEF l
    <2>2. B \in [1 .. n -> Cell]
      BY <2>1 DEF BigBalls
    <2> HIDE DEF B
    <2> QED
      BY <1>7, <2>2, FunctionIsSeq
  <1>9. PICK left \in Leftover(t, m) :
          cs = [Cells[p] EXCEPT ![i].size = left] \o B \o D(left)
    BY DEF Popped, s, r, n, t, m
  <1>10. D(left) \in Seq(Cell) /\ Len(D(left)) = m
    <2> DEFINE ball == [Ball(SizeSmall(t, m)) EXCEPT !.placed = left # NaN]
    <2>1. m > 0 => ball \in Cell
      <3>1. m > 0 => t \div m \in Nat
        BY <1>5, <1>7
      <3>2. m > 0 => SizeSmall(t, m) \in Nat
        BY <1>2, <3>1 DEF SizeSmall, Lesser
      <3>3. ball = [size |-> SizeSmall(t, m), placed |-> left # NaN]
        BY DEF Ball
      <3> QED
        BY <3>2, <3>3 DEF Cell, Size
    <2>2. D(left) = [k \in 1 .. m |-> ball]
      OBVIOUS
    <2> HIDE DEF ball
    <2>3. D(left) \in [1 .. m -> Cell]
      BY <1>7, <2>1, <2>2
    <2> HIDE DEF D
    <2> QED
      BY <1>7, <2>3, FunctionIsSeq
  <1>11. left \in Size
    <2>1. 2 * MIN_SIZE * m < t => t - 2 * MIN_SIZE * m \in Nat
      BY <1>2, <1>5, <1>7
    <2> QED
      BY <1>5, <2>1 DEF Leftover, Size
  <1> DEFINE c == [Cells[p][i] EXCEPT !.size = left]
             A == [Cells[p] EXCEPT ![i] = c]
  <1>12. A \in Seq(Cell) /\ Len(A) = Len(Cells[p])
    <2>1. c \in Cell
      BY <1>1, <1>11 DEF Cell
    <2> HIDE DEF c
    <2> QED
      BY <1>1, <2>1, ExceptSeq
  <1> DEFINE E == D(left)
  <1>13. cs = A \o B \o E /\ E \in Seq(Cell) /\ Len(E) = m
    BY <1>9, <1>10
  <1> HIDE DEF A, B, E
  <1>14. A \o B \in Seq(Cell) /\ Len(A \o B) = Len(A) + Len(B)
    BY <1>8, <1>12, ConcatProperties
  <1>15. cs \in Seq(Cell) /\ Len(cs) = Len(A) + Len(B) + Len(E)
    <2> DEFINE AB == A \o B
    <2>1. AB \in Seq(Cell) /\ Len(AB) = Len(A) + Len(B) /\ cs = AB \o E
      BY <1>13, <1>14
    <2> HIDE DEF AB
    <2>2. AB \o E \in Seq(Cell) /\ Len(AB \o E) = Len(AB) + Len(E)
      BY <1>13, <2>1, ConcatProperties
    <2> QED
      BY <2>1, <2>2
  <1> QED
    BY <1>1, <1>2, <1>4, <1>6, <1>7, <1>8, <1>12, <1>13, <1>15

\* Eating a virus.
LEMMA EatVirusMass ==
  ASSUME MassInv, NEW p \in Players, NEW i \in DOMAIN Cells[p], EatVirus(p, i)
  PROVE  MassInv'
  <1>1. /\ Tangible(Cells[p][i]) /\ ghost' = {}
        /\ UNCHANGED <<stage, camera, food, feeds>>
        /\ food' \in 0 .. MaxFood /\ viruses' \in 0 .. MaxViruses /\ feeds' \in Nat
        /\ popped \subseteq Players
    BY MassAssumption DEF EatVirus, Eater, MassInv, TypeOK
  <1>2. CASE Room(Cells[p]) > 0
    <2>1. PICK cs \in Popped(p, i) : Cells' = [Cells EXCEPT ![p] = cs]
      BY <1>2 DEF EatVirus
    <2>2. cs \in Seq(Cell) /\ Len(cs) <= MAX_CELLS
      BY <1>2, PoppedType
    <2>3. popped' = popped \cup {p}
      BY <1>2 DEF EatVirus
    <2> QED
      BY <1>1, <2>1, <2>2, <2>3, NewCells
  <1>3. CASE ~(Room(Cells[p]) > 0)
    <2>1. Cells' = [Cells EXCEPT ![p] = AddSize(Cells[p], i, VIRUS_SIZE)] /\ popped' = popped
      BY <1>3 DEF EatVirus
    <2>2. /\ AddSize(Cells[p], i, VIRUS_SIZE) \in Seq(Cell)
          /\ Len(AddSize(Cells[p], i, VIRUS_SIZE)) <= MAX_CELLS
          /\ p \in popped \/ Sound(AddSize(Cells[p], i, VIRUS_SIZE))
      BY <1>1, Types, AddSizeFacts, MassAssumption
    <2> QED
      BY <1>1, <2>1, <2>2, NewCells
  <1> QED
    BY <1>2, <1>3

-----------------------------------------------------------------------------
(* Moving, splitting and feeding                                           *)

\* Only a cell without mass can go to no place.
LEMMA MoveMass ==
  ASSUME MassInv, Move
  PROVE  MassInv'
  <1>1. PICK off \in SUBSET Empty :
          Cells' = [p \in Players |-> [i \in DOMAIN Cells[p] |->
                      [Cells[p][i] EXCEPT !.placed = @ /\ Cells[p][i].size # NaN
                                                      /\ <<p, i>> \notin off]]]
    BY DEF Move
  <1>2. ASSUME NEW p \in Players
        PROVE  /\ Cells'[p] \in Seq(Cell) /\ Len(Cells'[p]) <= MAX_CELLS
               /\ p \notin popped => Sound(Cells'[p])
    <2> DEFINE n == Len(Cells[p])
               stays(i) == Cells[p][i].placed /\ Cells[p][i].size # NaN /\ <<p, i>> \notin off
               moved == [i \in 1 .. n |-> [Cells[p][i] EXCEPT !.placed = stays(i)]]
    <2>1. Cells'[p] = moved
      BY <1>1, Types
    <2>2. ASSUME NEW i \in 1 .. n
          PROVE  /\ moved[i] \in Cell /\ moved[i].size = Cells[p][i].size
                 /\ moved[i].placed = stays(i)
      BY Types DEF Cell
    <2>3. moved \in Seq(Cell) /\ Len(moved) = n /\ DOMAIN moved = 1 .. n
      <3>1. n \in Nat /\ moved \in [1 .. n -> Cell]
        BY <2>2, Types
      <3> HIDE DEF moved, n
      <3> QED
        BY <3>1, FunctionIsSeq
    <2> HIDE DEF moved
    <2>4. ASSUME p \notin popped, NEW i \in 1 .. n
          PROVE  Tangible(moved[i]) /\ moved[i].size > 0
      <3>1. Tangible(Cells[p][i]) /\ Cells[p][i].size > 0 /\ Cells[p][i].size \in Nat
        BY <2>4, Types DEF Sound, Tangible, Size
      <3>2. <<p, i>> \notin Empty
        BY <3>1 DEF Empty
      <3>3. stays(i)
        BY <3>1, <3>2 DEF Tangible
      <3> QED
        BY <2>2, <3>1, <3>3 DEF Tangible
    <2>5. p \notin popped => Sound(moved)
      BY <2>3, <2>4 DEF Sound
    <2> QED
      BY <2>1, <2>3, <2>5, Types
  <1>3. Cells' \in [Players -> Seq(Cell)]
    <2>1. DOMAIN Cells' = Players /\ Cells' = [p \in Players |-> Cells'[p]]
      BY <1>1
    <2> QED
      BY <1>2, <2>1
  <1>4. TypeOK'
    BY <1>3 DEF Move, MassInv, TypeOK, world
  <1>5. AtMostMaxCells'
    BY <1>2 DEF AtMostMaxCells
  <1>6. OnlyPoppingBlinds'
    BY <1>2 DEF Move, MassInv, OnlyPoppingBlinds
  <1> QED
    BY <1>4, <1>5, <1>6 DEF MassInv

\* Half of a cell that weighs more than PLAYER_MIN_SIZE weighs something.
LEMMA HalfFacts ==
  ASSUME NEW c \in Cell, c.size # NaN, c.size > MIN_SIZE
  PROVE  /\ Half(c) \in Cell /\ Half(c).size > 0 /\ Half(c).size # NaN
         /\ Half(c).placed = c.placed
  <1>1. c.size \in Nat /\ MIN_SIZE \in Nat /\ MIN_SIZE > 0
    BY MassAssumption DEF Cell, Size
  <1> DEFINE h == c.size \div 2
  <1>2. h \in Nat /\ h > 0
    BY <1>1
  <1>3. Half(c) = [c EXCEPT !.size = h]
    BY DEF Half
  <1> HIDE DEF h
  <1>4. Half(c) \in Cell /\ Half(c).size = h /\ Half(c).placed = c.placed
    BY <1>2, <1>3 DEF Cell, Size
  <1>5. h # NaN
    BY <1>2, MassAssumption
  <1> QED
    BY <1>2, <1>4, <1>5

\* No more cells split than there is room for: each has a place of its own among
\* the free ones, by the number of bigger-than-minimal cells before it.
LEMMA FewSplits ==
  ASSUME NEW cs \in Seq(Cell), Len(cs) <= MAX_CELLS
  PROVE  /\ Splits(cs) \in SUBSET (1 .. Len(cs))
         /\ Cardinality(Splits(cs)) \in Nat /\ Cardinality(Splits(cs)) <= Room(cs)
  <1> DEFINE S == Splits(cs)
             r == Room(cs)
             before(i) == {j \in Big(cs) : j < i}
             rank == [i \in S |-> Cardinality(before(i))]
  <1>1. Len(cs) \in Nat /\ DOMAIN cs = 1 .. Len(cs) /\ r \in Nat
    BY LenProperties, MassAssumption DEF Room
  <1>2. Big(cs) \in SUBSET (1 .. Len(cs)) /\ IsFiniteSet(Big(cs))
    <2>1. Big(cs) \in SUBSET (1 .. Len(cs))
      BY <1>1 DEF Big
    <2> QED
      BY <1>1, <2>1, Listing
  <1>3. ASSUME NEW i \in 1 .. Len(cs)
        PROVE  IsFiniteSet(before(i)) /\ Cardinality(before(i)) \in Nat
    BY <1>2, FS_Subset, FS_CardinalityType
  <1>4. S \in SUBSET (1 .. Len(cs)) /\ S \subseteq Big(cs)
    BY <1>2 DEF Splits
  <1>5. \A i \in S : Cardinality(before(i)) < r
    BY DEF Splits
  <1>6. rank \in [S -> 0 .. r - 1]
    <2>1. ASSUME NEW i \in S
          PROVE  Cardinality(before(i)) \in 0 .. r - 1
      <3>1. Cardinality(before(i)) \in Nat /\ Cardinality(before(i)) < r
        BY <1>3, <1>4, <1>5
      <3> HIDE DEF r
      <3> QED
        BY <1>1, <3>1
    <2> QED
      BY <2>1
  <1>7. ASSUME NEW i \in S, NEW j \in S, i < j
        PROVE  rank[i] # rank[j]
    <2> DEFINE more == before(i) \cup {i}
    <2>0. i \in 1 .. Len(cs) /\ j \in 1 .. Len(cs) /\ i \in Nat
      BY <1>1, <1>4
    <2>1. IsFiniteSet(before(i)) /\ Cardinality(before(i)) \in Nat /\ i \notin before(i)
      <3>1. IsFiniteSet(before(i)) /\ Cardinality(before(i)) \in Nat
        BY <1>3, <2>0
      <3>2. ~(i < i)
        BY <2>0
      <3> QED
        BY <3>1, <3>2
    <2>2. Cardinality(more) = Cardinality(before(i)) + 1
      BY <2>1, FS_AddElement
    <2>3. more \subseteq before(j)
      BY <1>2, <1>4, <1>7
    <2>4. IsFiniteSet(before(j)) /\ Cardinality(before(j)) \in Nat
      BY <1>3, <2>0
    <2>5. Cardinality(more) <= Cardinality(before(j))
      BY <2>3, <2>4, FS_Subset
    <2>6. rank[i] = Cardinality(before(i)) /\ rank[j] = Cardinality(before(j))
      OBVIOUS
    <2> HIDE DEF rank, more, before, S
    <2> QED
      BY <2>1, <2>2, <2>4, <2>5, <2>6
  <1>8. rank \in Injection(S, 0 .. r - 1)
    <2> HIDE DEF rank, S
    <2>1. ASSUME NEW i \in S, NEW j \in S, rank[i] = rank[j]
          PROVE  i = j
      <3>1. i \in Nat /\ j \in Nat
        BY <1>4
      <3>2. ~(i < j) /\ ~(j < i)
        BY <1>7, <2>1
      <3> QED
        BY <3>1, <3>2
    <2>2. DOMAIN rank = S
      BY <1>6
    <2> QED
      BY <1>6, <2>1, <2>2 DEF Injection, IsInjective
  <1>9. IsFiniteSet(0 .. r - 1) /\ Cardinality(0 .. r - 1) = r
    <2> HIDE DEF r
    <2>1. 0 \in Int /\ r - 1 \in Int
      BY <1>1
    <2>2. /\ IsFiniteSet(0 .. r - 1)
          /\ Cardinality(0 .. r - 1) = IF 0 > r - 1 THEN 0 ELSE (r - 1) - 0 + 1
      BY <2>1, FS_Interval
    <2> QED
      BY <1>1, <2>2
  <1>10. Cardinality(S) <= r /\ IsFiniteSet(S)
    <2> HIDE DEF rank, S, r
    <2> QED
      BY <1>8, <1>9, FS_Injection
  <1>11. Cardinality(S) \in Nat
    BY <1>10, FS_CardinalityType
  <1> QED
    BY <1>4, <1>10, <1>11

\* The first halves in their places, the second ones behind them in their order.
LEMMA SplitShape ==
  ASSUME NEW cs \in Seq(Cell), Len(cs) <= MAX_CELLS
  PROVE  LET S == Splits(cs)
             n == Len(cs)
             c == Cardinality(S)
             order == InOrder(S)
         IN  /\ order \in [1 .. c -> S]
             /\ Split(cs) \in Seq(Cell) /\ Len(Split(cs)) = n + c
             /\ \A i \in 1 .. n : Split(cs)[i] = IF i \in S THEN Half(cs[i]) ELSE cs[i]
             /\ \A i \in n + 1 .. n + c : Split(cs)[i] = Half(cs[order[i - n]])
  <1> DEFINE S == Splits(cs)
             n == Len(cs)
             c == Cardinality(S)
             order == InOrder(S)
             A == [i \in 1 .. n |-> IF i \in S THEN Half(cs[i]) ELSE cs[i]]
             B == [k \in 1 .. c |-> Half(cs[order[k]])]
  <1>1. n \in Nat /\ DOMAIN cs = 1 .. n /\ \A i \in 1 .. n : cs[i] \in Cell
    BY LenProperties, ElementOfSeq
  <1>2. S \in SUBSET (1 .. n) /\ c \in Nat
    BY FewSplits
  <1>3. order \in [1 .. c -> S]
    <2> HIDE DEF S, n
    <2>1. \E o \in [1 .. c -> S] : \A j, k \in DOMAIN o : j < k => o[j] < o[k]
      BY <1>1, <1>2, Listing
    <2> QED
      BY <2>1 DEF InOrder, Ascending
  <1>4. \A i \in S : cs[i].size # NaN /\ cs[i].size > MIN_SIZE
    BY DEF Splits, Big
  <1>5. Split(cs) = A \o B
    <2>1. DOMAIN order = 1 .. c
      BY <1>3
    <2>2. DOMAIN cs = 1 .. n
      BY <1>1
    <2> HIDE DEF c, n
    <2> QED
      BY <2>1, <2>2 DEF Split
  <1> HIDE DEF order, S, c, n
  <1>6. \A i \in S : Half(cs[i]) \in Cell
    BY <1>1, <1>2, <1>4, HalfFacts
  <1>7. A \in [1 .. n -> Cell] /\ B \in [1 .. c -> Cell]
    BY <1>1, <1>3, <1>6
  <1>8. /\ \A i \in 1 .. n : A[i] = IF i \in S THEN Half(cs[i]) ELSE cs[i]
        /\ \A k \in 1 .. c : B[k] = Half(cs[order[k]])
    OBVIOUS
  <1> HIDE DEF A, B
  <1>9. A \in Seq(Cell) /\ Len(A) = n /\ B \in Seq(Cell) /\ Len(B) = c
    BY <1>1, <1>2, <1>7, FunctionIsSeq
  <1>10. /\ A \o B \in Seq(Cell) /\ Len(A \o B) = n + c
         /\ \A i \in 1 .. n + c : (A \o B)[i] = IF i <= n THEN A[i] ELSE B[i - n]
    BY <1>9, ConcatProperties
  <1> DEFINE D == A \o B
  <1> HIDE DEF D
  <1>11. ASSUME NEW i \in 1 .. n
         PROVE  D[i] = IF i \in S THEN Half(cs[i]) ELSE cs[i]
    <2>1. i \in 1 .. n + c /\ i <= n
      BY <1>1, <1>2
    <2> QED
      BY <1>8, <1>10, <2>1 DEF D
  <1>12. ASSUME NEW i \in n + 1 .. n + c
         PROVE  D[i] = Half(cs[order[i - n]])
    <2>1. i \in 1 .. n + c /\ ~(i <= n) /\ i - n \in 1 .. c
      BY <1>1, <1>2
    <2> QED
      BY <1>8, <1>10, <2>1 DEF D
  <1>13. Split(cs) = D /\ D \in Seq(Cell) /\ Len(D) = n + c
    BY <1>5, <1>10 DEF D
  <1> QED
    BY <1>3, <1>11, <1>12, <1>13 DEF S, n, c, order

\* Splitting keeps to the room there is, and leaves no half without mass.
LEMMA SplitFacts ==
  ASSUME NEW cs \in Seq(Cell), Len(cs) <= MAX_CELLS
  PROVE  /\ Split(cs) \in Seq(Cell) /\ Len(Split(cs)) <= MAX_CELLS
         /\ Sound(cs) => Sound(Split(cs))
  <1> DEFINE S == Splits(cs)
             n == Len(cs)
             c == Cardinality(S)
             order == InOrder(S)
             D == Split(cs)
  <1>1. n \in Nat /\ DOMAIN cs = 1 .. n /\ \A i \in 1 .. n : cs[i] \in Cell
    BY LenProperties, ElementOfSeq
  <1>2. S \in SUBSET (1 .. n) /\ c \in Nat /\ c <= Room(cs)
    BY FewSplits
  <1>3. /\ order \in [1 .. c -> S] /\ D \in Seq(Cell) /\ Len(D) = n + c
        /\ \A i \in 1 .. n : D[i] = IF i \in S THEN Half(cs[i]) ELSE cs[i]
        /\ \A i \in n + 1 .. n + c : D[i] = Half(cs[order[i - n]])
    BY SplitShape
  <1>4. \A i \in S : cs[i].size # NaN /\ cs[i].size > MIN_SIZE
    BY DEF Splits, Big
  <1> HIDE DEF S, n, c, order, D
  <1>5. ASSUME Sound(cs), NEW i \in S
        PROVE  Tangible(Half(cs[i])) /\ Half(cs[i]).size > 0
    <2>1. i \in 1 .. n /\ cs[i] \in Cell /\ i \in DOMAIN cs
      BY <1>1, <1>2
    <2>2. Half(cs[i]).size > 0 /\ Half(cs[i]).size # NaN /\ Half(cs[i]).placed = cs[i].placed
      BY <1>4, <2>1, HalfFacts
    <2> QED
      BY <1>5, <2>1, <2>2 DEF Sound, Tangible
  <1>6. ASSUME Sound(cs), NEW i \in 1 .. n + c
        PROVE  Tangible(D[i]) /\ D[i].size > 0
    <2>1. CASE i \in 1 .. n
      BY <1>1, <1>3, <1>5, <1>6, <2>1 DEF Sound
    <2>2. CASE i \in n + 1 .. n + c
      <3>1. i - n \in 1 .. c
        BY <1>1, <1>2, <2>2
      <3>2. order[i - n] \in S /\ D[i] = Half(cs[order[i - n]])
        BY <1>3, <2>2, <3>1
      <3> QED
        BY <1>5, <1>6, <3>2
    <2> QED
      BY <1>1, <1>2, <2>1, <2>2
  <1>7. n + c <= MAX_CELLS
    <2>1. Room(cs) = MAX_CELLS - n /\ MAX_CELLS \in Nat
      BY MassAssumption DEF Room, n
    <2> QED
      BY <1>1, <1>2, <2>1
  <1>8. Sound(cs) => Sound(D)
    <2>1. DOMAIN D = 1 .. n + c
      BY <1>3, LenProperties
    <2> QED
      BY <1>6, <2>1 DEF Sound
  <1> QED
    BY <1>3, <1>7, <1>8 DEF D

\* A cell that feeds keeps more than PLAYER_MIN_SIZE.
LEMMA FeedFacts ==
  ASSUME NEW cs \in Seq(Cell)
  PROVE  /\ Feed(cs) \in Seq(Cell) /\ Len(Feed(cs)) = Len(cs)
         /\ Feeders(cs) \subseteq 1 .. Len(cs)
         /\ Sound(cs) => Sound(Feed(cs))
  <1> DEFINE n == Len(cs)
             F == Feed(cs)
  <1>1. n \in Nat /\ DOMAIN cs = 1 .. n /\ \A i \in 1 .. n : cs[i] \in Cell
    BY LenProperties, ElementOfSeq
  <1>2. ASSUME NEW i \in 1 .. n
        PROVE  F[i] \in Cell /\ (Sound(cs) => Tangible(F[i]) /\ F[i].size > 0)
    <2>1. CASE i \in Feeders(cs)
      <3> DEFINE s == cs[i].size + -FEED_SIZE
      <3>1. F[i] = [cs[i] EXCEPT !.size = s]
        BY <1>1, <2>1 DEF Feed, AddSize
      <3>2. s \in Nat /\ s > 0
        <4>1. cs[i] \in Cell /\ cs[i].size # NaN /\ cs[i].size - FEED_SIZE > MIN_SIZE
          BY <1>1, <2>1 DEF Feeders
        <4>2. cs[i].size \in Nat /\ FEED_SIZE \in Nat /\ MIN_SIZE \in Nat
          BY <4>1, MassAssumption DEF Cell, Size
        <4> QED
          BY <4>1, <4>2
      <3> HIDE DEF s, F
      <3>3. cs[i] \in Cell
        BY <1>1
      <3>4. F[i] \in Cell /\ F[i].size = s /\ F[i].placed = cs[i].placed
        BY <3>1, <3>2, <3>3 DEF Cell, Size
      <3>5. s # NaN
        BY <3>2, MassAssumption
      <3> QED
        BY <1>1, <3>2, <3>4, <3>5 DEF Sound, Tangible
    <2>2. CASE i \notin Feeders(cs)
      <3>1. F[i] = cs[i]
        BY <1>1, <2>2 DEF Feed
      <3> HIDE DEF F
      <3> QED
        BY <1>1, <3>1 DEF Sound
    <2> QED
      BY <2>1, <2>2
  <1>3. F \in [1 .. n -> Cell]
    <2>1. F = [i \in 1 .. n |-> F[i]]
      BY <1>1 DEF Feed
    <2> HIDE DEF F
    <2> QED
      BY <1>2, <2>1
  <1>4. Feeders(cs) \subseteq 1 .. n
    BY <1>1 DEF Feeders
  <1> HIDE DEF F, n
  <1>5. F \in Seq(Cell) /\ Len(F) = n /\ DOMAIN F = 1 .. n
    BY <1>1, <1>3, FunctionIsSeq
  <1>6. Sound(cs) => Sound(F)
    BY <1>2, <1>5 DEF Sound
  <1> QED
    BY <1>4, <1>5, <1>6 DEF F, n

\* The Update of every player.
LEMMA UpdateMass ==
  ASSUME MassInv, Update
  PROVE  MassInv'
  <1>1. PICK splitting \in SUBSET Players : \E feeding \in SUBSET Players :
       LET halved == [p \in Players |-> IF p \in splitting THEN Split(Cells[p]) ELSE Cells[p]]
       IN  /\ Cells' = [p \in Players |-> IF p \in feeding THEN Feed(halved[p]) ELSE halved[p]]
           /\ feeds' = feeds + Cardinality(UNION {{p} \X Feeders(halved[p]) : p \in feeding})
    BY DEF Update
  <1> DEFINE halved == [p \in Players |-> IF p \in splitting THEN Split(Cells[p]) ELSE Cells[p]]
  <1>2. PICK feeding \in SUBSET Players :
          /\ Cells' = [p \in Players |-> IF p \in feeding THEN Feed(halved[p]) ELSE halved[p]]
          /\ feeds' = feeds + Cardinality(UNION {{p} \X Feeders(halved[p]) : p \in feeding})
    BY <1>1
  <1>3. ASSUME NEW p \in Players
        PROVE  /\ halved[p] \in Seq(Cell) /\ Len(halved[p]) <= MAX_CELLS
               /\ p \notin popped => Sound(halved[p])
    <2>1. halved[p] = IF p \in splitting THEN Split(Cells[p]) ELSE Cells[p]
      OBVIOUS
    <2> HIDE DEF halved
    <2> QED
      BY <2>1, Types, SplitFacts
  <1> HIDE DEF halved
  <1>4. ASSUME NEW p \in Players
        PROVE  /\ Cells'[p] \in Seq(Cell) /\ Len(Cells'[p]) <= MAX_CELLS
               /\ p \notin popped => Sound(Cells'[p])
    <2>1. Cells'[p] = IF p \in feeding THEN Feed(halved[p]) ELSE halved[p]
      BY <1>2
    <2> QED
      BY <1>3, <2>1, FeedFacts
  <1>5. Cells' \in [Players -> Seq(Cell)]
    <2>1. DOMAIN Cells' = Players /\ Cells' = [p \in Players |-> Cells'[p]]
      BY <1>2
    <2> QED
      BY <1>4, <2>1
  <1>6. feeds' \in Nat
    <2> DEFINE U == UNION {{p} \X Feeders(halved[p]) : p \in feeding}
               all == Players \X (1 .. MAX_CELLS)
    <2>1. ASSUME NEW p \in Players
          PROVE  Feeders(halved[p]) \subseteq 1 .. MAX_CELLS
      <3>1. Feeders(halved[p]) \subseteq 1 .. Len(halved[p])
        BY <1>3, FeedFacts
      <3>2. Len(halved[p]) \in Nat /\ MAX_CELLS \in Nat /\ Len(halved[p]) <= MAX_CELLS
        BY <1>3, LenProperties, MassAssumption
      <3> QED
        BY <3>1, <3>2
    <2>2. U \subseteq all
      BY <2>1
    <2>3. IsFiniteSet(all)
      <3>1. IsFiniteSet(1 .. MAX_CELLS)
        BY MassAssumption, FS_Interval
      <3> QED
        BY <3>1, MassAssumption, FS_Product
    <2>4. Cardinality(U) \in Nat
      <3>1. IsFiniteSet(U)
        BY <2>2, <2>3, FS_Subset
      <3> QED
        BY <3>1, FS_CardinalityType
    <2>5. feeds' = feeds + Cardinality(U) /\ feeds \in Nat
      BY <1>2 DEF MassInv, TypeOK
    <2> HIDE DEF U
    <2> QED
      BY <2>4, <2>5
  <1>7. ASSUME NEW p \in Players \ popped
        PROVE  p \in camera'
    <2>1. Sound(Cells'[p]) /\ Cells'[p] \in Seq(Cell)
      BY <1>4
    <2>2. Framed(Cells'[p])
      <3> DEFINE cs == Cells'[p]
      <3>1. \A i \in DOMAIN cs : Tangible(cs[i]) /\ cs[i].size > 0
        BY <2>1 DEF Sound
      <3>2. cs # <<>> => 1 \in DOMAIN cs
        <4>1. cs \in Seq(Cell)
          BY <2>1
        <4> HIDE DEF cs
        <4>2. cs # <<>> => Len(cs) \in Nat \ {0}
          BY <4>1, EmptySeq
        <4>3. DOMAIN cs = 1 .. Len(cs)
          BY <4>1, LenProperties
        <4> QED
          BY <4>2, <4>3
      <3> HIDE DEF cs
      <3>3. Framed(cs)
        BY <3>1, <3>2 DEF Framed
      <3> QED
        BY <3>3 DEF cs
    <2> QED
      BY <2>2 DEF Update, MassInv, OnlyPoppingBlinds
  <1>8. TypeOK'
    BY <1>5, <1>6 DEF Update, MassInv, TypeOK
  <1>9. AtMostMaxCells'
    BY <1>4 DEF AtMostMaxCells
  <1>10. OnlyPoppingBlinds'
    BY <1>4, <1>7 DEF Update, OnlyPoppingBlinds
  <1> QED
    BY <1>8, <1>9, <1>10 DEF MassInv

-----------------------------------------------------------------------------
\* Every step keeps the invariant.
LEMMA NextMass ==
  ASSUME MassInv, Next
  PROVE  MassInv'
  <1>1. ASSUME NEW p \in Players, NEW i \in DOMAIN Cells[p],
               EatFood(p, i) \/ EatFeed(p, i) \/ EatVirus(p, i)
        PROVE  MassInv'
    BY <1>1, EatMass, EatVirusMass
  <1>2. ASSUME NEW p \in Players, NEW i \in DOMAIN Cells[p], NEW j \in DOMAIN Cells[p],
               Merge(p, i, j) \/ Push(p, i, j)
        PROVE  MassInv'
    BY <1>2, MergeMass, PushMass
  <1>3. ASSUME NEW p \in Players, NEW i \in DOMAIN Cells[p],
               NEW q \in Players, NEW j \in DOMAIN Cells[q], EatRival(p, i, q, j)
        PROVE  MassInv'
    BY <1>3, EatRivalMass
  <1>4. ASSUME NEW g \in ghost, NEW i \in DOMAIN Cells[g.player],
               GhostEats(g, i) \/ GhostEaten(g, i)
        PROVE  MassInv'
    BY <1>4, GhostEatsMass, GhostEatenMass
  <1> QED
    BY <1>1, <1>2, <1>3, <1>4, MoveMass, UpdateMass DEF Next

LEMMA StutterMass ==
  ASSUME MassInv, UNCHANGED vars
  PROVE  MassInv'
  BY DEF MassInv, TypeOK, AtMostMaxCells, OnlyPoppingBlinds, vars, world

\* MassInv holds in every state, whatever the sizes, the limits and the order of
\* collisions: a player has at most MAX_CELLS cells, and one of whose cells no
\* virus popped keeps its Camera and has mass in every cell.
THEOREM MassInvariant == Spec => []MassInv
  <1>1. Init => MassInv
    BY InitMass
  <1>2. MassInv /\ [Next]_vars => MassInv'
    BY NextMass, StutterMass
  <1> QED
    BY <1>1, <1>2, PTL DEF Spec

\* The limit of MAX_CELLS cells holds in every state (CollideDynamic and DoSplit).
THEOREM CellsLimited == Spec => []AtMostMaxCells
  <1>1. MassInv => AtMostMaxCells
    BY DEF MassInv
  <1> QED
    BY <1>1, MassInvariant, PTL

\* Only a popped virus takes the Camera or the mass of a cell (CalculateCamera).
THEOREM PoppingBlinds == Spec => []OnlyPoppingBlinds
  <1>1. MassInv => OnlyPoppingBlinds
    BY DEF MassInv
  <1> QED
    BY <1>1, MassInvariant, PTL

\* The variables keep their types.
THEOREM MassTypes == Spec => []TypeOK
  <1>1. MassInv => TypeOK
    BY DEF MassInv
  <1> QED
    BY <1>1, MassInvariant, PTL

-----------------------------------------------------------------------------
(* What the cells weigh                                                    *)

Alive(cs) == {k \in DOMAIN cs : cs[k].size # NaN}

\* The weight of some cells is a sum of naturals.
LEMMA WeightSum ==
  ASSUME NEW cs \in Seq(Cell)
  PROVE  /\ Weight(cs) = SumFunctionOnSet(Sizes(cs), Alive(cs)) /\ Weight(cs) \in Nat
         /\ Alive(cs) \subseteq 1 .. Len(cs) /\ IsFiniteSet(Alive(cs))
         /\ \A i \in Alive(cs) : Sizes(cs)[i] = cs[i].size /\ cs[i].size \in Nat
  <1>1. Len(cs) \in Nat /\ DOMAIN cs = 1 .. Len(cs) /\ \A i \in DOMAIN cs : cs[i].size \in Size
    <2>1. Len(cs) \in Nat /\ DOMAIN cs = 1 .. Len(cs) /\ \A i \in DOMAIN cs : cs[i] \in Cell
      BY LenProperties, ElementOfSeq
    <2>2. \A c \in Cell : c.size \in Size
      BY DEF Cell
    <2> QED
      BY <2>1, <2>2
  <1>2. Alive(cs) \in SUBSET (1 .. Len(cs))
    BY <1>1 DEF Alive
  <1>3. IsFiniteSet(Alive(cs))
    BY <1>1, <1>2, Listing
  <1>4. \A i \in Alive(cs) : Sizes(cs)[i] = cs[i].size /\ cs[i].size \in Nat
    BY <1>1 DEF Alive, Sizes, Size
  <1>5. Weight(cs) = SumFunctionOnSet(Sizes(cs), Alive(cs))
    BY DEF Weight, SumFunction, Sizes, Alive
  <1>6. SumFunctionOnSet(Sizes(cs), Alive(cs)) \in Nat
    BY <1>3, <1>4, SumIsNat
  <1> QED
    BY <1>2, <1>3, <1>4, <1>5, <1>6

\* Where a cell is does not change what it weighs.
LEMMA SameWeight ==
  ASSUME NEW cs, NEW ds, DOMAIN ds = DOMAIN cs, \A i \in DOMAIN cs : ds[i].size = cs[i].size
  PROVE  Weight(ds) = Weight(cs)
  <1>1. Sizes(ds) = Sizes(cs)
    BY DEF Sizes
  <1> QED
    BY <1>1 DEF Weight

\* AddSize adds what it says.
LEMMA WeightAdded ==
  ASSUME NEW cs \in Seq(Cell), NEW i \in DOMAIN cs, Tangible(cs[i]), NEW s \in Nat
  PROVE  Weight(AddSize(cs, i, s)) = Weight(cs) + s
  <1> DEFINE ds == AddSize(cs, i, s)
             A == Alive(cs)
             f == Sizes(cs)
             g == Sizes(ds)
  <1>1. /\ ds \in Seq(Cell) /\ DOMAIN ds = DOMAIN cs /\ ds[i].size = cs[i].size + s
        /\ \A k \in DOMAIN cs : k # i => ds[k] = cs[k]
    BY AddSizeFacts
  <1> HIDE DEF ds
  <1>2. i \in A /\ cs[i].size \in Nat
    <2>1. i \in A
      BY DEF Alive, Tangible
    <2> QED
      BY <2>1, WeightSum
  <1>3. Alive(ds) = A
    <2>1. cs[i].size + s \in Nat /\ NaN \notin Nat
      BY <1>2, MassAssumption
    <2>2. ds[i].size # NaN /\ cs[i].size # NaN
      BY <1>1, <1>2, <2>1
    <2> QED
      BY <1>1, <2>2 DEF Alive
  <1>4. /\ Weight(cs) = SumFunctionOnSet(f, A) /\ Weight(cs) \in Nat /\ IsFiniteSet(A)
        /\ Weight(ds) = SumFunctionOnSet(g, A) /\ Weight(ds) \in Nat
        /\ \A k \in A : f[k] = cs[k].size /\ f[k] \in Nat /\ g[k] = ds[k].size /\ g[k] \in Nat
    BY <1>1, <1>3, WeightSum
  <1>5. \A k \in A : k # i => g[k] = f[k]
    BY <1>1, <1>4 DEF Alive
  <1> HIDE DEF f, g, A
  <1>6. SumFunctionOnSet(g, A) + f[i] = SumFunctionOnSet(f, A) + g[i]
    <2>1. i \in A /\ IsFiniteSet(A) /\ \A k \in A : f[k] \in Nat /\ g[k] \in Nat
      BY <1>2, <1>4
    <2> QED
      BY <1>5, <2>1, SumOne
  <1>7. g[i] = f[i] + s /\ f[i] \in Nat
    BY <1>1, <1>2, <1>4
  <1>8. Weight(ds) = Weight(cs) + s
    <2> DEFINE a == SumFunctionOnSet(f, A)
               b == SumFunctionOnSet(g, A)
    <2>1. Weight(cs) = a /\ Weight(ds) = b /\ a \in Nat /\ b \in Nat
      BY <1>4
    <2>2. b + f[i] = a + g[i]
      BY <1>6
    <2> HIDE DEF a, b
    <2>3. b = a + s
      BY <1>7, <2>1, <2>2
    <2> QED
      BY <2>1, <2>3
  <1> QED
    BY <1>8 DEF ds

\* A cell that is erased takes its weight along.
LEMMA WeightRemoved ==
  ASSUME NEW cs \in Seq(Cell), NEW j \in DOMAIN cs, cs[j].size # NaN
  PROVE  /\ Weight(RemoveAt(cs, j)) + cs[j].size <= Weight(cs)
         /\ cs[j].size \in Nat
  <1> DEFINE ds == RemoveAt(cs, j)
             A == Alive(cs)
             B == Alive(ds)
             f == Sizes(cs)
             g == Sizes(ds)
             old == [k \in B |-> IF k < j THEN k ELSE k + 1]
  <1>1. Len(cs) \in Nat /\ DOMAIN cs = 1 .. Len(cs)
    BY LenProperties
  <1>2. /\ ds \in Seq(Cell) /\ Len(ds) = Len(cs) - 1
        /\ \A k \in 1 .. Len(cs) - 1 : ds[k] = IF k < j THEN cs[k] ELSE cs[k + 1]
    BY <1>1, RemoveAtFacts
  <1> HIDE DEF ds
  <1>3. /\ Weight(cs) = SumFunctionOnSet(f, A) /\ IsFiniteSet(A) /\ A \subseteq 1 .. Len(cs)
        /\ \A k \in A : f[k] = cs[k].size /\ f[k] \in Nat
        /\ Weight(ds) = SumFunctionOnSet(g, B) /\ IsFiniteSet(B) /\ B \subseteq 1 .. Len(cs) - 1
        /\ \A k \in B : g[k] = ds[k].size /\ g[k] \in Nat
    BY <1>2, WeightSum
  <1>4. j \in A
    BY DEF Alive
  <1>5. SumFunctionOnSet(f, A) = f[j] + SumFunctionOnSet(f, A \ {j})
    <2> HIDE DEF f, A
    <2> QED
      BY <1>3, <1>4, SumTake
  <1>6. ASSUME NEW k \in B
        PROVE  old[k] \in A \ {j} /\ g[k] = f[old[k]]
    <2>1. k \in 1 .. Len(cs) - 1 /\ ds[k].size # NaN
      BY <1>3 DEF Alive
    <2>2. old[k] \in 1 .. Len(cs) /\ old[k] # j /\ ds[k] = cs[old[k]]
      BY <1>1, <1>2, <2>1
    <2> HIDE DEF old
    <2>3. old[k] \in A
      BY <1>1, <2>1, <2>2 DEF Alive
    <2> QED
      BY <1>3, <2>2, <2>3
  <1>7. \A k, l \in B : old[k] = old[l] => k = l
    BY <1>1, <1>3
  <1>8. old \in [B -> A \ {j}]
    BY <1>6
  <1> HIDE DEF f, g, A, B, old
  <1>9. SumFunctionOnSet(g, B) <= SumFunctionOnSet(f, A \ {j})
    <2> DEFINE T == A \ {j}
    <2>1. IsFiniteSet(T) /\ \A k \in T : f[k] \in Nat
      BY <1>3, FS_RemoveElement
    <2>2. old \in [B -> T] /\ \A k \in B : g[k] \in Nat /\ g[k] <= f[old[k]]
      BY <1>3, <1>6, <1>8
    <2> HIDE DEF T
    <2>3. SumFunctionOnSet(g, B) <= SumFunctionOnSet(f, T)
      BY <1>3, <1>7, <2>1, <2>2, SumDominated
    <2> QED
      BY <2>3 DEF T
  <1>10. SumFunctionOnSet(g, B) \in Nat /\ SumFunctionOnSet(f, A \ {j}) \in Nat
    <2>1. IsFiniteSet(A \ {j}) /\ \A k \in A \ {j} : f[k] \in Nat
      BY <1>3, FS_RemoveElement
    <2> QED
      BY <1>3, <2>1, SumIsNat
  <1>11. f[j] = cs[j].size /\ f[j] \in Nat
    BY <1>3, <1>4
  <1>12. Weight(ds) + cs[j].size <= Weight(cs)
    BY <1>3, <1>5, <1>9, <1>10, <1>11
  <1> QED
    BY <1>11, <1>12 DEF ds

\* Halves weigh together at most what was halved.
LEMMA WeightSplit ==
  ASSUME NEW cs \in Seq(Cell), Len(cs) <= MAX_CELLS
  PROVE  Weight(Split(cs)) <= Weight(cs)
  <1> DEFINE S == Splits(cs)
             n == Len(cs)
             c == Cardinality(S)
             order == InOrder(S)
             ds == Split(cs)
             A == Alive(cs)
             B == {i \in Alive(ds) : i > n}
             sz == Sizes(cs)
             w == Sizes(ds)
             half == [i \in A |-> IF i \in S THEN cs[i].size \div 2 ELSE 0]
             from == [i \in B |-> order[i - n]]
  <1>1. n \in Nat /\ DOMAIN cs = 1 .. n /\ \A i \in 1 .. n : cs[i] \in Cell
    BY LenProperties, ElementOfSeq
  <1>2. S \in SUBSET (1 .. n) /\ c \in Nat
    BY FewSplits
  <1>3. order \in [1 .. c -> S] /\ \A j, k \in 1 .. c : order[j] = order[k] => j = k
    <2> HIDE DEF S, n
    <2>1. \E o \in [1 .. c -> S] : \A j, k \in DOMAIN o : j < k => o[j] < o[k]
      BY <1>1, <1>2, Listing
    <2>2. order \in [1 .. c -> S] /\ \A j, k \in DOMAIN order : j < k => order[j] < order[k]
      BY <2>1 DEF InOrder, Ascending
    <2> HIDE DEF order
    <2>3. ASSUME NEW j \in 1 .. c, NEW k \in 1 .. c, order[j] = order[k]
          PROVE  j = k
      <3>1. j \in DOMAIN order /\ k \in DOMAIN order /\ order[j] \in S
        BY <2>2
      <3>2. order[j] \in Nat /\ j \in Nat /\ k \in Nat
        <4> HIDE DEF c
        <4>1. j \in Nat /\ k \in Nat
          BY <1>2
        <4>2. order[j] \in 1 .. n
          BY <1>2, <3>1
        <4> QED
          BY <1>1, <4>1, <4>2
      <3>3. ~(j < k) /\ ~(k < j)
        BY <2>2, <2>3, <3>1, <3>2
      <3> QED
        BY <3>2, <3>3
    <2> QED
      BY <2>2, <2>3
  <1>4. \A i \in S : cs[i].size # NaN
    BY DEF Splits, Big
  <1>5. /\ ds \in Seq(Cell) /\ Len(ds) = n + c
        /\ \A i \in 1 .. n : ds[i] = IF i \in S THEN Half(cs[i]) ELSE cs[i]
        /\ \A i \in n + 1 .. n + c : ds[i] = Half(cs[order[i - n]])
    BY SplitShape
  <1> HIDE DEF S, n, c, order, ds
  <1>6. \A i \in S : Half(cs[i]).size = cs[i].size \div 2 /\ cs[i].size \in Nat /\ i \in A
    BY <1>1, <1>2, <1>4 DEF Half, Cell, Size, Alive
  <1>7. /\ Weight(cs) = SumFunctionOnSet(sz, A) /\ IsFiniteSet(A) /\ A \subseteq 1 .. n
        /\ \A i \in A : sz[i] = cs[i].size /\ sz[i] \in Nat
        /\ Weight(ds) = SumFunctionOnSet(w, Alive(ds)) /\ IsFiniteSet(Alive(ds))
        /\ \A i \in Alive(ds) : w[i] = ds[i].size /\ w[i] \in Nat /\ i \in 1 .. n + c
    BY <1>5, WeightSum DEF n
  <1>8. Alive(ds) = A \cup B /\ A \cap B = {}
    <2>1. DOMAIN ds = 1 .. n + c
      BY <1>5, LenProperties
    <2>2. ASSUME NEW i \in 1 .. n
          PROVE  i \in Alive(ds) <=> i \in A
      <3>1. i \in S => ds[i].size \in Nat /\ cs[i].size \in Nat /\ NaN \notin Nat
        BY <1>5, <1>6, MassAssumption
      <3>2. i \in DOMAIN ds /\ i \in DOMAIN cs
        BY <1>1, <1>2, <2>1
      <3> QED
        BY <1>5, <3>1, <3>2 DEF Alive
    <2>3. \A i \in Alive(ds) : i \in 1 .. n \/ i > n
      BY <1>1, <1>2, <1>7
    <2>4. \A i \in 1 .. n : ~(i > n)
      BY <1>1
    <2> HIDE DEF A
    <2> QED
      BY <1>7, <2>2, <2>3, <2>4
  <1>9. IsFiniteSet(B) /\ B \subseteq n + 1 .. n + c
    <2>1. B \subseteq n + 1 .. n + c
      BY <1>1, <1>2, <1>7
    <2> QED
      BY <1>7, <2>1, FS_Subset
  <1>10. SumFunctionOnSet(w, A \cup B) = SumFunctionOnSet(w, A) + SumFunctionOnSet(w, B)
    <2>1. \A i \in A \cup B : w[i] \in Nat
      BY <1>7, <1>8
    <2> HIDE DEF A, B, w
    <2> QED
      BY <1>7, <1>8, <1>9, <2>1, SumJoined
  <1>11. \A i \in A : half[i] \in Nat /\ half[i] = IF i \in S THEN cs[i].size \div 2 ELSE 0
    BY <1>6
  <1>12. ASSUME NEW i \in B
         PROVE  from[i] \in A /\ w[i] <= half[from[i]]
    <2>1. i - n \in 1 .. c /\ i \in n + 1 .. n + c
      BY <1>1, <1>2, <1>9
    <2>2. from[i] = order[i - n] /\ from[i] \in S
      BY <1>3, <2>1
    <2> HIDE DEF from
    <2>3. from[i] \in A /\ w[i] = cs[from[i]].size \div 2 /\ half[from[i]] = w[i] /\ w[i] \in Nat
      BY <1>5, <1>6, <1>7, <1>11, <2>1, <2>2
    <2> QED
      BY <2>3
  <1>13. from \in [B -> A] /\ \A i, j \in B : from[i] = from[j] => i = j
    <2>1. ASSUME NEW i \in B, NEW j \in B, from[i] = from[j]
          PROVE  i = j
      <3>1. i - n \in 1 .. c /\ j - n \in 1 .. c /\ i \in Int /\ j \in Int
        BY <1>1, <1>2, <1>9
      <3>2. i - n = j - n
        BY <1>3, <2>1, <3>1
      <3> QED
        BY <1>1, <3>1, <3>2
    <2> QED
      BY <1>12, <2>1
  <1>14. SumFunctionOnSet(w, B) <= SumFunctionOnSet(half, A)
    <2>1. \A i \in B : w[i] \in Nat
      BY <1>7
    <2> HIDE DEF A, B, w, half, from
    <2> QED
      BY <1>7, <1>9, <1>11, <1>12, <1>13, <2>1, SumDominated
  <1>15. SumFunctionOnSet(w, A) + SumFunctionOnSet(half, A) <= SumFunctionOnSet(sz, A)
    <2>1. ASSUME NEW i \in A
          PROVE  w[i] \in Nat /\ w[i] + half[i] <= sz[i]
      <3>1. w[i] = ds[i].size /\ w[i] \in Nat /\ sz[i] = cs[i].size /\ sz[i] \in Nat /\ i \in 1 .. n
        BY <1>7, <1>8
      <3>2. CASE i \in S
        <4>1. w[i] = cs[i].size \div 2 /\ half[i] = cs[i].size \div 2 /\ cs[i].size \in Nat
          BY <1>5, <1>6, <1>11, <3>1, <3>2
        <4> HIDE DEF half, w, sz
        <4>2. \A x \in Nat : (x \div 2) + (x \div 2) <= x
          OBVIOUS
        <4> QED
          BY <3>1, <4>1, <4>2
      <3>3. CASE i \notin S
        <4>1. w[i] = sz[i] /\ half[i] = 0
          BY <1>5, <1>11, <3>1, <3>3
        <4> HIDE DEF half, w, sz
        <4> QED
          BY <3>1, <4>1
      <3> QED
        BY <3>2, <3>3
    <2>2. \A i \in A : sz[i] \in Nat
      BY <1>7
    <2> HIDE DEF A, w, half, sz
    <2> QED
      BY <1>7, <1>11, <2>1, <2>2, SumAdded
  <1>16. /\ SumFunctionOnSet(w, A) \in Nat /\ SumFunctionOnSet(w, B) \in Nat
         /\ SumFunctionOnSet(half, A) \in Nat /\ SumFunctionOnSet(sz, A) \in Nat
    <2>1. (\A i \in A : w[i] \in Nat /\ sz[i] \in Nat) /\ \A i \in B : w[i] \in Nat
      BY <1>7, <1>8
    <2> HIDE DEF A, B, w, half, sz
    <2> QED
      BY <1>7, <1>9, <1>11, <2>1, SumIsNat
  <1> HIDE DEF A, B, w, half, sz
  <1>17. Weight(ds) <= Weight(cs)
    BY <1>7, <1>8, <1>10, <1>14, <1>15, <1>16
  <1> QED
    BY <1>17 DEF ds

\* What is fed away weighs at most what the feeders give for it.
LEMMA WeightFeed ==
  ASSUME NEW cs \in Seq(Cell)
  PROVE  /\ IsFiniteSet(Feeders(cs)) /\ Cardinality(Feeders(cs)) \in Nat
         /\ Weight(Feed(cs)) + Cardinality(Feeders(cs)) * FEED_KEPT <= Weight(cs)
  <1> DEFINE n == Len(cs)
             A == Alive(cs)
             D == Feeders(cs)
             ds == Feed(cs)
             sz == Sizes(cs)
             w == Sizes(ds)
             fee == [i \in A |-> IF i \in D THEN FEED_KEPT ELSE 0]
  <1>1. /\ n \in Nat /\ DOMAIN cs = 1 .. n /\ FEED_SIZE \in Nat /\ FEED_KEPT \in Nat
        /\ FEED_KEPT <= FEED_SIZE /\ MIN_SIZE \in Nat /\ NaN \notin Nat
    BY LenProperties, MassAssumption
  <1>2. ds \in Seq(Cell) /\ DOMAIN ds = 1 .. n
    BY <1>1, FeedFacts, LenProperties
  <1>3. /\ Weight(cs) = SumFunctionOnSet(sz, A) /\ IsFiniteSet(A) /\ A \subseteq 1 .. n
        /\ \A i \in A : sz[i] = cs[i].size /\ sz[i] \in Nat
        /\ Weight(ds) = SumFunctionOnSet(w, Alive(ds)) /\ Weight(ds) \in Nat /\ Weight(cs) \in Nat
        /\ \A i \in Alive(ds) : w[i] = ds[i].size /\ w[i] \in Nat
    BY <1>2, WeightSum
  <1>4. D \subseteq A /\ \A i \in D : cs[i].size - FEED_SIZE > MIN_SIZE
    BY DEF Feeders, Alive
  <1>5. ASSUME NEW i \in 1 .. n
        PROVE  ds[i] = IF i \in D THEN [cs[i] EXCEPT !.size = cs[i].size + -FEED_SIZE] ELSE cs[i]
    BY <1>1 DEF Feed, AddSize
  <1>6. ASSUME NEW i \in D
        PROVE  ds[i].size = sz[i] - FEED_SIZE /\ sz[i] - FEED_SIZE \in Nat /\ sz[i] = cs[i].size
    <2>1. i \in 1 .. n /\ cs[i].size = sz[i] /\ sz[i] \in Nat /\ sz[i] - FEED_SIZE > MIN_SIZE
      BY <1>3, <1>4
    <2>2. cs[i] \in Cell
      BY <2>1, ElementOfSeq
    <2>3. [cs[i] EXCEPT !.size = cs[i].size + -FEED_SIZE].size = cs[i].size + -FEED_SIZE
      BY <2>2 DEF Cell
    <2>4. ds[i].size = cs[i].size + -FEED_SIZE
      BY <1>5, <2>1, <2>3
    <2> HIDE DEF sz, ds, D
    <2> QED
      BY <1>1, <2>1, <2>4
  <1> HIDE DEF ds, D, sz, w
  <1>7. Alive(ds) = A
    <2>1. ASSUME NEW i \in 1 .. n
          PROVE  ds[i].size # NaN <=> cs[i].size # NaN
      <3>1. CASE i \in D
        <4>1. ds[i].size \in Nat /\ cs[i].size \in Nat
          BY <1>3, <1>4, <1>6, <3>1
        <4> QED
          BY <1>1, <4>1
      <3>2. CASE i \notin D
        BY <1>5, <3>2
      <3> QED
        BY <3>1, <3>2
    <2> QED
      BY <1>1, <1>2, <2>1 DEF Alive
  <1>8. \A i \in A : fee[i] = (IF i \in D THEN FEED_KEPT ELSE 0) /\ fee[i] \in Nat
    BY <1>1
  <1> HIDE DEF fee
  <1>9. ASSUME NEW i \in A
        PROVE  w[i] \in Nat /\ sz[i] \in Nat /\ w[i] + fee[i] <= sz[i]
    <2>1. /\ w[i] = ds[i].size /\ w[i] \in Nat /\ sz[i] = cs[i].size /\ sz[i] \in Nat /\ i \in 1 .. n
      BY <1>3, <1>7
    <2>2. CASE i \in D
      <3>1. w[i] = sz[i] - FEED_SIZE /\ fee[i] = FEED_KEPT
        BY <1>6, <1>8, <2>1, <2>2
      <3> QED
        BY <1>1, <2>1, <3>1
    <2>3. CASE i \notin D
      <3>1. w[i] = sz[i] /\ fee[i] = 0
        BY <1>5, <1>8, <2>1, <2>3
      <3> QED
        BY <2>1, <3>1
    <2> QED
      BY <2>2, <2>3
  <1> HIDE DEF A
  <1>10. SumFunctionOnSet(w, A) + SumFunctionOnSet(fee, A) <= SumFunctionOnSet(sz, A)
    BY <1>3, <1>8, <1>9, SumAdded
  <1>11. IsFiniteSet(D) /\ Cardinality(D) \in Nat
    BY <1>3, <1>4, FS_Subset, FS_CardinalityType
  <1>12. Cardinality(D) * FEED_KEPT <= SumFunctionOnSet(fee, A)
    <2> DEFINE R == A \ D
    <2>1. IsFiniteSet(R) /\ D \cup R = A /\ D \cap R = {} /\ \A i \in D \cup R : fee[i] \in Nat
      BY <1>3, <1>4, <1>8, FS_Subset
    <2> HIDE DEF R
    <2>2. SumFunctionOnSet(fee, D \cup R) = SumFunctionOnSet(fee, D) + SumFunctionOnSet(fee, R)
      BY <1>11, <2>1, SumJoined
    <2>3. SumFunctionOnSet(fee, D) \in Nat /\ SumFunctionOnSet(fee, R) \in Nat
      BY <1>11, <2>1, SumIsNat
    <2>4. SumFunctionOnSet(fee, D) = Cardinality(D) * FEED_KEPT
      <3>1. \A i \in D : fee[i] = FEED_KEPT
        BY <1>4, <1>8
      <3> QED
        BY <1>1, <1>11, <3>1, SumOfEqual
    <2>5. SumFunctionOnSet(fee, D) <= SumFunctionOnSet(fee, D \cup R)
      BY <2>2, <2>3
    <2> QED
      BY <2>1, <2>4, <2>5
  <1>13. /\ SumFunctionOnSet(w, A) \in Nat /\ SumFunctionOnSet(fee, A) \in Nat
         /\ SumFunctionOnSet(sz, A) \in Nat /\ Cardinality(D) * FEED_KEPT \in Nat
    <2>1. \A i \in A : w[i] \in Nat /\ fee[i] \in Nat /\ sz[i] \in Nat
      BY <1>8, <1>9
    <2>2. \A a, b \in Nat : a * b \in Nat
      OBVIOUS
    <2>3. Cardinality(D) * FEED_KEPT \in Nat
      BY <1>1, <1>11, <2>2
    <2> QED
      BY <1>3, <2>1, <2>3, SumIsNat
  <1>14. Weight(ds) = SumFunctionOnSet(w, A) /\ Weight(cs) = SumFunctionOnSet(sz, A)
    BY <1>3, <1>7
  <1>15. Weight(ds) + Cardinality(D) * FEED_KEPT <= Weight(cs)
    <2> DEFINE a == SumFunctionOnSet(w, A)
               b == SumFunctionOnSet(fee, A)
               c == SumFunctionOnSet(sz, A)
               d == Cardinality(D) * FEED_KEPT
    <2>1. a + b <= c /\ d <= b /\ a \in Nat /\ b \in Nat /\ c \in Nat /\ d \in Nat
      BY <1>10, <1>12, <1>13
    <2> HIDE DEF a, b, c, d
    <2>2. a + d <= c
      BY <2>1
    <2> QED
      BY <1>14, <2>2 DEF a, c, d
  <1> QED
    BY <1>11, <1>15 DEF ds, D

-----------------------------------------------------------------------------
(* What all the players weigh                                              *)

Weights(cells) == [p \in Players |-> Weight(cells[p])]
Heavy(cells) == SumFunctionOnSet(Weights(cells), Players)

LEMMA HeavyFacts ==
  ASSUME NEW cells, \A p \in Players : cells[p] \in Seq(Cell)
  PROVE  /\ IsFiniteSet(Players) /\ Heavy(cells) \in Nat
         /\ \A p \in Players : Weights(cells)[p] = Weight(cells[p]) /\ Weights(cells)[p] \in Nat
  <1>1. \A p \in Players : Weights(cells)[p] = Weight(cells[p]) /\ Weights(cells)[p] \in Nat
    BY WeightSum DEF Weights
  <1>2. IsFiniteSet(Players)
    BY MassAssumption
  <1> QED
    BY <1>1, <1>2, SumIsNat DEF Heavy

\* The step of one player.
LEMMA HeavyOne ==
  ASSUME NEW cells, NEW after, \A q \in Players : cells[q] \in Seq(Cell) /\ after[q] \in Seq(Cell),
         NEW p \in Players, \A q \in Players : q # p => after[q] = cells[q]
  PROVE  Heavy(after) + Weight(cells[p]) = Heavy(cells) + Weight(after[p])
  <1> DEFINE f == Weights(cells)
             g == Weights(after)
  <1>1. /\ IsFiniteSet(Players) /\ \A q \in Players : f[q] \in Nat /\ g[q] \in Nat
        /\ f[p] = Weight(cells[p]) /\ g[p] = Weight(after[p])
        /\ \A q \in Players : q # p => g[q] = f[q]
    BY HeavyFacts
  <1>2. Heavy(cells) = SumFunctionOnSet(f, Players) /\ Heavy(after) = SumFunctionOnSet(g, Players)
    BY DEF Heavy
  <1> HIDE DEF f, g
  <1>3. SumFunctionOnSet(g, Players) + f[p] = SumFunctionOnSet(f, Players) + g[p]
    BY <1>1, SumOne
  <1> QED
    BY <1>1, <1>2, <1>3

\* Everything in the world, before a step and after it.
LEMMA TotalFacts ==
  ASSUME MassInv, MassInv'
  PROVE  /\ Total = food * FOOD_SIZE + viruses * VIRUS_SIZE + feeds * FEED_KEPT + Heavy(Cells)
         /\ Total' = food' * FOOD_SIZE + viruses' * VIRUS_SIZE + feeds' * FEED_KEPT + Heavy(Cells')
         /\ \A f \in {food, food', viruses, viruses', feeds, feeds'} : f \in Nat
         /\ \A x \in {FOOD_SIZE, VIRUS_SIZE, FEED_KEPT} : x \in Nat
         /\ food * FOOD_SIZE \in Nat /\ viruses * VIRUS_SIZE \in Nat /\ feeds * FEED_KEPT \in Nat
         /\ food' * FOOD_SIZE \in Nat /\ viruses' * VIRUS_SIZE \in Nat /\ feeds' * FEED_KEPT \in Nat
         /\ food * FOOD_SIZE + viruses * VIRUS_SIZE \in Nat
         /\ food * FOOD_SIZE + viruses * VIRUS_SIZE + feeds * FEED_KEPT \in Nat
         /\ Heavy(Cells) \in Nat /\ Heavy(Cells') \in Nat /\ Total \in Nat /\ Total' \in Nat
         /\ \A p \in Players : Cells[p] \in Seq(Cell) /\ Cells'[p] \in Seq(Cell)
  <1>1. /\ food \in Nat /\ viruses \in Nat /\ feeds \in Nat
        /\ food' \in Nat /\ viruses' \in Nat /\ feeds' \in Nat
    BY DEF MassInv, TypeOK
  <1>2. FOOD_SIZE \in Nat /\ VIRUS_SIZE \in Nat /\ FEED_KEPT \in Nat
    BY MassAssumption
  <1>3. \A m, n \in Nat : m * n \in Nat
    OBVIOUS
  <1>4. /\ food * FOOD_SIZE \in Nat /\ viruses * VIRUS_SIZE \in Nat /\ feeds * FEED_KEPT \in Nat
        /\ food' * FOOD_SIZE \in Nat /\ viruses' * VIRUS_SIZE \in Nat /\ feeds' * FEED_KEPT \in Nat
    BY <1>1, <1>2, <1>3
  <1>5. \A p \in Players : Cells[p] \in Seq(Cell) /\ Cells'[p] \in Seq(Cell)
    BY DEF MassInv, TypeOK
  <1>6. Heavy(Cells) \in Nat /\ Heavy(Cells') \in Nat
    BY <1>5, HeavyFacts
  <1>7. /\ SumFunction([p \in Players |-> Weight(Cells[p])]) = Heavy(Cells)
        /\ SumFunction([p \in Players |-> Weight(Cells'[p])]) = Heavy(Cells')
    BY DEF SumFunction, Heavy, Weights
  <1>8. /\ Total = food * FOOD_SIZE + viruses * VIRUS_SIZE + feeds * FEED_KEPT + Heavy(Cells)
        /\ Total' = food' * FOOD_SIZE + viruses' * VIRUS_SIZE + feeds' * FEED_KEPT + Heavy(Cells')
    BY <1>7 DEF Total
  <1>9. /\ food * FOOD_SIZE + viruses * VIRUS_SIZE \in Nat
        /\ food * FOOD_SIZE + viruses * VIRUS_SIZE + feeds * FEED_KEPT \in Nat
        /\ Total \in Nat /\ Total' \in Nat
    <2>1. \A k, l, m, n \in Nat : k + l \in Nat /\ k + l + m \in Nat /\ k + l + m + n \in Nat
      OBVIOUS
    <2> QED
      BY <1>4, <1>6, <1>8, <2>1
  <1> QED
    BY <1>1, <1>2, <1>4, <1>5, <1>6, <1>8, <1>9

\* Steps that only touch the cells of players.
LEMMA OnlyCells ==
  ASSUME MassInv, MassInv', UNCHANGED world, Heavy(Cells') <= Heavy(Cells)
  PROVE  ~(Total' > Total)
  <1> DEFINE r == food * FOOD_SIZE + viruses * VIRUS_SIZE + feeds * FEED_KEPT
  <1>1. r \in Nat /\ Heavy(Cells) \in Nat /\ Heavy(Cells') \in Nat
    BY TotalFacts
  <1>2. Total = r + Heavy(Cells) /\ Total' = r + Heavy(Cells')
    BY TotalFacts DEF world
  <1> HIDE DEF r
  <1> QED
    BY <1>1, <1>2

\* Of them, those of one player.
LEMMA OnlyOnePlayer ==
  ASSUME MassInv, MassInv', UNCHANGED world, NEW p \in Players,
         \A q \in Players : q # p => Cells'[q] = Cells[q],
         Weight(Cells'[p]) <= Weight(Cells[p])
  PROVE  ~(Total' > Total)
  <1>1. \A q \in Players : Cells[q] \in Seq(Cell) /\ Cells'[q] \in Seq(Cell)
    BY TotalFacts
  <1>2. Heavy(Cells') + Weight(Cells[p]) = Heavy(Cells) + Weight(Cells'[p])
    BY <1>1, HeavyOne
  <1>3. Weight(Cells[p]) \in Nat /\ Weight(Cells'[p]) \in Nat
    BY <1>1, WeightSum
  <1>4. Heavy(Cells) \in Nat /\ Heavy(Cells') \in Nat
    BY TotalFacts
  <1>5. Heavy(Cells') <= Heavy(Cells)
    BY <1>2, <1>3, <1>4
  <1> QED
    BY <1>5, OnlyCells

-----------------------------------------------------------------------------
(* What each step does to the weight of everything                         *)

\* Food and feed go from the map to a cell.
LEMMA EatWeighs ==
  ASSUME MassInv, MassInv', NEW p \in Players, NEW i \in DOMAIN Cells[p],
         EatFood(p, i) \/ EatFeed(p, i)
  PROVE  ~(Total' > Total)
  <1> DEFINE s == IF EatFood(p, i) THEN FOOD_SIZE ELSE FEED_KEPT
  <1>1. s \in Nat /\ Tangible(Cells[p][i]) /\ Cells[p] \in Seq(Cell)
    BY TotalFacts DEF EatFood, EatFeed, Eater
  <1>2. Cells' = [Cells EXCEPT ![p] = AddSize(Cells[p], i, s)]
    BY DEF EatFood, EatFeed
  <1>3. food' * FOOD_SIZE + feeds' * FEED_KEPT + s = food * FOOD_SIZE + feeds * FEED_KEPT
        /\ viruses' = viruses
    <2>1. \A m, n \in Nat : m > 0 => (m - 1) * n + n = m * n
      OBVIOUS
    <2>2. CASE EatFood(p, i)
      <3>1. /\ food' = food - 1 /\ food > 0 /\ feeds' = feeds /\ s = FOOD_SIZE
            /\ food \in Nat /\ FOOD_SIZE \in Nat /\ viruses' = viruses
        BY <2>2, TotalFacts DEF EatFood
      <3>2. food' * FOOD_SIZE + FOOD_SIZE = food * FOOD_SIZE
        BY <2>1, <3>1
      <3>3. food' * FOOD_SIZE \in Nat /\ food * FOOD_SIZE \in Nat /\ feeds * FEED_KEPT \in Nat
        BY TotalFacts
      <3> HIDE DEF s
      <3> QED
        BY <3>1, <3>2, <3>3
    <2>3. CASE ~EatFood(p, i)
      <3>1. /\ feeds' = feeds - 1 /\ feeds > 0 /\ food' = food /\ s = FEED_KEPT
            /\ feeds \in Nat /\ FEED_KEPT \in Nat /\ viruses' = viruses
        BY <2>3, TotalFacts DEF EatFeed
      <3>2. feeds' * FEED_KEPT + FEED_KEPT = feeds * FEED_KEPT
        BY <2>1, <3>1
      <3>3. feeds' * FEED_KEPT \in Nat /\ feeds * FEED_KEPT \in Nat /\ food * FOOD_SIZE \in Nat
        BY TotalFacts
      <3> HIDE DEF s
      <3> QED
        BY <3>1, <3>2, <3>3
    <2> QED
      BY <2>2, <2>3
  <1> HIDE DEF s
  <1>4. Weight(Cells'[p]) = Weight(Cells[p]) + s /\ \A q \in Players : q # p => Cells'[q] = Cells[q]
    <2>1. \A q \in Players : Cells'[q] = IF q = p THEN AddSize(Cells[p], i, s) ELSE Cells[q]
      BY <1>2 DEF MassInv, TypeOK
    <2> QED
      BY <1>1, <2>1, WeightAdded
  <1>5. Heavy(Cells') = Heavy(Cells) + s
    <2>1. \A q \in Players : Cells[q] \in Seq(Cell) /\ Cells'[q] \in Seq(Cell)
      BY TotalFacts
    <2>2. Heavy(Cells') + Weight(Cells[p]) = Heavy(Cells) + Weight(Cells'[p])
      BY <1>4, <2>1, HeavyOne
    <2>3. Weight(Cells[p]) \in Nat
      BY <1>1, WeightSum
    <2>4. Heavy(Cells) \in Nat /\ Heavy(Cells') \in Nat
      BY TotalFacts
    <2> QED
      BY <1>1, <1>4, <2>2, <2>3, <2>4
  <1>6. Total' = Total
    <2> DEFINE a == food * FOOD_SIZE
               b == feeds * FEED_KEPT
               a1 == food' * FOOD_SIZE
               b1 == feeds' * FEED_KEPT
               v == viruses * VIRUS_SIZE
               v1 == viruses' * VIRUS_SIZE
    <2>1. /\ a \in Nat /\ b \in Nat /\ a1 \in Nat /\ b1 \in Nat /\ v \in Nat /\ v1 = v
          /\ Heavy(Cells) \in Nat /\ Total = a + v + b + Heavy(Cells)
          /\ Total' = a1 + v1 + b1 + Heavy(Cells') /\ a1 + b1 + s = a + b
      BY <1>3, TotalFacts
    <2> HIDE DEF a, b, a1, b1, v, v1
    <2> QED
      BY <1>1, <1>5, <2>1
  <1>7. Total \in Nat
    BY TotalFacts
  <1> QED
    BY <1>6, <1>7

\* Of two cells that merge one has the weight of both.
LEMMA MergeWeighs ==
  ASSUME MassInv, MassInv', NEW p \in Players, NEW i \in DOMAIN Cells[p],
         NEW j \in DOMAIN Cells[p], Merge(p, i, j)
  PROVE  ~(Total' > Total)
  <1> DEFINE cs == Cells[p]
  <1>1. cs \in Seq(Cell) /\ i # j /\ UNCHANGED world
    <2>1. i \in Nat /\ j \in Nat /\ i < j /\ cs \in Seq(Cell)
      BY Types DEF Merge
    <2> QED
      BY <2>1 DEF Merge
  <1>2. PICK a \in DOMAIN cs, b \in DOMAIN cs :
          /\ a # b /\ Tangible(cs[a]) /\ Tangible(cs[b])
          /\ Cells' = [Cells EXCEPT ![p] = RemoveAt(AddSize(cs, a, cs[b].size), b)]
    BY <1>1 DEF Merge, Eater
  <1>3. cs[b].size \in Nat
    BY <1>1, <1>2, WeightRemoved DEF Tangible
  <1> DEFINE more == AddSize(cs, a, cs[b].size)
             less == RemoveAt(more, b)
  <1> HIDE DEF cs
  <1>4. /\ more \in Seq(Cell) /\ b \in DOMAIN more /\ more[b] = cs[b]
        /\ Weight(more) = Weight(cs) + cs[b].size
    BY <1>1, <1>2, <1>3, AddSizeFacts, WeightAdded
  <1> HIDE DEF more
  <1>5. Weight(less) + cs[b].size <= Weight(more)
    <2>1. more[b].size # NaN
      BY <1>2, <1>4 DEF Tangible
    <2>2. Weight(less) + more[b].size <= Weight(more)
      BY <1>4, <2>1, WeightRemoved
    <2> QED
      BY <1>4, <2>2
  <1>6. \A q \in Players : Cells'[q] = IF q = p THEN less ELSE Cells[q]
    BY <1>2 DEF MassInv, TypeOK, more, cs
  <1> HIDE DEF less
  <1>7. Weight(Cells'[p]) <= Weight(Cells[p])
    <2>1. Weight(Cells[p]) \in Nat /\ Weight(Cells'[p]) \in Nat
      BY TotalFacts, WeightSum
    <2>2. Weight(Cells'[p]) = Weight(less) /\ Weight(Cells[p]) = Weight(cs)
      BY <1>6 DEF cs
    <2> QED
      BY <1>3, <1>4, <1>5, <2>1, <2>2
  <1> QED
    BY <1>1, <1>6, <1>7, OnlyOnePlayer

\* Pushing moves cells.
LEMMA PushWeighs ==
  ASSUME MassInv, MassInv', NEW p \in Players, NEW i \in DOMAIN Cells[p],
         NEW j \in DOMAIN Cells[p], Push(p, i, j)
  PROVE  ~(Total' > Total)
  <1>1. Cells' = [Cells EXCEPT ![p][i].placed = FALSE, ![p][j].placed = FALSE] /\ UNCHANGED world
    BY DEF Push
  <1>2. /\ Cells \in [Players -> Seq(Cell)]
        /\ \A k \in DOMAIN Cells[p] : Cells[p][k] \in [size : Size, placed : BOOLEAN]
    BY Types DEF MassInv, TypeOK, Cell
  <1>3. \A q \in Players : q # p => Cells'[q] = Cells[q]
    BY <1>1, <1>2
  <1>4. DOMAIN Cells'[p] = DOMAIN Cells[p] /\ \A k \in DOMAIN Cells[p] : Cells'[p][k].size = Cells[p][k].size
    <2> DEFINE c == [Cells[p][i] EXCEPT !.placed = FALSE]
               one == [Cells[p] EXCEPT ![i] = c]
               d == [one[j] EXCEPT !.placed = FALSE]
               two == [one EXCEPT ![j] = d]
    <2>1. Cells'[p] = two
      BY <1>1, <1>2
    <2>2. c.size = Cells[p][i].size /\ c \in [size : Size, placed : BOOLEAN]
      BY <1>2
    <2> HIDE DEF c
    <2>3. /\ DOMAIN one = DOMAIN Cells[p]
          /\ \A k \in DOMAIN Cells[p] : /\ one[k].size = Cells[p][k].size
                                        /\ one[k] \in [size : Size, placed : BOOLEAN]
      BY <1>2, <2>2
    <2> HIDE DEF one
    <2>4. d.size = Cells[p][j].size
      BY <2>3
    <2> HIDE DEF d
    <2>5. DOMAIN two = DOMAIN Cells[p] /\ \A k \in DOMAIN Cells[p] : two[k].size = Cells[p][k].size
      BY <2>3, <2>4
    <2> QED
      BY <2>1, <2>5
  <1>5. Weight(Cells'[p]) = Weight(Cells[p])
    BY <1>4, SameWeight
  <1>6. Weight(Cells[p]) \in Nat
    BY TotalFacts, WeightSum
  <1>7. Weight(Cells'[p]) <= Weight(Cells[p])
    BY <1>5, <1>6
  <1> QED
    BY <1>1, <1>3, <1>7, OnlyOnePlayer

\* A cell of q becomes weight of p.
LEMMA EatRivalWeighs ==
  ASSUME MassInv, MassInv', NEW p \in Players, NEW i \in DOMAIN Cells[p],
         NEW q \in Players, NEW j \in DOMAIN Cells[q], EatRival(p, i, q, j)
  PROVE  ~(Total' > Total)
  <1> DEFINE b == Cells[q][j].size
             more == AddSize(Cells[p], i, b)
             less == RemoveAt(Cells[q], j)
  <1>1. /\ p # q /\ UNCHANGED world /\ Tangible(Cells[p][i]) /\ b # NaN
        /\ Cells' = [Cells EXCEPT ![p] = more, ![q] = less]
    BY DEF EatRival, Eater, Tangible
  <1>2. \A x \in Players : Cells[x] \in Seq(Cell) /\ Cells'[x] \in Seq(Cell)
    BY TotalFacts
  <1>3. Weight(less) + b <= Weight(Cells[q]) /\ b \in Nat
    BY <1>1, <1>2, WeightRemoved
  <1>4. Weight(more) = Weight(Cells[p]) + b
    <2> HIDE DEF b
    <2> QED
      BY <1>1, <1>2, <1>3, WeightAdded
  <1> HIDE DEF more, less, b
  <1>5. \A x \in Players : Cells'[x] = IF x = p THEN more ELSE IF x = q THEN less ELSE Cells[x]
    BY <1>1 DEF MassInv, TypeOK
  <1> DEFINE f == Weights(Cells)
             g == Weights(Cells')
  <1>6. /\ IsFiniteSet(Players)
        /\ \A x \in Players : f[x] = Weight(Cells[x]) /\ f[x] \in Nat
        /\ \A x \in Players : g[x] = Weight(Cells'[x]) /\ g[x] \in Nat
    BY <1>2, HeavyFacts
  <1>7. \A x \in Players : x # p /\ x # q => g[x] = f[x]
    BY <1>5, <1>6
  <1>8. g[p] = Weight(more) /\ g[q] = Weight(less) /\ f[p] = Weight(Cells[p]) /\ f[q] = Weight(Cells[q])
    <2>1. Cells'[p] = more /\ Cells'[q] = less
      BY <1>1, <1>5
    <2> HIDE DEF f, g
    <2>2. /\ f[p] = Weight(Cells[p]) /\ f[q] = Weight(Cells[q])
          /\ g[p] = Weight(Cells'[p]) /\ g[q] = Weight(Cells'[q])
      BY <1>1, <1>6
    <2> QED
      BY <2>1, <2>2
  <1>9. Heavy(Cells) = SumFunctionOnSet(f, Players) /\ Heavy(Cells') = SumFunctionOnSet(g, Players)
    BY DEF Heavy
  <1> HIDE DEF f, g
  <1>10. g[p] + g[q] <= f[p] + f[q]
    <2>1. g[p] \in Nat /\ g[q] \in Nat /\ f[p] \in Nat /\ f[q] \in Nat
      BY <1>6
    <2> QED
      BY <1>3, <1>4, <1>8, <2>1
  <1>11. SumFunctionOnSet(g, Players) <= SumFunctionOnSet(f, Players)
    BY <1>1, <1>6, <1>7, <1>10, SumPair
  <1> QED
    BY <1>1, <1>9, <1>11, OnlyCells

\* Moving changes no size.
LEMMA MoveWeighs ==
  ASSUME MassInv, MassInv', Move
  PROVE  ~(Total' > Total)
  <1>1. PICK off \in SUBSET Empty :
          Cells' = [p \in Players |-> [i \in DOMAIN Cells[p] |->
                      [Cells[p][i] EXCEPT !.placed = @ /\ Cells[p][i].size # NaN
                                                      /\ <<p, i>> \notin off]]]
    BY DEF Move
  <1>2. ASSUME NEW p \in Players
        PROVE  Weight(Cells'[p]) = Weight(Cells[p])
    <2>1. \A k \in DOMAIN Cells[p] : Cells[p][k] \in [size : Size, placed : BOOLEAN]
      BY Types DEF Cell
    <2>2. Cells'[p] = [i \in DOMAIN Cells[p] |->
                        [Cells[p][i] EXCEPT !.placed = @ /\ Cells[p][i].size # NaN
                                                        /\ <<p, i>> \notin off]]
      BY <1>1
    <2>3. DOMAIN Cells'[p] = DOMAIN Cells[p] /\ \A k \in DOMAIN Cells[p] : Cells'[p][k].size = Cells[p][k].size
      BY <2>1, <2>2
    <2> QED
      BY <2>3, SameWeight
  <1>3. Heavy(Cells') = Heavy(Cells)
    <2>1. Weights(Cells') = Weights(Cells)
      BY <1>2 DEF Weights
    <2> QED
      BY <2>1 DEF Heavy
  <1>4. Heavy(Cells) \in Nat /\ UNCHANGED world
    BY TotalFacts DEF Move
  <1> QED
    BY <1>3, <1>4, OnlyCells

\* Halves and feeds come out of the cells that split and feed.
LEMMA UpdateWeighs ==
  ASSUME MassInv, MassInv', Update
  PROVE  ~(Total' > Total)
  <1>1. PICK splitting \in SUBSET Players : \E feeding \in SUBSET Players :
       LET halved == [p \in Players |-> IF p \in splitting THEN Split(Cells[p]) ELSE Cells[p]]
       IN  /\ Cells' = [p \in Players |-> IF p \in feeding THEN Feed(halved[p]) ELSE halved[p]]
           /\ feeds' = feeds + Cardinality(UNION {{p} \X Feeders(halved[p]) : p \in feeding})
    BY DEF Update
  <1> DEFINE halved == [p \in Players |-> IF p \in splitting THEN Split(Cells[p]) ELSE Cells[p]]
  <1>2. PICK feeding \in SUBSET Players :
          /\ Cells' = [p \in Players |-> IF p \in feeding THEN Feed(halved[p]) ELSE halved[p]]
          /\ feeds' = feeds + Cardinality(UNION {{p} \X Feeders(halved[p]) : p \in feeding})
    BY <1>1
  <1>3. ASSUME NEW p \in Players
        PROVE  /\ halved[p] \in Seq(Cell) /\ Weight(halved[p]) <= Weight(Cells[p])
               /\ Weight(halved[p]) \in Nat /\ Weight(Cells[p]) \in Nat
    <2>1. halved[p] = IF p \in splitting THEN Split(Cells[p]) ELSE Cells[p]
      OBVIOUS
    <2> HIDE DEF halved
    <2>2. Cells[p] \in Seq(Cell) /\ Len(Cells[p]) <= MAX_CELLS
      BY Types
    <2>3. halved[p] \in Seq(Cell)
      BY <2>1, <2>2, SplitFacts
    <2>4. Weight(halved[p]) \in Nat /\ Weight(Cells[p]) \in Nat
      BY <2>2, <2>3, WeightSum
    <2> QED
      BY <2>1, <2>2, <2>3, <2>4, WeightSplit
  <1> HIDE DEF halved
  <1> DEFINE D == [p \in Players |-> Feeders(halved[p])]
             cost == [p \in Players |-> IF p \in feeding THEN Cardinality(D[p]) * FEED_KEPT ELSE 0]
             U == UNION {{p} \X D[p] : p \in feeding}
             f == Weights(Cells)
             g == Weights(Cells')
  <1>4. FEED_KEPT \in Nat /\ IsFiniteSet(Players) /\ IsFiniteSet(feeding) /\ feeding \subseteq Players
    BY TotalFacts, MassAssumption, FS_Subset
  <1>5. ASSUME NEW p \in Players
        PROVE  /\ IsFiniteSet(D[p]) /\ cost[p] \in Nat
               /\ cost[p] = (IF p \in feeding THEN Cardinality(D[p]) * FEED_KEPT ELSE 0)
               /\ Weight(Cells'[p]) + cost[p] <= Weight(Cells[p])
    <2>1. /\ IsFiniteSet(D[p]) /\ Cardinality(D[p]) \in Nat
          /\ Weight(Feed(halved[p])) + Cardinality(D[p]) * FEED_KEPT <= Weight(halved[p])
      BY <1>3, WeightFeed
    <2>2. \A m, n \in Nat : m * n \in Nat
      OBVIOUS
    <2>3. Cardinality(D[p]) * FEED_KEPT \in Nat
      BY <1>4, <2>1, <2>2
    <2>4. cost[p] = (IF p \in feeding THEN Cardinality(D[p]) * FEED_KEPT ELSE 0)
      OBVIOUS
    <2> HIDE DEF cost, D
    <2>5. Cells'[p] = IF p \in feeding THEN Feed(halved[p]) ELSE halved[p]
      BY <1>2
    <2>6. Weight(Cells'[p]) \in Nat
      BY TotalFacts, WeightSum
    <2>7. Weight(Cells'[p]) + cost[p] <= Weight(halved[p])
      BY <1>3, <2>1, <2>4, <2>5, <2>6
    <2> QED
      BY <1>3, <2>1, <2>3, <2>4, <2>6, <2>7
  <1>6. /\ \A x \in Players : f[x] = Weight(Cells[x]) /\ f[x] \in Nat
        /\ \A x \in Players : g[x] = Weight(Cells'[x]) /\ g[x] \in Nat
    <2>1. \A x \in Players : Cells[x] \in Seq(Cell) /\ Cells'[x] \in Seq(Cell)
      BY TotalFacts
    <2> QED
      BY <2>1, HeavyFacts
  <1>7. feeds' = feeds + Cardinality(U)
    <2>1. U = UNION {{p} \X Feeders(halved[p]) : p \in feeding}
      BY <1>4
    <2> QED
      BY <1>2, <2>1
  <1>8. Heavy(Cells) = SumFunctionOnSet(f, Players) /\ Heavy(Cells') = SumFunctionOnSet(g, Players)
    BY DEF Heavy
  <1> HIDE DEF f, g, cost, D
  <1>9. SumFunctionOnSet(g, Players) + SumFunctionOnSet(cost, Players) <= SumFunctionOnSet(f, Players)
    BY <1>4, <1>5, <1>6, SumAdded
  <1>10. Cardinality(U) \in Nat /\ Cardinality(U) * FEED_KEPT = SumFunctionOnSet(cost, feeding)
    <2>1. \A p \in feeding : IsFiniteSet(D[p]) /\ cost[p] = Cardinality(D[p]) * FEED_KEPT
      BY <1>4, <1>5
    <2>2. U = UNION {{p} \X D[p] : p \in feeding}
      OBVIOUS
    <2> HIDE DEF U
    <2> QED
      BY <1>4, <2>1, <2>2, PairsCounted
  <1> HIDE DEF U
  <1>11. SumFunctionOnSet(cost, feeding) <= SumFunctionOnSet(cost, Players)
    <2> DEFINE R == Players \ feeding
    <2>1. /\ IsFiniteSet(R) /\ feeding \cup R = Players /\ feeding \cap R = {}
          /\ \A p \in feeding \cup R : cost[p] \in Nat
      BY <1>4, <1>5, FS_Subset
    <2> HIDE DEF R
    <2>2. SumFunctionOnSet(cost, feeding \cup R) = SumFunctionOnSet(cost, feeding) + SumFunctionOnSet(cost, R)
      BY <1>4, <2>1, SumJoined
    <2>3. SumFunctionOnSet(cost, feeding) \in Nat /\ SumFunctionOnSet(cost, R) \in Nat
      BY <1>4, <2>1, SumIsNat
    <2>4. SumFunctionOnSet(cost, feeding) <= SumFunctionOnSet(cost, feeding \cup R)
      BY <2>2, <2>3
    <2> QED
      BY <2>1, <2>4
  <1>12. feeds' * FEED_KEPT = feeds * FEED_KEPT + Cardinality(U) * FEED_KEPT
    <2>1. \A l, m, n \in Nat : (l + m) * n = l * n + m * n
      OBVIOUS
    <2>2. feeds \in Nat
      BY TotalFacts
    <2> QED
      BY <1>4, <1>7, <1>10, <2>1, <2>2
  <1>13. food' = food /\ viruses' = viruses
    BY DEF Update
  <1>14. SumFunctionOnSet(cost, feeding) \in Nat /\ SumFunctionOnSet(cost, Players) \in Nat
    <2>1. \A p \in feeding : cost[p] \in Nat
      BY <1>4, <1>5
    <2> QED
      BY <1>4, <1>5, <2>1, SumIsNat
  <1> DEFINE a == food * FOOD_SIZE + viruses * VIRUS_SIZE
             b == feeds * FEED_KEPT
             b1 == feeds' * FEED_KEPT
             c == SumFunctionOnSet(cost, feeding)
             d == SumFunctionOnSet(cost, Players)
  <1>15. /\ a \in Nat /\ b \in Nat /\ b1 = b + c /\ c \in Nat /\ d \in Nat /\ c <= d
         /\ Heavy(Cells) \in Nat /\ Heavy(Cells') \in Nat /\ Heavy(Cells') + d <= Heavy(Cells)
         /\ Total = a + b + Heavy(Cells) /\ Total' = a + b1 + Heavy(Cells')
    <2>1. /\ a \in Nat /\ b \in Nat /\ Heavy(Cells) \in Nat /\ Heavy(Cells') \in Nat
          /\ Total = a + b + Heavy(Cells) /\ Total' = a + b1 + Heavy(Cells')
      BY <1>13, TotalFacts
    <2>2. b1 = b + c
      BY <1>10, <1>12
    <2>3. Heavy(Cells') + d <= Heavy(Cells)
      BY <1>8, <1>9
    <2> HIDE DEF a, b, b1
    <2> QED
      BY <1>11, <1>14, <2>1, <2>2, <2>3
  <1> HIDE DEF a, b, b1, c, d
  <1> QED
    BY <1>15

\* Mass is created by popping and by the cell CollideSelf goes on to use after it was
\* eaten, and by nothing else: whatever the sizes are, eating, merging, splitting and
\* feeding leave at most what there was.
THEOREM MassLawHolds == Spec => MassLaw
  <1>1. ASSUME MassInv, MassInv', Next, viruses' = viruses, ghost = {}
        PROVE  Total' <= Total
    <2>1. ASSUME NEW p \in Players, NEW i \in DOMAIN Cells[p], EatVirus(p, i)
          PROVE  FALSE
      <3>1. viruses' = viruses - 1 /\ viruses \in Nat
        BY <1>1, <2>1, TotalFacts DEF EatVirus
      <3> QED
        BY <1>1, <3>1
    <2>2. ASSUME NEW p \in Players, NEW i \in DOMAIN Cells[p], EatFood(p, i) \/ EatFeed(p, i)
          PROVE  ~(Total' > Total)
      BY <1>1, <2>2, EatWeighs
    <2>3. ASSUME NEW p \in Players, NEW i \in DOMAIN Cells[p], NEW j \in DOMAIN Cells[p],
                 Merge(p, i, j) \/ Push(p, i, j)
          PROVE  ~(Total' > Total)
      BY <1>1, <2>3, MergeWeighs, PushWeighs
    <2>4. ASSUME NEW p \in Players, NEW i \in DOMAIN Cells[p],
                 NEW q \in Players, NEW j \in DOMAIN Cells[q], EatRival(p, i, q, j)
          PROVE  ~(Total' > Total)
      BY <1>1, <2>4, EatRivalWeighs
    <2>5. Move \/ Update => ~(Total' > Total)
      BY <1>1, MoveWeighs, UpdateWeighs
    <2>6. ~(Total' > Total)
      BY <1>1, <2>1, <2>2, <2>3, <2>4, <2>5 DEF Next
    <2>7. Total \in Nat /\ Total' \in Nat
      BY <1>1, TotalFacts
    <2> QED
      BY <2>6, <2>7
  <1>2. MassInv /\ MassInv' /\ [Next]_vars
          => [viruses' = viruses /\ ghost = {} => Total' <= Total]_vars
    BY <1>1
  <1> QED
    BY <1>2, MassInvariant, PTL DEF Spec, MassLaw
=============================================================================
