------------------------- MODULE SubscriptionProofs -------------------------
(***************************************************************************)
(* ViewSync implements Subscription, for every set of players and cells    *)
(* and every size of the map.                                              *)
(*                                                                         *)
(* Sending, leaving and the start of a tick are the actions Send, Leave    *)
(* and Open, and a client that takes a Player over is Replace; the         *)
(* collisions are Change; a player's Update is Publish; the end of the     *)
(* tick is Close.  Eating food and the steps between the stages are        *)
(* invisible.  What makes Publish legal is RefreshHistory: an Update   *)
(* leaves no cell in the history that has a removal event.  What makes     *)
(* Close legal is that nobody is behind once todo is empty.                *)
(***************************************************************************)
EXTENDS ViewSyncProofs

-----------------------------------------------------------------------------
(* How the parts of the mapping follow the variables.                      *)

\* Between two ticks nobody is owed anything.
LEMMA IdleOwesNothing ==
  ASSUME SyncInv, pc = "idle"
  PROVE  owedSets = [p \in Players |-> {}]
  BY DEF SyncInv, TypeOK, owedSets, Behind

\* The world Map::Init makes is an initial world of the subscription.
LEMMA InitImplements ==
  ASSUME Init
  PROVE  Sub!Init
  <1> USE DEF Init
  <1>1. SyncInv
    BY InitInv
  <1>2. Live = Dynamic \ fresh /\ fresh \subseteq Dynamic
    BY ViewAssumption DEF Live, PlayerCells, Dynamic
  <1>3. knownSets = Sub!Nothing
    BY DEF knownSets, Known, NoHistory, Sub!Nothing
  <1>4. owedSets = Sub!Nothing
    BY <1>1, IdleOwesNothing DEF Sub!Nothing
  <1>5. Shows(told) = Sub!Nothing /\ Shows(shown) = Sub!Nothing
    BY DEF Shows, Blank, Cell, Sub!Nothing
  <1> QED
    BY <1>2, <1>3, <1>4, <1>5 DEF Sub!Init

-----------------------------------------------------------------------------
(* The callbacks between two ticks.                                        *)

\* Sending to S is sending to S, and shows what was appended.
LEMMA FlushShows ==
  ASSUME NEW S, Flush(S)
  PROVE  Shows(shown)' = [p \in Players |-> IF p \in S THEN Shows(told)[p] ELSE Shows(shown)[p]]
  BY DEF Flush, Shows

\* A writable callback of a connection with a Player only sends.
LEMMA WriteableKnownImplements ==
  ASSUME SyncInv, NEW w \in Players, WriteableKnown(w)
  PROVE  Sub!Next
  <1> USE DEF WriteableKnown, world
  <1>1. PICK S \in SUBSET active : Flush(S)
    OBVIOUS
  <1>2. S \in SUBSET Players /\ {} \in SUBSET fresh
    BY DEF SyncInv, TypeOK
  <1>3. Live' = Live /\ knownSets' = knownSets /\ owedSets' = owedSets
        /\ Shows(told)' = Shows(told)
    BY DEF Live, PlayerCells, knownSets, Known, owedSets, Behind, Shows
  <1>4. Sub!Send(S, {})
    BY <1>1, <1>3, FlushShows DEF Sub!Send, Sub!Born
  <1> QED
    BY <1>2, <1>4 DEF Sub!Next

\* A new Player comes with one cell.
LEMMA WriteableNewImplements ==
  ASSUME SyncInv, NEW w \in Players, WriteableNew(w)
  PROVE  Sub!Next
  <1>1. PICK S \in SUBSET active, c \in fresh :
          /\ Flush(S)
          /\ fresh' = fresh \ {c}
          /\ Cells' = [Cells EXCEPT ![w] = {c}]
    BY DEF WriteableNew
  <1>2. /\ pc = "idle" /\ w \notin active
        /\ UNCHANGED <<pc, todo, DynamicMap, CellEvents, CellHistory, told, abandoned>>
    BY DEF WriteableNew
  <1>3. S \in SUBSET Players /\ {c} \in SUBSET fresh
    BY <1>1 DEF SyncInv, TypeOK
  <1>4. Live' = Live \cup {c}
    <2>1. Cells \in [Players -> SUBSET Dynamic] /\ Cells[w] = {}
      BY <1>2 DEF SyncInv, TypeOK, OneOwner
    <2>2. \A x \in Players : Cells'[x] = IF x = w THEN {c} ELSE Cells[x]
      BY <1>1, <2>1
    <2> QED
      BY <1>2, <2>1, <2>2 DEF Live, PlayerCells
  <1>5. /\ knownSets' = knownSets /\ owedSets' = owedSets
        /\ Shows(told)' = Shows(told)
    BY <1>2 DEF knownSets, Known, owedSets, Behind, Shows
  <1>6. Sub!Send(S, {c})
    BY <1>1, <1>2, <1>3, <1>4, <1>5, FlushShows DEF Sub!Send, Sub!Born
  <1> QED
    BY <1>3, <1>6 DEF Sub!Next

\* Players that are erased lose what they own and know, and leave nothing owed.
LEMMA ErasePlayersLose ==
  ASSUME SyncInv, NEW E \in SUBSET Players, ErasePlayers(E), UNCHANGED <<DynamicMap, fresh>>
  PROVE  \E D \in SUBSET Live :
           /\ Live' = Live \ D /\ abandoned' = abandoned \cup D
           /\ knownSets' = [p \in Players |-> IF p \in E THEN {} ELSE knownSets[p]]
  <1> DEFINE D == UNION {Cells[p] : p \in E}
  <1> USE DEF ErasePlayers
  <1>1. Cells \in [Players -> SUBSET Dynamic]
    BY DEF SyncInv, TypeOK
  <1>2. D \subseteq Live
    BY <1>1 DEF Live, PlayerCells
  <1>3. Live' = Live \ D
    BY <1>1 DEF SyncInv, OneOwner, Live, PlayerCells
  <1>4. knownSets' = [p \in Players |-> IF p \in E THEN {} ELSE knownSets[p]]
    <2>1. \A p \in Players : {c \in Dynamic : CellHistory'[p][c] > 0} =
                               IF p \in E THEN {} ELSE {c \in Dynamic : CellHistory[p][c] > 0}
      BY DEF NoHistory
    <2> QED
      BY <2>1 DEF knownSets, Known
  <1> QED
    BY <1>2, <1>3, <1>4

\* A client that closes takes its picture along.
LEMMA PeerInitiatedCloseImplements ==
  ASSUME SyncInv, SyncInv', NEW w \in Players, PeerInitiatedClose(w)
  PROVE  Sub!Next
  <1>1. /\ pc = "idle" /\ ErasePlayers({w}) /\ UNCHANGED <<pc, DynamicMap, fresh>>
        /\ told' = [told EXCEPT ![w] = Blank] /\ shown' = [shown EXCEPT ![w] = Blank]
    BY DEF PeerInitiatedClose
  <1>2. PICK D \in SUBSET Live :
          /\ Live' = Live \ D /\ abandoned' = abandoned \cup D
          /\ knownSets' = [p \in Players |-> IF p \in {w} THEN {} ELSE knownSets[p]]
    BY <1>1, ErasePlayersLose
  <1>3. owedSets' = owedSets
    <2>1. \A p \in Players : ~Behind(p)'
      BY <1>1 DEF SyncInv, TypeOK, Behind
    <2>2. owedSets' = [p \in Players |-> {}]
      BY <2>1 DEF owedSets
    <2> QED
      BY <1>1, <2>2, IdleOwesNothing
  <1>4. /\ Shows(told)' = [Shows(told) EXCEPT ![w] = {}]
        /\ Shows(shown)' = [Shows(shown) EXCEPT ![w] = {}]
    <2>1. \A c \in Dynamic : Blank[c] = Unknown
      BY DEF Blank, Cell
    <2>2. \A p \in Players : /\ told'[p] = IF p = w THEN Blank ELSE told[p]
                             /\ shown'[p] = IF p = w THEN Blank ELSE shown[p]
      BY <1>1 DEF SyncInv, TypeOK
    <2>3. \A p \in Players :
            /\ Shows(told)'[p] = IF p = w THEN {} ELSE Shows(told)[p]
            /\ Shows(shown)'[p] = IF p = w THEN {} ELSE Shows(shown)[p]
      BY <2>1, <2>2 DEF Shows
    <2> QED
      BY <2>3 DEF Shows
  <1>5. Sub!Leave(w, D)
    BY <1>1, <1>2, <1>3, <1>4 DEF Sub!Leave, Sub!Lose, Sub!Forget
  <1> QED
    BY <1>5 DEF Sub!Next

\* A client that takes a Player over replaces the one before it: it gets the part
\* of the buffer that makes sense to it, all of which is known.
LEMMA EstablishedImplements ==
  ASSUME SyncInv, NEW w \in Players, Established(w)
  PROVE  Sub!Next
  <1>1. /\ pc = "idle" /\ told' = [told EXCEPT ![w] = unsent[w]]
        /\ shown' = [shown EXCEPT ![w] = Blank]
        /\ UNCHANGED <<pc, todo, DynamicMap, fresh, Cells, abandoned, CellEvents, CellHistory>>
    BY DEF Established, world
  <1>2. Live' = Live /\ knownSets' = knownSets /\ owedSets' = owedSets
    BY <1>1 DEF Live, PlayerCells, knownSets, Known, owedSets, Behind
  <1> DEFINE part == Shows(unsent)[w]
  <1>3. part \in SUBSET (Shows(told)[w] \cap knownSets[w])
    <2>1. \A c \in Dynamic : unsent[w][c] # Unknown => Known(w, c) /\ told[w][c] # Unknown
      BY DEF SyncInv, UnsentAgrees, Cell
    <2> QED
      BY <2>1 DEF Shows, knownSets
  <1>4. /\ Shows(told)' = [Shows(told) EXCEPT ![w] = part]
        /\ Shows(shown)' = [Shows(shown) EXCEPT ![w] = {}]
    <2>1. \A c \in Dynamic : Blank[c] = Unknown
      BY DEF Blank, Cell
    <2>2. \A p \in Players : /\ told'[p] = IF p = w THEN unsent[w] ELSE told[p]
                             /\ shown'[p] = IF p = w THEN Blank ELSE shown[p]
      BY <1>1 DEF SyncInv, TypeOK
    <2>3. \A p \in Players :
            /\ Shows(told)'[p] = IF p = w THEN part ELSE Shows(told)[p]
            /\ Shows(shown)'[p] = IF p = w THEN {} ELSE Shows(shown)[p]
      BY <2>1, <2>2 DEF Shows
    <2> HIDE DEF part
    <2> QED
      BY <2>3 DEF Shows
  <1> HIDE DEF part
  <1>5. Sub!Replace(w)
    BY <1>1, <1>2, <1>3, <1>4 DEF Sub!Replace, Sub!things
  <1> QED
    BY <1>5 DEF Sub!Next

-----------------------------------------------------------------------------
(* The stages of game_loop_cb.                                             *)

\* The round opens with the players that overflowed gone and no events.
LEMMA BeginTickImplements ==
  ASSUME SyncInv, BeginTick
  PROVE  Sub!Next
  <1>1. PICK E \in SUBSET active :
          /\ ErasePlayers(E)
          /\ told' = [p \in Players |-> IF p \in E THEN shown[p] ELSE told[p]]
    BY DEF BeginTick
  <1>2. /\ pc = "idle" /\ pc' = "own" /\ CellEvents' = NoEvents
        /\ UNCHANGED <<DynamicMap, fresh, shown>> /\ E \in SUBSET Players
    BY DEF BeginTick, SyncInv, TypeOK
  <1>3. PICK D \in SUBSET Live :
          /\ Live' = Live \ D /\ abandoned' = abandoned \cup D
          /\ knownSets' = [p \in Players |-> IF p \in E THEN {} ELSE knownSets[p]]
    BY <1>1, <1>2, ErasePlayersLose
  <1>4. owedSets' = owedSets
    <2>1. CellEvents'.removeDynamic = {}
      BY <1>2 DEF NoEvents
    <2>2. owedSets' = [p \in Players |-> {}]
      BY <2>1 DEF owedSets
    <2> QED
      BY <1>2, <2>2, IdleOwesNothing
  <1>5. /\ Shows(shown)' = Shows(shown)
        /\ Shows(told)' = [p \in Players |-> IF p \in E THEN Shows(shown)[p] ELSE Shows(told)[p]]
    BY <1>1, <1>2 DEF Shows
  <1>6. Sub!Open(E, D)
    BY <1>2, <1>3, <1>4, <1>5 DEF Sub!Open, Sub!Lose, Sub!Forget
  <1> QED
    BY <1>2, <1>6 DEF Sub!Next

\* A collision with new cells N, eaten cells R and mislaid cells D changes the
\* world, and adds what was eaten to what is owed to those who know it.
LEMMA CollisionChanges ==
  ASSUME SyncInv, pc \in {"own", "rivals"},
         UNCHANGED <<pc, todo, CellHistory, told, shown>>,
         NEW N \in SUBSET fresh, NEW R \in SUBSET Live, NEW D \in SUBSET Live,
         R \cap D = {}, fresh' = fresh \ N,
         Live' = (Live \ (R \cup D)) \cup N, abandoned' = abandoned \cup D,
         CellEvents'.removeDynamic = CellEvents.removeDynamic \cup R
  PROVE  Sub!Next
  <1>1. knownSets' = knownSets
    BY DEF knownSets, Known
  <1>2. Shows(told)' = Shows(told) /\ Shows(shown)' = Shows(shown)
    BY DEF Shows
  <1>3. \A p \in Players : Behind(p) /\ Behind(p)'
    BY DEF Behind
  <1>4. \A p \in Players : owedSets'[p] = owedSets[p] \cup (R \cap knownSets[p])
    BY <1>1, <1>3 DEF owedSets
  <1>5. owedSets' = [p \in Players |-> owedSets[p] \cup (R \cap knownSets[p])]
    BY <1>4 DEF owedSets
  <1>6. Sub!Change(N, R, D)
    BY <1>1, <1>2, <1>5 DEF Sub!Change, Sub!Born, Sub!Lose
  <1> QED
    BY <1>6 DEF Sub!Next

\* A virus or feed that is eaten, with the cells a virus pops out.
LEMMA EatDynamicImplements ==
  ASSUME SyncInv, NEW p \in Players, EatDynamic(p)
  PROVE  Sub!Next
  <1>1. PICK d \in DynamicMap, pop \in SUBSET fresh :
          /\ DynamicMap' = DynamicMap \ {d}
          /\ CellEvents' = [CellEvents EXCEPT !.removeDynamic = @ \cup {d}]
          /\ Cells' = [Cells EXCEPT ![p] = @ \cup pop]
          /\ fresh' = fresh \ pop
    BY DEF EatDynamic
  <1>2. /\ pc = "own" /\ UNCHANGED <<pc, todo, CellHistory, told, shown, abandoned>>
    BY DEF EatDynamic, sync
  <1>3. Cells \in [Players -> SUBSET Dynamic]
    BY DEF SyncInv, TypeOK
  <1>4. Live' = (Live \ {d}) \cup pop
    <2>1. \A x \in Players : Cells'[x] = Cells[x] \cup (IF x = p THEN pop ELSE {})
      BY <1>1, <1>3
    <2> QED
      BY <1>1, <1>3, <2>1 DEF SyncInv, OneOwner, Live, PlayerCells
  <1>5. CellEvents'.removeDynamic = CellEvents.removeDynamic \cup {d}
    BY <1>1 DEF SyncInv, TypeOK
  <1>6. {d} \in SUBSET Live /\ {} \in SUBSET Live
    BY DEF Live
  <1> QED
    BY <1>1, <1>2, <1>4, <1>5, <1>6, CollisionChanges

\* A merge, with the cells its stale index may erase.
LEMMA CollideSelfImplements ==
  ASSUME SyncInv, NEW p \in Players, CollideSelf(p)
  PROVE  Sub!Next
  <1>1. PICK eaten \in SUBSET Cells[p], lost \in SUBSET Cells[p] :
          /\ eaten \cap lost = {}
          /\ Cells' = [Cells EXCEPT ![p] = @ \ (eaten \cup lost)]
          /\ abandoned' = abandoned \cup lost
          /\ CellEvents' = [CellEvents EXCEPT !.removeDynamic = @ \cup eaten]
    BY DEF CollideSelf
  <1>2. /\ pc = "own"
        /\ UNCHANGED <<pc, todo, CellHistory, told, shown, DynamicMap, fresh>>
    BY DEF CollideSelf, sync
  <1>3. Cells \in [Players -> SUBSET Dynamic]
    BY DEF SyncInv, TypeOK
  <1>4. Live' = (Live \ (eaten \cup lost)) \cup {}
    <2>1. \A x \in Players : Cells'[x] = Cells[x] \ (IF x = p THEN eaten \cup lost ELSE {})
      BY <1>1, <1>3
    <2> QED
      BY <1>2, <1>3, <2>1 DEF SyncInv, OneOwner, Live, PlayerCells
  <1>5. CellEvents'.removeDynamic = CellEvents.removeDynamic \cup eaten
    BY <1>1 DEF SyncInv, TypeOK
  <1>6. eaten \in SUBSET Live /\ lost \in SUBSET Live /\ eaten \cap lost = {}
    BY <1>1, <1>3 DEF Live, PlayerCells
  <1>7. fresh' = fresh \ {} /\ {} \in SUBSET fresh
    BY <1>2
  <1> QED
    BY <1>1, <1>2, <1>4, <1>5, <1>6, <1>7, CollisionChanges

\* A cell that goes to another player.
LEMMA EatRivalImplements ==
  ASSUME SyncInv, NEW p \in Players, NEW q \in Players, EatRival(p, q)
  PROVE  Sub!Next
  <1>1. PICK c \in Cells[q] :
          /\ Cells' = [Cells EXCEPT ![q] = @ \ {c}]
          /\ CellEvents' = [CellEvents EXCEPT !.removeDynamic = @ \cup {c}]
    BY DEF EatRival
  <1>2. /\ pc = "rivals"
        /\ UNCHANGED <<pc, todo, CellHistory, told, shown, DynamicMap, fresh, abandoned>>
    BY DEF EatRival, sync
  <1>3. Cells \in [Players -> SUBSET Dynamic]
    BY DEF SyncInv, TypeOK
  <1>4. Live' = (Live \ ({c} \cup {})) \cup {}
    <2>1. \A x \in Players : Cells'[x] = Cells[x] \ (IF x = q THEN {c} ELSE {})
      BY <1>1, <1>3
    <2> QED
      BY <1>2, <1>3, <2>1 DEF SyncInv, OneOwner, Live, PlayerCells
  <1>5. CellEvents'.removeDynamic = CellEvents.removeDynamic \cup {c}
    BY <1>1 DEF SyncInv, TypeOK
  <1>6. {c} \in SUBSET Live /\ {} \in SUBSET Live
    BY <1>3 DEF Live, PlayerCells
  <1>7. /\ fresh' = fresh \ {} /\ {} \in SUBSET fresh
        /\ abandoned' = abandoned \cup {}
    BY <1>2
  <1> QED
    BY <1>2, <1>4, <1>5, <1>6, <1>7, CollisionChanges

\* Eating food, and going from one loop over the players to the next, change
\* nothing a subscription is about.
LEMMA InvisibleSteps ==
  ASSUME SyncInv,
         UNCHANGED vars \/ EndOwn \/ MovePlayers \/ \E p \in Players : EatStatic(p)
  PROVE  UNCHANGED Sub!vars
  <1>1. UNCHANGED <<Cells, DynamicMap, fresh, abandoned, CellHistory, told, shown>>
    BY DEF vars, world, sync, EndOwn, MovePlayers, EatStatic
  <1>2. /\ Live' = Live /\ knownSets' = knownSets
        /\ Shows(told)' = Shows(told) /\ Shows(shown)' = Shows(shown)
    BY <1>1 DEF Live, PlayerCells, knownSets, Known, Shows
  <1>3. CellEvents'.removeDynamic = CellEvents.removeDynamic
    BY DEF vars, world, EndOwn, MovePlayers, EatStatic, SyncInv, TypeOK
  <1>4. (pc' # "idle") = (pc # "idle")
    BY DEF vars, EndOwn, MovePlayers, EatStatic
  <1>5. owedSets' = owedSets
    <2>1. ASSUME NEW p \in Players, knownSets[p] # {}
          PROVE  Behind(p)' = Behind(p)
      <3>1. p \in active
        BY <2>1 DEF SyncInv, KnownCells, knownSets
      <3>2. CASE MovePlayers
        BY <3>1, <3>2 DEF MovePlayers, Behind
      <3>3. CASE ~MovePlayers
        BY <3>3 DEF vars, world, sync, EndOwn, EatStatic, Behind
      <3> QED
        BY <3>2, <3>3
    <2>2. \A p \in Players : owedSets'[p] = owedSets[p]
      BY <1>2, <1>3, <2>1 DEF owedSets
    <2> QED
      BY <2>2 DEF owedSets
  <1> QED
    BY <1>1, <1>2, <1>4, <1>5 DEF Sub!vars, Sub!things

\* An Update publishes: nothing that is owed stays in the history, the others
\* are not concerned, and what the client shows without being in the history it
\* showed already.
LEMMA UpdatePlayerImplements ==
  ASSUME SyncInv, SyncInv', NEW p \in Players, UpdatePlayer(p)
  PROVE  Sub!Next
  <1>1. PICK r \in [CellEvents.move \cup CellEvents.removeDynamic -> Radii],
             v \in NextViews(p) : Refresh(p, r, v)
    BY DEF UpdatePlayer
  <1>2. /\ pc = "update" /\ p \in todo /\ todo' = todo \ {p} /\ SplitAndFeed(p)
        /\ UNCHANGED <<pc, abandoned, CellEvents, shown, active>>
    BY DEF UpdatePlayer
  <1>3. p \in active /\ v \in View
    BY <1>2, NextViewsType DEF SyncInv, TypeOK
  <1> DEFINE K == knownSets'[p]
             N == fresh \ fresh'
             rest == Shows(told)'[p] \ K
             blind == K \ Shows(told)'[p]
  <1>4. /\ \A x \in Players : x # p => CellHistory'[x] = CellHistory[x]
        /\ \A c \in Dynamic : CellHistory'[p][c] > 0 <=>
             /\ c \notin CellEvents.removeDynamic
             /\ c \in Appeared(p, r) \/ (Known(p, c) /\ c \notin OutOfView(p))
        /\ \A c \in Dynamic : c \in Removed(p, r) <=>
             /\ c \in CellEvents.removeDynamic
             /\ c \in Appeared(p, r) \/ (Known(p, c) /\ c \notin OutOfView(p))
    BY <1>1, <1>2, <1>3, RefreshHistory
  <1>5. /\ \A x \in Players : x # p => told'[x] = told[x]
        /\ \A c \in Dynamic : told'[p][c] =
             IF c \in Removed(p, r) THEN Unknown
             ELSE IF c \in Appeared(p, r) \cup Drawn(told[p], Moved(p, r)) THEN Position[c]
             ELSE IF c \in OutOfView(p) THEN Unknown ELSE told[p][c]
    BY <1>1, <1>3, RefreshPicture, ReadPicture DEF SyncInv, TypeOK
  <1>6. /\ N \in SUBSET fresh /\ fresh' = fresh \ N /\ Live' = Live \cup N
    <2>1. PICK split \in SUBSET fresh : \E feed \in SUBSET (fresh \ split) :
            \E at \in [split \cup feed -> Places] : Construct(p, split, feed, at)
      BY <1>2, Zenon DEF SplitAndFeed
    <2>2. PICK feed \in SUBSET fresh :
            /\ Cells' = [Cells EXCEPT ![p] = @ \cup split]
            /\ DynamicMap' = DynamicMap \cup feed
            /\ fresh' = fresh \ (split \cup feed)
      BY <2>1 DEF Construct
    <2>3. \A x \in Players : Cells'[x] = Cells[x] \cup (IF x = p THEN split ELSE {})
      BY <2>2 DEF SyncInv, TypeOK
    <2> QED
      BY <2>2, <2>3 DEF Live, PlayerCells
  <1>7. K \subseteq (knownSets[p] \cup Live) \ owedSets[p]
    <2>1. \A c \in K : c \in Dynamic /\ c \notin CellEvents.removeDynamic
                       /\ (c \in Appeared(p, r) \/ Known(p, c))
      BY <1>4 DEF knownSets, Known
    <2>2. Appeared(p, r) \subseteq Live
      BY <1>2 DEF Appeared, SyncInv, MoveEvents
    <2> QED
      BY <2>1, <2>2 DEF knownSets, owedSets
  <1>8. K \in SUBSET Dynamic
    BY DEF knownSets
  <1>9. knownSets' = [knownSets EXCEPT ![p] = K]
    BY <1>4 DEF knownSets, Known
  <1>10. owedSets' = [owedSets EXCEPT ![p] = {}]
    <2>1. \A x \in Players : x # p => owedSets'[x] = owedSets[x]
      BY <1>2, <1>9 DEF owedSets, Behind, knownSets
    <2>2. owedSets'[p] = {}
      BY <1>2 DEF owedSets, Behind
    <2> QED
      BY <2>1, <2>2 DEF owedSets
  <1>11. blind \in SUBSET ((knownSets[p] \ Shows(told)[p]) \cap K)
    <2>1. ASSUME NEW c \in Dynamic, Known(p, c)', told'[p][c] = Unknown
          PROVE  Known(p, c) /\ told[p][c] = Unknown
      <3>1. /\ c \notin Removed(p, r)
            /\ c \in Appeared(p, r) \/ (Known(p, c) /\ c \notin OutOfView(p))
        BY <1>4, <2>1 DEF Known
      <3>2. Position[c] # Unknown
        BY ViewAssumption DEF SyncInv, TypeOK, Cell
      <3> QED
        BY <1>5, <2>1, <3>1, <3>2
    <2> QED
      BY <2>1 DEF Shows, knownSets
  <1>12. rest \in SUBSET (Shows(told)[p] \ knownSets[p])
    <2>1. ASSUME NEW c \in Dynamic, told'[p][c] # Unknown, ~Known(p, c)'
          PROVE  told[p][c] # Unknown /\ ~Known(p, c)
      <3>1. c \notin Removed(p, r)
        BY <1>5, <2>1
      <3>2. ~(c \in Appeared(p, r) \/ (Known(p, c) /\ c \notin OutOfView(p)))
        BY <1>4, <2>1, <3>1 DEF Known
      <3>3. c \in Drawn(told[p], Moved(p, r)) => Known(p, c) /\ c \notin OutOfView(p)
        BY DEF Drawn, Moved, Cleaned, Known
      <3>4. told'[p][c] = told[p][c] /\ c \notin OutOfView(p)
        BY <1>5, <2>1, <3>1, <3>2, <3>3
      <3> QED
        BY <2>1, <3>2, <3>4
    <2> QED
      BY <2>1 DEF Shows, knownSets
  <1>13. Shows(told)' = [Shows(told) EXCEPT ![p] = (K \ blind) \cup rest]
    <2>1. \A x \in Players : x # p => Shows(told)'[x] = Shows(told)[x]
      BY <1>5 DEF Shows
    <2>2. Shows(told)'[p] = (K \ blind) \cup rest
      OBVIOUS
    <2> HIDE DEF K, rest, blind
    <2> QED
      BY <2>1, <2>2 DEF Shows
  <1>14. Shows(shown)' = Shows(shown)
    BY <1>2 DEF Shows
  <1>15. Sub!Publish(p, K, N)
    <2> HIDE DEF K, N, rest, blind
    <2> QED
      BY <1>2, <1>6, <1>7, <1>9, <1>10, <1>11, <1>12, <1>13, <1>14 DEF Sub!Publish, Sub!Born
  <1> QED
    BY <1>6, <1>8, <1>15 DEF Sub!Next

\* The tick is over when nobody is owed anything.
LEMMA ParseEventsImplements ==
  ASSUME SyncInv, ParseEvents
  PROVE  Sub!Next
  <1>1. /\ pc = "update" /\ todo = {} /\ pc' = "idle"
        /\ UNCHANGED <<todo, fresh, Cells, abandoned, CellEvents, CellHistory, told, shown>>
    BY DEF ParseEvents, sync
  <1>2. DynamicMap' = DynamicMap
    BY DEF ParseEvents, SyncInv, EatenCells, Live
  <1>3. /\ Live' = Live /\ knownSets' = knownSets
        /\ Shows(told)' = Shows(told) /\ Shows(shown)' = Shows(shown)
    BY <1>1, <1>2 DEF Live, PlayerCells, knownSets, Known, Shows
  <1>4. owedSets = [p \in Players |-> {}] /\ owedSets' = owedSets
    BY <1>1 DEF owedSets, Behind
  <1>5. Sub!Close
    BY <1>1, <1>3, <1>4 DEF Sub!Close, Sub!things, Sub!Nothing
  <1> QED
    BY <1>5 DEF Sub!Next

-----------------------------------------------------------------------------
\* The loop, the views, the events and the histories keep every promise of the
\* subscription, for any number of clients, cells and blocks.
THEOREM Implements == Spec => ImplementsSubscription
  <1>1. Init => Sub!Init
    BY InitImplements
  <1>2. SyncInv /\ SyncInv' /\ [Next]_vars => [Sub!Next]_(Sub!vars)
    BY WriteableKnownImplements, WriteableNewImplements, PeerInitiatedCloseImplements,
       EstablishedImplements, BeginTickImplements, EatDynamicImplements, CollideSelfImplements,
       EatRivalImplements, InvisibleSteps, UpdatePlayerImplements, ParseEventsImplements
    DEF Next
  <1> QED
    BY <1>1, <1>2, SyncInvariant, PTL DEF Spec, ImplementsSubscription, Sub!Spec
=============================================================================
