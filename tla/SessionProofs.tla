--------------------------- MODULE SessionProofs ---------------------------
(***************************************************************************)
(* One Player for each connection, commands that somebody has sent, and    *)
(* flow control and buffers that follow the connection through the vector, *)
(* for any number of connections and whatever the sizes and times are.     *)
(*                                                                         *)
(* SessionInv is inductive.  What becomes of a buffer is known by its      *)
(* connection before and after the step, so BuffersKept needs              *)
(* UniquePlayers and exactly who is left after each callback.  PacedSends  *)
(* follows from it and from AckHeard: that an acknowledgement in the       *)
(* Player is one of its connection.  Nothing bounds what an Update         *)
(* appends; OverrunsAreSudden is what the check once a tick is worth.      *)
(***************************************************************************)
EXTENDS Session, ListFacts

\* The types, taken apart.
LEMMA PlayerTypes ==
  ASSUME SessionInv
  PROVE  /\ Players \in Seq(Player) /\ Len(Players) \in Nat
         /\ DOMAIN Players = 1 .. Len(Players)
         /\ \A k \in 1 .. Len(Players) :
              /\ Players[k] \in Player /\ Players[k].wsi \in Wsi
              /\ Players[k].do \subseteq Commands /\ Players[k].ack \in BOOLEAN
              /\ Players[k].fill \in Nat /\ Players[k].age \in Age
         /\ \A j, k \in 1 .. Len(Players) : Players[j].wsi = Players[k].wsi => j = k
  <1>1. Players \in Seq(Player)
    BY DEF SessionInv, TypeOK
  <1>2. /\ Len(Players) \in Nat /\ DOMAIN Players = 1 .. Len(Players)
        /\ \A k \in 1 .. Len(Players) : Players[k] \in Player
    BY <1>1, LenProperties, ElementOfSeq
  <1>3. \A p \in Player : /\ p.wsi \in Wsi /\ p.do \subseteq Commands /\ p.ack \in BOOLEAN
                          /\ p.fill \in Nat /\ p.age \in Age
    BY DEF Player
  <1> QED
    BY <1>1, <1>2, <1>3 DEF SessionInv, UniquePlayers

\* A step that leaves every Player in its place, and its connection with it.
LEMMA SamePlaces ==
  ASSUME SessionInv, NEW ps \in [1 .. Len(Players) -> Player], Players' = ps,
         \A k \in 1 .. Len(Players) : ps[k].wsi = Players[k].wsi
  PROVE  Players' \in Seq(Player) /\ DOMAIN Players' = 1 .. Len(Players) /\ UniquePlayers'
  <1>1. ps \in Seq(Player) /\ DOMAIN ps = 1 .. Len(Players)
    BY PlayerTypes, FunctionIsSeq
  <1> QED
    BY <1>1, PlayerTypes DEF UniquePlayers

LEMMA InitSession ==
  ASSUME Init
  PROVE  SessionInv
  <1>1. Players \in Seq(Player) /\ DOMAIN Players = {}
    BY EmptySeq DEF Init
  <1>2. TypeOK
    BY <1>1 DEF Init, TypeOK
  <1> QED
    BY <1>1, <1>2 DEF SessionInv, UniquePlayers, CommandsPressed, AckHeard

LEMMA NobodyMoves ==
  ASSUME SessionInv, NEW w \in Wsi, Established(w) \/ Closed(w)
  PROVE  SessionInv'
  <1>1. UNCHANGED <<Players, uptime, heard, pressed>>
    BY DEF Established, Closed
  <1>2. open' \subseteq Wsi /\ writable' \subseteq open'
    BY DEF Established, Closed, SessionInv, TypeOK
  <1>3. TypeOK'
    BY <1>1, <1>2 DEF SessionInv, TypeOK
  <1>4. UniquePlayers' /\ CommandsPressed' /\ AckHeard'
    BY <1>1 DEF SessionInv, UniquePlayers, CommandsPressed, AckHeard
  <1> QED
    BY <1>3, <1>4 DEF SessionInv

\* What every message does to the Player of its sender.
LEMMA ReceiveSession ==
  ASSUME SessionInv, NEW w \in Wsi, NEW m \in Message, Receive(w, m)
  PROVE  SessionInv'
  <1> DEFINE n == Len(Players)
             ps == [k \in 1 .. n |->
                     IF Players[k].wsi # w THEN Players[k]
                     ELSE [Players[k] EXCEPT !.ack = TRUE, !.do = @ \cup ({m} \cap Commands)]]
  <1>1. Players' = ps
    BY PlayerTypes DEF Receive
  <1>2. ASSUME NEW k \in 1 .. n
        PROVE  /\ ps[k] \in Player /\ ps[k].wsi = Players[k].wsi
               /\ ps[k].ack => Players[k].ack \/ Players[k].wsi = w
               /\ \A c \in ps[k].do : c \in Players[k].do \/ c \in {m} \cap Commands
    <2> DEFINE d == Players[k].do \cup ({m} \cap Commands)
               p == [Players[k] EXCEPT !.ack = TRUE, !.do = d]
    <2>1. d \subseteq Commands /\ Players[k] \in Player
      BY PlayerTypes
    <2>2. ps[k] = IF Players[k].wsi # w THEN Players[k] ELSE p
      OBVIOUS
    <2> HIDE DEF d, ps
    <2>3. p \in Player /\ p.wsi = Players[k].wsi /\ p.do = d
      BY <2>1 DEF Player
    <2> HIDE DEF p
    <2> QED
      BY <2>1, <2>2, <2>3 DEF d
  <1>3. ps \in [1 .. n -> Player]
    BY <1>2
  <1> HIDE DEF ps
  <1>4. Players' \in Seq(Player) /\ DOMAIN Players' = 1 .. n /\ UniquePlayers'
    BY <1>1, <1>2, <1>3, SamePlaces
  <1>5. /\ heard' = heard \cup {w} /\ UNCHANGED <<open, uptime>>
        /\ writable' = writable \cup {w} /\ w \in open
        /\ pressed' = pressed \cup {<<w, c>> : c \in {m} \cap Commands}
    BY DEF Receive
  <1>6. TypeOK'
    <2>1. pressed' \subseteq Wsi \X Commands
      BY <1>5 DEF SessionInv, TypeOK
    <2> QED
      BY <1>4, <1>5, <2>1 DEF SessionInv, TypeOK
  <1>7. CommandsPressed'
    <2>1. ASSUME NEW k \in 1 .. n, NEW c \in ps[k].do
          PROVE  \E v \in Wsi : <<v, c>> \in pressed'
      <3>1. CASE c \in Players[k].do
        <4>1. \E v \in Wsi : <<v, c>> \in pressed
          BY <3>1, PlayerTypes DEF SessionInv, CommandsPressed
        <4> QED
          BY <1>5, <4>1
      <3>2. CASE c \in {m} \cap Commands
        BY <1>5, <3>2
      <3> QED
        BY <1>2, <3>1, <3>2
    <2> QED
      BY <1>1, <1>4, <2>1 DEF CommandsPressed
  <1>8. AckHeard'
    BY <1>1, <1>2, <1>4, <1>5, PlayerTypes DEF SessionInv, AckHeard
  <1> QED
    BY <1>4, <1>6, <1>7, <1>8 DEF SessionInv

\* What the clock does to the age of the packets.
LEMMA AdvanceSession ==
  ASSUME SessionInv, Advance
  PROVE  SessionInv' /\ \A k \in 1 .. Len(Players) : Players'[k].fill = Players[k].fill
                                       /\ Players'[k].wsi = Players[k].wsi
  <1> DEFINE n == Len(Players)
             ps == [k \in 1 .. n |-> [Players[k] EXCEPT !.age = Older(@)]]
  <1>1. Players' = ps /\ uptime' = Older(uptime) /\ UNCHANGED <<open, writable, heard, pressed>>
    BY PlayerTypes DEF Advance
  <1>2. \A a \in Age : Older(a) \in Age
    BY SessionAssumption DEF Age, Older
  <1>3. ASSUME NEW k \in 1 .. n
        PROVE  /\ ps[k] \in Player /\ ps[k].wsi = Players[k].wsi /\ ps[k].ack = Players[k].ack
               /\ ps[k].do = Players[k].do /\ ps[k].fill = Players[k].fill
    <2> DEFINE a == Older(Players[k].age)
    <2>1. a \in Age /\ Players[k] \in Player
      BY <1>2, PlayerTypes
    <2>2. ps[k] = [Players[k] EXCEPT !.age = a]
      OBVIOUS
    <2> HIDE DEF a, ps
    <2> QED
      BY <2>1, <2>2 DEF Player
  <1>4. ps \in [1 .. n -> Player]
    BY <1>3
  <1> HIDE DEF ps
  <1>5. Players' \in Seq(Player) /\ DOMAIN Players' = 1 .. n /\ UniquePlayers'
    BY <1>1, <1>3, <1>4, SamePlaces
  <1>6. TypeOK'
    BY <1>1, <1>2, <1>5 DEF SessionInv, TypeOK
  <1>7. CommandsPressed'
    BY <1>1, <1>3, <1>5, PlayerTypes DEF SessionInv, CommandsPressed
  <1>8. AckHeard'
    BY <1>1, <1>3, <1>5, PlayerTypes DEF SessionInv, AckHeard
  <1> QED
    BY <1>1, <1>3, <1>5, <1>6, <1>7, <1>8 DEF SessionInv

-----------------------------------------------------------------------------
(* The writable callback                                                   *)

\* What it leaves of the vector: whoever was sent was due; a new Player comes only
\* to the end, and only for a connection that had none.
SentTo(w, S) ==
  /\ \A k \in S : Due(Players[k])
  /\ heard' = heard \ {Players[k].wsi : k \in S}
  /\ \A k \in 1 .. Len(Players) :
       /\ Players'[k].wsi = Players[k].wsi
       /\ Players'[k].do \subseteq Players[k].do
       /\ Players'[k].ack => Players[k].ack /\ k \notin S
       /\ k \notin S => Players'[k].fill = Players[k].fill
       /\ k \in S => Players'[k].fill = 0
  /\ Players' \in Seq(Player)
  /\ \/ Len(Players') = Len(Players)
     \/ /\ Len(Players') = Len(Players) + 1
        /\ \A k \in 1 .. Len(Players) : Players[k].wsi # w
        /\ Players'[Len(Players) + 1] = NewPlayer(w)

LEMMA WriteableShape ==
  ASSUME SessionInv, NEW w \in Wsi, Writeable(w)
  PROVE  \E S \in SUBSET (1 .. Len(Players)) : SentTo(w, S)
  <1> DEFINE n == Len(Players)
  <1>1. PICK S \in SUBSET {k \in DOMAIN Players : Due(Players[k])} : \E grown \in BOOLEAN :
       LET all  == [k \in DOMAIN Players |-> IF k \in S THEN Sent(Players[k]) ELSE Players[k]]
           kept == [k \in DOMAIN all |-> [all[k] EXCEPT !.do = IF grown THEN {} ELSE @]]
           to   == {Players[k].wsi : k \in S}
       IN  /\ Players' = IF Found(w) THEN all ELSE Append(kept, NewPlayer(w))
           /\ heard' = heard \ to
    BY DEF Writeable
  <1>2. PICK grown \in BOOLEAN :
       LET all  == [k \in DOMAIN Players |-> IF k \in S THEN Sent(Players[k]) ELSE Players[k]]
           kept == [k \in DOMAIN all |-> [all[k] EXCEPT !.do = IF grown THEN {} ELSE @]]
           to   == {Players[k].wsi : k \in S}
       IN  /\ Players' = IF Found(w) THEN all ELSE Append(kept, NewPlayer(w))
           /\ heard' = heard \ to
    BY <1>1
  <1> DEFINE all  == [k \in 1 .. n |-> IF k \in S THEN Sent(Players[k]) ELSE Players[k]]
             kept == [k \in 1 .. n |-> [all[k] EXCEPT !.do = IF grown THEN {} ELSE @]]
  <1>3. /\ Players' = IF Found(w) THEN all ELSE Append(kept, NewPlayer(w))
        /\ heard' = heard \ {Players[k].wsi : k \in S}
        /\ S \in SUBSET (1 .. n) /\ \A k \in S : Due(Players[k])
    <2>1. DOMAIN Players = 1 .. n
      BY PlayerTypes
    <2> QED
      BY <1>2, <2>1
  <1>4. ASSUME NEW k \in 1 .. n
        PROVE  /\ all[k] \in Player /\ all[k].wsi = Players[k].wsi /\ all[k].do = Players[k].do
               /\ all[k].ack => Players[k].ack /\ k \notin S
               /\ k \notin S => all[k].fill = Players[k].fill
               /\ k \in S => all[k].fill = 0
    <2>1. Players[k] \in Player
      BY PlayerTypes
    <2>2. 0 \in Nat /\ 0 \in Age
      BY SessionAssumption DEF Age
    <2>3. CASE k \in S
      <3>1. all[k] = [Players[k] EXCEPT !.fill = 0, !.age = 0, !.ack = FALSE]
        BY <2>3 DEF Sent
      <3> HIDE DEF all
      <3> QED
        BY <2>1, <2>2, <2>3, <3>1 DEF Player
    <2>4. CASE k \notin S
      BY <2>1, <2>4
    <2> QED
      BY <2>3, <2>4
  <1> HIDE DEF all
  <1>5. ASSUME NEW k \in 1 .. n
        PROVE  /\ kept[k] \in Player /\ kept[k].wsi = Players[k].wsi
               /\ kept[k].do \subseteq Players[k].do
               /\ kept[k].ack => Players[k].ack /\ k \notin S
               /\ k \notin S => kept[k].fill = Players[k].fill
               /\ k \in S => kept[k].fill = 0
    <2> DEFINE d == IF grown THEN {} ELSE all[k].do
    <2>1. kept[k] = [all[k] EXCEPT !.do = d]
      OBVIOUS
    <2>2. d \subseteq Players[k].do /\ d \subseteq Commands
      BY <1>4, PlayerTypes
    <2> HIDE DEF d, kept
    <2>3. /\ kept[k] \in Player /\ kept[k].wsi = all[k].wsi /\ kept[k].do = d
          /\ kept[k].ack = all[k].ack /\ kept[k].fill = all[k].fill
      BY <1>4, <2>1, <2>2 DEF Player
    <2> QED
      BY <1>4, <2>2, <2>3
  <1>6. all \in Seq(Player) /\ Len(all) = n /\ kept \in Seq(Player) /\ Len(kept) = n
    <2>1. all \in [1 .. n -> Player]
      <3>1. all = [k \in 1 .. n |-> all[k]]
        BY DEF all
      <3> QED
        BY <1>4, <3>1
    <2>2. kept \in [1 .. n -> Player]
      BY <1>5
    <2> HIDE DEF kept
    <2> QED
      BY <2>1, <2>2, PlayerTypes, FunctionIsSeq
  <1> HIDE DEF kept
  <1>7. CASE Found(w)
    <2>1. Players' = all
      BY <1>3, <1>7
    <2>2. SentTo(w, S)
      BY <1>3, <1>4, <1>6, <2>1 DEF SentTo
    <2> QED
      BY <1>3, <2>2
  <1>8. CASE ~Found(w)
    <2> DEFINE new == NewPlayer(w)
    <2>1. Players' = Append(kept, new)
      BY <1>3, <1>8
    <2>2. new \in Player
      <3>1. uptime \in Age /\ 0 \in Nat
        BY SessionAssumption DEF SessionInv, TypeOK
      <3> QED
        BY <3>1 DEF NewPlayer, Player
    <2> HIDE DEF new
    <2>3. /\ Players' \in Seq(Player) /\ Len(Players') = n + 1 /\ Players'[n + 1] = new
          /\ \A k \in 1 .. n : Players'[k] = kept[k]
      BY <1>6, <2>1, <2>2, AppendProperties
    <2>4. \A k \in 1 .. n : Players[k].wsi # w
      BY <1>8, PlayerTypes DEF Found
    <2>5. /\ Players' \in Seq(Player) /\ Len(Players') = Len(Players) + 1
          /\ Players'[Len(Players) + 1] = NewPlayer(w)
      BY <2>3 DEF new
    <2>6. SentTo(w, S)
      BY <1>3, <1>5, <2>3, <2>4, <2>5 DEF SentTo
    <2> QED
      BY <1>3, <2>6
  <1> QED
    BY <1>7, <1>8

LEMMA WriteableSession ==
  ASSUME SessionInv, NEW w \in Wsi, Writeable(w)
  PROVE  SessionInv'
  <1> DEFINE n == Len(Players)
  <1>0. PICK S \in SUBSET (1 .. n) : SentTo(w, S)
    BY WriteableShape
  <1>1. /\ heard' = heard \ {Players[k].wsi : k \in S}
        /\ \A k \in 1 .. n :
             /\ Players'[k].wsi = Players[k].wsi
             /\ Players'[k].do \subseteq Players[k].do
             /\ Players'[k].ack => Players[k].ack /\ k \notin S
        /\ Players' \in Seq(Player)
        /\ \/ Len(Players') = n
           \/ /\ Len(Players') = n + 1
              /\ \A k \in 1 .. n : Players[k].wsi # w
              /\ Players'[n + 1] = NewPlayer(w)
    BY <1>0 DEF SentTo
  <1>2. n \in Nat /\ DOMAIN Players' = 1 .. Len(Players')
    BY <1>1, PlayerTypes, LenProperties
  <1>3. /\ \A k \in DOMAIN Players' : k \in 1 .. n \/ k = n + 1
        /\ \A k \in DOMAIN Players' : k \notin 1 .. n =>
             /\ Players'[k].wsi = w /\ Players'[k].do = {} /\ ~Players'[k].ack
             /\ \A j \in 1 .. n : Players'[j].wsi # w
    <2> DEFINE l == Len(Players')
    <2>1. DOMAIN Players' = 1 .. l /\ (l = n \/ l = n + 1)
      BY <1>1, <1>2
    <2>2. l # n => /\ Players'[n + 1] = NewPlayer(w)
                   /\ \A j \in 1 .. n : Players'[j].wsi # w
      BY <1>1
    <2> HIDE DEF l, n
    <2>3. \A k \in 1 .. l : k \in 1 .. n \/ (k = n + 1 /\ l # n)
      BY <1>2, <2>1
    <2> QED
      BY <2>1, <2>2, <2>3 DEF NewPlayer
  <1>4. UNCHANGED <<open, uptime, pressed>> /\ writable' = writable \ {w}
    BY DEF Writeable
  <1>5. TypeOK'
    BY <1>1, <1>4 DEF SessionInv, TypeOK
  <1>6. UniquePlayers'
    <2>1. ASSUME NEW j \in DOMAIN Players', NEW k \in DOMAIN Players',
                 Players'[j].wsi = Players'[k].wsi
          PROVE  j = k
      <3>1. CASE j \in 1 .. n /\ k \in 1 .. n
        BY <1>1, <2>1, <3>1, PlayerTypes
      <3>2. CASE j \notin 1 .. n \/ k \notin 1 .. n
        BY <1>3, <2>1, <3>2
      <3> QED
        BY <3>1, <3>2
    <2> QED
      BY <2>1 DEF UniquePlayers
  <1>7. CommandsPressed'
    <2>1. ASSUME NEW k \in DOMAIN Players', NEW c \in Players'[k].do
          PROVE  \E v \in Wsi : <<v, c>> \in pressed
      <3>1. k \in 1 .. n /\ c \in Players[k].do
        BY <1>1, <1>3
      <3> QED
        BY <3>1, PlayerTypes DEF SessionInv, CommandsPressed
    <2> QED
      BY <1>4, <2>1 DEF CommandsPressed
  <1>8. AckHeard'
    <2>1. ASSUME NEW k \in DOMAIN Players', Players'[k].ack
          PROVE  Players'[k].wsi \in heard'
      <3>1. k \in 1 .. n /\ Players[k].ack /\ k \notin S /\ Players'[k].wsi = Players[k].wsi
        BY <1>1, <1>3, <2>1
      <3>2. Players[k].wsi \in heard
        BY <3>1, PlayerTypes DEF SessionInv, AckHeard
      <3>3. \A j \in S : Players[j].wsi # Players[k].wsi
        BY <3>1, PlayerTypes
      <3> QED
        BY <1>1, <3>1, <3>2, <3>3
    <2> QED
      BY <2>1 DEF AckHeard
  <1> QED
    BY <1>5, <1>6, <1>7, <1>8 DEF SessionInv

-----------------------------------------------------------------------------
(* Erasing                                                                 *)

\* Every later Player moves one place down, and its connection, its buffer and its
\* acknowledgement with it; the commands stay.
ErasedAt(e) ==
  /\ Players' \in Seq(Player) /\ Len(Players') = Len(Players) - 1
  /\ \A j \in 1 .. Len(Players) - 1 :
       /\ Players'[j].do = Players[j].do
       /\ LET i == IF j < e THEN j ELSE j + 1
          IN  /\ Players'[j].wsi = Players[i].wsi /\ Players'[j].ack = Players[i].ack
              /\ Players'[j].fill = Players[i].fill

LEMMA CloseShape ==
  ASSUME SessionInv, NEW w \in Wsi, PeerInitiatedClose(w), ~UNCHANGED Players
  PROVE  \E e \in 1 .. Len(Players) : Players[e].wsi = w /\ ErasedAt(e)
  <1> DEFINE n == Len(Players)
  <1>1. PICK e \in DOMAIN Players :
          Players[e].wsi = w /\ Players' = MovedDown(RemoveAt(Players, e))
    BY DEF PeerInitiatedClose, FirstOf
  <1> DEFINE rest == RemoveAt(Players, e)
             ps == [j \in 1 .. n - 1 |-> [rest[j] EXCEPT !.do = Players[j].do]]
  <1>2. /\ n \in Nat /\ n - 1 \in Nat /\ e \in 1 .. n
        /\ rest \in Seq(Player) /\ Len(rest) = n - 1
        /\ \A j \in 1 .. n - 1 : rest[j] = IF j < e THEN Players[j] ELSE Players[j + 1]
    <2>1. n \in Nat /\ e \in 1 .. n /\ Players \in Seq(Player)
      BY PlayerTypes
    <2>2. n - 1 \in Nat
      BY <2>1
    <2> QED
      BY <2>1, <2>2, RemoveAtFacts
  <1> HIDE DEF rest
  <1>3. Players' = ps
    <2>1. DOMAIN rest = 1 .. n - 1
      BY <1>2, LenProperties
    <2>2. Players' = MovedDown(rest)
      BY <1>1 DEF rest
    <2> QED
      BY <2>1, <2>2 DEF MovedDown
  <1>4. ASSUME NEW j \in 1 .. n - 1
        PROVE  /\ ps[j] \in Player /\ ps[j].do = Players[j].do
               /\ ps[j].wsi = rest[j].wsi /\ ps[j].ack = rest[j].ack /\ ps[j].fill = rest[j].fill
    <2> DEFINE d == Players[j].do
    <2>1. j \in 1 .. n
      BY <1>2
    <2>2. d \subseteq Commands
      BY <2>1, PlayerTypes
    <2>3. rest[j] \in Player
      BY <1>2, ElementOfSeq
    <2>4. ps[j] = [rest[j] EXCEPT !.do = d]
      OBVIOUS
    <2> HIDE DEF d, ps
    <2>5. /\ ps[j] \in Player /\ ps[j].do = d
          /\ ps[j].wsi = rest[j].wsi /\ ps[j].ack = rest[j].ack /\ ps[j].fill = rest[j].fill
      BY <2>2, <2>3, <2>4 DEF Player
    <2> QED
      BY <2>5 DEF d
  <1>5. ps \in Seq(Player) /\ Len(ps) = n - 1
    <2>1. ps \in [1 .. n - 1 -> Player]
      BY <1>4
    <2> HIDE DEF ps
    <2> QED
      BY <1>2, <2>1, FunctionIsSeq
  <1> HIDE DEF ps
  <1>6. ErasedAt(e)
    BY <1>2, <1>3, <1>4, <1>5 DEF ErasedAt
  <1> QED
    BY <1>1, <1>2, <1>6

LEMMA CloseSession ==
  ASSUME SessionInv, NEW w \in Wsi, PeerInitiatedClose(w)
  PROVE  SessionInv'
  <1> DEFINE n == Len(Players)
  <1>1. /\ UNCHANGED <<uptime, heard, pressed>>
        /\ open' \subseteq Wsi /\ writable' \subseteq open'
    BY DEF PeerInitiatedClose, SessionInv, TypeOK
  <1>2. CASE UNCHANGED Players
    <2>1. TypeOK'
      BY <1>1, <1>2 DEF SessionInv, TypeOK
    <2> QED
      BY <1>1, <1>2, <2>1 DEF SessionInv, UniquePlayers, CommandsPressed, AckHeard
  <1>3. CASE ~UNCHANGED Players
    <2>0. PICK e \in 1 .. n : ErasedAt(e)
      BY <1>3, CloseShape
    <2>1. /\ Players' \in Seq(Player) /\ Len(Players') = n - 1
          /\ \A j \in 1 .. n - 1 :
               /\ Players'[j].do = Players[j].do
               /\ LET i == IF j < e THEN j ELSE j + 1
                  IN  Players'[j].wsi = Players[i].wsi /\ Players'[j].ack = Players[i].ack
      BY <2>0 DEF ErasedAt
    <2> DEFINE old(j) == IF j < e THEN j ELSE j + 1
    <2>2. n \in Nat /\ DOMAIN Players' = 1 .. n - 1
      BY <2>1, PlayerTypes, LenProperties
    <2>3. ASSUME NEW j \in 1 .. n - 1
          PROVE  /\ old(j) \in 1 .. n /\ j \in 1 .. n
                 /\ Players'[j].wsi = Players[old(j)].wsi /\ Players'[j].ack = Players[old(j)].ack
                 /\ Players'[j].do = Players[j].do
      BY <2>1, <2>2
    <2>4. ASSUME NEW j \in 1 .. n - 1, NEW k \in 1 .. n - 1, old(j) = old(k)
          PROVE  j = k
      BY <2>2, <2>4
    <2> HIDE DEF old
    <2>5. TypeOK'
      BY <1>1, <2>1 DEF SessionInv, TypeOK
    <2>6. UniquePlayers'
      <3>1. ASSUME NEW j \in 1 .. n - 1, NEW k \in 1 .. n - 1, Players'[j].wsi = Players'[k].wsi
            PROVE  j = k
        <4>1. Players[old(j)].wsi = Players[old(k)].wsi
          BY <2>3, <3>1
        <4>2. old(j) = old(k)
          BY <2>3, <4>1, PlayerTypes
        <4> QED
          BY <2>4, <4>2
      <3> QED
        BY <2>2, <3>1 DEF UniquePlayers
    <2>7. CommandsPressed'
      BY <1>1, <2>2, <2>3, PlayerTypes DEF SessionInv, CommandsPressed
    <2>8. AckHeard'
      BY <1>1, <2>2, <2>3, PlayerTypes DEF SessionInv, AckHeard
    <2> QED
      BY <2>5, <2>6, <2>7, <2>8 DEF SessionInv
  <1> QED
    BY <1>2, <1>3

\* What a tick does to the buffer of a Player that it keeps.
Grown(p, q) ==
  Connected(p) /\ IF Overrun(p) THEN q.fill = p.fill ELSE q.fill > p.fill

\* A tick keeps the Players with room in their buffers, in their order, carries
\* their commands out and appends to their buffers.
TickKept(c, o) ==
  /\ \A j, k \in 1 .. c : o[j] = o[k] => j = k
  /\ \A k \in 1 .. Len(Players) : Connected(Players[k]) => \E j \in 1 .. c : o[j] = k
  /\ Players' \in Seq(Player) /\ Len(Players') = c
  /\ \A j \in 1 .. c :
       /\ Players'[j].wsi = Players[o[j]].wsi /\ Players'[j].ack = Players[o[j]].ack
       /\ Players'[j].do = {} /\ Grown(Players[o[j]], Players'[j])

LEMMA TickShape ==
  ASSUME SessionInv, Tick
  PROVE  \E c \in Nat : \E o \in [1 .. c -> 1 .. Len(Players)] : TickKept(c, o)
  <1> DEFINE n == Len(Players)
             T == {k \in DOMAIN Players : Connected(Players[k])}
             c == Cardinality(T)
  <1>1. n \in Nat /\ T \in SUBSET (1 .. n)
    BY PlayerTypes
  <1>0. PICK o \in Ascending(T) :
          LET left == MovedDown([k \in DOMAIN o |-> Players[o[k]]])
          IN  \E a \in [DOMAIN left -> Appended] :
                Players' = [k \in DOMAIN left |-> Updated(left[k], a[k])]
    BY DEF Tick
  <1>2. c \in Nat /\ o \in [1 .. c -> T] /\ \A j, k \in 1 .. c : j < k => o[j] < o[k]
    <2> HIDE DEF T, n
    <2>1. o \in [1 .. c -> T] /\ \A j, k \in DOMAIN o : j < k => o[j] < o[k]
      BY DEF Ascending
    <2>2. c \in Nat
      BY <1>1, Listing
    <2> QED
      BY <2>1, <2>2
  <1> DEFINE left == MovedDown([k \in DOMAIN o |-> Players[o[k]]])
  <1>3. PICK a \in [DOMAIN left -> Appended] :
          Players' = [k \in DOMAIN left |-> Updated(left[k], a[k])]
    BY <1>0
  <1>4. \A k \in 1 .. n : k \in T <=> Connected(Players[k])
    BY PlayerTypes
  <1>12. \A k \in T : \E j \in 1 .. c : o[j] = k
    <2> DEFINE I == 1 .. c
    <2>1. IsFiniteSet(T) /\ Cardinality(I) = Cardinality(T)
      <3> HIDE DEF T
      <3>1. IsFiniteSet(T)
        BY <1>1, Listing
      <3>2. Cardinality(1 .. c) = c
        <4> HIDE DEF c
        <4> QED
          BY <1>2, FS_Interval
      <3> QED
        BY <3>1, <3>2
    <2>2. o \in Injection(I, T)
      <3> HIDE DEF T, c
      <3>1. ASSUME NEW j \in 1 .. c, NEW k \in 1 .. c, o[j] = o[k]
            PROVE  j = k
        <4>1. o[j] \in 1 .. n /\ o[k] \in 1 .. n
          BY <1>1, <1>2
        <4>2. ~(o[j] < o[k]) /\ ~(o[k] < o[j])
          BY <3>1, <4>1
        <4> QED
          BY <1>2, <4>2
      <3>2. DOMAIN o = 1 .. c
        BY <1>2
      <3> QED
        BY <1>2, <3>1, <3>2 DEF Injection, IsInjective
    <2> HIDE DEF I, T
    <2>3. o \in Surjection(I, T)
      BY <2>1, <2>2, FS_Injection
    <2> QED
      BY <2>3 DEF Surjection, I
  <1> HIDE DEF T, c
  <1>5. DOMAIN left = 1 .. c /\ \A k \in 1 .. c : left[k] = [Players[o[k]] EXCEPT !.do = Players[k].do]
    <2>1. DOMAIN o = 1 .. c
      BY <1>2
    <2> QED
      BY <2>1 DEF MovedDown
  <1> HIDE DEF left
  <1> DEFINE ps == [k \in 1 .. c |-> Updated(left[k], a[k])]
  <1>6. Players' = ps
    BY <1>3, <1>5
  <1>7. ASSUME NEW k \in 1 .. c
        PROVE  /\ ps[k] \in Player /\ ps[k].wsi = Players[o[k]].wsi
               /\ ps[k].ack = Players[o[k]].ack /\ ps[k].do = {}
               /\ Grown(Players[o[k]], ps[k])
    <2> DEFINE q == Players[o[k]]
               f == Filled(q, a[k])
    <2>1. q \in Player /\ q.fill \in Nat /\ Connected(q) /\ a[k] \in Nat \ {0}
      BY <1>1, <1>2, <1>3, <1>4, <1>5, PlayerTypes, SessionAssumption
    <2>2. f \in Nat /\ (IF Overrun(q) THEN f = q.fill ELSE f > q.fill)
      BY <2>1 DEF Filled
    <2> DEFINE m == [q EXCEPT !.do = Players[k].do]
    <2>3. left[k] = m /\ ps[k] = [m EXCEPT !.do = {}, !.fill = Filled(m, a[k])]
      BY <1>5 DEF Updated
    <2> HIDE DEF q, ps
    <2>4. DOMAIN m = DOMAIN q /\ m.wsi = q.wsi /\ m.ack = q.ack /\ m.fill = q.fill /\ m.age = q.age
      BY <2>1 DEF Player
    <2>5. Filled(m, a[k]) = f
      BY <2>4 DEF Filled, Overrun, SpaceLeft
    <2> HIDE DEF f
    <2>6. ps[k] = [wsi |-> q.wsi, do |-> {}, ack |-> q.ack, fill |-> f, age |-> q.age]
      <3>1. DOMAIN m = {"wsi", "do", "ack", "fill", "age"}
        BY <2>1, <2>4 DEF Player
      <3> HIDE DEF m
      <3> QED
        BY <2>3, <2>4, <2>5, <3>1
    <2> QED
      BY <2>1, <2>2, <2>6 DEF Player, Grown, q
  <1>8. ps \in Seq(Player) /\ Len(ps) = c
    <2>1. ps \in [1 .. c -> Player]
      BY <1>7
    <2> HIDE DEF ps
    <2> QED
      BY <1>2, <2>1, FunctionIsSeq
  <1> HIDE DEF ps
  <1>9. \A j, k \in 1 .. c : o[j] = o[k] => j = k
    <2>1. ASSUME NEW j \in 1 .. c, NEW k \in 1 .. c, o[j] = o[k]
          PROVE  j = k
      <3>1. o[j] \in 1 .. n /\ o[k] \in 1 .. n
        BY <1>1, <1>2
      <3>2. ~(o[j] < o[k]) /\ ~(o[k] < o[j])
        BY <2>1, <3>1
      <3> QED
        BY <1>2, <3>2
    <2> QED
      BY <2>1
  <1>10. o \in [1 .. c -> 1 .. n]
    BY <1>1, <1>2
  <1>11. /\ Players' \in Seq(Player) /\ Len(Players') = c
         /\ \A j \in 1 .. c :
              /\ Players'[j].wsi = Players[o[j]].wsi /\ Players'[j].ack = Players[o[j]].ack
              /\ Players'[j].do = {} /\ Grown(Players[o[j]], Players'[j])
    BY <1>6, <1>7, <1>8
  <1>13. \A k \in 1 .. Len(Players) : Connected(Players[k]) => \E j \in 1 .. c : o[j] = k
    BY <1>4, <1>12
  <1>14. TickKept(c, o)
    BY <1>9, <1>11, <1>13 DEF TickKept
  <1> QED
    BY <1>2, <1>10, <1>14

LEMMA TickSession ==
  ASSUME SessionInv, Tick
  PROVE  SessionInv'
  <1> DEFINE n == Len(Players)
  <1>0. PICK c \in Nat : \E o \in [1 .. c -> 1 .. n] : TickKept(c, o)
    BY TickShape
  <1>1. PICK o \in [1 .. c -> 1 .. n] : TickKept(c, o)
    BY <1>0
  <1>2. /\ \A j, k \in 1 .. c : o[j] = o[k] => j = k
        /\ Players' \in Seq(Player) /\ Len(Players') = c
        /\ \A j \in 1 .. c :
             /\ Players'[j].wsi = Players[o[j]].wsi /\ Players'[j].ack = Players[o[j]].ack
             /\ Players'[j].do = {}
    BY <1>1 DEF TickKept
  <1>3. DOMAIN Players' = 1 .. c
    BY <1>2, LenProperties
  <1>4. UNCHANGED <<open, uptime, heard>> /\ pressed' = {} /\ writable' \subseteq open
    BY DEF Tick, Asked, SessionInv, TypeOK
  <1>5. TypeOK'
    BY <1>2, <1>4 DEF SessionInv, TypeOK
  <1>6. UniquePlayers'
    <2>1. ASSUME NEW j \in 1 .. c, NEW k \in 1 .. c, Players'[j].wsi = Players'[k].wsi
          PROVE  j = k
      <3>1. /\ o[j] \in 1 .. n /\ o[k] \in 1 .. n
            /\ Players[o[j]].wsi = Players[o[k]].wsi
        BY <1>2, <2>1
      <3> HIDE DEF n
      <3>2. o[j] = o[k]
        BY <3>1, PlayerTypes DEF n
      <3> QED
        BY <1>2, <3>2
    <2> QED
      BY <1>3, <2>1 DEF UniquePlayers
  <1>7. CommandsPressed'
    BY <1>2, <1>3 DEF CommandsPressed
  <1>8. AckHeard'
    BY <1>2, <1>3, <1>4, PlayerTypes DEF SessionInv, AckHeard
  <1> QED
    BY <1>5, <1>6, <1>7, <1>8 DEF SessionInv

-----------------------------------------------------------------------------
LEMMA NextSession ==
  ASSUME SessionInv, [Next]_vars
  PROVE  SessionInv'
  <1>1. CASE UNCHANGED vars
    BY <1>1 DEF vars, SessionInv, TypeOK, UniquePlayers, CommandsPressed, AckHeard
  <1>2. CASE Next
    BY <1>2, NobodyMoves, WriteableSession, CloseSession, ReceiveSession, TickSession,
       AdvanceSession DEF Next
  <1> QED
    BY <1>1, <1>2

-----------------------------------------------------------------------------
(* What becomes of a buffer                                                *)

\* A message leaves the buffers as they are.
LEMMA ReceiveFills ==
  ASSUME SessionInv, NEW w \in Wsi, NEW m \in Message, Receive(w, m)
  PROVE  /\ DOMAIN Players' = 1 .. Len(Players)
         /\ \A j \in 1 .. Len(Players) : /\ Players'[j].wsi = Players[j].wsi
                                         /\ Players'[j].fill = Players[j].fill
  <1>1. /\ DOMAIN Players' = DOMAIN Players
        /\ \A i \in DOMAIN Players :
             \/ Players'[i] = Players[i]
             \/ Players'[i] = [Players[i] EXCEPT !.ack = TRUE, !.do = @ \cup ({m} \cap Commands)]
    BY DEF Receive
  <1>2. \A p \in Player : \A d :
          /\ [p EXCEPT !.ack = TRUE, !.do = d].wsi = p.wsi
          /\ [p EXCEPT !.ack = TRUE, !.do = d].fill = p.fill
    BY DEF Player
  <1>3. ASSUME NEW j \in 1 .. Len(Players)
        PROVE  Players'[j].wsi = Players[j].wsi /\ Players'[j].fill = Players[j].fill
    <2> DEFINE d == Players[j].do \cup ({m} \cap Commands)
               q == [Players[j] EXCEPT !.ack = TRUE, !.do = d]
    <2>1. Players'[j] = Players[j] \/ Players'[j] = q
      BY <1>1, PlayerTypes
    <2>2. q.wsi = Players[j].wsi /\ q.fill = Players[j].fill
      <3>1. Players[j] \in Player
        BY PlayerTypes
      <3> HIDE DEF d
      <3> QED
        BY <1>2, <3>1
    <2> HIDE DEF q
    <2>3. CASE Players'[j] = Players[j]
      BY <2>3
    <2>4. CASE Players'[j] = q
      BY <2>2, <2>4
    <2> QED
      BY <2>1, <2>3, <2>4
  <1> QED
    BY <1>1, <1>3, PlayerTypes


\* Where everyone keeps place and buffer, and nothing ticks.
LEMMA BufferInPlace ==
  ASSUME SessionInv, ~Tick, NEW k \in 1 .. Len(Players),
         DOMAIN Players' = 1 .. Len(Players),
         \A j \in 1 .. Len(Players) : /\ Players'[j].wsi = Players[j].wsi
                                      /\ Players'[j].fill = Players[j].fill
  PROVE  BufferKept(k)
  <1>1. Heirs(k) = {k}
    BY PlayerTypes DEF Heirs
  <1>2. Players'[k].fill = Players[k].fill /\ Players[k].fill \in Nat
    BY PlayerTypes
  <1>3. Players'[k].fill >= Players[k].fill
    <2>1. \A i \in Nat : i >= i
      BY SessionAssumption
    <2> QED
      BY <1>2, <2>1
  <1> QED
    BY <1>1, <1>3 DEF BufferKept

\* A writable callback: sent because it was due, or kept.
LEMMA BufferWriteable ==
  ASSUME SessionInv, ~Tick, NEW k \in 1 .. Len(Players), NEW w \in Wsi, Writeable(w)
  PROVE  BufferKept(k)
  <1> DEFINE n == Len(Players)
  <1>0. PICK S \in SUBSET (1 .. n) : SentTo(w, S)
    BY WriteableShape
  <1>1. /\ \A i \in S : Due(Players[i])
        /\ \A i \in 1 .. n :
             /\ Players'[i].wsi = Players[i].wsi
             /\ i \notin S => Players'[i].fill = Players[i].fill
             /\ i \in S => Players'[i].fill = 0
        /\ Players' \in Seq(Player)
        /\ \/ Len(Players') = n
           \/ /\ Len(Players') = n + 1
              /\ \A i \in 1 .. n : Players[i].wsi # w
              /\ Players'[n + 1] = NewPlayer(w)
    BY <1>0 DEF SentTo
  <1>2. n \in Nat /\ DOMAIN Players' = 1 .. Len(Players')
    BY <1>1, PlayerTypes, LenProperties
  <1>3. ASSUME NEW j \in Heirs(k)
        PROVE  j = k
    <2>1. j \in DOMAIN Players' /\ Players'[j].wsi = Players[k].wsi
      BY DEF Heirs
    <2>2. CASE j \in 1 .. n
      BY <1>1, <2>1, <2>2, PlayerTypes
    <2>3. CASE j \notin 1 .. n
      <3> DEFINE l == Len(Players')
      <3>1. j \in 1 .. l /\ (l = n \/ l = n + 1)
        BY <1>1, <1>2, <2>1
      <3> HIDE DEF l, n
      <3>2. j = n + 1 /\ l # n
        BY <1>2, <2>3, <3>1
      <3>3. Players'[j] = NewPlayer(w) /\ Players[k].wsi # w
        BY <1>1, <3>2 DEF l, n
      <3> QED
        BY <2>1, <3>3 DEF NewPlayer
    <2> QED
      BY <2>2, <2>3
  <1>4. k \in Heirs(k)
    <2>1. k \in DOMAIN Players'
      <3> DEFINE l == Len(Players')
      <3>1. l = n \/ l = n + 1
        BY <1>1
      <3> HIDE DEF l
      <3>2. k \in 1 .. l
        BY <1>2, <3>1
      <3> QED
        BY <1>2, <3>2 DEF l
    <2> QED
      BY <1>1, <2>1 DEF Heirs
  <1>5. \/ Players'[k].fill = 0 /\ Due(Players[k])
        \/ Players'[k].fill >= Players[k].fill
    <2>1. \A i \in Nat : i >= i
      BY SessionAssumption
    <2>2. Players[k].fill \in Nat
      BY PlayerTypes
    <2> QED
      BY <1>1, <2>1, <2>2
  <1> QED
    BY <1>3, <1>4, <1>5 DEF BufferKept

\* A close: only the Player of that connection goes.
LEMMA BufferClose ==
  ASSUME SessionInv, ~Tick, NEW k \in 1 .. Len(Players), NEW w \in Wsi,
         PeerInitiatedClose(w), ~UNCHANGED Players
  PROVE  BufferKept(k)
  <1> DEFINE n == Len(Players)
             From(e, j) == IF j < e THEN j ELSE j + 1
  <1>0. PICK e \in 1 .. n : Players[e].wsi = w /\ ErasedAt(e)
    BY CloseShape
  <1>1. /\ Players[e].wsi = w
        /\ Players' \in Seq(Player) /\ Len(Players') = n - 1
        /\ \A j \in 1 .. n - 1 : /\ Players'[j].wsi = Players[From(e, j)].wsi
                                 /\ Players'[j].fill = Players[From(e, j)].fill
    BY <1>0 DEF ErasedAt
  <1>2. n \in Nat /\ DOMAIN Players' = 1 .. n - 1
    BY <1>1, PlayerTypes, LenProperties
  <1>3. \A j \in 1 .. n - 1 : From(e, j) \in 1 .. n
    BY <1>2
  <1>4. ASSUME NEW j \in Heirs(k)
        PROVE  Players'[j].fill >= Players[k].fill
    <2>1. j \in 1 .. n - 1 /\ Players'[j].wsi = Players[k].wsi
      BY <1>2 DEF Heirs
    <2> HIDE DEF From, n
    <2>2. From(e, j) = k
      BY <1>1, <1>3, <2>1, PlayerTypes DEF n
    <2>3. Players'[j].fill = Players[k].fill /\ Players[k].fill \in Nat
      BY <1>1, <2>1, <2>2, PlayerTypes
    <2>4. \A i \in Nat : i >= i
      BY SessionAssumption
    <2> QED
      BY <2>3, <2>4
  <1>5. Heirs(k) = {} => Players[k].wsi \in open \ open'
    <2>1. CASE k = e
      BY <1>1, <2>1 DEF PeerInitiatedClose
    <2>2. CASE k # e
      <3> DEFINE j == IF k < e THEN k ELSE k - 1
      <3>1. j \in 1 .. n - 1 /\ From(e, j) = k
        <4> HIDE DEF n
        <4>1. k \in 1 .. n /\ e \in 1 .. n
          BY <1>1 DEF n
        <4> QED
          BY <1>2, <2>2, <4>1
      <3> HIDE DEF j, From, n
      <3>2. j \in Heirs(k)
        BY <1>1, <1>2, <3>1 DEF Heirs
      <3> QED
        BY <3>2
    <2> QED
      BY <2>1, <2>2
  <1> QED
    BY <1>4, <1>5 DEF BufferKept

\* A tick: more of it, or no room.
LEMMA BufferTick ==
  ASSUME SessionInv, Tick, NEW k \in 1 .. Len(Players)
  PROVE  BufferKept(k)
  <1>0. PICK c \in Nat : \E o \in [1 .. c -> 1 .. Len(Players)] : TickKept(c, o)
    BY TickShape
  <1>1. PICK o \in [1 .. c -> 1 .. Len(Players)] : TickKept(c, o)
    BY <1>0
  <1>2. /\ \A i \in 1 .. Len(Players) : Connected(Players[i]) => \E j \in 1 .. c : o[j] = i
        /\ Players' \in Seq(Player) /\ Len(Players') = c
        /\ \A j \in 1 .. c : /\ Players'[j].wsi = Players[o[j]].wsi
                             /\ Grown(Players[o[j]], Players'[j])
    BY <1>1 DEF TickKept
  <1>3. DOMAIN Players' = 1 .. c
    BY <1>2, LenProperties
  <1>4. Connected(Players[k]) => Heirs(k) # {}
    <2>1. ASSUME Connected(Players[k])
          PROVE  Heirs(k) # {}
      <3>1. PICK j \in 1 .. c : o[j] = k
        BY <1>2, <2>1
      <3>2. Players'[j].wsi = Players[k].wsi
        BY <1>2, <3>1
      <3>3. j \in Heirs(k)
        BY <1>3, <3>2 DEF Heirs
      <3> QED
        BY <3>3
    <2> QED
      BY <2>1
  <1>5. ASSUME NEW j \in Heirs(k)
        PROVE  /\ Overrun(Players[k]) \/ Players'[j].fill > Players[k].fill
               /\ Players'[j].fill >= Players[k].fill
    <2>1. j \in 1 .. c /\ Players'[j].wsi = Players[k].wsi
      BY <1>3 DEF Heirs
    <2>2. o[j] = k
      <3>1. o[j] \in 1 .. Len(Players) /\ Players[o[j]].wsi = Players[k].wsi
        BY <1>2, <2>1
      <3> QED
        BY <3>1, PlayerTypes
    <2> DEFINE f == Players[k].fill
               g == Players'[j].fill
    <2>3. f \in Nat /\ g \in Nat /\ (IF Overrun(Players[k]) THEN g = f ELSE g > f)
      <3>1. Players'[j] \in Player
        BY <1>2, <2>1, ElementOfSeq
      <3> QED
        BY <1>2, <2>1, <2>2, <3>1, PlayerTypes DEF Player, Grown
    <2> HIDE DEF f, g
    <2>4. (Overrun(Players[k]) \/ g > f) /\ g >= f
      BY <2>3
    <2> QED
      BY <2>4 DEF f, g
  <1> QED
    BY <1>4, <1>5 DEF BufferKept

LEMMA BufferStep ==
  ASSUME SessionInv, Next, NEW k \in DOMAIN Players
  PROVE  BufferKept(k)
  <1>1. k \in 1 .. Len(Players) /\ DOMAIN Players = 1 .. Len(Players)
    BY PlayerTypes
  <1>2. CASE Tick
    BY <1>1, <1>2, BufferTick
  <1>3. CASE ~Tick
    <2>1. ASSUME UNCHANGED Players
          PROVE  BufferKept(k)
      <3>1. /\ DOMAIN Players' = 1 .. Len(Players)
            /\ \A j \in 1 .. Len(Players) : /\ Players'[j].wsi = Players[j].wsi
                                            /\ Players'[j].fill = Players[j].fill
        BY <1>1, <2>1
      <3> QED
        BY <1>1, <1>3, <3>1, BufferInPlace
    <2>2. ASSUME NEW w \in Wsi, NEW m \in Message, Receive(w, m)
          PROVE  BufferKept(k)
      BY <1>1, <1>3, <2>2, ReceiveFills, BufferInPlace
    <2>3. ASSUME NEW w \in Wsi, Writeable(w)
          PROVE  BufferKept(k)
      BY <1>1, <1>3, <2>3, BufferWriteable
    <2>4. ASSUME NEW w \in Wsi, PeerInitiatedClose(w)
          PROVE  BufferKept(k)
      BY <1>1, <1>3, <2>1, <2>4, BufferClose
    <2>5. ASSUME NEW w \in Wsi, Established(w) \/ Closed(w)
          PROVE  BufferKept(k)
      BY <2>1, <2>5 DEF Established, Closed
    <2>6. ASSUME Advance
          PROVE  BufferKept(k)
      <3>1. DOMAIN Players' = 1 .. Len(Players)
        BY <1>1, <2>6 DEF Advance
      <3> QED
        BY <1>1, <1>3, <2>6, <3>1, AdvanceSession, BufferInPlace
    <2> QED
      BY <1>3, <2>2, <2>3, <2>4, <2>5, <2>6 DEF Next
  <1> QED
    BY <1>2, <1>3

\* Whoever is sent a packet is due in this step: nothing else empties a buffer.
LEMMA PacedStep ==
  ASSUME SessionInv, Next, NEW k \in DOMAIN Players, Sends(k)
  PROVE  \/ Players[k].age > TIMEOUT_ACK
         \/ Players[k].age > SEND_INTERVAL /\ Players[k].wsi \in heard
  <1>1. PICK j \in Heirs(k) : Players'[j].fill = 0 /\ Players[k].fill > 0
    BY DEF Sends, Heirs
  <1>2. \/ Players'[j].fill = 0 /\ Due(Players[k])
        \/ Players'[j].fill >= Players[k].fill
    BY BufferStep DEF BufferKept
  <1>3. Players[k].fill \in Nat
    BY PlayerTypes
  <1>4. \A f \in Nat : f > 0 => ~(0 >= f)
    BY SessionAssumption
  <1>5. Due(Players[k])
    BY <1>1, <1>2, <1>3, <1>4
  <1>6. Players[k].ack => Players[k].wsi \in heard
    BY DEF SessionInv, AckHeard
  <1> QED
    BY <1>5, <1>6 DEF Due

-----------------------------------------------------------------------------
(* Where a buffer runs over                                                *)

\* No callback appends: a buffer is empty after it or has what it had.
LEMMA NothingAppended ==
  ASSUME SessionInv, Next, ~Tick, NEW j \in DOMAIN Players'
  PROVE  \/ Players'[j].fill = 0
         \/ \E k \in DOMAIN Players : /\ Players[k].wsi = Players'[j].wsi
                                      /\ Players[k].fill = Players'[j].fill
  <1> DEFINE n == Len(Players)
             Same(k) == Players[k].wsi = Players'[j].wsi /\ Players[k].fill = Players'[j].fill
  <1>1. DOMAIN Players = 1 .. n /\ n \in Nat
    BY PlayerTypes
  <1>2. ASSUME UNCHANGED Players
        PROVE  \E k \in 1 .. n : Same(k)
    BY <1>1, <1>2
  <1>3. ASSUME NEW w \in Wsi, NEW m \in Message, Receive(w, m)
        PROVE  \E k \in 1 .. n : Same(k)
    BY <1>3, ReceiveFills
  <1>4. ASSUME NEW w \in Wsi, Writeable(w)
        PROVE  Players'[j].fill = 0 \/ \E k \in 1 .. n : Same(k)
    <2>0. PICK S \in SUBSET (1 .. n) : SentTo(w, S)
      BY <1>4, WriteableShape
    <2>1. /\ \A i \in 1 .. n :
               /\ Players'[i].wsi = Players[i].wsi
               /\ Players'[i].fill = Players[i].fill \/ Players'[i].fill = 0
          /\ Players' \in Seq(Player)
          /\ \/ Len(Players') = n
             \/ Len(Players') = n + 1 /\ Players'[n + 1] = NewPlayer(w)
      BY <2>0 DEF SentTo
    <2>2. j \in 1 .. Len(Players')
      BY <2>1, LenProperties
    <2>3. CASE j \in 1 .. n
      BY <2>1, <2>3
    <2>4. CASE j \notin 1 .. n
      <3> DEFINE l == Len(Players')
      <3>1. j \in 1 .. l /\ (l = n \/ l = n + 1)
        BY <2>1, <2>2
      <3> HIDE DEF l, n
      <3>2. j = n + 1 /\ l # n
        BY <1>1, <2>4, <3>1
      <3>3. Players'[j] = NewPlayer(w)
        BY <2>1, <3>2 DEF l, n
      <3> QED
        BY <3>3 DEF NewPlayer
    <2> QED
      BY <2>3, <2>4
  <1>5. ASSUME NEW w \in Wsi, PeerInitiatedClose(w), ~UNCHANGED Players
        PROVE  \E k \in 1 .. n : Same(k)
    <2> DEFINE From(e, i) == IF i < e THEN i ELSE i + 1
    <2>0. PICK e \in 1 .. n : ErasedAt(e)
      BY <1>5, CloseShape
    <2>1. /\ Players' \in Seq(Player) /\ Len(Players') = n - 1
          /\ \A i \in 1 .. n - 1 : /\ Players'[i].wsi = Players[From(e, i)].wsi
                                   /\ Players'[i].fill = Players[From(e, i)].fill
      BY <2>0 DEF ErasedAt
    <2>2. j \in 1 .. n - 1
      BY <2>1, LenProperties
    <2>3. From(e, j) \in 1 .. n
      BY <1>1, <2>2
    <2> HIDE DEF From, n
    <2>4. Same(From(e, j))
      BY <2>1, <2>2
    <2> QED
      BY <2>3, <2>4
  <1>6. ASSUME Advance
        PROVE  \E k \in 1 .. n : Same(k)
    <2>1. DOMAIN Players' = 1 .. n
      BY <1>1, <1>6 DEF Advance
    <2> QED
      BY <1>6, <2>1, AdvanceSession
  <1>7. ASSUME NEW w \in Wsi, Established(w) \/ Closed(w)
        PROVE  UNCHANGED Players
    BY <1>7 DEF Established, Closed
  <1> QED
    BY <1>1, <1>2, <1>3, <1>4, <1>5, <1>6, <1>7 DEF Next

\* A Player that is updated had more than a quarter of its buffer left, or had lost
\* it already: what runs over in the Update is more than that.
LEMMA OverrunStep ==
  ASSUME SessionInv, Next, NEW j \in DOMAIN Players', Overrun(Players'[j])
  PROVE  \E k \in DOMAIN Players :
           /\ Players[k].wsi = Players'[j].wsi
           /\ \/ Overrun(Players[k])
              \/ Players'[j].fill - Players[k].fill > MAX_SIZE \div 4
  <1>1. MAX_SIZE \in Nat /\ LWS_PRE \in Nat /\ LWS_PRE <= MAX_SIZE /\ MAX_SIZE \div 4 \in Nat
    BY SessionAssumption
  <1>2. CASE ~Tick
    <2>1. Players'[j].fill # 0
      BY <1>1 DEF Overrun, SpaceLeft
    <2> QED
      BY <1>2, <2>1, NothingAppended DEF Overrun, SpaceLeft
  <1>3. CASE Tick
    <2>0. PICK c \in Nat : \E o \in [1 .. c -> 1 .. Len(Players)] : TickKept(c, o)
      BY <1>3, TickShape
    <2>1. PICK o \in [1 .. c -> 1 .. Len(Players)] : TickKept(c, o)
      BY <2>0
    <2>2. j \in 1 .. c /\ Players'[j] \in Player
      BY <2>1, LenProperties, ElementOfSeq DEF TickKept
    <2> DEFINE k == o[j]
               f == Players[k].fill
               g == Players'[j].fill
    <2>3. /\ k \in DOMAIN Players /\ Players[k].wsi = Players'[j].wsi
          /\ Grown(Players[k], Players'[j]) /\ f \in Nat /\ g \in Nat
      BY <2>1, <2>2, PlayerTypes DEF TickKept, Player
    <2>4. MAX_SIZE - LWS_PRE - g < 0
      BY DEF Overrun, SpaceLeft
    <2>5. CASE ~Overrun(Players[k])
      <3>1. MAX_SIZE - LWS_PRE - f > MAX_SIZE \div 4
        BY <2>3, <2>5 DEF Grown, Connected, SpaceLeft
      <3> HIDE DEF f, g
      <3>2. g - f > MAX_SIZE \div 4
        BY <1>1, <2>3, <2>4, <3>1
      <3> QED
        BY <2>3, <3>2 DEF f, g
    <2> QED
      BY <2>3, <2>5
  <1> QED
    BY <1>2, <1>3

-----------------------------------------------------------------------------
\* SessionInv holds in every state.
THEOREM SessionInvariant == Spec => []SessionInv
  <1>1. Init => SessionInv
    BY InitSession
  <1>2. SessionInv /\ [Next]_vars => SessionInv'
    BY NextSession
  <1> QED
    BY <1>1, <1>2, PTL DEF Spec

\* The types of Players and of the connections.
THEOREM SessionTypes == Spec => []TypeOK
  <1>1. SessionInv => TypeOK
    BY DEF SessionInv
  <1> QED
    BY <1>1, SessionInvariant, PTL

\* A connection never has two Players (callback_wsapi, game_loop_cb).
THEOREM OnePlayerEach == Spec => []UniquePlayers
  <1>1. SessionInv => UniquePlayers
    BY DEF SessionInv
  <1> QED
    BY <1>1, SessionInvariant, PTL

\* No command is executed that nobody has sent since the last tick (Player's move
\* operations).
THEOREM NoCommandInvented == Spec => []CommandsPressed
  <1>1. SessionInv => CommandsPressed
    BY DEF SessionInv
  <1> QED
    BY <1>1, SessionInvariant, PTL

\* A packet goes out on an answer of its own client or after the timeout
\* (Player::CanSend, Player::Send).
THEOREM SendsArePaced == Spec => PacedSends
  <1>1. SessionInv /\ [Next]_vars =>
          [\A k \in DOMAIN Players : Sends(k) =>
             \/ Players[k].age > TIMEOUT_ACK
             \/ Players[k].age > SEND_INTERVAL /\ Players[k].wsi \in heard]_vars
    BY PacedStep
  <1> QED
    BY <1>1, SessionInvariant, PTL DEF Spec, PacedSends

\* A buffer shrinks only by being sent when it is due, grows with every tick, and
\* goes with its own connection or its own overflow (callback_wsapi,
\* game_loop_cb, Player::operator=).
THEOREM BuffersAreKept == Spec => BuffersKept
  <1>1. SessionInv /\ [Next]_vars => [\A k \in DOMAIN Players : BufferKept(k)]_vars
    BY BufferStep
  <1> QED
    BY <1>1, SessionInvariant, PTL DEF Spec, BuffersKept

\* A buffer runs past its end only in an Update that appends more than a quarter of
\* it: up to that, asking Connected once a tick is enough (Message::Connected,
\* game_loop_cb), whatever is erased, sent or moved in between.
THEOREM OverrunsTakeOneUpdate == Spec => OverrunsAreSudden
  <1>1. SessionInv /\ [Next]_vars =>
          [\A j \in DOMAIN Players' : Overrun(Players'[j]) =>
             \E k \in DOMAIN Players :
               /\ Players[k].wsi = Players'[j].wsi
               /\ \/ Overrun(Players[k])
                  \/ Players'[j].fill - Players[k].fill > MAX_SIZE \div 4]_vars
    BY OverrunStep
  <1> QED
    BY <1>1, SessionInvariant, PTL DEF Spec, OverrunsAreSudden
=============================================================================
