------------------------------ MODULE Session ------------------------------
(***************************************************************************)
(* Connections and the vector Game::Players: who has a Player, whose       *)
(* commands, acknowledgement and buffer it carries, and when it is sent.   *)
(* callback_wsapi and the game loop share one thread, so an action is one  *)
(* callback.  What the loop does in the world is left to ViewSync.         *)
(*                                                                         *)
(* A connection is the address of its lws object; after an abrupt          *)
(* disconnection (which no callback handles) the same address may come     *)
(* back.  Time is counted in units below SEND_INTERVAL, and no further     *)
(* than what the timeout can tell apart.                                   *)
(***************************************************************************)
EXTENDS FiniteSets, Vectors

CONSTANTS
  Wsi,            \* addresses of connections
  Commands,       \* the keys a tick executes: split, feed
  Other,          \* messages that are none of them: mouse, MSG_ACK, anything
  MAX_SIZE,       \* bytes of a buffer
  LWS_PRE,        \* bytes kept free in front of the records
  Appended,       \* how much one Update may append: the code sets no limit
  SEND_INTERVAL,
  TIMEOUT_ACK

ASSUME SessionAssumption ==
  /\ Commands \cap Other = {}
  /\ MAX_SIZE \in Nat /\ LWS_PRE \in 0 .. MAX_SIZE
  /\ Appended \subseteq Nat \ {0} /\ Appended # {}
  /\ SEND_INTERVAL \in Nat /\ TIMEOUT_ACK \in Nat /\ SEND_INTERVAL < TIMEOUT_ACK

VARIABLES
  Players,        \* sequence of players: wsi, commands set, ACK, fill, age
  open,           \* connections that exist
  writable,       \* writable callbacks asked for
  uptime,         \* CurrentTime, which is also the age of a first SendTime
  heard,          \* history: who sent a message since they were last sent one
  pressed         \* history: commands sent since the last tick

vars == <<Players, open, writable, uptime, heard, pressed>>

Message == Commands \cup Other
Age == 0 .. TIMEOUT_ACK + 1
Older(a) == IF a <= TIMEOUT_ACK THEN a + 1 ELSE a

Init ==
  /\ Players = <<>> /\ open = {} /\ writable = {} /\ uptime \in Age
  /\ heard = {} /\ pressed = {}

NewPlayer(w) == [wsi |-> w, do |-> {}, ack |-> FALSE, fill |-> 0, age |-> uptime]

\* Erasing from the vector move-assigns every later element one place down.
\* Player::operator= moves everything but DoSplit and DoFeed, which stay where
\* they are.  (The slips: the acknowledgement stays as well; the buffer does.)
MovedWithoutBuffer(kept) ==
  [k \in DOMAIN kept |-> [kept[k] EXCEPT !.do = Players[k].do, !.fill = Players[k].fill]]
MovedWithoutAck(kept) ==
  [k \in DOMAIN kept |-> [kept[k] EXCEPT !.do = Players[k].do, !.ack = Players[k].ack]]
MovedDown(kept) == [k \in DOMAIN kept |-> [kept[k] EXCEPT !.do = Players[k].do]]

-----------------------------------------------------------------------------
(* Callbacks of callback_wsapi                                             *)

Established(w) ==
  /\ w \notin open
  /\ open' = open \cup {w}
  /\ UNCHANGED <<Players, writable, uptime, heard, pressed>>

\* Any message acknowledges; whoever sent it is asked for a writable callback.
Receive(w, m) ==
  /\ w \in open
  /\ Players' = [k \in DOMAIN Players |->
       IF Players[k].wsi # w THEN Players[k]
       ELSE [Players[k] EXCEPT !.ack = TRUE, !.do = @ \cup ({m} \cap Commands)]]
  /\ writable' = writable \cup {w}
  /\ heard' = heard \cup {w}
  /\ pressed' = pressed \cup {<<w, c>> : c \in {m} \cap Commands}
  /\ UNCHANGED <<open, uptime>>

\* Player::CanSend and the emptiness test of Message::Send.
Due(p) == p.fill > 0 /\ (p.age > TIMEOUT_ACK \/ (p.ack /\ p.age > SEND_INTERVAL))

\* Message::Send and Player::Send after lws_write has taken the buffer.
Sent(p) == [p EXCEPT !.fill = 0, !.age = 0, !.ack = FALSE]

\* The search through Players.  (The slips: it breaks out after the first
\* element; it takes any Player for that of w.)
FoundFirst(w) == Players # <<>> /\ Head(Players).wsi = w
FoundAny(w) == Players # <<>>
Found(w) == \E k \in DOMAIN Players : Players[k].wsi = w

\* The callback of w sends for every player that is due.  The socket of w takes
\* the buffer; another one, which was not reported writable, may not.  Without
\* a Player w gets one; if the vector has to grow for it, the move constructor
\* gives every Player fresh commands.
Writeable(w) ==
  /\ w \in open /\ w \in writable
  /\ writable' = writable \ {w}
  /\ \E S \in SUBSET {k \in DOMAIN Players : Due(Players[k])}, grown \in BOOLEAN :
       LET all  == [k \in DOMAIN Players |-> IF k \in S THEN Sent(Players[k]) ELSE Players[k]]
           kept == [k \in DOMAIN all |-> [all[k] EXCEPT !.do = IF grown THEN {} ELSE @]]
           to   == {Players[k].wsi : k \in S}
       IN  /\ \A k \in DOMAIN Players : Due(Players[k]) /\ Players[k].wsi = w => k \in S
           /\ Players' = IF Found(w) THEN all ELSE Append(kept, NewPlayer(w))
           /\ heard' = heard \ to
  /\ UNCHANGED <<open, uptime, pressed>>

\* LWS_CALLBACK_WS_PEER_INITIATED_CLOSE erases the first Player of w.
FirstOf(w) ==
  {k \in DOMAIN Players : Players[k].wsi = w /\ \A j \in 1 .. k - 1 : Players[j].wsi # w}
PeerInitiatedClose(w) ==
  /\ w \in open
  /\ open' = open \ {w} /\ writable' = writable \ {w}
  /\ IF FirstOf(w) = {} THEN UNCHANGED Players
     ELSE \E k \in FirstOf(w) : Players' = MovedDown(RemoveAt(Players, k))
  /\ UNCHANGED <<uptime, heard, pressed>>

\* The connection breaks: LWS_CALLBACK_CLOSED has no case, the Player stays.
Closed(w) ==
  /\ w \in open
  /\ open' = open \ {w} /\ writable' = writable \ {w}
  /\ UNCHANGED <<Players, uptime, heard, pressed>>

-----------------------------------------------------------------------------
(* The timer                                                               *)

\* Message::SpaceLeft.  Appending does not look at it, so it may be negative: the
\* records have been written past the end of the buffer.
SpaceLeft(p) == MAX_SIZE - LWS_PRE - p.fill
Overrun(p) == SpaceLeft(p) < 0

\* Message::Connected: more than a quarter of the buffer is left.  SpaceLeft is
\* signed and MAX_SIZE is not, so C compares them as unsigned numbers, and less
\* than nothing counts as very much.  (The slip: it asks for no quarter.)
ConnectedWithRoom(p) == Overrun(p) \/ SpaceLeft(p) >= 0
Connected(p) == Overrun(p) \/ SpaceLeft(p) > MAX_SIZE \div 4

\* Player::Update carries the commands out and appends n bytes; what a buffer that
\* has overrun gets on top is not counted.  (The slips: it leaves the commands set;
\* it skips a Player whose buffer is not empty.)
Filled(p, n) == IF Overrun(p) THEN p.fill ELSE p.fill + n
UpdatedAgain(p, n) == [p EXCEPT !.fill = Filled(p, n)]
UpdatedWhenEmpty(p, n) == [p EXCEPT !.do = {}, !.fill = IF @ = 0 THEN n ELSE @]
Updated(p, n) == [p EXCEPT !.do = {}, !.fill = Filled(p, n)]

Asked(ps) == {ps[k].wsi : k \in DOMAIN ps} \cap open

\* game_loop_cb: erase who is not Connected, update everyone else.
Tick ==
  /\ \E o \in Ascending({k \in DOMAIN Players : Connected(Players[k])}) :
       LET left == MovedDown([k \in DOMAIN o |-> Players[o[k]]])
       IN  /\ \E n \in [DOMAIN left -> Appended] :
                Players' = [k \in DOMAIN left |-> Updated(left[k], n[k])]
           /\ writable' = writable \cup Asked(left)
  /\ pressed' = {}
  /\ UNCHANGED <<open, uptime, heard>>

\* clock() moves on.
Advance ==
  /\ uptime' = Older(uptime)
  /\ Players' = [k \in DOMAIN Players |-> [Players[k] EXCEPT !.age = Older(@)]]
  /\ UNCHANGED <<open, writable, heard, pressed>>

Next ==
  \/ \E w \in Wsi :
       \/ Established(w) \/ Writeable(w) \/ PeerInitiatedClose(w) \/ Closed(w)
       \/ \E m \in Message : Receive(w, m)
  \/ Tick \/ Advance

\* A socket that is asked about becomes writable, or its connection ends; the
\* timer repeats.
Fairness == (\A w \in Wsi : WF_vars(Writeable(w))) /\ WF_vars(Tick)

Spec == Init /\ [][Next]_vars /\ Fairness

-----------------------------------------------------------------------------
(* Properties                                                              *)

Player == [wsi : Wsi, do : SUBSET Commands, ack : BOOLEAN, fill : Nat, age : Age]

\* The types of the variables; writable callbacks are only asked for connections
\* that exist.
TypeOK ==
  /\ Players \in Seq(Player)
  /\ open \subseteq Wsi /\ writable \subseteq open
  /\ uptime \in Age
  /\ heard \subseteq Wsi
  /\ pressed \subseteq Wsi \X Commands

\* A connection has one Player at most, although writable callbacks make Players
\* and closing and overflowing take them away, and addresses come back.
UniquePlayers ==
  \A j, k \in DOMAIN Players : Players[j].wsi = Players[k].wsi => j = k

\* Whatever erasing and growing do to the commands, none is executed that nobody
\* has sent since the last tick.
CommandsPressed ==
  \A k \in DOMAIN Players : \A c \in Players[k].do : \E w \in Wsi : <<w, c>> \in pressed

\* Flow control belongs to the connection, not to the place in the vector: a
\* buffer goes out within the timeout only to a client that has sent something
\* since its previous packet, and never within the interval.
Sends(k) == Players[k].fill > 0 /\ \E j \in DOMAIN Players' :
              Players'[j].wsi = Players[k].wsi /\ Players'[j].fill = 0
PacedSends ==
  [][\A k \in DOMAIN Players : Sends(k) =>
       \/ Players[k].age > TIMEOUT_ACK
       \/ Players[k].age > SEND_INTERVAL /\ Players[k].wsi \in heard]_vars

\* What becomes of a buffer has a reason of its own connection, whoever else is
\* erased, moved or sent: it goes out whole when it is due, and otherwise only
\* grows, with every tick until it overruns; its Player goes with its connection
\* or when Connected says no.
Heirs(k) == {j \in DOMAIN Players' : Players'[j].wsi = Players[k].wsi}
BufferKept(k) ==
  /\ Heirs(k) = {} => \/ Players[k].wsi \in open \ open'
                      \/ Tick /\ ~Connected(Players[k])
  /\ \A j \in Heirs(k) : \/ Players'[j].fill = 0 /\ Due(Players[k])
                         \/ Players'[j].fill >= Players[k].fill
  /\ Tick => \A j \in Heirs(k) :
                Overrun(Players[k]) \/ Players'[j].fill > Players[k].fill
BuffersKept == [][\A k \in DOMAIN Players : BufferKept(k)]_vars

\* Connected is asked once a tick and never while records are appended.  That is
\* enough for a client that falls behind bit by bit, whoever else is erased or
\* sent: a buffer overruns only if a single Update appends more than a quarter.
OverrunsAreSudden ==
  [][\A j \in DOMAIN Players' : Overrun(Players'[j]) =>
       \E k \in DOMAIN Players :
         /\ Players[k].wsi = Players'[j].wsi
         /\ \/ Overrun(Players[k])
            \/ Players'[j].fill - Players[k].fill > MAX_SIZE \div 4]_vars

\* A client that is connected and has spoken gets its Player (again, if an earlier
\* one overflowed): the tick asks for nobody who has none.
HasPlayer(w) == \E k \in DOMAIN Players : Players[k].wsi = w
Joins == \A w \in Wsi : w \in writable /\ ~HasPlayer(w) ~> HasPlayer(w) \/ w \notin open

\* No buffer waits for ever: it is sent, or its Player goes, or it overruns.  A
\* client that stays silent, and a connection that broke without a callback, are
\* found out by the buffer alone, which every tick fills further.
Pending(w) == \E k \in DOMAIN Players : Players[k].wsi = w /\ Players[k].fill > 0
HasOverrun(w) == \E k \in DOMAIN Players : Players[k].wsi = w /\ Overrun(Players[k])
SentOrDropped == \A w \in Wsi : Pending(w) ~> ~Pending(w) \/ HasOverrun(w)

\* An acknowledgement is of something the client said since its last packet.
AckHeard == \A k \in DOMAIN Players : Players[k].ack => Players[k].wsi \in heard

\* What every callback and every tick keep of the vector of players, whoever is
\* erased from it or added to it.
SessionInv == TypeOK /\ UniquePlayers /\ CommandsPressed /\ AckHeard

-----------------------------------------------------------------------------
(* What the comments of the code say and the code does not do.             *)

\* Game.h calls FEED_SIZE "how much size is lost on pressing W": the Player that
\* is going to feed is that of a client that pressed it.
CommandsAsked ==
  \A k \in DOMAIN Players : \A c \in Players[k].do : <<Players[k].wsi, c>> \in pressed

\* Game::game_loop_cb prints "Player overflow" when it erases a Player: one whose
\* buffer has overflowed should be erased by the next tick.
OverflowErased ==
  [][Tick => \A k \in DOMAIN Players : Overrun(Players[k]) => Heirs(k) = {}]_vars
=============================================================================
