---------------------------- MODULE Subscription ----------------------------
(***************************************************************************)
(* What the server promises its clients about the things that come and go  *)
(* in the world, without views, events, histories and buffers.             *)
(*                                                                         *)
(* The world changes in rounds.  A client that knows an item is owed       *)
(* notice of its removal, and no round ends before all that is owed has    *)
(* been published; only what is lost with a connection goes unnoticed.     *)
(* What a client shows is what it knows, and what an earlier subscription  *)
(* left on its screen.  Only a client that took a subscription over from   *)
(* another one may miss things that are taken to be known to it.           *)
(***************************************************************************)
EXTENDS Integers

CONSTANTS Client, Item

VARIABLES
  open,       \* a round has begun and has not ended
  unborn,     \* items that have not been in the world yet
  live,       \* items in the world
  lost,       \* items that went with a connection, or were mislaid
  known,      \* [Client -> items the server takes the client to know]
  owed,       \* [Client -> known items whose removal is still to be told]
  picture,    \* [Client -> what it will show after all that was published]
  screen      \* [Client -> what it shows after all that was sent]

things == <<unborn, live, lost>>
vars == <<open, things, known, owed, picture, screen>>

Nothing == [c \in Client |-> {}]

Init ==
  /\ open = FALSE
  /\ unborn \subseteq Item /\ live = Item \ unborn /\ lost = {}
  /\ known = Nothing /\ owed = Nothing /\ picture = Nothing /\ screen = Nothing

Born(N) == unborn' = unborn \ N
Lose(D) == lost' = lost \cup D
Forget(C) == known' = [c \in Client |-> IF c \in C THEN {} ELSE known[c]]

-----------------------------------------------------------------------------
\* Between two rounds some clients are sent what was published, and a new one
\* may come with its item.
Send(S, N) ==
  /\ ~open
  /\ N \subseteq unborn /\ Born(N) /\ live' = live \cup N
  /\ screen' = [c \in Client |-> IF c \in S THEN picture[c] ELSE screen[c]]
  /\ UNCHANGED <<open, lost, known, owed, picture>>

\* A client goes, with what it shows and with its items D.
Leave(c, D) ==
  /\ ~open
  /\ D \subseteq live /\ live' = live \ D /\ Lose(D)
  /\ Forget({c})
  /\ picture' = [picture EXCEPT ![c] = {}]
  /\ screen' = [screen EXCEPT ![c] = {}]
  /\ UNCHANGED <<open, unborn, owed>>

\* Another client takes the place of c.  It shows nothing, and gets at most the
\* known part of what has not been sent; what counts as known stays.
Replace(c) ==
  /\ ~open
  /\ \E part \in SUBSET (picture[c] \cap known[c]) : picture' = [picture EXCEPT ![c] = part]
  /\ screen' = [screen EXCEPT ![c] = {}]
  /\ UNCHANGED <<open, things, known, owed>>

\* A round begins.  Clients C are dropped with their items D: what was not sent
\* is never shown, what is shown stays.
Open(C, D) ==
  /\ ~open /\ open' = TRUE
  /\ D \subseteq live /\ live' = live \ D /\ Lose(D)
  /\ Forget(C)
  /\ picture' = [c \in Client |-> IF c \in C THEN screen[c] ELSE picture[c]]
  /\ UNCHANGED <<unborn, owed, screen>>

\* Items N come, R are removed, D are mislaid.
Change(N, R, D) ==
  /\ open
  /\ N \subseteq unborn /\ Born(N)
  /\ R \cup D \subseteq live /\ R \cap D = {}
  /\ live' = (live \ (R \cup D)) \cup N /\ Lose(D)
  /\ owed' = [c \in Client |-> owed[c] \cup (R \cap known[c])]
  /\ UNCHANGED <<open, known, picture, screen>>

\* Client c is told all it is owed and knows K from now on; it brings items N.
\* It shows all of K but for some it knew without showing them already.
Publish(c, K, N) ==
  /\ open
  /\ N \subseteq unborn /\ Born(N) /\ live' = live \cup N
  /\ K \subseteq (known[c] \cup live) \ owed[c]
  /\ known' = [known EXCEPT ![c] = K]
  /\ owed' = [owed EXCEPT ![c] = {}]
  /\ \E blind \in SUBSET ((known[c] \ picture[c]) \cap K),
        rest \in SUBSET (picture[c] \ known[c]) :
       picture' = [picture EXCEPT ![c] = (K \ blind) \cup rest]
  /\ UNCHANGED <<open, lost, screen>>

Close ==
  /\ open /\ open' = FALSE
  /\ owed = Nothing
  /\ UNCHANGED <<things, known, owed, picture, screen>>

Next ==
  \/ \E S \in SUBSET Client, N \in SUBSET unborn : Send(S, N)
  \/ \E c \in Client, D \in SUBSET live : Leave(c, D)
  \/ \E c \in Client : Replace(c)
  \/ \E C \in SUBSET Client, D \in SUBSET live : Open(C, D)
  \/ \E N \in SUBSET unborn, R, D \in SUBSET live : Change(N, R, D)
  \/ \E c \in Client, K \in SUBSET Item, N \in SUBSET unborn : Publish(c, K, N)
  \/ Close

Spec == Init /\ [][Next]_vars
=============================================================================
