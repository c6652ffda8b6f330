-------------------------- MODULE CollisionProofs --------------------------
(***************************************************************************)
(* What CollideSelf does for any number of cells of any sizes.             *)
(*                                                                         *)
(* CollisionInv holds whatever the two indices erase.  It follows the      *)
(* pointer the inner loop keeps: as long as its cell has not been eaten    *)
(* the outer index points to it, so that the first erase in the else       *)
(* branch erases the right cell; afterwards the cell is eaten already, and *)
(* whatever else is erased does no harm here.  From it follow that every   *)
(* step advances the loops, and that the call refines Merging.             *)
(*                                                                         *)
(* MergeInv adds what holds as long as the pointer is not used after that: *)
(* mass and events, and which pairs the loops have settled.  That players  *)
(* of few cells never use it needs both: with three cells the count of the *)
(* events says that one is left behind the inner index at most.            *)
(***************************************************************************)
EXTENDS SelfCollision, ListFacts

\* The types, taken apart.
LEMMA CollisionTypes ==
  ASSUME CollisionInv
  PROVE  /\ Cells \in Seq(Ball) /\ Len(Cells) \in Nat /\ DOMAIN Cells = 1 .. Len(Cells)
         /\ myLoop \in -1 .. Len(Cells) /\ myLoop \in Int /\ loop \in Nat
         /\ eaten \in Seq(Ball)
         /\ \A k \in 1 .. Len(Cells) : Cells[k] \in Ball
         /\ \A x \in Ball : Size[x] \in Nat
         /\ \A i, j \in 1 .. Len(Cells) : Cells[i] = Cells[j] => i = j
  <1>1. /\ Cells \in Seq(Ball) /\ eaten \in Seq(Ball)
        /\ myLoop \in -1 .. Len(Cells) /\ loop \in Nat /\ Size \in [Ball -> Nat]
    BY DEF CollisionInv, TypeOK
  <1>2. /\ Len(Cells) \in Nat /\ DOMAIN Cells = 1 .. Len(Cells)
        /\ \A k \in 1 .. Len(Cells) : Cells[k] \in Ball
    BY <1>1, LenProperties, ElementOfSeq
  <1>3. myLoop \in Int
    BY <1>1, <1>2
  <1>4. \A i, j \in DOMAIN Cells : Cells[i] = Cells[j] => i = j
    BY DEF CollisionInv, IndicesValid
  <1>5. \A i, j \in 1 .. Len(Cells) : Cells[i] = Cells[j] => i = j
    BY <1>2, <1>4
  <1> QED
    BY <1>1, <1>2, <1>3, <1>5

\* What a vector without duplicates is after an element has been erased.
LEMMA ErasedFacts ==
  ASSUME NEW X, NEW s \in Seq(X), NEW e \in 1 .. Len(s),
         \A i, j \in 1 .. Len(s) : s[i] = s[j] => i = j
  PROVE  LET t == RemoveAt(s, e) IN
           /\ t \in Seq(X) /\ Len(t) = Len(s) - 1 /\ DOMAIN t = 1 .. Len(s) - 1
           /\ \A i, j \in DOMAIN t : t[i] = t[j] => i = j
           /\ \A i \in 1 .. Len(s) - 1 : i < e => t[i] = s[i]
           /\ \A i \in 1 .. Len(s) - 1 : i >= e => t[i] = s[i + 1]
           /\ s[e] \notin ToSet(t) /\ ToSet(t) \subseteq ToSet(s)
           /\ ToSet(t) = ToSet(s) \ {s[e]}
  <1> DEFINE t == RemoveAt(s, e)
             old(i) == IF i < e THEN i ELSE i + 1
             n == Len(s) - 1
  <1>1. Len(s) \in Nat /\ DOMAIN s = 1 .. Len(s)
    BY LenProperties
  <1>2. t \in Seq(X) /\ Len(t) = n /\ \A k \in 1 .. n : t[k] = IF k < e THEN s[k] ELSE s[k + 1]
    BY RemoveAtFacts
  <1> HIDE DEF t
  <1>3. DOMAIN t = 1 .. n
    BY <1>2, LenProperties
  <1>4. ASSUME NEW i \in 1 .. n
        PROVE  old(i) \in 1 .. Len(s) /\ old(i) # e /\ t[i] = s[old(i)]
    BY <1>1, <1>2
  <1>5. \A i, j \in 1 .. n : old(i) = old(j) => i = j
    BY <1>1
  <1> HIDE DEF old, n
  <1>6. ASSUME NEW i \in 1 .. n, NEW j \in 1 .. n, t[i] = t[j]
        PROVE  i = j
    BY <1>4, <1>5, <1>6
  <1>7. s[e] \notin ToSet(t)
    BY <1>3, <1>4 DEF ToSet
  <1>8. ToSet(t) \subseteq ToSet(s)
    BY <1>1, <1>3, <1>4 DEF ToSet
  <1>10. ASSUME NEW x \in ToSet(s), x # s[e]
         PROVE  x \in ToSet(t)
    <2>1. PICK k \in 1 .. Len(s) : x = s[k] /\ k # e
      BY <1>1, <1>10 DEF ToSet
    <2> DEFINE i == IF k < e THEN k ELSE k - 1
    <2>2. i \in 1 .. n /\ old(i) = k
      BY <1>1, <2>1 DEF old, n
    <2> HIDE DEF i
    <2> QED
      BY <1>3, <1>4, <2>1, <2>2 DEF ToSet
  <1>9. ASSUME NEW i \in 1 .. n
        PROVE  (i < e => t[i] = s[i]) /\ (i >= e => t[i] = s[i + 1])
    <2>1. i >= e => ~(i < e)
      BY <1>1
    <2> QED
      BY <1>2, <2>1
  <1> QED
    BY <1>2, <1>3, <1>6, <1>7, <1>8, <1>9, <1>10 DEF t, n

\* One removal event more.
LEMMA AppendedFacts ==
  ASSUME NEW X, NEW s \in Seq(X), NEW x \in X
  PROVE  Append(s, x) \in Seq(X) /\ ToSet(Append(s, x)) = ToSet(s) \cup {x}
  <1>1. /\ Append(s, x) \in Seq(X) /\ Len(Append(s, x)) = Len(s) + 1
        /\ \A i \in 1 .. Len(s) : Append(s, x)[i] = s[i]
        /\ Append(s, x)[Len(s) + 1] = x
    BY AppendProperties
  <1>2. /\ Len(s) \in Nat /\ DOMAIN s = 1 .. Len(s)
        /\ DOMAIN Append(s, x) = 1 .. Len(s) + 1
    BY <1>1, LenProperties
  <1>3. \A i \in 1 .. Len(s) + 1 : i \in 1 .. Len(s) \/ i = Len(s) + 1
    BY <1>2
  <1>4. Len(s) + 1 \in 1 .. Len(s) + 1 /\ 1 .. Len(s) \subseteq 1 .. Len(s) + 1
    BY <1>2
  <1> QED
    BY <1>1, <1>2, <1>3, <1>4 DEF ToSet

LEMMA InitCollision ==
  ASSUME Init
  PROVE  CollisionInv
  <1>1. PICK n \in Counts :
          Cells = [i \in 1 .. n |-> i] /\ Size \in [1 .. n -> Sizes] /\ ready \in SUBSET (1 .. n)
    BY DEF Init
  <1>2. n \in Nat /\ Ball = 1 .. n /\ Size \in [Ball -> Nat]
    BY <1>1, CollisionAssumption DEF Ball
  <1>3. Cells \in Seq(Ball) /\ Len(Cells) = n /\ DOMAIN Cells = 1 .. n
    <2>1. Cells \in [1 .. n -> Ball]
      BY <1>1, <1>2
    <2> QED
      BY <1>2, <2>1, FunctionIsSeq
  <1>4. eaten \in Seq(Ball) /\ ToSet(eaten) = {}
    <2>1. eaten = <<>>
      BY DEF Init
    <2>2. <<>> \in Seq(Ball) /\ DOMAIN <<>> = {}
      BY EmptySeq
    <2> QED
      BY <2>1, <2>2 DEF ToSet
  <1>5. /\ pc = "outer" /\ myLoop = 0 /\ loop = 0 /\ cell = 0 /\ eater = 0
    BY DEF Init
  <1>6. TypeOK
    BY <1>1, <1>2, <1>3, <1>4, <1>5 DEF TypeOK
  <1>7. IndicesValid
    <2>1. 0 \notin Ball
      BY <1>2
    <2>2. \A i \in 1 .. n : Cells[i] = i
      BY <1>1
    <2> QED
      BY <1>3, <1>5, <2>1, <2>2 DEF IndicesValid
  <1>8. EatenAreGone
    BY <1>4 DEF EatenAreGone
  <1>9. EaterRemains /\ EaterBehind
    BY <1>5 DEF EaterRemains, EaterBehind, Init
  <1> QED
    BY <1>6, <1>7, <1>8, <1>9 DEF CollisionInv

\* The steps of the loops that eat nothing.
LEMMA LoopSteps ==
  ASSUME CollisionInv, EnterOuter \/ Return \/ EndInner \/ Pass
  PROVE  CollisionInv'
  <1>0. UNCHANGED <<Cells, Size, ready, eaten, eater>>
    BY DEF EnterOuter, Return, EndInner, Pass, history
  <1>1. CASE EnterOuter
    <2>1. /\ myLoop \in 0 .. Len(Cells) - 1 /\ UNCHANGED myLoop /\ loop' = myLoop + 1
          /\ pc' = "inner" /\ cell' = Cells[myLoop + 1]
      BY <1>1, CollisionTypes DEF EnterOuter, At, CollisionInv, IndicesValid
    <2>2. cell' \in Ball /\ cell' # 0
      <3>1. cell' \in Ball
        BY <2>1, CollisionTypes
      <3> QED
        BY <3>1 DEF CollisionInv, IndicesValid, TypeOK
    <2>3. 1 <= myLoop + 1 /\ myLoop < myLoop + 1 /\ myLoop < Len(Cells) /\ myLoop + 1 \in Nat
      BY <2>1, CollisionTypes
    <2>4. cell' \notin ToSet(eaten)
      <3>1. myLoop + 1 \in 1 .. Len(Cells)
        BY <2>1, CollisionTypes
      <3>2. \A k \in 1 .. Len(Cells) : Cells[k] \in ToSet(Cells)
        BY CollisionTypes DEF ToSet
      <3>3. cell' \in ToSet(Cells)
        BY <2>1, <3>1, <3>2
      <3> QED
        BY <3>3 DEF CollisionInv, EatenAreGone
    <2>5. TypeOK'
      BY <1>0, <2>1, <2>2, <2>3 DEF CollisionInv, TypeOK, Ball
    <2>6. IndicesValid'
      BY <1>0, <2>1, <2>3 DEF CollisionInv, IndicesValid, Ball, At
    <2>7. EatenAreGone' /\ EaterRemains' /\ EaterBehind'
      BY <1>0, <2>4 DEF CollisionInv, EatenAreGone, EaterRemains, EaterBehind
    <2> QED
      BY <2>5, <2>6, <2>7 DEF CollisionInv
  <1>2. CASE Return
    BY <1>0, <1>2 DEF Return, CollisionInv, TypeOK, IndicesValid, EatenAreGone, EaterRemains,
                      EaterBehind, Ball
  <1>3. CASE EndInner
    <2>1. /\ myLoop' = myLoop + 1 /\ pc' = "outer" /\ UNCHANGED <<loop, cell>>
          /\ myLoop \in -1 .. Len(Cells) - 1
      BY <1>3, CollisionTypes DEF EndInner, CollisionInv, IndicesValid
    <2>2. myLoop' \in 0 .. Len(Cells) /\ myLoop' \in -1 .. Len(Cells) /\ myLoop' >= 0
      BY <2>1, CollisionTypes
    <2> QED
      BY <1>0, <2>1, <2>2 DEF CollisionInv, TypeOK, IndicesValid, EatenAreGone, EaterRemains,
                              EaterBehind, Ball
  <1>4. CASE Pass
    <2>1. pc = "inner" /\ loop' = loop + 1 /\ UNCHANGED <<pc, myLoop, cell>>
      BY <1>4 DEF Pass, Comparing
    <2>2. /\ loop' \in Nat /\ (myLoop < loop => myLoop < loop') /\ 1 <= loop'
          /\ \A i \in 1 .. Len(Cells) : i <= loop => i <= loop'
      BY <2>1, CollisionTypes
    <2>3. TypeOK'
      BY <1>0, <2>1, <2>2 DEF CollisionInv, TypeOK, Ball
    <2>4. IndicesValid'
      BY <1>0, <2>1, <2>2 DEF CollisionInv, IndicesValid, Ball, At
    <2>5. EatenAreGone' /\ EaterRemains' /\ EaterBehind'
      BY <1>0, <2>1, <2>2 DEF CollisionInv, EatenAreGone, EaterRemains, EaterBehind
    <2> QED
      BY <2>3, <2>4, <2>5 DEF CollisionInv
  <1> QED
    BY <1>1, <1>2, <1>3, <1>4

\* cell eats: the other one leaves with its event, and the outer index is not moved.
LEMMA EatOtherStep ==
  ASSUME CollisionInv, EatOther
  PROVE  CollisionInv'
  <1> DEFINE e == loop + 1
             x == Cells[e]
             t == RemoveAt(Cells, e)
  <1>1. /\ pc = "inner" /\ loop < Len(Cells) /\ myLoop < loop /\ 1 <= loop
        /\ cell \in Ball /\ cell # 0 /\ cell \in ready
    BY DEF EatOther, Comparing, MayCombine, CollisionInv, IndicesValid, TypeOK
  <1>2. e \in 1 .. Len(Cells) /\ x \in Ball
    BY <1>1, CollisionTypes
  <1>3. /\ Cells' = t /\ eaten' = Append(eaten, x) /\ eater' = cell
        /\ Size' = [Size EXCEPT ![cell] = Size[cell] + Size[x]]
        /\ UNCHANGED <<pc, ready, myLoop, loop, cell>>
    BY DEF EatOther, At, Erase
  <1>4. /\ t \in Seq(Ball) /\ Len(t) = Len(Cells) - 1 /\ DOMAIN t = 1 .. Len(Cells) - 1
        /\ \A i, j \in DOMAIN t : t[i] = t[j] => i = j
        /\ \A i \in 1 .. Len(Cells) - 1 : i < e => t[i] = Cells[i]
        /\ x \notin ToSet(t) /\ ToSet(t) \subseteq ToSet(Cells)
    <2>1. Cells \in Seq(Ball) /\ \A i, j \in 1 .. Len(Cells) : Cells[i] = Cells[j] => i = j
      BY CollisionTypes
    <2> HIDE DEF e
    <2> QED
      BY <1>2, <2>1, ErasedFacts
  <1>5. eaten' \in Seq(Ball) /\ ToSet(eaten') = ToSet(eaten) \cup {x}
    BY <1>2, <1>3, CollisionTypes, AppendedFacts
  <1>6. DOMAIN Size' = Ball /\ Size' \in [Ball -> Nat]
    <2> DEFINE s == Size[cell] + Size[x]
    <2>1. s \in Nat
      BY <1>1, <1>2, CollisionTypes
    <2> HIDE DEF s
    <2>2. Size' = [Size EXCEPT ![cell] = s] /\ Size \in [Ball -> Nat]
      BY <1>3 DEF s, CollisionInv, TypeOK
    <2> QED
      BY <2>1, <2>2
  <1> HIDE DEF t, x
  <1>7. /\ myLoop \in -1 .. Len(Cells) - 1 /\ myLoop < Len(Cells) - 1
        /\ myLoop >= 0 => myLoop + 1 \in 1 .. Len(Cells) - 1 /\ myLoop + 1 < e
    BY <1>1, CollisionTypes
  <1>8. TypeOK'
    BY <1>1, <1>3, <1>4, <1>5, <1>6, <1>7 DEF CollisionInv, TypeOK, Ball
  <1>9. IndicesValid'
    <2>1. cell \in ToSet(eaten') \/ (myLoop >= 0 /\ t[myLoop + 1] = cell)
      BY <1>1, <1>4, <1>5, <1>7 DEF CollisionInv, IndicesValid, At
    <2> QED
      BY <1>1, <1>3, <1>4, <1>6, <1>7, <2>1 DEF CollisionInv, IndicesValid, Ball, At
  <1>10. EatenAreGone'
    BY <1>3, <1>4, <1>5 DEF CollisionInv, EatenAreGone
  <1>11. PICK i \in 1 .. Len(Cells) - 1 : i <= loop /\ t[i] \in ready
    <2>1. CASE cell \in ToSet(eaten)
      <3>1. PICK i \in 1 .. Len(Cells) : i <= loop /\ Cells[i] \in ready
        BY <1>1, <2>1 DEF CollisionInv, EaterBehind
      <3>2. i \in 1 .. Len(Cells) - 1 /\ i < e
        BY <1>1, <3>1, CollisionTypes
      <3> QED
        BY <1>4, <3>1, <3>2
    <2>2. CASE cell \notin ToSet(eaten)
      <3>1. myLoop >= 0 /\ Cells[myLoop + 1] = cell
        BY <1>1, <2>2 DEF CollisionInv, IndicesValid, At
      <3>2. myLoop + 1 <= loop
        BY <1>1, CollisionTypes
      <3> QED
        BY <1>1, <1>4, <1>7, <3>1, <3>2
    <2> QED
      BY <2>1, <2>2
  <1>12. EaterRemains' /\ EaterBehind'
    BY <1>3, <1>4, <1>11 DEF EaterRemains, EaterBehind, ToSet
  <1> QED
    BY <1>8, <1>9, <1>10, <1>12 DEF CollisionInv

\* What the else branch erases: the cell the outer index points to, or, where it
\* points to none, the first.
LEMMA ErasedByIndex ==
  ASSUME CollisionInv, BeEaten
  PROVE  LET e == IF myLoop >= 0 THEN myLoop + 1 ELSE 1 IN
           e \in 1 .. Len(Cells) /\ Cells' = RemoveAt(Cells, e)
  <1>1. loop < Len(Cells) /\ myLoop < Len(Cells) /\ 1 <= loop
    BY DEF BeEaten, Comparing, CollisionInv, IndicesValid
  <1>2. /\ Cells \in Seq(Ball) /\ Len(Cells) \in Nat /\ myLoop \in Int /\ 1 \in 1 .. Len(Cells)
        /\ myLoop >= 0 => myLoop + 1 \in 1 .. Len(Cells)
    BY <1>1, CollisionTypes
  <1>3. CASE myLoop >= 0
    <2>1. Cells' = Erase(myLoop)
      BY <1>2, <1>3 DEF BeEaten, EraseMine
    <2> QED
      BY <1>2, <1>3, <2>1 DEF Erase
  <1>4. CASE ~(myLoop >= 0)
    <2> DEFINE n == Len(Cells)
    <2>1. Cells' = Tail(Cells)
      BY <1>4 DEF BeEaten, EraseMine
    <2>2. n \in Nat /\ n >= 1 /\ Cells # <<>>
      BY <1>1, <1>2, EmptySeq
    <2>3. /\ Tail(Cells) \in Seq(Ball) /\ Len(Tail(Cells)) = n - 1
          /\ \A i \in 1 .. n - 1 : Tail(Cells)[i] = Cells[i + 1]
      BY <1>2, <2>2, HeadTailProperties
    <2>4. /\ RemoveAt(Cells, 1) \in Seq(Ball) /\ Len(RemoveAt(Cells, 1)) = n - 1
          /\ \A i \in 1 .. n - 1 : RemoveAt(Cells, 1)[i] = Cells[i + 1]
      <3>1. 1 \in 1 .. n /\ \A i \in 1 .. n - 1 : ~(i < 1)
        BY <2>2
      <3> QED
        BY <1>2, <3>1, RemoveAtFacts
    <2>5. Tail(Cells) = RemoveAt(Cells, 1)
      BY <2>2, <2>3, <2>4, SeqEqual
    <2> QED
      BY <1>2, <1>4, <2>1, <2>5
  <1> QED
    BY <1>3, <1>4

\* The else branch: cell is eaten, and erased if the outer index still points to it.
LEMMA BeEatenStep ==
  ASSUME CollisionInv, BeEaten
  PROVE  CollisionInv'
  <1> DEFINE e == IF myLoop >= 0 THEN myLoop + 1 ELSE 1
             x == Cells[loop + 1]
             t == RemoveAt(Cells, e)
  <1>1. /\ pc = "inner" /\ loop < Len(Cells) /\ myLoop < loop /\ myLoop < Len(Cells)
        /\ 1 <= loop /\ cell \in Ball /\ cell # 0 /\ x \in ready
    BY DEF BeEaten, Comparing, MayCombine, At, CollisionInv, IndicesValid, TypeOK
  <1>2. e \in 1 .. Len(Cells) /\ loop + 1 \in 1 .. Len(Cells) /\ x \in Ball
    BY <1>1, CollisionTypes
  <1>3. /\ eaten' = Append(eaten, cell) /\ eater' = x
        /\ Size' = [Size EXCEPT ![x] = Size[x] + Size[cell]]
        /\ myLoop' = StepBack /\ loop' = loop + 1 /\ UNCHANGED <<ready, cell>>
        /\ pc' \in {"inner", "crashed"}
    BY <1>1 DEF BeEaten, At, EraseMine
  <1>4. Cells' = t
    BY ErasedByIndex
  <1>5. /\ t \in Seq(Ball) /\ Len(t) = Len(Cells) - 1 /\ DOMAIN t = 1 .. Len(Cells) - 1
        /\ \A i, j \in DOMAIN t : t[i] = t[j] => i = j
        /\ \A i \in 1 .. Len(Cells) - 1 : i >= e => t[i] = Cells[i + 1]
        /\ Cells[e] \notin ToSet(t) /\ ToSet(t) \subseteq ToSet(Cells)
    <2>1. Cells \in Seq(Ball) /\ \A i, j \in 1 .. Len(Cells) : Cells[i] = Cells[j] => i = j
      BY CollisionTypes
    <2> HIDE DEF e
    <2>2. e \in 1 .. Len(Cells)
      BY <1>2
    <2> QED
      BY <2>1, <2>2, ErasedFacts
  <1>6. cell \notin ToSet(t)
    <2>1. CASE cell \in ToSet(eaten)
      BY <1>5, <2>1 DEF CollisionInv, EatenAreGone
    <2>2. CASE cell \notin ToSet(eaten)
      <3>1. Cells[e] = cell
        BY <1>1, <2>2 DEF CollisionInv, IndicesValid, At
      <3> QED
        BY <1>5, <3>1
    <2> QED
      BY <2>1, <2>2
  <1>7. eaten' \in Seq(Ball) /\ ToSet(eaten') = ToSet(eaten) \cup {cell}
    BY <1>1, <1>3, CollisionTypes, AppendedFacts
  <1>8. DOMAIN Size' = Ball /\ Size' \in [Ball -> Nat]
    <2> DEFINE s == Size[x] + Size[cell]
    <2>1. s \in Nat
      BY <1>1, <1>2, CollisionTypes
    <2> HIDE DEF s, x
    <2>2. Size' = [Size EXCEPT ![x] = s] /\ Size \in [Ball -> Nat]
      BY <1>3 DEF s, CollisionInv, TypeOK
    <2> QED
      BY <1>2, <2>1, <2>2
  <1>13. loop \in 1 .. Len(Cells) - 1 /\ t[loop] \in ready
    <2>1. loop \in 1 .. Len(Cells) - 1 /\ loop >= e
      BY <1>1, CollisionTypes
    <2> QED
      BY <1>1, <1>5, <2>1
  <1> HIDE DEF t, x, e
  <1>9. /\ myLoop' \in -1 .. Len(Cells) - 1 /\ myLoop' < loop' /\ myLoop' < Len(Cells) - 1
        /\ loop' \in Nat /\ 1 <= loop' /\ loop <= loop'
    BY <1>1, <1>3, CollisionTypes DEF StepBack
  <1>10. TypeOK'
    BY <1>1, <1>2, <1>3, <1>4, <1>5, <1>7, <1>8, <1>9 DEF CollisionInv, TypeOK, Ball
  <1>11. IndicesValid'
    BY <1>3, <1>4, <1>5, <1>7, <1>8, <1>9 DEF CollisionInv, IndicesValid, Ball
  <1>12. EatenAreGone'
    BY <1>4, <1>5, <1>6, <1>7 DEF CollisionInv, EatenAreGone
  <1>14. EaterRemains' /\ EaterBehind'
    BY <1>3, <1>4, <1>5, <1>9, <1>13 DEF EaterRemains, EaterBehind, ToSet
  <1> QED
    BY <1>10, <1>11, <1>12, <1>14 DEF CollisionInv

-----------------------------------------------------------------------------
\* CollisionInv holds in every state of every call.
THEOREM CollisionInvariant == Spec => []CollisionInv
  <1>1. Init => CollisionInv
    BY InitCollision
  <1>2. CollisionInv /\ [Next]_vars => CollisionInv'
    <2> SUFFICES ASSUME CollisionInv, [Next]_vars
                 PROVE  CollisionInv'
      OBVIOUS
    <2>1. CASE UNCHANGED vars
      BY <2>1 DEF vars, history, CollisionInv, TypeOK, IndicesValid, EatenAreGone, EaterRemains,
                    EaterBehind, Ball, At
    <2>2. CASE Next
      BY <2>2, LoopSteps, EatOtherStep, BeEatenStep DEF Next
    <2> QED
      BY <2>1, <2>2
  <1> QED
    BY <1>1, <1>2, PTL DEF Spec

\* The indices of CollideSelf stay within the vector or just before it.
THEOREM CollisionTypesKept == Spec => []TypeOK
  <1>1. CollisionInv => TypeOK
    BY DEF CollisionInv
  <1> QED
    BY <1>1, CollisionInvariant, PTL

\* However many cells there are, a cell with a removal event is out of the vector.
THEOREM EatenLeave == Spec => []EatenAreGone
  <1>1. CollisionInv => EatenAreGone
    BY DEF CollisionInv
  <1> QED
    BY <1>1, CollisionInvariant, PTL

\* And a merge leaves the player with a cell that can collide.
THEOREM EaterStays == Spec => []EaterRemains
  <1>1. CollisionInv => EaterRemains
    BY DEF CollisionInv
  <1> QED
    BY <1>1, CollisionInvariant, PTL

-----------------------------------------------------------------------------
(* What one step that eats does to the vector, in the terms of the         *)
(* properties below.                                                       *)

\* cell eats the one the inner index points to.
LEMMA OtherEaten ==
  ASSUME CollisionInv, EatOther
  PROVE  LET x == Cells[loop + 1] IN
           /\ loop \in 1 .. Len(Cells) - 1 /\ myLoop < loop /\ pc = "inner"
           /\ {cell, x} \subseteq ready /\ x \in ToSet(Cells) /\ cell # x
           /\ Len(Cells') = Len(Cells) - 1 /\ ToSet(Cells') = ToSet(Cells) \ {x}
           /\ \A i \in 1 .. Len(Cells') : Cells'[i] = IF i <= loop THEN Cells[i] ELSE Cells[i + 1]
           /\ Len(eaten') = Len(eaten) + 1 /\ ToSet(eaten') = ToSet(eaten) \cup {x}
           /\ Size' = [Size EXCEPT ![cell] = Size[cell] + Size[x]] /\ Ball' = Ball
           /\ misled' = (misled \/ Stale)
           /\ UNCHANGED <<pc, ready, myLoop, loop, cell, total, apart>>
  <1> DEFINE x == Cells[loop + 1]
  <1>1. /\ pc = "inner" /\ loop < Len(Cells) /\ myLoop < loop /\ 1 <= loop
        /\ {cell, x} \subseteq ready /\ cell # 0
    BY DEF EatOther, Comparing, MayCombine, At, CollisionInv, IndicesValid, TypeOK
  <1>2. /\ loop \in 1 .. Len(Cells) - 1 /\ loop + 1 \in 1 .. Len(Cells) /\ x \in Ball
        /\ Len(Cells) \in Nat
    BY <1>1, CollisionTypes
  <1>3. x \in ToSet(Cells)
    BY <1>2, CollisionTypes DEF ToSet
  <1>4. cell # x
    <2>1. CASE cell \in ToSet(eaten)
      BY <1>3, <2>1 DEF CollisionInv, EatenAreGone
    <2>2. CASE cell \notin ToSet(eaten)
      <3>1. myLoop >= 0 /\ Cells[myLoop + 1] = cell
        BY <1>1, <2>2 DEF CollisionInv, IndicesValid, At
      <3>2. myLoop + 1 \in 1 .. Len(Cells) /\ myLoop + 1 # loop + 1
        BY <1>1, <1>2, <3>1, CollisionTypes
      <3> QED
        BY <1>2, <3>1, <3>2, CollisionTypes
    <2> QED
      BY <2>1, <2>2
  <1>5. /\ Cells' = RemoveAt(Cells, loop + 1) /\ eaten' = Append(eaten, x)
        /\ Size' = [Size EXCEPT ![cell] = Size[cell] + Size[x]]
        /\ misled' = (misled \/ Stale)
        /\ UNCHANGED <<pc, ready, myLoop, loop, cell, total, apart>>
    BY DEF EatOther, At, Erase
  <1>6. /\ Len(Cells') = Len(Cells) - 1 /\ ToSet(Cells') = ToSet(Cells) \ {x}
        /\ \A i \in 1 .. Len(Cells) - 1 : i < loop + 1 => Cells'[i] = Cells[i]
        /\ \A i \in 1 .. Len(Cells) - 1 : i >= loop + 1 => Cells'[i] = Cells[i + 1]
    <2> DEFINE e == loop + 1
               t == RemoveAt(Cells, e)
    <2>1. /\ Cells \in Seq(Ball) /\ e \in 1 .. Len(Cells)
          /\ \A i, j \in 1 .. Len(Cells) : Cells[i] = Cells[j] => i = j
      BY <1>2, CollisionTypes
    <2> HIDE DEF e
    <2>2. /\ Len(t) = Len(Cells) - 1 /\ ToSet(t) = ToSet(Cells) \ {Cells[e]}
          /\ \A i \in 1 .. Len(Cells) - 1 : i < e => t[i] = Cells[i]
          /\ \A i \in 1 .. Len(Cells) - 1 : i >= e => t[i] = Cells[i + 1]
      BY <2>1, ErasedFacts
    <2>3. Cells' = t
      BY <1>5 DEF e
    <2> QED
      BY <2>2, <2>3 DEF e
  <1> HIDE DEF x
  <1>7. \A i \in 1 .. Len(Cells') : Cells'[i] = IF i <= loop THEN Cells[i] ELSE Cells[i + 1]
    <2>1. \A i \in 1 .. Len(Cells) - 1 :
            (i <= loop => i < loop + 1) /\ (~(i <= loop) => i >= loop + 1)
      BY <1>2
    <2> QED
      BY <1>6, <2>1
  <1>8. Len(eaten') = Len(eaten) + 1 /\ ToSet(eaten') = ToSet(eaten) \cup {x}
    BY <1>2, <1>5, CollisionTypes, AppendedFacts, AppendProperties
  <1>9. Ball' = Ball
    BY <1>5 DEF Ball
  <1> QED
    BY <1>1, <1>2, <1>3, <1>4, <1>5, <1>6, <1>7, <1>8, <1>9 DEF x

\* cell is eaten, while the outer index still points to it.
LEMMA MineEaten ==
  ASSUME CollisionInv, BeEaten, ~Stale
  PROVE  LET x == Cells[loop + 1] IN
           /\ loop \in 1 .. Len(Cells) - 1 /\ myLoop \in 0 .. loop - 1 /\ pc = "inner"
           /\ {cell, x} \subseteq ready /\ {cell, x} \subseteq ToSet(Cells) /\ cell # x
           /\ Len(Cells') = Len(Cells) - 1 /\ ToSet(Cells') = ToSet(Cells) \ {cell}
           /\ \A i \in 1 .. Len(Cells') : Cells'[i] = IF i <= myLoop THEN Cells[i] ELSE Cells[i + 1]
           /\ Len(eaten') = Len(eaten) + 1 /\ ToSet(eaten') = ToSet(eaten) \cup {cell}
           /\ Size' = [Size EXCEPT ![x] = Size[x] + Size[cell]] /\ Ball' = Ball
           /\ (misled' <=> misled) /\ myLoop' = myLoop - 1 /\ loop' = loop + 1
           /\ UNCHANGED <<pc, ready, cell, total, apart>>
  <1> DEFINE x == Cells[loop + 1]
  <1>1. /\ pc = "inner" /\ loop < Len(Cells) /\ myLoop < loop /\ 1 <= loop
        /\ {cell, x} \subseteq ready /\ cell # 0 /\ cell \in Ball
        /\ myLoop >= 0 /\ Cells[myLoop + 1] = cell
    BY DEF BeEaten, Comparing, MayCombine, At, CollisionInv, IndicesValid, TypeOK, Stale
  <1>2. /\ loop \in 1 .. Len(Cells) - 1 /\ loop + 1 \in 1 .. Len(Cells)
        /\ myLoop + 1 \in 1 .. Len(Cells) /\ Len(Cells) \in Nat
        /\ myLoop \in 0 .. loop - 1 /\ myLoop + 1 # loop + 1
    BY <1>1, CollisionTypes
  <1>3. {cell, x} \subseteq ToSet(Cells)
    BY <1>1, <1>2, CollisionTypes DEF ToSet
  <1>4. cell # x
    BY <1>1, <1>2, CollisionTypes
  <1>5. /\ Cells' = RemoveAt(Cells, myLoop + 1) /\ eaten' = Append(eaten, cell)
        /\ Size' = [Size EXCEPT ![x] = Size[x] + Size[cell]]
        /\ (misled' <=> misled) /\ loop' = loop + 1 /\ myLoop' = StepBack
        /\ UNCHANGED <<pc, ready, cell, total, apart>>
    <2>1. EraseMine /\ myLoop \in Int
      BY <1>2 DEF BeEaten
    <2>2. Cells' = Erase(myLoop) /\ pc' = pc
      BY <1>2, <2>1 DEF EraseMine
    <2>3. misled' <=> misled
      BY DEF BeEaten
    <2> QED
      BY <2>2, <2>3 DEF BeEaten, At, Erase
  <1>6. myLoop' = myLoop - 1
    BY <1>2, <1>5 DEF StepBack
  <1>7. /\ Len(Cells') = Len(Cells) - 1 /\ ToSet(Cells') = ToSet(Cells) \ {cell}
        /\ \A i \in 1 .. Len(Cells) - 1 : i < myLoop + 1 => Cells'[i] = Cells[i]
        /\ \A i \in 1 .. Len(Cells) - 1 : i >= myLoop + 1 => Cells'[i] = Cells[i + 1]
    <2> DEFINE e == myLoop + 1
    <2>1. /\ Cells \in Seq(Ball) /\ e \in 1 .. Len(Cells) /\ Cells[e] = cell
          /\ \A i, j \in 1 .. Len(Cells) : Cells[i] = Cells[j] => i = j
          /\ Cells' = RemoveAt(Cells, e)
      BY <1>1, <1>2, <1>5, CollisionTypes
    <2> HIDE DEF e
    <2> DEFINE t == RemoveAt(Cells, e)
    <2>2. /\ Len(t) = Len(Cells) - 1 /\ ToSet(t) = ToSet(Cells) \ {Cells[e]}
          /\ \A i \in 1 .. Len(Cells) - 1 : i < e => t[i] = Cells[i]
          /\ \A i \in 1 .. Len(Cells) - 1 : i >= e => t[i] = Cells[i + 1]
      BY <2>1, ErasedFacts
    <2> HIDE DEF t
    <2>3. Cells' = t /\ Cells[e] = cell
      BY <2>1 DEF t
    <2> QED
      BY <2>2, <2>3 DEF e
  <1> HIDE DEF x
  <1>8. \A i \in 1 .. Len(Cells') : Cells'[i] = IF i <= myLoop THEN Cells[i] ELSE Cells[i + 1]
    <2>1. \A i \in 1 .. Len(Cells) - 1 :
            (i <= myLoop => i < myLoop + 1) /\ (~(i <= myLoop) => i >= myLoop + 1)
      BY <1>2
    <2> QED
      BY <1>7, <2>1
  <1>9. Len(eaten') = Len(eaten) + 1 /\ ToSet(eaten') = ToSet(eaten) \cup {cell}
    BY <1>1, <1>5, CollisionTypes, AppendedFacts, AppendProperties
  <1>10. Ball' = Ball
    BY <1>5 DEF Ball
  <1> QED
    BY <1>1, <1>2, <1>3, <1>4, <1>5, <1>6, <1>7, <1>8, <1>9, <1>10 DEF x

-----------------------------------------------------------------------------
(* What the call keeps as long as the stale pointer is not used            *)

\* The cells of the vector, as a finite set of sizes.
LEMMA CellsSummed ==
  ASSUME MergeInv
  PROVE  /\ ToSet(Cells) \subseteq Ball /\ IsFiniteSet(ToSet(Cells))
         /\ \A x \in ToSet(Cells) : Size[x] \in Nat
         /\ Len(Cells) \in Nat /\ Len(eaten) \in Nat /\ Cardinality(Ball) \in Nat
  <1>1. ToSet(Cells) \subseteq Ball /\ Len(Cells) \in Nat /\ Len(eaten) \in Nat
    BY CollisionTypes, LenProperties DEF MergeInv, ToSet
  <1>2. IsFiniteSet(ToSet(Cells)) /\ Cardinality(Ball) \in Nat
    BY <1>1, FS_Subset, FS_CardinalityType DEF MergeInv
  <1> QED
    BY <1>1, <1>2, CollisionTypes DEF MergeInv

LEMMA InitMerge ==
  ASSUME Init
  PROVE  MergeInv
  <1>1. PICK n \in Counts :
          /\ Cells = [i \in 1 .. n |-> i] /\ Size \in [1 .. n -> Sizes]
          /\ total = Mass(1 .. n, Size)
    BY DEF Init
  <1>2. n \in Nat /\ Ball = 1 .. n /\ IsFiniteSet(Ball) /\ Cardinality(Ball) = n
    BY <1>1, CollisionAssumption, FS_Interval DEF Ball
  <1>3. Len(Cells) = n /\ ToSet(Cells) = 1 .. n
    <2>1. Cells \in [1 .. n -> 1 .. n] /\ \A i \in 1 .. n : Cells[i] = i
      BY <1>1
    <2>2. Len(Cells) = n /\ DOMAIN Cells = 1 .. n
      BY <1>2, <2>1, FunctionIsSeq
    <2> QED
      BY <2>1, <2>2 DEF ToSet
  <1>4. eaten = <<>> /\ pc = "outer" /\ myLoop = 0 /\ ~misled
    BY DEF Init
  <1>5. CollisionInv
    BY InitCollision
  <1>6. MassKept
    BY <1>1, <1>3 DEF MassKept
  <1>7. LeavesWithEvent
    <2>1. eaten \in Seq(Ball \ ToSet(Cells)) /\ Len(eaten) = 0
      BY <1>4, EmptySeq
    <2> QED
      BY <1>2, <1>3, <2>1 DEF LeavesWithEvent
  <1>8. PairsSettled
    <2>1. \A i \in 1 .. Len(Cells) : ~(i <= myLoop)
      BY <1>2, <1>3, <1>4
    <2> QED
      BY <1>4, <2>1 DEF PairsSettled
  <1>9. FewEnd
    BY <1>4 DEF FewEnd
  <1> QED
    BY <1>2, <1>5, <1>6, <1>7, <1>8, <1>9 DEF MergeInv

\* The steps that eat nothing: the pairs they leave behind are settled.
LEMMA LoopsMerge ==
  ASSUME MergeInv, EnterOuter \/ Return \/ EndInner \/ Pass
  PROVE  MergeInv'
  <1>0. UNCHANGED <<Cells, Size, ready, eaten, total, misled>> /\ Ball' = Ball
    BY DEF EnterOuter, Return, EndInner, Pass, history, Ball
  <1>1. CollisionInv'
    BY LoopSteps DEF MergeInv
  <1>2. IsFiniteSet(Ball)' /\ MassKept' /\ LeavesWithEvent'
    BY <1>0 DEF MergeInv, MassKept, LeavesWithEvent
  <1>3. \A i : Settled(i)' <=> Settled(i)
    BY <1>0 DEF Settled
  <1>4. CollisionInv /\ PairsSettled /\ FewEnd
    BY DEF MergeInv
  <1>5. Len(Cells) \in Nat /\ myLoop \in -1 .. Len(Cells) /\ loop \in Nat
    BY <1>4, CollisionTypes
  <1>6. CASE EnterOuter
    <2>1. /\ pc' = "inner" /\ loop' = myLoop + 1 /\ cell' = Cells[myLoop + 1]
          /\ UNCHANGED <<myLoop, apart>>
      BY <1>6 DEF EnterOuter, At, history
    <2>2. cell' \notin ToSet(eaten)
      <3>1. myLoop >= 0 /\ myLoop < Len(Cells)
        BY <1>4, <1>6 DEF EnterOuter, CollisionInv, IndicesValid
      <3>2. cell' \in ToSet(Cells)
        BY <1>4, <1>5, <2>1, <3>1, CollisionTypes DEF ToSet
      <3> QED
        BY <1>4, <3>2 DEF CollisionInv, EatenAreGone
    <2>3. ~Stale'
      BY <1>0, <2>2 DEF Stale
    <2>4. \A j \in myLoop' + 2 .. Len(Cells') : ~(j <= loop')
      BY <1>0, <1>5, <2>1
    <2>5. PairsSettled'
      BY <1>0, <1>3, <1>4, <2>1, <2>3, <2>4 DEF PairsSettled
    <2>6. FewEnd'
      BY <1>0, <1>4, <2>3 DEF FewEnd
    <2> QED
      BY <1>1, <1>2, <2>5, <2>6 DEF MergeInv
  <1>7. CASE Return
    <2>1. /\ pc' = "done" /\ myLoop >= Len(Cells) /\ UNCHANGED <<myLoop, apart>>
      BY <1>7 DEF Return, history
    <2>2. PairsSettled' /\ FewEnd'
      BY <1>0, <1>3, <1>4, <2>1 DEF PairsSettled, FewEnd
    <2> QED
      BY <1>1, <1>2, <2>2 DEF MergeInv
  <1>8. CASE EndInner
    <2>1. /\ pc = "inner" /\ loop >= Len(Cells) /\ myLoop' = myLoop + 1 /\ pc' = "outer"
          /\ UNCHANGED apart
      BY <1>8 DEF EndInner, history
    <2>2. ASSUME ~misled, ~apart, NEW i \in 1 .. Len(Cells), i <= myLoop + 1
          PROVE  Settled(i)
      <3>1. CASE Stale
        BY <1>4, <2>1, <2>2, <3>1 DEF PairsSettled
      <3>2. CASE ~Stale /\ i <= myLoop
        BY <1>4, <2>2, <3>2 DEF PairsSettled
      <3>3. CASE ~Stale /\ i = myLoop + 1
        <4>1. Cells[i] = cell
          BY <1>4, <2>1, <3>3 DEF CollisionInv, IndicesValid, Stale, At
        <4>2. \A j \in i + 1 .. Len(Cells) : j \in myLoop + 2 .. Len(Cells) /\ j <= loop
          BY <1>5, <2>1, <3>3
        <4> QED
          BY <1>4, <2>1, <2>2, <3>3, <4>1, <4>2 DEF PairsSettled, Settled
      <3> QED
        BY <1>5, <2>2, <3>1, <3>2, <3>3
    <2>3. PairsSettled'
      BY <1>0, <1>3, <2>1, <2>2 DEF PairsSettled
    <2>4. FewEnd'
      BY <1>0, <1>4, <2>1 DEF FewEnd
    <2> QED
      BY <1>1, <1>2, <2>3, <2>4 DEF MergeInv
  <1>9. CASE Pass
    <2>1. /\ pc = "inner" /\ loop < Len(Cells) /\ loop' = loop + 1
          /\ apart' = (apart \/ MayCombine) /\ UNCHANGED <<pc, myLoop, cell>>
      BY <1>9 DEF Pass, Comparing
    <2>2. Stale' <=> Stale
      BY <1>0, <2>1 DEF Stale
    <2>3. ASSUME ~misled, ~apart', ~Stale, NEW j \in myLoop + 2 .. Len(Cells), j <= loop + 1
          PROVE  ~({cell, Cells[j]} \subseteq ready)
      <3>1. CASE j <= loop
        BY <1>4, <2>1, <2>3, <3>1 DEF PairsSettled
      <3>2. CASE j = loop + 1
        BY <2>1, <2>3, <3>2 DEF MayCombine, At
      <3> QED
        BY <1>5, <2>3, <3>1, <3>2
    <2>4. PairsSettled'
      <3>1. ~apart' => ~apart
        BY <2>1
      <3> QED
        BY <1>0, <1>3, <1>4, <2>1, <2>2, <2>3, <3>1 DEF PairsSettled
    <2>5. FewEnd'
      BY <1>0, <1>4, <1>5, <2>1, <2>2 DEF FewEnd
    <2> QED
      BY <1>1, <1>2, <2>4, <2>5 DEF MergeInv
  <1> QED
    BY <1>6, <1>7, <1>8, <1>9

\* One eats another: the sums and the count of the events.
LEMMA MassPassedOn ==
  ASSUME MergeInv, ~misled, NEW x \in ToSet(Cells), NEW y \in ToSet(Cells), x # y,
         ToSet(Cells') = ToSet(Cells) \ {y}, Len(Cells') = Len(Cells) - 1,
         Size' = [Size EXCEPT ![x] = Size[x] + Size[y]],
         eaten' \in Seq(Ball), Len(eaten') = Len(eaten) + 1,
         ToSet(eaten') = ToSet(eaten) \cup {y}, total' = total
  PROVE  MassKept' /\ LeavesWithEvent'
  <1>1. CollisionInv /\ MassKept /\ LeavesWithEvent
    BY DEF MergeInv
  <1>2. Ball' = Ball
    BY DEF Ball
  <1>3. MassKept'
    <2>1. /\ Size'[x] = Size[x] + Size[y]
          /\ \A z \in ToSet(Cells) : z # x /\ z # y => Size'[z] = Size[z]
      <3>1. ToSet(Cells) \subseteq DOMAIN Size
        BY CellsSummed DEF Ball
      <3> QED
        BY <3>1
    <2> DEFINE S == ToSet(Cells)
               g == Size'
    <2>2. /\ IsFiniteSet(S) /\ \A z \in S : Size[z] \in Nat
          /\ x \in S /\ y \in S /\ x # y /\ g[x] = Size[x] + Size[y]
          /\ \A z \in S : z # x /\ z # y => g[z] = Size[z]
      BY <2>1, CellsSummed
    <2> HIDE DEF S, g
    <2>3. SumFunctionOnSet(g, S \ {y}) = SumFunctionOnSet(Size, S)
      BY <2>2, SumMoved
    <2> QED
      BY <1>1, <2>3 DEF MassKept, Mass, S, g
  <1>4. Len(eaten') = Cardinality(Ball') - Len(Cells')
    BY <1>1, <1>2, CellsSummed DEF LeavesWithEvent
  <1>5. eaten' \in Seq(Ball' \ ToSet(Cells'))
    <2>1. \A i \in 1 .. Len(eaten') : eaten'[i] \in Ball \ ToSet(Cells')
      <3>1. Len(eaten') \in Nat /\ DOMAIN eaten' = 1 .. Len(eaten')
        BY LenProperties
      <3>2. ASSUME NEW i \in 1 .. Len(eaten')
            PROVE  eaten'[i] \in Ball \ ToSet(Cells')
        <4>1. eaten'[i] \in Ball /\ eaten'[i] \in ToSet(eaten')
          BY <3>1, ElementOfSeq DEF ToSet
        <4>2. eaten'[i] \notin ToSet(Cells')
          BY <1>1, <4>1 DEF CollisionInv, EatenAreGone
        <4> QED
          BY <4>1, <4>2
      <3> QED
        BY <3>2
    <2>2. Len(eaten') \in Nat /\ eaten' \in [1 .. Len(eaten') -> Ball \ ToSet(Cells')]
      <3>1. Len(eaten') \in Nat /\ DOMAIN eaten' = 1 .. Len(eaten')
        BY LenProperties
      <3>2. eaten' = [i \in 1 .. Len(eaten') |-> eaten'[i]]
        BY <3>1, SeqDef
      <3> QED
        BY <2>1, <3>1, <3>2
    <2> QED
      BY <1>2, <2>2, SeqDef
  <1> QED
    BY <1>3, <1>4, <1>5 DEF LeavesWithEvent

\* A stale pointer is used: nothing is promised any more, and there are many cells.
LEMMA StaleMerge ==
  ASSUME MergeInv, EatOther \/ BeEaten, Stale
  PROVE  MergeInv'
  <1>1. CollisionInv'
    BY EatOtherStep, BeEatenStep DEF MergeInv
  <1>2. misled' /\ Ball' = Ball /\ pc = "inner" /\ loop < Len(Cells)
    BY DEF EatOther, BeEaten, Comparing, Ball
  <1>3. ~(Cardinality(Ball) < 4)
    <2>1. FewEnd /\ Len(Cells) \in Nat /\ loop \in Nat
      BY CollisionTypes DEF MergeInv
    <2> QED
      BY <1>2, <2>1 DEF FewEnd
  <1>4. IsFiniteSet(Ball) /\ misled' # FALSE
    BY <1>2 DEF MergeInv
  <1> QED
    BY <1>1, <1>2, <1>3, <1>4 DEF MergeInv, MassKept, LeavesWithEvent, PairsSettled, FewEnd

LEMMA OtherMerge ==
  ASSUME MergeInv, EatOther, ~Stale
  PROVE  MergeInv'
  <1> DEFINE x == Cells[loop + 1]
  <1>1. /\ loop \in 1 .. Len(Cells) - 1 /\ myLoop < loop /\ pc = "inner"
        /\ {cell, x} \subseteq ready /\ x \in ToSet(Cells) /\ cell # x
        /\ Len(Cells') = Len(Cells) - 1 /\ ToSet(Cells') = ToSet(Cells) \ {x}
        /\ \A i \in 1 .. Len(Cells') : Cells'[i] = IF i <= loop THEN Cells[i] ELSE Cells[i + 1]
        /\ Len(eaten') = Len(eaten) + 1 /\ ToSet(eaten') = ToSet(eaten) \cup {x}
        /\ Size' = [Size EXCEPT ![cell] = Size[cell] + Size[x]] /\ Ball' = Ball
        /\ misled' = (misled \/ Stale)
        /\ UNCHANGED <<pc, ready, myLoop, loop, cell, total, apart>>
    BY OtherEaten DEF MergeInv
  <1> HIDE DEF x
  <1>2. CollisionInv' /\ CollisionInv /\ IsFiniteSet(Ball) /\ PairsSettled /\ FewEnd
    BY EatOtherStep DEF MergeInv
  <1>3. Len(Cells) \in Nat /\ myLoop \in -1 .. Len(Cells) /\ loop \in Nat
    BY <1>2, CollisionTypes
  <1>4. cell \in ToSet(Cells)
    <2>1. myLoop >= 0 /\ Cells[myLoop + 1] = cell
      BY <1>1, <1>2 DEF CollisionInv, IndicesValid, Stale, At
    <2>2. myLoop + 1 \in 1 .. Len(Cells)
      BY <1>1, <1>3, <2>1
    <2> QED
      BY <1>2, <2>1, <2>2, CollisionTypes DEF ToSet
  <1>5. ~Stale'
    BY <1>1 DEF Stale
  <1>6. MassKept' /\ LeavesWithEvent'
    <2>1. CASE misled
      BY <1>1, <2>1 DEF MassKept, LeavesWithEvent
    <2>2. CASE ~misled
      <3>1. eaten' \in Seq(Ball)
        BY <1>1, <1>2 DEF CollisionInv, TypeOK
      <3> QED
        BY <1>1, <1>4, <2>2, <3>1, MassPassedOn
    <2> QED
      BY <2>1, <2>2
  <1>7. PairsSettled'
    <2>1. ASSUME NEW i \in 1 .. Len(Cells'), i <= myLoop, Settled(i)
          PROVE  Settled(i)'
      <3>1. Cells'[i] = Cells[i]
        BY <1>1, <1>3, <2>1
      <3>2. ASSUME NEW j \in i + 1 .. Len(Cells')
            PROVE  \E k \in i + 1 .. Len(Cells) : Cells'[j] = Cells[k]
        <4>1. j \in 1 .. Len(Cells') /\ j \in i + 1 .. Len(Cells) /\ j + 1 \in i + 1 .. Len(Cells)
          BY <1>1, <1>3
        <4> QED
          BY <1>1, <4>1
      <3> QED
        BY <1>1, <2>1, <3>1, <3>2 DEF Settled
    <2>2. ASSUME NEW j \in myLoop + 2 .. Len(Cells'), j <= loop
          PROVE  Cells'[j] = Cells[j] /\ j \in myLoop + 2 .. Len(Cells)
      <3>1. j \in 1 .. Len(Cells') /\ j \in myLoop + 2 .. Len(Cells)
        BY <1>1, <1>3
      <3> QED
        BY <1>1, <2>2, <3>1
    <2>3. 1 .. Len(Cells') \subseteq 1 .. Len(Cells)
      BY <1>1, <1>3
    <2>4. ~misled' /\ ~apart' => ~misled /\ ~apart
      BY <1>1
    <2> QED
      BY <1>1, <1>2, <1>5, <2>1, <2>2, <2>3, <2>4 DEF PairsSettled
  <1>8. FewEnd'
    BY <1>1, <1>2, <1>5 DEF FewEnd
  <1> QED
    BY <1>1, <1>2, <1>6, <1>7, <1>8 DEF MergeInv

LEMMA MineMerge ==
  ASSUME MergeInv, BeEaten, ~Stale
  PROVE  MergeInv'
  <1> DEFINE x == Cells[loop + 1]
  <1>1. /\ loop \in 1 .. Len(Cells) - 1 /\ myLoop \in 0 .. loop - 1 /\ pc = "inner"
        /\ {cell, x} \subseteq ready /\ {cell, x} \subseteq ToSet(Cells) /\ cell # x
        /\ Len(Cells') = Len(Cells) - 1 /\ ToSet(Cells') = ToSet(Cells) \ {cell}
        /\ \A i \in 1 .. Len(Cells') : Cells'[i] = IF i <= myLoop THEN Cells[i] ELSE Cells[i + 1]
        /\ Len(eaten') = Len(eaten) + 1 /\ ToSet(eaten') = ToSet(eaten) \cup {cell}
        /\ Size' = [Size EXCEPT ![x] = Size[x] + Size[cell]] /\ Ball' = Ball
        /\ (misled' <=> misled) /\ myLoop' = myLoop - 1 /\ loop' = loop + 1
        /\ UNCHANGED <<pc, ready, cell, total, apart>>
    BY MineEaten DEF MergeInv
  <1> HIDE DEF x
  <1>2. CollisionInv' /\ CollisionInv /\ IsFiniteSet(Ball) /\ PairsSettled /\ FewEnd
        /\ LeavesWithEvent
    BY BeEatenStep DEF MergeInv
  <1>3. Len(Cells) \in Nat /\ loop \in Nat
    BY <1>2, CollisionTypes
  <1>4. Stale'
    BY <1>1 DEF Stale
  <1>5. MassKept' /\ LeavesWithEvent'
    <2>1. CASE misled
      BY <1>1, <2>1 DEF MassKept, LeavesWithEvent
    <2>2. CASE ~misled
      <3>1. eaten' \in Seq(Ball)
        BY <1>1, <1>2 DEF CollisionInv, TypeOK
      <3> QED
        BY <1>1, <2>2, <3>1, MassPassedOn
    <2> QED
      BY <2>1, <2>2
  <1>6. PairsSettled'
    <2>1. ASSUME NEW i \in 1 .. Len(Cells'), i <= myLoop, Settled(i)
          PROVE  Settled(i)'
      <3>1. Cells'[i] = Cells[i]
        BY <1>1, <1>3, <2>1
      <3>2. ASSUME NEW j \in i + 1 .. Len(Cells')
            PROVE  \E k \in i + 1 .. Len(Cells) : Cells'[j] = Cells[k]
        <4>1. j \in 1 .. Len(Cells') /\ j \in i + 1 .. Len(Cells) /\ j + 1 \in i + 1 .. Len(Cells)
          BY <1>1, <1>3
        <4> QED
          BY <1>1, <4>1
      <3> QED
        BY <1>1, <2>1, <3>1, <3>2 DEF Settled
    <2>2. \A i \in 1 .. Len(Cells') :
            /\ i \in 1 .. Len(Cells)
            /\ i <= myLoop' \/ i <= myLoop' + 1 => i <= myLoop
      BY <1>1, <1>3
    <2>3. ~misled' /\ ~apart' => ~misled /\ ~apart
      BY <1>1
    <2>4. ASSUME ~misled', ~apart', NEW i \in 1 .. Len(Cells'), i <= myLoop
          PROVE  Settled(i)'
      <3>1. \A k \in 1 .. Len(Cells) : k <= myLoop => Settled(k)
        BY <1>2, <2>3, <2>4 DEF PairsSettled
      <3>2. Settled(i)
        BY <2>2, <2>4, <3>1
      <3> QED
        BY <2>1, <2>4, <3>2
    <2> QED
      BY <1>1, <1>4, <2>2, <2>4 DEF PairsSettled
  <1>7. FewEnd'
    <2>1. ASSUME Cardinality(Ball) < 4
          PROVE  ~misled /\ loop + 1 >= Len(Cells) - 1
      <3>1. ~misled
        BY <1>2, <2>1 DEF FewEnd
      <3>2. Len(eaten) = Cardinality(Ball) - Len(Cells)
        BY <1>2, <3>1 DEF LeavesWithEvent
      <3> QED
        BY <1>1, <1>3, <2>1, <3>1, <3>2, CellsSummed
    <2> QED
      BY <1>1, <2>1 DEF FewEnd
  <1> QED
    BY <1>1, <1>2, <1>5, <1>6, <1>7 DEF MergeInv

\* MergeInv holds in every state of every call.
THEOREM MergeInvariant == Spec => []MergeInv
  <1>1. Init => MergeInv
    BY InitMerge
  <1>2. MergeInv /\ [Next]_vars => MergeInv'
    <2> SUFFICES ASSUME MergeInv, [Next]_vars
                 PROVE  MergeInv'
      OBVIOUS
    <2>1. CASE UNCHANGED vars
      <3>1. UNCHANGED <<pc, Cells, Size, ready, myLoop, loop, cell, eaten, eater, total, apart, misled>>
        BY <2>1 DEF vars, history
      <3>2. CollisionInv'
        BY <3>1 DEF MergeInv, CollisionInv, TypeOK, IndicesValid, EatenAreGone, EaterRemains,
                    EaterBehind, Ball, At
      <3>3. IsFiniteSet(Ball)' /\ MassKept' /\ LeavesWithEvent' /\ FewEnd'
        BY <3>1 DEF MergeInv, MassKept, LeavesWithEvent, FewEnd, Stale, Ball
      <3>4. PairsSettled'
        BY <3>1 DEF MergeInv, PairsSettled, Settled, Stale
      <3> QED
        BY <3>2, <3>3, <3>4 DEF MergeInv
    <2>2. CASE Next
      BY <2>2, LoopsMerge, StaleMerge, OtherMerge, MineMerge DEF Next
    <2> QED
      BY <2>1, <2>2
  <1> QED
    BY <1>1, <1>2, PTL DEF Spec

\* As long as no stale pointer is used, merging neither creates nor destroys mass.
THEOREM MassIsKept == Spec => []MassKept
  <1>1. MergeInv => MassKept
    BY DEF MergeInv
  <1> QED
    BY <1>1, MergeInvariant, PTL

\* As long as no stale pointer is used, every cell that leaves the vector leaves it
\* with one removal event.
THEOREM EventForEveryCell == Spec => []LeavesWithEvent
  <1>1. MergeInv => LeavesWithEvent
    BY DEF MergeInv
  <1> QED
    BY <1>1, MergeInvariant, PTL

\* As long as no stale pointer is used, the cells that are ready to combine become
\* one, unless two of them did not overlap.
THEOREM ReadyCellsMerge == Spec => []Merged
  <1>1. MergeInv => Merged
    <2> SUFFICES ASSUME MergeInv, ~misled, pc = "done", ~apart
                 PROVE  Cardinality(ToSet(Cells) \cap ready) <= 1
      BY DEF Merged
    <2>1. Len(Cells) \in Nat /\ myLoop \in -1 .. Len(Cells) /\ DOMAIN Cells = 1 .. Len(Cells)
      BY CollisionTypes DEF MergeInv
    <2>2. \A i \in 1 .. Len(Cells) : i <= myLoop => Settled(i)
      BY DEF MergeInv, PairsSettled
    <2>3. myLoop >= Len(Cells)
      BY DEF MergeInv, PairsSettled
    <2>4. \A i \in 1 .. Len(Cells) : Settled(i)
      BY <2>1, <2>2, <2>3
    <2>5. ASSUME NEW x \in ToSet(Cells) \cap ready, NEW y \in ToSet(Cells) \cap ready
          PROVE  x = y
      <3>1. PICK i \in 1 .. Len(Cells), j \in 1 .. Len(Cells) : x = Cells[i] /\ y = Cells[j]
        BY <2>1 DEF ToSet
      <3>2. CASE i < j
        <4>1. j \in i + 1 .. Len(Cells)
          BY <2>1, <3>2
        <4> QED
          BY <2>4, <3>1, <4>1 DEF Settled
      <3>3. CASE j < i
        <4>1. i \in j + 1 .. Len(Cells)
          BY <2>1, <3>3
        <4> QED
          BY <2>4, <3>1, <4>1 DEF Settled
      <3> QED
        BY <2>1, <3>1, <3>2, <3>3
    <2> DEFINE T == ToSet(Cells) \cap ready
    <2>6. CASE T = {}
      BY <2>6, FS_EmptySet
    <2>7. CASE T # {}
      <3>1. PICK x : T = {x}
        BY <2>5, <2>7
      <3> QED
        BY <3>1, FS_Singleton
    <2> QED
      BY <2>6, <2>7
  <1> QED
    BY <1>1, MergeInvariant, PTL

\* The stale pointer is used only by players of four cells and more.
THEOREM FewAreNotMisled == Spec => []FewNeverMislead
  <1>1. MergeInv => FewNeverMislead
    <2> SUFFICES ASSUME MergeInv, misled
                 PROVE  Cardinality(Ball) >= 4
      BY DEF FewNeverMislead
    <2>1. ~(Cardinality(Ball) < 4)
      BY DEF MergeInv, FewEnd
    <2> QED
      BY <2>1, CellsSummed
  <1> QED
    BY <1>1, MergeInvariant, PTL

-----------------------------------------------------------------------------
(* What each step does                                                     *)

\* A step that eats takes one cell away, also where the index has become stale.
LEMMA EatersErase ==
  ASSUME CollisionInv, EatOther \/ BeEaten
  PROVE  /\ Len(Cells') = Len(Cells) - 1 /\ Len(Cells) \in Nat
         /\ \E x \in ToSet(Cells) : ToSet(Cells') = ToSet(Cells) \ {x}
  <1>1. CASE EatOther
    BY <1>1, OtherEaten, CollisionTypes
  <1>2. CASE BeEaten
    <2>1. CASE ~Stale
      BY <1>2, <2>1, MineEaten, CollisionTypes
    <2>2. CASE Stale
      <3>1. PICK e \in 1 .. Len(Cells) : Cells' = RemoveAt(Cells, e)
        BY <1>2, ErasedByIndex
      <3>2. /\ Cells \in Seq(Ball) /\ Len(Cells) \in Nat /\ Cells[e] \in ToSet(Cells)
            /\ \A i, j \in 1 .. Len(Cells) : Cells[i] = Cells[j] => i = j
        BY CollisionTypes DEF ToSet
      <3> DEFINE t == RemoveAt(Cells, e)
      <3>3. Len(t) = Len(Cells) - 1 /\ ToSet(t) = ToSet(Cells) \ {Cells[e]}
        BY <3>2, ErasedFacts
      <3> QED
        BY <3>1, <3>2, <3>3
    <2> QED
      BY <2>1, <2>2
  <1> QED
    BY <1>1, <1>2

\* Each step takes a cell away, or moves the outer index on, or the inner one
\* within the vector: no sequence of steps comes back.
THEOREM CallsAdvance == Spec => Advances
  <1> DEFINE A == \/ Len(Cells') < Len(Cells)
                  \/ /\ Len(Cells') = Len(Cells)
                     /\ \/ myLoop' > myLoop /\ myLoop' <= Len(Cells)
                        \/ myLoop' = myLoop /\ pc = "outer" /\ pc' # "outer"
                        \/ myLoop' = myLoop /\ pc' = pc /\ loop' > loop /\ loop' <= Len(Cells)
  <1>1. ASSUME CollisionInv, Next
        PROVE  A
    <2>1. Len(Cells) \in Nat /\ myLoop \in Int /\ loop \in Nat
      BY <1>1, CollisionTypes
    <2>2. CASE EnterOuter \/ Return
      BY <2>2 DEF EnterOuter, Return
    <2>3. CASE EndInner
      <3>1. myLoop < Len(Cells)
        BY <1>1, <2>3 DEF EndInner, CollisionInv, IndicesValid
      <3> QED
        BY <2>1, <2>3, <3>1 DEF EndInner
    <2>4. CASE Pass
      BY <2>1, <2>4 DEF Pass, Comparing
    <2>5. CASE EatOther \/ BeEaten
      <3>1. Len(Cells') = Len(Cells) - 1
        BY <1>1, <2>5, EatersErase
      <3> QED
        BY <2>1, <3>1
    <2> QED
      BY <1>1, <2>2, <2>3, <2>4, <2>5 DEF Next
  <1>2. CollisionInv /\ [Next]_vars => [A]_vars
    BY <1>1
  <1> QED
    BY <1>2, CollisionInvariant, PTL DEF Spec, Advances

\* Merging counts as this module does.
LEMMA SameCounts ==
  /\ \A S : M!IsFiniteSet(S) <=> IsFiniteSet(S)
  /\ \A S : M!Cardinality(S) = Cardinality(S)
  <1>1. \A S : M!IsFiniteSet(S) <=> IsFiniteSet(S)
    BY DEF M!IsFiniteSet, IsFiniteSet
  <1>2. \A S : M!Cardinality(S) = Cardinality(S)
    BY Zenon DEF M!Cardinality, Cardinality
  <1> QED
    BY <1>1, <1>2

\* A cell leaves with its event, or the index was stale and something else is gone.
LEMMA EatersStep ==
  ASSUME CollisionInv, IsFiniteSet(Ball), FewEnd, EatOther \/ BeEaten
  PROVE  M!Next
  <1> DEFINE lost == Ball \ (ToSet(Cells) \cup ToSet(eaten))
  <1>1. CollisionInv'
    BY EatOtherStep, BeEatenStep
  <1>2. Ball' = Ball /\ ready' = ready /\ eaten' # <<>>
    <2>1. \A x : eaten' = Append(eaten, x) => eaten' # <<>>
      BY AppendProperties, CollisionTypes, EmptySeq
    <2> QED
      BY <2>1 DEF EatOther, BeEaten, Ball
  <1>3. ToSet(Cells') \cap ready' # {}
    BY <1>1, <1>2 DEF CollisionInv, EaterRemains
  <1>4. ToSet(Cells) \subseteq Ball /\ ToSet(eaten) \subseteq Ball /\ ToSet(Cells) \cap ToSet(eaten) = {}
    <2>1. ToSet(Cells) \subseteq Ball /\ ToSet(eaten) \subseteq Ball
      BY CollisionTypes, ElementOfSeq, LenProperties DEF ToSet
    <2> QED
      BY <2>1 DEF CollisionInv, EatenAreGone
  <1>5. CASE EatOther \/ ~Stale
    <2>1. PICK x \in ToSet(Cells) :
            /\ x \in ready /\ ToSet(Cells') = ToSet(Cells) \ {x}
            /\ ToSet(eaten') = ToSet(eaten) \cup {x}
      BY <1>5, OtherEaten, MineEaten
    <2>2. lost' = lost
      BY <1>2, <1>4, <2>1
    <2>3. M!Eaten(x)
      BY <1>2, <1>3, <2>1, <2>2 DEF M!Eaten, M!Leaves
    <2> QED
      BY <2>1, <2>3 DEF M!Next
  <1>6. CASE BeEaten /\ Stale
    <2>1. PICK x \in ToSet(Cells) : ToSet(Cells') = ToSet(Cells) \ {x}
      BY EatersErase
    <2>2. ToSet(eaten') = ToSet(eaten) /\ ToSet(eaten) # {}
      <3>1. cell \in Ball /\ eaten' = Append(eaten, cell) /\ cell \in ToSet(eaten)
        BY <1>4, <1>6 DEF BeEaten, Stale
      <3>2. ToSet(eaten') = ToSet(eaten) \cup {cell}
        BY <3>1, CollisionTypes, AppendedFacts
      <3> QED
        BY <3>1, <3>2
    <2>3. lost' = lost \cup {x}
      BY <1>2, <1>4, <2>1, <2>2
    <2>4. Cardinality(ToSet(Cells) \cup ToSet(eaten) \cup lost) >= 4
      <3>1. ToSet(Cells) \cup ToSet(eaten) \cup lost = Ball
        BY <1>4
      <3>2. ~(Cardinality(Ball) < 4)
        <4>1. pc = "inner" /\ ~(loop >= Len(Cells))
          BY <1>6, CollisionTypes DEF BeEaten, Comparing
        <4> QED
          BY <1>6, <4>1 DEF FewEnd
      <3>3. Cardinality(Ball) \in Nat
        BY FS_CardinalityType
      <3> QED
        BY <3>1, <3>2, <3>3
    <2>5. M!Mislaid(x)
      BY <1>2, <1>3, <2>1, <2>2, <2>3, <2>4, SameCounts DEF M!Mislaid, M!Leaves, M!Balls
    <2> QED
      BY <2>1, <2>5 DEF M!Next
  <1> QED
    BY <1>5, <1>6

\* However many cells there are, CollideSelf keeps what Merging promises the rest of
\* the game (ViewSync!CollideSelf): a cell leaves with its event, or is mislaid by a
\* player of four cells and more, and a merge leaves a cell that can collide.
THEOREM RefinesMerging == Spec => ImplementsMerging
  <1>1. Init => M!Init
    <2> SUFFICES ASSUME Init
                 PROVE  M!Init
      OBVIOUS
    <2>1. MergeInv
      BY InitMerge
    <2>2. eaten = <<>> /\ ToSet(eaten) = {}
      BY EmptySeq DEF Init, ToSet
    <2>3. ToSet(Cells) = Ball /\ ready \subseteq Ball
      <3>1. PICK n \in Counts :
              Cells = [i \in 1 .. n |-> i] /\ Size \in [1 .. n -> Sizes] /\ ready \in SUBSET (1 .. n)
        BY DEF Init
      <3>2. Ball = 1 .. n /\ DOMAIN Cells = 1 .. n /\ \A i \in 1 .. n : Cells[i] = i
        BY <3>1 DEF Ball
      <3> QED
        BY <3>1, <3>2 DEF ToSet
    <2> QED
      BY <2>1, <2>2, <2>3, CellsSummed, SameCounts DEF M!Init
  <1>2. MergeInv /\ [Next]_vars => [M!Next]_M!vars
    <2> SUFFICES ASSUME MergeInv, [Next]_vars
                 PROVE  [M!Next]_M!vars
      OBVIOUS
    <2>1. CASE UNCHANGED vars
      BY <2>1 DEF vars, M!vars, Ball
    <2>2. CASE EnterOuter \/ Return \/ EndInner \/ Pass
      BY <2>2 DEF EnterOuter, Return, EndInner, Pass, M!vars, Ball
    <2>3. CASE EatOther \/ BeEaten
      BY <2>3, EatersStep DEF MergeInv
    <2> QED
      BY <2>1, <2>2, <2>3 DEF Next
  <1> QED
    BY <1>1, <1>2, MergeInvariant, PTL DEF Spec, ImplementsMerging, M!Spec
=============================================================================
