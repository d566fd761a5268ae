---------------------------- MODULE ServingProofs ----------------------------
(***************************************************************************)
(* Proofs about the select loop, for any clients, streams, buffer sizes    *)
(* and bounds: a connection that drains goes with all that was queued for  *)
(* it written, the messages of a stream are framed however the reads cut   *)
(* it, replies are whole and their references counted.  Then about the     *)
(* file server, whose replies the loop writes: files arrive whole.         *)
(***************************************************************************)
EXTENDS Serving, FileServer, SequenceFacts

-----------------------------------------------------------------------------
(* The slots, the lives of the connections, and the turn of the loop.      *)

Lives == {AWAY, BACKLOG, ACCEPTED, OPEN, DRAINING, GONE}
Served == {OPEN, DRAINING, GONE}
Turns == Client \X {"read", "write"}

\* Nobody has two slots, and whoever has one is accepted.
Slotted ==
  /\ slot \in [1..Slots -> Client \cup {NoOne}]
  /\ \A i \in 1..Slots : slot[i] # NoOne => life[slot[i]] = ACCEPTED
  /\ \A i, j \in 1..Slots : slot[i] # NoOne /\ slot[i] = slot[j] => i = j

\* What select() returned as readable has not been closed by a reader since.
ReadyInv ==
  /\ ready.read \subseteq Client /\ ready.write \subseteq Client
  /\ pc \in {"accept", "types"} => \A c \in ready.read : life[c] \in {ACCEPTED, OPEN, GONE}

\* A connection is read at most once, and before it is written.
Ordered(s) ==
  \A i, j \in DOMAIN s : i < j /\ s[i][1] = s[j][1] => s[i][2] = "read" /\ s[j][2] = "write"

TodoInv ==
  /\ todo \in Seq(Turns) /\ Ordered(todo)
  /\ \A i \in DOMAIN todo : /\ life[todo[i][1]] \in Served
                            /\ todo[i][2] = "read" => life[todo[i][1]] = OPEN

LifeInv == life \in [Client -> Lives] /\ Slotted /\ ReadyInv /\ TodoInv

\* What is left of the turn when its first part is done.
LEMMA TailOrdered ==
  ASSUME NEW s \in Seq(Turns), Ordered(s), s # <<>>, NEW c \in Client, NEW w, Head(s) = <<c, w>>
  PROVE  /\ Tail(s) \in Seq(Turns) /\ Ordered(Tail(s))
         /\ \A i \in DOMAIN Tail(s) : \E k \in DOMAIN s : Tail(s)[i] = s[k]
         /\ \A i \in DOMAIN Tail(s) : Tail(s)[i][1] = c => w = "read" /\ Tail(s)[i][2] = "write"
<1> DEFINE t == Tail(s)
<1>1. /\ t \in Seq(Turns) /\ Len(t) = Len(s) - 1 /\ Len(s) \in Nat
      /\ \A i \in 1..Len(t) : t[i] = s[i + 1]
  BY HeadTailProperties
<1>2. s[1] = <<c, w>> /\ Len(s) # 0
  OBVIOUS
<1> HIDE DEF t
<1>3. DOMAIN t = 1..(Len(s) - 1) /\ DOMAIN s = 1..Len(s)
  BY <1>1
<1>4. ASSUME NEW i \in DOMAIN t, NEW j \in DOMAIN t, i < j, t[i][1] = t[j][1]
      PROVE  t[i][2] = "read" /\ t[j][2] = "write"
  <2>1. i + 1 \in DOMAIN s /\ j + 1 \in DOMAIN s /\ i + 1 < j + 1
    BY <1>1, <1>3, <1>4
  <2> QED
    BY <2>1, <1>1, <1>3, <1>4 DEF Ordered
<1>5. ASSUME NEW i \in DOMAIN t  PROVE \E k \in DOMAIN s : t[i] = s[k]
  BY <1>1, <1>3, SMTT(30)
<1>6. ASSUME NEW i \in DOMAIN t, t[i][1] = c  PROVE w = "read" /\ t[i][2] = "write"
  <2>1. 1 \in DOMAIN s /\ i + 1 \in DOMAIN s /\ 1 < i + 1 /\ t[i] = s[i + 1]
    BY <1>1, <1>2, <1>3
  <2>2. s[1][1] = s[i + 1][1] /\ s[1][2] = w
    BY <2>1, <1>2, <1>6
  <2> QED
    BY <2>1, <2>2 DEF Ordered
<1> QED
  BY <1>1, <1>4, <1>5, <1>6 DEF Ordered, t

\* What is left when the connection that was just read is deleted.
LEMMA WithoutOrdered ==
  ASSUME NEW s \in Seq(Turns), Ordered(s), NEW e
  PROVE  /\ RemoveFirst(s, e) \in Seq(Turns) /\ Ordered(RemoveFirst(s, e))
         /\ \A i \in DOMAIN RemoveFirst(s, e) : \E k \in DOMAIN s : RemoveFirst(s, e)[i] = s[k]
<1> DEFINE r == RemoveFirst(s, e)
<1>1. r \in Seq(Turns) /\ KeepsOrder(r, s)
  BY OrderStays
<1> HIDE DEF r
<1>2. Ordered(r)
  BY <1>1 DEF Ordered, KeepsOrder
<1> QED
  BY <1>1, <1>2 DEF r, KeepsOrder

\* Turns of different connections, one after the other.
LEMMA OrderedConcat ==
  ASSUME NEW a \in Seq(Turns), NEW b \in Seq(Turns), Ordered(a), Ordered(b),
         \A i \in DOMAIN a, j \in DOMAIN b : a[i][1] # b[j][1]
  PROVE  /\ a \o b \in Seq(Turns) /\ Ordered(a \o b)
         /\ \A i \in DOMAIN (a \o b) : \/ \E k \in DOMAIN a : (a \o b)[i] = a[k]
                                      \/ \E k \in DOMAIN b : (a \o b)[i] = b[k]
<1> DEFINE t == a \o b
<1>1. /\ t \in Seq(Turns) /\ Len(t) = Len(a) + Len(b)
      /\ \A i \in 1..(Len(a) + Len(b)) : t[i] = IF i <= Len(a) THEN a[i] ELSE b[i - Len(a)]
  BY ConcatProperties
<1> HIDE DEF t
<1>2. /\ DOMAIN a = 1..Len(a) /\ DOMAIN b = 1..Len(b) /\ DOMAIN t = 1..(Len(a) + Len(b))
      /\ Len(a) \in Nat /\ Len(b) \in Nat
  BY <1>1
<1>3. ASSUME NEW i \in DOMAIN t
      PROVE  \/ i \in DOMAIN a /\ t[i] = a[i]
             \/ i - Len(a) \in DOMAIN b /\ t[i] = b[i - Len(a)] /\ i > Len(a)
  BY <1>1, <1>2
<1>4. Ordered(t)
  <2>1. ASSUME NEW i \in DOMAIN t, NEW j \in DOMAIN t, i < j, t[i][1] = t[j][1]
        PROVE  t[i][2] = "read" /\ t[j][2] = "write"
    <3>1. CASE j \in DOMAIN a /\ t[j] = a[j]
      <4>1. i \in DOMAIN a /\ t[i] = a[i]
        BY <3>1, <2>1, <1>2, <1>3
      <4> QED
        BY <3>1, <4>1, <2>1 DEF Ordered
    <3>2. CASE j - Len(a) \in DOMAIN b /\ t[j] = b[j - Len(a)] /\ j > Len(a)
      <4>1. ~(i \in DOMAIN a /\ t[i] = a[i])
        BY <3>2, <2>1
      <4>2. i - Len(a) \in DOMAIN b /\ t[i] = b[i - Len(a)]
        BY <4>1, <1>3
      <4>3. i - Len(a) < j - Len(a)
        BY <1>2, <2>1
      <4> QED
        BY <3>2, <4>2, <4>3, <2>1 DEF Ordered
    <3> QED
      BY <3>1, <3>2, <1>3
  <2> QED
    BY <2>1 DEF Ordered
<1> QED
  BY <1>1, <1>3, <1>4 DEF t

\* A connection's own part of a turn.
LEMMA ToDoForOne ==
  ASSUME NEW c \in Client
  PROVE  /\ ToDoFor(c) \in Seq(Turns) /\ Ordered(ToDoFor(c))
         /\ \A i \in DOMAIN ToDoFor(c) : /\ ToDoFor(c)[i][1] = c
                                         /\ ToDoFor(c)[i][2] = "read" => c \in ready.read
<1> DEFINE r == IF c \in ready.read THEN <<<<c, "read">>>> ELSE <<>>
           w == IF c \in ready.write THEN <<<<c, "write">>>> ELSE <<>>
           t == r \o w
<1>1. r \in Seq(Turns) /\ w \in Seq(Turns)
  BY DEF Turns
<1>2. /\ DOMAIN r = 1..Len(r) /\ Len(r) \in 0..1 /\ (Len(r) = 1 => c \in ready.read)
      /\ \A i \in 1..Len(r) : r[i] = <<c, "read">>
  BY SMTT(30)
<1>3. DOMAIN w = 1..Len(w) /\ Len(w) \in 0..1 /\ \A i \in 1..Len(w) : w[i] = <<c, "write">>
  OBVIOUS
<1> HIDE DEF r, w
<1>4. /\ t \in Seq(Turns) /\ Len(t) = Len(r) + Len(w)
      /\ \A i \in 1..(Len(r) + Len(w)) : t[i] = IF i <= Len(r) THEN r[i] ELSE w[i - Len(r)]
  BY <1>1, ConcatProperties
<1> HIDE DEF t
<1>5. DOMAIN t = 1..(Len(r) + Len(w))
  BY <1>4
<1>6. ASSUME NEW i \in DOMAIN t
      PROVE  \/ i <= Len(r) /\ i = 1 /\ t[i] = <<c, "read">> /\ c \in ready.read
             \/ i > Len(r) /\ i = Len(r) + 1 /\ t[i] = <<c, "write">>
  BY <1>2, <1>3, <1>4, <1>5
<1>7. Ordered(t)
  <2>1. ASSUME NEW i \in DOMAIN t, NEW j \in DOMAIN t, i < j
        PROVE  t[i][2] = "read" /\ t[j][2] = "write"
    BY <1>2, <1>5, <1>6, <2>1
  <2> QED
    BY <2>1 DEF Ordered
<1>8. t = ToDoFor(c)
  BY DEF t, r, w, ToDoFor
<1> QED
  BY <1>4, <1>6, <1>7, <1>8

\* The turn of all connections.
LEMMA InTurnOrdered ==
  ASSUME NEW conns \in SUBSET Client
  PROVE  /\ InTurn(conns) \in Seq(Turns) /\ Ordered(InTurn(conns))
         /\ \A i \in DOMAIN InTurn(conns) :
              /\ InTurn(conns)[i][1] \in conns
              /\ InTurn(conns)[i][2] = "read" => InTurn(conns)[i][1] \in ready.read
<1> DEFINE order == SetToSeq(conns)
           ss == [i \in DOMAIN order |-> ToDoFor(order[i])]
           n == Len(order)
<1>1. IsFiniteSet(conns)
  BY ServingAssumption, FS_Subset
<1>2. /\ order \in Seq(conns)
      /\ \A i, j \in DOMAIN order : order[i] = order[j] => i = j
  BY <1>1, SetAsSeq
<1> HIDE DEF order
<1>3. n \in Nat /\ DOMAIN order = 1..n /\ \A i \in 1..n : order[i] \in conns
  BY <1>2
<1>4. ss \in Seq(Seq(Turns)) /\ Len(ss) = n /\ \A i \in 1..n : ss[i] = ToDoFor(order[i])
  <2>1. \A i \in 1..n : ToDoFor(order[i]) \in Seq(Turns)
    BY <1>3, ToDoForOne
  <2>2. ss = [i \in 1..n |-> ToDoFor(order[i])]
    BY <1>3
  <2> HIDE DEF ss
  <2>3. ss \in [1..n -> Seq(Turns)]
    BY <2>1, <2>2
  <2>4. ss \in Seq(Seq(Turns)) /\ Len(ss) = n
    BY <1>3, <2>3
  <2> QED
    BY <2>2, <2>4
<1> HIDE DEF ss, n
<1>5. PICK f : Joined(Turns, ss, f) /\ FlattenSeq(ss) = f[n]
  BY <1>4, FlattenJoins
<1> DEFINE Fine(t, k) ==
             /\ t \in Seq(Turns) /\ Ordered(t)
             /\ \A i \in DOMAIN t : /\ \E l \in 1..k : t[i][1] = order[l]
                                    /\ t[i][2] = "read" => t[i][1] \in ready.read
           T == {k \in 0..n : Fine(f[k], k)}
<1>6. 0 \in T
  <2>1. f[0] = <<>>
    BY <1>5 DEF Joined
  <2>2. Fine(<<>>, 0)
    BY DEF Ordered
  <2> HIDE DEF Fine
  <2> QED
    BY <2>1, <2>2, <1>3
<1>7. ASSUME NEW k \in Nat, k < n, k \in T  PROVE k + 1 \in T
  <2> DEFINE c == order[k + 1]
             b == ToDoFor(c)
             a == f[k]
  <2>1. k + 1 \in 1..n /\ k + 1 \in 0..n /\ (k + 1) - 1 = k
    BY <1>3, <1>7
  <2>2. c \in Client
    BY <1>3, <2>1
  <2>3. f[k + 1] = a \o b
    BY <1>4, <1>5, <2>1 DEF Joined
  <2>4. Fine(a, k)
    BY <1>7
  <2> HIDE DEF a
  <2>5. /\ b \in Seq(Turns) /\ Ordered(b)
        /\ \A i \in DOMAIN b : b[i][1] = c /\ (b[i][2] = "read" => c \in ready.read)
    <3> HIDE DEF c
    <3> QED
      BY <2>2, ToDoForOne
  <2>6. \A l \in 1..k : order[l] # c
    BY <1>2, <1>3, <1>7
  <2> HIDE DEF c, b
  <2>7. \A i \in DOMAIN a, j \in DOMAIN b : a[i][1] # b[j][1]
    BY <2>4, <2>5, <2>6
  <2>8. /\ a \o b \in Seq(Turns) /\ Ordered(a \o b)
        /\ \A i \in DOMAIN (a \o b) : \/ \E l \in DOMAIN a : (a \o b)[i] = a[l]
                                     \/ \E l \in DOMAIN b : (a \o b)[i] = b[l]
    BY <2>4, <2>5, <2>7, OrderedConcat
  <2> DEFINE t == a \o b
  <2>9. ASSUME NEW i \in DOMAIN t
        PROVE  /\ \E l \in 1..(k + 1) : t[i][1] = order[l]
               /\ t[i][2] = "read" => t[i][1] \in ready.read
    <3> HIDE DEF t
    <3>1. CASE \E l \in DOMAIN a : t[i] = a[l]
      <4>1. \A l \in 1..k : l \in 1..(k + 1)
        OBVIOUS
      <4> QED
        BY <3>1, <4>1, <2>4
    <3>2. CASE \E l \in DOMAIN b : t[i] = b[l]
      <4>1. k + 1 \in 1..(k + 1) /\ c = order[k + 1]
        BY DEF c
      <4> QED
        BY <3>2, <4>1, <2>5
    <3> QED
      BY <3>1, <3>2, <2>8 DEF t
  <2>10. Fine(t, k + 1)
    <3> HIDE DEF t
    <3> QED
      BY <2>8, <2>9 DEF t
  <2> HIDE DEF Fine
  <2> QED
    BY <2>1, <2>3, <2>10
<1> HIDE DEF T
<1>8. n \in T
  <2>1. n \in Nat /\ 0 \in T /\ \A k \in Nat : k < n /\ k \in T => k + 1 \in T
    BY <1>3, <1>6, <1>7
  <2>2. \A k \in 0..n : k \in T
    BY ONLY <2>1, UpTo
  <2> QED
    BY <2>1, <2>2
<1>9. Fine(FlattenSeq(ss), n)
  BY <1>8, <1>5 DEF T
<1>10. InTurn(conns) = FlattenSeq(ss)
  BY DEF InTurn, ss, order
<1> QED
  BY <1>3, <1>9, <1>10

-----------------------------------------------------------------------------
(* LifeInv is an invariant.                                                *)

\* Nothing happens to those who are accepted or open.
LEMMA TopLeaves ==
  ASSUME life \in [Client -> Lives]
  PROVE  /\ LifeAtTop \in [Client -> Lives]
         /\ \A c \in Client : life[c] # DRAINING => LifeAtTop[c] = life[c]
         /\ \A c \in Client : LifeAtTop[c] = life[c] \/ (c \in Drained /\ LifeAtTop[c] = GONE)
         /\ \A c \in Client : life[c] \in Served => LifeAtTop[c] \in Served
  BY DEF LifeAtTop, Drained, Lives, Served

\* At the start nobody has a slot and there is nothing to do.
LEMMA LifeInit == Init => LifeInv
<1> SUFFICES ASSUME Init  PROVE LifeInv
  OBVIOUS
<1>1. life \in [Client -> Lives]
  BY DEF Init, Lives
<1>2. Slotted
  BY DEF Init, Slotted
<1>3. ReadyInv
  BY DEF Init, ReadyInv, NoneReady
<1>4. TodoInv
  BY DEF Init, TodoInv, Ordered
<1> QED
  BY <1>1, <1>2, <1>3, <1>4 DEF LifeInv

\* Steps that leave the slots, and those who are accepted or open, alone.
LEMMA SameSlots ==
  ASSUME LifeInv, slot' = slot, life' \in [Client -> Lives],
         \A c \in Client : life[c] = ACCEPTED => life'[c] = ACCEPTED
  PROVE  Slotted'
  BY DEF LifeInv, Slotted

\* Open connections stay open, and no connection goes back to where it was
\* before it was one.
LiveOn ==
  \A c \in Client : /\ life[c] = OPEN => life'[c] = OPEN
                    /\ life[c] \in Served => life'[c] \in Served

\* What is to do stays right when nobody who is read stops being open.
LEMMA SameTodo ==
  ASSUME LifeInv, todo' = todo, LiveOn
  PROVE  TodoInv'
<1>1. ASSUME NEW i \in DOMAIN todo
      PROVE  /\ life'[todo[i][1]] \in Served
             /\ todo[i][2] = "read" => life'[todo[i][1]] = OPEN
  <2>1. /\ todo[i] \in Turns /\ life[todo[i][1]] \in Served
        /\ todo[i][2] = "read" => life[todo[i][1]] = OPEN
    BY <1>1 DEF LifeInv, TodoInv
  <2> QED
    BY <2>1 DEF Turns, LiveOn
<1> QED
  BY <1>1 DEF LifeInv, TodoInv

\* select() returns, or the loop ends: connections that have drained go.
LEMMA SelectLife ==
  ASSUME LifeInv, Select \/ Quit
  PROVE  LifeInv'
<1>1. life \in [Client -> Lives] /\ life' = LifeAtTop /\ slot' = slot /\ todo' = todo
  BY DEF LifeInv, Select, Quit, slots
<1>2. /\ life' \in [Client -> Lives]
      /\ \A c \in Client : life[c] # DRAINING => life'[c] = life[c]
      /\ \A c \in Client : life[c] \in Served => life'[c] \in Served
  BY <1>1, TopLeaves
<1>3. ACCEPTED # DRAINING /\ OPEN # DRAINING
  BY DEF ACCEPTED, OPEN, DRAINING
<1>4. Slotted' /\ TodoInv'
  <2>1. LiveOn
    BY <1>2, <1>3 DEF LiveOn
  <2> QED
    BY <2>1, <1>1, <1>2, <1>3, SameSlots, SameTodo
<1>5. ReadyInv'
  <2>1. CASE Select
    <3> DEFINE b == stopping # "no"
               r == {c \in ToRead(b) : Readable(c)}
    <3>1. ready' = [listen |-> Waiting(b), read |-> r, write |-> Writable]
      BY <2>1 DEF Select
    <3>2. r \subseteq Client /\ Writable \subseteq Client
      BY DEF ToRead, InSlot, Writable, ToWrite, Conns
    <3>3. \A c \in r : life[c] \in {ACCEPTED, OPEN}
      BY DEF ToRead, InSlot
    <3> HIDE DEF r, b
    <3>4. ready'.read = r /\ ready'.write = Writable
      BY <3>1
    <3> QED
      BY <3>2, <3>3, <3>4, <1>2, <1>3 DEF ReadyInv
  <2>2. CASE Quit
    BY <2>2 DEF Quit, ReadyInv, LifeInv
  <2> QED
    BY <2>1, <2>2
<1> QED
  BY <1>2, <1>4, <1>5 DEF LifeInv

\* A scan for timeouts closes at most the socket of the first slot.
LEMMA TimeOutLife ==
  ASSUME LifeInv, TimeOut
  PROVE  LifeInv'
<1>1. /\ life \in [Client -> Lives] /\ slot \in [1..Slots -> Client \cup {NoOne}]
      /\ todo' = todo /\ ready' = ready /\ pc' \notin {"accept", "types"}
  BY DEF LifeInv, Slotted, TimeOut
<1>2. /\ LifeAtTop \in [Client -> Lives]
      /\ \A c \in Client : life[c] # DRAINING => LifeAtTop[c] = life[c]
      /\ \A c \in Client : life[c] \in Served => LifeAtTop[c] \in Served
  BY <1>1, TopLeaves
<1>3. ACCEPTED # DRAINING /\ OPEN # DRAINING /\ OPEN # ACCEPTED /\ GONE \in Lives /\ GONE \in Served
  BY DEF ACCEPTED, OPEN, DRAINING, Lives, Served
<1>4. ReadyInv'
  BY <1>1 DEF ReadyInv, LifeInv
<1>5. CASE 1 \in Overdue
  <2>1. /\ slot' = [slot EXCEPT ![1] = NoOne]
        /\ life' = [LifeAtTop EXCEPT ![slot[1]] = GONE]
    BY <1>5 DEF TimeOut
  <2>2. 1 \in 1..Slots /\ slot[1] # NoOne /\ slot[1] \in Client /\ life[slot[1]] = ACCEPTED
    BY <1>1, <1>5 DEF Overdue, Occupied, LifeInv, Slotted
  <2>3. life' \in [Client -> Lives] /\ \A c \in Client : c # slot[1] => life'[c] = LifeAtTop[c]
    BY <2>1, <2>2, <1>2, <1>3
  <2>4. Slotted'
    <3>1. slot' \in [1..Slots -> Client \cup {NoOne}]
      BY <2>1, <1>1
    <3>2. ASSUME NEW i \in 1..Slots, slot'[i] # NoOne
          PROVE  /\ slot'[i] = slot[i] /\ slot[i] \in Client /\ life[slot[i]] = ACCEPTED
                 /\ slot[i] # slot[1]
      BY <2>1, <2>2, <3>2, <1>1 DEF LifeInv, Slotted
    <3>3. ASSUME NEW i \in 1..Slots, slot'[i] # NoOne  PROVE life'[slot'[i]] = ACCEPTED
      BY <3>2, <3>3, <2>3, <1>2, <1>3
    <3>4. ASSUME NEW i \in 1..Slots, NEW j \in 1..Slots, slot'[i] # NoOne, slot'[i] = slot'[j]
          PROVE  i = j
      BY <3>2, <3>4 DEF LifeInv, Slotted
    <3> QED
      BY <3>1, <3>3, <3>4 DEF Slotted
  <2>5. LiveOn
    BY <2>1, <2>2, <2>3, <1>2, <1>3 DEF LiveOn
  <2> QED
    BY <2>3, <2>4, <2>5, <1>1, <1>4, SameTodo DEF LifeInv
<1>6. CASE 1 \notin Overdue
  <2>1. life' = LifeAtTop /\ slot' = slot
    BY <1>6 DEF TimeOut, slots
  <2>2. LiveOn
    BY <2>1, <1>2, <1>3 DEF LiveOn
  <2>3. life' \in [Client -> Lives] /\ Slotted' /\ TodoInv'
    BY <2>1, <2>2, <1>1, <1>2, <1>3, SameSlots, SameTodo
  <2> QED
    BY <2>3, <1>4 DEF LifeInv
<1> QED
  BY <1>5, <1>6

\* Whoever is ejected was in a slot.
LEMMA EjectedAreSlots ==
  Ejected \subseteq 1..Slots
<1>1. Aged \subseteq 1..Slots /\ 1 \in 1..Slots
  BY ServingAssumption DEF Aged
<1>2. CASE OutOfOrder # {}
  <2>1. OutOfOrder \in SUBSET Nat /\ OutOfOrder \subseteq 1..Slots
    BY ServingAssumption DEF OutOfOrder
  <2>2. Min(OutOfOrder) \in OutOfOrder
    BY <1>2, <2>1, MinIsPlace
  <2> QED
    BY <1>1, <2>1, <2>2 DEF Ejected
<1>3. CASE OutOfOrder = {}
  BY <1>1, <1>3 DEF Ejected
<1> QED
  BY <1>2, <1>3

\* A socket that is accepted has a slot of its own, and those it ejects are gone.
LEMMA AcceptLife ==
  ASSUME LifeInv, NEW c \in Client, Accept(c)
  PROVE  LifeInv'
<1> DEFINE out1(d) == \E i \in Ejected : slot[i] = d
<1>1. /\ life[c] = BACKLOG /\ todo' = todo /\ ready' = ready /\ pc = "accept"
      /\ slot' = [i \in 1..Slots |-> IF i = Chosen THEN c
                                     ELSE IF i \in Ejected THEN NoOne ELSE slot[i]]
      /\ life' = [d \in Client |-> IF d = c THEN ACCEPTED ELSE IF out1(d) THEN GONE ELSE life[d]]
  BY DEF Accept
<1>2. /\ life \in [Client -> Lives] /\ slot \in [1..Slots -> Client \cup {NoOne}]
      /\ \A i \in 1..Slots : slot[i] # NoOne => life[slot[i]] = ACCEPTED
      /\ \A i, j \in 1..Slots : slot[i] # NoOne /\ slot[i] = slot[j] => i = j
  BY DEF LifeInv, Slotted
<1>3. /\ NoOne \notin Client /\ ACCEPTED \in Lives /\ GONE \in Lives
      /\ BACKLOG # ACCEPTED /\ OPEN # ACCEPTED /\ OPEN # BACKLOG
      /\ BACKLOG \notin Served /\ GONE \in Served
  BY ServingAssumption DEF Lives, Served, ACCEPTED, GONE, BACKLOG, OPEN, DRAINING
<1>4. Ejected \subseteq 1..Slots
  BY EjectedAreSlots
<1>5. \A d \in Client : out1(d) => life[d] = ACCEPTED
  BY <1>2, <1>3, <1>4
<1>6. life' \in [Client -> Lives]
  BY <1>1, <1>2, <1>3
<1>7. Slotted'
  <2>1. slot' \in [1..Slots -> Client \cup {NoOne}]
    BY <1>1, <1>2
  <2>2. ASSUME NEW i \in 1..Slots, slot'[i] # NoOne, i # Chosen
        PROVE  /\ slot'[i] = slot[i] /\ slot[i] \in Client /\ slot[i] # c
               /\ life[slot[i]] = ACCEPTED /\ ~out1(slot[i])
    <3>1. slot'[i] = slot[i] /\ i \notin Ejected /\ slot[i] # NoOne
      BY <2>2, <1>1
    <3>2. slot[i] \in Client /\ life[slot[i]] = ACCEPTED
      BY <3>1, <1>2
    <3>3. ~out1(slot[i])
      BY <3>1, <1>2, <1>4
    <3> QED
      BY <3>1, <3>2, <3>3, <1>1, <1>3
  <2> HIDE DEF out1
  <2>3. ASSUME NEW i \in 1..Slots, slot'[i] # NoOne  PROVE life'[slot'[i]] = ACCEPTED
    <3>1. CASE i = Chosen
      BY <3>1, <1>1
    <3>2. CASE i # Chosen
      BY <3>2, <2>2, <2>3, <1>1
    <3> QED
      BY <3>1, <3>2
  <2>4. ASSUME NEW i \in 1..Slots, NEW j \in 1..Slots, slot'[i] # NoOne, slot'[i] = slot'[j]
        PROVE  i = j
    <3>1. CASE i = Chosen
      <4>1. slot'[i] = c
        BY <3>1, <1>1
      <4> QED
        BY <3>1, <4>1, <2>2, <2>4
    <3>2. CASE i # Chosen
      <4>1. j # Chosen
        <5>1. ASSUME j = Chosen  PROVE FALSE
          <6>1. slot'[j] = c
            BY <5>1, <1>1
          <6> QED
            BY <6>1, <3>2, <2>2, <2>4
        <5> QED
          BY <5>1
      <4>2. slot[i] = slot[j] /\ slot[i] # NoOne
        BY <3>2, <4>1, <2>2, <2>4
      <4> QED
        BY <4>2, <1>2
    <3> QED
      BY <3>1, <3>2
  <2> QED
    BY <2>1, <2>3, <2>4 DEF Slotted
<1> HIDE DEF out1
<1>8. TodoInv'
  <2>1. LiveOn
    BY <1>1, <1>3, <1>5 DEF LiveOn
  <2> QED
    BY <2>1, <1>1, SameTodo
<1>9. ReadyInv'
  <2>1. ready.read \subseteq Client /\ \A d \in ready.read : life[d] \in {ACCEPTED, OPEN, GONE}
    BY <1>1 DEF LifeInv, ReadyInv
  <2>2. \A d \in ready.read : life'[d] \in {ACCEPTED, OPEN, GONE}
    BY <2>1, <1>1
  <2> QED
    BY <2>2, <1>1 DEF LifeInv, ReadyInv
<1> QED
  BY <1>6, <1>7, <1>8, <1>9 DEF LifeInv

\* Type bytes make connections of sockets, and the turn is laid out.
LEMMA ReadTypesLife ==
  ASSUME LifeInv, ReadTypes
  PROVE  LifeInv'
<1> DEFINE done == ready.read \cap InSlot
           born == {c \in done : HasData(c)}
           conns == {c \in ready.read \cup ready.write : life'[c] \in {OPEN, DRAINING}}
<1>1. /\ slot' = [i \in 1..Slots |-> IF slot[i] \in done THEN NoOne ELSE slot[i]]
      /\ life' = [c \in Client |-> IF c \in born THEN OPEN
                                   ELSE IF c \in done THEN GONE ELSE life[c]]
      /\ todo' = InTurn(conns)
      /\ pc = "types" /\ pc' = "serve" /\ ready' = ready
  BY DEF ReadTypes
<1>2. /\ life \in [Client -> Lives] /\ slot \in [1..Slots -> Client \cup {NoOne}]
      /\ \A i \in 1..Slots : slot[i] # NoOne => life[slot[i]] = ACCEPTED
      /\ \A i, j \in 1..Slots : slot[i] # NoOne /\ slot[i] = slot[j] => i = j
  BY DEF LifeInv, Slotted
<1>3. /\ ready.read \subseteq Client /\ ready.write \subseteq Client
      /\ \A c \in ready.read : life[c] \in {ACCEPTED, OPEN, GONE}
  BY <1>1 DEF LifeInv, ReadyInv
<1>4. OPEN \in Lives /\ GONE \in Lives /\ GONE \notin {OPEN, DRAINING} /\ NoOne \notin Client
  BY ServingAssumption DEF Lives, OPEN, GONE, DRAINING
<1>5. \A c \in ready.read : c \in done \/ life[c] \in {OPEN, GONE}
  BY <1>3 DEF InSlot
<1>6. born \subseteq done /\ done \subseteq Client
  BY <1>3
<1> HIDE DEF done, born
<1>7. life' \in [Client -> Lives]
  BY <1>1, <1>2, <1>4
<1>8. \A c \in ready.read : life'[c] \in {OPEN, GONE}
  BY <1>1, <1>3, <1>5, <1>6
<1>9. Slotted'
  <2>1. slot' \in [1..Slots -> Client \cup {NoOne}]
    BY <1>1, <1>2
  <2>2. ASSUME NEW i \in 1..Slots, slot'[i] # NoOne
        PROVE  slot'[i] = slot[i] /\ slot[i] \in Client /\ slot[i] \notin done
    BY <2>2, <1>1, <1>2
  <2>3. ASSUME NEW i \in 1..Slots, slot'[i] # NoOne  PROVE life'[slot'[i]] = ACCEPTED
    BY <2>2, <2>3, <1>1, <1>2, <1>6
  <2>4. ASSUME NEW i \in 1..Slots, NEW j \in 1..Slots, slot'[i] # NoOne, slot'[i] = slot'[j]
        PROVE  i = j
    BY <2>2, <2>4, <1>2
  <2> QED
    BY <2>1, <2>3, <2>4 DEF Slotted
<1>10. TodoInv'
  <2>1. conns \in SUBSET Client
    BY <1>3
  <2>2. \A c \in conns : life'[c] \in {OPEN, DRAINING} /\ life'[c] \in Served
    BY DEF Served
  <2> HIDE DEF conns
  <2>3. /\ todo' \in Seq(Turns) /\ Ordered(todo')
        /\ \A i \in DOMAIN todo' : /\ todo'[i][1] \in conns
                                   /\ todo'[i][2] = "read" => todo'[i][1] \in ready.read
    BY <2>1, <1>1, InTurnOrdered
  <2>4. ASSUME NEW i \in DOMAIN todo'
        PROVE  life'[todo'[i][1]] \in Served /\ (todo'[i][2] = "read" => life'[todo'[i][1]] = OPEN)
    BY <2>2, <2>3, <1>4, <1>8
  <2> QED
    BY <2>3, <2>4 DEF TodoInv
<1>11. ReadyInv'
  BY <1>1, <1>3 DEF ReadyInv
<1> QED
  BY <1>7, <1>9, <1>10, <1>11 DEF LifeInv

\* A connection's turn: of the lives only its own changes, from what it was in
\* m_conns, and the rest of the turn has no read of it.
LEMMA ServeLife ==
  ASSUME LifeInv, pc = "serve", pc' = pc, ready' = ready, slot' = slot,
         NEW c \in Client, NEW w, todo # <<>>, Head(todo) = <<c, w>>,
         life' = life \/ \E l \in Served : life' = [life EXCEPT ![c] = l],
         \/ todo' = Tail(todo)
         \/ todo' = <<>>
         \/ todo' = WithoutConn(c)
  PROVE  LifeInv'
<1>1. /\ life \in [Client -> Lives] /\ todo \in Seq(Turns) /\ Ordered(todo)
      /\ \A i \in DOMAIN todo : /\ life[todo[i][1]] \in Served
                                /\ todo[i][2] = "read" => life[todo[i][1]] = OPEN
  BY DEF LifeInv, TodoInv
<1>0. life[c] \in Served
  <2>1. 1 \in DOMAIN todo /\ todo[1] = <<c, w>>
    BY <1>1
  <2> QED
    BY <2>1, <1>1
<1>2. /\ life' \in [Client -> Lives] /\ \A d \in Client : d # c => life'[d] = life[d]
      /\ life'[c] \in Served
  BY <1>0, <1>1 DEF Lives, Served
<1>3. \A d \in Client : life[d] = ACCEPTED => life'[d] = ACCEPTED
  BY <1>0, <1>2 DEF Served, ACCEPTED, OPEN, DRAINING, GONE
<1>4. Slotted'
  BY <1>2, <1>3, SameSlots
<1>5. ReadyInv'
  BY DEF LifeInv, ReadyInv
<1> DEFINE t == Tail(todo)
<1>6. /\ t \in Seq(Turns) /\ Ordered(t)
      /\ \A i \in DOMAIN t : \E k \in DOMAIN todo : t[i] = todo[k]
      /\ \A i \in DOMAIN t : t[i][1] = c => w = "read" /\ t[i][2] = "write"
  BY <1>1, TailOrdered
<1> HIDE DEF t
<1>7. ASSUME NEW i \in DOMAIN t
      PROVE  life'[t[i][1]] \in Served /\ (t[i][2] = "read" => life'[t[i][1]] = OPEN)
  <2>1. PICK k \in DOMAIN todo : t[i] = todo[k]
    BY <1>6
  <2>2. /\ life[t[i][1]] \in Served /\ t[i][1] \in Client
        /\ t[i][2] = "read" => life[t[i][1]] = OPEN /\ t[i][1] # c
    BY <2>1, <1>1, <1>6 DEF Turns
  <2> QED
    BY <2>2, <1>2
<1>8. TodoInv'
  <2>1. CASE todo' = t
    BY <2>1, <1>6, <1>7 DEF TodoInv
  <2>2. CASE todo' = <<>>
    BY <2>2 DEF TodoInv, Ordered
  <2>3. CASE todo' = WithoutConn(c)
    <3> DEFINE e == <<c, "write">>
    <3>1. todo' = RemoveFirst(t, e)
      BY <2>3 DEF WithoutConn, t
    <3> HIDE DEF e
    <3>2. /\ todo' \in Seq(Turns) /\ Ordered(todo')
          /\ \A i \in DOMAIN todo' : \E k \in DOMAIN t : todo'[i] = t[k]
      BY <3>1, <1>6, WithoutOrdered
    <3> QED
      BY <3>2, <1>7 DEF TodoInv
  <2> QED
    BY <2>1, <2>2, <2>3 DEF t
<1> QED
  BY <1>2, <1>4, <1>5, <1>8 DEF LifeInv

\* The actions in which a connection has its turn.
ServeStep(c) ==
  \/ ReadEnd(c)
  \/ \E n \in 1..BUFSIZE + 1, h \in 0..BUFSIZE, how \in {"go on", "delete", "drain"} : Read(c, n, h, how)
  \/ \E n \in 1..Len(queue[c]) : WritePlain(c, n)
  \/ \E n \in 1..WBUFSIZE : WriteEncrypted(c, n)
  \/ WriteFails(c)

\* A connection's turn: what is left of it stays right, and who drains is not cut off.
LEMMA ServeStepLife ==
  ASSUME LifeInv, NEW c \in Client, ServeStep(c)
  PROVE  LifeInv' /\ GoesInFull
<1>1. OPEN \in Served /\ GONE \in Served /\ DRAINING \in Served /\ OPEN # DRAINING /\ DRAINING # GONE
  BY DEF Served, OPEN, GONE, DRAINING
<1>2. life \in [Client -> Lives]
  BY DEF LifeInv
<1>3. ASSUME NEW w, todo # <<>>, Head(todo) = <<c, w>>, w = "read"  PROVE life[c] = OPEN
  <2>1. 1 \in DOMAIN todo /\ todo[1] = <<c, w>>
    BY <1>3 DEF LifeInv, TodoInv
  <2> QED
    BY <2>1, <1>3 DEF LifeInv, TodoInv
<1>4. CASE ReadEnd(c)
  <2>1. /\ pc = "serve" /\ pc' = pc /\ ready' = ready /\ slot' = slot
        /\ todo # <<>> /\ Head(todo) = <<c, "read">>
        /\ life' = life \/ life' = [life EXCEPT ![c] = GONE]
        /\ todo' = Tail(todo) \/ todo' = WithoutConn(c)
    BY <1>4 DEF ReadEnd, Delete, slots
  <2>2. LifeInv'
    BY <2>1, <1>1, ServeLife
  <2> QED
    BY <2>1, <2>2, <1>1, <1>2, <1>3 DEF GoesInFull
<1>5. ASSUME NEW n, NEW h, NEW how, Read(c, n, h, how)  PROVE LifeInv' /\ GoesInFull
  <2>1. /\ pc = "serve" /\ pc' = pc /\ ready' = ready /\ slot' = slot
        /\ todo # <<>> /\ Head(todo) = <<c, "read">>
    BY <1>5 DEF Read, slots
  <2>2. \/ life' = life
        \/ life' = [life EXCEPT ![c] = GONE]
        \/ life' = [life EXCEPT ![c] = DRAINING]
    BY <1>5 DEF Read
  <2>3. todo' = Tail(todo) \/ todo' = <<>> \/ todo' = WithoutConn(c)
    BY <1>5 DEF Read
  <2>4. LifeInv'
    BY <2>1, <2>2, <2>3, <1>1, ServeLife
  <2> QED
    BY <2>1, <2>2, <2>4, <1>1, <1>2, <1>3 DEF GoesInFull
<1>6. ASSUME NEW n, WritePlain(c, n) \/ WriteEncrypted(c, n)  PROVE LifeInv' /\ GoesInFull
  <2>1. /\ pc = "serve" /\ pc' = pc /\ ready' = ready /\ slot' = slot
        /\ todo # <<>> /\ Head(todo) = <<c, "write">> /\ life' = life /\ todo' = Tail(todo)
    BY <1>6 DEF WritePlain, WriteEncrypted, slots
  <2>2. LifeInv'
    BY <2>1, <1>1, ServeLife
  <2> QED
    BY <2>1, <2>2, <1>1 DEF GoesInFull
<1>7. CASE WriteFails(c)
  <2>1. /\ pc = "serve" /\ pc' = pc /\ ready' = ready /\ slot' = slot
        /\ todo # <<>> /\ Head(todo) = <<c, "write">> /\ todo' = Tail(todo)
        /\ life' = [life EXCEPT ![c] = GONE] /\ c \in hung
    BY <1>7 DEF WriteFails, Delete, slots
  <2>2. LifeInv'
    BY <2>1, <1>1, ServeLife
  <2> QED
    BY <2>1, <2>2, <1>1, <1>2 DEF GoesInFull
<1> QED
  BY <1>4, <1>5, <1>6, <1>7 DEF ServeStep

\* The steps in which no connection of m_conns changes its life.
LEMMA OtherLife ==
  ASSUME LifeInv,
         \/ NothingToAccept \/ EndOfTurn \/ RequestShutdown \/ Tick \/ UNCHANGED vars
         \/ \E c \in Client : Connect(c) \/ Send(c) \/ HangUp(c)
  PROVE  LifeInv' /\ GoesInFull
<1>1. life \in [Client -> Lives]
  BY DEF LifeInv
<1>2. /\ AWAY \notin Served /\ AWAY # ACCEPTED /\ AWAY # OPEN /\ BACKLOG \in Lives
      /\ DRAINING # GONE /\ AWAY # DRAINING
  BY DEF AWAY, BACKLOG, ACCEPTED, OPEN, DRAINING, GONE, Served, Lives
<1>3. CASE \E c \in Client : Connect(c)
  <2>1. PICK c \in Client : Connect(c)
    BY <1>3
  <2>2. /\ life[c] = AWAY /\ life' = [life EXCEPT ![c] = BACKLOG] /\ slot' = slot /\ todo' = todo
        /\ ready' = ready /\ pc = "top" /\ pc' = pc
    BY <2>1 DEF Connect, slots
  <2>3. life' \in [Client -> Lives] /\ LiveOn
    BY <2>2, <1>1, <1>2 DEF LiveOn
  <2>4. \A d \in Client : life[d] = ACCEPTED => life'[d] = ACCEPTED
    BY <2>2, <1>1, <1>2
  <2>5. Slotted' /\ TodoInv'
    BY <2>2, <2>3, <2>4, SameSlots, SameTodo
  <2>6. ReadyInv'
    BY <2>2 DEF LifeInv, ReadyInv
  <2>7. GoesInFull
    BY <2>2, <1>1, <1>2 DEF GoesInFull
  <2> QED
    BY <2>3, <2>5, <2>6, <2>7 DEF LifeInv
<1>4. ASSUME \/ NothingToAccept \/ EndOfTurn \/ RequestShutdown \/ Tick \/ UNCHANGED vars
             \/ \E c \in Client : Send(c) \/ HangUp(c)
      PROVE  LifeInv' /\ GoesInFull
  <2>1. /\ life' = life /\ slot' = slot /\ todo' = todo
        /\ ready' = ready \/ ready' = NoneReady
        /\ pc' = pc \/ (pc = "accept" /\ pc' = "types") \/ pc' = "top"
    BY <1>4 DEF NothingToAccept, EndOfTurn, RequestShutdown, Tick, Send, HangUp, vars, slots
  <2>2. TodoInv' /\ Slotted'
    BY <2>1 DEF LifeInv, TodoInv, Slotted
  <2>3. ReadyInv'
    BY <2>1 DEF LifeInv, ReadyInv, NoneReady
  <2>4. GoesInFull
    BY <2>1, <1>2 DEF GoesInFull
  <2> QED
    BY <2>1, <2>2, <2>3, <2>4, <1>1 DEF LifeInv
<1> QED
  BY <1>3, <1>4

\* Those that select() finds drained have nothing left.
LEMMA TopInFull ==
  ASSUME LifeInv, life' = LifeAtTop \/ \E i \in Occupied : life' = [LifeAtTop EXCEPT ![slot[i]] = GONE]
  PROVE  GoesInFull
<1>1. life \in [Client -> Lives] /\ ACCEPTED # DRAINING /\ DRAINING # GONE
  BY DEF LifeInv, ACCEPTED, DRAINING, GONE
<1>2. \A i \in Occupied : life[slot[i]] = ACCEPTED
  BY DEF Occupied, LifeInv, Slotted
<1>3. LifeAtTop \in [Client -> Lives]
  BY <1>1, TopLeaves
<1>4. \A c \in Client : LifeAtTop[c] = life[c] \/ (queue[c] = <<>> /\ wbuf[c] = <<>>)
  BY DEF LifeAtTop, Drained
<1> QED
  BY <1>1, <1>2, <1>3, <1>4 DEF GoesInFull

\* Every step keeps LifeInv, and takes a draining connection away only when
\* nothing of it is left.
LEMMA LifeStep ==
  ASSUME LifeInv, [Next]_vars
  PROVE  LifeInv' /\ GoesInFull
<1>1. CASE Select \/ Quit
  <2>1. life' = LifeAtTop
    BY <1>1 DEF Select, Quit
  <2> QED
    BY <2>1, <1>1, SelectLife, TopInFull
<1>2. CASE TimeOut
  <2>1. life' = LifeAtTop \/ (1 \in Overdue /\ life' = [LifeAtTop EXCEPT ![slot[1]] = GONE])
    BY <1>2 DEF TimeOut
  <2>2. life' = LifeAtTop \/ \E i \in Occupied : life' = [LifeAtTop EXCEPT ![slot[i]] = GONE]
    BY <2>1 DEF Overdue
  <2> QED
    BY <2>2, <1>2, TimeOutLife, TopInFull
<1>3. ASSUME NEW c \in Client, Accept(c)  PROVE LifeInv' /\ GoesInFull
  <2>1. LifeInv'
    BY <1>3, AcceptLife
  <2>2. ASSUME NEW d \in Client, life[d] = DRAINING  PROVE life'[d] # GONE
    <3>1. Ejected \subseteq 1..Slots /\ NoOne \notin Client
      BY EjectedAreSlots, ServingAssumption
    <3>2. ~\E i \in Ejected : slot[i] = d
      BY <3>1, <2>2 DEF LifeInv, Slotted, ACCEPTED, DRAINING
    <3> QED
      BY <3>2, <2>2, <1>3 DEF Accept, DRAINING, GONE, ACCEPTED
  <2> QED
    BY <2>1, <2>2 DEF GoesInFull
<1>4. CASE ReadTypes
  <2>1. LifeInv'
    BY <1>4, ReadTypesLife
  <2>2. ASSUME NEW d \in Client, life[d] = DRAINING  PROVE life'[d] # GONE
    <3>1. d \notin InSlot
      BY <2>2 DEF InSlot, DRAINING, ACCEPTED
    <3> QED
      BY <3>1, <2>2, <1>4 DEF ReadTypes, DRAINING, GONE, OPEN
  <2> QED
    BY <2>1, <2>2 DEF GoesInFull
<1>5. ASSUME NEW c \in Client, ServeStep(c)  PROVE LifeInv' /\ GoesInFull
  BY <1>5, ServeStepLife
<1>6. ASSUME \/ NothingToAccept \/ EndOfTurn \/ RequestShutdown \/ Tick \/ UNCHANGED vars
             \/ \E c \in Client : Connect(c) \/ Send(c) \/ HangUp(c)
      PROVE  LifeInv' /\ GoesInFull
  BY <1>6, OtherLife
<1> QED
  BY <1>1, <1>2, <1>3, <1>4, <1>5, <1>6 DEF Next, Loop, Serve, ServeStep

\* A connection that a handler ended with set_in_shutdown is deleted only when its
\* queue and its write buffer are empty, or its peer is gone (serv_main, the top of
\* the loop; conn_shutdown and the slots' timeouts take no other draining one).
THEOREM DrainingEndsInFull == Spec => DrainedInFull
<1>1. LifeInv /\ [Next]_vars => LifeInv' /\ [GoesInFull]_vars
  BY LifeStep
<1> QED
  BY <1>1, LifeInit, PTL DEF Spec, DrainedInFull

-----------------------------------------------------------------------------
(* The cells of a client's stream: message k is behind the first k - 1.    *)

Pairs == Nat \X Nat
Message(c, k) == [j \in 1..Stream[c][k] |-> <<k, j>>]
Blocks(c) == [k \in DOMAIN Stream[c] |-> Message(c, k)]
Upto(c, k) == FlattenSeq(SubSeq(Blocks(c), 1, k))
EndOf(c, k) == Len(Upto(c, k))

\* The messages of a stream.
LEMMA BlocksTyped ==
  ASSUME NEW c \in Client
  PROVE  /\ Len(Stream[c]) \in Nat /\ DOMAIN Stream[c] = 1..Len(Stream[c])
         /\ Blocks(c) \in Seq(Seq(Pairs)) /\ Len(Blocks(c)) = Len(Stream[c])
         /\ \A k \in 1..Len(Stream[c]) :
              /\ Stream[c][k] \in Nat \ {0} /\ Message(c, k) \in Seq(Pairs)
              /\ Len(Message(c, k)) = Stream[c][k] /\ Blocks(c)[k] = Message(c, k)
<1>1. Stream[c] \in Seq(Nat \ {0})
  BY ServingAssumption
<1>2. /\ Len(Stream[c]) \in Nat /\ DOMAIN Stream[c] = 1..Len(Stream[c])
      /\ \A k \in 1..Len(Stream[c]) : Stream[c][k] \in Nat \ {0}
  BY <1>1
<1>3. ASSUME NEW k \in 1..Len(Stream[c])
      PROVE  Message(c, k) \in Seq(Pairs) /\ Len(Message(c, k)) = Stream[c][k]
  <2> DEFINE l == Stream[c][k]
  <2>1. l \in Nat
    BY <1>2
  <2>2. Message(c, k) = [j \in 1..l |-> <<k, j>>]
    BY DEF Message
  <2> HIDE DEF l
  <2>3. Message(c, k) \in [1..l -> Pairs]
    BY <2>1, <2>2, <1>2 DEF Pairs
  <2>4. Message(c, k) \in Seq(Pairs) /\ Len(Message(c, k)) = l
    BY <2>1, <2>3
  <2> QED
    BY <2>4 DEF l
<1>4. Blocks(c) = [k \in 1..Len(Stream[c]) |-> Message(c, k)]
  BY <1>2 DEF Blocks
<1>5. Blocks(c) \in [1..Len(Stream[c]) -> Seq(Pairs)]
  BY <1>3, <1>4
<1>6. Blocks(c) \in Seq(Seq(Pairs)) /\ Len(Blocks(c)) = Len(Stream[c])
  BY <1>2, <1>5
<1> QED
  BY <1>2, <1>3, <1>4, <1>6

\* The cells up to the end of message k.
LEMMA UptoGrows ==
  ASSUME NEW c \in Client
  PROVE  /\ Upto(c, 0) = <<>> /\ Upto(c, Len(Stream[c])) = Cells(c)
         /\ \A k \in 0..Len(Stream[c]) : Upto(c, k) \in Seq(Pairs)
         /\ \A k \in 1..Len(Stream[c]) : Upto(c, k) = Upto(c, k - 1) \o Message(c, k)
<1> DEFINE N == Len(Stream[c])
           B == Blocks(c)
<1>1. /\ N \in Nat /\ B \in Seq(Seq(Pairs)) /\ Len(B) = N
      /\ \A k \in 1..N : B[k] = Message(c, k) /\ Message(c, k) \in Seq(Pairs)
  BY BlocksTyped
<1>2. Cells(c) = FlattenSeq(B)
  BY DEF Cells, CellsOf, Blocks, Message
<1> HIDE DEF N, B
<1>3. SubSeq(B, 1, 0) = <<>> /\ SubSeq(B, 1, N) = B
  BY <1>1, SubSeqEmpty, SubSeqFull
<1>4. ASSUME NEW k \in 0..N  PROVE SubSeq(B, 1, k) \in Seq(Seq(Pairs))
  BY <1>1, FirstPlaces
<1>5. ASSUME NEW k \in 0..N  PROVE FlattenSeq(SubSeq(B, 1, k)) \in Seq(Pairs)
  <2>1. SubSeq(B, 1, k) \in Seq(Seq(Pairs)) /\ <<>> \in Seq(Pairs)
    BY <1>4
  <2> QED
    BY <2>1, FlattenAppend
<1>6. ASSUME NEW k \in 1..N
      PROVE  FlattenSeq(SubSeq(B, 1, k)) = FlattenSeq(SubSeq(B, 1, k - 1)) \o Message(c, k)
  <2>1. k - 1 \in 0..N /\ k - 1 + 1 = k
    BY <1>1
  <2>2. SubSeq(B, 1, k - 1) \in Seq(Seq(Pairs)) /\ Message(c, k) \in Seq(Pairs)
    BY <1>1, <1>4, <2>1
  <2>3. SubSeq(B, 1, k) = Append(SubSeq(B, 1, k - 1), Message(c, k))
    <3>1. k \in 1..Len(B) /\ 1 \in 1..Len(B) /\ k \in 1..Len(B)
      BY <1>1
    <3>2. SubSeq(B, 1, k) = SubSeq(B, 1, k - 1) \o <<B[k]>>
      BY <1>1, <3>1, SubSeqRecursiveSecond
    <3>3. Append(SubSeq(B, 1, k - 1), Message(c, k)) = SubSeq(B, 1, k - 1) \o <<Message(c, k)>>
      BY <2>2, AppendIsConcat
    <3> QED
      BY <3>2, <3>3, <1>1
  <2> QED
    BY <2>2, <2>3, FlattenAppend
<1>7. FlattenSeq(<<>>) = <<>>
  BY DEF FlattenSeq
<1> QED
  BY <1>2, <1>3, <1>5, <1>6, <1>7 DEF Upto, N, B

\* Where message k of a stream ends.
LEMMA EndsGrow ==
  ASSUME NEW c \in Client
  PROVE  /\ EndOf(c, 0) = 0 /\ EndOf(c, Len(Stream[c])) = Len(Cells(c))
         /\ \A k \in 0..Len(Stream[c]) : EndOf(c, k) \in Nat
         /\ \A k \in 1..Len(Stream[c]) : EndOf(c, k) = EndOf(c, k - 1) + Stream[c][k]
<1> DEFINE N == Len(Stream[c])
<1>1. /\ N \in Nat
      /\ \A k \in 1..N : Message(c, k) \in Seq(Pairs) /\ Len(Message(c, k)) = Stream[c][k]
  BY BlocksTyped
<1>2. /\ Upto(c, 0) = <<>> /\ Upto(c, N) = Cells(c)
      /\ \A k \in 0..N : Upto(c, k) \in Seq(Pairs)
      /\ \A k \in 1..N : Upto(c, k) = Upto(c, k - 1) \o Message(c, k)
  BY UptoGrows
<1> HIDE DEF N
<1>3. ASSUME NEW k \in 1..N  PROVE EndOf(c, k) = EndOf(c, k - 1) + Stream[c][k]
  <2>1. k - 1 \in 0..N
    BY <1>1
  <2>2. Upto(c, k - 1) \in Seq(Pairs) /\ Message(c, k) \in Seq(Pairs)
    BY <1>1, <1>2, <2>1
  <2>3. Len(Upto(c, k - 1) \o Message(c, k)) = Len(Upto(c, k - 1)) + Len(Message(c, k))
    BY <2>2, ConcatProperties
  <2> QED
    BY <2>3, <1>1, <1>2 DEF EndOf
<1>4. \A k \in 0..N : EndOf(c, k) \in Nat
  BY <1>2 DEF EndOf
<1>5. EndOf(c, 0) = 0
  BY <1>2 DEF EndOf
<1> QED
  BY <1>2, <1>3, <1>4, <1>5 DEF EndOf, N

\* The stream begins with the cells up to the end of message k.
LEMMA UptoIsPrefix ==
  ASSUME NEW c \in Client, NEW k \in 0..Len(Stream[c])
  PROVE  EndOf(c, k) <= Len(Cells(c)) /\ Upto(c, k) = SubSeq(Cells(c), 1, EndOf(c, k))
<1> DEFINE N == Len(Stream[c])
           E(i) == EndOf(c, i)
           U(i) == Upto(c, i)
           Begins(i, m) == E(i) <= E(m) /\ U(i) = SubSeq(U(m), 1, E(i))
           T == {m \in 0..N : \A i \in 0..m : Begins(i, m)}
<1>1. /\ N \in Nat /\ \A i \in 1..N : Stream[c][i] \in Nat \ {0} /\ Message(c, i) \in Seq(Pairs)
  BY BlocksTyped
<1>2. /\ U(N) = Cells(c)
      /\ \A i \in 0..N : U(i) \in Seq(Pairs)
      /\ \A i \in 1..N : U(i) = U(i - 1) \o Message(c, i)
  BY UptoGrows
<1>3. /\ E(N) = Len(Cells(c))
      /\ \A i \in 0..N : E(i) \in Nat /\ E(i) = Len(U(i))
      /\ \A i \in 1..N : E(i) = E(i - 1) + Stream[c][i]
  BY EndsGrow DEF EndOf
<1> HIDE DEF N, E, U
<1>4. ASSUME NEW i \in 0..N  PROVE Begins(i, i)
  BY <1>2, <1>3, SubSeqFull
<1>5. 0 \in T
  <2>1. Begins(0, 0)
    BY <1>1, <1>4
  <2>2. \A i \in 0..0 : i = 0
    OBVIOUS
  <2> HIDE DEF Begins
  <2> QED
    BY <1>1, <2>1, <2>2
<1>6. ASSUME NEW m \in Nat, m < N, m \in T  PROVE m + 1 \in T
  <2>1. m + 1 \in 1..N /\ m \in 0..N /\ m + 1 \in 0..N /\ (m + 1) - 1 = m
    BY <1>1, <1>6
  <2>2. U(m + 1) = U(m) \o Message(c, m + 1) /\ E(m + 1) = E(m) + Stream[c][m + 1]
    BY <1>2, <1>3, <2>1
  <2>3. ASSUME NEW i \in 0..(m + 1)  PROVE Begins(i, m + 1)
    <3>1. CASE i = m + 1
      BY <3>1, <2>1, <1>4
    <3>2. CASE i # m + 1
      <4>1. i \in 0..m /\ i \in 0..N
        BY <3>2, <2>1, <1>1
      <4>2. E(i) <= E(m) /\ U(i) = SubSeq(U(m), 1, E(i))
        BY <4>1, <1>6
      <4>3. E(i) \in 0..Len(U(m)) /\ U(m) \in Seq(Pairs) /\ Message(c, m + 1) \in Seq(Pairs)
        BY <4>1, <4>2, <2>1, <1>1, <1>2, <1>3
      <4>4. SubSeq(U(m) \o Message(c, m + 1), 1, E(i)) = SubSeq(U(m), 1, E(i))
        BY <4>3, FirstPart
      <4>5. E(i) <= E(m + 1)
        BY <4>1, <4>2, <2>1, <2>2, <1>1, <1>3
      <4> QED
        BY <4>2, <4>4, <4>5, <2>2
    <3> QED
      BY <3>1, <3>2
  <2> HIDE DEF Begins
  <2> QED
    BY <2>1, <2>3
<1> HIDE DEF T
<1>7. N \in T
  <2>1. N \in Nat /\ 0 \in T /\ \A m \in Nat : m < N /\ m \in T => m + 1 \in T
    BY <1>1, <1>5, <1>6
  <2>2. \A m \in 0..N : m \in T
    BY ONLY <2>1, UpTo
  <2> QED
    BY <2>1, <2>2
<1>8. k \in 0..N
  BY DEF N
<1>9. Begins(k, N)
  BY <1>7, <1>8 DEF T
<1> QED
  BY <1>9, <1>2, <1>3 DEF E, U

\* Where message k is in the stream.
LEMMA MessageAt ==
  ASSUME NEW c \in Client, NEW k \in 1..Len(Stream[c])
  PROVE  /\ EndOf(c, k - 1) \in Nat /\ EndOf(c, k) = EndOf(c, k - 1) + Stream[c][k]
         /\ EndOf(c, k) <= Len(Cells(c)) /\ Stream[c][k] \in Nat \ {0}
         /\ \A j \in 1..Stream[c][k] : Cells(c)[EndOf(c, k - 1) + j] = <<k, j>>
         /\ SubSeq(Cells(c), EndOf(c, k - 1) + 1, EndOf(c, k)) = Message(c, k)
<1> DEFINE N == Len(Stream[c])
           l == Stream[c][k]
           a == EndOf(c, k - 1)
           z == EndOf(c, k)
           s == Cells(c)
           M == Message(c, k)
<1>1. N \in Nat /\ l \in Nat \ {0} /\ M \in Seq(Pairs) /\ Len(M) = l
  BY BlocksTyped
<1>2. k - 1 \in 0..N /\ k \in 0..N
  BY <1>1
<1>3. a \in Nat /\ z = a + l
  BY <1>2, EndsGrow
<1>4. z <= Len(s) /\ Upto(c, k) = SubSeq(s, 1, z)
  BY <1>2, UptoIsPrefix
<1>5. s \in Seq(Pairs)
  BY <1>1, UptoGrows
<1>6. Upto(c, k) = Upto(c, k - 1) \o M /\ Upto(c, k - 1) \in Seq(Pairs) /\ Len(Upto(c, k - 1)) = a
  BY <1>2, UptoGrows DEF EndOf
<1>7. \A j \in 1..l : M[j] = <<k, j>>
  BY DEF Message
<1> HIDE DEF N, l, a, z, s, M
<1>8. ASSUME NEW j \in 1..l  PROVE s[a + j] = <<k, j>>
  <2>1. Upto(c, k)[a + j] = M[j]
    <3>1. \A i \in 1..(a + Len(M)) : (Upto(c, k - 1) \o M)[i] =
                                        IF i <= a THEN Upto(c, k - 1)[i] ELSE M[i - a]
      BY <1>1, <1>6, ConcatProperties
    <3>2. a + j \in 1..(a + Len(M)) /\ ~(a + j <= a) /\ (a + j) - a = j
      BY <1>1, <1>3
    <3> QED
      BY <3>1, <3>2, <1>6
  <2>2. SubSeq(s, 1, z)[a + j] = s[a + j]
    <3>1. z \in 0..Len(s) /\ a + j \in 1..z
      BY <1>1, <1>3, <1>4, <1>5
    <3>2. \A i \in 1..z : SubSeq(s, 1, z)[i] = s[i]
      BY <3>1, <1>5, FirstPlaces
    <3> QED
      BY <3>1, <3>2
  <2> QED
    BY <2>1, <2>2, <1>4, <1>7
<1>9. SubSeq(s, a + 1, z) = M
  <2> DEFINE t == SubSeq(s, a + 1, z)
  <2>1. t \in Seq(Pairs) /\ Len(t) = l /\ \A i \in 1..l : t[i] = s[a + i]
    <3>1. \A i \in (a + 1)..z : s[i] \in Pairs
      BY <1>1, <1>3, <1>4, <1>5
    <3>2. /\ t \in Seq(Pairs) /\ Len(t) = IF a + 1 <= z THEN z - (a + 1) + 1 ELSE 0
          /\ \A i \in 1..(z - (a + 1) + 1) : t[i] = s[(a + 1) + i - 1]
      BY <3>1, <1>1, <1>3, SubSeqProperties
    <3>3. /\ z - (a + 1) + 1 = l /\ a + 1 <= z
          /\ \A i \in 1..l : (a + 1) + i - 1 = a + i
      BY <1>1, <1>3
    <3> HIDE DEF t
    <3> QED
      BY <3>2, <3>3
  <2> HIDE DEF t
  <2>2. t = M
    BY <2>1, <1>1, <1>7, <1>8, SeqEqual
  <2> QED
    BY <2>2 DEF t
<1> QED
  BY <1>1, <1>3, <1>4, <1>8, <1>9 DEF l, a, z, s, M

-----------------------------------------------------------------------------
(* How the messages are taken out of the read buffer.                      *)

\* A cell names one of the client's messages.
LEMMA CellsNumbered ==
  ASSUME NEW c \in Client
  PROVE  Cells(c) \in Seq((1..Len(Stream[c])) \X Nat)
<1> DEFINE N == Len(Stream[c])
           S == (1..N) \X Nat
           B == Blocks(c)
<1>1. N \in Nat /\ DOMAIN Stream[c] = 1..N /\ \A k \in 1..N : Stream[c][k] \in Nat
  BY BlocksTyped
<1>2. ASSUME NEW k \in 1..N  PROVE Message(c, k) \in Seq(S)
  <2> DEFINE l == Stream[c][k]
  <2>1. l \in Nat /\ Message(c, k) = [j \in 1..l |-> <<k, j>>]
    BY <1>1 DEF Message
  <2> HIDE DEF l
  <2>2. \A j \in 1..l : <<k, j>> \in S
    BY <2>1
  <2> HIDE DEF S
  <2>3. Message(c, k) \in [1..l -> S]
    BY <2>1, <2>2
  <2> QED
    BY <2>1, <2>3
<1> HIDE DEF S
<1>3. B \in [1..N -> Seq(S)]
  BY <1>1, <1>2 DEF Blocks
<1>4. B \in Seq(Seq(S)) /\ <<>> \in Seq(S)
  BY <1>1, <1>3
<1> HIDE DEF B
<1>5. FlattenSeq(B) \in Seq(S)
  BY <1>4, FlattenAppend
<1>6. Cells(c) = FlattenSeq(B)
  BY DEF Cells, CellsOf, B, Blocks, Message
<1> QED
  BY <1>5, <1>6 DEF S

\* m_read_off, message by message.
LEMMA ReadOffIs ==
  ASSUME NEW c \in Client, NEW b \in Seq(Pairs), \A i \in 1..Len(b) : Claimed(c, b[i]) \in Nat
  PROVE  /\ ReadOff(c, b)[0] = 0
         /\ \A i \in 1..Len(b) :
              Enough(c, b, ReadOff(c, b)[i - 1]) =>
                ReadOff(c, b)[i] = ReadOff(c, b)[i - 1] + Claimed(c, b[ReadOff(c, b)[i - 1] + 1])
<1> DEFINE n == Len(b)
           Nxt(x) == x + Claimed(c, b[x + 1])
           F == [p \in (0..n) \X (1..n) |-> IF Enough(c, b, p[1]) THEN Nxt(p[1]) ELSE p[1]]
           Off(f) == [i \in 0..n |-> CASE i = 0 -> 0
                                       [] i > 0 /\ Enough(c, b, f[i - 1]) -> Nxt(f[i - 1])
                                       [] OTHER -> f[i - 1]]
           it == CHOOSE f : f = Off(f)
<1>1. n \in Nat
  OBVIOUS
<1>2. ReadOff(c, b) = it
  BY DEF ReadOff
<1>3. ASSUME NEW x \in 0..n, Enough(c, b, x)  PROVE Nxt(x) \in 0..n
  <2>1. x < n /\ Nxt(x) <= n
    BY <1>3 DEF Enough
  <2>2. x + 1 \in 1..n
    BY <1>1, <2>1
  <2>3. Claimed(c, b[x + 1]) \in Nat
    BY <2>2
  <2> QED
    BY <2>1, <2>3, <1>1
<1> HIDE DEF Nxt
<1>4. PICK f : Recurs(n, 0..n, 0, F, f)
  <2>1. \A i \in 1..n : \A x \in 0..n : F[<<x, i>>] \in 0..n
    BY <1>3
  <2>2. 0 \in 0..n
    BY <1>1
  <2> HIDE DEF F, n
  <2> QED
    BY <1>1, <2>1, <2>2, RecursionExists
<1> HIDE DEF n
<1>5. f = Off(f)
  <2>1. f \in [0..n -> 0..n] /\ f[0] = 0
    BY <1>4 DEF Recurs
  <2>2. ASSUME NEW i \in 0..n
        PROVE  f[i] = CASE i = 0 -> 0
                        [] i > 0 /\ Enough(c, b, f[i - 1]) -> Nxt(f[i - 1])
                        [] OTHER -> f[i - 1]
    <3>1. CASE i = 0
      BY <2>1, <3>1
    <3>2. CASE i # 0
      <4>1. i \in 1..n /\ i - 1 \in 0..n /\ i > 0
        BY <3>2, <1>1
      <4>2. f[i] = F[<<f[i - 1], i>>] /\ f[i - 1] \in 0..n
        BY <4>1, <1>4, <2>1 DEF Recurs
      <4>3. f[i] = IF Enough(c, b, f[i - 1]) THEN Nxt(f[i - 1]) ELSE f[i - 1]
        BY <4>1, <4>2
      <4> QED
        BY <4>1, <4>3, <3>2
    <3> QED
      BY <3>1, <3>2
  <2> QED
    BY <2>1, <2>2
<1>6. it = Off(it)
  <2> HIDE DEF Off
  <2> QED
    BY <1>5
<1> HIDE DEF it
<1>7. it[0] = 0
  BY <1>6, <1>1
<1>8. ASSUME NEW i \in 1..n, Enough(c, b, it[i - 1])  PROVE it[i] = Nxt(it[i - 1])
  <2>1. i \in 0..n /\ i > 0 /\ i # 0
    BY <1>1
  <2> QED
    BY <2>1, <1>6, <1>8
<1> QED
  BY <1>2, <1>7, <1>8 DEF n, Nxt

\* h messages are taken out of b, and they are those behind message H.
TakesOut(c, b, h) == h <= Len(b) /\ \A i \in 1..h : Enough(c, b, ReadOff(c, b)[i - 1])
TheNext(c, b, h, H) ==
  \A i \in 1..h : SubSeq(b, ReadOff(c, b)[i - 1] + 1, ReadOff(c, b)[i]) = Message(c, H + i)

\* b is the cut of the stream from where message H ends up to z
IsCut(c, H, z, b) ==
  /\ H \in 0..Len(Stream[c]) /\ z \in Nat /\ EndOf(c, H) <= z /\ z <= Len(Cells(c))
  /\ b = SubSeq(Cells(c), EndOf(c, H) + 1, z)
TakenOut(c, H, z, b, h) ==
  /\ H + h <= Len(Stream[c]) /\ EndOf(c, H + h) <= z /\ TheNext(c, b, h, H)
  /\ SubSeq(b, ReadOff(c, b)[h] + 1, Len(b)) = SubSeq(Cells(c), EndOf(c, H + h) + 1, z)

\* The parts of a buffer that begins where message H ends: the messages that
\* follow, each whole, and what is left.
LEMMA Framing ==
  ASSUME NEW c \in Client, NEW H, NEW z, NEW b, NEW h \in Nat,
         IsCut(c, H, z, b), TakesOut(c, b, h)
  PROVE  TakenOut(c, H, z, b, h)
<1> SUFFICES ASSUME H \in 0..Len(Stream[c]), z \in Nat,
                    EndOf(c, H) <= z, z <= Len(Cells(c)),
                    b = SubSeq(Cells(c), EndOf(c, H) + 1, z)
             PROVE  /\ H + h <= Len(Stream[c]) /\ EndOf(c, H + h) <= z /\ TheNext(c, b, h, H)
                    /\ SubSeq(b, ReadOff(c, b)[h] + 1, Len(b))
                         = SubSeq(Cells(c), EndOf(c, H + h) + 1, z)
  BY DEF IsCut, TakenOut
<1> DEFINE N == Len(Stream[c])
           s == Cells(c)
           a == EndOf(c, H)
           off == ReadOff(c, b)
           T == {i \in 0..h : /\ H + i <= N /\ off[i] = EndOf(c, H + i) - a
                              /\ a <= EndOf(c, H + i) /\ EndOf(c, H + i) <= z}
<1>1. N \in Nat /\ H \in 0..N /\ s \in Seq(Pairs) /\ s \in Seq((1..N) \X Nat)
  BY BlocksTyped, UptoGrows, CellsNumbered
<1>2. a \in Nat /\ EndOf(c, N) = Len(s) /\ \A k \in 0..N : EndOf(c, k) \in Nat
  BY EndsGrow
<1>3. ASSUME NEW k \in 1..N
      PROVE  /\ EndOf(c, k - 1) \in Nat /\ EndOf(c, k) = EndOf(c, k - 1) + Stream[c][k]
             /\ Stream[c][k] \in Nat \ {0} /\ s[EndOf(c, k - 1) + 1] = <<k, 1>>
             /\ SubSeq(s, EndOf(c, k - 1) + 1, EndOf(c, k)) = Message(c, k)
  <2>1. /\ EndOf(c, k - 1) \in Nat /\ EndOf(c, k) = EndOf(c, k - 1) + Stream[c][k]
        /\ Stream[c][k] \in Nat \ {0}
        /\ \A j \in 1..Stream[c][k] : s[EndOf(c, k - 1) + j] = <<k, j>>
        /\ SubSeq(s, EndOf(c, k - 1) + 1, EndOf(c, k)) = Message(c, k)
    BY MessageAt
  <2>2. 1 \in 1..Stream[c][k]
    BY <2>1
  <2> QED
    BY <2>1, <2>2
<1>4. b = SubSeq(s, a + 1, z) /\ a <= z /\ z <= Len(s) /\ Len(s) \in Nat
  BY <1>1
<1>5. h <= Len(b) /\ \A i \in 1..h : Enough(c, b, off[i - 1])
  BY DEF TakesOut
<1>6. \A k \in 1..N : Stream[c][k] \in Nat
  BY BlocksTyped
<1> HIDE DEF N, s, a, off
<1>7. b \in Seq(Pairs) /\ Len(b) = z - a
  <2>1. 0 \in Nat /\ 0 <= 0 /\ 0 <= z - a
    BY <1>2, <1>4
  <2> QED
    BY ONLY <2>1, <1>1, <1>2, <1>4, z \in Nat, PartOfPart, SMTT(30)
<1>8. \A j \in 1..Len(b) : b[j] = s[a + j] /\ a + j \in 1..Len(s)
  <2>1. \A j \in (a + 1)..z : s[j] \in Pairs
    BY ONLY <1>1, <1>2, <1>4, z \in Nat
  <2>2. a + 1 \in Int /\ z \in Int
    BY <1>2
  <2> DEFINE a1 == a + 1
  <2> HIDE DEF a1
  <2>3. \A j \in 1..(z - a1 + 1) : SubSeq(s, a1, z)[j] = s[a1 + j - 1]
    BY <2>1, <2>2, SubSeqProperties DEF a1
  <2>4. z - a1 + 1 = Len(b) /\ \A j \in 1..Len(b) : a1 + j - 1 = a + j /\ a + j \in 1..Len(s)
    BY <1>2, <1>4, <1>7 DEF a1
  <2>5. b = SubSeq(s, a1, z)
    BY <1>4 DEF a1
  <2> QED
    BY <2>3, <2>4, <2>5
<1>9. ASSUME NEW j \in 1..Len(b)  PROVE Claimed(c, b[j]) \in Nat
  <2>1. b[j] \in (1..N) \X Nat
    <3>1. b[j] = s[a + j] /\ a + j \in 1..Len(s)
      BY <1>8
    <3> QED
      BY ONLY <3>1, <1>1
  <2>2. b[j][1] \in 1..N
    BY <2>1
  <2> QED
    BY <2>2, <1>6 DEF Claimed
<1>10. /\ off[0] = 0
       /\ \A i \in 1..Len(b) : Enough(c, b, off[i - 1]) =>
                                 off[i] = off[i - 1] + Claimed(c, b[off[i - 1] + 1])
  BY <1>7, <1>9, ReadOffIs DEF off
<1>11. 0 \in T
  <2>1. H + 0 = H /\ a - a = 0 /\ EndOf(c, H) = a /\ H <= N
    BY <1>1, <1>2 DEF a
  <2> QED
    BY <2>1, <1>2, <1>4, <1>10
<1>12. ASSUME NEW i \in Nat, i < h, i \in T  PROVE i + 1 \in T
  <2> DEFINE k == H + i
             x == off[i]
  <2>1. /\ k <= N /\ k \in 0..N /\ x = EndOf(c, k) - a /\ a <= EndOf(c, k) /\ EndOf(c, k) <= z
        /\ i + 1 \in 1..h /\ (i + 1) - 1 = i /\ i + 1 \in 0..h /\ H + (i + 1) = k + 1
    BY <1>1, <1>12
  <2>2. i + 1 \in 1..Len(b)
    BY <1>2, <1>4, <1>5, <1>7, <2>1, SMTT(30)
  <2>3. Enough(c, b, x) /\ off[i + 1] = x + Claimed(c, b[x + 1])
    BY <1>5, <1>10, <2>1, <2>2
  <2> HIDE DEF k, x, T
  <2>4. EndOf(c, k) \in Nat
    BY <1>2, <2>1
  <2>5. x < Len(b) /\ x + Claimed(c, b[x + 1]) <= Len(b) /\ x \in Nat
    BY ONLY <1>2, <2>1, <2>3, <2>4 DEF Enough
  <2>6. k # N
    BY <2>1, <2>5, <1>2, <1>4, <1>7
  <2>7. k + 1 \in 1..N /\ (k + 1) - 1 = k /\ k + 1 <= N
    BY <2>1, <2>6, <1>1
  <2> DEFINE l == Stream[c][k + 1]
  <2>8. EndOf(c, k + 1) = EndOf(c, k) + l /\ l \in Nat \ {0} /\ s[EndOf(c, k) + 1] = <<k + 1, 1>>
    BY <2>7, <1>3
  <2>9. b[x + 1] = <<k + 1, 1>>
    <3>1. x + 1 \in 1..Len(b) /\ a + (x + 1) = EndOf(c, k) + 1
      BY ONLY <2>1, <2>4, <2>5, <1>2, <1>7, z \in Nat, SMTT(30)
    <3> QED
      BY <3>1, <2>8, <1>8
  <2>10. Claimed(c, b[x + 1]) = l
    <3>1. b[x + 1][1] = k + 1 /\ b[x + 1][2] = 1
      BY ONLY <2>9
    <3> QED
      BY ONLY <3>1 DEF Claimed
  <2> HIDE DEF l
  <2>11. off[i + 1] = EndOf(c, k + 1) - a /\ a <= EndOf(c, k + 1) /\ EndOf(c, k + 1) <= z
    <3> DEFINE d == EndOf(c, k)
               e == EndOf(c, k + 1)
               y == off[i + 1]
    <3>1. /\ d \in Nat /\ l \in Nat /\ e = d + l /\ x = d - a /\ y = x + l /\ a <= d /\ a \in Nat
          /\ x + l <= z - a
      BY ONLY <2>1, <2>3, <2>4, <2>5, <2>8, <2>10, <1>2, <1>7
    <3> HIDE DEF d, e, y
    <3>2. y = e - a /\ a <= e /\ e <= z
      BY ONLY <3>1, z \in Nat
    <3> QED
      BY ONLY <3>2 DEF e, y
  <2> QED
    BY <2>1, <2>7, <2>11 DEF T
<1>13. \A i \in 0..h : i \in T
  <2> HIDE DEF T
  <2>1. h \in Nat /\ 0 \in T /\ \A i \in Nat : i < h /\ i \in T => i + 1 \in T
    BY <1>11, <1>12
  <2> QED
    BY ONLY <2>1, UpTo
<1>14. ASSUME NEW m \in Nat, NEW n \in Nat, m <= n, n <= z - a
       PROVE  SubSeq(b, m + 1, n) = SubSeq(s, a + m + 1, a + n)
  BY ONLY <1>14, <1>1, <1>2, <1>4, z \in Nat, PartOfPart
<1>15. ASSUME NEW i \in 1..h  PROVE SubSeq(b, off[i - 1] + 1, off[i]) = Message(c, H + i)
  <2> DEFINE k == H + i
             m == off[i - 1]
             n == off[i]
  <2>1. i - 1 \in 0..h /\ i \in 0..h
    OBVIOUS
  <2>2. i - 1 \in T /\ i \in T
    BY <2>1, <1>13
  <2>3. k \in 1..N /\ k - 1 = H + (i - 1)
    BY <2>2, <1>1
  <2>4. /\ m = EndOf(c, k - 1) - a /\ n = EndOf(c, k) - a /\ EndOf(c, k) <= z
        /\ a <= EndOf(c, k - 1)
    BY <2>2, <2>3
  <2> HIDE DEF k, T, m, n
  <2>5. /\ EndOf(c, k - 1) \in Nat /\ EndOf(c, k) = EndOf(c, k - 1) + Stream[c][k]
        /\ Stream[c][k] \in Nat \ {0}
        /\ SubSeq(s, EndOf(c, k - 1) + 1, EndOf(c, k)) = Message(c, k)
    BY <2>3, <1>3
  <2>6. /\ m \in Nat /\ n \in Nat /\ m <= n /\ n <= z - a
        /\ a + m + 1 = EndOf(c, k - 1) + 1 /\ a + n = EndOf(c, k)
    <3> DEFINE d == EndOf(c, k - 1)
               e == EndOf(c, k)
               l == Stream[c][k]
    <3>1. d \in Nat /\ l \in Nat /\ e = d + l /\ m = d - a /\ n = e - a /\ e <= z /\ a <= d /\ a \in Nat
      BY ONLY <2>4, <2>5, <1>2
    <3> HIDE DEF d, e, l
    <3>2. m \in Nat /\ n \in Nat /\ m <= n /\ n <= z - a /\ a + m + 1 = d + 1 /\ a + n = e
      BY ONLY <3>1, z \in Nat
    <3> QED
      BY ONLY <3>2 DEF d, e
  <2>7. SubSeq(b, m + 1, n) = SubSeq(s, a + m + 1, a + n)
    BY <2>6, <1>14
  <2>8. SubSeq(b, m + 1, n) = Message(c, k)
    BY <2>5, <2>6, <2>7
  <2> QED
    BY <2>8 DEF k, m, n
<1>16. /\ H + h <= N /\ EndOf(c, H + h) <= z
       /\ SubSeq(b, off[h] + 1, Len(b)) = SubSeq(s, EndOf(c, H + h) + 1, z)
  <2> DEFINE m == off[h]
             e == EndOf(c, H + h)
  <2>1. h \in T
    BY <1>13
  <2>2. H + h <= N /\ e <= z /\ m = e - a /\ a <= e
    BY <2>1
  <2>3. e \in Nat
    <3>1. H + h \in 0..N
      BY <2>2, <1>1
    <3> QED
      BY <3>1, <1>2
  <2> HIDE DEF m, e
  <2>4. /\ m \in Nat /\ Len(b) \in Nat /\ m <= Len(b) /\ Len(b) <= z - a
        /\ a + m + 1 = e + 1 /\ a + Len(b) = z
    BY ONLY <2>2, <2>3, <1>2, <1>4, <1>7, z \in Nat
  <2>5. SubSeq(b, m + 1, Len(b)) = SubSeq(s, a + m + 1, a + Len(b))
    BY <2>4, <1>14
  <2>6. SubSeq(b, m + 1, Len(b)) = SubSeq(s, e + 1, z)
    BY <2>4, <2>5
  <2> QED
    BY <2>2, <2>6 DEF m, e
<1> QED
  BY <1>15, <1>16 DEF off, N, s, TheNext

-----------------------------------------------------------------------------
(* What message_read was given and what is in the read buffer is what was  *)
(* read of the stream.                                                     *)

Early == {AWAY, BACKLOG, ACCEPTED}

Framed(c) ==
  /\ seen[c] \in Nat /\ sent[c] \in Nat /\ seen[c] <= sent[c] /\ sent[c] <= Len(Cells(c))
  /\ Len(heard[c]) \in 0..Len(Stream[c]) /\ heard[c] = SubSeq(Blocks(c), 1, Len(heard[c]))
  /\ life[c] \in {OPEN, DRAINING} =>
       /\ EndOf(c, Len(heard[c])) <= seen[c]
       /\ buf[c] = SubSeq(Cells(c), EndOf(c, Len(heard[c])) + 1, seen[c])
  /\ life[c] \in Early => heard[c] = <<>> /\ seen[c] = 0

FrameInv ==
  /\ DOMAIN seen = Client /\ DOMAIN sent = Client /\ DOMAIN buf = Client /\ DOMAIN heard = Client
  /\ \A c \in Client : Framed(c)

\* Nothing was read of c, and it did not become a connection.
LEMMA FrameUntouched ==
  ASSUME NEW c \in Client, Framed(c),
         seen'[c] = seen[c], buf'[c] = buf[c], heard'[c] = heard[c],
         sent'[c] = sent[c] \/ sent'[c] = Len(Cells(c)),
         \/ life'[c] = life[c]
         \/ life'[c] = GONE
         \/ life[c] \in Early /\ life'[c] \in Early
  PROVE  Framed(c)'
<1>1. Len(Cells(c)) \in Nat
  BY BlocksTyped, UptoGrows
<1>2. GONE \notin {OPEN, DRAINING} /\ GONE \notin Early /\ OPEN \notin Early /\ DRAINING \notin Early
  BY DEF Early, AWAY, BACKLOG, ACCEPTED, OPEN, DRAINING, GONE
<1> QED
  BY <1>1, <1>2 DEF Framed

\* Nothing was handed on before: the empty sequence is where the messages begin.
LEMMA NothingHeard ==
  ASSUME NEW c \in Client
  PROVE  Len(<<>>) \in 0..Len(Stream[c]) /\ SubSeq(Blocks(c), 1, Len(<<>>)) = <<>> /\ Len(<<>>) = 0
  BY BlocksTyped, SubSeqEmpty

\* At the start nothing was read.
LEMMA FrameInit == Init => FrameInv
<1> SUFFICES ASSUME Init  PROVE FrameInv
  OBVIOUS
<1>1. ASSUME NEW c \in Client  PROVE Framed(c)
  <2>1. Len(Cells(c)) \in Nat
    BY BlocksTyped, UptoGrows
  <2>2. seen[c] = 0 /\ sent[c] = 0 /\ heard[c] = <<>> /\ life[c] = AWAY
    BY DEF Init
  <2> QED
    BY <2>1, <2>2, NothingHeard DEF Framed, AWAY, OPEN, DRAINING
<1> QED
  BY <1>1 DEF FrameInv, Init

\* The connection is deleted.
LEMMA FrameDeleted ==
  ASSUME NEW c \in Client, Framed(c), heard'[c] = <<>>, life'[c] = GONE, sent'[c] = sent[c],
         seen'[c] \in Nat, seen'[c] <= sent[c]
  PROVE  Framed(c)'
<1>1. GONE \notin {OPEN, DRAINING} /\ GONE \notin Early
  BY DEF Early, AWAY, BACKLOG, ACCEPTED, OPEN, DRAINING, GONE
<1> QED
  BY <1>1, NothingHeard DEF Framed

\* A connection begins with its type byte in the read buffer.
LEMMA FrameBorn ==
  ASSUME NEW c \in Client, Framed(c), life[c] = ACCEPTED, HasData(c),
         seen'[c] = 1, buf'[c] = <<Cells(c)[1]>>, heard'[c] = heard[c], sent'[c] = sent[c],
         life'[c] = OPEN
  PROVE  Framed(c)'
<1>1. heard[c] = <<>> /\ seen[c] = 0 /\ sent[c] >= 1 /\ sent[c] \in Nat /\ sent[c] <= Len(Cells(c))
  BY DEF Framed, Early, HasData
<1>2. Cells(c) \in Seq(Pairs) /\ Len(Cells(c)) \in Nat
  BY BlocksTyped, UptoGrows
<1>3. EndOf(c, 0) = 0
  BY EndsGrow
<1>4. SubSeq(Cells(c), 1, 1) = <<Cells(c)[1]>>
  <2> DEFINE s == Cells(c)
             t == SubSeq(s, 1, 1)
  <2>1. 1 \in 0..Len(s) /\ s[1] \in Pairs
    BY <1>1, <1>2
  <2> HIDE DEF s
  <2>2. t \in Seq(Pairs) /\ Len(t) = 1 /\ t[1] = s[1]
    BY <1>2, <2>1, FirstPlaces DEF s
  <2> HIDE DEF t
  <2>3. <<s[1]>> \in Seq(Pairs) /\ Len(<<s[1]>>) = 1 /\ <<s[1]>>[1] = s[1]
    BY <2>1
  <2>4. t = <<s[1]>>
    BY <2>2, <2>3, SeqEqual
  <2> QED
    BY <2>4 DEF s, t
<1>5. Len(heard'[c]) = 0
  BY <1>1, NothingHeard
<1> QED
  BY <1>1, <1>2, <1>3, <1>4, <1>5, NothingHeard DEF Framed, Early, AWAY, BACKLOG, ACCEPTED, OPEN

\* The messages that are handled are those that follow in the stream.
LEMMA ReadParts ==
  ASSUME NEW c \in Client, Framed(c), life[c] = OPEN, NEW n, NEW h \in Nat, NEW how,
         Read(c, n, h, how)
  PROVE  TakenOut(c, Len(heard[c]), seen[c] + n,
                  buf[c] \o SubSeq(Cells(c), seen[c] + 1, seen[c] + n), h)
<1> DEFINE H == Len(heard[c])
           z == seen[c] + n
           s == Cells(c)
           b == buf[c] \o SubSeq(s, seen[c] + 1, z)
<1>1. /\ n \in 1..(sent[c] - seen[c]) /\ seen[c] \in Nat /\ sent[c] \in Nat /\ sent[c] <= Len(s)
      /\ H \in 0..Len(Stream[c]) /\ EndOf(c, H) <= seen[c]
      /\ buf[c] = SubSeq(s, EndOf(c, H) + 1, seen[c])
  BY DEF Framed, Read
<1>2. s \in Seq(Pairs) /\ Len(s) \in Nat
  BY BlocksTyped, UptoGrows
<1>3. EndOf(c, H) \in Nat
  BY <1>1, EndsGrow
<1>4. TakesOut(c, b, h)
  BY DEF Read, TakesOut
<1> HIDE DEF H, z, s
<1>5. z \in Nat /\ EndOf(c, H) <= z /\ z <= Len(s)
  BY <1>1, <1>2, <1>3, SMTT(30) DEF z
<1>6. b = SubSeq(s, EndOf(c, H) + 1, z)
  <2> DEFINE a == EndOf(c, H) + 1
             k == seen[c]
  <2>1. a \in 1..(Len(s) + 1) /\ k \in (a - 1)..Len(s) /\ z \in k..Len(s)
    BY ONLY <1>1, <1>2, <1>3, <1>5, SMTT(30) DEF z
  <2>2. b = SubSeq(s, a, k) \o SubSeq(s, k + 1, z)
    BY <1>1
  <2> HIDE DEF a, k, b
  <2> QED
    BY <2>1, <2>2, <1>2, ConcatAdjacentSubSeq DEF a
<1> HIDE DEF b
<1>7. IsCut(c, H, z, b)
  BY ONLY <1>1, <1>5, <1>6 DEF s, IsCut
<1>8. TakenOut(c, H, z, b, h)
  BY ONLY c \in Client, h \in Nat, <1>4, <1>7, Framing
<1> QED
  BY <1>8 DEF H, z, b, s

\* The messages of what was read are handled.
LEMMA FrameRead ==
  ASSUME NEW c \in Client, Framed(c), life[c] = OPEN, NEW n, NEW h \in Nat, NEW how,
         Read(c, n, h, how), DOMAIN seen = Client, DOMAIN buf = Client, DOMAIN heard = Client,
         life \in [Client -> Lives]
  PROVE  Framed(c)'
<1> DEFINE H == Len(heard[c])
           z == seen[c] + n
           s == Cells(c)
           b == buf[c] \o SubSeq(s, seen[c] + 1, z)
           off == ReadOff(c, b)
           msgs == [i \in 1..h |-> SubSeq(b, off[i - 1] + 1, off[i])]
           B == Blocks(c)
<1>1. /\ n \in 1..(sent[c] - seen[c]) /\ seen[c] \in Nat /\ sent[c] \in Nat /\ sent[c] <= Len(s)
      /\ H \in 0..Len(Stream[c]) /\ heard[c] = SubSeq(B, 1, H) /\ EndOf(c, H) <= seen[c]
      /\ buf[c] = SubSeq(s, EndOf(c, H) + 1, seen[c])
  BY DEF Framed, Read
<1>2. s \in Seq(Pairs) /\ Len(s) \in Nat
  BY BlocksTyped, UptoGrows
<1>3. /\ B \in Seq(Seq(Pairs)) /\ Len(B) = Len(Stream[c]) /\ Len(Stream[c]) \in Nat
      /\ \A k \in 1..Len(Stream[c]) : B[k] = Message(c, k)
  BY BlocksTyped
<1>4. EndOf(c, H) \in Nat
  BY <1>1, EndsGrow
<1>5. h <= Len(b) /\ \A i \in 1..h : Enough(c, b, off[i - 1])
  BY DEF Read
<1>6. /\ seen'[c] = z /\ sent'[c] = sent[c]
      /\ \/ life'[c] = GONE /\ heard'[c] = <<>>
         \/ /\ life'[c] \in {OPEN, DRAINING}
            /\ heard'[c] = heard[c] \o msgs /\ buf'[c] = SubSeq(b, off[h] + 1, Len(b))
  BY DEF Read, Rest, peers
<1> HIDE DEF H, z, s, msgs, B
<1>7. z \in Nat /\ EndOf(c, H) <= z /\ z <= Len(s) /\ z <= sent[c] /\ seen[c] <= z
  BY <1>1, <1>2, <1>4, SMTT(30) DEF z
<1>9. /\ H + h <= Len(Stream[c]) /\ EndOf(c, H + h) <= z
      /\ \A i \in 1..h : SubSeq(b, off[i - 1] + 1, off[i]) = Message(c, H + i)
      /\ SubSeq(b, off[h] + 1, Len(b)) = SubSeq(s, EndOf(c, H + h) + 1, z)
  <2>1. TakenOut(c, H, z, b, h)
    BY ReadParts DEF H, z, s
  <2> HIDE DEF b
  <2> QED
    BY <2>1 DEF s, TakenOut, TheNext
<1> HIDE DEF b, off
<1>10. heard[c] \o msgs = SubSeq(B, 1, H + h) /\ Len(SubSeq(B, 1, H + h)) = H + h
  <2> DEFINE t == SubSeq(B, H + 1, H + h)
  <2>1. H \in 0..Len(B) /\ H + h \in H..Len(B) /\ H + h \in 0..Len(B) /\ 1 \in 1..(Len(B) + 1)
    BY <1>1, <1>3, <1>9
  <2>2. SubSeq(B, 1, H) \o SubSeq(B, H + 1, H + h) = SubSeq(B, 1, H + h)
    <3>1. H \in (1 - 1)..Len(B)
      BY <2>1
    <3> QED
      BY <2>1, <3>1, <1>3, ConcatAdjacentSubSeq
  <2>3. msgs = t
    <3>1. t \in Seq(Seq(Pairs)) /\ Len(t) = h /\ \A i \in 1..h : t[i] = B[H + i]
      <4> DEFINE H1 == H + 1
                 Hh == H + h
      <4>1. \A i \in H1..Hh : B[i] \in Seq(Pairs)
        BY <1>3, <2>1
      <4>2. H1 \in Int /\ Hh \in Int /\ Hh - H1 + 1 = h /\ (H1 <= Hh <=> h # 0)
        BY <2>1
      <4>3. \A i \in 1..h : H1 + i - 1 = H + i
        BY <2>1
      <4> HIDE DEF H1, Hh
      <4>4. /\ SubSeq(B, H1, Hh) \in Seq(Seq(Pairs))
            /\ Len(SubSeq(B, H1, Hh)) = IF H1 <= Hh THEN Hh - H1 + 1 ELSE 0
            /\ \A i \in 1..(Hh - H1 + 1) : SubSeq(B, H1, Hh)[i] = B[H1 + i - 1]
        BY <4>1, <4>2, SubSeqProperties
      <4>5. t = SubSeq(B, H1, Hh)
        BY DEF H1, Hh
      <4> HIDE DEF t
      <4> QED
        BY <4>2, <4>3, <4>4, <4>5
    <3> HIDE DEF t
    <3>2. \A i \in 1..h : H + i \in 1..Len(Stream[c])
      BY <2>1, <1>3
    <3>3. \A i \in 1..h : msgs[i] = t[i]
      BY <3>1, <3>2, <1>3, <1>9 DEF msgs
    <3>4. msgs = [i \in 1..h |-> t[i]]
      BY <3>3 DEF msgs
    <3>5. t = [i \in 1..h |-> t[i]]
      BY <3>1
    <3> QED
      BY <3>4, <3>5
  <2>4. Len(SubSeq(B, 1, H + h)) = H + h
    BY <2>1, <1>3, FirstPlaces
  <2> QED
    BY <2>2, <2>3, <2>4, <1>1
<1>11. CASE life'[c] = GONE /\ heard'[c] = <<>>
  BY <1>6, <1>7, <1>11, FrameDeleted
<1>12. CASE /\ life'[c] \in {OPEN, DRAINING}
            /\ heard'[c] = heard[c] \o msgs /\ buf'[c] = SubSeq(b, off[h] + 1, Len(b))
  <2>1. heard'[c] = SubSeq(B, 1, H + h) /\ Len(heard'[c]) = H + h
    BY <1>10, <1>12
  <2>2. H + h \in 0..Len(Stream[c])
    BY <1>1, <1>3, <1>9
  <2>3. life'[c] \notin Early
    BY <1>12 DEF Early, AWAY, BACKLOG, ACCEPTED, OPEN, DRAINING
  <2> QED
    BY <2>1, <2>2, <2>3, <1>1, <1>6, <1>7, <1>9, <1>12 DEF Framed, B, s
<1> QED
  BY <1>6, <1>11, <1>12

\* A step that reads nothing and makes no connection.
LifeMoves ==
  \A c \in Client : \/ life'[c] = life[c]
                    \/ life'[c] = GONE
                    \/ life[c] \in Early /\ life'[c] \in Early

\* The streams are as they were.
LEMMA FrameElsewhere ==
  ASSUME FrameInv, seen' = seen, buf' = buf, heard' = heard, LifeMoves,
         sent' = sent \/ \E c \in Client : sent' = [sent EXCEPT ![c] = Len(Cells(c))]
  PROVE  FrameInv'
<1>1. ASSUME NEW c \in Client  PROVE Framed(c)'
  <2>1. Framed(c) /\ seen'[c] = seen[c] /\ buf'[c] = buf[c] /\ heard'[c] = heard[c]
    BY DEF FrameInv
  <2>2. sent'[c] = sent[c] \/ sent'[c] = Len(Cells(c))
    BY DEF FrameInv
  <2>3. \/ life'[c] = life[c]
        \/ life'[c] = GONE
        \/ life[c] \in Early /\ life'[c] \in Early
    BY DEF LifeMoves
  <2> QED
    BY <2>1, <2>2, <2>3, FrameUntouched
<1> QED
  BY <1>1 DEF FrameInv

\* The steps at the top of the loop and those of the clients read nothing, write
\* nothing and make no connection.
OtherStep ==
  \/ Select \/ Quit \/ TimeOut \/ NothingToAccept \/ EndOfTurn \/ RequestShutdown \/ Tick
  \/ UNCHANGED vars
  \/ \E c \in Client : Accept(c) \/ Connect(c) \/ Send(c) \/ HangUp(c)

\* What such a step leaves alone.
LEMMA OtherMoves ==
  ASSUME LifeInv, OtherStep
  PROVE  /\ seen' = seen /\ buf' = buf /\ heard' = heard /\ LifeMoves
         /\ sent' = sent \/ \E c \in Client : sent' = [sent EXCEPT ![c] = Len(Cells(c))]
         /\ queue' = queue /\ refs' = refs /\ wbuf' = wbuf /\ out' = out
<1>1. life \in [Client -> Lives]
  BY DEF LifeInv
<1>2. AWAY \in Early /\ BACKLOG \in Early /\ ACCEPTED \in Early
  BY DEF Early
<1>3. /\ LifeAtTop \in [Client -> Lives]
      /\ \A c \in Client : LifeAtTop[c] = life[c] \/ LifeAtTop[c] = GONE
  BY <1>1, TopLeaves
<1>4. CASE Select \/ Quit \/ TimeOut
  <2>1. /\ seen' = seen /\ buf' = buf /\ heard' = heard /\ sent' = sent
        /\ queue' = queue /\ refs' = refs /\ wbuf' = wbuf /\ out' = out
        /\ life' = LifeAtTop \/ life' = [LifeAtTop EXCEPT ![slot[1]] = GONE]
    BY <1>4 DEF Select, Quit, TimeOut, reading, writing, peers
  <2>2. LifeMoves
    BY <2>1, <1>1, <1>3 DEF LifeMoves
  <2> QED
    BY <2>1, <2>2
<1>5. CASE \E c \in Client : Accept(c) \/ Connect(c)
  <2>1. PICK c \in Client : Accept(c) \/ Connect(c)
    BY <1>5
  <2>2. /\ seen' = seen /\ buf' = buf /\ heard' = heard /\ sent' = sent
        /\ queue' = queue /\ refs' = refs /\ wbuf' = wbuf /\ out' = out
    BY <2>1 DEF Accept, Connect, reading, writing, peers
  <2>3. LifeMoves
    BY <2>1, <1>1, <1>2 DEF Accept, Connect, LifeMoves
  <2> QED
    BY <2>2, <2>3
<1>6. CASE \E c \in Client : Send(c)
  <2>1. PICK c \in Client : Send(c)
    BY <1>6
  <2>2. /\ seen' = seen /\ buf' = buf /\ heard' = heard /\ life' = life
        /\ queue' = queue /\ refs' = refs /\ wbuf' = wbuf /\ out' = out
        /\ sent' = [sent EXCEPT ![c] = Len(Cells(c))]
    BY <2>1 DEF Send, reading, writing
  <2> QED
    BY <2>2 DEF LifeMoves
<1>7. CASE \/ NothingToAccept \/ EndOfTurn \/ RequestShutdown \/ Tick \/ UNCHANGED vars
           \/ \E c \in Client : HangUp(c)
  <2>1. /\ seen' = seen /\ buf' = buf /\ heard' = heard /\ life' = life /\ sent' = sent
        /\ queue' = queue /\ refs' = refs /\ wbuf' = wbuf /\ out' = out
    BY <1>7 DEF NothingToAccept, EndOfTurn, RequestShutdown, Tick, HangUp, reading, writing, peers, vars
  <2> QED
    BY <2>1 DEF LifeMoves
<1> QED
  BY <1>4, <1>5, <1>6, <1>7 DEF OtherStep

\* A type byte makes a connection.
LEMMA FrameTypes ==
  ASSUME LifeInv, FrameInv, ReadTypes
  PROVE  FrameInv'
<1> DEFINE done == ready.read \cap InSlot
           born == {c \in done : HasData(c)}
<1>1. /\ life' = [c \in Client |-> IF c \in born THEN OPEN ELSE IF c \in done THEN GONE ELSE life[c]]
      /\ seen' = [c \in Client |-> IF c \in born THEN 1 ELSE seen[c]]
      /\ buf' = [c \in Client |-> IF c \in born THEN <<Cells(c)[1]>> ELSE buf[c]]
      /\ heard' = heard /\ sent' = sent
  BY DEF ReadTypes, peers
<1>2. \A c \in born : life[c] = ACCEPTED /\ HasData(c)
  BY DEF InSlot
<1> HIDE DEF born, done
<1>3. ASSUME NEW c \in Client  PROVE Framed(c)'
  <2>1. Framed(c)
    BY DEF FrameInv
  <2>2. CASE c \in born
    BY <2>1, <2>2, <1>1, <1>2, FrameBorn
  <2>3. CASE c \notin born
    BY <2>1, <2>3, <1>1, FrameUntouched
  <2> QED
    BY <2>2, <2>3
<1> QED
  BY <1>1, <1>3 DEF FrameInv

\* Whoever is read is open.
LEMMA OpenWhenRead ==
  ASSUME LifeInv, NEW c \in Client, todo # <<>>, Head(todo) = <<c, "read">>
  PROVE  life[c] = OPEN
<1> DEFINE w == "read"
<1>1. todo[1] = <<c, w>> /\ 1 \in DOMAIN todo
  BY DEF LifeInv, TodoInv
<1> HIDE DEF w
<1>2. todo[1][1] = c /\ todo[1][2] = w
  BY <1>1
<1>3. \A i \in DOMAIN todo : todo[i][2] = "read" => life[todo[i][1]] = OPEN
  BY DEF LifeInv, TodoInv
<1> QED
  BY <1>1, <1>2, <1>3 DEF w

\* A connection is read, or it is deleted.
LEMMA FrameServe ==
  ASSUME LifeInv, FrameInv, NEW c \in Client,
         \/ ReadEnd(c) \/ WriteFails(c)
         \/ \E n \in Nat, h \in Nat, how \in {"go on", "delete", "drain"} : Read(c, n, h, how)
  PROVE  FrameInv'
<1>1. /\ life \in [Client -> Lives] /\ DOMAIN seen = Client /\ DOMAIN buf = Client
      /\ DOMAIN heard = Client /\ DOMAIN sent = Client /\ Framed(c)
  BY DEF LifeInv, FrameInv
<1>2. ASSUME NEW d \in Client, d # c, life'[d] = life[d], seen'[d] = seen[d], buf'[d] = buf[d],
             heard'[d] = heard[d], sent' = sent
      PROVE  Framed(d)'
  BY <1>2, FrameUntouched DEF FrameInv
<1>3. CASE ReadEnd(c) \/ WriteFails(c)
  <2>1. sent' = sent /\ seen' = seen
    BY <1>3 DEF ReadEnd, WriteFails, peers
  <2>2. \/ life' = life /\ buf' = buf /\ heard' = heard
        \/ /\ life' = [life EXCEPT ![c] = GONE] /\ buf' = [buf EXCEPT ![c] = <<>>]
           /\ heard' = [heard EXCEPT ![c] = <<>>]
    BY <1>3 DEF ReadEnd, WriteFails, Delete
  <2>3. CASE life' = life /\ buf' = buf /\ heard' = heard
    BY <2>1, <2>3, FrameElsewhere DEF LifeMoves
  <2>4. CASE /\ life' = [life EXCEPT ![c] = GONE] /\ buf' = [buf EXCEPT ![c] = <<>>]
             /\ heard' = [heard EXCEPT ![c] = <<>>]
    <3>1. Framed(c)'
      <4>1. seen[c] \in Nat /\ seen[c] <= sent[c]
        BY <1>1 DEF Framed
      <4>2. heard'[c] = <<>> /\ life'[c] = GONE /\ sent'[c] = sent[c] /\ seen'[c] = seen[c]
        BY <2>1, <2>4, <1>1
      <4> QED
        BY <4>1, <4>2, <1>1, FrameDeleted
    <3>2. ASSUME NEW d \in Client, d # c  PROVE Framed(d)'
      <4>1. life'[d] = life[d] /\ seen'[d] = seen[d] /\ buf'[d] = buf[d] /\ heard'[d] = heard[d]
        BY <2>1, <2>4, <1>1, <3>2
      <4> QED
        BY <4>1, <2>1, <3>2, <1>2
    <3> QED
      BY <3>1, <3>2, <2>1, <2>4 DEF FrameInv
  <2> QED
    BY <2>2, <2>3, <2>4
<1>4. ASSUME NEW n \in Nat, NEW h \in Nat, NEW how \in {"go on", "delete", "drain"}, Read(c, n, h, how)
      PROVE  FrameInv'
  <2>1. life[c] = OPEN
    <3>1. todo # <<>> /\ Head(todo) = <<c, "read">>
      BY <1>4 DEF Read
    <3> QED
      BY <3>1, OpenWhenRead
  <2>2. Framed(c)'
    BY <2>1, <1>1, <1>4, FrameRead
  <2>3. /\ DOMAIN seen' = Client /\ DOMAIN buf' = Client /\ DOMAIN heard' = Client /\ sent' = sent
        /\ \A d \in Client : d # c => /\ life'[d] = life[d] /\ seen'[d] = seen[d] /\ buf'[d] = buf[d]
                                      /\ heard'[d] = heard[d]
    BY <1>1, <1>4, ZenonT(30) DEF Read, peers
  <2> QED
    BY <1>1, <1>2, <2>2, <2>3 DEF FrameInv
<1> QED
  BY <1>3, <1>4

\* What is read at a time and how many messages it holds are numbers.
LEMMA ReadSizes ==
  ASSUME NEW n \in 1..BUFSIZE + 1, NEW h \in 0..BUFSIZE
  PROVE  n \in Nat /\ h \in Nat
<1>1. BUFSIZE \in Nat
  BY ServingAssumption
<1> QED
  BY <1>1

\* The invariant holds in every step of the loop and of the clients.
LEMMA FrameStep ==
  ASSUME LifeInv, FrameInv, [Next]_vars
  PROVE  FrameInv'
<1>1. CASE OtherStep
  BY <1>1, OtherMoves, FrameElsewhere
<1>2. CASE ReadTypes
  BY <1>2, FrameTypes
<1>3. ASSUME NEW c \in Client, ServeStep(c)  PROVE FrameInv'
  <2>1. BUFSIZE \in Nat /\ WBUFSIZE \in Nat
    BY ServingAssumption
  <2>2. CASE ReadEnd(c) \/ WriteFails(c)
    BY <2>2, FrameServe
  <2>3. ASSUME NEW n \in 1..BUFSIZE + 1, NEW h \in 0..BUFSIZE,
               NEW how \in {"go on", "delete", "drain"}, Read(c, n, h, how)
        PROVE  FrameInv'
    <3>1. n \in Nat /\ h \in Nat
      BY ReadSizes
    <3> QED
      BY <3>1, <2>3, FrameServe
  <2>4. ASSUME NEW n, WritePlain(c, n) \/ WriteEncrypted(c, n)  PROVE FrameInv'
    <3>1. seen' = seen /\ buf' = buf /\ heard' = heard /\ life' = life /\ sent' = sent
      BY <2>4 DEF WritePlain, WriteEncrypted, reading, peers
    <3> QED
      BY <3>1, FrameElsewhere DEF LifeMoves
  <2> QED
    BY <1>3, <2>2, <2>3, <2>4 DEF ServeStep
<1> QED
  BY <1>1, <1>2, <1>3 DEF Next, Loop, Serve, ServeStep, OtherStep

\* What was handed on and what waits in the buffer make what was read.
LEMMA FramedIsWhole ==
  ASSUME FrameInv
  PROVE  MessagesAreFramed
<1> SUFFICES ASSUME NEW c \in Client
             PROVE  /\ \A i \in DOMAIN heard[c] : heard[c][i] = [j \in 1..Stream[c][i] |-> <<i, j>>]
                    /\ life[c] \in {OPEN, DRAINING} =>
                         FlattenSeq(heard[c]) \o buf[c] = SubSeq(Cells(c), 1, seen[c])
  BY DEF MessagesAreFramed
<1> DEFINE H == Len(heard[c])
           B == Blocks(c)
           s == Cells(c)
           z == seen[c]
           e == EndOf(c, H)
<1>1. /\ z \in Nat /\ sent[c] \in Nat /\ z <= sent[c] /\ sent[c] <= Len(s)
      /\ H \in 0..Len(Stream[c]) /\ heard[c] = SubSeq(B, 1, H)
      /\ life[c] \in {OPEN, DRAINING} => e <= z /\ buf[c] = SubSeq(s, e + 1, z)
  BY DEF FrameInv, Framed
<1>2. /\ B \in Seq(Seq(Pairs)) /\ Len(B) = Len(Stream[c]) /\ Len(B) \in Nat
      /\ \A k \in 1..Len(B) : B[k] = Message(c, k)
  BY BlocksTyped
<1>3. s \in Seq(Pairs) /\ Len(s) \in Nat
  BY BlocksTyped, UptoGrows
<1>4. e \in Nat /\ e <= Len(s) /\ Upto(c, H) = SubSeq(s, 1, e)
  BY <1>1, EndsGrow, UptoIsPrefix
<1>5. FlattenSeq(heard[c]) = SubSeq(s, 1, e)
  BY <1>1, <1>4 DEF Upto
<1> HIDE DEF H, B, s, z, e
<1>6. heard[c] \in Seq(Seq(Pairs)) /\ Len(heard[c]) = H /\ \A i \in 1..H : heard[c][i] = B[i]
  BY <1>1, <1>2, FirstPlaces
<1>7. ASSUME NEW i \in DOMAIN heard[c]  PROVE heard[c][i] = [j \in 1..Stream[c][i] |-> <<i, j>>]
  <2>1. i \in 1..H /\ i \in 1..Len(B)
    BY <1>1, <1>2, <1>6
  <2> QED
    BY <2>1, <1>2, <1>6 DEF Message
<1>8. ASSUME life[c] \in {OPEN, DRAINING}
      PROVE  FlattenSeq(heard[c]) \o buf[c] = SubSeq(s, 1, z)
  <2>1. 1 \in 1..(Len(s) + 1) /\ e \in (1 - 1)..Len(s) /\ z \in e..Len(s)
    BY ONLY <1>1, <1>3, <1>4, <1>8
  <2>2. SubSeq(s, 1, e) \o SubSeq(s, e + 1, z) = SubSeq(s, 1, z)
    BY <2>1, <1>3, ConcatAdjacentSubSeq
  <2> QED
    BY <2>2, <1>1, <1>5, <1>8
<1> QED
  BY <1>7, <1>8 DEF s, z

\* message_read is given each message a client sent, whole, once and in order,
\* however the reads cut the stream (serv_main), and across the change to a
\* buffer of the message's own length.
THEOREM StreamsAreFramed == Spec => []MessagesAreFramed
<1>1. Init => LifeInv /\ FrameInv
  BY LifeInit, FrameInit
<1>2. LifeInv /\ FrameInv /\ [Next]_vars => LifeInv' /\ FrameInv'
  BY LifeStep, FrameStep
<1>3. LifeInv /\ FrameInv => MessagesAreFramed
  BY FramedIsWhole
<1> QED
  BY <1>1, <1>2, <1>3, PTL DEF Spec

-----------------------------------------------------------------------------
(* What is on its way to a connection.                                     *)

AllMessages == UNION {{c} \X DOMAIN Stream[c] : c \in Client}
Cell == AllMessages \X (1..ReplyLen)

\* a message is queued with all of it that is still to be written
Forward(q) ==
  \A i \in DOMAIN q : \A t \in 0..(ReplyLen - q[i][2]) :
    i + t \in DOMAIN q /\ q[i + t] = <<q[i][1], q[i][2] + t>>
NoTwice(q) == \A i, j \in DOMAIN q : q[i] = q[j] => i = j

\* a stream of whole messages, the last included
WholeLine(s) == InWhole(s) /\ (s # <<>> => s[Len(s)][2] = ReplyLen)

\* A message joins the back of a queue (MessageQueue::enqueue).
LEMMA Enqueued ==
  ASSUME NEW q \in Seq(Cell), NEW m \in AllMessages
  PROVE  /\ EnqueueBack(q, m) \in Seq(Cell) /\ Len(EnqueueBack(q, m)) = Len(q) + ReplyLen
         /\ \A i \in 1..(Len(q) + ReplyLen) :
              EnqueueBack(q, m)[i] = IF i <= Len(q) THEN q[i] ELSE <<m, i - Len(q)>>
<1> DEFINE w == Whole(m)
<1>1. ReplyLen \in Nat
  BY ServingAssumption
<1>2. w = [j \in 1..ReplyLen |-> <<m, j>>]
  BY DEF Whole, MsgLen
<1> HIDE DEF w
<1>3. w \in Seq(Cell) /\ Len(w) = ReplyLen
  <2>1. \A j \in 1..ReplyLen : <<m, j>> \in Cell
    BY DEF Cell
  <2>2. w \in [1..ReplyLen -> Cell]
    BY <1>2, <2>1
  <2> QED
    BY <1>1, <2>2
<1>4. /\ q \o w \in Seq(Cell) /\ Len(q \o w) = Len(q) + Len(w)
      /\ \A i \in 1..(Len(q) + Len(w)) : (q \o w)[i] = IF i <= Len(q) THEN q[i] ELSE w[i - Len(q)]
  BY <1>3, ConcatProperties
<1>5. EnqueueBack(q, m) = q \o w
  BY DEF EnqueueBack, w
<1>6. ASSUME NEW i \in 1..(Len(q) + ReplyLen), ~(i <= Len(q))  PROVE w[i - Len(q)] = <<m, i - Len(q)>>
  <2>1. i - Len(q) \in 1..ReplyLen
    BY <1>1, <1>6
  <2> QED
    BY <2>1, <1>2
<1> QED
  BY <1>3, <1>4, <1>5, <1>6

\* What holds of a queue holds with the message behind it.
LEMMA EnqueuedKeeps ==
  ASSUME NEW q \in Seq(Cell), NEW m \in AllMessages
  PROVE  /\ Messages(EnqueueBack(q, m)) = Messages(q) \cup {m}
         /\ Forward(q) => Forward(EnqueueBack(q, m))
         /\ NoTwice(q) /\ m \notin Messages(q) => NoTwice(EnqueueBack(q, m))
         /\ WholeLine(q) => WholeLine(EnqueueBack(q, m))
<1> DEFINE e == EnqueueBack(q, m)
           R == ReplyLen
           n == Len(q)
<1>1. R \in Nat /\ R >= 1
  BY ServingAssumption
<1>2. /\ e \in Seq(Cell) /\ Len(e) = n + R /\ n \in Nat
      /\ \A i \in 1..(n + R) : e[i] = IF i <= n THEN q[i] ELSE <<m, i - n>>
  BY Enqueued
<1>3. \A i \in 1..n : q[i] \in Cell /\ q[i][2] \in 1..R
  BY DEF Cell
<1> HIDE DEF e, R, n
<1>4. DOMAIN e = 1..(n + R) /\ DOMAIN q = 1..n
  BY <1>1, <1>2 DEF n
<1>5. \A i \in 1..n : i \in 1..(n + R) /\ e[i] = q[i]
  BY <1>1, <1>2
<1>6. \A i \in 1..(n + R) : ~(i <= n) => e[i] = <<m, i - n>> /\ e[i][1] = m /\ e[i][2] = i - n
  BY <1>2
<1>7. Messages(e) = Messages(q) \cup {m}
  <2>1. ASSUME NEW i \in DOMAIN e  PROVE e[i][1] \in Messages(q) \cup {m}
    <3>1. CASE i <= n
      <4>1. i \in 1..n
        BY <3>1, <1>2, <1>4
      <4> QED
        BY <4>1, <1>4, <1>5 DEF Messages
    <3>2. CASE ~(i <= n)
      BY <3>2, <1>4, <1>6
    <3> QED
      BY <3>1, <3>2
  <2>2. ASSUME NEW i \in DOMAIN q  PROVE q[i][1] \in Messages(e)
    BY <1>4, <1>5 DEF Messages
  <2>3. m \in Messages(e)
    <3>1. n + 1 \in 1..(n + R) /\ ~(n + 1 <= n)
      BY <1>1, <1>2
    <3> QED
      BY <3>1, <1>4, <1>6 DEF Messages
  <2> QED
    BY <2>1, <2>2, <2>3 DEF Messages
<1>8. ASSUME Forward(q)  PROVE Forward(e)
  <2> SUFFICES ASSUME NEW i \in DOMAIN e, NEW t \in 0..(R - e[i][2])
               PROVE  i + t \in DOMAIN e /\ e[i + t] = <<e[i][1], e[i][2] + t>>
    BY DEF Forward, R
  <2>1. CASE i <= n
    <3>1. i \in 1..n /\ e[i] = q[i] /\ t \in 0..(R - q[i][2])
      BY <2>1, <1>2, <1>4, <1>5
    <3>2. i + t \in DOMAIN q /\ q[i + t] = <<q[i][1], q[i][2] + t>>
      BY <3>1, <1>4, <1>8 DEF Forward, R
    <3>3. i + t \in DOMAIN e /\ e[i + t] = q[i + t]
      BY <3>2, <1>4, <1>5
    <3> QED
      BY ONLY <3>1, <3>2, <3>3
  <2>2. CASE ~(i <= n)
    <3>1. i \in 1..(n + R) /\ e[i][1] = m /\ e[i][2] = i - n
      BY <2>2, <1>4, <1>6
    <3>2. t \in 0..(R - (i - n))
      BY <3>1
    <3> DEFINE x == i + t
               y == (i - n) + t
    <3>3. x \in 1..(n + R) /\ ~(x <= n) /\ x - n = y
      BY ONLY <3>1, <3>2, <2>2, <1>1, <1>2
    <3> HIDE DEF x, y
    <3>4. x \in DOMAIN e /\ e[x] = <<m, y>>
      BY <3>3, <1>4, <1>6
    <3> QED
      BY <3>1, <3>4 DEF x, y
  <2> QED
    BY <2>1, <2>2
<1>9. ASSUME NoTwice(q), m \notin Messages(q)  PROVE NoTwice(e)
  <2>1. ASSUME NEW i \in 1..n  PROVE e[i][1] # m
    BY <1>4, <1>5, <1>9 DEF Messages
  <2> SUFFICES ASSUME NEW i \in DOMAIN e, NEW j \in DOMAIN e, e[i] = e[j]
               PROVE  i = j
    BY DEF NoTwice
  <2>2. i \in 1..(n + R) /\ j \in 1..(n + R)
    BY <1>4
  <2>3. CASE i <= n /\ j <= n
    <3>1. i \in 1..n /\ j \in 1..n
      BY <2>2, <2>3, <1>2
    <3> QED
      BY <3>1, <1>4, <1>5, <1>9 DEF NoTwice
  <2>4. CASE ~(i <= n) /\ ~(j <= n)
    <3>1. i - n = j - n
      BY <2>2, <2>4, <1>6
    <3> QED
      BY <3>1, <2>2, <1>2
  <2>5. CASE i <= n /\ ~(j <= n)
    <3>1. i \in 1..n
      BY <2>2, <2>5, <1>2
    <3> QED
      BY <3>1, <2>1, <2>2, <2>5, <1>6
  <2>6. CASE ~(i <= n) /\ j <= n
    <3>1. j \in 1..n
      BY <2>2, <2>6, <1>2
    <3> QED
      BY <3>1, <2>1, <2>2, <2>6, <1>6
  <2> QED
    BY <2>3, <2>4, <2>5, <2>6
<1>10. ASSUME WholeLine(q)  PROVE WholeLine(e)
  <2>1. e[Len(e)][2] = R
    <3>1. n + R \in 1..(n + R) /\ ~(n + R <= n) /\ (n + R) - n = R
      BY <1>1, <1>2
    <3> QED
      BY <3>1, <1>2, <1>6
  <2>2. ASSUME NEW i \in DOMAIN e
        PROVE  IF e[i][2] > 1 THEN i > 1 /\ e[i - 1] = <<e[i][1], e[i][2] - 1>>
               ELSE i > 1 => e[i - 1][2] = R
    <3>1. CASE i <= n
      <4>1. i \in 1..n /\ e[i] = q[i]
        BY <3>1, <1>2, <1>4, <1>5
      <4>2. i > 1 => i - 1 \in 1..n /\ e[i - 1] = q[i - 1]
        BY <4>1, <1>2, <1>5
      <4>3. IF q[i][2] > 1 THEN i > 1 /\ q[i - 1] = <<q[i][1], q[i][2] - 1>>
            ELSE i > 1 => q[i - 1][2] = R
        BY <4>1, <1>4, <1>10 DEF WholeLine, InWhole, MsgLen, R
      <4> QED
        BY <4>1, <4>2, <4>3
    <3>2. CASE ~(i <= n) /\ i - n > 1
      <4>1. i \in 1..(n + R) /\ e[i][1] = m /\ e[i][2] = i - n
        BY <3>2, <1>4, <1>6
      <4>2. i - 1 \in 1..(n + R) /\ ~(i - 1 <= n) /\ (i - 1) - n = (i - n) - 1 /\ i > 1
        BY <4>1, <3>2, <1>1, <1>2
      <4>3. e[i - 1] = <<m, (i - n) - 1>>
        BY <4>2, <1>6
      <4> QED
        BY <4>1, <4>2, <4>3, <3>2
    <3>3. CASE ~(i <= n) /\ ~(i - n > 1)
      <4>1. i \in 1..(n + R) /\ e[i][2] = i - n
        BY <3>3, <1>4, <1>6
      <4>2. i = n + 1
        BY <4>1, <3>3, <1>1, <1>2
      <4>3. ASSUME i > 1  PROVE e[i - 1][2] = R
        <5>1. n \in 1..n /\ i - 1 = n
          BY <4>2, <4>3, <1>2
        <5>2. q # <<>> /\ q[n][2] = R
          BY <5>1, <1>4, <1>10 DEF WholeLine, n, R
        <5> QED
          BY <5>1, <5>2, <1>5
      <4> QED
        BY <4>1, <4>3, <3>3
    <3> QED
      BY <3>1, <3>2, <3>3
  <2>3. InWhole(e)
    BY <2>2 DEF InWhole, MsgLen, R
  <2> QED
    BY <2>1, <2>3 DEF WholeLine, R
<1> QED
  BY <1>7, <1>8, <1>9, <1>10 DEF e

\* The front of a queue leaves (fill_buffer, iovecs_written_bytes).
LEMMA LeftIs ==
  ASSUME NEW q \in Seq(Cell), NEW n \in 0..Len(q)
  PROVE  /\ Left(q, n) \in Seq(Cell) /\ Len(Left(q, n)) = Len(q) - n
         /\ \A i \in 1..(Len(q) - n) : Left(q, n)[i] = q[n + i] /\ n + i \in 1..Len(q)
<1> DEFINE a == n + 1
           z == Len(q)
<1>1. a \in Int /\ z \in Nat /\ z - a + 1 = z - n /\ (a <= z \/ z - n = 0) /\ (a <= z => z - n > 0)
  OBVIOUS
<1>2. \A i \in a..z : q[i] \in Cell
  OBVIOUS
<1>3. \A i \in 1..(z - n) : a + i - 1 = n + i /\ n + i \in 1..z
  OBVIOUS
<1>4. Left(q, n) = SubSeq(q, a, z)
  BY DEF Left
<1> HIDE DEF a, z
<1>5. /\ SubSeq(q, a, z) \in Seq(Cell)
      /\ Len(SubSeq(q, a, z)) = IF a <= z THEN z - a + 1 ELSE 0
      /\ \A i \in 1..(z - a + 1) : SubSeq(q, a, z)[i] = q[a + i - 1]
  BY <1>1, <1>2, SubSeqProperties
<1>6. Len(SubSeq(q, a, z)) = z - n
  BY <1>1, <1>5
<1> QED
  BY <1>1, <1>3, <1>4, <1>5, <1>6 DEF z

\* What is left is as good a queue, and the messages that are not in it any more
\* are those whose last cell left.
LEMMA LeftKeeps ==
  ASSUME NEW q \in Seq(Cell), NEW n \in 0..Len(q), Forward(q), NoTwice(q)
  PROVE  /\ Forward(Left(q, n)) /\ NoTwice(Left(q, n)) /\ Messages(Left(q, n)) \subseteq Messages(q)
         /\ DoneWith(q, n) = Messages(q) \ Messages(Left(q, n))
<1> DEFINE l == Left(q, n)
           z == Len(q)
           R == ReplyLen
<1>1. /\ l \in Seq(Cell) /\ Len(l) = z - n /\ z \in Nat /\ n \in 0..z
      /\ \A i \in 1..(z - n) : l[i] = q[n + i] /\ n + i \in 1..z
  <2>1. Len(q) \in Nat
    OBVIOUS
  <2>2. /\ Left(q, n) \in Seq(Cell) /\ Len(Left(q, n)) = Len(q) - n
        /\ \A i \in 1..(Len(q) - n) : Left(q, n)[i] = q[n + i] /\ n + i \in 1..Len(q)
    BY ONLY q \in Seq(Cell), n \in 0..Len(q), LeftIs
  <2> QED
    BY <2>1, <2>2
<1>2. R \in Nat /\ \A i \in 1..z : q[i][2] \in 1..R
  BY ServingAssumption DEF Cell
<1> HIDE DEF l, z, R
<1>3. DOMAIN l = 1..(z - n) /\ DOMAIN q = 1..z
  BY <1>1 DEF z
<1>4. \A k \in 1..z : k > n => k - n \in 1..(z - n) /\ n + (k - n) = k /\ l[k - n] = q[k]
  BY <1>1
<1>5. Messages(l) = {q[k][1] : k \in {j \in 1..z : j > n}}
  <2>1. ASSUME NEW i \in DOMAIN l  PROVE \E k \in {j \in 1..z : j > n} : l[i][1] = q[k][1]
    <3>1. n + i \in 1..z /\ n + i > n /\ l[i] = q[n + i]
      BY <1>1, <1>3
    <3> QED
      BY <3>1
  <2>2. ASSUME NEW k \in 1..z, k > n  PROVE \E i \in DOMAIN l : l[i][1] = q[k][1]
    BY <2>2, <1>3, <1>4
  <2> QED
    BY <2>1, <2>2 DEF Messages
<1>6. Messages(l) \subseteq Messages(q)
  BY <1>3, <1>5 DEF Messages
<1>7. NoTwice(l)
  <2> SUFFICES ASSUME NEW i \in DOMAIN l, NEW j \in DOMAIN l, l[i] = l[j]
               PROVE  i = j
    BY DEF NoTwice
  <2>1. n + i \in DOMAIN q /\ n + j \in DOMAIN q /\ q[n + i] = q[n + j]
    BY <1>1, <1>3
  <2>2. n + i = n + j
    BY <2>1 DEF NoTwice
  <2> QED
    BY <2>2, <1>1, <1>3
<1>8. Forward(l)
  <2> SUFFICES ASSUME NEW i \in DOMAIN l, NEW t \in 0..(R - l[i][2])
               PROVE  i + t \in DOMAIN l /\ l[i + t] = <<l[i][1], l[i][2] + t>>
    BY DEF Forward, R
  <2> DEFINE k == n + i
             x == k + t
  <2>1. k \in DOMAIN q /\ l[i] = q[k] /\ k > n /\ k \in Nat /\ i \in Nat
    BY <1>1, <1>3
  <2>2. t \in 0..(R - q[k][2])
    BY <2>1
  <2>3. x \in DOMAIN q /\ q[x] = <<q[k][1], q[k][2] + t>>
    BY <2>1, <2>2 DEF Forward, R
  <2>4. q[k][2] \in Nat
    BY <2>1, <1>2, <1>3
  <2> HIDE DEF x
  <2>5. t \in Nat
    BY ONLY <2>2, <2>4, <1>2
  <2>6. x - n = i + t /\ x > n
    BY ONLY <2>1, <2>5, <1>1 DEF x, k
  <2>7. x - n \in DOMAIN l /\ l[x - n] = q[x]
    BY <2>3, <2>6, <1>3, <1>4
  <2> QED
    BY <2>1, <2>3, <2>6, <2>7
<1>9. ASSUME NEW k \in 1..z
      PROVE  \E x \in 1..z : x >= k /\ q[x] = <<q[k][1], R>>
  <2> DEFINE t == R - q[k][2]
             x == k + t
  <2>1. q[k][2] \in 1..R
    BY <1>2
  <2>2. t \in Nat /\ t \in 0..(R - q[k][2]) /\ q[k][2] + t = R
    BY ONLY <2>1, <1>2
  <2> HIDE DEF t
  <2>3. x \in 1..z /\ q[x] = <<q[k][1], q[k][2] + t>>
    BY <2>2, <1>3 DEF Forward, R
  <2>4. x >= k
    BY <2>2, <1>1
  <2> HIDE DEF x
  <2> QED
    BY <2>2, <2>3, <2>4
<1>10. DoneWith(q, n) = {q[i][1] : i \in {j \in 1..n : q[j][2] = R}}
  BY DEF DoneWith, MsgLen, R
<1>11. ASSUME NEW i \in 1..n, q[i][2] = R  PROVE q[i][1] \in Messages(q) /\ q[i][1] \notin Messages(l)
  <2>1. i \in 1..z
    BY <1>1
  <2>2. ASSUME NEW k \in 1..z, k > n, q[k][1] = q[i][1]  PROVE FALSE
    <3>1. PICK x \in 1..z : x >= k /\ q[x] = <<q[k][1], R>>
      BY <1>9
    <3>2. q[i] \in Cell
      BY <2>1 DEF z
    <3>3. q[i] = <<q[i][1], R>>
      BY <3>2, <1>11 DEF Cell
    <3>4. x = i
      BY <3>1, <3>3, <2>1, <2>2, <1>3 DEF NoTwice
    <3> QED
      BY <3>1, <3>4, <2>2, <1>1
  <2> QED
    BY <2>1, <2>2, <1>3, <1>5 DEF Messages
<1>12. ASSUME NEW k \in 1..z, q[k][1] \notin Messages(l)
       PROVE  \E i \in 1..n : q[i][2] = R /\ q[i][1] = q[k][1]
  <2>1. PICK x \in 1..z : x >= k /\ q[x] = <<q[k][1], R>>
    BY <1>9
  <2>2. q[x][1] = q[k][1] /\ q[x][2] = R
    BY <2>1
  <2>3. ~(x > n)
    BY <2>1, <2>2, <1>5, <1>12
  <2>4. x \in 1..n
    BY <2>1, <2>3, <1>1
  <2> QED
    BY <2>2, <2>4
<1>13. DoneWith(q, n) = Messages(q) \ Messages(l)
  BY <1>3, <1>10, <1>11, <1>12 DEF Messages
<1> QED
  BY <1>6, <1>7, <1>8, <1>13 DEF l

\* Of the queues q, c's loses the messages ms, and they are p.
Loses(q, p, c, x, ms) ==
  /\ DOMAIN q = Client /\ p = [q EXCEPT ![c] = x]
  /\ Messages(x) \subseteq Messages(q[c]) /\ ms = Messages(q[c]) \ Messages(x)
CountsDown(r, ms) == [m \in DOMAIN r |-> r[m] - IF m \in ms THEN 1 ELSE 0]

\* A connection loses messages of its queue: one holder less for each.
LEMMA OneHolderLess ==
  ASSUME NEW q, NEW p, NEW c \in Client, NEW x, NEW ms, Loses(q, p, c, x, ms), NEW m
  PROVE  Holders(q, m) \in Nat /\ Holders(p, m) = Holders(q, m) - IF m \in ms THEN 1 ELSE 0
<1> DEFINE A == {d \in Client : m \in Messages(q[d])}
           B == {d \in Client : m \in Messages(p[d])}
<1>1. p[c] = x /\ \A d \in Client : d # c => p[d] = q[d]
  BY DEF Loses
<1>2. B = IF m \in ms THEN A \ {c} ELSE A
  BY <1>1 DEF Loses
<1>3. IsFiniteSet(A) /\ (m \in ms => c \in A)
  <2>1. A \subseteq Client /\ IsFiniteSet(Client)
    BY ServingAssumption
  <2>2. m \in ms => c \in A
    BY DEF Loses
  <2> QED
    BY <2>1, <2>2, FS_Subset
<1>4. Holders(q, m) = Cardinality(A) /\ Holders(p, m) = Cardinality(B)
  BY DEF Holders
<1> HIDE DEF A, B
<1>5. Cardinality(A) \in Nat /\ (m \in ms => Cardinality(A \ {c}) = Cardinality(A) - 1)
  BY <1>3, FS_CardinalityType, FS_RemoveElement
<1>6. Cardinality(B) = Cardinality(A) - IF m \in ms THEN 1 ELSE 0
  BY <1>2, <1>5
<1> QED
  BY <1>4, <1>5, <1>6

\* f[i] is the queue when i of the replies are in it
RunsOn(f, q, rs, n) ==
  /\ f \in [0..n -> Seq(Cell)] /\ f[0] = q
  /\ \A i \in 1..n : f[i] = EnqueueBack(f[i - 1], rs[i])

\* The replies join the queue one by one.
LEMMA RepliesInOrder ==
  ASSUME NEW n \in Nat, NEW rs, DOMAIN rs = 1..n, \A i \in 1..n : rs[i] \in AllMessages,
         NEW q \in Seq(Cell)
  PROVE  \E f : FoldLeft(EnqueueBack, q, rs) = f[n] /\ RunsOn(f, q, rs, n)
<1> DEFINE Y == Seq(Cell)
           Step(f) == [s \in SUBSET (1..n) |->
                         IF s = {} THEN q ELSE EnqueueBack(f[s \ {Max(s)}], rs[Max(s)])]
           it == CHOOSE f : f = Step(f)
           F == [p \in Y \X (1..n) |-> EnqueueBack(p[1], rs[p[2]])]
           r == [k \in 0..n |-> it[1..k]]
<1>1. FoldLeft(EnqueueBack, q, rs) = it[1..n]
  BY DEF FoldLeft, MapThenFoldSet, EnqueueBack
<1>2. PICK f : IsFold(n, Y, q, F, f)
  <2>1. \A k \in 1..n : \A x \in Y : F[<<x, k>>] \in Y
    BY Enqueued
  <2>2. q \in Y
    OBVIOUS
  <2> HIDE DEF F, Y
  <2> QED
    BY <2>1, <2>2, FoldExists
<1>3. f = Step(f)
  <2>1. ASSUME NEW s \in SUBSET (1..n), s # {}
        PROVE  f[s] = EnqueueBack(f[s \ {Max(s)}], rs[Max(s)])
    <3>1. Max(s) \in 1..n /\ f[s \ {Max(s)}] \in Y
      BY <2>1, <1>2, MaxIsPlace DEF IsFold
    <3> QED
      BY <1>2, <2>1, <3>1 DEF IsFold
  <2> QED
    BY <2>1, <1>2 DEF IsFold
<1>4. it = Step(it)
  <2> HIDE DEF Step
  <2> QED
    BY <1>3
<1>5. r[n] = it[1..n]
  OBVIOUS
<1>6. r[0] = q
  <2>1. it[{}] = q
    <3> HIDE DEF it
    <3> QED
      BY <1>4
  <2> HIDE DEF it
  <2> QED
    BY <2>1, 1..0 = {}
<1>7. ASSUME NEW i \in 1..n  PROVE r[i] = EnqueueBack(r[i - 1], rs[i])
  <2>1. it[1..i] = EnqueueBack(it[1..(i - 1)], rs[i])
    <3> HIDE DEF it
    <3>1. Max(1..i) = i /\ (1..i) \ {i} = 1..(i - 1) /\ 1..i # {} /\ 1..i \in SUBSET (1..n)
      BY PlacesUpTo
    <3> QED
      BY <1>4, <3>1
  <2> HIDE DEF it
  <2> QED
    BY <2>1
<1>8. \A i \in 0..n : r[i] \in Y
  <2> DEFINE T == {i \in 0..n : r[i] \in Y}
  <2> HIDE DEF r
  <2>1. 0 \in T
    BY <1>6
  <2>2. ASSUME NEW i \in Nat, i < n, i \in T  PROVE i + 1 \in T
    <3>1. i + 1 \in 1..n /\ (i + 1) - 1 = i /\ r[i] \in Y
      BY <2>2
    <3>2. r[i + 1] = EnqueueBack(r[i], rs[i + 1]) /\ rs[i + 1] \in AllMessages
      BY <3>1, <1>7
    <3>3. r[i + 1] \in Y
      <4> DEFINE g == r[i]
                 m == rs[i + 1]
      <4>1. g \in Seq(Cell) /\ m \in AllMessages
        BY <3>1, <3>2
      <4> HIDE DEF g, m
      <4>2. EnqueueBack(g, m) \in Seq(Cell)
        BY <4>1, Enqueued
      <4> QED
        BY <4>2, <3>2 DEF g, m
    <3>4. i + 1 \in 0..n
      BY <2>2
    <3> HIDE DEF Y
    <3> QED
      BY <3>3, <3>4
  <2> HIDE DEF T
  <2>3. n \in Nat /\ 0 \in T /\ \A i \in Nat : i < n /\ i \in T => i + 1 \in T
    BY <2>1, <2>2
  <2>4. \A i \in 0..n : i \in T
    BY ONLY <2>3, UpTo
  <2> QED
    BY <2>4 DEF T
<1>9. r \in [0..n -> Y]
  BY <1>8
<1> HIDE DEF r, it
<1> QED
  BY <1>1, <1>5, <1>6, <1>7, <1>9 DEF RunsOn

\* replies that are not in the queue q, and what it is with all of them
NewReplies(rs, n, q) ==
  /\ DOMAIN rs = 1..n /\ \A i \in 1..n : rs[i] \in AllMessages /\ rs[i] \notin Messages(q)
  /\ \A i, j \in 1..n : rs[i] = rs[j] => i = j
WithReplies(x, o, q, rs, n) ==
  /\ x \in Seq(Cell) /\ Forward(x) /\ NoTwice(x) /\ WholeLine(o \o x)
  /\ Messages(x) = Messages(q) \cup {rs[i] : i \in 1..n}

\* What the queue is when they are all in it: m_msg_queue of a connection after
\* the messages that were read together have been answered.
LEMMA AllEnqueued ==
  ASSUME NEW n \in Nat, NEW rs, NEW q \in Seq(Cell), NewReplies(rs, n, q), Forward(q), NoTwice(q),
         NEW o \in Seq(Cell), WholeLine(o \o q), NEW x, x = FoldLeft(EnqueueBack, q, rs)
  PROVE  WithReplies(x, o, q, rs, n)
<1> SUFFICES ASSUME DOMAIN rs = 1..n, \A i \in 1..n : rs[i] \in AllMessages,
                    \A i \in 1..n : rs[i] \notin Messages(q),
                    \A i, j \in 1..n : rs[i] = rs[j] => i = j
             PROVE  /\ x \in Seq(Cell) /\ Forward(x) /\ NoTwice(x) /\ WholeLine(o \o x)
                    /\ Messages(x) = Messages(q) \cup {rs[i] : i \in 1..n}
  BY DEF NewReplies, WithReplies
<1>1. PICK f : x = f[n] /\ RunsOn(f, q, rs, n)
  BY RepliesInOrder
<1>2. /\ f \in [0..n -> Seq(Cell)] /\ f[0] = q
      /\ \A i \in 1..n : f[i] = EnqueueBack(f[i - 1], rs[i])
  BY <1>1 DEF RunsOn
<1> DEFINE T == {k \in 0..n : /\ Forward(f[k]) /\ NoTwice(f[k]) /\ WholeLine(o \o f[k])
                              /\ Messages(f[k]) = Messages(q) \cup {rs[i] : i \in 1..k}}
<1>3. 0 \in T
  <2>1. {rs[i] : i \in 1..0} = {}
    OBVIOUS
  <2> QED
    BY <1>2, <2>1
<1>4. ASSUME NEW k \in Nat, k < n, k \in T  PROVE k + 1 \in T
  <2> DEFINE g == f[k]
             m == rs[k + 1]
             e == EnqueueBack(g, m)
  <2>1. k + 1 \in 1..n /\ (k + 1) - 1 = k /\ k \in 0..n /\ k + 1 \in 0..n
    BY <1>4
  <2>2. g \in Seq(Cell) /\ m \in AllMessages /\ f[k + 1] = e
    BY <2>1, <1>2
  <2>3. /\ Forward(g) /\ NoTwice(g) /\ WholeLine(o \o g)
        /\ Messages(g) = Messages(q) \cup {rs[i] : i \in 1..k}
    BY <1>4
  <2>4. m \notin Messages(g)
    <3>1. \A i \in 1..k : i \in 1..n /\ i # k + 1
      BY <2>1
    <3>2. \A i \in 1..k : rs[i] # m
      BY <3>1, <2>1
    <3> QED
      BY <3>2, <2>1, <2>3
  <2>5. {rs[i] : i \in 1..(k + 1)} = {rs[i] : i \in 1..k} \cup {m}
    <3>1. \A i \in 1..(k + 1) : i \in 1..k \/ i = k + 1
      OBVIOUS
    <3>2. k + 1 \in 1..(k + 1) /\ \A i \in 1..k : i \in 1..(k + 1)
      OBVIOUS
    <3> QED
      BY <3>1, <3>2
  <2> HIDE DEF g, m, T
  <2>6. /\ Messages(e) = Messages(g) \cup {m} /\ Forward(e) /\ NoTwice(e)
    BY <2>2, <2>3, <2>4, EnqueuedKeeps
  <2>7. WholeLine(o \o e)
    <3> DEFINE og == o \o g
    <3>1. og \in Seq(Cell)
      BY <2>2
    <3>2. EnqueueBack(og, m) = o \o e
      <4>1. Whole(m) \in Seq(Cell)
        <5>1. ReplyLen \in Nat /\ \A j \in 1..ReplyLen : <<m, j>> \in Cell
          BY <2>2, ServingAssumption DEF Cell
        <5>2. Whole(m) = [j \in 1..ReplyLen |-> <<m, j>>]
          BY DEF Whole, MsgLen
        <5>3. Whole(m) \in [1..ReplyLen -> Cell]
          BY <5>1, <5>2
        <5> QED
          BY <5>1, <5>3
      <4>2. (o \o g) \o Whole(m) = o \o (g \o Whole(m))
        BY <2>2, <4>1, ConcatAssociative, SMTT(30)
      <4> QED
        BY <4>2 DEF EnqueueBack
    <3> HIDE DEF og, e
    <3>3. WholeLine(og)
      BY <2>3 DEF og
    <3>4. WholeLine(EnqueueBack(og, m))
      BY <2>2, <3>1, <3>3, EnqueuedKeeps
    <3> QED
      BY <3>2, <3>4
  <2> HIDE DEF e
  <2> QED
    BY <2>1, <2>2, <2>3, <2>5, <2>6, <2>7 DEF T
<1>5. \A i \in 0..n : i \in T
  <2> HIDE DEF T
  <2>1. n \in Nat /\ 0 \in T /\ \A i \in Nat : i < n /\ i \in T => i + 1 \in T
    BY <1>3, <1>4
  <2> QED
    BY ONLY <2>1, UpTo
<1>6. n \in T /\ f[n] \in Seq(Cell)
  BY <1>2, <1>5
<1> QED
  BY <1>1, <1>6

-----------------------------------------------------------------------------
(* The queues, the write buffers and the reference counts.                 *)

GoodQueue(c, o, w, q) ==
  /\ o \in Seq(Cell) /\ w \in Seq(Cell) /\ q \in Seq(Cell)
  /\ Forward(q) /\ NoTwice(q) /\ WholeLine((o \o w) \o q)
  /\ Len(w) <= WBUFSIZE /\ (c \notin Encrypted => w = <<>>)

Counted(q, r) ==
  DOMAIN q = Client /\ DOMAIN r = AllMessages /\ \A m \in AllMessages : r[m] = Holders(q, m)

\* a message that is queued was handled, if the one who sent it is still there
Told(m) == life[m[1]] # GONE => m[2] <= Len(heard[m[1]])

QueueInv ==
  /\ DOMAIN out = Client /\ DOMAIN wbuf = Client
  /\ \A c \in Client : GoodQueue(c, out[c], wbuf[c], queue[c])
  /\ \A c \in Client : \A m \in Messages(queue[c]) : Told(m)
  /\ Counted(queue, refs)

\* A connection with nothing to write.
LEMMA GoodEmpty ==
  ASSUME NEW c \in Client
  PROVE  GoodQueue(c, <<>>, <<>>, <<>>) /\ Messages(<<>>) = {}
<1> DEFINE e == <<>>
<1>1. e \in Seq(Cell) /\ Len(e) = 0 /\ DOMAIN e = {} /\ (e \o e) \o e = e
  OBVIOUS
<1>2. WBUFSIZE \in Nat
  BY ServingAssumption
<1> HIDE DEF e
<1>3. Forward(e) /\ NoTwice(e) /\ InWhole(e) /\ Messages(e) = {}
  BY <1>1 DEF Forward, NoTwice, InWhole, Messages
<1>4. WholeLine((e \o e) \o e)
  BY <1>1, <1>3 DEF WholeLine, e
<1>5. GoodQueue(c, e, e, e)
  BY <1>1, <1>2, <1>3, <1>4 DEF GoodQueue, e
<1> QED
  BY <1>3, <1>5 DEF e

\* The messages of a queue are messages of the clients.
LEMMA MessagesTyped ==
  ASSUME NEW q \in Seq(Cell)
  PROVE  Messages(q) \subseteq AllMessages
  BY DEF Messages, Cell

\* A message is its sender and its number.
LEMMA MessageIs ==
  ASSUME NEW m \in AllMessages
  PROVE  m[1] \in Client /\ m[2] \in Nat /\ m[2] >= 1 /\ m = <<m[1], m[2]>>
<1>1. PICK c \in Client : m \in {c} \X DOMAIN Stream[c]
  BY DEF AllMessages
<1>2. DOMAIN Stream[c] = 1..Len(Stream[c]) /\ Len(Stream[c]) \in Nat
  BY BlocksTyped
<1> QED
  BY <1>1, <1>2

\* One queue loses messages, and their reference counts go down.
LEMMA CountLess ==
  ASSUME NEW q, NEW r, Counted(q, r), NEW c \in Client, NEW x, NEW ms, NEW p, Loses(q, p, c, x, ms)
  PROVE  Counted(p, CountsDown(r, ms))
<1> DEFINE s == CountsDown(r, ms)
<1>1. DOMAIN q = Client /\ DOMAIN r = AllMessages /\ \A m \in AllMessages : r[m] = Holders(q, m)
  BY DEF Counted
<1>2. DOMAIN p = Client
  BY DEF Loses
<1>3. DOMAIN s = AllMessages /\ \A m \in AllMessages : s[m] = r[m] - IF m \in ms THEN 1 ELSE 0
  BY <1>1 DEF CountsDown
<1>4. ASSUME NEW m \in AllMessages  PROVE s[m] = Holders(p, m)
  <2>1. Holders(p, m) = Holders(q, m) - IF m \in ms THEN 1 ELSE 0
    BY OneHolderLess
  <2> HIDE DEF s
  <2> QED
    BY <2>1, <1>1, <1>3
<1> QED
  BY <1>2, <1>3, <1>4 DEF Counted

\* At the start nothing is queued.
LEMMA QueueInit == Init => QueueInv
<1> SUFFICES ASSUME Init  PROVE QueueInv
  OBVIOUS
<1>1. /\ out = [c \in Client |-> <<>>] /\ wbuf = [c \in Client |-> <<>>]
      /\ queue = [c \in Client |-> <<>>] /\ refs = [m \in AllMessages |-> 0]
  BY DEF Init, AllMessages
<1>2. \A c \in Client : out[c] = <<>> /\ wbuf[c] = <<>> /\ queue[c] = <<>>
  BY <1>1
<1>3. \A c \in Client : GoodQueue(c, out[c], wbuf[c], queue[c]) /\ Messages(queue[c]) = {}
  BY <1>2, GoodEmpty
<1>4. ASSUME NEW m \in AllMessages  PROVE refs[m] = Holders(queue, m)
  <2>1. {d \in Client : m \in Messages(queue[d])} = {}
    BY <1>3
  <2>2. Holders(queue, m) = 0
    BY <2>1, FS_EmptySet DEF Holders
  <2> QED
    BY <2>2, <1>1
<1>5. Counted(queue, refs)
  BY <1>1, <1>4 DEF Counted
<1> QED
  BY <1>1, <1>3, <1>5 DEF QueueInv

\* A step that writes nothing and queues nothing.
LEMMA QueueElsewhere ==
  ASSUME QueueInv, queue' = queue, refs' = refs, wbuf' = wbuf, out' = out,
         \A m \in AllMessages : Told(m) => Told(m)'
  PROVE  QueueInv'
<1>1. ASSUME NEW c \in Client, NEW m \in Messages(queue[c])  PROVE Told(m)'
  <2>1. queue[c] \in Seq(Cell) /\ Told(m)
    BY DEF QueueInv, GoodQueue
  <2>2. m \in AllMessages
    BY <2>1, MessagesTyped
  <2> QED
    BY <2>1, <2>2
<1> QED
  BY <1>1 DEF QueueInv

\* k cells leave the queue of c for its write buffer or its socket.
LEMMA QueueWritten ==
  ASSUME QueueInv, NEW c \in Client, NEW k \in 0..Len(queue[c]), NEW o \in Seq(Cell), NEW w \in Seq(Cell),
         (o \o w) \o Left(queue[c], k) = (out[c] \o wbuf[c]) \o queue[c],
         Len(w) <= WBUFSIZE, c \notin Encrypted => w = <<>>,
         queue' = [queue EXCEPT ![c] = Left(queue[c], k)], refs' = Unref(DoneWith(queue[c], k)),
         DOMAIN out' = Client, out'[c] = o, DOMAIN wbuf' = Client, wbuf'[c] = w,
         \A d \in Client : d # c => out'[d] = out[d] /\ wbuf'[d] = wbuf[d],
         life' = life, heard' = heard
  PROVE  QueueInv'
<1> DEFINE q == queue[c]
           l == Left(q, k)
<1>1. /\ DOMAIN out = Client /\ DOMAIN wbuf = Client /\ DOMAIN queue = Client
      /\ q \in Seq(Cell) /\ Forward(q) /\ NoTwice(q) /\ WholeLine((out[c] \o wbuf[c]) \o q)
  BY DEF QueueInv, GoodQueue, Counted
<1>2. l \in Seq(Cell) /\ k \in 0..Len(q)
  BY <1>1, LeftIs
<1> HIDE DEF q
<1>3. /\ Forward(l) /\ NoTwice(l) /\ Messages(l) \subseteq Messages(q)
      /\ DoneWith(q, k) = Messages(q) \ Messages(l)
  BY <1>1, <1>2, LeftKeeps
<1> HIDE DEF l
<1>4. GoodQueue(c, o, w, l)
  BY <1>1, <1>2, <1>3 DEF GoodQueue, q, l
<1>5. /\ queue' = [queue EXCEPT ![c] = l] /\ DOMAIN out' = Client /\ DOMAIN wbuf' = Client
      /\ out'[c] = o /\ wbuf'[c] = w /\ queue'[c] = l
      /\ \A d \in Client : d # c => out'[d] = out[d] /\ wbuf'[d] = wbuf[d] /\ queue'[d] = queue[d]
  BY <1>1 DEF l, q
<1>6. \A d \in Client : GoodQueue(d, out'[d], wbuf'[d], queue'[d])
  BY <1>4, <1>5 DEF QueueInv
<1>7. \A d \in Client : Messages(queue'[d]) \subseteq Messages(queue[d])
  BY <1>3, <1>5 DEF q
<1>8. \A d \in Client : \A m \in Messages(queue'[d]) : Told(m)'
  BY <1>7 DEF QueueInv, Told
<1>9. Counted(queue', refs')
  <2> DEFINE ms == DoneWith(q, k)
  <2>1. refs' = CountsDown(refs, ms)
    BY DEF Unref, q, CountsDown
  <2>2. Counted(queue, refs)
    BY DEF QueueInv
  <2>3. Loses(queue, queue', c, l, ms)
    BY <1>1, <1>3, <1>5 DEF q, Loses
  <2> HIDE DEF ms
  <2>4. Counted(queue', CountsDown(refs, ms))
    BY ONLY <2>2, <2>3, c \in Client, CountLess
  <2> QED
    BY <2>1, <2>4
<1> QED
  BY <1>5, <1>6, <1>8, <1>9 DEF QueueInv

\* The connection of c goes, with its queue q of what was or would be queued.
LEMMA QueueDeleted ==
  ASSUME NEW c \in Client, NEW q, NEW r, Counted(q, r),
         DOMAIN out = Client, DOMAIN wbuf = Client, DOMAIN life = Client, DOMAIN heard = Client,
         \A d \in Client : d # c => GoodQueue(d, out[d], wbuf[d], q[d]),
         \A d \in Client : d # c => \A m \in Messages(q[d]) : m \in AllMessages /\ (m[1] = c \/ Told(m)),
         queue' = [q EXCEPT ![c] = <<>>], refs' = Forget(r, q[c]),
         out' = [out EXCEPT ![c] = <<>>], wbuf' = [wbuf EXCEPT ![c] = <<>>],
         life' = [life EXCEPT ![c] = GONE], heard' = [heard EXCEPT ![c] = <<>>]
  PROVE  QueueInv'
<1>1. DOMAIN q = Client
  BY DEF Counted
<1>2. /\ DOMAIN out' = Client /\ DOMAIN wbuf' = Client
      /\ out'[c] = <<>> /\ wbuf'[c] = <<>> /\ queue'[c] = <<>>
      /\ \A d \in Client : d # c => out'[d] = out[d] /\ wbuf'[d] = wbuf[d] /\ queue'[d] = q[d]
  BY <1>1
<1>3. GoodQueue(c, <<>>, <<>>, <<>>) /\ Messages(<<>>) = {}
  BY GoodEmpty
<1>4. \A d \in Client : GoodQueue(d, out'[d], wbuf'[d], queue'[d])
  BY <1>2, <1>3
<1>5. ASSUME NEW d \in Client, NEW m \in Messages(queue'[d])  PROVE Told(m)'
  <2>1. d # c /\ m \in Messages(q[d])
    BY <1>2, <1>3, <1>5
  <2>2. m \in AllMessages /\ (m[1] = c \/ Told(m))
    BY <2>1
  <2>3. m[1] \in Client
    BY <2>2, MessageIs
  <2>4. CASE m[1] = c
    BY <2>4 DEF Told
  <2>5. CASE m[1] # c
    BY <2>2, <2>3, <2>5 DEF Told
  <2> QED
    BY <2>4, <2>5
<1>6. Counted(queue', refs')
  <2> DEFINE ms == Messages(q[c])
  <2>1. refs' = CountsDown(r, ms)
    BY DEF Forget, CountsDown
  <2>2. Loses(q, queue', c, <<>>, ms)
    BY <1>1, <1>3 DEF Loses
  <2> HIDE DEF ms
  <2>3. Counted(queue', CountsDown(r, ms))
    BY ONLY Counted(q, r), <2>2, c \in Client, CountLess
  <2> QED
    BY <2>1, <2>3
<1> QED
  BY <1>2, <1>4, <1>5, <1>6 DEF QueueInv

\* The messages that are answered are numbered on from those that were before.
IsRead(c, n, h, b, off, msgs) ==
  /\ b = buf[c] \o SubSeq(Cells(c), seen[c] + 1, seen[c] + n) /\ off = ReadOff(c, b)
  /\ msgs = [i \in 1..h |-> SubSeq(b, off[i - 1] + 1, off[i])]
NumberedOn(c, h, msgs) ==
  /\ Len(heard[c]) \in Nat /\ Len(heard[c]) + h <= Len(Stream[c])
  /\ Len(heard[c] \o msgs) = Len(heard[c]) + h
  /\ [i \in 1..h |-> <<c, msgs[i][1][1]>>] = [i \in 1..h |-> <<c, Len(heard[c]) + i>>]

\* The replies to what is read are named on from the last one.
LEMMA ReadAdds ==
  ASSUME NEW c \in Client, Framed(c), life[c] = OPEN, NEW n, NEW h \in Nat, NEW how,
         Read(c, n, h, how), NEW b, NEW off, NEW msgs, IsRead(c, n, h, b, off, msgs)
  PROVE  NumberedOn(c, h, msgs)
<1> SUFFICES ASSUME b = buf[c] \o SubSeq(Cells(c), seen[c] + 1, seen[c] + n), off = ReadOff(c, b),
                    msgs = [i \in 1..h |-> SubSeq(b, off[i - 1] + 1, off[i])]
             PROVE  /\ Len(heard[c]) \in Nat /\ Len(heard[c]) + h <= Len(Stream[c])
                    /\ Len(heard[c] \o msgs) = Len(heard[c]) + h
                    /\ [i \in 1..h |-> <<c, msgs[i][1][1]>>] = [i \in 1..h |-> <<c, Len(heard[c]) + i>>]
  BY DEF IsRead, NumberedOn
<1> DEFINE H == Len(heard[c])
           N == Len(Stream[c])
           B == Blocks(c)
<1>1. H \in 0..N /\ heard[c] = SubSeq(B, 1, H)
  BY DEF Framed
<1>2. /\ B \in Seq(Seq(Pairs)) /\ Len(B) = N /\ N \in Nat
      /\ \A k \in 1..N : Message(c, k) \in Seq(Pairs) /\ Stream[c][k] \in Nat \ {0}
  BY BlocksTyped
<1>3. TakenOut(c, H, seen[c] + n, b, h)
  BY ReadParts
<1>4. /\ H + h <= N
      /\ \A i \in 1..h : SubSeq(b, off[i - 1] + 1, off[i]) = Message(c, H + i)
  BY <1>3 DEF TakenOut, TheNext
<1>5. \A i \in 1..h : msgs[i] = Message(c, H + i)
  BY <1>4
<1>6. DOMAIN msgs = 1..h
  OBVIOUS
<1>7. msgs = [i \in 1..h |-> msgs[i]]
  OBVIOUS
<1> HIDE DEF H, N, B
<1>8. \A i \in 1..h : H + i \in 1..N
  BY <1>1, <1>2, <1>4
<1>9. msgs \in Seq(Seq(Pairs)) /\ Len(msgs) = h
  <2>1. \A i \in 1..h : msgs[i] \in Seq(Pairs)
    BY ONLY <1>2, <1>5, <1>8
  <2>2. msgs \in [1..h -> Seq(Pairs)]
    BY ONLY <2>1, <1>6, <1>7
  <2> QED
    BY ONLY <2>2, h \in Nat
<1>10. heard[c] \in Seq(Seq(Pairs)) /\ Len(heard[c]) = H
  BY <1>1, <1>2, FirstPlaces
<1>11. Len(heard[c] \o msgs) = H + h
  <2>1. Len(heard[c] \o msgs) = Len(heard[c]) + Len(msgs)
    BY ONLY <1>9, <1>10, ConcatProperties
  <2> QED
    BY <2>1, <1>9, <1>10
<1>12. ASSUME NEW i \in 1..h  PROVE msgs[i][1][1] = H + i
  <2> DEFINE k == H + i
             l == Stream[c][k]
  <2>1. k \in 1..N
    BY <1>8
  <2>2. l \in Nat \ {0} /\ msgs[i] = [j \in 1..l |-> <<k, j>>]
    BY <2>1, <1>2, <1>5 DEF Message
  <2> HIDE DEF k, l
  <2>3. 1 \in 1..l
    BY <2>2
  <2>4. msgs[i][1] = <<k, 1>>
    BY ONLY <2>2, <2>3
  <2> QED
    BY ONLY <2>4 DEF k
<1>13. H \in Nat /\ H + h <= N
  BY <1>1, <1>2, <1>4
<1>14. [i \in 1..h |-> <<c, msgs[i][1][1]>>] = [i \in 1..h |-> <<c, H + i>>]
  BY <1>12
<1> QED
  BY <1>11, <1>13, <1>14 DEF H, N

\* The replies are queued on the connections that are open: no message of the
\* same name is queued yet, so the counts are right.
LEMMA QueueReplied ==
  ASSUME QueueInv, NEW c \in Client, life[c] = OPEN, NEW H \in Nat, H = Len(heard[c]), NEW h \in Nat,
         H + h <= Len(Stream[c]), NEW rs, rs = [i \in 1..h |-> <<c, H + i>>],
         NEW to, to = {d \in Client : life[d] = OPEN}, NEW q, q = Replied(to, rs),
         NEW r, r = [m \in DOMAIN refs |-> IF m \in Range(rs) THEN Cardinality(to) ELSE refs[m]]
  PROVE  /\ \A d \in Client : GoodQueue(d, out[d], wbuf[d], q[d])
         /\ \A d \in Client : \A m \in Messages(q[d]) : Told(m) \/ m \in Range(rs)
         /\ Counted(q, r)
<1>1. /\ DOMAIN queue = Client /\ DOMAIN refs = AllMessages
      /\ \A m \in AllMessages : refs[m] = Holders(queue, m)
  BY DEF QueueInv, Counted
<1>2. DOMAIN rs = 1..h /\ \A i \in 1..h : rs[i] = <<c, H + i>>
  OBVIOUS
<1>3. \A i \in 1..h : rs[i] \in AllMessages
  <2>1. Len(Stream[c]) \in Nat /\ DOMAIN Stream[c] = 1..Len(Stream[c])
    BY BlocksTyped
  <2>2. \A i \in 1..h : H + i \in 1..Len(Stream[c])
    BY <2>1
  <2> QED
    BY <1>2, <2>1, <2>2 DEF AllMessages
<1>4. \A i, j \in 1..h : rs[i] = rs[j] => i = j
  BY <1>2
<1>5. Range(rs) = {rs[i] : i \in 1..h}
  BY <1>2 DEF Range
<1>6. ASSUME NEW d \in Client, NEW i \in 1..h  PROVE rs[i] \notin Messages(queue[d])
  <2>1. rs[i][1] = c /\ rs[i][2] = H + i
    BY <1>2
  <2>2. ~Told(rs[i])
    BY <2>1 DEF Told, OPEN, GONE
  <2> QED
    BY <2>2 DEF QueueInv
<1>7. q = [d \in Client |-> IF d \in to THEN FoldLeft(EnqueueBack, queue[d], rs) ELSE queue[d]]
  BY DEF Replied
<1>8. to \subseteq Client
  OBVIOUS
<1> HIDE DEF Range
<1>9. ASSUME NEW d \in Client
      PROVE  /\ GoodQueue(d, out[d], wbuf[d], q[d])
             /\ Messages(q[d]) = IF d \in to THEN Messages(queue[d]) \cup Range(rs) ELSE Messages(queue[d])
  <2>1. GoodQueue(d, out[d], wbuf[d], queue[d])
    BY DEF QueueInv
  <2>2. CASE d \notin to
    BY <2>1, <2>2, <1>7
  <2>3. CASE d \in to
    <3> DEFINE x == FoldLeft(EnqueueBack, queue[d], rs)
               o == out[d] \o wbuf[d]
               y == queue[d]
    <3>1. q[d] = x
      BY <1>7, <2>3
    <3>2. /\ out[d] \in Seq(Cell) /\ wbuf[d] \in Seq(Cell) /\ y \in Seq(Cell) /\ Forward(y) /\ NoTwice(y)
          /\ WholeLine(o \o y) /\ Len(wbuf[d]) <= WBUFSIZE /\ (d \notin Encrypted => wbuf[d] = <<>>)
      BY <2>1 DEF GoodQueue
    <3>3. o \in Seq(Cell)
      BY <3>2
    <3>4. \A i \in 1..h : rs[i] \notin Messages(y)
      BY <1>6
    <3>5. x = FoldLeft(EnqueueBack, y, rs)
      OBVIOUS
    <3> HIDE DEF x, o, y
    <3>6. /\ x \in Seq(Cell) /\ Forward(x) /\ NoTwice(x) /\ WholeLine(o \o x)
          /\ Messages(x) = Messages(y) \cup {rs[i] : i \in 1..h}
      <4>1. NewReplies(rs, h, y)
        BY <1>2, <1>3, <1>4, <3>4 DEF NewReplies
      <4>2. WithReplies(x, o, y, rs, h)
        BY ONLY h \in Nat, <4>1, <3>2, <3>3, <3>5, AllEnqueued
      <4> QED
        BY <4>2 DEF WithReplies
    <3> QED
      BY <3>1, <3>2, <3>6, <2>3, <1>5 DEF GoodQueue, o, y
  <2> QED
    BY <2>2, <2>3
<1>10. \A d \in Client : \A m \in Messages(q[d]) : Told(m) \/ m \in Range(rs)
  BY <1>9 DEF QueueInv
<1>11. DOMAIN q = Client /\ DOMAIN r = AllMessages
  BY <1>1, <1>7
<1>12. ASSUME NEW m \in AllMessages  PROVE r[m] = Holders(q, m)
  <2> DEFINE A == {d \in Client : m \in Messages(q[d])}
             B == {d \in Client : m \in Messages(queue[d])}
  <2>1. CASE m \in Range(rs)
    <3>1. \A d \in Client : m \notin Messages(queue[d])
      BY <2>1, <1>5, <1>6
    <3>2. A = to
      BY <3>1, <2>1, <1>8, <1>9
    <3> HIDE DEF A
    <3> QED
      BY <2>1, <3>2, <1>1 DEF Holders, A
  <2>2. CASE m \notin Range(rs)
    <3>1. A = B
      BY <2>2, <1>9
    <3>2. Holders(q, m) = Cardinality(A) /\ Holders(queue, m) = Cardinality(B)
      BY DEF Holders
    <3> HIDE DEF A, B
    <3> QED
      BY <2>2, <3>1, <3>2, <1>1
  <2> QED
    BY <2>1, <2>2
<1>13. Counted(q, r)
  BY <1>11, <1>12 DEF Counted
<1> QED
  BY <1>9, <1>10, <1>13

\* A sequence is its first k places and the others.
LEMMA CutJoins ==
  ASSUME NEW S, NEW s \in Seq(S), NEW k \in 0..Len(s)
  PROVE  /\ SubSeq(s, 1, k) \in Seq(S) /\ Len(SubSeq(s, 1, k)) = k
         /\ SubSeq(s, k + 1, Len(s)) \in Seq(S) /\ Len(SubSeq(s, k + 1, Len(s))) = Len(s) - k
         /\ SubSeq(s, 1, k) \o SubSeq(s, k + 1, Len(s)) = s
<1> DEFINE z == Len(s)
<1>1. z \in Nat /\ z \in k..z /\ 1 \in 1..(z + 1) /\ k \in (1 - 1)..z /\ k \in Nat
  OBVIOUS
<1>2. SubSeq(s, 1, k) \in Seq(S) /\ Len(SubSeq(s, 1, k)) = k
  BY FirstPlaces
<1>3. SubSeq(s, k + 1, z) \in Seq(S) /\ Len(SubSeq(s, k + 1, z)) = z - k
  <2>1. 0 \in Nat /\ 0 <= 0 /\ 0 <= z - k /\ k <= z /\ z <= Len(s)
    BY <1>1
  <2> QED
    BY <2>1, <1>1, PartOfPart
<1>4. SubSeq(s, 1, k) \o SubSeq(s, k + 1, z) = SubSeq(s, 1, z)
  <2> HIDE DEF z
  <2> QED
    BY <1>1, ConcatAdjacentSubSeq DEF z
<1>5. SubSeq(s, 1, z) = s
  BY SubSeqFull
<1> QED
  BY <1>2, <1>3, <1>4, <1>5

\* What is in the write buffer and in the queue, put together either way.
Associates(s, t, u) == (s \o t) \o u = s \o (t \o u)
\* Joining is associative.
LEMMA Associative ==
  ASSUME NEW S, NEW s \in Seq(S), NEW t \in Seq(S), NEW u \in Seq(S)
  PROVE  Associates(s, t, u) /\ s \o t \in Seq(S)
  BY ConcatAssociative, ConcatProperties DEF Associates

\* Cells move from the queue to the write buffer, and from there to the socket:
\* o, w and a \o l become o \o x, y and l.
Moved(o, w, a, l, x, y) == ((o \o x) \o y) \o l = (o \o w) \o (a \o l)
\* The stream of what went out, waits and is queued stays the same.
LEMMA LineStays ==
  ASSUME NEW S, NEW o \in Seq(S), NEW w \in Seq(S), NEW a \in Seq(S), NEW l \in Seq(S),
         NEW x \in Seq(S), NEW y \in Seq(S), x \o y = w \o a
  PROVE  o \o x \in Seq(S) /\ Moved(o, w, a, l, x, y)
<1>1. Associates(o, x, y) /\ o \o x \in Seq(S)
  BY Associative
<1>2. Associates(o, w, a) /\ o \o w \in Seq(S)
  BY Associative
<1> DEFINE ow == o \o w
<1>3. ow \in Seq(S)
  BY <1>2
<1> HIDE DEF ow
<1>4. Associates(ow, a, l)
  BY <1>3, Associative
<1>5. (o \o x) \o y = o \o (x \o y) /\ (o \o w) \o a = o \o (w \o a)
  BY ONLY <1>1, <1>2 DEF Associates
<1>6. (ow \o a) \o l = ow \o (a \o l)
  BY ONLY <1>4 DEF Associates
<1>7. (o \o x) \o y = ow \o a
  BY ONLY <1>5, x \o y = w \o a DEF ow
<1>8. ((o \o x) \o y) \o l = ow \o (a \o l)
  BY ONLY <1>6, <1>7
<1> QED
  BY ONLY <1>1, <1>8 DEF ow, Moved

\* The queue is written to the socket, or through the write buffer: what went
\* out, what waits and what is queued stays the same stream.
LEMMA QueueWrite ==
  ASSUME QueueInv, NEW c \in Client, NEW n, WritePlain(c, n) \/ WriteEncrypted(c, n)
  PROVE  QueueInv'
<1> DEFINE q == queue[c]
           w == wbuf[c]
           o == out[c]
<1>1. /\ o \in Seq(Cell) /\ w \in Seq(Cell) /\ q \in Seq(Cell) /\ Len(w) <= WBUFSIZE
      /\ c \notin Encrypted => w = <<>>
      /\ DOMAIN out = Client /\ DOMAIN wbuf = Client
  BY DEF QueueInv, GoodQueue
<1>2. Len(q) \in Nat /\ Len(w) \in Nat /\ WBUFSIZE \in Nat
  BY <1>1, ServingAssumption
<1>3. life' = life /\ heard' = heard
  BY DEF WritePlain, WriteEncrypted, reading
<1>4. CASE WritePlain(c, n)
  <2> DEFINE a == SubSeq(q, 1, n)
             l == Left(q, n)
  <2>1. /\ n \in 1..Len(q) /\ w = <<>> /\ c \notin Encrypted
        /\ out' = [out EXCEPT ![c] = out[c] \o a] /\ wbuf' = wbuf
        /\ queue' = [queue EXCEPT ![c] = Left(queue[c], n)] /\ refs' = Unref(DoneWith(queue[c], n))
    BY <1>1, <1>4 DEF WritePlain, Taken
  <2>2. n \in 0..Len(q)
    BY <2>1, <1>2
  <2>3. a \in Seq(Cell) /\ l \in Seq(Cell) /\ a \o l = q
    BY <1>1, <2>2, CutJoins, ZenonT(30) DEF Left
  <2> HIDE DEF a, l, q, w, o
  <2>4. o \o a \in Seq(Cell) /\ ((o \o a) \o w) \o l = (o \o w) \o q
    <3>1. a \o w = w \o a
      BY ONLY <2>1, <2>3, ConcatEmptySeq
    <3>2. o \o a \in Seq(Cell) /\ Moved(o, w, a, l, a, w)
      BY ONLY <1>1, <2>3, <3>1, LineStays
    <3> QED
      BY <3>2, <2>3 DEF Moved
  <2>5. /\ DOMAIN out' = Client /\ out'[c] = o \o a /\ DOMAIN wbuf' = Client /\ wbuf'[c] = w
        /\ \A d \in Client : d # c => out'[d] = out[d] /\ wbuf'[d] = wbuf[d]
    BY <2>1, <1>1 DEF o, w
  <2> DEFINE oa == o \o a
  <2>6. /\ oa \in Seq(Cell) /\ (oa \o w) \o Left(queue[c], n) = (out[c] \o wbuf[c]) \o queue[c]
        /\ out'[c] = oa
    BY <2>4, <2>5 DEF o, w, q, l
  <2>7. n \in 0..Len(queue[c])
    BY <2>2 DEF q
  <2> HIDE DEF oa
  <2> QED
    BY <1>1, <1>3, <2>1, <2>5, <2>6, <2>7, QueueWritten, ZenonT(30)
<1>5. CASE WriteEncrypted(c, n)
  <2> DEFINE fit == Min({WBUFSIZE - Len(w), Len(q)})
             a == SubSeq(q, 1, fit)
             l == Left(q, fit)
             full == w \o a
             x == SubSeq(full, 1, n)
             y == SubSeq(full, n + 1, Len(full))
  <2>1. /\ n \in 1..Len(full) /\ c \in Encrypted
        /\ out' = [out EXCEPT ![c] = o \o x] /\ wbuf' = [wbuf EXCEPT ![c] = y]
        /\ queue' = [queue EXCEPT ![c] = Left(queue[c], fit)]
        /\ refs' = Unref(DoneWith(queue[c], fit))
    BY <1>5 DEF WriteEncrypted, Taken
  <2>2. fit \in 0..Len(q) /\ fit <= WBUFSIZE - Len(w)
    <3> DEFINE s == {WBUFSIZE - Len(w), Len(q)}
    <3>1. s \in SUBSET Nat /\ s # {} /\ WBUFSIZE - Len(w) \in s /\ Len(q) \in s
      BY <1>1, <1>2
    <3> HIDE DEF s
    <3>2. Min(s) \in s /\ \A e \in s : Min(s) <= e
      BY <3>1, MinIsPlace
    <3>3. Min(s) \in Nat /\ Min(s) <= Len(q) /\ Min(s) <= WBUFSIZE - Len(w)
      BY <3>1, <3>2
    <3>4. fit = Min(s)
      BY DEF s
    <3> QED
      BY <3>3, <3>4, <1>2
  <2> HIDE DEF fit, q, w, o
  <2>3. a \in Seq(Cell) /\ Len(a) = fit /\ l \in Seq(Cell) /\ a \o l = q
    BY <1>1, <2>2, CutJoins DEF Left
  <2> HIDE DEF a, l
  <2>4. full \in Seq(Cell) /\ Len(full) = Len(w) + fit /\ Len(full) \in Nat
    <3>1. w \o a \in Seq(Cell) /\ Len(w \o a) = Len(w) + Len(a)
      BY ONLY <1>1, <2>3, ConcatProperties
    <3> HIDE DEF full
    <3>2. full = w \o a
      BY DEF full
    <3> QED
      BY ONLY <3>1, <3>2, <2>2, <2>3, <1>2
  <2>5. n \in 0..Len(full)
    BY <2>1, <2>4
  <2> HIDE DEF full
  <2>6. x \in Seq(Cell) /\ y \in Seq(Cell) /\ Len(y) = Len(full) - n /\ x \o y = full
    BY <2>4, <2>5, CutJoins
  <2> HIDE DEF x, y
  <2>7. Len(y) <= WBUFSIZE
    BY <1>2, <2>2, <2>4, <2>5, <2>6
  <2>8. o \o x \in Seq(Cell) /\ ((o \o x) \o y) \o l = (o \o w) \o q
    <3>1. x \o y = w \o a
      BY <2>6 DEF full
    <3>2. o \o x \in Seq(Cell) /\ Moved(o, w, a, l, x, y)
      BY ONLY <1>1, <2>3, <2>6, <3>1, LineStays
    <3> QED
      BY <3>2, <2>3 DEF Moved
  <2> DEFINE ox == o \o x
  <2>9. /\ DOMAIN out' = Client /\ out'[c] = ox /\ DOMAIN wbuf' = Client /\ wbuf'[c] = y
        /\ \A d \in Client : d # c => out'[d] = out[d] /\ wbuf'[d] = wbuf[d]
    BY <2>1, <1>1
  <2>10. ox \in Seq(Cell) /\ (ox \o y) \o Left(queue[c], fit) = (out[c] \o wbuf[c]) \o queue[c]
    BY <2>8 DEF o, w, q, l
  <2>11. fit \in 0..Len(queue[c])
    BY <2>2 DEF q
  <2> HIDE DEF ox
  <2> QED
    BY <1>3, <2>1, <2>6, <2>7, <2>9, <2>10, <2>11, QueueWritten
<1> QED
  BY <1>4, <1>5

\* The steps that handle nothing and end no connection but by GONE.
LEMMA ToldOn ==
  ASSUME heard' = heard, LifeMoves
  PROVE  \A m \in AllMessages : Told(m) => Told(m)'
<1>1. GONE \notin Early
  BY DEF Early, AWAY, BACKLOG, ACCEPTED, GONE
<1>2. ASSUME NEW m \in AllMessages, Told(m)  PROVE Told(m)'
  <2>1. m[1] \in Client
    BY MessageIs
  <2>2. life'[m[1]] # GONE => life[m[1]] # GONE
    BY <2>1, <1>1 DEF LifeMoves
  <2> QED
    BY <2>2, <1>2 DEF Told
<1> QED
  BY <1>2

\* The messages of what was read are answered.
LEMMA QueueRead ==
  ASSUME LifeInv, FrameInv, QueueInv, NEW c \in Client, NEW n, NEW h \in Nat, NEW how,
         Read(c, n, h, how)
  PROVE  QueueInv'
<1> DEFINE b == buf[c] \o SubSeq(Cells(c), seen[c] + 1, seen[c] + n)
           off == ReadOff(c, b)
           msgs == [i \in 1..h |-> SubSeq(b, off[i - 1] + 1, off[i])]
           rs == [i \in 1..h |-> <<c, msgs[i][1][1]>>]
           to == {d \in Client : life[d] = OPEN}
           q == Replied(to, rs)
           r == [m \in DOMAIN refs |-> IF m \in Range(rs) THEN Cardinality(to) ELSE refs[m]]
           H == Len(heard[c])
<1>1. life[c] = OPEN
  BY OpenWhenRead DEF Read
<1>2. Framed(c) /\ DOMAIN heard = Client /\ life \in [Client -> Lives]
  BY DEF FrameInv, LifeInv
<1>3. DOMAIN out = Client /\ DOMAIN wbuf = Client
  BY DEF QueueInv
<1>4. \/ /\ life' = [life EXCEPT ![c] = GONE] /\ queue' = [q EXCEPT ![c] = <<>>]
         /\ refs' = Forget(r, q[c]) /\ heard' = [heard EXCEPT ![c] = <<>>]
         /\ wbuf' = [wbuf EXCEPT ![c] = <<>>] /\ out' = [out EXCEPT ![c] = <<>>]
      \/ /\ queue' = q /\ refs' = r /\ heard' = [heard EXCEPT ![c] = heard[c] \o msgs]
         /\ wbuf' = wbuf /\ out' = out
         /\ life' = life \/ life' = [life EXCEPT ![c] = DRAINING]
  BY DEF Read
<1> HIDE DEF b, off
<1>5. /\ H \in Nat /\ H + h <= Len(Stream[c]) /\ Len(heard[c] \o msgs) = H + h
      /\ rs = [i \in 1..h |-> <<c, H + i>>]
  <2>1. IsRead(c, n, h, b, off, msgs)
    BY DEF IsRead, b, off
  <2> HIDE DEF msgs
  <2>2. NumberedOn(c, h, msgs)
    BY <1>1, <1>2, <2>1, ReadAdds
  <2> QED
    BY <2>2 DEF NumberedOn
<1> HIDE DEF msgs, H, rs
<1>6. /\ \A d \in Client : GoodQueue(d, out[d], wbuf[d], q[d])
      /\ \A d \in Client : \A m \in Messages(q[d]) : Told(m) \/ m \in Range(rs)
      /\ Counted(q, r)
  BY <1>1, <1>5, QueueReplied DEF H
<1> HIDE DEF q, r, to
<1>7. ASSUME NEW m \in Range(rs)  PROVE m[1] = c /\ m[2] \in Nat /\ m[2] <= H + h
  <2>1. PICK i \in 1..h : m = <<c, H + i>>
    BY <1>5 DEF Range
  <2> QED
    BY <2>1, <1>5
<1>8. \A d \in Client : \A m \in Messages(q[d]) : m \in AllMessages
  BY <1>6, MessagesTyped DEF GoodQueue
<1>9. CASE /\ life' = [life EXCEPT ![c] = GONE] /\ queue' = [q EXCEPT ![c] = <<>>]
           /\ refs' = Forget(r, q[c]) /\ heard' = [heard EXCEPT ![c] = <<>>]
           /\ wbuf' = [wbuf EXCEPT ![c] = <<>>] /\ out' = [out EXCEPT ![c] = <<>>]
  <2>1. /\ \A d \in Client : d # c => GoodQueue(d, out[d], wbuf[d], q[d])
        /\ \A d \in Client : d # c => \A m \in Messages(q[d]) : m \in AllMessages /\ (m[1] = c \/ Told(m))
    BY <1>6, <1>7, <1>8
  <2>2. DOMAIN life = Client
    BY <1>2
  <2> QED
    BY <1>2, <1>3, <1>6, <1>9, <2>1, <2>2, QueueDeleted
<1>10. CASE /\ queue' = q /\ refs' = r /\ heard' = [heard EXCEPT ![c] = heard[c] \o msgs]
            /\ wbuf' = wbuf /\ out' = out
            /\ life' = life \/ life' = [life EXCEPT ![c] = DRAINING]
  <2>1. Len(heard'[c]) = H + h /\ \A d \in Client : d # c => heard'[d] = heard[d] /\ life'[d] = life[d]
    BY <1>2, <1>5, <1>10
  <2>2. ASSUME NEW d \in Client, NEW m \in Messages(q[d])  PROVE Told(m)'
    <3>1. Told(m) \/ m \in Range(rs)
      BY <1>6
    <3>2. m \in AllMessages /\ m[1] \in Client /\ m[2] \in Nat
      BY <1>8, MessageIs
    <3>3. CASE m \in Range(rs)
      BY <3>3, <1>7, <2>1 DEF Told
    <3>4. CASE Told(m) /\ m[1] # c
      BY <3>2, <3>4, <2>1 DEF Told
    <3>5. CASE Told(m) /\ m[1] = c
      <4>1. m[2] <= H
        BY <3>5, <1>1 DEF Told, OPEN, GONE, H
      <4>2. m[2] <= H + h
        BY ONLY <4>1, <3>2, <1>5, h \in Nat
      <4> QED
        BY <4>2, <3>5, <2>1 DEF Told
    <3> QED
      BY <3>1, <3>3, <3>4, <3>5
  <2> QED
    BY <1>3, <1>6, <1>10, <2>2 DEF QueueInv
<1> QED
  BY <1>4, <1>9, <1>10

\* The invariant holds in every step of the loop and of the clients.
LEMMA QueueStep ==
  ASSUME LifeInv, FrameInv, QueueInv, [Next]_vars
  PROVE  QueueInv'
<1>1. CASE OtherStep
  BY <1>1, OtherMoves, ToldOn, QueueElsewhere
<1>2. CASE ReadTypes
  <2>1. queue' = queue /\ refs' = refs /\ wbuf' = wbuf /\ out' = out /\ heard' = heard
    BY <1>2 DEF ReadTypes, writing
  <2>2. \A c \in Client : life'[c] # GONE => life[c] # GONE
    BY <1>2 DEF ReadTypes, InSlot, ACCEPTED, GONE
  <2>3. \A m \in AllMessages : Told(m) => Told(m)'
    BY <2>1, <2>2, MessageIs DEF Told
  <2> QED
    BY <2>1, <2>3, QueueElsewhere
<1>3. ASSUME NEW c \in Client, ServeStep(c)  PROVE QueueInv'
  <2>1. CASE ReadEnd(c) \/ WriteFails(c)
    <3>1. \/ life' = life /\ heard' = heard /\ queue' = queue /\ refs' = refs /\ wbuf' = wbuf /\ out' = out
          \/ Delete(c)
      BY <2>1 DEF ReadEnd, WriteFails, writing
    <3>2. CASE life' = life /\ heard' = heard /\ queue' = queue /\ refs' = refs /\ wbuf' = wbuf /\ out' = out
      BY <3>2, ToldOn, QueueElsewhere DEF LifeMoves
    <3>3. CASE Delete(c)
      <4>1. Counted(queue, refs) /\ DOMAIN out = Client /\ DOMAIN wbuf = Client
        BY DEF QueueInv
      <4>2. DOMAIN life = Client /\ DOMAIN heard = Client
        BY DEF LifeInv, FrameInv
      <4>3. \A d \in Client : GoodQueue(d, out[d], wbuf[d], queue[d]) /\ \A m \in Messages(queue[d]) : Told(m)
        BY DEF QueueInv
      <4>4. \A d \in Client : \A m \in Messages(queue[d]) : m \in AllMessages
        BY <4>3, MessagesTyped DEF GoodQueue
      <4>5. /\ life' = [life EXCEPT ![c] = GONE] /\ queue' = [queue EXCEPT ![c] = <<>>]
            /\ refs' = Forget(refs, queue[c]) /\ heard' = [heard EXCEPT ![c] = <<>>]
            /\ wbuf' = [wbuf EXCEPT ![c] = <<>>] /\ out' = [out EXCEPT ![c] = <<>>]
        BY <3>3 DEF Delete
      <4> QED
        BY <4>1, <4>2, <4>3, <4>4, <4>5, QueueDeleted
    <3> QED
      BY <3>1, <3>2, <3>3
  <2>2. ASSUME NEW n \in 1..BUFSIZE + 1, NEW h \in 0..BUFSIZE,
               NEW how \in {"go on", "delete", "drain"}, Read(c, n, h, how)
        PROVE  QueueInv'
    <3>1. n \in Nat /\ h \in Nat
      BY ReadSizes
    <3> QED
      BY <3>1, <2>2, QueueRead
  <2>3. ASSUME NEW n, WritePlain(c, n) \/ WriteEncrypted(c, n)  PROVE QueueInv'
    BY <2>3, QueueWrite
  <2> QED
    BY <1>3, <2>1, <2>2, <2>3 DEF ServeStep
<1> QED
  BY <1>1, <1>2, <1>3 DEF Next, Loop, Serve, ServeStep, OtherStep

\* The three invariants together are inductive.
LEMMA LoopInvariant == Spec => [](LifeInv /\ FrameInv /\ QueueInv)
<1>1. Init => LifeInv /\ FrameInv /\ QueueInv
  BY LifeInit, FrameInit, QueueInit
<1>2. LifeInv /\ FrameInv /\ QueueInv /\ [Next]_vars => LifeInv' /\ FrameInv' /\ QueueInv'
  BY LifeStep, FrameStep, QueueStep
<1> QED
  BY <1>1, <1>2, PTL DEF Spec

\* What a client gets is a sequence of whole messages, however the writes of the
\* loop cut them, through an encrypted connection's write buffer as well.
THEOREM RepliesComeWhole == Spec => []RepliesAreWhole
<1>1. LifeInv /\ FrameInv /\ QueueInv => RepliesAreWhole
  BY DEF QueueInv, GoodQueue, WholeLine, RepliesAreWhole, Conns
<1> QED
  BY <1>1, LoopInvariant, PTL

\* A message's reference count is the number of queues that hold it: it is not
\* freed under a queue, and none is left when the last queue has written it, or
\* has gone with its connection.
THEOREM ReferencesAreCounted == Spec => []RefsCounted
<1>1. LifeInv /\ FrameInv /\ QueueInv => RefsCounted
  BY DEF QueueInv, Counted, RefsCounted
<1> QED
  BY <1>1, LoopInvariant, PTL

-----------------------------------------------------------------------------
(* The file server: the chunks of a file.                                   *)

\* Where a chunk of r may start, and how much of the file's data lies before it.
Places(r) == Starts(r) \cup {FileSize(r)}
Place(r, o) ==
  IF Kind[r] = "manifest" THEN o - (CHOOSE e \in 1..(Len(Entries[r]) + 1) : Before(r, e) = o)
  ELSE o

\* Before counts the cells of the entries before one, with one more for each and one
\* for the count of all.
Steps(r) ==
  /\ Before(r, 1) = 1
  /\ \A e \in 1..(Len(Entries[r]) + 1) : Before(r, e) \in Nat
  /\ \A e \in 1..Len(Entries[r]) : Before(r, e + 1) = Before(r, e) + Entries[r][e] + 1

LEMMA BeforeSteps ==
  ASSUME NEW r \in Request
  PROVE  Steps(r)
<1> DEFINE E == Entries[r]
           n == Len(E)
           F == [p \in Nat \X (1..n) |-> p[1] + E[p[2]] + 1]
           to(e, g) == [i \in 1..e |-> IF i = 1 THEN 1 ELSE g[i - 1] + E[i - 1] + 1]
           it(e) == CHOOSE g : g = to(e, g)
<1>1. n \in Nat /\ \A i \in 1..n : E[i] \in Nat
  <2>1. E \in Seq(Nat \ {0})
    BY FilesAssumption
  <2> QED
    BY <2>1
<1>2. PICK f : Recurs(n, Nat, 1, F, f)
  <2>1. \A i \in 1..n : \A x \in Nat : F[<<x, i>>] \in Nat
    BY <1>1
  <2> HIDE DEF F, n
  <2> QED
    BY <1>1, <2>1, RecursionExists
<1>3. f \in [0..n -> Nat] /\ f[0] = 1 /\ \A i \in 1..n : f[i] = f[i - 1] + E[i] + 1
  <2>1. \A i \in 1..n : i - 1 \in 0..n /\ f[i - 1] \in Nat
    BY <1>1, <1>2 DEF Recurs
  <2> QED
    BY <1>2, <2>1 DEF Recurs
<1>4. ASSUME NEW e \in 1..(n + 1)
      PROVE  Before(r, e) = f[e - 1]
  <2> DEFINE g == [i \in 1..e |-> f[i - 1]]
             h == it(e)
  <2>1. e \in Nat /\ e >= 1
    BY <1>1
  <2>2. g = to(e, g)
    <3>1. ASSUME NEW i \in 1..e
          PROVE  g[i] = to(e, g)[i]
      <4>1. CASE i = 1
        BY <1>3, <4>1
      <4>2. CASE i # 1
        <5>1. i - 1 \in 1..e /\ i - 1 \in 1..n /\ (i - 1) - 1 = i - 2
          BY <1>1, <4>2
        <5> QED
          BY <1>3, <4>2, <5>1
      <4> QED
        BY <4>1, <4>2
    <3> QED
      BY <3>1
  <2>3. h = to(e, h)
    BY <2>2
  <2>4. h[e] = f[e - 1]
    <3> DEFINE T == {i \in 0..e : i = 0 \/ h[i] = f[i - 1]}
    <3> HIDE DEF h
    <3>1. 0 \in T
      BY <2>1
    <3>2. ASSUME NEW i \in Nat, i < e, i \in T
          PROVE  i + 1 \in T
      <4>1. i + 1 \in 1..e /\ (i + 1) - 1 = i
        BY <2>1, <3>2
      <4>2. h[i + 1] = IF i + 1 = 1 THEN 1 ELSE h[i] + E[i] + 1
        BY <2>3, <4>1
      <4>3. CASE i = 0
        BY <1>3, <4>1, <4>2, <4>3
      <4>4. CASE i # 0
        <5>1. i \in 1..n /\ h[i] = f[i - 1]
          BY <1>1, <3>2, <4>4
        <5> QED
          BY <1>3, <4>1, <4>2, <4>4, <5>1
      <4> QED
        BY <4>3, <4>4
    <3> HIDE DEF T
    <3>3. e \in Nat
      BY <2>1
    <3>4. \A i \in 0..e : i \in T
      BY ONLY <3>1, <3>2, <3>3, UpTo
    <3>5. e \in T
      BY <2>1, <3>4
    <3> QED
      BY <2>1, <3>5 DEF T
  <2> QED
    BY <2>4 DEF Before
<1>5. Before(r, 1) = 1
  BY <1>1, <1>3, <1>4
<1>6. ASSUME NEW e \in 1..(n + 1)  PROVE Before(r, e) \in Nat
  <2>1. e - 1 \in 0..n
    BY <1>1
  <2> QED
    BY <1>3, <1>4, <2>1
<1>7. ASSUME NEW e \in 1..n
      PROVE  Before(r, e + 1) = Before(r, e) + E[e] + 1
  <2>1. e + 1 \in 1..(n + 1) /\ e \in 1..(n + 1) /\ (e + 1) - 1 = e
    BY <1>1
  <2>2. Before(r, e + 1) = f[e] /\ Before(r, e) = f[e - 1]
    BY <1>4, <2>1
  <2> QED
    BY <1>3, <2>2
<1> QED
  BY <1>5, <1>6, <1>7 DEF Steps

\* So the cells before an entry grow from entry to entry, and the data among them.
LEMMA StepsGrow ==
  ASSUME NEW r \in Request, NEW d \in 1..(Len(Entries[r]) + 1), NEW e \in 1..(Len(Entries[r]) + 1),
         d < e
  PROVE  Before(r, d) - d < Before(r, e) - e
<1> DEFINE n == Len(Entries[r])
           T == {i \in 0..(n + 1) : d < i => Before(r, d) - d < Before(r, i) - i}
<1>1. n \in Nat /\ d \in Nat /\ e \in Nat /\ \A i \in 1..n : Entries[r][i] \in Nat \ {0}
  <2>1. Entries[r] \in Seq(Nat \ {0})
    BY FilesAssumption
  <2> QED
    BY <2>1
<1>2. Steps(r)
  BY BeforeSteps
<1>3. 0 \in T
  BY <1>1
<1>4. ASSUME NEW i \in Nat, i < n + 1, i \in T
      PROVE  i + 1 \in T
  <2>1. i + 1 \in 0..(n + 1)
    BY <1>1, <1>4
  <2>2. ASSUME d < i + 1
        PROVE  Before(r, d) - d < Before(r, i + 1) - (i + 1)
    <3>1. i \in 1..n /\ i \in 1..(n + 1) /\ d \in 1..(n + 1)
      BY <1>1, <1>4, <2>2
    <3>2. /\ Before(r, i + 1) = Before(r, i) + Entries[r][i] + 1
          /\ Before(r, i) \in Nat /\ Before(r, d) \in Nat /\ Entries[r][i] \in Nat \ {0}
      BY <1>1, <1>2, <3>1 DEF Steps
    <3>3. CASE d = i
      BY <1>1, <3>2, <3>3
    <3>4. CASE d # i
      <4>1. Before(r, d) - d < Before(r, i) - i
        BY <1>1, <1>4, <2>2, <3>4
      <4> QED
        BY <1>1, <3>2, <4>1
    <3> QED
      BY <3>3, <3>4
  <2> QED
    BY <2>1, <2>2
<1>5. n + 1 \in Nat
  BY <1>1
<1> HIDE DEF T
<1>6. \A i \in 0..(n + 1) : i \in T
  BY ONLY <1>3, <1>4, <1>5, UpTo
<1>7. e \in T
  BY <1>1, <1>6
<1> QED
  BY <1>7 DEF T

\* A place in a manifest is in front of one entry, or behind the last.
LEMMA PlaceIs ==
  ASSUME NEW r \in Request, Kind[r] = "manifest", NEW e \in 1..(Len(Entries[r]) + 1)
  PROVE  /\ Place(r, Before(r, e)) = Before(r, e) - e
         /\ Before(r, e) \in Nat
         /\ Before(r, e) - e \in Nat
<1> DEFINE n == Len(Entries[r])
           c == CHOOSE d \in 1..(n + 1) : Before(r, d) = Before(r, e)
<1>1. n \in Nat
  <2>1. Entries[r] \in Seq(Nat \ {0})
    BY FilesAssumption
  <2> QED
    BY <2>1
<1>2. Steps(r)
  BY BeforeSteps
<1>3. c \in 1..(n + 1) /\ Before(r, c) = Before(r, e)
  OBVIOUS
<1> HIDE DEF c
<1>4. /\ Before(r, e) \in Nat /\ Before(r, 1) = 1 /\ 1 \in 1..(n + 1)
      /\ Before(r, c) \in Nat
  BY <1>1, <1>2, <1>3 DEF Steps
<1>5. c = e
  <2>1. c \in Nat /\ e \in Nat
    BY <1>1, <1>3
  <2>2. ~(c < e)
    BY <1>3, <1>4, <2>1, StepsGrow
  <2>3. ~(e < c)
    BY <1>3, <1>4, <2>1, StepsGrow
  <2> QED
    BY <2>1, <2>2, <2>3
<1>6. Before(r, e) - e \in Nat
  <2>1. CASE e = 1
    BY <1>4, <2>1
  <2>2. CASE e # 1
    <3>1. Before(r, 1) - 1 < Before(r, e) - e
      <4>1. 1 < e
        BY <1>1, <2>2
      <4> QED
        BY <1>4, <4>1, StepsGrow
    <3> QED
      BY <1>1, <1>4, <3>1
  <2> QED
    BY <2>1, <2>2
<1> QED
  BY <1>4, <1>5, <1>6 DEF Place, c

-----------------------------------------------------------------------------
(* Sequences that are joined.                                              *)

\* The cells of two sequences that are joined.
IsCat(S, s, t) ==
  /\ s \o t \in Seq(S) /\ Len(s \o t) = Len(s) + Len(t)
  /\ Len(s) \in Nat /\ Len(t) \in Nat
  /\ \A i \in 1..Len(s) : (s \o t)[i] = s[i]
  /\ \A i \in 1..Len(t) : (s \o t)[Len(s) + i] = t[i]

LEMMA CatParts ==
  ASSUME NEW S, NEW s \in Seq(S), NEW t \in Seq(S)
  PROVE  IsCat(S, s, t)
  BY ConcatProperties, LenProperties DEF IsCat

\* Three that are joined, either way.
Rejoins(s, t, u) == (s \o t) \o u = s \o (t \o u)
LEMMA CatThree ==
  ASSUME NEW S, NEW s \in Seq(S), NEW t \in Seq(S), NEW u \in Seq(S)
  PROVE  Rejoins(s, t, u)
  BY ConcatAssociative DEF Rejoins

\* The first i are a beginning of the first k.
IsBeginning(S, f, i, k) ==
  /\ f[i] \in Seq(S) /\ f[k] \in Seq(S) /\ Len(f[i]) <= Len(f[k])
  /\ \A j \in 1..Len(f[i]) : f[k][j] = f[i][j]
LEMMA JoinedBegins ==
  ASSUME NEW S, NEW ss \in Seq(Seq(S)), NEW f, Joined(S, ss, f),
         NEW i \in 0..Len(ss), NEW k \in 0..Len(ss), i <= k
  PROVE  IsBeginning(S, f, i, k)
<1> DEFINE n == Len(ss)
           Begins(a) == /\ Len(f[i]) <= Len(f[a])
                        /\ \A j \in 1..Len(f[i]) : f[a][j] = f[i][j]
           T == {a \in 0..n : i <= a => Begins(a)}
<1>1. n \in Nat /\ i \in Nat /\ k \in Nat /\ f \in [0..n -> Seq(S)]
  BY DEF Joined
<1>6. \A x \in 0..n : f[x] \in Seq(S)
  BY <1>1, Zenon
<1>2. 0 \in T
  BY <1>1
<1>3. ASSUME NEW a \in Nat, a < n, a \in T
      PROVE  a + 1 \in T
  <2>1. a + 1 \in 1..n /\ a + 1 \in 0..n /\ a \in 0..n /\ (a + 1) - 1 = a
    BY <1>1, <1>3
  <2>2. ASSUME i <= a + 1
        PROVE  Begins(a + 1)
    <3>1. CASE i = a + 1
      BY <1>1, <3>1
    <3>2. CASE i # a + 1
      <4>1. Begins(a)
        BY <1>1, <1>3, <2>2, <3>2
      <4>2. f[a + 1] = f[a] \o ss[a + 1]
        BY <2>1 DEF Joined
      <4>3. f[a] \in Seq(S) /\ ss[a + 1] \in Seq(S) /\ f[i] \in Seq(S)
        <5>1. i \in 0..n
          OBVIOUS
        <5>2. f[a] \in Seq(S) /\ f[i] \in Seq(S)
          BY <1>6, <2>1, <5>1
        <5>3. ss[a + 1] \in Seq(S)
          BY ONLY ss \in Seq(Seq(S)), <2>1, ElementOfSeq DEF n
        <5> QED
          BY ONLY <5>2, <5>3
      <4>4. /\ Len(f[a + 1]) = Len(f[a]) + Len(ss[a + 1])
            /\ \A j \in 1..Len(f[a]) : f[a + 1][j] = f[a][j]
        <5>1. IsCat(S, f[a], ss[a + 1])
          BY ONLY <4>3, CatParts
        <5> QED
          BY ONLY <4>2, <5>1 DEF IsCat
      <4>5. Len(f[a]) \in Nat /\ Len(f[i]) \in Nat /\ Len(ss[a + 1]) \in Nat
        BY <4>3, LenProperties
      <4>6. Len(f[i]) <= Len(f[a + 1])
        <5> DEFINE p == Len(f[i])
                   q == Len(f[a])
                   u == Len(ss[a + 1])
                   v == Len(f[a + 1])
        <5>1. p <= q
          BY <4>1
        <5>2. p \in Nat /\ q \in Nat /\ u \in Nat
          BY <4>5
        <5>3. v = q + u
          BY <4>4
        <5> HIDE DEF p, q, u, v
        <5>4. p <= v
          BY <5>1, <5>2, <5>3
        <5> QED
          BY <5>4 DEF p, v
      <4>7. \A j \in 1..Len(f[i]) : j \in 1..Len(f[a])
        BY <4>1, <4>5
      <4> QED
        BY <4>1, <4>4, <4>6, <4>7
    <3> QED
      BY <3>1, <3>2
  <2> QED
    BY <2>1, <2>2
<1> HIDE DEF T
<1>4. \A a \in 0..n : a \in T
  BY ONLY <1>1, <1>2, <1>3, UpTo
<1>5. k \in T
  BY <1>4
<1>7. f[i] \in Seq(S) /\ f[k] \in Seq(S)
  BY <1>6
<1> QED
  BY <1>1, <1>5, <1>7 DEF T, IsBeginning

\* Those behind the first a, joined, are what follows them.
Follows(f, g, a, m) == \A i \in 0..m : f[a] \o g[i] = f[a + i]
LEMMA JoinedFollows ==
  ASSUME NEW S, NEW ss \in Seq(Seq(S)), NEW tt \in Seq(Seq(S)), NEW f, NEW g,
         Joined(S, ss, f), Joined(S, tt, g),
         NEW a \in Nat, a + Len(tt) <= Len(ss),
         \A i \in 1..Len(tt) : tt[i] = ss[a + i]
  PROVE  Follows(f, g, a, Len(tt))
<1> DEFINE n == Len(tt)
           T == {i \in 0..n : f[a] \o g[i] = f[a + i]}
<1>1. /\ n \in Nat /\ Len(ss) \in Nat /\ a \in 0..Len(ss)
      /\ f \in [0..Len(ss) -> Seq(S)] /\ g \in [0..n -> Seq(S)]
  BY DEF Joined
<1>5. (\A x \in 0..Len(ss) : f[x] \in Seq(S)) /\ (\A x \in 0..n : g[x] \in Seq(S))
  BY <1>1, Zenon
<1>2. 0 \in T
  <2>1. f[a] \in Seq(S) /\ g[0] = <<>> /\ 0 \in 0..n
    BY <1>1, <1>5 DEF Joined
  <2>2. f[a] \o <<>> = f[a] /\ a + 0 = a
    BY <2>1
  <2> QED
    BY <2>1, <2>2
<1>3. ASSUME NEW i \in Nat, i < n, i \in T
      PROVE  i + 1 \in T
  <2>1. /\ i + 1 \in 1..n /\ i + 1 \in 0..n /\ (i + 1) - 1 = i /\ i \in 0..n
        /\ a + (i + 1) \in 1..Len(ss) /\ (a + (i + 1)) - 1 = a + i
    BY <1>1, <1>3
  <2>2. g[i + 1] = g[i] \o tt[i + 1] /\ tt[i + 1] = ss[a + (i + 1)]
    BY <2>1 DEF Joined
  <2>3. f[a + (i + 1)] = f[a + i] \o ss[a + (i + 1)]
    BY <2>1 DEF Joined
  <2>4. f[a] \in Seq(S) /\ g[i] \in Seq(S) /\ tt[i + 1] \in Seq(S)
    <3>1. tt[i + 1] \in Seq(S)
      BY ONLY tt \in Seq(Seq(S)), <2>1, ElementOfSeq DEF n
    <3> QED
      BY <1>1, <1>5, <2>1, <3>1
  <2>5. f[a] \o (g[i] \o tt[i + 1]) = (f[a] \o g[i]) \o tt[i + 1]
    <3>1. Rejoins(f[a], g[i], tt[i + 1])
      BY ONLY <2>4, CatThree
    <3> QED
      BY ONLY <3>1 DEF Rejoins
  <2> QED
    BY <1>3, <2>1, <2>2, <2>3, <2>5
<1> HIDE DEF T
<1>4. \A i \in 0..n : i \in T
  BY ONLY <1>1, <1>2, <1>3, UpTo
<1> QED
  BY <1>4 DEF T, Follows

-----------------------------------------------------------------------------
(* The chunks of a manifest.                                               *)

\* The entries of a file: none is empty.
LEMMA EntriesAre ==
  ASSUME NEW r \in Request
  PROVE  /\ Entries[r] \in Seq(Nat \ {0}) /\ Len(Entries[r]) \in Nat
         /\ DOMAIN Entries[r] = 1..Len(Entries[r])
         /\ \A e \in 1..Len(Entries[r]) : Entries[r][e] \in Nat \ {0}
<1>1. Entries[r] \in Seq(Nat \ {0})
  BY FilesAssumption
<1> QED
  BY <1>1

\* The positions of the data of each entry.
EntryCells(r) == [e \in DOMAIN Entries[r] |-> [j \in 1..Entries[r][e] |-> Before(r, e) + 1 + j]]

LEMMA EntryCellsAre ==
  ASSUME NEW r \in Request
  PROVE  /\ EntryCells(r) \in Seq(Seq(Nat)) /\ Len(EntryCells(r)) = Len(Entries[r])
         /\ \A e \in 1..Len(Entries[r]) : EntryCells(r)[e] \in Seq(Nat) /\ Len(EntryCells(r)[e]) = Entries[r][e]
<1> DEFINE n == Len(Entries[r])
<1>1. n \in Nat /\ DOMAIN Entries[r] = 1..n /\ \A e \in 1..n : Entries[r][e] \in Nat \ {0}
  BY EntriesAre
<1>2. Steps(r)
  BY BeforeSteps
<1>3. ASSUME NEW e \in 1..n
      PROVE  EntryCells(r)[e] \in Seq(Nat) /\ Len(EntryCells(r)[e]) = Entries[r][e]
  <2> DEFINE c == [j \in 1..Entries[r][e] |-> Before(r, e) + 1 + j]
  <2>1. Before(r, e) \in Nat
    <3>1. e \in 1..(n + 1)
      BY <1>1
    <3> QED
      BY <1>2, <3>1 DEF Steps
  <2>2. Entries[r][e] \in Nat
    BY <1>1
  <2>3. c \in Seq(Nat) /\ Len(c) = Entries[r][e]
    BY <2>1, <2>2
  <2>4. EntryCells(r)[e] = c
    BY <1>1 DEF EntryCells
  <2> QED
    BY <2>3, <2>4
<1>4. EntryCells(r) = [e \in 1..n |-> EntryCells(r)[e]]
  BY <1>1 DEF EntryCells
<1> DEFINE cs == EntryCells(r)
<1> HIDE DEF cs, n
<1>5. cs \in Seq(Seq(Nat)) /\ Len(cs) = n
  BY <1>1, <1>3, <1>4 DEF cs
<1> QED
  BY <1>3, <1>5 DEF cs, n

\* Joined, the first e take what lies before the next but for the lengths.
LEMMA EntriesJoined ==
  ASSUME NEW r \in Request, NEW f, Joined(Nat, EntryCells(r), f),
         NEW e \in 0..Len(Entries[r])
  PROVE  Len(f[e]) = Before(r, e + 1) - (e + 1)
<1> DEFINE n == Len(Entries[r])
           T == {i \in 0..n : Len(f[i]) = Before(r, i + 1) - (i + 1)}
<1>1. /\ n \in Nat /\ Len(EntryCells(r)) = n
      /\ \A i \in 1..n : /\ EntryCells(r)[i] \in Seq(Nat)
                         /\ Len(EntryCells(r)[i]) = Entries[r][i] /\ Entries[r][i] \in Nat
  BY EntriesAre, EntryCellsAre
<1>2. Steps(r)
  BY BeforeSteps
<1>3. f \in [0..n -> Seq(Nat)] /\ f[0] = <<>> /\ \A i \in 1..n : f[i] = f[i - 1] \o EntryCells(r)[i]
  BY <1>1 DEF Joined
<1>4. \A x \in 0..n : f[x] \in Seq(Nat)
  BY <1>3, Zenon
<1>5. 0 \in T
  BY <1>1, <1>2, <1>3 DEF Steps
<1>6. ASSUME NEW i \in Nat, i < n, i \in T
      PROVE  i + 1 \in T
  <2>1. i + 1 \in 1..n /\ i + 1 \in 0..n /\ (i + 1) - 1 = i /\ i \in 0..n /\ i + 1 \in 1..(n + 1)
    BY <1>1, <1>6
  <2>2. f[i + 1] = f[i] \o EntryCells(r)[i + 1]
    BY <1>3, <2>1
  <2>3. IsCat(Nat, f[i], EntryCells(r)[i + 1])
    <3>1. f[i] \in Seq(Nat) /\ EntryCells(r)[i + 1] \in Seq(Nat)
      BY <1>1, <1>4, <2>1
    <3> QED
      BY ONLY <3>1, CatParts
  <2>4. Len(f[i + 1]) = Len(f[i]) + Len(EntryCells(r)[i + 1])
    BY ONLY <2>2, <2>3 DEF IsCat
  <2>5. /\ Len(EntryCells(r)[i + 1]) = Entries[r][i + 1] /\ Entries[r][i + 1] \in Nat
        /\ Before(r, (i + 1) + 1) = Before(r, i + 1) + Entries[r][i + 1] + 1
        /\ Before(r, i + 1) \in Nat
    BY <1>1, <1>2, <2>1 DEF Steps
  <2>6. Len(f[i]) = Before(r, i + 1) - (i + 1)
    BY <1>6
  <2>7. Len(f[i + 1]) = Before(r, (i + 1) + 1) - ((i + 1) + 1)
    <3> DEFINE p == Len(f[i])
               q == Len(f[i + 1])
               t == Before(r, i + 1)
               u == Before(r, (i + 1) + 1)
               w == Entries[r][i + 1]
    <3>1. q = p + w /\ w \in Nat /\ u = t + w + 1 /\ t \in Nat /\ p = t - (i + 1) /\ i \in Nat
      BY <2>4, <2>5, <2>6
    <3> HIDE DEF p, q, t, u, w
    <3>2. q = u - ((i + 1) + 1)
      BY ONLY <3>1
    <3> QED
      BY <3>2 DEF q, u
  <2> QED
    BY <2>1, <2>7
<1> HIDE DEF T
<1>7. \A i \in 0..n : i \in T
  BY ONLY <1>1, <1>5, <1>6, UpTo
<1>8. e \in T
  BY <1>7
<1> QED
  BY <1>8 DEF T

\* What a function adds up to on a set of one.
LEMMA SumOfOne ==
  ASSUME NEW w, NEW i, w[i] \in Nat
  PROVE  SumFunctionOnSet(w, {i}) = w[i]
<1> DEFINE Some(s) == CHOOSE x \in s : TRUE
           sums(g) == [s \in SUBSET {i} |-> IF s = {} THEN 0 ELSE w[Some(s)] + g[s \ {Some(s)}]]
           it == CHOOSE g : g = sums(g)
           h == [s \in SUBSET {i} |-> IF s = {} THEN 0 ELSE w[i]]
<1>1. \A s \in SUBSET {i} : s # {} => s = {i} /\ Some(s) = i /\ s \ {Some(s)} = {}
  OBVIOUS
<1>2. h = sums(h)
  <2>1. {} \in SUBSET {i} /\ h[{}] = 0
    OBVIOUS
  <2>2. \A s \in SUBSET {i} : h[s] = IF s = {} THEN 0 ELSE w[Some(s)] + h[s \ {Some(s)}]
    BY <1>1, <2>1
  <2> QED
    BY <2>2
<1>3. it = sums(it)
  BY <1>2
<1>4. SumFunctionOnSet(w, {i}) = it[{i}]
  BY DEF SumFunctionOnSet, FoldFunctionOnSet, MapThenFoldSet, Some
<1> HIDE DEF it
<1>5. {i} \in SUBSET {i} /\ {} \in SUBSET {i} /\ {i} # {}
  OBVIOUS
<1>6. it[{}] = 0
  BY <1>3, <1>5
<1>7. it[{i}] = w[i] + 0
  BY <1>1, <1>3, <1>5, <1>6
<1> QED
  BY <1>4, <1>7

\* A chunk of a manifest takes entries from the one it starts at to a later one.
LEMMA EntriesFit ==
  ASSUME NEW r \in Request, Kind[r] = "manifest", NEW o \in Starts(r)
  PROVE  \E a \in 1..Len(Entries[r]) : \E z \in a..Len(Entries[r]) :
           Before(r, a) = o /\ FitsFrom(r, o) = a..z
<1> DEFINE n == Len(Entries[r])
           a == CHOOSE e \in 1..n : Before(r, e) = o
           ends == {FILE_CHUNKSIZE, FileSize(r) - o}
           limit == Min(ends)
           X == {e \in a..n : SumFunctionOnSet(Entries[r], a..e) <= limit}
           Y == {a - 1} \cup X
           z == Max(Y)
<1>1. n \in Nat /\ DOMAIN Entries[r] = 1..n /\ \A e \in 1..n : Entries[r][e] \in Nat \ {0}
  BY EntriesAre
<1>2. Steps(r)
  BY BeforeSteps
<1>3. a \in 1..n /\ Before(r, a) = o
  <2>1. \E e \in 1..n : Before(r, e) = o
    BY <1>1 DEF Starts
  <2> QED
    BY <2>1
<1>4. FitsFrom(r, o) = a..z
  BY DEF FitsFrom
<1> HIDE DEF a
<1>5. Entries[r][a] <= limit
  <2>1. /\ a + 1 \in 1..(n + 1) /\ a \in 1..(n + 1) /\ n + 1 \in 1..(n + 1) /\ a \in Nat
    BY <1>1, <1>3
  <2>2. /\ Before(r, a + 1) = o + Entries[r][a] + 1 /\ o \in Nat
        /\ Before(r, a + 1) \in Nat /\ Before(r, n + 1) \in Nat
    BY <1>2, <1>3, <2>1 DEF Steps
  <2>3. Before(r, a + 1) <= Before(r, n + 1)
    <3>1. CASE a = n
      BY <2>2, <3>1
    <3>2. CASE a # n
      <4>1. a + 1 < n + 1
        BY <1>1, <1>3, <3>2
      <4>2. Before(r, a + 1) - (a + 1) < Before(r, n + 1) - (n + 1)
        BY <2>1, <4>1, StepsGrow
      <4> QED
        BY <1>1, <2>1, <2>2, <4>1, <4>2
    <3> QED
      BY <3>1, <3>2
  <2>4. FileSize(r) = Before(r, n + 1)
    BY DEF FileSize
  <2>5. Entries[r][a] <= FileSize(r) - o /\ FileSize(r) - o \in Nat
    BY <1>1, <1>3, <2>2, <2>3, <2>4
  <2>6. Entries[r][a] <= FILE_CHUNKSIZE /\ FILE_CHUNKSIZE \in Nat
    BY <1>1, <1>3, FilesAssumption
  <2>7. limit \in ends
    <3>1. ends \in SUBSET Nat /\ ends # {}
      BY <2>5, <2>6
    <3> HIDE DEF ends
    <3> QED
      BY <3>1, MinIsPlace
  <2> QED
    BY <2>5, <2>6, <2>7
<1> HIDE DEF limit
<1>6. a \in X
  <2>1. a..a = {a} /\ a \in a..n
    BY <1>1, <1>3
  <2>2. SumFunctionOnSet(Entries[r], {a}) = Entries[r][a]
    BY <1>1, <1>3, SumOfOne
  <2> QED
    BY <1>5, <2>1, <2>2
<1>7. X \in SUBSET (1..n)
  BY <1>1, <1>3
<1> HIDE DEF X
<1>8. Max(X) \in X /\ \A e \in X : Max(X) >= e
  BY <1>1, <1>6, <1>7, MaxIsPlace
<1>9. \A y \in Y : Max(X) >= y
  <2>1. Max(X) >= a /\ Max(X) \in Nat /\ a \in Nat
    <3>1. Max(X) >= a
      BY ONLY <1>6, <1>8
    <3>2. Max(X) \in 1..n
      BY ONLY <1>7, <1>8
    <3> QED
      BY ONLY <1>1, <1>3, <3>1, <3>2
  <2> QED
    BY <1>8, <2>1
<1>10. z \in Y /\ \A y \in Y : z >= y
  BY <1>8, <1>9 DEF Max
<1> HIDE DEF z
<1>11. z >= a
  BY <1>6, <1>10
<1>12. z \in X
  <2>1. z # a - 1
    BY <1>1, <1>3, <1>11
  <2> QED
    BY <1>10, <2>1
<1>13. z \in a..n
  BY <1>1, <1>3, <1>7, <1>11, <1>12
<1> QED
  BY <1>3, <1>4, <1>13

\* What a chunk that starts at o gives: the data from there, and where the next starts.
ChunkGives(r, o) ==
  /\ DataAt(r, o) \in Seq(Nat) /\ NextOffset(r, o) \in Places(r)
  /\ Place(r, o) \in Nat
  /\ Place(r, NextOffset(r, o)) = Place(r, o) + Len(DataAt(r, o))
  /\ Place(r, o) + Len(DataAt(r, o)) <= Len(WholeFile[r])
  /\ \A j \in 1..Len(DataAt(r, o)) : DataAt(r, o)[j] = WholeFile[r][Place(r, o) + j]
  /\ ~Complete(r, o) => Place(r, o) < Len(WholeFile[r])
  /\ WholeFile[r] \in Seq(Nat)

\* A file that is downloaded.
LEMMA DownloadGives ==
  ASSUME NEW r \in Request, Kind[r] = "download", NEW o \in Places(r)
  PROVE  ChunkGives(r, o) /\ 0 \in Places(r) /\ Place(r, 0) = 0 /\ o \in Nat
<1> DEFINE n == Size[r]
           ends == {FILE_CHUNKSIZE, n - o}
           m == Min(ends)
<1>1. /\ n \in Nat /\ FileSize(r) = n /\ Places(r) = 0..n /\ o \in 0..n
      /\ Starts(r) \cup {FileSize(r)} = 0..n /\ \A p : Place(r, p) = p
  <2>1. n \in Nat
    BY FilesAssumption
  <2>2. FileSize(r) = n /\ Starts(r) = 0..(n - 1) /\ \A p : Place(r, p) = p
    BY DEF FileSize, Starts, Place
  <2>3. 0..(n - 1) \cup {n} = 0..n
    BY <2>1
  <2> QED
    BY <2>1, <2>2, <2>3 DEF Places
<1>2. WholeFile[r] = [j \in 1..n |-> j]
  BY <1>1 DEF WholeFile
<1>3. WholeFile[r] \in Seq(Nat) /\ Len(WholeFile[r]) = n /\ \A j \in 1..n : WholeFile[r][j] = j
  BY <1>1, <1>2
<1>4. CASE Complete(r, o)
  <2>1. o = n
    BY <1>1, <1>4 DEF Complete
  <2>2. DataAt(r, o) = <<>> /\ NextOffset(r, o) = o
    BY <1>1, <1>4 DEF DataAt, NextOffset, ChunkAt
  <2> QED
    BY <1>1, <1>3, <1>4, <2>1, <2>2 DEF ChunkGives
<1>5. CASE ~Complete(r, o)
  <2>1. o < n
    BY <1>1, <1>5 DEF Complete
  <2>2. m \in 1..(n - o)
    <3>1. ends \in SUBSET Nat /\ ends # {}
      BY <1>1, <2>1, FilesAssumption
    <3> HIDE DEF m
    <3>2. m \in ends /\ \A e \in ends : m <= e
      <4> HIDE DEF ends
      <4> QED
        BY <3>1, MinIsPlace DEF m
    <3> QED
      BY <1>1, <2>1, <3>2, FilesAssumption
  <2>3. DataAt(r, o) = [j \in 1..m |-> o + j] /\ NextOffset(r, o) = o + m
    BY <1>1, <1>5 DEF DataAt, NextOffset, ChunkAt, PlainChunk
  <2> HIDE DEF m
  <2>4. /\ DataAt(r, o) \in Seq(Nat) /\ Len(DataAt(r, o)) = m
        /\ \A j \in 1..m : DataAt(r, o)[j] = o + j
    BY <1>1, <2>2, <2>3
  <2>5. o + m \in 0..n /\ o + m <= n /\ o \in Nat /\ \A j \in 1..m : o + j \in 1..n
    BY <1>1, <2>1, <2>2
  <2>6. Place(r, o) = o /\ Place(r, o + m) = o + m /\ o + m \in Places(r)
    BY <1>1, <2>5
  <2>7. \A j \in 1..m : DataAt(r, o)[j] = WholeFile[r][o + j]
    BY <1>3, <2>4, <2>5
  <2>8. ChunkGives(r, o)
    <3> DEFINE d == DataAt(r, o)
               w == WholeFile[r]
               x == NextOffset(r, o)
    <3>1. d \in Seq(Nat) /\ Len(d) = m /\ \A j \in 1..m : d[j] = w[o + j]
      BY <2>4, <2>7
    <3>2. w \in Seq(Nat) /\ Len(w) = n
      BY <1>3
    <3>3. x \in Places(r) /\ Place(r, o) = o /\ Place(r, x) = o + m
      BY <2>3, <2>6
    <3> HIDE DEF d, w, x, n
    <3>4. /\ Place(r, o) \in Nat /\ Place(r, x) = Place(r, o) + Len(d)
          /\ Place(r, o) + Len(d) <= Len(w) /\ Place(r, o) < Len(w)
      BY <2>1, <2>5, <3>1, <3>2, <3>3
    <3>5. \A j \in 1..Len(d) : d[j] = w[Place(r, o) + j]
      BY <3>1, <3>3
    <3> QED
      BY <3>1, <3>2, <3>3, <3>4, <3>5 DEF ChunkGives, d, w, x
  <2> QED
    BY <1>1, <2>8
<1> QED
  BY <1>1, <1>4, <1>5

\* The data of a chunk of a manifest: its entries, joined.
LEMMA EntriesTaken ==
  ASSUME NEW r \in Request, NEW o, NEW a \in 1..Len(Entries[r]), NEW z \in a..Len(Entries[r]),
         FitsFrom(r, o) = a..z
  PROVE  /\ ManifestChunk(r, o).data = FlattenSeq([i \in 1..(z - a + 1) |-> EntryCells(r)[a + i - 1]])
         /\ ManifestChunk(r, o).next = Before(r, z + 1)
<1> DEFINE n == Len(Entries[r])
           es == a..z
<1>1. n \in Nat /\ DOMAIN Entries[r] = 1..n
  BY EntriesAre
<1>2. Cardinality(es) = z - a + 1
  BY <1>1, FS_Interval
<1>3. Min(es) = a
  <2>0. a \in Nat /\ z \in Nat /\ a <= z
    BY <1>1
  <2>3. a \in es
    BY <2>0
  <2>4. es \in SUBSET Nat
    BY <2>0
  <2>1. es \in SUBSET Nat /\ es # {} /\ a \in es
    BY <2>3, <2>4
  <2>2. Min(es) \in es /\ \A e \in es : Min(es) <= e
    <3> HIDE DEF es
    <3> QED
      BY <2>1, MinIsPlace
  <2> QED
    BY <1>1, <2>1, <2>2
<1>4. Max(es) = z
  <2>1. es \in SUBSET (1..n) /\ es # {} /\ z \in es
    BY <1>1
  <2>2. Max(es) \in es /\ \A e \in es : Max(es) >= e
    <3> HIDE DEF es
    <3> QED
      BY <1>1, <2>1, MaxIsPlace
  <2> QED
    BY <1>1, <2>1, <2>2
<1>5. ASSUME NEW i \in 1..(z - a + 1)
      PROVE  [j \in 1..Entries[r][a + i - 1] |-> Before(r, a + i - 1) + 1 + j] = EntryCells(r)[a + i - 1]
  <2>1. a + i - 1 \in DOMAIN Entries[r]
    BY <1>1
  <2> QED
    BY <2>1 DEF EntryCells
<1> DEFINE ss == [i \in 1..(z - a + 1) |->
                    [j \in 1..Entries[r][a + i - 1] |-> Before(r, a + i - 1) + 1 + j]]
           tt == [i \in 1..(z - a + 1) |-> EntryCells(r)[a + i - 1]]
           c == [data |-> FlattenSeq(ss), next |-> Before(r, z + 1)]
<1>6. ManifestChunk(r, o) = c
  BY <1>2, <1>3, <1>4 DEF ManifestChunk
<1>7. ss = tt
  BY <1>5
<1> HIDE DEF ss, tt
<1>8. c.data = FlattenSeq(ss) /\ c.next = Before(r, z + 1)
  OBVIOUS
<1> HIDE DEF c
<1>9. ManifestChunk(r, o).data = FlattenSeq(tt) /\ ManifestChunk(r, o).next = Before(r, z + 1)
  BY <1>6, <1>7, <1>8
<1> QED
  BY <1>9 DEF tt

\* A manifest.
LEMMA ManifestGives ==
  ASSUME NEW r \in Request, Kind[r] = "manifest", NEW o \in Places(r)
  PROVE  ChunkGives(r, o) /\ o \in Nat
<1> DEFINE n == Len(Entries[r])
           B == EntryCells(r)
           w == WholeFile[r]
           d == DataAt(r, o)
           x == NextOffset(r, o)
<1>1. /\ n \in Nat /\ DOMAIN Entries[r] = 1..n /\ B \in Seq(Seq(Nat)) /\ Len(B) = n
      /\ FileSize(r) = Before(r, n + 1) /\ n + 1 \in 1..(n + 1)
      /\ Starts(r) = {Before(r, e) : e \in 1..n}
  <2>1. n \in Nat /\ DOMAIN Entries[r] = 1..n
    BY EntriesAre
  <2>2. B \in Seq(Seq(Nat)) /\ Len(B) = n
    BY EntryCellsAre
  <2>3. FileSize(r) = Before(r, n + 1) /\ Starts(r) = {Before(r, e) : e \in 1..n}
    BY <2>1 DEF FileSize, Starts
  <2> QED
    BY <2>1, <2>2, <2>3
<1>2. Steps(r)
  BY BeforeSteps
<1>3. w = FlattenSeq(B)
  BY DEF WholeFile, EntryCells
<1>4. PICK f : Joined(Nat, B, f) /\ FlattenSeq(B) = f[n]
  <2>1. \E f : Joined(Nat, B, f) /\ FlattenSeq(B) = f[Len(B)]
    BY ONLY <1>1, FlattenJoins
  <2> QED
    BY <1>1, <2>1
<1>5. \A e \in 0..n : f[e] \in Seq(Nat) /\ Len(f[e]) \in Nat /\ Len(f[e]) = Before(r, e + 1) - (e + 1)
  <2>1. \A e \in 0..n : f[e] \in Seq(Nat)
    <3>1. f \in [0..n -> Seq(Nat)]
      BY <1>1, <1>4 DEF Joined
    <3> QED
      BY <3>1, Zenon
  <2>2. \A e \in 0..n : Len(f[e]) \in Nat
    BY <2>1, LenProperties
  <2>3. \A e \in 0..n : Len(f[e]) = Before(r, e + 1) - (e + 1)
    BY <1>4, EntriesJoined
  <2> QED
    BY <2>1, <2>2, <2>3
<1> HIDE DEF B
<1>6. w \in Seq(Nat) /\ w = f[n] /\ Len(w) = Before(r, n + 1) - (n + 1)
  BY <1>1, <1>3, <1>4, <1>5
<1>7. PICK e \in 1..(n + 1) : o = Before(r, e)
  BY <1>1 DEF Places
<1>8. Place(r, o) = Before(r, e) - e /\ Place(r, o) \in Nat /\ o \in Nat
  BY <1>7, PlaceIs
<1>9. CASE Complete(r, o)
  <2>1. d = <<>> /\ x = o
    BY <1>9 DEF DataAt, NextOffset, ChunkAt, Places
  <2>2. e = n + 1
    <3>1. CASE e < n + 1
      <4>1. Before(r, e) - e < Before(r, n + 1) - (n + 1)
        BY <1>1, <3>1, StepsGrow
      <4>2. Before(r, e) \in Nat /\ Before(r, n + 1) \in Nat
        BY <1>1, <1>2 DEF Steps
      <4> QED
        BY <1>1, <1>7, <1>9, <3>1, <4>1, <4>2 DEF Complete
    <3> QED
      BY <1>1, <3>1
  <2>3. Place(r, o) = Len(w)
    BY <1>6, <1>8, <2>2
  <2>4. d \in Seq(Nat) /\ Len(d) = 0
    BY <2>1
  <2> HIDE DEF d, x, w
  <2> QED
    BY <1>6, <1>8, <1>9, <2>1, <2>3, <2>4 DEF ChunkGives, d, x, w
<1>10. CASE ~Complete(r, o)
  <2>1. o \in Starts(r)
    <3>1. o # FileSize(r)
      BY <1>8, <1>10 DEF Complete
    <3> QED
      BY <3>1 DEF Places
  <2>2. PICK a \in 1..n : \E z \in a..n : Before(r, a) = o /\ FitsFrom(r, o) = a..z
    BY <2>1, EntriesFit
  <2>3. PICK z \in a..n : Before(r, a) = o /\ FitsFrom(r, o) = a..z
    BY <2>2
  <2> DEFINE tt == [i \in 1..(z - a + 1) |-> EntryCells(r)[a + i - 1]]
  <2>4. d = FlattenSeq(tt) /\ x = Before(r, z + 1)
    <3>1. ManifestChunk(r, o).data = FlattenSeq(tt) /\ ManifestChunk(r, o).next = Before(r, z + 1)
      BY <2>2, <2>3, EntriesTaken
    <3>2. ChunkAt[r][o] = ManifestChunk(r, o)
      BY <1>10 DEF ChunkAt, Places
    <3> QED
      BY <3>1, <3>2 DEF DataAt, NextOffset
  <2>5. a \in Nat /\ z \in Nat /\ a - 1 \in Nat /\ z <= n /\ a <= z /\ a >= 1
    BY <1>1
  <2>6. tt \in Seq(Seq(Nat)) /\ Len(tt) = z - a + 1 /\ \A i \in 1..Len(tt) : tt[i] = B[(a - 1) + i]
    <3>1. ASSUME NEW i \in 1..(z - a + 1)
          PROVE  tt[i] = B[(a - 1) + i] /\ B[(a - 1) + i] \in Seq(Nat)
      <4>1. a + i - 1 = (a - 1) + i /\ (a - 1) + i \in 1..n
        BY <1>1, <2>5
      <4>2. (a - 1) + i \in 1..Len(B)
        BY <1>1, <4>1
      <4>3. B[(a - 1) + i] \in Seq(Nat)
        BY ONLY <1>1, <4>2, ElementOfSeq
      <4> QED
        BY <4>1, <4>3 DEF B
    <3>2. z - a + 1 \in Nat
      BY <2>5
    <3>3. \A i \in 1..(z - a + 1) : tt[i] \in Seq(Nat)
      BY <3>1
    <3>4. tt = [i \in 1..(z - a + 1) |-> tt[i]]
      OBVIOUS
    <3> HIDE DEF tt
    <3>5. tt \in Seq(Seq(Nat)) /\ Len(tt) = z - a + 1
      BY <3>2, <3>3, <3>4
    <3> QED
      BY <3>1, <3>5
  <2> HIDE DEF tt
  <2>7. PICK g : Joined(Nat, tt, g) /\ d = g[Len(tt)]
    <3>1. \E g : Joined(Nat, tt, g) /\ FlattenSeq(tt) = g[Len(tt)]
      BY ONLY <2>6, FlattenJoins
    <3> QED
      BY <2>4, <3>1
  <2>8. f[a - 1] \o d = f[z]
    <3>1. (a - 1) + Len(tt) <= Len(B) /\ (a - 1) + Len(tt) = z /\ Len(tt) \in 0..Len(tt)
      BY <1>1, <2>5, <2>6
    <3> DEFINE a1 == a - 1
    <3>4. a1 \in Nat /\ a1 + Len(tt) <= Len(B) /\ \A i \in 1..Len(tt) : tt[i] = B[a1 + i]
      BY <2>5, <2>6, <3>1
    <3> HIDE DEF a1
    <3>2. Follows(f, g, a1, Len(tt))
      BY ONLY <1>1, <1>4, <2>6, <2>7, <3>4, JoinedFollows
    <3>3. f[a - 1] \o g[Len(tt)] = f[(a - 1) + Len(tt)]
      BY ONLY <3>1, <3>2 DEF Follows, a1
    <3> QED
      BY <2>7, <3>1, <3>3
  <2>9. d \in Seq(Nat) /\ Len(d) \in Nat
    <3>1. g \in [0..Len(tt) -> Seq(Nat)] /\ Len(tt) \in 0..Len(tt)
      BY <2>5, <2>6, <2>7 DEF Joined
    <3>2. g[Len(tt)] \in Seq(Nat)
      BY <3>1, Zenon
    <3> QED
      BY <2>7, <3>2, LenProperties
  <2>10. a - 1 \in 0..n /\ z \in 0..n /\ n \in 0..n /\ (a - 1) + 1 = a
    BY <1>1, <2>5
  <2>11. Len(f[a - 1]) = Place(r, o)
    <3>1. e = a
      <4>1. ~(e < a) /\ ~(a < e)
        <5>1. a \in 1..(n + 1) /\ Before(r, a) = o /\ Before(r, e) = o
          BY <1>1, <1>7, <2>3
        <5>2. ~(e < a)
          BY <1>1, <1>8, <5>1, StepsGrow
        <5>3. ~(a < e)
          BY <1>1, <1>8, <5>1, StepsGrow
        <5> QED
          BY <5>2, <5>3
      <4> QED
        BY <1>1, <4>1
    <3> QED
      BY <1>5, <1>8, <2>10, <3>1
  <2>12. /\ Len(f[z]) = Place(r, o) + Len(d)
         /\ \A j \in 1..Len(d) : f[z][Place(r, o) + j] = d[j]
    <3>1. f[a - 1] \in Seq(Nat)
      BY <1>5, <2>10
    <3>2. IsCat(Nat, f[a - 1], d)
      BY ONLY <2>9, <3>1, CatParts
    <3> QED
      BY ONLY <2>8, <2>11, <3>2 DEF IsCat
  <2>13. /\ Len(f[z]) <= Len(w) /\ \A j \in 1..Len(f[z]) : w[j] = f[z][j]
    <3>1. z \in 0..Len(B) /\ n \in 0..Len(B)
      BY <1>1, <2>10
    <3>2. IsBeginning(Nat, f, z, n)
      BY ONLY <1>1, <1>4, <2>5, <3>1, JoinedBegins
    <3> QED
      BY ONLY <1>6, <3>2 DEF IsBeginning
  <2>14. \A j \in 1..Len(d) : d[j] = w[Place(r, o) + j]
    <3>1. ASSUME NEW j \in 1..Len(d)  PROVE d[j] = w[Place(r, o) + j]
      <4>1. Place(r, o) + j \in 1..Len(f[z])
        BY <1>8, <2>9, <2>12
      <4> QED
        BY <2>12, <2>13, <4>1
    <3> QED
      BY <3>1
  <2>15. x \in Places(r) /\ Place(r, x) = Len(f[z])
    <3>1. z + 1 \in 1..(n + 1)
      BY <1>1, <2>5
    <3>2. x \in Places(r)
      <4>1. CASE z = n
        BY <1>1, <2>4, <4>1 DEF Places
      <4>2. CASE z # n
        <5>1. z + 1 \in 1..n
          BY <1>1, <2>5, <4>2
        <5> QED
          BY <1>1, <2>4, <5>1 DEF Places
      <4> QED
        BY <4>1, <4>2
    <3>3. Place(r, x) = Before(r, z + 1) - (z + 1)
      BY <2>4, <3>1, PlaceIs
    <3> QED
      BY <1>5, <2>10, <3>2, <3>3
  <2>16. Place(r, o) < Len(w)
    <3>1. a < n + 1 /\ a \in 1..(n + 1)
      BY <1>1
    <3>2. Before(r, a) - a < Before(r, n + 1) - (n + 1)
      BY <1>1, <3>1, StepsGrow
    <3>3. Place(r, o) = Before(r, a) - a
      BY <2>3, <3>1, PlaceIs
    <3> QED
      BY <1>6, <3>2, <3>3
  <2>17. Place(r, o) + Len(d) <= Len(w) /\ Place(r, x) = Place(r, o) + Len(d)
    BY <2>12, <2>13, <2>15
  <2> HIDE DEF d, x, w
  <2> QED
    BY ONLY <1>6, <1>8, <2>9, <2>14, <2>15, <2>16, <2>17 DEF ChunkGives, d, x, w
<1> QED
  BY <1>8, <1>9, <1>10

\* Each chunk of each file.
FirstIs(r) ==
  /\ FirstOffset(r) \in Places(r) /\ Place(r, FirstOffset(r)) = 0
  /\ Kind[r] = "manifest" => ~Complete(r, FirstOffset(r))

LEMMA ChunksGive ==
  ASSUME NEW r \in Request, IsChunk(r)
  PROVE  FirstIs(r) /\ \A o \in Places(r) : ChunkGives(r, o) /\ o \in Nat
<1>1. CASE Kind[r] = "download"
  <2>1. FileSize(r) \in Places(r)
    BY DEF Places
  <2>2. 0 \in Places(r) /\ Place(r, 0) = 0
    BY <1>1, <2>1, DownloadGives
  <2>3. \A o \in Places(r) : ChunkGives(r, o) /\ o \in Nat
    BY <1>1, DownloadGives
  <2> QED
    BY <1>1, <2>2, <2>3 DEF FirstIs, FirstOffset
<1>2. CASE Kind[r] = "manifest"
  <2> DEFINE n == Len(Entries[r])
  <2>1. n \in Nat \ {0} /\ DOMAIN Entries[r] = 1..n
    <3>1. Entries[r] \in Seq(Nat \ {0}) /\ Entries[r] # <<>>
      BY <1>2, FilesAssumption
    <3> QED
      BY <3>1, EmptySeq
  <2>2. Steps(r)
    BY BeforeSteps
  <2>3. Before(r, 1) = 1 /\ 1 \in 1..(n + 1) /\ 1 \in 1..n /\ n + 1 \in 1..(n + 1)
    BY <2>1, <2>2 DEF Steps
  <2>4. Place(r, 1) = 0
    <3>1. Place(r, Before(r, 1)) = Before(r, 1) - 1
      BY <1>2, <2>3, PlaceIs
    <3> QED
      BY <2>3, <3>1
  <2>5. 1 \in Places(r)
    <3>1. Before(r, 1) \in Starts(r)
      BY <1>2, <2>1, <2>3 DEF Starts
    <3> QED
      BY <2>3, <3>1 DEF Places
  <2>6. ~Complete(r, 1)
    <3>1. Before(r, 1) - 1 < Before(r, n + 1) - (n + 1)
      BY <2>1, <2>3, StepsGrow
    <3>2. Before(r, n + 1) \in Nat
      BY <2>2, <2>3 DEF Steps
    <3>3. FileSize(r) = Before(r, n + 1)
      BY <1>2 DEF FileSize
    <3> QED
      BY <2>1, <2>3, <3>1, <3>2, <3>3 DEF Complete
  <2>7. \A o \in Places(r) : ChunkGives(r, o) /\ o \in Nat
    BY <1>2, ManifestGives
  <2> QED
    BY <1>2, <2>4, <2>5, <2>6, <2>7 DEF FirstIs, FirstOffset
<1> QED
  BY <1>1, <1>2 DEF IsChunk

-----------------------------------------------------------------------------
(* What is on its way to the client: replies, each with the place in its    *)
(* file that its chunk starts at, one behind the other.                     *)

Replies == [id : Request, at : Nat]
ChunkOf(m) == IF IsChunk(m.id) THEN DataAt(m.id, m.at) ELSE <<>>
Announced(m) == 1 + Len(ChunkOf(m)) + Trailer(m.id)
CellOf(m, c) ==
  IF c = 1 THEN <<m.id, "head", Announced(m)>>
  ELSE IF c <= 1 + Len(ChunkOf(m)) THEN <<m.id, "data", ChunkOf(m)[c - 1]>>
  ELSE <<m.id, "null", 0>>
CellType == Request \X {"head", "data", "null"} \X Nat

\* A reply that may be on its way.
Sendable(m) ==
  /\ m \in Replies
  /\ IsChunk(m.id) => m.at \in Places(m.id)
  /\ Kind[m.id] = "manifest" => ~Complete(m.id, m.at)

\* The replies fs end at the cells e.
Ends(fs, e) ==
  /\ fs \in Seq(Replies) /\ e \in [0..Len(fs) -> Nat] /\ e[0] = 0
  /\ \A i \in 1..Len(fs) : Sendable(fs[i]) /\ e[i] = e[i - 1] + Announced(fs[i])

\* The cells in the inbox are the first of them.
Begun(fs, e, in) ==
  /\ in \in Seq(CellType) /\ Len(in) <= e[Len(fs)]
  /\ \A i \in 1..Len(fs) : \A c \in 1..Announced(fs[i]) :
       e[i - 1] + c <= Len(in) => in[e[i - 1] + c] = CellOf(fs[i], c)

\* The queue holds the last of them, but for the cells of its first that are out.
QueueType == [id : Request, len : Nat, so : Nat]
Out(fs, e, in, q, i) == IF i = 1 THEN Len(in) - e[Len(fs) - Len(q)] ELSE 0
Queued(fs, e, in, q) ==
  /\ q \in Seq(QueueType) /\ Len(q) <= Len(fs)
  /\ e[Len(fs) - Len(q)] <= Len(in)
  /\ IF q = <<>> THEN Len(in) = e[Len(fs)] ELSE Len(in) < e[Len(fs) - Len(q) + 1]
  /\ \A i \in 1..Len(q) :
       LET m == fs[Len(fs) - Len(q) + i]
       IN /\ q[i].id = m.id /\ q[i].len = Announced(m)
          /\ q[i].so = Out(fs, e, in, q, i)
          /\ Kind[m.id] = "manifest" => q[i].so # Announced(m) - 1

-----------------------------------------------------------------------------
(* The invariant.  A request is in one place: asked for and not read, on    *)
(* its way to the client, acknowledged and not read, or nowhere.            *)

Stands(r, o) == \E i \in DOMAIN pending : pending[i] = [id |-> r, offset |-> o]

PendingInv ==
  /\ pending \in Seq([id : Request, offset : Nat])
  /\ \A i, j \in DOMAIN pending : pending[i].id = pending[j].id => i = j
  /\ \A i \in DOMAIN pending : /\ pending[i].id \in asked
                               /\ pending[i].offset \in Places(pending[i].id)

GotInv ==
  /\ asked \in SUBSET Request /\ open \in BOOLEAN /\ garbled = FALSE
  /\ got \in [Request -> Seq(Nat)]
  /\ \A r \in Request \ asked : got[r] = <<>>
  /\ \A r \in Request : IsChunk(r) =>
       /\ Len(got[r]) <= Len(WholeFile[r])
       /\ \A j \in 1..Len(got[r]) : got[r][j] = WholeFile[r][j]

AckInv(r) ==
  IsChunk(r) /\ \E o \in Places(r) : Stands(r, o) /\ Len(got[r]) = Place(r, NextOffset(r, o))
Sent(w) ==
  /\ w[2] \in asked
  /\ IF w[1] = "ask" THEN Of(w[2]) = {} /\ got[w[2]] = <<>> ELSE AckInv(w[2])
UpInv ==
  /\ up \in Seq({"ask", "ack"} \X Request)
  /\ \A i, j \in DOMAIN up : up[i][2] = up[j][2] => i = j
  /\ \A w \in ToSet(up) : Sent(w)

ReplyInv(fs) ==
  /\ \A i, j \in DOMAIN fs : fs[i].id = fs[j].id => i = j
  /\ \A i \in DOMAIN fs :
       /\ fs[i].id \in asked
       /\ \A u \in DOMAIN up : up[u][2] # fs[i].id
       /\ IsChunk(fs[i].id) =>
            Stands(fs[i].id, fs[i].at) /\ Len(got[fs[i].id]) = Place(fs[i].id, fs[i].at)

\* While a manifest is under way nothing else is.
AloneInv ==
  \A r \in asked : Kind[r] = "manifest" /\ ~Done(r) =>
    \A s \in Request \ {r} :
      /\ \A i \in DOMAIN up : up[i] # <<"ask", s>>
      /\ \A i \in DOMAIN msg_queue : msg_queue[i].id # s
      /\ IsChunk(s) /\ s \in asked => Done(s)

LineInv == \E fs, e : /\ Ends(fs, e) /\ Begun(fs, e, inbox) /\ ReplyInv(fs)
                      /\ open => Queued(fs, e, inbox, msg_queue)

\* No file is a manifest, or each is asked for alone, and written with its end.
Apart == (\A r \in Request : Kind[r] # "manifest") \/ (Alone /\ ~Split)

FileInv == PendingInv /\ GotInv /\ UpInv /\ AloneInv /\ LineInv

\* The cells of a reply.
CellsAre(m) ==
  /\ m \in Replies /\ m.id \in Request /\ Trailer(m.id) = IF Kind[m.id] = "manifest" THEN 2 ELSE 0
  /\ ChunkOf(m) \in Seq(Nat) /\ Len(ChunkOf(m)) \in Nat
  /\ Announced(m) = 1 + Len(ChunkOf(m)) + Trailer(m.id) /\ Announced(m) \in Nat \ {0}
  /\ \A c \in 1..Announced(m) : CellOf(m, c) \in CellType

LEMMA SendableCells ==
  ASSUME NEW m, Sendable(m)
  PROVE  CellsAre(m)
<1>1. m \in Replies /\ m.id \in Request
  BY DEF Sendable, Replies
<1>2. ChunkOf(m) \in Seq(Nat)
  <2>1. CASE IsChunk(m.id)
    <3>1. ChunkGives(m.id, m.at)
      BY <1>1, <2>1, ChunksGive DEF Sendable
    <3> QED
      BY <2>1, <3>1 DEF ChunkGives, ChunkOf
  <2>2. CASE ~IsChunk(m.id)
    BY <2>2 DEF ChunkOf
  <2> QED
    BY <2>1, <2>2
<1>3. /\ Trailer(m.id) = IF Kind[m.id] = "manifest" THEN 2 ELSE 0
      /\ Trailer(m.id) \in Nat
  BY DEF Trailer
<1>4. Len(ChunkOf(m)) \in Nat
  BY <1>2, LenProperties
<1>5. Announced(m) = 1 + Len(ChunkOf(m)) + Trailer(m.id) /\ Announced(m) \in Nat \ {0}
  BY <1>3, <1>4 DEF Announced
<1>6. ASSUME NEW c \in 1..Announced(m)
      PROVE  CellOf(m, c) \in CellType
  <2>1. CASE c = 1
    BY <1>1, <1>5, <2>1 DEF CellOf, CellType
  <2>2. CASE c # 1 /\ c <= 1 + Len(ChunkOf(m))
    <3>1. c - 1 \in 1..Len(ChunkOf(m))
      BY <1>4, <1>5, <2>2
    <3>2. ChunkOf(m)[c - 1] \in Nat
      BY ONLY <1>2, <3>1, ElementOfSeq
    <3> QED
      BY <1>1, <2>2, <3>2 DEF CellOf, CellType
  <2>3. CASE c # 1 /\ ~(c <= 1 + Len(ChunkOf(m)))
    BY <1>1, <2>3 DEF CellOf, CellType
  <2> QED
    BY <2>1, <2>2, <2>3
<1> QED
  BY <1>1, <1>2, <1>3, <1>4, <1>5, <1>6 DEF CellsAre

\* A reply m in the queue as y.
Waits(m, y) ==
  /\ Sendable(m) /\ y \in QueueType
  /\ y.id = m.id /\ y.len = Announced(m) /\ Data(m.id) = ChunkOf(m)
  /\ y.so < Announced(m)
  /\ Kind[m.id] = "manifest" => y.so # Announced(m) - 1

\* What is left of it to write.
LeftOf(m, y) == Announced(m) - y.so

\* fill_iovecs gives its next cells, of a reply other than a manifest's all.
FillsOne(m, y) ==
  /\ FillOne(y) \in Seq(CellType) /\ Len(FillOne(y)) <= LeftOf(m, y)
  /\ Kind[m.id] # "manifest" => Len(FillOne(y)) = LeftOf(m, y)
  /\ \A c \in 1..Len(FillOne(y)) : FillOne(y)[c] = CellOf(m, y.so + c)

\* The data cells of a reply.
LEMMA DataCellsAre ==
  ASSUME NEW m, NEW y, Waits(m, y)
  PROVE  /\ DataCells(m.id) \in Seq(CellType) /\ Len(DataCells(m.id)) = Len(ChunkOf(m))
         /\ \A c \in 1..Len(ChunkOf(m)) : DataCells(m.id)[c] = CellOf(m, 1 + c)
<1> DEFINE d == ChunkOf(m)
           r == m.id
           D == [i \in 1..Len(d) |-> <<r, "data", d[i]>>]
<1>1. CellsAre(m)
  BY SendableCells DEF Waits
<1>2. DataCells(r) = [i \in DOMAIN d |-> <<r, "data", d[i]>>]
  BY DEF DataCells, Waits
<1>3. d \in Seq(Nat) /\ Len(d) \in Nat /\ DOMAIN d = 1..Len(d) /\ r \in Request
  BY <1>1 DEF CellsAre
<1>4. \A i \in 1..Len(d) : d[i] \in Nat
  BY ONLY <1>3, ElementOfSeq
<1>5. DataCells(r) = D
  BY <1>2, <1>3
<1>6. \A c \in 1..Len(d) : D[c] = CellOf(m, 1 + c) /\ D[c] \in CellType
  <2>1. ASSUME NEW c \in 1..Len(d)
        PROVE  D[c] = CellOf(m, 1 + c) /\ D[c] \in CellType
    <3>1. 1 + c # 1 /\ 1 + c <= 1 + Len(d) /\ (1 + c) - 1 = c
      BY <1>3
    <3> QED
      BY <1>3, <1>4, <3>1 DEF CellOf, CellType
  <2> QED
    BY <2>1
<1> HIDE DEF d
<1>7. D \in Seq(CellType) /\ Len(D) = Len(d)
  BY <1>3, <1>6
<1> QED
  BY <1>5, <1>6, <1>7 DEF d

\* What follows the first k of a sequence.
LEMMA FromIs ==
  ASSUME NEW S, NEW s \in Seq(S), NEW k \in 0..Len(s)
  PROVE  /\ From(s, k) \in Seq(S) /\ Len(From(s, k)) = Len(s) - k
         /\ \A i \in 1..(Len(s) - k) : From(s, k)[i] = s[k + i]
<1>1. \A i \in (k + 1)..Len(s) : s[i] \in S
  BY ElementOfSeq
<1>2. Len(s) \in Nat
  BY LenProperties
<1>3. /\ SubSeq(s, k + 1, Len(s)) \in Seq(S)
      /\ Len(SubSeq(s, k + 1, Len(s))) = IF k + 1 <= Len(s) THEN Len(s) - (k + 1) + 1 ELSE 0
      /\ \A i \in 1..(Len(s) - (k + 1) + 1) : SubSeq(s, k + 1, Len(s))[i] = s[(k + 1) + i - 1]
  BY <1>1, <1>2, SubSeqProperties
<1> QED
  BY <1>2, <1>3 DEF From

\* The least and the greatest of two.
LEMMA MaxOfTwo ==
  ASSUME NEW x \in Int, x <= 0
  PROVE  Max({0, x}) = 0
  BY DEF Max

LEMMA NullsAre ==
  ASSUME NEW r \in Request
  PROVE  Nulls(r, 2) \in Seq(CellType) /\ Len(Nulls(r, 2)) = 2
         /\ \A c \in 1..2 : Nulls(r, 2)[c] = <<r, "null", 0>>
  BY DEF Nulls, CellType

LEMMA FillOneIs ==
  ASSUME NEW m, NEW y, Waits(m, y)
  PROVE  FillsOne(m, y)
<1> DEFINE d == ChunkOf(m)
           r == m.id
           D == DataCells(r)
           A == Announced(m)
           F == FillOne(y)
           t == Trailer(r)
<1>1. CellsAre(m)
  BY SendableCells DEF Waits
<1>2. /\ d \in Seq(Nat) /\ Len(d) \in Nat /\ r \in Request
      /\ A = 1 + Len(d) + t /\ t = IF Kind[r] = "manifest" THEN 2 ELSE 0
      /\ \A c \in 1..A : CellOf(m, c) \in CellType
  BY <1>1 DEF CellsAre
<1>3. D \in Seq(CellType) /\ Len(D) = Len(d) /\ \A c \in 1..Len(d) : D[c] = CellOf(m, 1 + c)
  BY DataCellsAre
<1>4. /\ y.id = r /\ y.len = A /\ Data(r) = d /\ y.so \in Nat /\ y.so < A
      /\ Kind[r] = "manifest" => y.so # A - 1
  BY DEF Waits, QueueType
<1>5. CellOf(m, 1) = <<r, "head", A>>
  BY DEF CellOf
<1>6. CASE y.so = 0
  <2> DEFINE H == <<<<r, "head", A>>>>
  <2>1. F = H \o D
    BY <1>4, <1>6 DEF FillOne
  <2>2. H \in Seq(CellType) /\ Len(H) = 1 /\ H[1] = CellOf(m, 1)
    <3>1. <<r, "head", A>> \in CellType
      BY <1>2, <1>4 DEF CellType
    <3> QED
      BY <1>5, <3>1
  <2> HIDE DEF H, D, F, d, A, t
  <2>3. IsCat(CellType, H, D)
    BY ONLY <1>3, <2>2, CatParts
  <2>4. /\ F \in Seq(CellType) /\ Len(F) = 1 + Len(d) /\ F[1] = CellOf(m, 1)
        /\ \A c \in 1..Len(d) : F[1 + c] = CellOf(m, 1 + c)
    BY <1>3, <2>1, <2>2, <2>3 DEF IsCat
  <2>5. \A c \in 1..Len(F) : F[c] = CellOf(m, y.so + c)
    <3>1. ASSUME NEW c \in 1..Len(F)
          PROVE  F[c] = CellOf(m, y.so + c)
      <4>1. CASE c = 1
        <5>1. y.so + c = 1
          BY <1>6, <4>1
        <5> QED
          BY <2>4, <4>1, <5>1
      <4>2. CASE c # 1
        <5>1. c - 1 \in 1..Len(d) /\ 1 + (c - 1) = c /\ y.so + c = c
          BY <1>2, <1>6, <2>4, <4>2
        <5>2. F[1 + (c - 1)] = CellOf(m, 1 + (c - 1))
          BY ONLY <2>4, <5>1
        <5> QED
          BY <5>1, <5>2
      <4> QED
        BY <4>1, <4>2
    <3> QED
      BY <3>1
  <2>6. Len(F) <= A - y.so /\ (Kind[r] # "manifest" => Len(F) = A - y.so)
    BY <1>2, <1>6, <2>4
  <2> QED
    BY <2>4, <2>5, <2>6 DEF FillsOne, LeftOf, F, A
<1>7. CASE y.so # 0
  <2> DEFINE k == y.so - 1
             over == Max({0, y.so - 1 - Len(Data(r))})
             B == From(D, k)
             N == Nulls(r, 2)
             E == IF Kind[r] = "manifest" THEN N ELSE <<>>
  <2>1. k \in Nat /\ k <= Len(d) /\ y.so = k + 1
    BY <1>2, <1>4, <1>7
  <2>2. over = 0
    <3>1. y.so - 1 - Len(Data(r)) \in Int /\ y.so - 1 - Len(Data(r)) <= 0
      BY <1>2, <1>4, <2>1
    <3> QED
      BY <3>1, MaxOfTwo
  <2>3. F = B \o E
    <3>1. F = From(DataCells(r), y.so - 1) \o (IF Kind[r] = "manifest" /\ over < 2 THEN Nulls(r, 2 - over) ELSE <<>>)
      BY <1>4, <1>7 DEF FillOne
    <3> HIDE DEF over
    <3> QED
      BY <2>2, <3>1
  <2>4. B \in Seq(CellType) /\ Len(B) = Len(d) - k /\ \A c \in 1..(Len(d) - k) : B[c] = CellOf(m, y.so + c)
    <3>1. k \in 0..Len(D)
      BY <1>2, <1>3, <2>1
    <3> HIDE DEF D, B
    <3>2. /\ B \in Seq(CellType) /\ Len(B) = Len(D) - k /\ \A c \in 1..(Len(D) - k) : B[c] = D[k + c]
      BY <1>3, <3>1, FromIs DEF B
    <3>3. \A c \in 1..(Len(d) - k) : k + c \in 1..Len(d) /\ 1 + (k + c) = y.so + c
      <4> HIDE DEF d, k
      <4>1. Len(d) \in Nat /\ k \in Nat /\ y.so = k + 1
        BY <1>2, <2>1
      <4> QED
        BY ONLY <4>1
    <3> QED
      BY <1>3, <3>2, <3>3
  <2>5. /\ E \in Seq(CellType) /\ Len(E) = t
        /\ \A c \in 1..t : E[c] = <<r, "null", 0>>
    <3>1. CASE Kind[r] = "manifest"
      <4> HIDE DEF N
      <4>1. N \in Seq(CellType) /\ Len(N) = 2 /\ \A c \in 1..2 : N[c] = <<r, "null", 0>>
        BY <1>2, NullsAre DEF N
      <4> QED
        BY <1>2, <3>1, <4>1
    <3>2. CASE Kind[r] # "manifest"
      BY <1>2, <3>2
    <3> QED
      BY <3>1, <3>2
  <2> HIDE DEF B, E, F, d, A, t, k, D
  <2>6. IsCat(CellType, B, E)
    BY ONLY <2>4, <2>5, CatParts
  <2>7. /\ F \in Seq(CellType) /\ Len(F) = (Len(d) - k) + t
        /\ \A c \in 1..(Len(d) - k) : F[c] = B[c]
        /\ \A c \in 1..t : F[(Len(d) - k) + c] = E[c]
    BY <2>3, <2>4, <2>5, <2>6 DEF IsCat
  <2>8. Len(F) = A - y.so
    BY <1>2, <2>1, <2>7
  <2>9. \A c \in 1..Len(F) : F[c] = CellOf(m, y.so + c)
    <3>1. ASSUME NEW c \in 1..Len(F)
          PROVE  F[c] = CellOf(m, y.so + c)
      <4>1. CASE c <= Len(d) - k
        <5>1. c \in 1..(Len(d) - k)
          BY <1>2, <2>1, <4>1
        <5> QED
          BY <2>4, <2>7, <5>1
      <4>2. CASE ~(c <= Len(d) - k)
        <5>1. c - (Len(d) - k) \in 1..t /\ (Len(d) - k) + (c - (Len(d) - k)) = c
          BY <1>2, <2>1, <2>7, <4>2
        <5>2. F[c] = <<r, "null", 0>>
          BY <2>5, <2>7, <5>1
        <5>3. y.so + c # 1 /\ ~(y.so + c <= 1 + Len(ChunkOf(m)))
          BY <1>2, <2>1, <4>2 DEF d
        <5>4. CellOf(m, y.so + c) = <<r, "null", 0>>
          BY <5>3 DEF CellOf
        <5> QED
          BY <5>2, <5>4
      <4> QED
        BY <4>1, <4>2
    <3> QED
      BY <3>1
  <2>10. Len(F) <= A - y.so
    BY <1>2, <1>4, <2>8
  <2> QED
    BY <2>7, <2>8, <2>9, <2>10 DEF FillsOne, LeftOf, F, A
<1> QED
  BY <1>6, <1>7

\* iovecs_written_bytes: it is done when as much is written as is left of it.
WritesOne(m, y, n) ==
  /\ WrittenOne(y, n)[1] <=> n >= LeftOf(m, y)
  /\ n >= LeftOf(m, y) => WrittenOne(y, n)[2] = n - LeftOf(m, y)

LEMMA WrittenOneIs ==
  ASSUME NEW m, NEW y, Waits(m, y), NEW n \in Nat, n > 0
  PROVE  WritesOne(m, y, n)
<1> DEFINE d == ChunkOf(m)
           r == m.id
           A == Announced(m)
           t == Trailer(r)
           k == Len(d)
           n1 == IF y.so = 0 THEN n - 1 ELSE n
           d1 == IF y.so = 0 THEN 0 ELSE y.so - 1
           left == IF d1 >= k THEN n1 ELSE n1 - (k - d1)
           w == IF ~IsChunk(r) THEN <<TRUE, n1>>
                ELSE IF left < 0 THEN <<FALSE, 0>>
                ELSE IF Kind[r] = "manifest" THEN <<left >= 2, left - 2>>
                ELSE <<TRUE, left>>
<1>1. CellsAre(m)
  BY SendableCells DEF Waits
<1>2. /\ k \in Nat /\ A = 1 + k + t /\ t = IF Kind[r] = "manifest" THEN 2 ELSE 0
  BY <1>1 DEF CellsAre
<1>3. /\ y.id = r /\ Data(r) = d /\ y.so \in Nat /\ y.so < A
      /\ Kind[r] = "manifest" => y.so # A - 1
  BY DEF Waits, QueueType
<1>4. WrittenOne(y, n) = w
  BY <1>3 DEF WrittenOne
<1>5. ~IsChunk(r) => k = 0 /\ t = 0
  BY <1>2 DEF ChunkOf, IsChunk
<1> HIDE DEF k, A, t
<1>6. left = n - (1 + k - y.so)
  <2>1. y.so <= 1 + k
    BY <1>2, <1>3
  <2> QED
    BY <1>2, <1>3, <2>1
<1>7. ~IsChunk(r) => n1 = n - 1 /\ y.so = 0 /\ A = 1
  BY <1>2, <1>3, <1>5
<1>8. left \in Int /\ n1 \in Int
  BY <1>2, <1>3
<1> HIDE DEF left, n1
<1>9. CASE ~IsChunk(r)
  <2>1. w[1] = TRUE /\ w[2] = n1
    BY <1>9
  <2>2. A - y.so = 1
    BY <1>7, <1>9
  <2> HIDE DEF w
  <2> QED
    BY <1>4, <1>7, <1>9, <2>1, <2>2 DEF WritesOne, LeftOf, A
<1>10. CASE IsChunk(r) /\ left < 0
  <2>1. w[1] = FALSE
    BY <1>10
  <2>2. ~(n >= A - y.so)
    BY <1>2, <1>3, <1>6, <1>10
  <2> HIDE DEF w
  <2> QED
    BY <1>4, <2>1, <2>2 DEF WritesOne, LeftOf, A
<1>11. CASE IsChunk(r) /\ ~(left < 0) /\ Kind[r] = "manifest"
  <2>1. w[1] = (left >= 2) /\ w[2] = left - 2
    BY <1>11
  <2>2. left >= 2 <=> n >= A - y.so
    BY <1>2, <1>3, <1>6, <1>11
  <2>3. left - 2 = n - (A - y.so)
    BY <1>2, <1>3, <1>6, <1>11
  <2> HIDE DEF w
  <2> QED
    BY <1>4, <2>1, <2>2, <2>3 DEF WritesOne, LeftOf, A
<1>12. CASE IsChunk(r) /\ ~(left < 0) /\ Kind[r] # "manifest"
  <2>1. w[1] = TRUE /\ w[2] = left
    BY <1>12
  <2>2. n >= A - y.so /\ left = n - (A - y.so)
    BY <1>2, <1>3, <1>6, <1>8, <1>12
  <2> HIDE DEF w
  <2> QED
    BY <1>4, <2>1, <2>2 DEF WritesOne, LeftOf, A
<1> QED
  BY <1>9, <1>10, <1>11, <1>12

-----------------------------------------------------------------------------
(* A write takes its cells from reply after reply.                         *)

WriteState == [n : Int, kept : Seq(QueueType)]

\* What becomes of a reply y when a.n cells are left to account for.
TakesOne(m, y, a, b) ==
  /\ b \in WriteState
  /\ a.n <= 0 => b.n = a.n /\ b.kept = Append(a.kept, y)
  /\ a.n > 0 /\ a.n >= LeftOf(m, y) => b.n = a.n - LeftOf(m, y) /\ b.kept = a.kept
  /\ a.n > 0 /\ a.n < LeftOf(m, y) =>
       b.n = 0 /\ b.kept = Append(a.kept, [id |-> y.id, len |-> y.len, so |-> y.so + a.n])

LEMMA OneWrittenIs ==
  ASSUME NEW m, NEW y, Waits(m, y), NEW a \in WriteState
  PROVE  TakesOne(m, y, a, OneWritten(a, y))
<1> DEFINE b == OneWritten(a, y)
           z == [y EXCEPT !.so = @ + a.n]
           w == WrittenOne(y, a.n)
           R == LeftOf(m, y)
<1>1. /\ a.n \in Int /\ a.kept \in Seq(QueueType) /\ a = [n |-> a.n, kept |-> a.kept]
      /\ y \in QueueType /\ y = [id |-> y.id, len |-> y.len, so |-> y.so]
      /\ y.so \in Nat
  BY DEF WriteState, Waits, QueueType
<1>2. R \in Nat \ {0}
  <2>1. CellsAre(m)
    BY SendableCells DEF Waits
  <2> QED
    BY <1>1, <2>1 DEF CellsAre, LeftOf, Waits
<1>3. z = [id |-> y.id, len |-> y.len, so |-> y.so + a.n]
  BY <1>1
<1>4. Append(a.kept, y) \in Seq(QueueType)
  BY <1>1, AppendProperties
<1>5. CASE a.n <= 0
  <2>1. b = [a EXCEPT !.kept = Append(@, y)]
    BY <1>5 DEF OneWritten
  <2>2. b = [n |-> a.n, kept |-> Append(a.kept, y)]
    BY <1>1, <2>1
  <2>3. b \in WriteState /\ b.n = a.n /\ b.kept = Append(a.kept, y)
    BY <1>1, <1>4, <2>2 DEF WriteState
  <2> HIDE DEF b
  <2> QED
    BY <1>1, <1>5, <2>3 DEF TakesOne, b
<1>6. CASE a.n > 0 /\ a.n >= R
  <2>1. WritesOne(m, y, a.n)
    BY <1>1, <1>6, WrittenOneIs
  <2>2. w[1] /\ w[2] = a.n - R
    BY <1>6, <2>1 DEF WritesOne
  <2>3. ~(a.n <= 0)
    BY <1>1, <1>6
  <2>4. b = [a EXCEPT !.n = w[2]]
    BY <2>2, <2>3 DEF OneWritten
  <2> HIDE DEF w, R
  <2>5. b = [n |-> a.n - R, kept |-> a.kept]
    BY <1>1, <2>2, <2>4
  <2>6. b \in WriteState /\ b.n = a.n - R /\ b.kept = a.kept
    BY <1>1, <1>2, <2>5 DEF WriteState
  <2>7. ~(a.n < R)
    BY <1>1, <1>2, <1>6
  <2> HIDE DEF b
  <2> QED
    BY <2>3, <2>6, <2>7 DEF TakesOne, b, R
<1>7. CASE a.n > 0 /\ a.n < R
  <2>1. WritesOne(m, y, a.n)
    BY <1>1, <1>7, WrittenOneIs
  <2>2. ~(a.n >= R) /\ ~(a.n <= 0)
    BY <1>1, <1>2, <1>7
  <2>3. ~w[1]
    BY <2>1, <2>2 DEF WritesOne
  <2>4. b = [n |-> 0, kept |-> Append(a.kept, z)]
    BY <2>2, <2>3 DEF OneWritten
  <2>5. z \in QueueType
    BY <1>1, <1>3, <1>7 DEF QueueType
  <2> HIDE DEF z
  <2>6. Append(a.kept, z) \in Seq(QueueType)
    BY <1>1, <2>5, AppendProperties
  <2>7. b \in WriteState /\ b.n = 0 /\ b.kept = Append(a.kept, z)
    BY <2>4, <2>6 DEF WriteState
  <2> HIDE DEF b, R
  <2> QED
    BY <1>3, <2>2, <2>7 DEF TakesOne, b, R
<1> QED
  BY <1>1, <1>2, <1>5, <1>6, <1>7

\* f[i] is what the first i replies leave.
WritesOn(f, q, n) ==
  /\ f \in [0..Len(q) -> WriteState] /\ f[0] = [n |-> n, kept |-> <<>>]
  /\ \A i \in 1..Len(q) : f[i] = OneWritten(f[i - 1], q[i])

LEMMA WrittenInOrder ==
  ASSUME NEW ms, NEW q \in Seq(QueueType), \A i \in 1..Len(q) : Waits(ms[i], q[i]),
         NEW n \in Nat
  PROVE  \E f : Written(q, n) = f[Len(q)].kept /\ WritesOn(f, q, n)
<1> DEFINE L == Len(q)
           X == WriteState
           b == [n |-> n, kept |-> <<>>]
           Step(f) == [s \in SUBSET (1..L) |->
                         IF s = {} THEN b ELSE OneWritten(f[s \ {Max(s)}], q[Max(s)])]
           it == CHOOSE f : f = Step(f)
           F == [p \in X \X (1..L) |-> OneWritten(p[1], q[p[2]])]
           h == [k \in 0..L |-> it[1..k]]
<1>0. L \in Nat /\ DOMAIN q = 1..L
  BY LenProperties
<1>1. Written(q, n) = it[1..L].kept
  BY <1>0 DEF Written, FoldLeft, MapThenFoldSet, OneWritten
<1>2. b \in X
  BY EmptySeq DEF WriteState
<1>3. ASSUME NEW i \in 1..L, NEW x \in X
      PROVE  OneWritten(x, q[i]) \in X
  <2>1. TakesOne(ms[i], q[i], x, OneWritten(x, q[i]))
    BY OneWrittenIs
  <2> QED
    BY <2>1 DEF TakesOne
<1>4. PICK f : IsFold(L, X, b, F, f)
  <2>1. \A k \in 1..L : \A x \in X : F[<<x, k>>] \in X
    BY <1>3
  <2> HIDE DEF F, X, L, b
  <2> QED
    BY ONLY <1>0, <1>2, <2>1, FoldExists
<1>5. f = Step(f)
  <2>1. ASSUME NEW s \in SUBSET (1..L), s # {}
        PROVE  f[s] = OneWritten(f[s \ {Max(s)}], q[Max(s)])
    <3>1. Max(s) \in 1..L
      BY <1>0, <2>1, MaxIsPlace
    <3>2. s \ {Max(s)} \in SUBSET (1..L)
      BY <3>1
    <3>3. f[s \ {Max(s)}] \in X
      BY <1>4, <3>2 DEF IsFold
    <3> HIDE DEF X
    <3>4. f[s] = F[<<f[s \ {Max(s)}], Max(s)>>]
      BY <1>4, <2>1 DEF IsFold
    <3>5. <<f[s \ {Max(s)}], Max(s)>> \in X \X (1..L)
      BY <3>1, <3>3
    <3>6. F[<<f[s \ {Max(s)}], Max(s)>>] = OneWritten(f[s \ {Max(s)}], q[Max(s)])
      BY <3>5
    <3> QED
      BY <3>4, <3>6
  <2>2. f \in [SUBSET (1..L) -> X] /\ f[{}] = b
    BY <1>4 DEF IsFold
  <2> HIDE DEF X, b, L
  <2> QED
    BY <2>1, <2>2
<1>6. it = Step(it)
  <2> HIDE DEF Step
  <2> QED
    BY <1>5
<1>7. h[L] = it[1..L]
  BY <1>0
<1>8. h[0] = b
  <2>1. it[{}] = b
    <3> HIDE DEF it, b
    <3> QED
      BY <1>6
  <2> HIDE DEF it, b, L
  <2> QED
    BY <1>0, <2>1, 1..0 = {}
<1>9. ASSUME NEW i \in 1..L  PROVE h[i] = OneWritten(h[i - 1], q[i])
  <2>1. it[1..i] = OneWritten(it[1..(i - 1)], q[i])
    <3> HIDE DEF it
    <3>1. Max(1..i) = i /\ (1..i) \ {i} = 1..(i - 1) /\ 1..i # {} /\ 1..i \in SUBSET (1..L)
      BY <1>0, PlacesUpTo
    <3> HIDE DEF b, L
    <3> QED
      BY <1>6, <3>1
  <2>2. i \in 0..L /\ i - 1 \in 0..L
    BY <1>0
  <2> HIDE DEF it, L
  <2> QED
    BY <2>1, <2>2
<1>10. \A i \in 0..L : h[i] \in X
  <2> DEFINE T == {i \in 0..L : h[i] \in X}
  <2> HIDE DEF h, X, L, b
  <2>1. 0 \in T
    BY <1>0, <1>2, <1>8
  <2>2. ASSUME NEW i \in Nat, i < L, i \in T  PROVE i + 1 \in T
    <3>1. i + 1 \in 1..L /\ (i + 1) - 1 = i /\ h[i] \in X /\ i + 1 \in 0..L
      BY <1>0, <2>2
    <3>2. h[i + 1] = OneWritten(h[i], q[i + 1])
      BY <1>9, <3>1
    <3>3. OneWritten(h[i], q[i + 1]) \in X
      BY ONLY <1>3, <3>1
    <3> QED
      BY <3>1, <3>2, <3>3
  <2> HIDE DEF T
  <2>4. \A i \in 0..L : i \in T
    BY ONLY <1>0, <2>1, <2>2, UpTo
  <2> QED
    BY <2>4 DEF T
<1>11. h \in [0..L -> X]
  <2>1. h = [k \in 0..L |-> h[k]]
    OBVIOUS
  <2> HIDE DEF h, X
  <2> QED
    BY <1>10, <2>1
<1> HIDE DEF h, it, b
<1>12. WritesOn(h, q, n)
  BY <1>8, <1>9, <1>11 DEF WritesOn, b
<1> QED
  BY <1>1, <1>7, <1>12

\* The replies ms wait in the queue q; what is left of them starts and ends at st.
Line(ms, q, st) ==
  /\ q \in Seq(QueueType) /\ Len(q) \in Nat /\ st \in [0..Len(q) -> Nat]
  /\ \A i \in 1..Len(q) :
       /\ Waits(ms[i], q[i]) /\ LeftOf(ms[i], q[i]) \in Nat \ {0}
       /\ st[i] = st[i - 1] + LeftOf(ms[i], q[i])
       /\ Kind[ms[i].id] = "manifest" => Len(q) = 1

LEMMA LineRises ==
  ASSUME NEW ms, NEW q, NEW st, Line(ms, q, st), NEW i \in 0..Len(q), NEW k \in 0..Len(q), i <= k
  PROVE  st[i] <= st[k] /\ st[i] \in Nat /\ st[k] \in Nat
<1> DEFINE L == Len(q)
           T == {a \in 0..L : i <= a => st[i] <= st[a]}
<1>1. L \in Nat /\ (\A a \in 0..L : st[a] \in Nat) /\ i \in Nat /\ k \in Nat
  BY DEF Line
<1>2. 0 \in T
  BY <1>1
<1>3. ASSUME NEW a \in Nat, a < L, a \in T
      PROVE  a + 1 \in T
  <2>1. a + 1 \in 1..L /\ (a + 1) - 1 = a /\ a + 1 \in 0..L /\ a \in 0..L
    BY <1>1, <1>3
  <2>2. st[a + 1] = st[a] + LeftOf(ms[a + 1], q[a + 1]) /\ LeftOf(ms[a + 1], q[a + 1]) \in Nat
    BY <2>1 DEF Line
  <2>3. CASE i = a + 1
    BY <1>1, <2>1, <2>3
  <2>4. CASE i <= a
    <3>1. st[i] <= st[a] /\ st[i] \in Nat /\ st[a] \in Nat
      BY <1>1, <1>3, <2>1, <2>4
    <3> QED
      BY <2>1, <2>2, <3>1
  <2>5. CASE ~(i <= a + 1)
    BY <2>1, <2>5
  <2> QED
    BY <1>1, <2>3, <2>4, <2>5
<1> HIDE DEF T
<1>4. \A a \in 0..L : a \in T
  BY ONLY <1>1, <1>2, <1>3, UpTo
<1>5. k \in T
  BY <1>4
<1> QED
  BY <1>1, <1>5 DEF T

\* The cells of the first i that are to be written.
FillsUp(ms, q, st, F, i) ==
  /\ F \in Seq(CellType) /\ Len(F) \in Nat /\ st[0] + Len(F) <= st[i]
  /\ \A t \in 1..i : \A c \in 1..LeftOf(ms[t], q[t]) :
       st[t - 1] + c <= st[0] + Len(F) =>
         F[(st[t - 1] - st[0]) + c] = CellOf(ms[t], q[t].so + c)

\* fill_iovecs of one reply more.
LEMMA FillsMore ==
  ASSUME NEW ms, NEW q, NEW st, Line(ms, q, st), NEW F, NEW i \in Nat, i < Len(q),
         FillsUp(ms, q, st, F, i), st[0] + Len(F) = st[i]
  PROVE  /\ FillsUp(ms, q, st, F \o FillOne(q[i + 1]), i + 1)
         /\ i + 1 < Len(q) => st[0] + Len(F \o FillOne(q[i + 1])) = st[i + 1]
<1> DEFINE L == Len(q)
           m == ms[i + 1]
           y == q[i + 1]
           G == FillOne(y)
           H == F \o G
           R == LeftOf(m, y)
<1>1. /\ L \in Nat /\ i + 1 \in 1..L /\ (i + 1) - 1 = i /\ i \in 0..L /\ i + 1 \in 0..L /\ 0 \in 0..L
  BY DEF Line
<1>2. /\ Waits(m, y) /\ R \in Nat \ {0} /\ st[i + 1] = st[i] + R
      /\ Kind[m.id] = "manifest" => L = 1
  BY <1>1 DEF Line
<1>3. st[i] \in Nat /\ st[0] \in Nat /\ st[i + 1] \in Nat
  BY <1>1 DEF Line
<1>4. /\ G \in Seq(CellType) /\ Len(G) <= R
      /\ Kind[m.id] # "manifest" => Len(G) = R
      /\ \A c \in 1..Len(G) : G[c] = CellOf(m, y.so + c)
  BY <1>2, FillOneIs DEF FillsOne
<1>5. F \in Seq(CellType) /\ Len(F) \in Nat /\ Len(F) = st[i] - st[0]
  BY <1>3 DEF FillsUp
<1> HIDE DEF G
<1>6. IsCat(CellType, F, G)
  BY ONLY <1>4, <1>5, CatParts
<1>7. /\ H \in Seq(CellType) /\ Len(H) = Len(F) + Len(G) /\ Len(G) \in Nat
      /\ \A c \in 1..Len(F) : H[c] = F[c]
      /\ \A c \in 1..Len(G) : H[Len(F) + c] = G[c]
  BY ONLY <1>6 DEF IsCat
<1> HIDE DEF H, R, m, y, L
<1>8. st[0] + Len(H) <= st[i + 1] /\ Len(H) \in Nat
  BY <1>2, <1>3, <1>4, <1>5, <1>7
<1>9. ASSUME i + 1 < L
      PROVE  st[0] + Len(H) = st[i + 1]
  <2>1. Len(G) = R
    BY <1>1, <1>2, <1>4, <1>9
  <2> QED
    BY <1>2, <1>3, <1>5, <1>7, <2>1
<1>10. ASSUME NEW t \in 1..(i + 1), NEW c \in 1..LeftOf(ms[t], q[t]),
              st[t - 1] + c <= st[0] + Len(H)
       PROVE  H[(st[t - 1] - st[0]) + c] = CellOf(ms[t], q[t].so + c)
  <2>1. CASE t = i + 1
    <3>1. t - 1 = i /\ c \in Nat /\ c >= 1
      BY <1>1, <2>1
    <3>2. (st[t - 1] - st[0]) + c = Len(F) + c /\ c \in 1..Len(G)
      <4>1. st[t - 1] = st[i] /\ st[i] + c <= st[0] + Len(H)
        BY <1>10, <3>1
      <4> QED
        BY ONLY <1>3, <1>5, <1>7, <3>1, <4>1
    <3>3. G[c] = CellOf(m, y.so + c)
      BY <1>4, <3>2
    <3> QED
      BY <1>7, <2>1, <3>2, <3>3 DEF m, y
  <2>2. CASE t # i + 1
    <3>1. t \in 1..i /\ t \in 1..L /\ t - 1 \in 0..L /\ t \in 0..L /\ t <= i /\ 0 <= t - 1
      BY <1>1, <2>2
    <3>2. /\ LeftOf(ms[t], q[t]) \in Nat /\ st[t] = st[t - 1] + LeftOf(ms[t], q[t])
      BY <3>1 DEF Line, L
    <3>3. st[t] <= st[i] /\ st[0] <= st[t - 1] /\ st[t - 1] \in Nat /\ st[t] \in Nat
      BY <1>1, <3>1, LineRises DEF L
    <3>4. st[t - 1] + c <= st[0] + Len(F) /\ (st[t - 1] - st[0]) + c \in 1..Len(F)
      <4> DEFINE x == st[t - 1]
                 u == st[t]
                 v == st[i]
                 z == st[0]
                 w == LeftOf(ms[t], q[t])
                 l == Len(F)
      <4>1. /\ c \in 1..w /\ w \in Nat /\ u = x + w /\ u <= v /\ z <= x /\ x \in Nat
            /\ u \in Nat /\ v \in Nat /\ z \in Nat /\ l = v - z /\ l \in Nat
        BY <1>3, <1>5, <1>10, <3>2, <3>3
      <4> HIDE DEF x, u, v, z, w, l
      <4>2. x + c <= z + l /\ (x - z) + c \in 1..l
        BY ONLY <4>1
      <4> QED
        BY <4>2 DEF x, z, l
    <3>5. F[(st[t - 1] - st[0]) + c] = CellOf(ms[t], q[t].so + c)
      BY <3>1, <3>4 DEF FillsUp
    <3> QED
      BY <1>7, <3>4, <3>5
  <2> QED
    BY <2>1, <2>2
<1>11. FillsUp(ms, q, st, H, i + 1)
  BY <1>7, <1>8, <1>10 DEF FillsUp
<1> QED
  BY <1>9, <1>11 DEF H, G, y, L

LEMMA FillIs ==
  ASSUME NEW ms, NEW q, NEW st, Line(ms, q, st)
  PROVE  FillsUp(ms, q, st, Fill(q), Len(q))
<1> DEFINE L == Len(q)
           ss == [i \in DOMAIN q |-> FillOne(q[i])]
<1>1. L \in Nat /\ q \in Seq(QueueType) /\ DOMAIN q = 1..L /\ \A i \in 0..L : st[i] \in Nat
  BY DEF Line
<1>2. \A i \in 1..L : FillOne(q[i]) \in Seq(CellType)
  BY FillOneIs DEF Line, FillsOne
<1>3. ss \in Seq(Seq(CellType)) /\ Len(ss) = L /\ \A i \in 1..L : ss[i] = FillOne(q[i])
  BY <1>1, <1>2
<1>4. Fill(q) = FlattenSeq(ss)
  BY DEF Fill
<1> HIDE DEF ss
<1>5. PICK g : Joined(CellType, ss, g) /\ FlattenSeq(ss) = g[L]
  <2>1. \E g : Joined(CellType, ss, g) /\ FlattenSeq(ss) = g[Len(ss)]
    BY ONLY <1>3, FlattenJoins
  <2> QED
    BY <1>3, <2>1
<1> DEFINE T == {i \in 0..L : FillsUp(ms, q, st, g[i], i) /\ (i < L => st[0] + Len(g[i]) = st[i])}
<1>6. 0 \in T
  <2>1. g[0] = <<>>
    BY <1>5 DEF Joined
  <2> DEFINE e0 == g[0]
  <2>2. e0 \in Seq(CellType) /\ Len(e0) = 0
    BY <2>1
  <2>3. 0 \in 0..L /\ st[0] \in Nat
    BY <1>1
  <2> HIDE DEF e0
  <2>4. FillsUp(ms, q, st, e0, 0) /\ st[0] + Len(e0) = st[0]
    BY <2>2, <2>3 DEF FillsUp
  <2> QED
    BY <2>3, <2>4 DEF e0
<1>7. ASSUME NEW i \in Nat, i < L, i \in T
      PROVE  i + 1 \in T
  <2>1. i + 1 \in 1..L /\ (i + 1) - 1 = i /\ i + 1 \in 0..L
    BY <1>1, <1>7
  <2>2. g[i + 1] = g[i] \o FillOne(q[i + 1])
    BY <1>3, <1>5, <2>1 DEF Joined
  <2>3. FillsUp(ms, q, st, g[i], i) /\ st[0] + Len(g[i]) = st[i]
    BY <1>7
  <2> DEFINE G == g[i]
  <2>4. FillsUp(ms, q, st, G, i) /\ st[0] + Len(G) = st[i]
    BY <2>3
  <2> HIDE DEF G
  <2>5. /\ FillsUp(ms, q, st, G \o FillOne(q[i + 1]), i + 1)
        /\ i + 1 < Len(q) => st[0] + Len(G \o FillOne(q[i + 1])) = st[i + 1]
    BY <1>7, <2>4, FillsMore
  <2> QED
    BY <2>1, <2>2, <2>5 DEF G
<1> HIDE DEF T
<1>8. \A i \in 0..L : i \in T
  BY ONLY <1>1, <1>6, <1>7, UpTo
<1>9. L \in T
  BY <1>1, <1>8
<1> QED
  BY <1>4, <1>5, <1>9 DEF T

\* Of the first i replies, the first d are written and what is kept of the others has
\* the cells that are out counted.
KeptIs(q, st, n, i, d, kept) ==
  /\ kept \in Seq(QueueType) /\ Len(kept) = i - d
  /\ st[d] <= st[0] + n
  /\ IF d = i THEN st[0] + n = st[d] ELSE st[0] + n < st[d + 1]
  /\ \A j \in 1..(i - d) :
       /\ kept[j].id = q[d + j].id /\ kept[j].len = q[d + j].len
       /\ kept[j].so = q[d + j].so + (IF j = 1 THEN (st[0] + n) - st[d] ELSE 0)

\* Where i replies have left a write of n cells.
Written1(q, st, n, i, a) ==
  IF st[i] < st[0] + n THEN a.n = (st[0] + n) - st[i] /\ a.kept = <<>>
  ELSE a.n = 0 /\ \E d \in 0..i : KeptIs(q, st, n, i, d, a.kept)

\* One reply more.
LEMMA WritesMore ==
  ASSUME NEW ms, NEW q, NEW st, Line(ms, q, st), NEW n \in Nat, NEW i \in Nat, i < Len(q),
         NEW a \in WriteState, Written1(q, st, n, i, a), NEW b, TakesOne(ms[i + 1], q[i + 1], a, b)
  PROVE  Written1(q, st, n, i + 1, b)
<1> DEFINE L == Len(q)
           y == q[i + 1]
           R == LeftOf(ms[i + 1], y)
           p == st[0] + n
<1>1. /\ L \in Nat /\ i + 1 \in 1..L /\ (i + 1) - 1 = i /\ i \in 0..L /\ i + 1 \in 0..L /\ 0 \in 0..L
  BY DEF Line
<1>2. R \in Nat \ {0} /\ st[i + 1] = st[i] + R
  BY <1>1 DEF Line
<1>3. st[i] \in Nat /\ st[0] \in Nat /\ st[i + 1] \in Nat /\ p \in Nat
  <2>1. \A x \in 0..L : st[x] \in Nat
    BY DEF Line
  <2>2. st[i] \in Nat /\ st[0] \in Nat /\ st[i + 1] \in Nat
    BY <1>1, <2>1
  <2> QED
    BY <2>2
<1>4. y \in QueueType /\ y.id \in Request /\ y.len \in Nat /\ y.so \in Nat
  <2>1. Waits(ms[i + 1], y)
    BY <1>1 DEF Line
  <2> QED
    BY <2>1 DEF Waits, QueueType
<1>5. a.n \in Int /\ a.kept \in Seq(QueueType) /\ b.n \in Int /\ b.kept \in Seq(QueueType)
  BY DEF WriteState, TakesOne
<1>6. CASE st[i] < p /\ p - st[i] >= R
  <2>1. a.n = p - st[i] /\ a.kept = <<>>
    BY <1>6 DEF Written1
  <2>2. a.n > 0 /\ a.n >= R
    BY <1>3, <1>6, <2>1
  <2>3. b.n = a.n - R /\ b.kept = <<>>
    BY <2>1, <2>2 DEF TakesOne
  <2>4. b.n = p - st[i + 1]
    <3> DEFINE u == st[i]
               v == st[i + 1]
               w == a.n
    <3>1. v = u + R /\ w = p - u /\ b.n = w - R /\ u \in Nat /\ R \in Nat /\ p \in Nat
      BY <1>2, <1>3, <2>1, <2>3
    <3> HIDE DEF u, v, w, R, p
    <3>2. b.n = p - v
      BY ONLY <3>1
    <3> QED
      BY <3>2 DEF v
  <2>5. CASE st[i + 1] < p
    BY <2>3, <2>4, <2>5 DEF Written1
  <2>6. CASE ~(st[i + 1] < p)
    <3>1. p = st[i + 1] /\ b.n = 0
      BY <1>2, <1>3, <1>6, <2>4, <2>6
    <3>2. b.kept \in Seq(QueueType) /\ Len(b.kept) = (i + 1) - (i + 1) /\ \A j \in 1..((i + 1) - (i + 1)) : FALSE
      BY <2>3
    <3>3. KeptIs(q, st, n, i + 1, i + 1, b.kept)
      BY <1>3, <3>1, <3>2 DEF KeptIs
    <3>4. i + 1 \in 0..(i + 1)
      OBVIOUS
    <3> QED
      BY <2>6, <3>1, <3>3, <3>4 DEF Written1
  <2> QED
    BY <2>5, <2>6
<1>7. CASE st[i] < p /\ ~(p - st[i] >= R)
  <2> DEFINE z == [id |-> y.id, len |-> y.len, so |-> y.so + a.n]
  <2>1. a.n = p - st[i] /\ a.kept = <<>>
    BY <1>7 DEF Written1
  <2>2. a.n > 0 /\ a.n < R
    BY <1>2, <1>3, <1>7, <2>1
  <2>3. b.n = 0 /\ b.kept = Append(<<>>, z)
    BY <2>1, <2>2 DEF TakesOne
  <2>4. ~(st[i + 1] < p) /\ p < st[i + 1] /\ st[i] <= p
    BY <1>2, <1>3, <1>7
  <2>5. z.id = y.id /\ z.len = y.len /\ z.so = y.so + (p - st[i])
    BY <2>1
  <2> HIDE DEF z
  <2>6. Len(b.kept) = 1 /\ b.kept[1] = z
    BY <2>3
  <2>7. KeptIs(q, st, n, i + 1, i, b.kept)
    <3>1. (i + 1) - i = 1 /\ i # i + 1 /\ \A j \in 1..1 : j = 1
      OBVIOUS
    <3> HIDE DEF p, y
    <3>2. \A j \in 1..1 : /\ b.kept[j].id = q[i + j].id /\ b.kept[j].len = q[i + j].len
                          /\ b.kept[j].so = q[i + j].so + (IF j = 1 THEN p - st[i] ELSE 0)
      BY <2>5, <2>6, <3>1 DEF y
    <3> QED
      BY <1>5, <2>4, <2>6, <3>1, <3>2 DEF KeptIs, p
  <2>8. i \in 0..(i + 1)
    OBVIOUS
  <2> QED
    BY <2>3, <2>4, <2>7, <2>8 DEF Written1
<1>8. CASE ~(st[i] < p)
  <2>1. PICK d \in 0..i : KeptIs(q, st, n, i, d, a.kept)
    BY <1>8 DEF Written1
  <2>2. a.n = 0
    BY <1>8 DEF Written1
  <2>3. b.n = 0 /\ b.kept = Append(a.kept, y)
    BY <2>2 DEF TakesOne
  <2>4. ~(st[i + 1] < p)
    BY <1>2, <1>3, <1>8
  <2>5. d \in Nat /\ d <= i /\ (i + 1) - d \in Nat /\ (i + 1) - d = (i - d) + 1 /\ i - d \in Nat /\ d # i + 1
    OBVIOUS
  <2> DEFINE k == a.kept
             s == b.kept
             w == i - d
  <2>6. /\ k \in Seq(QueueType) /\ Len(k) = w /\ st[d] <= p
        /\ IF d = i THEN p = st[d] ELSE p < st[d + 1]
        /\ \A j \in 1..w : /\ k[j].id = q[d + j].id /\ k[j].len = q[d + j].len
                           /\ k[j].so = q[d + j].so + (IF j = 1 THEN p - st[d] ELSE 0)
    BY <2>1 DEF KeptIs
  <2>7. /\ s \in Seq(QueueType) /\ Len(s) = w + 1 /\ s[w + 1] = y
        /\ \A j \in 1..w : s[j] = k[j]
    <3> HIDE DEF k, w
    <3>1. Append(k, y) \in Seq(QueueType) /\ Len(Append(k, y)) = w + 1 /\ Append(k, y)[w + 1] = y
          /\ \A j \in 1..w : Append(k, y)[j] = k[j]
      BY <1>4, <2>6, AppendProperties
    <3> QED
      BY <2>3, <3>1 DEF k
  <2>8. p < st[d + 1]
    <3>1. CASE d = i
      BY <1>2, <1>3, <2>6, <3>1
    <3> QED
      BY <2>6, <3>1
  <2>9. y.so = y.so + (IF w + 1 = 1 THEN p - st[d] ELSE 0)
    <3>1. CASE w + 1 = 1
      <4>1. d = i /\ p = st[d]
        BY <2>5, <2>6, <3>1
      <4>2. p - st[d] = 0
        BY <1>3, <4>1
      <4> QED
        BY <1>4, <3>1, <4>2
    <3>2. CASE w + 1 # 1
      BY <1>4, <3>2
    <3> QED
      BY <3>1, <3>2
  <2>10. d + (w + 1) = i + 1 /\ w \in Nat /\ \A j \in 1..(w + 1) : j \in 1..w \/ j = w + 1
    BY <2>5
  <2> HIDE DEF k, s, w, p, y
  <2>11. \A j \in 1..(w + 1) :
           /\ s[j].id = q[d + j].id /\ s[j].len = q[d + j].len
           /\ s[j].so = q[d + j].so + (IF j = 1 THEN p - st[d] ELSE 0)
    <3>1. ASSUME NEW j \in 1..(w + 1)
          PROVE  /\ s[j].id = q[d + j].id /\ s[j].len = q[d + j].len
                 /\ s[j].so = q[d + j].so + (IF j = 1 THEN p - st[d] ELSE 0)
      <4>1. CASE j \in 1..w
        BY <2>6, <2>7, <4>1
      <4>2. CASE j = w + 1
        BY <2>7, <2>9, <2>10, <4>2 DEF y
      <4> QED
        BY <2>10, <4>1, <4>2
    <3> QED
      BY <3>1
  <2>12. KeptIs(q, st, n, i + 1, d, b.kept)
    BY <2>5, <2>6, <2>7, <2>8, <2>11 DEF KeptIs, s, w, p
  <2>13. d \in 0..(i + 1)
    BY <2>5
  <2> QED
    BY <2>3, <2>4, <2>12, <2>13 DEF Written1, p
<1> QED
  BY <1>3, <1>6, <1>7, <1>8

LEMMA WrittenIs ==
  ASSUME NEW ms, NEW q, NEW st, Line(ms, q, st), NEW n \in Nat, n > 0, st[0] + n <= st[Len(q)]
  PROVE  \E d \in 0..Len(q) : KeptIs(q, st, n, Len(q), d, Written(q, n))
<1> DEFINE L == Len(q)
<1>1. L \in Nat /\ q \in Seq(QueueType) /\ (\A i \in 0..L : st[i] \in Nat) /\ 0 \in 0..L
  BY DEF Line
<1>2. \A i \in 1..L : Waits(ms[i], q[i])
  BY DEF Line
<1>3. PICK f : Written(q, n) = f[L].kept /\ WritesOn(f, q, n)
  BY <1>1, <1>2, WrittenInOrder
<1>4. \A i \in 0..L : f[i] \in WriteState
  <2>1. f \in [0..L -> WriteState]
    BY <1>3 DEF WritesOn
  <2> HIDE DEF L
  <2> QED
    BY <2>1, Zenon
<1> DEFINE T == {i \in 0..L : Written1(q, st, n, i, f[i])}
<1>5. 0 \in T
  <2>1. f[0].n = n /\ f[0].kept = <<>>
    BY <1>3 DEF WritesOn
  <2>2. st[0] < st[0] + n /\ n = (st[0] + n) - st[0]
    BY <1>1
  <2> QED
    BY <1>1, <2>1, <2>2 DEF Written1
<1>6. ASSUME NEW i \in Nat, i < L, i \in T
      PROVE  i + 1 \in T
  <2>1. i + 1 \in 1..L /\ (i + 1) - 1 = i /\ i + 1 \in 0..L /\ i \in 0..L
    BY <1>1, <1>6
  <2>2. f[i + 1] = OneWritten(f[i], q[i + 1])
    BY <1>3, <2>1 DEF WritesOn
  <2>3. f[i] \in WriteState /\ Waits(ms[i + 1], q[i + 1])
    BY <1>2, <1>4, <2>1
  <2>4. TakesOne(ms[i + 1], q[i + 1], f[i], f[i + 1])
    BY ONLY <2>2, <2>3, OneWrittenIs
  <2>5. Written1(q, st, n, i, f[i])
    BY <1>6
  <2>6. Written1(q, st, n, i + 1, f[i + 1])
    <3> DEFINE a == f[i]
               b == f[i + 1]
    <3>1. a \in WriteState /\ Written1(q, st, n, i, a) /\ TakesOne(ms[i + 1], q[i + 1], a, b)
      BY <2>3, <2>4, <2>5
    <3> HIDE DEF a, b
    <3>2. Written1(q, st, n, i + 1, b)
      BY <1>6, <3>1, WritesMore
    <3> QED
      BY <3>2 DEF b
  <2> QED
    BY <2>1, <2>6
<1> HIDE DEF T
<1>7. \A i \in 0..L : i \in T
  BY ONLY <1>1, <1>5, <1>6, UpTo
<1>8. L \in T
  BY <1>1, <1>7
<1>9. Written1(q, st, n, L, f[L])
  BY <1>8 DEF T
<1>10. ~(st[L] < st[0] + n)
  BY <1>1
<1> QED
  BY <1>3, <1>9, <1>10 DEF Written1

\* The ends of the replies rise.
LEMMA EndsRise ==
  ASSUME NEW fs, NEW e, Ends(fs, e), NEW i \in 0..Len(fs), NEW k \in 0..Len(fs), i <= k
  PROVE  e[i] <= e[k] /\ e[i] \in Nat /\ e[k] \in Nat
<1> DEFINE L == Len(fs)
           T == {a \in 0..L : i <= a => e[i] <= e[a]}
<1>1. L \in Nat /\ (\A a \in 0..L : e[a] \in Nat) /\ i \in Nat /\ k \in Nat
  BY LenProperties DEF Ends
<1>2. 0 \in T
  BY <1>1
<1>3. ASSUME NEW a \in Nat, a < L, a \in T
      PROVE  a + 1 \in T
  <2>1. a + 1 \in 1..L /\ (a + 1) - 1 = a /\ a + 1 \in 0..L /\ a \in 0..L
    BY <1>1, <1>3
  <2>2. Sendable(fs[a + 1]) /\ e[a + 1] = e[a] + Announced(fs[a + 1])
    BY <2>1 DEF Ends
  <2>5. Announced(fs[a + 1]) \in Nat
    BY <2>2, SendableCells DEF CellsAre
  <2>3. CASE i = a + 1
    BY <1>1, <2>1, <2>3
  <2>4. CASE i <= a
    <3>1. e[i] <= e[a] /\ e[i] \in Nat /\ e[a] \in Nat
      BY <1>1, <1>3, <2>1, <2>4
    <3> QED
      BY <2>1, <2>2, <2>5, <3>1
  <2>6. CASE ~(i <= a + 1)
    BY <2>1, <2>6
  <2> QED
    BY <1>1, <2>3, <2>4, <2>6
<1> HIDE DEF T
<1>4. \A a \in 0..L : a \in T
  BY ONLY <1>1, <1>2, <1>3, UpTo
<1>5. k \in T
  BY <1>4
<1> QED
  BY <1>1, <1>5 DEF T

\* The replies that wait in the queue q, with the data they are written from.
DataIs(fs, q) ==
  \A i \in 1..Len(q) : /\ Data(q[i].id) = ChunkOf(fs[(Len(fs) - Len(q)) + i])
                       /\ Kind[q[i].id] = "manifest" => Len(q) = 1

Unsent(fs, q) == [i \in 1..Len(q) |-> fs[(Len(fs) - Len(q)) + i]]
Starting(fs, e, in, q) ==
  [i \in 0..Len(q) |-> IF i = 0 THEN Len(in) ELSE e[(Len(fs) - Len(q)) + i]]

\* Each starts behind the one before it.
StartsWell(fs, e, in, q, st) ==
  /\ Line(Unsent(fs, q), q, st)
  /\ Len(fs) \in Nat /\ Len(fs) - Len(q) \in Nat /\ Len(in) \in Nat
  /\ st[0] = Len(in) /\ e[Len(fs) - Len(q)] \in Nat /\ e[Len(fs) - Len(q)] <= Len(in)
  /\ st[Len(q)] = e[Len(fs)]
  /\ \A i \in 1..Len(q) : /\ st[i] = e[(Len(fs) - Len(q)) + i]
                          /\ e[(Len(fs) - Len(q)) + (i - 1)] \in Nat
                          /\ q[i].so = st[i - 1] - e[(Len(fs) - Len(q)) + (i - 1)]
                          /\ i > 1 => q[i].so = 0

LEMMA StartsAre ==
  ASSUME NEW fs, NEW e, NEW in, NEW q, Ends(fs, e), in \in Seq(CellType),
         Queued(fs, e, in, q), DataIs(fs, q)
  PROVE  StartsWell(fs, e, in, q, Starting(fs, e, in, q))
<1> DEFINE L == Len(q)
           N == Len(fs)
           K == N - L
           p == Len(in)
           st == Starting(fs, e, in, q)
           ms == Unsent(fs, q)
<1>1. N \in Nat /\ L \in Nat /\ K \in Nat /\ p \in Nat /\ K + L = N /\ q \in Seq(QueueType) /\ K <= N
  BY LenProperties DEF Ends, Queued
<1>2. (\A a \in 0..N : e[a] \in Nat) /\ e[K] <= p
  BY DEF Ends, Queued
<1>3. st[0] = p /\ \A i \in 1..L : st[i] = e[K + i]
  BY <1>1 DEF Starting
<1>4. \A i \in 0..L : K + i \in 0..N
  BY <1>1
<1>5. st \in [0..L -> Nat]
  <2>1. \A i \in 1..L : e[K + i] \in Nat
    BY <1>1, <1>2, <1>4
  <2>2. \A i \in 0..L : st[i] \in Nat
    BY <1>1, <1>3, <2>1
  <2>3. st = [i \in 0..L |-> st[i]]
    BY DEF Starting
  <2> HIDE DEF st, L
  <2> QED
    BY <2>2, <2>3
<1>6. \A i \in 1..L : ms[i] = fs[K + i]
  BY DEF Unsent
<1>7. ASSUME NEW i \in 1..L
      PROVE  /\ Waits(ms[i], q[i]) /\ LeftOf(ms[i], q[i]) \in Nat \ {0}
             /\ st[i] = st[i - 1] + LeftOf(ms[i], q[i])
             /\ Kind[ms[i].id] = "manifest" => L = 1
             /\ e[K + (i - 1)] \in Nat
             /\ q[i].so = st[i - 1] - e[K + (i - 1)]
             /\ i > 1 => q[i].so = 0
  <2> DEFINE m == fs[K + i]
             A == Announced(m)
  <2>1. K + i \in 1..N /\ (K + i) - 1 = K + (i - 1) /\ i - 1 \in 0..L /\ i \in Nat
    BY <1>1
  <2>2. Sendable(m) /\ e[K + i] = e[K + (i - 1)] + A
    BY <2>1 DEF Ends
  <2>3. A \in Nat \ {0}
    BY <2>2, SendableCells DEF CellsAre
  <2>4. e[K + (i - 1)] \in Nat /\ e[K + i] \in Nat
    BY <1>2, <1>4, <2>1
  <2>5. /\ q[i].id = m.id /\ q[i].len = A /\ q[i].so = (IF i = 1 THEN p - e[K] ELSE 0)
        /\ Kind[m.id] = "manifest" => q[i].so # A - 1
    BY DEF Queued, Out
  <2>6. q[i] \in QueueType
    BY <1>1, ElementOfSeq
  <2>7. Data(m.id) = ChunkOf(m) /\ (Kind[m.id] = "manifest" => L = 1)
    BY <2>5 DEF DataIs
  <2>8. q[i].so = st[i - 1] - e[K + (i - 1)]
    <3>1. CASE i = 1
      BY <1>1, <1>3, <2>5, <3>1
    <3>2. CASE i # 1
      <4>1. i - 1 \in 1..L
        BY <2>1, <3>2
      <4>2. st[i - 1] = e[K + (i - 1)]
        BY <1>3, <4>1
      <4> QED
        BY <2>4, <2>5, <3>2, <4>2
    <3> QED
      BY <3>1, <3>2
  <2>9. q[i].so < A
    <3>1. CASE i = 1
      <4>1. q # <<>>
        BY <1>1, <3>1
      <4>2. p < e[K + 1]
        BY <4>1 DEF Queued
      <4>3. e[K + 1] = e[K] + A /\ e[K] \in Nat
        BY <1>1, <2>2, <2>4, <3>1
      <4> QED
        BY <1>1, <2>3, <2>5, <3>1, <4>2, <4>3
    <3>2. CASE i # 1
      BY <2>3, <2>5, <3>2
    <3> QED
      BY <3>1, <3>2
  <2>10. Waits(m, q[i])
    BY <2>2, <2>5, <2>6, <2>7, <2>9 DEF Waits
  <2>11. q[i].so \in Nat
    BY <2>6 DEF QueueType
  <2>12. LeftOf(m, q[i]) = A - q[i].so
    BY DEF LeftOf
  <2>13. st[i - 1] \in Nat /\ st[i] = e[K + i]
    BY <1>3, <1>5, <2>1
  <2> HIDE DEF A, m, K, st, L
  <2>14. A - q[i].so \in Nat \ {0}
    BY <2>3, <2>9, <2>11
  <2>15. st[i] = st[i - 1] + (A - q[i].so)
    <3> DEFINE u == st[i - 1]
               v == e[K + (i - 1)]
               s == q[i].so
    <3>1. /\ st[i] = v + A /\ s = u - v /\ u \in Nat /\ v \in Nat /\ A \in Nat /\ s \in Nat
      BY <2>2, <2>3, <2>4, <2>8, <2>11, <2>13
    <3> HIDE DEF u, v, s
    <3>2. st[i] = u + (A - s)
      BY ONLY <3>1
    <3> QED
      BY <3>2 DEF u, s
  <2>16. i > 1 => q[i].so = 0
    BY <2>5
  <2>17. ms[i] = m
    BY <1>6 DEF m, K, L
  <2> QED
    BY <2>4, <2>7, <2>8, <2>10, <2>12, <2>14, <2>15, <2>16, <2>17
<1>8. Line(ms, q, st)
  BY <1>1, <1>5, <1>7 DEF Line
<1>9. st[L] = e[N]
  <2>1. CASE L = 0
    <3>1. q = <<>>
      BY <1>1, <2>1, EmptySeq
    <3> QED
      BY <1>3, <2>1, <3>1 DEF Queued
  <2>2. CASE L # 0
    <3>1. L \in 1..L
      BY <1>1, <2>2
    <3> QED
      BY <1>1, <1>3, <3>1
  <2> QED
    BY <2>1, <2>2
<1>10. e[K] \in Nat
  BY <1>1, <1>2
<1> HIDE DEF st
<1> QED
  BY <1>1, <1>2, <1>3, <1>7, <1>8, <1>9, <1>10 DEF StartsWell, st

\* What is written is the next of the line.
Wrote(in, F, n, after) ==
  /\ after \in Seq(CellType) /\ Len(after) = Len(in) + n
  /\ \A c \in 1..Len(in) : after[c] = in[c]
  /\ \A c \in 1..n : after[Len(in) + c] = F[c]

LEMMA WroteIs ==
  ASSUME NEW in \in Seq(CellType), NEW F \in Seq(CellType), NEW n \in 0..Len(F)
  PROVE  Wrote(in, F, n, in \o SubSeq(F, 1, n))
<1> DEFINE G == SubSeq(F, 1, n)
<1>1. G \in Seq(CellType) /\ Len(G) = n /\ \A c \in 1..n : G[c] = F[c]
  BY FirstPlaces
<1> HIDE DEF G
<1>2. IsCat(CellType, in, G)
  BY ONLY <1>1, in \in Seq(CellType), CatParts
<1> QED
  BY <1>1, <1>2 DEF IsCat, Wrote, G

LEMMA WriteBegins ==
  ASSUME NEW fs, NEW e, NEW in, NEW q, Ends(fs, e), Begun(fs, e, in),
         Queued(fs, e, in, q), DataIs(fs, q),
         NEW n \in Nat, n > 0, n <= Len(Fill(q)), NEW after, Wrote(in, Fill(q), n, after)
  PROVE  /\ Begun(fs, e, after) /\ Len(in) + n <= e[Len(fs)]
<1> DEFINE L == Len(q)
           N == Len(fs)
           K == N - L
           p == Len(in)
           st == Starting(fs, e, in, q)
           ms == Unsent(fs, q)
           F == Fill(q)
<1>1. StartsWell(fs, e, in, q, st)
  BY StartsAre DEF Begun
<1> HIDE DEF st
<1>2. /\ Line(ms, q, st) /\ N \in Nat /\ K \in Nat /\ p \in Nat /\ st[0] = p /\ e[K] \in Nat /\ e[K] <= p
      /\ st[L] = e[N]
      /\ \A i \in 1..L : /\ st[i] = e[K + i] /\ e[K + (i - 1)] \in Nat
                         /\ q[i].so = st[i - 1] - e[K + (i - 1)]
                         /\ i > 1 => q[i].so = 0
  BY <1>1 DEF StartsWell
<1>3. FillsUp(ms, q, st, F, L)
  BY <1>2, FillIs
<1> HIDE DEF F
<1>4. /\ F \in Seq(CellType) /\ Len(F) \in Nat /\ p + Len(F) <= e[N]
      /\ \A t \in 1..L : \A c \in 1..LeftOf(ms[t], q[t]) :
           st[t - 1] + c <= p + Len(F) => F[(st[t - 1] - p) + c] = CellOf(ms[t], q[t].so + c)
  BY <1>2, <1>3 DEF FillsUp
<1>5. /\ after \in Seq(CellType) /\ Len(after) = p + n
      /\ \A c \in 1..p : after[c] = in[c]
      /\ \A c \in 1..n : after[p + c] = F[c]
  BY DEF Wrote, F
<1>6. n <= Len(F) /\ L \in Nat /\ K + L = N /\ e[N] \in Nat
  <2>1. N \in 0..N
    BY <1>2
  <2>2. e[N] \in Nat
    BY <2>1 DEF Ends
  <2> QED
    BY <1>2, <2>2 DEF Line, F
<1>7. p + n <= e[N]
  BY <1>2, <1>4, <1>6
<1>8. ASSUME NEW i \in 1..N, NEW c \in 1..Announced(fs[i]), e[i - 1] + c <= p + n
      PROVE  after[e[i - 1] + c] = CellOf(fs[i], c)
  <2> DEFINE m == fs[i]
             A == Announced(m)
  <2>1. Sendable(m) /\ e[i] = e[i - 1] + A
    BY DEF Ends
  <2>2. A \in Nat \ {0} /\ c \in Nat /\ c >= 1 /\ c <= A
    BY <2>1, SendableCells DEF CellsAre
  <2>3. i - 1 \in 0..N /\ i \in 0..N /\ K \in 0..N
    BY <1>2, <1>6
  <2>4. e[i - 1] \in Nat /\ e[i] \in Nat
    BY <2>3 DEF Ends
  <2>5. CASE e[i - 1] + c <= p
    <3>1. in[e[i - 1] + c] = CellOf(fs[i], c)
      BY <2>5 DEF Begun
    <3>2. e[i - 1] + c \in 1..p
      BY <1>2, <2>2, <2>4, <2>5
    <3> QED
      BY <1>5, <3>1, <3>2
  <2>6. CASE ~(e[i - 1] + c <= p)
    <3>1. i > K
      <4>1. CASE i <= K
        <5>1. e[i] <= e[K]
          BY <2>3, <4>1, EndsRise
        <5> HIDE DEF A
        <5> QED
          BY <1>2, <2>1, <2>2, <2>4, <2>6, <5>1
      <4> QED
        BY <1>2, <2>3, <4>1
    <3> DEFINE t == i - K
               s == q[t].so
               x == c - s
               v == e[i - 1]
               u == st[t - 1]
    <3>2. t \in 1..L /\ K + t = i /\ K + (t - 1) = i - 1 /\ ms[t] = m
      <4>1. t \in 1..L /\ K + t = i /\ K + (t - 1) = i - 1
        BY <1>2, <1>6, <2>3, <3>1
      <4> QED
        BY <4>1 DEF Unsent
    <3>3. s = u - v /\ (t > 1 => s = 0)
      BY <1>2, <3>2
    <3>4. /\ s \in Nat /\ LeftOf(m, q[t]) = A - s /\ s < A
      <4>1. Waits(m, q[t])
        BY <1>2, <3>2 DEF Line
      <4> QED
        BY <4>1 DEF Waits, QueueType, LeftOf
    <3>5. u \in Nat
      <4>1. t - 1 \in 0..L
        BY <3>2
      <4> QED
        BY <1>2, <4>1 DEF Line
    <3>9. t = 1 => u = p
      <4>1. st[0] = p
        BY <1>2
      <4>2. t = 1 => t - 1 = 0
        OBVIOUS
      <4> HIDE DEF t
      <4> QED
        BY <4>1, <4>2
    <3> HIDE DEF s, x, v, u, A
    <3>6. x \in 1..(A - s) /\ u + x = v + c /\ s + x = c
      <4>1. x = c - s
        BY DEF x
      <4>2. ~(v + c <= p) /\ v \in Nat
        BY <2>4, <2>6 DEF v
      <4>3. s < c
        <5>1. CASE t = 1
          BY <1>2, <2>2, <3>3, <3>4, <3>5, <3>9, <4>2, <5>1
        <5>2. CASE t # 1
          <6>1. t > 1
            BY <3>2, <5>2
          <6> QED
            BY <2>2, <3>3, <6>1
        <5> QED
          BY <5>1, <5>2
      <4> QED
        BY <2>2, <3>3, <3>4, <3>5, <4>1, <4>2, <4>3
    <3>7. F[(u - p) + x] = CellOf(m, s + x)
      <4>1. x \in 1..LeftOf(ms[t], q[t])
        BY <3>2, <3>4, <3>6
      <4>2. u + x <= p + Len(F)
        <5>1. v + c <= p + n
          BY <1>8 DEF v
        <5> QED
          BY <1>2, <1>4, <1>6, <2>2, <2>4, <3>6, <5>1 DEF v
      <4>3. F[(st[t - 1] - p) + x] = CellOf(ms[t], q[t].so + x)
        BY <1>4, <3>2, <4>1, <4>2 DEF u
      <4> QED
        BY <3>2, <4>3 DEF u, s
    <3>8. (u - p) + x \in 1..n /\ p + ((u - p) + x) = v + c
      <4>1. v \in Nat /\ ~(v + c <= p) /\ v + c <= p + n
        BY <1>8, <2>4, <2>6 DEF v
      <4>2. x \in Int
        BY <2>2, <3>4 DEF x
      <4> QED
        BY <1>2, <2>2, <3>5, <3>6, <4>1, <4>2
    <3> QED
      BY <1>5, <3>6, <3>7, <3>8 DEF v, m
  <2> QED
    BY <2>5, <2>6
<1> QED
  BY <1>5, <1>7, <1>8 DEF Begun

LEMMA WriteKeeps ==
  ASSUME NEW fs, NEW e, NEW in, NEW q, Ends(fs, e), Begun(fs, e, in),
         Queued(fs, e, in, q), DataIs(fs, q), NEW n \in Nat, n > 0, n <= Len(Fill(q)),
         NEW after, Len(after) = Len(in) + n, Len(in) + n <= e[Len(fs)],
         (\A r \in Request : Kind[r] # "manifest") \/ ~MidTrailer(Written(q, n))
  PROVE  /\ Queued(fs, e, after, Written(q, n))
         /\ \A i \in DOMAIN Written(q, n) : \E j \in DOMAIN q : Written(q, n)[i].id = q[j].id
<1> DEFINE L == Len(q)
           N == Len(fs)
           K == N - L
           p == Len(in)
           st == Starting(fs, e, in, q)
           ms == Unsent(fs, q)
           r == Written(q, n)
<1>1. StartsWell(fs, e, in, q, st)
  BY StartsAre DEF Begun
<1> HIDE DEF st
<1>2. /\ Line(ms, q, st) /\ N \in Nat /\ K \in Nat /\ p \in Nat /\ st[0] = p /\ e[K] \in Nat /\ e[K] <= p
      /\ st[L] = e[N]
      /\ \A i \in 1..L : /\ st[i] = e[K + i] /\ e[K + (i - 1)] \in Nat
                         /\ q[i].so = st[i - 1] - e[K + (i - 1)]
                         /\ i > 1 => q[i].so = 0
  BY <1>1 DEF StartsWell
<1>3. L \in Nat /\ K + L = N /\ (\A i \in 0..L : st[i] \in Nat)
  BY <1>2 DEF Line
<1>4. PICK d \in 0..L : KeptIs(q, st, n, L, d, r)
  BY <1>2, WrittenIs
<1> DEFINE x == p + n
<1>5. /\ r \in Seq(QueueType) /\ Len(r) = L - d /\ st[d] <= x
      /\ IF d = L THEN x = st[d] ELSE x < st[d + 1]
      /\ \A j \in 1..(L - d) :
           /\ r[j].id = q[d + j].id /\ r[j].len = q[d + j].len
           /\ r[j].so = q[d + j].so + (IF j = 1 THEN x - st[d] ELSE 0)
  BY <1>2, <1>4 DEF KeptIs
<1> HIDE DEF r
<1>6. N - Len(r) = K + d /\ Len(r) <= N /\ DOMAIN r = 1..(L - d) /\ DOMAIN q = 1..L
  <2>1. DOMAIN r = 1..Len(r) /\ DOMAIN q = 1..Len(q)
    BY <1>2, <1>5 DEF Line
  <2>2. d \in Nat /\ d <= L /\ N = K + L
    BY <1>2, <1>3
  <2>3. N - (L - d) = K + d /\ L - d <= N
    BY <1>2, <1>3, <2>2
  <2> QED
    BY <1>5, <2>1, <2>3
<1>7. \A j \in 1..(L - d) : d + j \in 1..L /\ d + j \in Nat /\ (K + d) + j = K + (d + j)
  BY <1>2, <1>3
<1>8. e[K + d] <= x /\ e[K + d] \in Nat
  <2>1. CASE d = 0
    BY <1>2, <2>1
  <2>2. CASE d # 0
    <3>1. d \in 1..L
      BY <1>3, <2>2
    <3> QED
      BY <1>2, <1>3, <1>5, <3>1
  <2> QED
    BY <2>1, <2>2
<1>9. IF r = <<>> THEN x = e[N] ELSE x < e[(K + d) + 1]
  <2>1. CASE d = L
    <3>1. r = <<>>
      BY <1>3, <1>5, <2>1, EmptySeq
    <3> QED
      BY <1>2, <1>5, <2>1, <3>1
  <2>2. CASE d # L
    <3>1. d + 1 \in 1..L /\ K + (d + 1) = (K + d) + 1 /\ L - d > 0
      BY <1>2, <1>3, <2>2
    <3>2. r # <<>>
      BY <1>5, <3>1, EmptySeq
    <3> QED
      BY <1>2, <1>5, <2>2, <3>1, <3>2
  <2> QED
    BY <2>1, <2>2
<1>10. ASSUME NEW j \in 1..(L - d)
       PROVE  LET m == fs[(K + d) + j]
              IN /\ r[j].id = m.id /\ r[j].len = Announced(m)
                 /\ r[j].so = (IF j = 1 THEN x - e[K + d] ELSE 0)
                 /\ Kind[m.id] = "manifest" => r[j].so # Announced(m) - 1
  <2> DEFINE i == d + j
             m == fs[K + i]
  <2>1. i \in 1..L /\ i \in Nat /\ (K + d) + j = K + i /\ ms[i] = m /\ d \in Nat /\ j \in Nat /\ j >= 1
    BY <1>7 DEF Unsent
  <2>2. q[i].id = m.id /\ q[i].len = Announced(m)
    BY <2>1 DEF Queued
  <2>3. r[j].id = m.id /\ r[j].len = Announced(m)
    BY <1>5, <2>2
  <2>4. Waits(m, q[i]) /\ (Kind[m.id] = "manifest" => L = 1)
    BY <1>2, <2>1 DEF Line
  <2>5. r[j].so = (IF j = 1 THEN x - e[K + d] ELSE 0)
    <3>1. CASE j = 1
      <4>1. i - 1 = d /\ d \in 0..L
        BY <2>1, <3>1
      <4>2. q[i].so = st[d] - e[K + d]
        BY <1>2, <2>1, <4>1
      <4>3. st[d] \in Nat
        BY <1>3
      <4>4. r[j].so = q[i].so + (x - st[d])
        BY <1>5, <3>1
      <4>5. r[j].so = x - e[K + d]
        <5> DEFINE u == st[d]
                   v == e[K + d]
                   w == q[i].so
        <5>1. r[j].so = w + (x - u) /\ w = u - v /\ u \in Nat /\ v \in Nat /\ x \in Nat
          BY <1>2, <1>8, <4>2, <4>3, <4>4
        <5> HIDE DEF u, v, w, x
        <5>2. r[j].so = x - v
          BY ONLY <5>1
        <5> QED
          BY <5>2 DEF v
      <4> QED
        BY <3>1, <4>5
    <3>2. CASE j # 1
      <4>1. i > 1
        BY <2>1, <3>2
      <4>2. q[i].so = 0
        BY <1>2, <2>1, <4>1
      <4>3. r[j].so = q[i].so + 0
        BY <1>5, <3>2
      <4> QED
        BY <3>2, <4>2, <4>3
    <3> QED
      BY <3>1, <3>2
  <2>6. ASSUME Kind[m.id] = "manifest"
        PROVE  r[j].so # Announced(m) - 1
    <3>1. CellsAre(m)
      BY <2>4, SendableCells DEF Waits
    <3>2. m.id \in Request /\ Announced(m) - 1 = 2 + Len(ChunkOf(m))
      BY <2>6, <3>1 DEF CellsAre
    <3>3. ~MidTrailer(r)
      BY <2>6, <3>2 DEF r
    <3>4. L = 1 /\ j = 1 /\ d = 0
      <4>1. L = 1
        BY <2>4, <2>6
      <4>2. d + j \in 1..1 /\ d \in Nat /\ j \in Nat /\ j >= 1
        BY <2>1, <4>1
      <4> QED
        BY ONLY <4>1, <4>2
    <3>5. r # <<>> /\ Head(r) = r[1]
      <4>1. r \in Seq(QueueType) /\ Len(r) = 1
        BY <1>5, <3>4
      <4>2. r # <<>>
        BY ONLY <4>1, EmptySeq
      <4> QED
        BY ONLY <4>1, <4>2, HeadTailProperties
    <3>6. Data(r[1].id) = ChunkOf(m)
      BY <2>3, <2>4, <3>4 DEF Waits
    <3> QED
      BY <2>3, <2>6, <3>2, <3>3, <3>4, <3>5, <3>6 DEF MidTrailer
  <2> HIDE DEF m, i, x
  <2>7. /\ r[j].id = m.id /\ r[j].len = Announced(m)
        /\ r[j].so = (IF j = 1 THEN x - e[K + d] ELSE 0)
        /\ Kind[m.id] = "manifest" => r[j].so # Announced(m) - 1
    BY <2>3, <2>5, <2>6
  <2> QED
    BY <2>1, <2>7 DEF m
<1>11. Queued(fs, e, after, r)
  <2>1. Len(after) = x
    OBVIOUS
  <2> HIDE DEF x
  <2> QED
    BY <1>5, <1>6, <1>8, <1>9, <1>10, <2>1 DEF Queued, Out
<1>12. \A i \in DOMAIN r : \E j \in DOMAIN q : r[i].id = q[j].id
  BY <1>5, <1>6, <1>7
<1> QED
  BY <1>11, <1>12 DEF r

\* A reply that joins the line, as it is queued.
Fresh(m) == [id |-> m.id, len |-> Announced(m), so |-> 0]

LEMMA ReplyJoins ==
  ASSUME NEW fs, NEW e, NEW in, NEW q, Ends(fs, e), Begun(fs, e, in), Queued(fs, e, in, q),
         NEW m, Sendable(m)
  PROVE  \E h : /\ Ends(Append(fs, m), h) /\ Begun(Append(fs, m), h, in)
                /\ Queued(Append(fs, m), h, in, Append(q, Fresh(m)))
<1> DEFINE N == Len(fs)
           L == Len(q)
           K == N - L
           p == Len(in)
           A == Announced(m)
           y == Fresh(m)
           gs == Append(fs, m)
           r == Append(q, y)
           h == [i \in 0..(N + 1) |-> IF i <= N THEN e[i] ELSE e[N] + A]
<1>1. /\ fs \in Seq(Replies) /\ q \in Seq(QueueType) /\ N \in Nat /\ L \in Nat /\ K \in Nat /\ p \in Nat
      /\ L <= N
  BY LenProperties DEF Ends, Queued, Begun
<1>2. (\A i \in 0..N : e[i] \in Nat) /\ e[0] = 0
  BY DEF Ends
<1>3. CellsAre(m)
  BY SendableCells
<1>4. m \in Replies /\ A \in Nat \ {0} /\ (Kind[m.id] = "manifest" => A # 1) /\ m.id \in Request
  BY <1>3 DEF CellsAre
<1>5. /\ gs \in Seq(Replies) /\ Len(gs) = N + 1 /\ gs[N + 1] = m
      /\ \A i \in 1..N : gs[i] = fs[i]
  BY <1>1, <1>4, AppendProperties
<1>6. y \in QueueType /\ y.id = m.id /\ y.len = A /\ y.so = 0
  BY <1>4 DEF Fresh, QueueType
<1> HIDE DEF y
<1>7. /\ r \in Seq(QueueType) /\ Len(r) = L + 1 /\ r[L + 1] = y
      /\ \A i \in 1..L : r[i] = q[i]
  BY <1>1, <1>6, AppendProperties
<1> HIDE DEF gs, r, A
<1>8. /\ h[N + 1] = e[N] + A /\ (\A i \in 0..N : h[i] = e[i])
      /\ \A i \in 0..(N + 1) : h[i] \in Nat
  <2>1. \A i \in 0..(N + 1) : h[i] = IF i <= N THEN e[i] ELSE e[N] + A
    OBVIOUS
  <2>2. N + 1 \in 0..(N + 1) /\ ~(N + 1 <= N) /\ N \in 0..N
    BY <1>1
  <2>3. \A i \in 0..N : i \in 0..(N + 1) /\ i <= N
    BY <1>1
  <2>4. \A i \in 0..(N + 1) : i \in 0..N \/ i = N + 1
    BY <1>1
  <2>5. e[N] + A \in Nat
    BY <1>2, <1>4, <2>2
  <2> HIDE DEF h
  <2>6. h[N + 1] = e[N] + A /\ (\A i \in 0..N : h[i] = e[i])
    BY <2>1, <2>2, <2>3
  <2> QED
    BY <1>2, <2>4, <2>5, <2>6
<1>9. h \in [0..(N + 1) -> Nat]
  <2>1. h = [i \in 0..(N + 1) |-> h[i]]
    OBVIOUS
  <2> HIDE DEF h
  <2> QED
    BY <1>8, <2>1
<1> HIDE DEF h
<1>10. Ends(gs, h)
  <2>1. ASSUME NEW i \in 1..(N + 1)
        PROVE  Sendable(gs[i]) /\ h[i] = h[i - 1] + Announced(gs[i])
    <3>1. CASE i = N + 1
      <4>1. i - 1 = N /\ N \in 0..N
        BY <1>1, <3>1
      <4>2. h[i - 1] = e[N]
        BY <1>8, <4>1
      <4> QED
        BY <1>5, <1>8, <3>1, <4>2 DEF A
    <3>2. CASE i # N + 1
      <4>1. i \in 1..N /\ i \in 0..N /\ i - 1 \in 0..N
        BY <1>1, <3>2
      <4>2. Sendable(fs[i]) /\ e[i] = e[i - 1] + Announced(fs[i])
        BY <4>1 DEF Ends
      <4> QED
        BY <1>5, <1>8, <4>1, <4>2
    <3> QED
      BY <3>1, <3>2
  <2>2. h[0] = 0
    <3>1. 0 \in 0..N
      BY <1>1
    <3> QED
      BY <1>2, <1>8, <3>1
  <2> QED
    BY <1>5, <1>9, <2>1, <2>2 DEF Ends
<1>11. Begun(gs, h, in)
  <2>1. in \in Seq(CellType) /\ p <= e[N]
    BY DEF Begun
  <2>4. e[N] \in Nat
    BY <1>1, <1>2
  <2>2. p <= h[N + 1]
    BY <1>1, <1>4, <1>8, <2>1, <2>4
  <2>3. ASSUME NEW i \in 1..(N + 1), NEW c \in 1..Announced(gs[i]), h[i - 1] + c <= p
        PROVE  in[h[i - 1] + c] = CellOf(gs[i], c)
    <3>1. CASE i = N + 1
      <4>1. i - 1 = N /\ N \in 0..N
        BY <1>1, <3>1
      <4>2. h[i - 1] = e[N] /\ gs[i] = m
        BY <1>5, <1>8, <3>1, <4>1
      <4>3. c \in Nat /\ c >= 1
        BY <1>4, <4>2 DEF A
      <4> QED
        BY <1>1, <2>1, <2>3, <2>4, <4>2, <4>3
    <3>2. CASE i # N + 1
      <4>1. i \in 1..N /\ i \in 0..N /\ i - 1 \in 0..N
        BY <1>1, <3>2
      <4>2. gs[i] = fs[i] /\ h[i - 1] = e[i - 1]
        BY <1>5, <1>8, <4>1
      <4> QED
        BY <2>3, <4>1, <4>2 DEF Begun
    <3> QED
      BY <3>1, <3>2
  <2> QED
    BY <1>5, <2>1, <2>2, <2>3 DEF Begun
<1>12. Queued(gs, h, in, r)
  <2>1. (N + 1) - (L + 1) = K /\ L + 1 <= N + 1 /\ K \in 0..N
    BY <1>1
  <2>2. h[K] = e[K] /\ e[K] <= p
    BY <1>8, <2>1 DEF Queued
  <2>3. r # <<>> /\ p < h[K + 1]
    <3>1. r # <<>>
      BY <1>1, <1>7, EmptySeq
    <3>2. CASE q = <<>>
      <4>1. L = 0 /\ p = e[N] /\ K = N
        BY <1>1, <3>2 DEF Queued
      <4>2. e[N] \in Nat
        BY <1>1, <1>2
      <4>3. h[K + 1] = e[N] + A
        BY <1>8, <4>1
      <4> QED
        BY <1>4, <3>1, <4>1, <4>2, <4>3
    <3>3. CASE q # <<>>
      <4>1. p < e[K + 1]
        BY <3>3 DEF Queued
      <4>2. L # 0
        BY <1>1, <3>3, EmptySeq
      <4>3. K + 1 \in 0..N
        BY <1>1, <4>2
      <4> QED
        BY <1>8, <3>1, <4>1, <4>3
    <3> QED
      BY <3>2, <3>3
  <2>4. ASSUME NEW i \in 1..(L + 1)
        PROVE  LET g == gs[K + i]
               IN /\ r[i].id = g.id /\ r[i].len = Announced(g)
                  /\ r[i].so = (IF i = 1 THEN p - e[K] ELSE 0)
                  /\ Kind[g.id] = "manifest" => r[i].so # Announced(g) - 1
    <3>1. CASE i = L + 1
      <4>1. K + i = N + 1
        BY <1>1, <3>1
      <4>2. gs[K + i] = m /\ r[i] = y
        BY <1>5, <1>7, <3>1, <4>1
      <4>3. r[i].so = (IF i = 1 THEN p - e[K] ELSE 0)
        <5>1. CASE i = 1
          <6>1. L = 0
            BY <1>1, <3>1, <5>1
          <6>2. q = <<>>
            BY <1>1, <6>1, EmptySeq
          <6>3. p = e[N] /\ K = N
            BY <1>1, <6>1, <6>2 DEF Queued
          <6> QED
            BY <1>1, <1>6, <4>2, <5>1, <6>3
        <5>2. CASE i # 1
          BY <1>6, <4>2, <5>2
        <5> QED
          BY <5>1, <5>2
      <4>4. Kind[m.id] = "manifest" => 0 # A - 1
        BY <1>4
      <4> QED
        BY <1>6, <4>2, <4>3, <4>4 DEF A
    <3>2. CASE i # L + 1
      <4>1. i \in 1..L /\ K + i \in 1..N
        BY <1>1, <3>2
      <4>2. gs[K + i] = fs[K + i] /\ r[i] = q[i]
        BY <1>5, <1>7, <4>1
      <4> QED
        BY <4>1, <4>2 DEF Queued, Out
    <3> QED
      BY <3>1, <3>2
  <2> HIDE DEF K, N, L
  <2>5. \A i \in 1..(L + 1) :
          LET g == gs[K + i]
          IN /\ r[i].id = g.id /\ r[i].len = Announced(g)
             /\ r[i].so = (IF i = 1 THEN p - h[K] ELSE 0)
             /\ Kind[g.id] = "manifest" => r[i].so # Announced(g) - 1
    BY <2>2, <2>4
  <2>6. Len(gs) - Len(r) = K /\ Len(r) <= Len(gs)
    BY <1>5, <1>7, <2>1
  <2> HIDE DEF p
  <2> QED
    BY <1>7, <2>2, <2>3, <2>5, <2>6 DEF Queued, Out, p
<1> QED
  BY <1>10, <1>11, <1>12 DEF gs, r, y

\* A reply that is read, whole: the first.
ReadWhole(m, in) ==
  LET n == Head(in)[3]
      msg == SubSeq(in, 1, n)
  IN /\ WellFormed(msg)
     /\ [i \in 1..(n - 1 - Trailer(Head(in)[1])) |-> msg[i + 1][3]] = ChunkOf(m)

LEMMA FirstHeads ==
  ASSUME NEW fs, NEW e, NEW in, Ends(fs, e), Begun(fs, e, in), in # <<>>
  PROVE  /\ fs # <<>> /\ 1 \in 1..Len(fs) /\ Sendable(fs[1]) /\ e[1] = Announced(fs[1])
         /\ Head(in) = <<fs[1].id, "head", Announced(fs[1])>>
<1>1. /\ fs \in Seq(Replies) /\ in \in Seq(CellType) /\ Len(in) <= e[Len(fs)] /\ e[0] = 0
      /\ Len(fs) \in Nat
  BY LenProperties DEF Ends, Begun
<1>2. Len(in) \in Nat /\ Len(in) >= 1 /\ Head(in) = in[1]
  <2>1. Len(in) \in Nat /\ Len(in) # 0
    BY <1>1, EmptySeq
  <2>2. Head(in) = in[1]
    BY <1>1, HeadTailProperties
  <2> QED
    BY <2>1, <2>2
<1>3. Len(fs) # 0
  BY <1>1, <1>2
<1>4. fs # <<>> /\ 1 \in 1..Len(fs)
  BY <1>1, <1>3, EmptySeq
<1>5. Sendable(fs[1]) /\ e[1] = e[1 - 1] + Announced(fs[1])
  BY <1>4 DEF Ends
<1>6. Announced(fs[1]) \in Nat \ {0}
  BY <1>5, SendableCells DEF CellsAre
<1>7. in[0 + 1] = CellOf(fs[1], 1)
  <2>1. 1 \in 1..Announced(fs[1]) /\ e[1 - 1] + 1 = 1
    BY <1>1, <1>6
  <2>2. e[1 - 1] + 1 <= Len(in)
    BY <1>2, <2>1
  <2>3. in[e[1 - 1] + 1] = CellOf(fs[1], 1)
    BY <1>4, <2>1, <2>2 DEF Begun
  <2> QED
    BY <2>1, <2>3
<1> QED
  BY <1>1, <1>2, <1>4, <1>5, <1>6, <1>7 DEF CellOf

LEMMA FirstIsWhole ==
  ASSUME NEW fs, NEW e, NEW in, Ends(fs, e), Begun(fs, e, in), in # <<>>,
         Len(in) >= Announced(fs[1])
  PROVE  ReadWhole(fs[1], in)
<1> DEFINE m == fs[1]
           A == Announced(m)
           d == ChunkOf(m)
           r == m.id
           t == Trailer(r)
           msg == SubSeq(in, 1, A)
           body == SubSeq(msg, 2, A - t)
<1>1. /\ 1 \in 1..Len(fs) /\ Sendable(m) /\ Head(in) = <<r, "head", A>>
  BY FirstHeads
<1>2. CellsAre(m)
  BY <1>1, SendableCells
<1>3. /\ d \in Seq(Nat) /\ Len(d) \in Nat /\ t \in Nat /\ A = 1 + Len(d) + t /\ A \in Nat \ {0}
      /\ r \in Request
  BY <1>2 DEF CellsAre
<1>4. \A c \in 1..A : in[c] = CellOf(m, c)
  <2>1. e[1 - 1] = 0
    BY DEF Ends
  <2>2. ASSUME NEW c \in 1..A
        PROVE  in[c] = CellOf(m, c)
    <3>1. e[1 - 1] + c = c /\ c <= Len(in)
      <4>1. in \in Seq(CellType)
        BY DEF Begun
      <4>2. Len(in) \in Nat
        BY <4>1, LenProperties
      <4> QED
        BY <1>3, <2>1, <4>2
    <3>2. e[1 - 1] + c <= Len(in)
      BY <3>1
    <3>3. in[e[1 - 1] + c] = CellOf(fs[1], c)
      BY <1>1, <3>2 DEF Begun
    <3> QED
      BY <3>1, <3>3
  <2> QED
    BY <2>2
<1>5. msg \in Seq(CellType) /\ Len(msg) = A /\ \A c \in 1..A : msg[c] = CellOf(m, c)
  <2>1. in \in Seq(CellType) /\ A \in 0..Len(in)
    <3>1. in \in Seq(CellType)
      BY DEF Begun
    <3>2. Len(in) \in Nat
      BY <3>1, LenProperties
    <3> QED
      BY <1>3, <3>1, <3>2
  <2> HIDE DEF A
  <2>2. msg \in Seq(CellType) /\ Len(msg) = A /\ \A c \in 1..A : msg[c] = in[c]
    BY <2>1, FirstPlaces
  <2> QED
    BY <1>4, <2>2
<1> HIDE DEF msg
<1>6. msg[1] = <<r, "head", A>>
  BY <1>3, <1>5 DEF CellOf
<1>7. ASSUME NEW i \in 1..Len(d)
      PROVE  msg[i + 1] = <<r, "data", d[i]>>
  <2>1. i + 1 \in 1..A /\ i + 1 # 1 /\ i + 1 <= 1 + Len(d) /\ (i + 1) - 1 = i
    BY <1>3
  <2>2. msg[i + 1] = CellOf(m, i + 1)
    BY <1>5, <2>1
  <2> QED
    BY <2>1, <2>2 DEF CellOf
<1>8. ASSUME NEW i \in (A - t + 1)..A
      PROVE  msg[i] = <<r, "null", 0>>
  <2>1. i \in 1..A /\ i # 1 /\ ~(i <= 1 + Len(d))
    BY <1>3
  <2>2. msg[i] = CellOf(m, i)
    BY <1>5, <2>1
  <2> QED
    BY <2>1, <2>2 DEF CellOf
<1>9. /\ DOMAIN body = 1..Len(d) /\ \A i \in 1..Len(d) : body[i] = msg[i + 1]
  <2>1. \A i \in 2..(A - t) : msg[i] \in CellType
    <3>1. \A i \in 2..(A - t) : i \in 1..Len(msg)
      BY <1>3, <1>5
    <3> QED
      BY <1>5, <3>1, ElementOfSeq
  <2>2. A - t = 1 + Len(d)
    BY <1>3
  <2> HIDE DEF d, A, t
  <2>3. /\ body \in Seq(CellType)
        /\ Len(body) = IF 2 <= A - t THEN (A - t) - 2 + 1 ELSE 0
        /\ \A i \in 1..((A - t) - 2 + 1) : body[i] = msg[2 + i - 1]
    BY <1>3, <2>1, SubSeqProperties
  <2>4. Len(body) = Len(d)
    BY <1>3, <2>2, <2>3
  <2>5. \A i \in 1..Len(d) : i \in 1..((A - t) - 2 + 1) /\ 2 + i - 1 = i + 1
    BY <1>3, <2>2
  <2>6. DOMAIN body = 1..Len(body)
    BY <2>3
  <2> QED
    BY <2>3, <2>4, <2>5, <2>6
<1>10. WellFormed(msg)
  <2>1. msg[1][1] = r
    BY <1>6
  <2>2. Len(msg) = A
    BY <1>5
  <2>3. \A i \in DOMAIN body : body[i][1] = r /\ body[i][2] = "data"
    <3>1. ASSUME NEW i \in 1..Len(d)
          PROVE  body[i][1] = r /\ body[i][2] = "data"
      <4>1. msg[i + 1] = <<r, "data", d[i]>> /\ body[i] = msg[i + 1]
        BY <1>7, <1>9
      <4> HIDE DEF body
      <4> QED
        BY <4>1
    <3> HIDE DEF body, d, r
    <3> QED
      BY <1>9, <3>1
  <2> HIDE DEF d, A, t
  <2>4. \A i \in DOMAIN SubSeq(msg, 2, Len(msg) - Trailer(r)) :
          /\ SubSeq(msg, 2, Len(msg) - Trailer(r))[i][1] = r
          /\ SubSeq(msg, 2, Len(msg) - Trailer(r))[i][2] = "data"
    BY <2>2, <2>3 DEF t
  <2>5. \A i \in (Len(msg) - Trailer(r) + 1)..Len(msg) : msg[i] = <<r, "null", 0>>
    BY <1>8, <2>2 DEF t
  <2> HIDE DEF body
  <2> QED
    BY <2>1, <2>4, <2>5 DEF WellFormed
<1>11. [i \in 1..(A - 1 - t) |-> msg[i + 1][3]] = d
  <2>1. A - 1 - t = Len(d)
    BY <1>3
  <2>2. \A i \in 1..Len(d) : msg[i + 1][3] = d[i]
    BY <1>7
  <2>3. d = [i \in 1..Len(d) |-> d[i]]
    BY <1>3
  <2> HIDE DEF d, A, t
  <2> QED
    BY <2>1, <2>2, <2>3
<1>12. Head(in)[3] = A /\ Head(in)[1] = r
  BY <1>1
<1> HIDE DEF A, d, r, t, body
<1> QED
  BY <1>10, <1>11, <1>12 DEF ReadWhole, msg, t, d, A, r

\* The first is taken from the line.
LEMMA FirstIsTaken ==
  ASSUME NEW fs, NEW e, NEW in, Ends(fs, e), Begun(fs, e, in), in # <<>>,
         Len(in) >= Announced(fs[1])
  PROVE  \E h : /\ Ends(Tail(fs), h) /\ Begun(Tail(fs), h, From(in, Announced(fs[1])))
                /\ \A q : Queued(fs, e, in, q) => Queued(Tail(fs), h, From(in, Announced(fs[1])), q)
<1> DEFINE m == fs[1]
           A == Announced(m)
           N == Len(fs)
           p == Len(in)
           gs == Tail(fs)
           after == From(in, A)
           h == [i \in 0..(N - 1) |-> e[i + 1] - A]
<1>1. /\ fs # <<>> /\ 1 \in 1..N /\ Sendable(m) /\ e[1] = A
  BY FirstHeads
<1>2. A \in Nat \ {0}
  BY <1>1, SendableCells DEF CellsAre
<1>3. /\ fs \in Seq(Replies) /\ N \in Nat /\ N >= 1 /\ (\A i \in 0..N : e[i] \in Nat)
      /\ e[0] = 0
  BY <1>1, LenProperties DEF Ends
<1>4. /\ gs \in Seq(Replies) /\ Len(gs) = N - 1 /\ \A i \in 1..(N - 1) : gs[i] = fs[i + 1]
  BY <1>1, <1>3, HeadTailProperties
<1>5. in \in Seq(CellType) /\ p \in Nat /\ p <= e[N]
  BY LenProperties DEF Begun
<1> HIDE DEF A, gs, p
<1>6. /\ after \in Seq(CellType) /\ Len(after) = p - A /\ \A i \in 1..(p - A) : after[i] = in[A + i]
  <2>1. A \in 0..Len(in)
    BY <1>2, <1>5 DEF A, p
  <2> QED
    BY <1>5, <2>1, FromIs DEF p
<1> HIDE DEF after
<1>7. \A i \in 1..N : e[i] >= A /\ e[i] \in Nat
  <2>1. \A i \in 1..N : e[1] <= e[i]
    <3>1. \A i \in 1..N : 1 \in 0..N /\ i \in 0..N /\ 1 <= i
      BY <1>3
    <3> QED
      BY <3>1, EndsRise
  <2>2. \A i \in 1..N : i \in 0..N
    BY <1>3
  <2>3. \A i \in 1..N : e[i] \in Nat
    BY <1>3, <2>2
  <2> HIDE DEF N
  <2> QED
    BY <1>1, <1>2, <2>1, <2>3
<1>8. \A i \in 0..(N - 1) : h[i] = e[i + 1] - A /\ h[i] \in Nat /\ e[i + 1] \in Nat
  <2>1. ASSUME NEW i \in 0..(N - 1)
        PROVE  h[i] = e[i + 1] - A /\ h[i] \in Nat /\ e[i + 1] \in Nat
    <3>1. i + 1 \in 1..N
      BY <1>3
    <3>2. e[i + 1] >= A /\ e[i + 1] \in Nat
      BY <1>7, <3>1
    <3> QED
      BY <1>2, <3>2
  <2> QED
    BY <2>1
<1>9. h \in [0..(N - 1) -> Nat]
  <2>1. h = [i \in 0..(N - 1) |-> h[i]]
    OBVIOUS
  <2> HIDE DEF h, N
  <2> QED
    BY <1>8, <2>1
<1> HIDE DEF h
<1>10. Ends(gs, h)
  <2>1. 0 \in 0..(N - 1) /\ h[0] = 0
    <3>1. 0 \in 0..(N - 1)
      BY <1>3
    <3>2. h[0] = e[0 + 1] - A
      BY <1>8, <3>1
    <3> QED
      BY <1>1, <1>2, <3>1, <3>2
  <2>2. ASSUME NEW i \in 1..(N - 1)
        PROVE  Sendable(gs[i]) /\ h[i] = h[i - 1] + Announced(gs[i])
    <3>1. /\ i + 1 \in 1..N /\ (i + 1) - 1 = i /\ i \in 0..(N - 1) /\ i - 1 \in 0..(N - 1)
          /\ (i - 1) + 1 = i
      BY <1>3
    <3>2. Sendable(fs[i + 1]) /\ e[i + 1] = e[i] + Announced(fs[i + 1])
      BY <3>1 DEF Ends
    <3>3. h[i] = e[i + 1] - A /\ h[i - 1] = e[i] - A /\ e[i] \in Nat
      BY <1>8, <3>1
    <3>4. gs[i] = fs[i + 1]
      BY <1>4
    <3>5. Announced(fs[i + 1]) \in Nat
      BY <3>2, SendableCells DEF CellsAre
    <3> QED
      BY <1>2, <3>2, <3>3, <3>4, <3>5
  <2> QED
    BY <1>4, <1>9, <2>1, <2>2 DEF Ends
<1>11. Begun(gs, h, after)
  <2>1. Len(after) <= h[N - 1]
    <3>1. N - 1 \in 0..(N - 1) /\ (N - 1) + 1 = N
      BY <1>3
    <3>2. h[N - 1] = e[N] - A /\ e[N] \in Nat
      BY <1>8, <3>1
    <3> QED
      BY <1>2, <1>5, <1>6, <3>2
  <2>2. ASSUME NEW i \in 1..(N - 1), NEW c \in 1..Announced(gs[i]), h[i - 1] + c <= p - A
        PROVE  after[h[i - 1] + c] = CellOf(gs[i], c)
    <3>1. /\ i + 1 \in 1..N /\ (i + 1) - 1 = i /\ i - 1 \in 0..(N - 1) /\ (i - 1) + 1 = i
      BY <1>3
    <3>2. h[i - 1] = e[i] - A /\ e[i] \in Nat /\ h[i - 1] \in Nat
      BY <1>8, <3>1
    <3>3. gs[i] = fs[i + 1]
      BY <1>4
    <3>6. Announced(gs[i]) \in Nat
      <4>1. Sendable(gs[i])
        BY <1>4, <1>10 DEF Ends
      <4> QED
        BY <4>1, SendableCells DEF CellsAre
    <3>4. e[i] + c <= p /\ h[i - 1] + c \in 1..(p - A) /\ A + (h[i - 1] + c) = e[i] + c
      <4>1. c \in Nat /\ c >= 1
        BY <3>6
      <4>2. h[i - 1] + c <= p - A
        BY <2>2
      <4> QED
        BY ONLY <1>2, <1>5, <3>2, <4>1, <4>2
    <3>5. in[e[i] + c] = CellOf(fs[i + 1], c)
      <4>1. e[(i + 1) - 1] + c <= Len(in) /\ c \in 1..Announced(fs[i + 1])
        BY <3>1, <3>3, <3>4 DEF p
      <4>2. in[e[(i + 1) - 1] + c] = CellOf(fs[i + 1], c)
        BY <3>1, <4>1 DEF Begun
      <4> QED
        BY <3>1, <4>2
    <3> QED
      BY <1>6, <3>3, <3>4, <3>5
  <2> QED
    BY <1>4, <1>6, <2>1, <2>2 DEF Begun
<1>12. ASSUME NEW q, Queued(fs, e, in, q)
       PROVE  Queued(gs, h, after, q)
  <2> DEFINE L == Len(q)
             K == N - L
  <2>1. q \in Seq(QueueType) /\ L \in Nat /\ L <= N /\ e[K] <= p
    BY <1>12, LenProperties DEF Queued, p
  <2>2. L < N
    <3>1. CASE L = N
      <4>1. K = 0 /\ q # <<>>
        BY <1>3, <2>1, <3>1, EmptySeq
      <4>2. p < e[0 + 1]
        BY <1>12, <4>1 DEF Queued, p
      <4> QED
        BY <1>1, <1>2, <1>5, <4>2 DEF p, A
    <3> QED
      BY <1>3, <2>1, <3>1
  <2>3. /\ (N - 1) - L = K - 1 /\ K - 1 \in 0..(N - 1) /\ (K - 1) + 1 = K
    BY <1>3, <2>1, <2>2
  <2>4. h[K - 1] = e[K] - A /\ e[K] \in Nat /\ h[K - 1] <= p - A
    <3>1. h[K - 1] = e[K] - A /\ e[K] \in Nat
      BY <1>8, <2>3
    <3> HIDE DEF K
    <3> QED
      BY <1>2, <1>5, <2>1, <3>1
  <2>5. IF q = <<>> THEN p - A = h[N - 1] ELSE p - A < h[(K - 1) + 1]
    <3>1. CASE q = <<>>
      <4>1. p = e[N]
        BY <1>12, <3>1 DEF Queued, p
      <4>2. N - 1 \in 0..(N - 1) /\ (N - 1) + 1 = N
        BY <1>3
      <4>3. h[N - 1] = e[N] - A
        BY <1>8, <4>2
      <4> QED
        BY <3>1, <4>1, <4>3
    <3>2. CASE q # <<>>
      <4>1. p < e[K + 1]
        BY <1>12, <3>2 DEF Queued, p
      <4>2. L # 0
        BY <2>1, <3>2, EmptySeq
      <4>3. K \in 0..(N - 1)
        BY <1>3, <2>1, <2>2, <4>2
      <4>4. h[K] = e[K + 1] - A /\ e[K + 1] \in Nat
        BY <1>8, <4>3
      <4>5. p - A < h[K]
        <5> HIDE DEF K
        <5> QED
          BY <1>2, <1>5, <4>1, <4>4
      <4> QED
        BY <2>3, <3>2, <4>5
    <3> QED
      BY <3>1, <3>2
  <2>6. ASSUME NEW i \in 1..L
        PROVE  LET g == gs[(K - 1) + i]
               IN /\ q[i].id = g.id /\ q[i].len = Announced(g)
                  /\ q[i].so = (IF i = 1 THEN (p - A) - h[K - 1] ELSE 0)
                  /\ Kind[g.id] = "manifest" => q[i].so # Announced(g) - 1
    <3>1. (K - 1) + i \in 1..(N - 1) /\ ((K - 1) + i) + 1 = K + i
      BY <1>3, <2>1, <2>2
    <3>2. gs[(K - 1) + i] = fs[K + i]
      BY <1>4, <3>1
    <3>3. LET g == fs[K + i]
          IN /\ q[i].id = g.id /\ q[i].len = Announced(g)
             /\ q[i].so = (IF i = 1 THEN p - e[K] ELSE 0)
             /\ Kind[g.id] = "manifest" => q[i].so # Announced(g) - 1
      BY <1>12 DEF Queued, Out, p
    <3>4. (p - A) - h[K - 1] = p - e[K]
      <4> HIDE DEF K
      <4> QED
        BY <1>2, <1>5, <2>4
    <3> HIDE DEF K
    <3> QED
      BY <3>2, <3>3, <3>4
  <2>7. L <= N - 1
    BY <1>3, <2>1, <2>2
  <2>8. Len(gs) - L = K - 1 /\ Len(gs) = N - 1 /\ Len(after) = p - A
    BY <1>4, <1>6, <2>3
  <2> HIDE DEF K, L, N
  <2> QED
    BY <2>1, <2>4, <2>5, <2>6, <2>7, <2>8 DEF Queued, Out, L
<1> QED
  BY <1>10, <1>11, <1>12 DEF gs, after, A

-----------------------------------------------------------------------------
(* The steps.                                                              *)

\* The transaction of a request is the only one of it.
LEMMA StandsOnce ==
  ASSUME PendingInv, NEW r, NEW o, Stands(r, o)
  PROVE  \E i \in 1..Len(pending) :
           /\ pending[i] = [id |-> r, offset |-> o] /\ Of(r) = {i} /\ Min(Of(r)) = i
           /\ Trans(r) = [id |-> r, offset |-> o] /\ Of(r) # {}
           /\ Data(r) = DataAt(r, o)
<1>1. DOMAIN pending = 1..Len(pending)
  BY DEF PendingInv
<1>2. PICK i \in DOMAIN pending : pending[i] = [id |-> r, offset |-> o]
  BY DEF Stands
<1>3. Of(r) = {i}
  <2>1. \A j \in DOMAIN pending : pending[j].id = r => j = i
    BY <1>2 DEF PendingInv
  <2>2. pending[i].id = r
    BY <1>2
  <2> QED
    BY <2>1, <2>2 DEF Of
<1>4. Min({i}) = i
  <2>1. i \in Nat
    BY <1>1
  <2> QED
    BY <2>1 DEF Min
<1>5. Trans(r) = [id |-> r, offset |-> o]
  BY <1>2, <1>3, <1>4 DEF Trans
<1>6. Of(r) # {}
  BY <1>3
<1>7. Data(r) = DataAt(r, o)
  BY <1>5, <1>6 DEF Data
<1> QED
  BY <1>1, <1>2, <1>3, <1>4, <1>5, <1>6, <1>7

\* What has no chunks has no data.
LEMMA NoChunkPlaces ==
  ASSUME NEW r \in Request, ~IsChunk(r)
  PROVE  Places(r) = {0} /\ DataAt(r, 0) = <<>>
<1>1. FileSize(r) = 0 /\ Starts(r) = 0..(0 - 1)
  BY DEF IsChunk, FileSize, Starts
<1>2. Starts(r) \cup {FileSize(r)} = {0}
  BY <1>1
<1>3. Complete(r, 0)
  BY <1>1 DEF Complete
<1>4. DataAt(r, 0) = <<>>
  BY <1>2, <1>3 DEF DataAt, ChunkAt
<1> QED
  BY <1>2, <1>4 DEF Places

LEMMA NoChunkData ==
  ASSUME PendingInv, NEW r \in Request, ~IsChunk(r)
  PROVE  Data(r) = <<>>
<1>1. CASE Of(r) = {}
  BY <1>1 DEF Data
<1>2. CASE Of(r) # {}
  <2>1. Of(r) \in SUBSET Nat
    BY DEF Of, PendingInv
  <2>2. Min(Of(r)) \in Of(r)
    BY <1>2, <2>1, MinIsPlace
  <2>3. Trans(r).offset \in Places(r)
    BY <2>2 DEF Trans, Of, PendingInv
  <2>4. Trans(r).offset = 0
    BY <2>3, NoChunkPlaces
  <2> QED
    BY <1>2, <2>4, NoChunkPlaces DEF Data
<1> QED
  BY <1>1, <1>2

\* Every reply in the queue is written from its data, and a manifest's is alone.
LEMMA QueueData ==
  ASSUME PendingInv, GotInv, AloneInv, NEW fs, NEW e, Ends(fs, e), ReplyInv(fs),
         Queued(fs, e, inbox, msg_queue)
  PROVE  DataIs(fs, msg_queue)
<1> DEFINE L == Len(msg_queue)
           K == Len(fs) - L
<1>1. /\ fs \in Seq(Replies) /\ Len(fs) \in Nat /\ L \in Nat /\ L <= Len(fs)
      /\ DOMAIN msg_queue = 1..L /\ DOMAIN fs = 1..Len(fs)
  BY LenProperties DEF Ends, Queued
<1>2. ASSUME NEW i \in 1..L
      PROVE  /\ Data(msg_queue[i].id) = ChunkOf(fs[K + i])
             /\ Kind[msg_queue[i].id] = "manifest" => L = 1
  <2> DEFINE m == fs[K + i]
             r == m.id
  <2>1. K + i \in 1..Len(fs)
    BY <1>1
  <2>2. msg_queue[i].id = r
    BY DEF Queued
  <2>3. Sendable(m) /\ r \in Request
    BY <2>1 DEF Ends, Sendable, Replies
  <2>4. r \in asked /\ (IsChunk(r) => Stands(r, m.at) /\ Len(got[r]) = Place(r, m.at))
    BY <1>1, <2>1 DEF ReplyInv
  <2>5. Data(r) = ChunkOf(m)
    <3>1. CASE IsChunk(r)
      <4>1. Data(r) = DataAt(r, m.at)
        BY <2>4, <3>1, StandsOnce
      <4> QED
        BY <3>1, <4>1 DEF ChunkOf
    <3>2. CASE ~IsChunk(r)
      BY <2>3, <3>2, NoChunkData DEF ChunkOf
    <3> QED
      BY <3>1, <3>2
  <2>6. ASSUME Kind[r] = "manifest"
        PROVE  L = 1
    <3>1. IsChunk(r)
      BY <2>6 DEF IsChunk
    <3>2. ChunkGives(r, m.at) /\ ~Complete(r, m.at)
      BY <2>3, <2>6, <3>1, ChunksGive DEF Sendable
    <3>3. ~Done(r)
      BY <2>4, <3>1, <3>2, LenProperties DEF ChunkGives, Done
    <3>4. \A j \in 1..L : msg_queue[j].id = r
      <4>1. \A s \in Request \ {r} : \A j \in 1..L : msg_queue[j].id # s
        BY <1>1, <2>4, <2>6, <3>3 DEF AloneInv
      <4>2. \A j \in 1..L : msg_queue[j].id \in Request
        <5>1. msg_queue \in Seq(QueueType)
          BY DEF Queued
        <5>2. ASSUME NEW j \in 1..L
              PROVE  msg_queue[j].id \in Request
          <6>1. j \in 1..Len(msg_queue)
            OBVIOUS
          <6>2. msg_queue[j] \in QueueType
            BY ONLY <5>1, <6>1, ElementOfSeq
          <6> QED
            BY <6>2 DEF QueueType
        <5> QED
          BY <5>2
      <4> QED
        BY <4>1, <4>2
    <3>5. \A j \in 1..L : j = i
      <4>1. ASSUME NEW j \in 1..L
            PROVE  j = i
        <5>1. K + j \in 1..Len(fs) /\ msg_queue[j].id = fs[K + j].id
          BY <1>1 DEF Queued
        <5>2. fs[K + j].id = fs[K + i].id
          BY <3>4, <5>1
        <5>3. K + j = K + i
          BY <1>1, <2>1, <5>1, <5>2 DEF ReplyInv
        <5> QED
          BY <1>1, <5>3
      <4> QED
        BY <4>1
    <3>6. 1 \in 1..L /\ L \in 1..L
      BY <1>1
    <3>7. 1 = i /\ L = i
      BY <3>5, <3>6
    <3> QED
      BY <3>7
  <2> QED
    BY <2>2, <2>5, <2>6
<1> QED
  BY <1>2 DEF DataIs

\* At first there is nothing anywhere.
LEMMA InvInit == FilesInit => FileInv
<1> SUFFICES ASSUME FilesInit PROVE FileInv
  OBVIOUS
<1>1. PendingInv
  BY EmptySeq DEF FilesInit, PendingInv
<1>2. GotInv
  <2>1. \A r \in Request : got[r] = <<>>
    BY DEF FilesInit
  <2>2. <<>> \in Seq(Nat) /\ Len(<<>>) = 0 /\ 1..0 = {}
    BY EmptySeq
  <2>3. got \in [Request -> Seq(Nat)]
    BY <2>2 DEF FilesInit
  <2>4. \A r \in Request : IsChunk(r) =>
         /\ Len(got[r]) <= Len(WholeFile[r])
         /\ \A j \in 1..Len(got[r]) : got[r][j] = WholeFile[r][j]
    <3>1. \A r \in Request : IsChunk(r) => Len(WholeFile[r]) \in Nat
      <4>1. ASSUME NEW r \in Request, IsChunk(r)
            PROVE  Len(WholeFile[r]) \in Nat
        <5>1. ChunkGives(r, FirstOffset(r))
          BY <4>1, ChunksGive DEF FirstIs
        <5> QED
          BY <5>1, LenProperties DEF ChunkGives
      <4> QED
        BY <4>1
    <3> QED
      BY <2>1, <2>2, <3>1
  <2> QED
    BY <2>1, <2>3, <2>4 DEF FilesInit, GotInv
<1>3. UpInv
  BY EmptySeq DEF FilesInit, UpInv, ToSet
<1>4. AloneInv
  BY DEF FilesInit, AloneInv
<1>5. LineInv
  <2> DEFINE e == [i \in 0..0 |-> 0]
             fs == <<>>
  <2>1. fs \in Seq(Replies) /\ Len(fs) = 0 /\ DOMAIN fs = {}
    BY EmptySeq
  <2>2. e \in [0..0 -> Nat] /\ e[0] = 0
    OBVIOUS
  <2>3. 1..0 = {}
    OBVIOUS
  <2>4. inbox \in Seq(CellType) /\ Len(inbox) = 0 /\ msg_queue = <<>> /\ Len(msg_queue) = 0
    BY EmptySeq DEF FilesInit
  <2>7. msg_queue \in Seq(QueueType)
    BY EmptySeq DEF FilesInit
  <2> HIDE DEF e, fs
  <2>5. Ends(fs, e) /\ Begun(fs, e, inbox) /\ ReplyInv(fs)
    BY <2>1, <2>2, <2>3, <2>4 DEF Ends, Begun, ReplyInv
  <2>6. Queued(fs, e, inbox, msg_queue)
    BY <2>1, <2>2, <2>3, <2>4, <2>7 DEF Queued
  <2> QED
    BY <2>5, <2>6 DEF LineInv
<1> QED
  BY <1>1, <1>2, <1>3, <1>4, <1>5 DEF FileInv

\* A write puts cells in the inbox and takes as many off the queue.
LEMMA InvWrite ==
  ASSUME FileInv, Apart, Write
  PROVE  FileInv'
<1>1. PICK fs, e : /\ Ends(fs, e) /\ Begun(fs, e, inbox) /\ ReplyInv(fs)
                   /\ open => Queued(fs, e, inbox, msg_queue)
  BY DEF FileInv, LineInv
<1>2. /\ open /\ open' = open /\ pending' = pending /\ up' = up /\ asked' = asked /\ got' = got
      /\ garbled' = garbled
  BY DEF Write
<1>3. PICK n \in 1..Len(Fill(msg_queue)) :
        /\ Split \/ ~MidTrailer(Written(msg_queue, n))
        /\ inbox' = inbox \o SubSeq(Fill(msg_queue), 1, n)
        /\ msg_queue' = Written(msg_queue, n)
  BY DEF Write
<1>4. Queued(fs, e, inbox, msg_queue) /\ DataIs(fs, msg_queue)
  BY <1>1, <1>2, QueueData DEF FileInv
<1> DEFINE F == Fill(msg_queue)
           r == Written(msg_queue, n)
<1>5. F \in Seq(CellType) /\ inbox \in Seq(CellType)
  <2>1. StartsWell(fs, e, inbox, msg_queue, Starting(fs, e, inbox, msg_queue))
    BY <1>1, <1>4, StartsAre DEF Begun
  <2>2. Line(Unsent(fs, msg_queue), msg_queue, Starting(fs, e, inbox, msg_queue))
    BY <2>1 DEF StartsWell
  <2> QED
    BY <1>1, <2>2, FillIs DEF FillsUp, Begun
<1>6. n \in Nat /\ n > 0 /\ n <= Len(F) /\ n \in 0..Len(F)
  <2>1. Len(F) \in Nat
    BY <1>5, LenProperties
  <2> QED
    BY <2>1
<1>7. Wrote(inbox, F, n, inbox')
  BY <1>3, <1>5, <1>6, WroteIs
<1> HIDE DEF r
<1>8. Begun(fs, e, inbox') /\ Len(inbox) + n <= e[Len(fs)]
  BY <1>1, <1>4, <1>6, <1>7, WriteBegins
<1>9. (\A x \in Request : Kind[x] # "manifest") \/ ~MidTrailer(r)
  BY <1>3 DEF Apart, r
<1>10. /\ Queued(fs, e, inbox', r)
       /\ \A i \in DOMAIN r : \E j \in DOMAIN msg_queue : r[i].id = msg_queue[j].id
  <2>1. Len(inbox') = Len(inbox) + n
    BY <1>7 DEF Wrote
  <2> QED
    BY <1>1, <1>4, <1>6, <1>8, <1>9, <2>1, WriteKeeps DEF r
<1>11. msg_queue' = r
  BY <1>3 DEF r
<1>12. PendingInv' /\ GotInv' /\ UpInv'
  BY <1>2 DEF FileInv, PendingInv, GotInv, UpInv, Sent, AckInv, Stands, Of
<1>13. AloneInv'
  BY <1>2, <1>10, <1>11 DEF FileInv, AloneInv, Done
<1>14. LineInv'
  <2>1. ReplyInv(fs)'
    BY <1>1, <1>2 DEF ReplyInv, Stands
  <2> QED
    BY <1>1, <1>8, <1>10, <1>11, <2>1 DEF LineInv
<1> QED
  BY <1>12, <1>13, <1>14 DEF FileInv

\* A new request has no transaction, no reply and no data.
LEMMA InvAsk ==
  ASSUME FileInv, Apart, NEW x \in Request, Ask(x)
  PROVE  FileInv'
<1> DEFINE q == <<"ask", x>>
<1>1. /\ x \notin asked /\ asked' = asked \cup {x} /\ up' = Append(up, q)
      /\ pending' = pending /\ msg_queue' = msg_queue /\ open' = open /\ inbox' = inbox
      /\ got' = got /\ garbled' = garbled
  BY DEF Ask
<1>2. up \in Seq({"ask", "ack"} \X Request) /\ q \in {"ask", "ack"} \X Request
  BY DEF FileInv, UpInv
<1>3. /\ up' \in Seq({"ask", "ack"} \X Request) /\ Len(up') = Len(up) + 1 /\ Len(up) \in Nat
      /\ up'[Len(up) + 1] = q /\ (\A i \in 1..Len(up) : up'[i] = up[i])
      /\ DOMAIN up = 1..Len(up) /\ DOMAIN up' = 1..(Len(up) + 1)
  <2> HIDE DEF q
  <2>1. /\ up' \in Seq({"ask", "ack"} \X Request) /\ Len(up') = Len(up) + 1
        /\ up'[Len(up) + 1] = q /\ \A i \in 1..Len(up) : up'[i] = up[i]
    BY ONLY <1>1, <1>2, AppendProperties
  <2>2. DOMAIN up = 1..Len(up) /\ Len(up) \in Nat /\ DOMAIN up' = 1..Len(up')
    BY <1>2, <2>1, LenProperties
  <2> QED
    BY <2>1, <2>2
<1>4. q[1] = "ask" /\ q[2] = x
  OBVIOUS
<1>5. \A i \in 1..(Len(up) + 1) : i \in 1..Len(up) \/ i = Len(up) + 1
  BY <1>3
<1>6. \A i \in 1..Len(up) : up[i][2] # x
  <2>1. \A w \in ToSet(up) : w[2] \in asked
    BY DEF FileInv, UpInv, Sent
  <2>2. \A i \in 1..Len(up) : up[i] \in ToSet(up)
    BY <1>3 DEF ToSet
  <2> QED
    BY <1>1, <2>1, <2>2
<1>7. Of(x) = {} /\ got[x] = <<>>
  BY <1>1 DEF FileInv, PendingInv, GotInv, Of
<1> HIDE DEF q
<1>8. PendingInv'
  BY <1>1 DEF FileInv, PendingInv
<1>9. GotInv'
  BY <1>1 DEF FileInv, GotInv
<1>10. UpInv'
  <2>1. \A i, j \in DOMAIN up' : up'[i][2] = up'[j][2] => i = j
    BY <1>3, <1>4, <1>5, <1>6 DEF FileInv, UpInv
  <2>2. \A w : Sent(w) => Sent(w)'
    BY <1>1 DEF Sent, Of, AckInv, Stands
  <2>3. Sent(q)'
    BY <1>1, <1>4, <1>7 DEF Sent, Of
  <2>4. \A w \in ToSet(up)' : w = q \/ w \in ToSet(up)
    BY <1>3, <1>5 DEF ToSet
  <2>5. \A w \in ToSet(up)' : Sent(w)'
    BY <2>2, <2>3, <2>4 DEF FileInv, UpInv
  <2> QED
    BY <1>3, <2>1, <2>5 DEF UpInv
<1>11. AloneInv'
  <2> SUFFICES ASSUME NEW r \in asked', Kind[r] = "manifest", ~Done(r)',
                      NEW s \in Request \ {r}
               PROVE  /\ \A i \in DOMAIN up' : up'[i] # <<"ask", s>>
                      /\ \A i \in DOMAIN msg_queue' : msg_queue'[i].id # s
                      /\ IsChunk(s) /\ s \in asked' => Done(s)'
    BY DEF AloneInv
  <2>1. r \in Request
    BY <1>1 DEF FileInv, GotInv
  <2>2. Alone
    BY <2>1 DEF Apart
  <2>3. \A y : Done(y)' <=> Done(y)
    BY <1>1 DEF Done
  <2>4. r = x
    <3>1. CASE r \in asked
      <4>1. r \in Outstanding
        BY <2>3, <3>1 DEF Outstanding, IsChunk
      <4> QED
        BY <2>2, <4>1 DEF Ask
    <3> QED
      BY <1>1, <3>1
  <2>5. Outstanding = {} /\ up = <<>> /\ msg_queue = <<>>
    BY <2>2, <2>4 DEF Ask
  <2>6. Len(up) = 0
    BY <2>5
  <2>7. \A i \in DOMAIN up' : up'[i] = q
    BY <1>3, <2>6
  <2>8. q # <<"ask", s>>
    BY <2>4 DEF q
  <2>9. DOMAIN msg_queue' = {}
    BY <1>1, <2>5
  <2>10. IsChunk(s) /\ s \in asked' => Done(s)'
    BY <1>1, <2>3, <2>4, <2>5 DEF Outstanding
  <2> QED
    BY <2>7, <2>8, <2>9, <2>10
<1>12. LineInv'
  <2>1. PICK fs, e : /\ Ends(fs, e) /\ Begun(fs, e, inbox) /\ ReplyInv(fs)
                     /\ open => Queued(fs, e, inbox, msg_queue)
    BY DEF FileInv, LineInv
  <2>2. ReplyInv(fs)'
    <3>1. \A i \in DOMAIN fs : fs[i].id \in asked /\ \A u \in DOMAIN up : up[u][2] # fs[i].id
      BY <2>1 DEF ReplyInv
    <3>2. \A i \in DOMAIN fs : \A u \in DOMAIN up' : up'[u][2] # fs[i].id
      BY <1>1, <1>3, <1>4, <1>5, <3>1
    <3> QED
      BY <1>1, <2>1, <3>2 DEF ReplyInv, Stands
  <2> QED
    BY <1>1, <2>1, <2>2 DEF LineInv
<1> QED
  BY <1>8, <1>9, <1>10, <1>11, <1>12 DEF FileInv

\* What a client has read it may acknowledge.
LEMMA Acknowledged ==
  ASSUME FileInv, NEW x \in Request, x \in asked, \A u \in DOMAIN up : up[u][2] # x,
         pending' = pending, asked' = asked, IsChunk(x), AckInv(x)',
         \A y \in Request : y # x => got'[y] = got[y],
         up' = Append(up, <<"ack", x>>)
  PROVE  UpInv'
<1> DEFINE q == <<"ack", x>>
<1>2. up \in Seq({"ask", "ack"} \X Request) /\ q \in {"ask", "ack"} \X Request
  BY DEF FileInv, UpInv
<1>4. q[1] = "ack" /\ q[2] = x
  OBVIOUS
<1>3. /\ up' \in Seq({"ask", "ack"} \X Request) /\ Len(up') = Len(up) + 1 /\ Len(up) \in Nat
      /\ up'[Len(up) + 1] = q /\ (\A i \in 1..Len(up) : up'[i] = up[i])
      /\ DOMAIN up = 1..Len(up) /\ DOMAIN up' = 1..(Len(up) + 1)
  <2>0. up' = Append(up, q)
    OBVIOUS
  <2> HIDE DEF q
  <2>1. /\ up' \in Seq({"ask", "ack"} \X Request) /\ Len(up') = Len(up) + 1
        /\ up'[Len(up) + 1] = q /\ \A i \in 1..Len(up) : up'[i] = up[i]
    BY ONLY <2>0, <1>2, AppendProperties
  <2>2. DOMAIN up = 1..Len(up) /\ Len(up) \in Nat /\ DOMAIN up' = 1..Len(up')
    BY <1>2, <2>1, LenProperties
  <2> QED
    BY <2>1, <2>2
<1> HIDE DEF q
<1>5. \A i \in 1..(Len(up) + 1) : i \in 1..Len(up) \/ i = Len(up) + 1
  BY <1>3
<1>6. \A i, j \in DOMAIN up' : up'[i][2] = up'[j][2] => i = j
  <2>1. ASSUME NEW i \in DOMAIN up', NEW j \in DOMAIN up', up'[i][2] = up'[j][2]
        PROVE  i = j
    <3>1. CASE i \in 1..Len(up) /\ j \in 1..Len(up)
      BY <1>3, <2>1, <3>1 DEF FileInv, UpInv
    <3>2. CASE ~(i \in 1..Len(up) /\ j \in 1..Len(up))
      BY <1>3, <1>4, <1>5, <2>1, <3>2
    <3> QED
      BY <3>1, <3>2
  <2> QED
    BY <2>1
<1>7. ASSUME NEW w \in ToSet(up)
      PROVE  Sent(w)'
  <2>1. Sent(w) /\ w[2] # x
    BY <1>7 DEF FileInv, UpInv, ToSet
  <2>2. w[2] \in Request
    BY <2>1 DEF FileInv, GotInv, Sent
  <2>3. got'[w[2]] = got[w[2]]
    BY <2>1, <2>2
  <2> QED
    BY <2>1, <2>3 DEF Sent, Of, AckInv, Stands
<1>8. Sent(q)'
  BY <1>4 DEF Sent
<1>9. \A w \in ToSet(up)' : w = q \/ w \in ToSet(up)
  BY <1>3, <1>5 DEF ToSet
<1> QED
  BY <1>3, <1>6, <1>7, <1>8, <1>9 DEF UpInv

\* A message that is read whole: its data is what comes next of its file.
LEMMA InvReceive ==
  ASSUME FileInv, Receive
  PROVE  FileInv'
<1> DEFINE f0 == Head(inbox)
<1>1. PICK fs, e : /\ Ends(fs, e) /\ Begun(fs, e, inbox) /\ ReplyInv(fs)
                   /\ open => Queued(fs, e, inbox, msg_queue)
  BY DEF FileInv, LineInv
<1>2. /\ pending' = pending /\ msg_queue' = msg_queue /\ open' = open /\ asked' = asked
      /\ inbox # <<>>
  BY DEF Receive
<1>3. /\ fs # <<>> /\ 1 \in 1..Len(fs) /\ Sendable(fs[1])
      /\ Head(inbox) = <<fs[1].id, "head", Announced(fs[1])>>
  BY <1>1, <1>2, FirstHeads
<1> DEFINE m == fs[1]
           x == m.id
           A == Announced(m)
           d == ChunkOf(m)
<1>4. /\ Head(inbox)[1] = x /\ Head(inbox)[2] = "head" /\ Head(inbox)[3] = A
  BY <1>3
<1>5. x \in Request /\ d \in Seq(Nat) /\ Len(d) \in Nat
  BY <1>3, SendableCells DEF CellsAre
<1>6. Len(inbox) >= A /\ inbox' = From(inbox, A)
  BY <1>4 DEF Receive
<1>7. ReadWhole(m, inbox)
  BY <1>1, <1>2, <1>6, FirstIsWhole
<1>8. /\ got' = [got EXCEPT ![x] = @ \o d] /\ garbled' = garbled
      /\ up' = IF IsChunk(x) THEN Append(up, <<"ack", x>>) ELSE up
  BY <1>4, <1>7 DEF Receive, ReadWhole
<1>9. DOMAIN fs = 1..Len(fs) /\ fs \in Seq(Replies) /\ Len(fs) \in Nat
  BY <1>1, LenProperties DEF Ends
<1>10. /\ x \in asked /\ (\A u \in DOMAIN up : up[u][2] # x)
       /\ IsChunk(x) => Stands(x, m.at) /\ Len(got[x]) = Place(x, m.at)
  BY <1>1, <1>3, <1>9 DEF ReplyInv
<1>11. got \in [Request -> Seq(Nat)] /\ got[x] \in Seq(Nat)
  BY <1>5 DEF FileInv, GotInv
<1>12. /\ got[x] \o d \in Seq(Nat) /\ Len(got[x]) \in Nat /\ Len(got[x] \o d) = Len(got[x]) + Len(d)
       /\ \A j \in 1..(Len(got[x]) + Len(d)) :
            (got[x] \o d)[j] = IF j <= Len(got[x]) THEN got[x][j] ELSE d[j - Len(got[x])]
  <2> HIDE DEF x, d
  <2> QED
    BY ONLY <1>5, <1>11, ConcatProperties, LenProperties
<1>13. got'[x] = got[x] \o d /\ \A y \in Request : y # x => got'[y] = got[y]
  BY <1>5, <1>8, <1>11
<1>14. got' \in [Request -> Seq(Nat)]
  BY <1>5, <1>8, <1>11, <1>12
<1> HIDE DEF m, x, A, d
<1>15. IsChunk(x) => m.at \in Places(x) /\ d = DataAt(x, m.at) /\ ChunkGives(x, m.at)
  <2>1. ASSUME IsChunk(x)
        PROVE  m.at \in Places(x) /\ d = DataAt(x, m.at) /\ ChunkGives(x, m.at)
    <3>1. m.at \in Places(x)
      BY <1>3, <2>1 DEF Sendable, m, x
    <3>2. d = DataAt(x, m.at)
      BY <2>1 DEF d, ChunkOf, x
    <3> QED
      BY <1>5, <2>1, <3>1, <3>2, ChunksGive
  <2> QED
    BY <2>1
<1>16. ~IsChunk(x) => d = <<>>
  BY DEF d, ChunkOf, x
<1>17. IsChunk(x) =>
         /\ Len(got'[x]) = Place(x, NextOffset(x, m.at))
         /\ Len(got'[x]) <= Len(WholeFile[x])
         /\ \A j \in 1..Len(got'[x]) : got'[x][j] = WholeFile[x][j]
  <2>1. ASSUME IsChunk(x)
        PROVE  /\ Len(got'[x]) = Place(x, NextOffset(x, m.at))
               /\ Len(got'[x]) <= Len(WholeFile[x])
               /\ \A j \in 1..Len(got'[x]) : got'[x][j] = WholeFile[x][j]
    <3> DEFINE g == Len(got[x])
               k == Len(d)
               c == Place(x, m.at)
    <3>1. /\ g = c /\ g \in Nat /\ k \in Nat /\ Len(got'[x]) = g + k
      BY <1>5, <1>10, <1>12, <1>13, <2>1
    <3>2. /\ Place(x, NextOffset(x, m.at)) = c + k /\ c + k <= Len(WholeFile[x])
          /\ \A j \in 1..k : d[j] = WholeFile[x][c + j]
      BY <1>15, <2>1 DEF ChunkGives
    <3>3. \A j \in 1..g : got[x][j] = WholeFile[x][j]
      BY <1>5, <2>1 DEF FileInv, GotInv
    <3>4. ASSUME NEW j \in 1..(g + k)
          PROVE  got'[x][j] = WholeFile[x][j]
      <4>1. got'[x][j] = IF j <= g THEN got[x][j] ELSE d[j - g]
        BY <1>12, <1>13
      <4>2. CASE j <= g
        <5>1. j \in 1..g
          BY <3>1, <4>2
        <5> QED
          BY <3>3, <4>1, <4>2, <5>1
      <4>3. CASE ~(j <= g)
        <5>1. j - g \in 1..k /\ c + (j - g) = j
          BY <3>1, <4>3
        <5>2. d[j - g] = WholeFile[x][c + (j - g)]
          BY <3>2, <5>1
        <5> QED
          BY <4>1, <4>3, <5>1, <5>2
      <4> QED
        BY <4>2, <4>3
    <3> HIDE DEF g, k, c
    <3> QED
      BY <3>1, <3>2, <3>4
  <2> QED
    BY <2>1
<1>18. PendingInv'
  BY <1>2 DEF FileInv, PendingInv
<1>19. GotInv'
  <2>1. \A y \in Request \ asked : got'[y] = <<>>
    BY <1>10, <1>13 DEF FileInv, GotInv
  <2>2. ASSUME NEW y \in Request, IsChunk(y)
        PROVE  /\ Len(got'[y]) <= Len(WholeFile[y])
               /\ \A j \in 1..Len(got'[y]) : got'[y][j] = WholeFile[y][j]
    <3>1. CASE y = x
      BY <1>17, <2>2, <3>1
    <3>2. CASE y # x
      BY <1>13, <2>2, <3>2 DEF FileInv, GotInv
    <3> QED
      BY <3>1, <3>2
  <2> QED
    BY <1>2, <1>8, <1>14, <2>1, <2>2 DEF FileInv, GotInv
<1>20. UpInv'
  <2>1. CASE IsChunk(x)
    <3>1. AckInv(x)'
      BY <1>2, <1>10, <1>15, <1>17, <2>1 DEF AckInv, Stands
    <3>2. up' = Append(up, <<"ack", x>>)
      BY <1>8, <2>1
    <3> QED
      BY <1>2, <1>5, <1>10, <1>13, <2>1, <3>1, <3>2, Acknowledged
  <2>2. CASE ~IsChunk(x)
    <3>1. up' = up
      BY <1>8, <2>2
    <3>2. ASSUME NEW w \in ToSet(up)
          PROVE  Sent(w)'
      <4>1. Sent(w) /\ w[2] # x
        BY <1>10, <3>2 DEF FileInv, UpInv, ToSet
      <4>2. w[2] \in Request
        BY <4>1 DEF FileInv, GotInv, Sent
      <4>3. got'[w[2]] = got[w[2]]
        BY <1>13, <4>1, <4>2
      <4> QED
        BY <1>2, <4>1, <4>3 DEF Sent, Of, AckInv, Stands
    <3> QED
      BY <3>1, <3>2 DEF FileInv, UpInv
  <2> QED
    BY <2>1, <2>2
<1>21. \A i \in DOMAIN up' : up'[i] \in ToSet(up) \/ up'[i] = <<"ack", x>>
  <2>1. CASE IsChunk(x)
    <3> DEFINE q == <<"ack", x>>
    <3>1. up \in Seq({"ask", "ack"} \X Request) /\ q \in {"ask", "ack"} \X Request
      BY <1>5 DEF FileInv, UpInv
    <3>2. up' = Append(up, q)
      BY <1>8, <2>1
    <3> HIDE DEF q
    <3>3. /\ up' \in Seq({"ask", "ack"} \X Request) /\ Len(up') = Len(up) + 1
          /\ up'[Len(up) + 1] = q /\ \A i \in 1..Len(up) : up'[i] = up[i]
      BY ONLY <3>1, <3>2, AppendProperties
    <3>4. DOMAIN up = 1..Len(up) /\ Len(up) \in Nat /\ DOMAIN up' = 1..(Len(up) + 1)
      BY <3>1, <3>3, LenProperties
    <3>5. \A i \in 1..(Len(up) + 1) : i \in 1..Len(up) \/ i = Len(up) + 1
      BY <3>4
    <3> QED
      BY <3>3, <3>4, <3>5 DEF ToSet, q
  <2>2. CASE ~IsChunk(x)
    BY <1>8, <2>2 DEF ToSet
  <2> QED
    BY <2>1, <2>2
<1>22. AloneInv'
  <2>1. ASSUME NEW y \in Request, Done(y), y \in asked, IsChunk(y)
        PROVE  Done(y)'
    <3>1. CASE y = x
      <4>1. Len(got[x]) = Len(WholeFile[x])
        BY <2>1, <3>1 DEF Done
      <4>2. Len(got'[x]) <= Len(WholeFile[x]) /\ Len(got'[x]) = Len(got[x]) + Len(d)
        BY <1>12, <1>13, <1>17, <2>1, <3>1
      <4>3. Len(got'[x]) = Len(got[x])
        BY <1>5, <1>12, <4>1, <4>2
      <4> QED
        BY <3>1, <4>1, <4>3 DEF Done
    <3>2. CASE y # x
      BY <1>13, <2>1, <3>2 DEF Done
    <3> QED
      BY <3>1, <3>2
  <2>3. \A s : <<"ack", x>> # <<"ask", s>>
    OBVIOUS
  <2> SUFFICES ASSUME NEW r \in asked', Kind[r] = "manifest", ~Done(r)',
                      NEW s \in Request \ {r}
               PROVE  /\ \A i \in DOMAIN up' : up'[i] # <<"ask", s>>
                      /\ \A i \in DOMAIN msg_queue' : msg_queue'[i].id # s
                      /\ IsChunk(s) /\ s \in asked' => Done(s)'
    BY DEF AloneInv
  <2>4. r \in asked /\ r \in Request /\ IsChunk(r)
    BY <1>2 DEF FileInv, GotInv, IsChunk
  <2>5. ~Done(r)
    BY <2>1, <2>4
  <2>6. /\ \A i \in DOMAIN up : up[i] # <<"ask", s>>
        /\ \A i \in DOMAIN msg_queue : msg_queue[i].id # s
        /\ IsChunk(s) /\ s \in asked => Done(s)
    BY <2>4, <2>5 DEF FileInv, AloneInv
  <2>7. <<"ask", s>> \notin ToSet(up)
    BY <2>6 DEF ToSet
  <2>8. \A i \in DOMAIN up' : up'[i] # <<"ask", s>>
    BY <1>21, <2>3, <2>7
  <2>9. IsChunk(s) /\ s \in asked' => Done(s)'
    BY <1>2, <2>1, <2>6
  <2> QED
    BY <1>2, <2>6, <2>8, <2>9
<1>23. LineInv'
  <2> DEFINE gs == Tail(fs)
  <2>1. PICK h : /\ Ends(gs, h) /\ Begun(gs, h, From(inbox, A))
                 /\ \A q : Queued(fs, e, inbox, q) => Queued(gs, h, From(inbox, A), q)
    BY <1>1, <1>2, <1>6, FirstIsTaken DEF A, m
  <2>2. /\ gs \in Seq(Replies) /\ Len(gs) = Len(fs) - 1 /\ DOMAIN gs = 1..(Len(fs) - 1)
        /\ \A i \in 1..(Len(fs) - 1) : gs[i] = fs[i + 1] /\ i + 1 \in 1..Len(fs) /\ i + 1 # 1
    <3>1. /\ gs \in Seq(Replies) /\ Len(gs) = Len(fs) - 1
          /\ \A i \in 1..Len(gs) : gs[i] = fs[i + 1]
      BY <1>3, <1>9, HeadTailProperties
    <3>2. \A i \in 1..(Len(fs) - 1) : i + 1 \in 1..Len(fs) /\ i + 1 # 1
      BY <1>9
    <3> QED
      BY <3>1, <3>2
  <2> HIDE DEF gs
  <2>3. \A i \in DOMAIN gs : gs[i].id # x
    BY <1>1, <1>3, <1>9, <2>2 DEF ReplyInv, x, m
  <2>4. \A u \in DOMAIN up' : up'[u][2] = x \/ \E v \in DOMAIN up : up'[u] = up[v]
    BY <1>21 DEF ToSet
  <2>5. ReplyInv(gs)'
    <3>1. \A i, j \in DOMAIN gs : gs[i].id = gs[j].id => i = j
      <4>1. ASSUME NEW i \in 1..(Len(fs) - 1), NEW j \in 1..(Len(fs) - 1), gs[i].id = gs[j].id
            PROVE  i = j
        <5>1. i + 1 = j + 1
          BY <1>1, <1>9, <2>2, <4>1 DEF ReplyInv
        <5> QED
          BY <1>9, <5>1
      <4> QED
        BY <2>2, <4>1
    <3>2. ASSUME NEW i \in DOMAIN gs
          PROVE  /\ gs[i].id \in asked'
                 /\ \A u \in DOMAIN up' : up'[u][2] # gs[i].id
                 /\ IsChunk(gs[i].id) =>
                      Stands(gs[i].id, gs[i].at)' /\ Len(got'[gs[i].id]) = Place(gs[i].id, gs[i].at)
      <4>1. i + 1 \in DOMAIN fs /\ gs[i] = fs[i + 1] /\ gs[i].id # x
        BY <1>9, <2>2, <2>3
      <4>2. /\ gs[i].id \in asked
            /\ \A u \in DOMAIN up : up[u][2] # gs[i].id
            /\ IsChunk(gs[i].id) =>
                 Stands(gs[i].id, gs[i].at) /\ Len(got[gs[i].id]) = Place(gs[i].id, gs[i].at)
        BY <1>1, <4>1 DEF ReplyInv
      <4>3. gs[i].id \in Request
        BY <4>2 DEF FileInv, GotInv
      <4>4. got'[gs[i].id] = got[gs[i].id]
        BY <1>13, <4>1, <4>3
      <4> QED
        BY <1>2, <2>4, <4>1, <4>2, <4>4 DEF Stands
    <3> QED
      BY <3>1, <3>2 DEF ReplyInv
  <2>6. open' => Queued(gs, h, inbox', msg_queue')
    BY <1>1, <1>2, <1>6, <2>1
  <2> QED
    BY <1>6, <2>1, <2>5, <2>6 DEF LineInv
<1> QED
  BY <1>18, <1>19, <1>20, <1>22, <1>23 DEF FileInv

\* A message of the client that is read is gone from those on their way.
LEMMA HeadIsRead ==
  ASSUME FileInv, up # <<>>, up' = Tail(up)
  PROVE  /\ up' \in Seq({"ask", "ack"} \X Request)
         /\ \A i, j \in DOMAIN up' : up'[i][2] = up'[j][2] => i = j
         /\ \A w \in ToSet(up)' : w \in ToSet(up) /\ w[2] # Head(up)[2]
         /\ Head(up) \in ToSet(up) /\ Sent(Head(up)) /\ Head(up)[2] \in Request
<1> DEFINE L == Len(up)
<1>1. up \in Seq({"ask", "ack"} \X Request)
  BY DEF FileInv, UpInv
<1>2. /\ L \in Nat /\ L >= 1 /\ DOMAIN up = 1..L /\ Head(up) = up[1]
      /\ up' \in Seq({"ask", "ack"} \X Request) /\ Len(up') = L - 1
      /\ \A i \in 1..Len(up') : up'[i] = up[i + 1]
  <2>1. L \in Nat /\ L # 0 /\ DOMAIN up = 1..L
    BY <1>1, EmptySeq, LenProperties
  <2>2. /\ Head(up) = up[1] /\ up' \in Seq({"ask", "ack"} \X Request) /\ Len(up') = L - 1
        /\ \A i \in 1..Len(up') : up'[i] = up[i + 1]
    BY <1>1, HeadTailProperties
  <2> QED
    BY <2>1, <2>2
<1>3. DOMAIN up' = 1..(L - 1) /\ \A i \in 1..(L - 1) : i + 1 \in 1..L /\ i + 1 # 1 /\ up'[i] = up[i + 1]
  <2>1. DOMAIN up' = 1..Len(up')
    BY <1>2
  <2>2. \A i \in 1..(L - 1) : i + 1 \in 1..L /\ i + 1 # 1
    BY <1>2
  <2> HIDE DEF L
  <2> QED
    BY <1>2, <2>1, <2>2
<1>4. 1 \in 1..L
  BY <1>2
<1>5. Head(up) \in ToSet(up) /\ Sent(Head(up))
  BY <1>2, <1>4 DEF ToSet, FileInv, UpInv
<1>6. Head(up)[2] \in Request
  BY <1>5 DEF Sent, FileInv, GotInv
<1>7. \A w \in ToSet(up)' : w \in ToSet(up) /\ w[2] # Head(up)[2]
  <2>1. ASSUME NEW i \in DOMAIN up'
        PROVE  up'[i] \in ToSet(up) /\ up'[i][2] # Head(up)[2]
    <3>1. i + 1 \in DOMAIN up /\ i + 1 # 1 /\ up'[i] = up[i + 1]
      BY <1>2, <1>3
    <3>2. up[i + 1][2] # up[1][2]
      BY <1>2, <1>4, <3>1 DEF FileInv, UpInv
    <3> QED
      BY <1>2, <3>1, <3>2 DEF ToSet
  <2> QED
    BY <2>1 DEF ToSet
<1>8. \A i, j \in DOMAIN up' : up'[i][2] = up'[j][2] => i = j
  <2>1. ASSUME NEW i \in DOMAIN up', NEW j \in DOMAIN up', up'[i][2] = up'[j][2]
        PROVE  i = j
    <3>1. i + 1 \in DOMAIN up /\ up'[i] = up[i + 1] /\ j + 1 \in DOMAIN up /\ up'[j] = up[j + 1]
      BY <1>2, <1>3
    <3>2. i + 1 = j + 1
      BY <2>1, <3>1 DEF FileInv, UpInv
    <3>3. i \in Int /\ j \in Int
      BY <1>3
    <3> QED
      BY <3>2, <3>3
  <2> QED
    BY <2>1
<1> QED
  BY <1>2, <1>5, <1>6, <1>7, <1>8

\* A reply joins the line while nothing else changes for those that stand in it.
LEMMA LineGrows ==
  ASSUME NEW fs, NEW e, Ends(fs, e), Begun(fs, e, inbox), ReplyInv(fs),
         Queued(fs, e, inbox, msg_queue),
         NEW m, Sendable(m), m.id \in asked, \A i \in DOMAIN fs : fs[i].id # m.id,
         asked' = asked, got' = got, inbox' = inbox, msg_queue' = Append(msg_queue, Fresh(m)),
         \A w \in ToSet(up)' : w \in ToSet(up) /\ w[2] # m.id,
         \A y, o : y # m.id /\ Stands(y, o) => Stands(y, o)',
         IsChunk(m.id) => Stands(m.id, m.at)' /\ Len(got[m.id]) = Place(m.id, m.at)
  PROVE  LineInv'
<1> DEFINE gs == Append(fs, m)
           N == Len(fs)
<1>1. PICK h : /\ Ends(gs, h) /\ Begun(gs, h, inbox)
               /\ Queued(gs, h, inbox, Append(msg_queue, Fresh(m)))
  BY ReplyJoins
<1>2. fs \in Seq(Replies) /\ N \in Nat /\ DOMAIN fs = 1..N /\ m \in Replies
  BY LenProperties DEF Ends, Sendable
<1>3. /\ gs \in Seq(Replies) /\ Len(gs) = N + 1 /\ gs[N + 1] = m
      /\ \A i \in 1..N : gs[i] = fs[i]
  BY <1>2, AppendProperties
<1> HIDE DEF gs
<1>4. DOMAIN gs = 1..(N + 1) /\ \A i \in 1..(N + 1) : i \in 1..N \/ i = N + 1
  BY <1>2, <1>3
<1>5. ReplyInv(gs)'
  <2>1. \A i, j \in DOMAIN gs : gs[i].id = gs[j].id => i = j
    BY <1>2, <1>3, <1>4 DEF ReplyInv
  <2>2. ASSUME NEW i \in DOMAIN gs
        PROVE  /\ gs[i].id \in asked'
               /\ \A u \in DOMAIN up' : up'[u][2] # gs[i].id
               /\ IsChunk(gs[i].id) =>
                    Stands(gs[i].id, gs[i].at)' /\ Len(got'[gs[i].id]) = Place(gs[i].id, gs[i].at)
    <3>1. CASE i = N + 1
      <4>1. gs[i] = m
        BY <1>3, <3>1
      <4>2. \A u \in DOMAIN up' : up'[u][2] # m.id
        BY DEF ToSet
      <4> QED
        BY <4>1, <4>2
    <3>2. CASE i # N + 1
      <4>1. i \in DOMAIN fs /\ gs[i] = fs[i]
        BY <1>2, <1>3, <1>4, <3>2
      <4>2. /\ fs[i].id \in asked /\ fs[i].id # m.id
            /\ \A u \in DOMAIN up : up[u][2] # fs[i].id
            /\ IsChunk(fs[i].id) =>
                 Stands(fs[i].id, fs[i].at) /\ Len(got[fs[i].id]) = Place(fs[i].id, fs[i].at)
        BY <4>1 DEF ReplyInv
      <4>3. \A u \in DOMAIN up' : up'[u][2] # fs[i].id
        BY <4>2 DEF ToSet
      <4> QED
        BY <4>1, <4>2, <4>3
    <3> QED
      BY <3>1, <3>2
  <2> QED
    BY <2>1, <2>2 DEF ReplyInv
<1>6. Queued(gs, h, inbox', msg_queue')
  BY <1>1
<1> QED
  BY <1>1, <1>5, <1>6 DEF LineInv

\* A refused name empties the queue: the line stays, of whose last reply a part may be missing.
LEMMA InvAskRefused ==
  ASSUME FileInv, AskRefused
  PROVE  FileInv'
<1>1. /\ open' = FALSE /\ msg_queue' = <<>> /\ up' = <<>> /\ pending' = pending /\ inbox' = inbox
      /\ asked' = asked /\ got' = got /\ garbled' = garbled
  BY DEF AskRefused
<1>2. /\ <<>> \in Seq({"ask", "ack"} \X Request) /\ DOMAIN up' = {} /\ DOMAIN msg_queue' = {}
  BY <1>1, EmptySeq
<1>3. PendingInv'
  BY <1>1 DEF FileInv, PendingInv
<1>4. GotInv'
  BY <1>1 DEF FileInv, GotInv
<1>5. UpInv'
  BY <1>1, <1>2 DEF UpInv, ToSet
<1>6. AloneInv'
  BY <1>1, <1>2 DEF FileInv, AloneInv, Done
<1>7. LineInv'
  <2>1. PICK fs, e : Ends(fs, e) /\ Begun(fs, e, inbox) /\ ReplyInv(fs)
    BY DEF FileInv, LineInv
  <2>2. ReplyInv(fs)'
    BY <1>1, <1>2, <2>1 DEF ReplyInv, Stands
  <2> QED
    BY <1>1, <2>1, <2>2 DEF LineInv
<1> QED
  BY <1>3, <1>4, <1>5, <1>6, <1>7 DEF FileInv

\* What a request is answered with: its first chunk, or a reply without data.
LEMMA FirstReply ==
  ASSUME NEW x \in Request, Kind[x] # "refused", NEW m, m = [id |-> x, at |-> FirstOffset(x)]
  PROVE  /\ Sendable(m) /\ FirstOffset(x) \in Places(x) /\ FirstOffset(x) \in Nat
         /\ IsChunk(x) => Place(x, FirstOffset(x)) = 0
         /\ Fresh(m) = IF IsChunk(x) THEN HeaderOf(x, FirstOffset(x)) ELSE Bare(x)
<1>1. m.id = x /\ m.at = FirstOffset(x)
  OBVIOUS
<1>2. CASE IsChunk(x)
  <2>1. FirstIs(x) /\ \A o \in Places(x) : ChunkGives(x, o) /\ o \in Nat
    BY <1>2, ChunksGive
  <2>2. FirstOffset(x) \in Places(x) /\ FirstOffset(x) \in Nat
    BY <2>1 DEF FirstIs
  <2>3. m \in Replies
    BY <2>2 DEF Replies
  <2>4. Sendable(m)
    BY <1>1, <2>1, <2>2, <2>3 DEF Sendable, FirstIs
  <2>5. Fresh(m) = HeaderOf(x, FirstOffset(x))
    BY <1>1, <1>2 DEF Fresh, HeaderOf, Announced, ChunkOf
  <2> QED
    BY <1>2, <2>1, <2>2, <2>4, <2>5 DEF FirstIs
<1>3. CASE ~IsChunk(x)
  <2>1. FirstOffset(x) = 0
    BY <1>3 DEF IsChunk, FirstOffset
  <2>2. FirstOffset(x) \in Places(x)
    BY <1>3, <2>1, NoChunkPlaces
  <2>3. m \in Replies
    BY <2>1 DEF Replies
  <2>4. Sendable(m)
    BY <1>1, <1>3, <2>3 DEF Sendable, IsChunk
  <2>5. Announced(m) = 1
    <3>1. ChunkOf(m) = <<>> /\ Trailer(x) = 0 /\ Len(<<>>) = 0
      BY <1>1, <1>3, EmptySeq DEF ChunkOf, Trailer, IsChunk
    <3> QED
      BY <1>1, <3>1 DEF Announced
  <2>6. Fresh(m) = Bare(x)
    BY <1>1, <2>5 DEF Fresh, Bare
  <2> QED
    BY <1>3, <2>1, <2>2, <2>4, <2>6
<1> QED
  BY <1>2, <1>3

\* A reply that is queued is the only new one.
LEMMA QueueGrows ==
  ASSUME FileInv, open, NEW m, Sendable(m), msg_queue' = Append(msg_queue, Fresh(m))
  PROVE  \A i \in DOMAIN msg_queue' :
           msg_queue'[i].id = m.id \/ \E j \in DOMAIN msg_queue : msg_queue'[i].id = msg_queue[j].id
<1> DEFINE y == Fresh(m)
<1>1. y.id = m.id
  BY DEF Fresh
<1>2. msg_queue \in Seq(QueueType) /\ y \in QueueType
  <2>1. \E fs, e : Queued(fs, e, inbox, msg_queue)
    BY DEF FileInv, LineInv
  <2>2. Announced(m) \in Nat /\ m.id \in Request
    BY SendableCells DEF CellsAre
  <2> QED
    BY <2>1, <2>2 DEF Queued, Fresh, QueueType
<1>3. msg_queue' = Append(msg_queue, y)
  OBVIOUS
<1> HIDE DEF y
<1>4. /\ msg_queue' \in Seq(QueueType) /\ Len(msg_queue') = Len(msg_queue) + 1
      /\ msg_queue'[Len(msg_queue) + 1] = y
      /\ \A i \in 1..Len(msg_queue) : msg_queue'[i] = msg_queue[i]
  BY ONLY <1>2, <1>3, AppendProperties
<1>5. /\ DOMAIN msg_queue = 1..Len(msg_queue) /\ Len(msg_queue) \in Nat
      /\ DOMAIN msg_queue' = 1..(Len(msg_queue) + 1)
  BY <1>2, <1>4, LenProperties
<1>6. \A i \in 1..(Len(msg_queue) + 1) : i \in 1..Len(msg_queue) \/ i = Len(msg_queue) + 1
  BY <1>5
<1> QED
  BY <1>1, <1>4, <1>5, <1>6

\* A request that is read has its transaction and its first reply, which joins the line.
LEMMA InvAskRead ==
  ASSUME FileInv, AskRead
  PROVE  FileInv'
<1>0. PICK x : x = Head(up)[2]
  OBVIOUS
<1> DEFINE m == [id |-> x, at |-> FirstOffset(x)]
           z == [id |-> x, offset |-> FirstOffset(x)]
<1>1. /\ open /\ up # <<>> /\ Head(up)[1] = "ask" /\ up' = Tail(up) /\ Kind[x] # "refused"
      /\ open' = open /\ inbox' = inbox /\ asked' = asked /\ got' = got /\ garbled' = garbled
  BY <1>0 DEF AskRead
<1>2. /\ up' \in Seq({"ask", "ack"} \X Request)
      /\ \A i, j \in DOMAIN up' : up'[i][2] = up'[j][2] => i = j
      /\ \A w \in ToSet(up)' : w \in ToSet(up) /\ w[2] # x
      /\ Head(up) \in ToSet(up) /\ Sent(Head(up)) /\ x \in Request
  BY <1>0, <1>1, HeadIsRead
<1>3. x \in asked /\ Of(x) = {} /\ got[x] = <<>>
  BY <1>0, <1>1, <1>2 DEF Sent
<1>4. /\ Sendable(m) /\ FirstOffset(x) \in Places(x) /\ FirstOffset(x) \in Nat
      /\ IsChunk(x) => Place(x, FirstOffset(x)) = 0
      /\ Fresh(m) = IF IsChunk(x) THEN HeaderOf(x, FirstOffset(x)) ELSE Bare(x)
  BY <1>1, <1>2, FirstReply
<1>5. Kind[x] \in {"download", "manifest", "missing", "ping"}
  BY <1>1, <1>2, FilesAssumption
<1>6. msg_queue' = Append(msg_queue, Fresh(m))
  BY <1>0, <1>4, <1>5 DEF AskRead, Reply, IsChunk
<1>7. pending' = IF Kind[x] = "ping" THEN pending ELSE Append(pending, z)
  BY <1>0, <1>5 DEF AskRead
<1>8. m.id = x /\ m.at = FirstOffset(x) /\ z.id = x /\ z.offset = FirstOffset(x)
  OBVIOUS
<1>9. pending \in Seq([id : Request, offset : Nat]) /\ z \in [id : Request, offset : Nat]
  BY <1>2, <1>4 DEF FileInv, PendingInv
<1> HIDE DEF m, z
<1>10. /\ pending' \in Seq([id : Request, offset : Nat])
       /\ \A i \in DOMAIN pending : i \in DOMAIN pending' /\ pending'[i] = pending[i]
       /\ \A i \in DOMAIN pending' :
            \/ i \in DOMAIN pending /\ pending'[i] = pending[i]
            \/ pending'[i] = z /\ i = Len(pending) + 1
       /\ Kind[x] # "ping" => \E i \in DOMAIN pending' : pending'[i] = z
  <2>1. CASE Kind[x] = "ping"
    BY <1>7, <1>9, <2>1
  <2>2. CASE Kind[x] # "ping"
    <3>0. pending' = Append(pending, z)
      BY <1>7, <2>2
    <3>1. /\ pending' \in Seq([id : Request, offset : Nat]) /\ Len(pending') = Len(pending) + 1
          /\ pending'[Len(pending) + 1] = z
          /\ \A i \in 1..Len(pending) : pending'[i] = pending[i]
      BY ONLY <1>9, <3>0, AppendProperties
    <3>2. Len(pending) \in Nat /\ DOMAIN pending = 1..Len(pending) /\ DOMAIN pending' = 1..(Len(pending) + 1)
      BY <1>9, <3>1, LenProperties
    <3>3. /\ \A i \in 1..(Len(pending) + 1) : i \in 1..Len(pending) \/ i = Len(pending) + 1
          /\ \A i \in 1..Len(pending) : i \in 1..(Len(pending) + 1)
          /\ Len(pending) + 1 \in 1..(Len(pending) + 1)
      BY <3>2
    <3> QED
      BY <3>1, <3>2, <3>3
  <2> QED
    BY <2>1, <2>2
<1>11. \A i \in DOMAIN pending : pending[i].id # x
  BY <1>3 DEF Of
<1>12. PendingInv'
  <2>1. ASSUME NEW i \in DOMAIN pending', NEW j \in DOMAIN pending', pending'[i].id = pending'[j].id
        PROVE  i = j
    <3>1. CASE i \in DOMAIN pending /\ pending'[i] = pending[i] /\ j \in DOMAIN pending /\ pending'[j] = pending[j]
      BY <2>1, <3>1 DEF FileInv, PendingInv
    <3>2. CASE pending'[i] = z /\ i = Len(pending) + 1
      BY <1>8, <1>10, <1>11, <2>1, <3>2
    <3>3. CASE pending'[j] = z /\ j = Len(pending) + 1
      BY <1>8, <1>10, <1>11, <2>1, <3>3
    <3> QED
      BY <1>10, <3>1, <3>2, <3>3
  <2>2. ASSUME NEW i \in DOMAIN pending'
        PROVE  pending'[i].id \in asked' /\ pending'[i].offset \in Places(pending'[i].id)
    <3>1. CASE i \in DOMAIN pending /\ pending'[i] = pending[i]
      BY <1>1, <3>1 DEF FileInv, PendingInv
    <3>2. CASE pending'[i] = z
      BY <1>1, <1>3, <1>4, <1>8, <3>2
    <3> QED
      BY <1>10, <3>1, <3>2
  <2> QED
    BY <1>10, <2>1, <2>2 DEF PendingInv
<1>13. \A y, o : Stands(y, o) => Stands(y, o)'
  BY <1>10 DEF Stands
<1>14. \A y : y # x /\ Of(y) = {} => Of(y)' = {}
  BY <1>8, <1>10 DEF Of
<1>15. GotInv'
  BY <1>1 DEF FileInv, GotInv
<1>16. UpInv'
  <2>1. ASSUME NEW w \in ToSet(up)'
        PROVE  Sent(w)'
    <3>1. Sent(w) /\ w[2] # x
      BY <1>2, <2>1 DEF FileInv, UpInv
    <3>2. AckInv(w[2]) => AckInv(w[2])'
      BY <1>1, <1>13 DEF AckInv
    <3> QED
      BY <1>1, <1>14, <3>1, <3>2 DEF Sent
  <2> QED
    BY <1>2, <2>1 DEF UpInv
<1>17. AloneInv'
  <2> SUFFICES ASSUME NEW r \in asked', Kind[r] = "manifest", ~Done(r)',
                      NEW s \in Request \ {r}
               PROVE  /\ \A i \in DOMAIN up' : up'[i] # <<"ask", s>>
                      /\ \A i \in DOMAIN msg_queue' : msg_queue'[i].id # s
                      /\ IsChunk(s) /\ s \in asked' => Done(s)'
    BY DEF AloneInv
  <2>1. \A y : Done(y)' <=> Done(y)
    BY <1>1 DEF Done
  <2>2. /\ \A y \in Request \ {r} : <<"ask", y>> \notin ToSet(up)
        /\ \A i \in DOMAIN msg_queue : msg_queue[i].id # s
        /\ IsChunk(s) /\ s \in asked => Done(s)
    BY <1>1, <2>1 DEF FileInv, AloneInv, ToSet
  <2>3. x = r
    <3>1. Head(up) = <<"ask", x>>
      <4>1. Head(up) \in {"ask", "ack"} \X Request
        <5>1. \A i \in DOMAIN up : up[i] \in {"ask", "ack"} \X Request
          <6>1. up \in Seq({"ask", "ack"} \X Request)
            BY DEF FileInv, UpInv
          <6> QED
            BY <6>1, ElementOfSeq
        <5> QED
          BY <1>2, <5>1 DEF ToSet
      <4> QED
        BY <1>0, <1>1, <4>1
    <3> QED
      BY <1>2, <2>2, <3>1
  <2>4. \A i \in DOMAIN up' : up'[i] # <<"ask", s>>
    BY <1>2, <2>2 DEF ToSet
  <2>5. \A i \in DOMAIN msg_queue' : msg_queue'[i].id # s
    <3>1. \A i \in DOMAIN msg_queue' :
            msg_queue'[i].id = x \/ \E j \in DOMAIN msg_queue : msg_queue'[i].id = msg_queue[j].id
      BY <1>1, <1>4, <1>6, <1>8, QueueGrows
    <3> QED
      BY <2>2, <2>3, <3>1
  <2> QED
    BY <1>1, <2>1, <2>2, <2>4, <2>5
<1>18. LineInv'
  <2>1. PICK fs, e : /\ Ends(fs, e) /\ Begun(fs, e, inbox) /\ ReplyInv(fs)
                     /\ Queued(fs, e, inbox, msg_queue)
    BY <1>1 DEF FileInv, LineInv
  <2>2. \A i \in DOMAIN fs : fs[i].id # x
    BY <1>0, <1>2, <2>1 DEF ReplyInv, ToSet
  <2>3. IsChunk(x) => Stands(x, m.at)' /\ Len(got[x]) = Place(x, m.at)
    <3>1. ASSUME IsChunk(x)
          PROVE  Stands(x, m.at)' /\ Len(got[x]) = Place(x, m.at)
      <4>1. Kind[x] # "ping"
        BY <3>1 DEF IsChunk
      <4>2. z = [id |-> x, offset |-> m.at]
        BY <1>8 DEF z
      <4>3. Stands(x, m.at)'
        BY <1>10, <4>1, <4>2 DEF Stands
      <4> QED
        BY <1>3, <1>4, <1>8, <3>1, <4>3, EmptySeq
    <3> QED
      BY <3>1
  <2> QED
    BY <1>1, <1>2, <1>3, <1>4, <1>6, <1>8, <1>13, <2>1, <2>2, <2>3, LineGrows
<1> QED
  BY <1>12, <1>15, <1>16, <1>17, <1>18 DEF FileInv

\* An acknowledgement finds the transaction at the chunk acknowledged, which no reply in
\* the line is for any more: it may go on, or be deleted.
LEMMA InvAckRead ==
  ASSUME FileInv, AckRead
  PROVE  FileInv'
<1>0. PICK x : x = Head(up)[2]
  OBVIOUS
<1>1. /\ open /\ up # <<>> /\ Head(up)[1] = "ack" /\ up' = Tail(up)
      /\ open' = open /\ inbox' = inbox /\ asked' = asked /\ got' = got /\ garbled' = garbled
  BY DEF AckRead
<1>2. /\ up' \in Seq({"ask", "ack"} \X Request)
      /\ \A i, j \in DOMAIN up' : up'[i][2] = up'[j][2] => i = j
      /\ \A w \in ToSet(up)' : w \in ToSet(up) /\ w[2] # x
      /\ Head(up) \in ToSet(up) /\ Sent(Head(up)) /\ x \in Request
  BY <1>0, <1>1, HeadIsRead
<1>3. x \in asked /\ AckInv(x)
  BY <1>0, <1>1, <1>2 DEF Sent
<1>4. PICK o \in Places(x) : Stands(x, o) /\ Len(got[x]) = Place(x, NextOffset(x, o))
  BY <1>3 DEF AckInv
<1>5. IsChunk(x)
  BY <1>3 DEF AckInv
<1> DEFINE n == NextOffset(x, o)
<1>6. n \in Places(x) /\ n \in Nat /\ ChunkGives(x, n)
  <2>1. \A y \in Places(x) : ChunkGives(x, y) /\ y \in Nat
    BY <1>2, <1>5, ChunksGive
  <2>2. n \in Places(x)
    BY <2>1 DEF ChunkGives
  <2> QED
    BY <2>1, <2>2
<1>7. PICK k \in 1..Len(pending) :
        /\ pending[k] = [id |-> x, offset |-> o] /\ Of(x) = {k} /\ Min(Of(x)) = k
        /\ Trans(x) = [id |-> x, offset |-> o] /\ Of(x) # {}
  BY <1>4, StandsOnce DEF FileInv
<1>8. /\ pending' = IF Complete(x, n) THEN RemoveAt(pending, k) ELSE [pending EXCEPT ![k].offset = n]
      /\ Complete(x, n) => msg_queue' = msg_queue
      /\ ~Complete(x, n) => msg_queue' = Append(msg_queue, HeaderOf(x, n))
  BY <1>0, <1>7 DEF AckRead, Reply
<1> HIDE DEF n
<1>9. /\ pending \in Seq([id : Request, offset : Nat]) /\ Len(pending) \in Nat
      /\ DOMAIN pending = 1..Len(pending)
  BY LenProperties DEF FileInv, PendingInv
<1>10. \A j \in DOMAIN pending : pending[j].id = x => j = k
  BY <1>7 DEF Of
<1>11. PendingInv'
       /\ (\A y, a : y # x /\ Stands(y, a) => Stands(y, a)')
       /\ (\A y : y # x /\ Of(y) = {} => Of(y)' = {})
       /\ (~Complete(x, n) => Stands(x, n)')
  <2>1. CASE Complete(x, n)
    <3>1. pending' = RemoveAt(pending, k)
      BY <1>8, <2>1
    <3>2. /\ pending' \in Seq([id : Request, offset : Nat]) /\ Len(pending') = Len(pending) - 1
          /\ \A j \in 1..(Len(pending) - 1) :
               pending'[j] = IF j < k THEN pending[j] ELSE pending[j + 1]
      BY ONLY <1>7, <1>9, <3>1, PlacesLeft
    <3>3. DOMAIN pending' = 1..(Len(pending) - 1)
      BY <3>2
    <3>4. ASSUME NEW j \in DOMAIN pending'
          PROVE  LET i == IF j < k THEN j ELSE j + 1
                 IN i \in DOMAIN pending /\ pending'[j] = pending[i] /\ i # k
      <4>1. j \in Nat /\ j >= 1 /\ j <= Len(pending) - 1 /\ k \in Nat
        BY <1>7, <1>9, <3>3
      <4>2. CASE j < k
        <5>1. j \in 1..Len(pending) /\ j # k
          BY <1>9, <4>1, <4>2
        <5> QED
          BY <1>9, <3>2, <3>3, <4>2, <5>1
      <4>3. CASE ~(j < k)
        <5>1. j + 1 \in 1..Len(pending) /\ j + 1 # k
          BY <1>9, <4>1, <4>3
        <5> QED
          BY <1>9, <3>2, <3>3, <4>3, <5>1
      <4> QED
        BY <4>2, <4>3
    <3>5. \A j \in DOMAIN pending' : \E i \in DOMAIN pending : pending'[j] = pending[i]
      BY <3>4
    <3>6. PendingInv'
      <4>1. ASSUME NEW j \in DOMAIN pending', NEW l \in DOMAIN pending', pending'[j].id = pending'[l].id
            PROVE  j = l
        <5> DEFINE a == IF j < k THEN j ELSE j + 1
                   b == IF l < k THEN l ELSE l + 1
        <5>1. a = b
          BY <3>4, <4>1 DEF FileInv, PendingInv
        <5>2. j \in Nat /\ l \in Nat /\ k \in Nat
          BY <1>7, <3>3
        <5> QED
          BY <5>1, <5>2
      <4>2. \A j \in DOMAIN pending' : /\ pending'[j].id \in asked'
                                       /\ pending'[j].offset \in Places(pending'[j].id)
        BY <1>1, <3>5 DEF FileInv, PendingInv
      <4> QED
        BY <3>2, <4>1, <4>2 DEF PendingInv
    <3>7. \A i \in DOMAIN pending : i # k => \E j \in DOMAIN pending' : pending'[j] = pending[i]
      <4>1. ASSUME NEW i \in 1..Len(pending), i # k
            PROVE  \E j \in 1..(Len(pending) - 1) : pending'[j] = pending[i]
        <5>1. k \in Nat /\ k >= 1 /\ k <= Len(pending)
          BY <1>7, <1>9
        <5>2. CASE i < k
          <6>1. i \in 1..(Len(pending) - 1)
            BY <1>9, <5>1, <5>2
          <6> QED
            BY <3>2, <5>2, <6>1
        <5>3. CASE ~(i < k)
          <6>1. i - 1 \in 1..(Len(pending) - 1) /\ ~(i - 1 < k) /\ (i - 1) + 1 = i
            BY <1>9, <4>1, <5>1, <5>3
          <6>2. pending'[i - 1] = pending[i]
            BY <3>2, <6>1
          <6> QED
            BY <6>1, <6>2
        <5> QED
          BY <5>2, <5>3
      <4> QED
        BY <1>9, <3>3, <4>1
    <3>8. ASSUME NEW y, NEW a, y # x, Stands(y, a)
          PROVE  Stands(y, a)'
      <4>1. PICK i \in DOMAIN pending : pending[i] = [id |-> y, offset |-> a]
        BY <3>8 DEF Stands
      <4>2. i # k
        BY <1>7, <3>8, <4>1
      <4> QED
        BY <3>7, <4>1, <4>2 DEF Stands
    <3>9. \A y : y # x /\ Of(y) = {} => Of(y)' = {}
      BY <3>5 DEF Of
    <3> QED
      BY <2>1, <3>6, <3>8, <3>9
  <2>2. CASE ~Complete(x, n)
    <3> DEFINE z == [id |-> x, offset |-> n]
    <3>1. pending' = [pending EXCEPT ![k].offset = n]
      BY <1>8, <2>2
    <3>2. pending[k] = [id |-> x, offset |-> o]
      BY <1>7
    <3>3. /\ DOMAIN pending' = DOMAIN pending /\ pending'[k] = z
          /\ \A i \in DOMAIN pending : i # k => pending'[i] = pending[i]
      BY <1>7, <1>9, <3>1, <3>2
    <3>4. z \in [id : Request, offset : Nat] /\ z.id = x /\ z.offset = n
      BY <1>2, <1>6
    <3> HIDE DEF z
    <3>5. pending' \in Seq([id : Request, offset : Nat])
      <4>1. \A i \in 1..Len(pending) : pending'[i] \in [id : Request, offset : Nat]
        BY <1>9, <3>3, <3>4, ElementOfSeq
      <4>2. pending' = [i \in 1..Len(pending) |-> pending'[i]]
        BY <1>9, <3>1, <3>3
      <4> QED
        BY <1>9, <4>1, <4>2, IsASeq
    <3>6. \A i \in DOMAIN pending' : pending'[i].id = pending[i].id
      BY <3>2, <3>3, <3>4
    <3>7. PendingInv'
      <4>1. \A i, j \in DOMAIN pending' : pending'[i].id = pending'[j].id => i = j
        BY <3>3, <3>6 DEF FileInv, PendingInv
      <4>2. \A i \in DOMAIN pending' : /\ pending'[i].id \in asked'
                                       /\ pending'[i].offset \in Places(pending'[i].id)
        BY <1>1, <1>3, <1>6, <3>3, <3>4 DEF FileInv, PendingInv
      <4> QED
        BY <3>5, <4>1, <4>2 DEF PendingInv
    <3>8. ASSUME NEW y, NEW a, y # x, Stands(y, a)
          PROVE  Stands(y, a)'
      <4>1. PICK i \in DOMAIN pending : pending[i] = [id |-> y, offset |-> a]
        BY <3>8 DEF Stands
      <4>2. i # k
        BY <1>7, <3>8, <4>1
      <4> QED
        BY <3>3, <4>1, <4>2 DEF Stands
    <3>9. \A y : y # x /\ Of(y) = {} => Of(y)' = {}
      BY <3>3, <3>6 DEF Of
    <3>10. Stands(x, n)'
      BY <1>7, <1>9, <3>3 DEF Stands, z
    <3> QED
      BY <3>7, <3>8, <3>9, <3>10
  <2> QED
    BY <2>1, <2>2
<1>12. GotInv'
  BY <1>1 DEF FileInv, GotInv
<1>13. UpInv'
  <2>1. ASSUME NEW w \in ToSet(up)'
        PROVE  Sent(w)'
    <3>1. Sent(w) /\ w[2] # x
      BY <1>2, <2>1 DEF FileInv, UpInv
    <3>2. AckInv(w[2]) => AckInv(w[2])'
      BY <1>1, <1>11, <3>1 DEF AckInv
    <3> QED
      BY <1>1, <1>11, <3>1, <3>2 DEF Sent
  <2> QED
    BY <1>2, <2>1 DEF UpInv
<1> DEFINE m == [id |-> x, at |-> n]
<1>14. m.id = x /\ m.at = n
  OBVIOUS
<1>15. ~Complete(x, n) => Sendable(m) /\ Fresh(m) = HeaderOf(x, n)
  BY <1>2, <1>5, <1>6, <1>14 DEF Sendable, Replies, Fresh, HeaderOf, Announced, ChunkOf
<1> HIDE DEF m
<1>16. AloneInv'
  <2> SUFFICES ASSUME NEW r \in asked', Kind[r] = "manifest", ~Done(r)',
                      NEW s \in Request \ {r}
               PROVE  /\ \A i \in DOMAIN up' : up'[i] # <<"ask", s>>
                      /\ \A i \in DOMAIN msg_queue' : msg_queue'[i].id # s
                      /\ IsChunk(s) /\ s \in asked' => Done(s)'
    BY DEF AloneInv
  <2>1. \A y : Done(y)' <=> Done(y)
    BY <1>1 DEF Done
  <2>2. /\ \A y \in Request \ {r} :
             /\ <<"ask", y>> \notin ToSet(up)
             /\ IsChunk(y) /\ y \in asked => Done(y)
        /\ \A i \in DOMAIN msg_queue : msg_queue[i].id # s
    BY <1>1, <2>1 DEF FileInv, AloneInv, ToSet
  <2>3. x = r \/ Complete(x, n)
    <3>1. ASSUME x # r
          PROVE  Complete(x, n)
      <4>1. Len(got[x]) = Len(WholeFile[x])
        BY <1>2, <1>3, <1>5, <2>2, <3>1 DEF Done
      <4>2. WholeFile[x] \in Seq(Nat)
        BY <1>6 DEF ChunkGives
      <4>3. Len(WholeFile[x]) \in Nat
        BY <4>2, LenProperties
      <4>4. Place(x, n) = Len(WholeFile[x])
        BY <1>4, <4>1 DEF n
      <4> QED
        BY <1>6, <4>3, <4>4 DEF ChunkGives
    <3> QED
      BY <3>1
  <2>4. \A i \in DOMAIN up' : up'[i] # <<"ask", s>>
    BY <1>2, <2>2 DEF ToSet
  <2>5. \A i \in DOMAIN msg_queue' : msg_queue'[i].id # s
    <3>1. CASE Complete(x, n)
      BY <1>8, <2>2, <3>1
    <3>2. CASE ~Complete(x, n)
      <4>1. \A i \in DOMAIN msg_queue' :
              msg_queue'[i].id = x \/ \E j \in DOMAIN msg_queue : msg_queue'[i].id = msg_queue[j].id
        BY <1>1, <1>8, <1>14, <1>15, <3>2, QueueGrows
      <4> QED
        BY <2>2, <2>3, <3>2, <4>1
    <3> QED
      BY <3>1, <3>2
  <2> QED
    BY <1>1, <2>1, <2>2, <2>4, <2>5
<1>17. LineInv'
  <2>1. PICK fs, e : /\ Ends(fs, e) /\ Begun(fs, e, inbox) /\ ReplyInv(fs)
                     /\ Queued(fs, e, inbox, msg_queue)
    BY <1>1 DEF FileInv, LineInv
  <2>2. \A i \in DOMAIN fs : fs[i].id # x
    BY <1>0, <1>2, <2>1 DEF ReplyInv, ToSet
  <2>3. CASE Complete(x, n)
    <3>1. msg_queue' = msg_queue
      BY <1>8, <2>3
    <3>2. ReplyInv(fs)'
      <4>1. \A u \in DOMAIN up' : \E v \in DOMAIN up : up'[u] = up[v]
        BY <1>2 DEF ToSet
      <4> QED
        BY <1>1, <1>11, <2>1, <2>2, <4>1 DEF ReplyInv
    <3> QED
      BY <1>1, <2>1, <3>1, <3>2 DEF LineInv
  <2>4. CASE ~Complete(x, n)
    <3>1. msg_queue' = Append(msg_queue, Fresh(m)) /\ Sendable(m)
      BY <1>8, <1>15, <2>4
    <3>2. Stands(m.id, m.at)' /\ Len(got[m.id]) = Place(m.id, m.at)
      BY <1>4, <1>11, <1>14, <2>4 DEF n
    <3> QED
      BY <1>1, <1>2, <1>3, <1>11, <1>14, <2>1, <2>2, <3>1, <3>2, LineGrows
  <2> QED
    BY <2>3, <2>4
<1> QED
  BY <1>11, <1>12, <1>13, <1>16, <1>17 DEF FileInv

\* Every step keeps the invariant.
LEMMA InvStep ==
  ASSUME FileInv, Apart, [FilesNext]_fileVars
  PROVE  FileInv'
<1>1. CASE AskRead
  BY <1>1, InvAskRead
<1>2. CASE AskRefused
  BY <1>2, InvAskRefused
<1>3. CASE AckRead
  BY <1>3, InvAckRead
<1>4. CASE Write
  BY <1>4, InvWrite
<1>5. CASE Receive
  BY <1>5, InvReceive
<1>6. ASSUME NEW x \in Request, Ask(x)
      PROVE  FileInv'
  BY <1>6, InvAsk
<1>7. CASE UNCHANGED fileVars
  BY <1>7 DEF fileVars, FileInv, PendingInv, GotInv, UpInv, Sent, AckInv, Stands, Of, AloneInv,
              Done, LineInv, ReplyInv
<1> QED
  BY <1>1, <1>2, <1>3, <1>4, <1>5, <1>6, <1>7 DEF FilesNext, ServeFiles

\* What the invariant says of the messages and the files.
LEMMA InvGives ==
  ASSUME FileInv
  PROVE  FilesArriveWhole
<1>1. MessagesAreWhole
  BY DEF FileInv, GotInv, MessagesAreWhole
<1>2. ChunkIsCurrent
  <2> SUFFICES ASSUME open, NEW i \in DOMAIN msg_queue, IsChunk(msg_queue[i].id)
               PROVE  /\ Of(msg_queue[i].id) # {}
                      /\ msg_queue[i].len = HeaderOf(msg_queue[i].id, Trans(msg_queue[i].id).offset).len
    BY DEF ChunkIsCurrent
  <2>1. PICK fs, e : /\ Ends(fs, e) /\ Begun(fs, e, inbox) /\ ReplyInv(fs)
                     /\ Queued(fs, e, inbox, msg_queue)
    BY DEF FileInv, LineInv
  <2> DEFINE L == Len(msg_queue)
             K == Len(fs) - L
  <2>2. /\ i \in 1..L /\ K + i \in DOMAIN fs
    <3>1. /\ DOMAIN fs = 1..Len(fs) /\ Len(fs) \in Nat /\ DOMAIN msg_queue = 1..L /\ L \in Nat
          /\ L <= Len(fs)
      BY <2>1, LenProperties DEF Ends, Queued
    <3> QED
      BY <3>1
  <2> DEFINE m == fs[K + i]
             r == m.id
  <2>3. msg_queue[i].id = r /\ msg_queue[i].len = Announced(m)
    BY <2>1, <2>2 DEF Queued
  <2>4. Stands(r, m.at)
    BY <2>1, <2>2, <2>3 DEF ReplyInv
  <2>5. Trans(r) = [id |-> r, offset |-> m.at] /\ Of(r) # {}
    BY <2>4, StandsOnce DEF FileInv
  <2>6. Announced(m) = 1 + Len(DataAt(r, m.at)) + Trailer(r)
    BY <2>3 DEF Announced, ChunkOf
  <2> QED
    BY <2>3, <2>5, <2>6 DEF HeaderOf
<1>3. ASSUME NEW r \in Request, IsChunk(r)
      PROVE  got[r] = SubSeq(WholeFile[r], 1, Len(got[r]))
  <2> DEFINE w == WholeFile[r]
             k == Len(got[r])
  <2>1. /\ got[r] \in Seq(Nat) /\ k \in Nat /\ k <= Len(w) /\ \A j \in 1..k : got[r][j] = w[j]
    BY <1>3, LenProperties DEF FileInv, GotInv
  <2>2. w \in Seq(Nat) /\ Len(w) \in Nat
    <3>1. w \in Seq(Nat)
      BY <1>3, ChunksGive DEF ChunkGives, FirstIs
    <3> QED
      BY <3>1, LenProperties
  <2>3. k \in 0..Len(w)
    BY <2>1, <2>2
  <2> HIDE DEF w, k
  <2>4. /\ SubSeq(w, 1, k) \in Seq(Nat) /\ Len(SubSeq(w, 1, k)) = k
        /\ \A j \in 1..k : SubSeq(w, 1, k)[j] = w[j]
    BY ONLY <2>2, <2>3, FirstPlaces
  <2>5. \A j \in 1..k : got[r][j] = SubSeq(w, 1, k)[j]
    BY <2>1, <2>4
  <2>6. got[r] = SubSeq(w, 1, k)
    BY <2>1, <2>4, <2>5, SeqEqual DEF k
  <2> QED
    BY <2>6 DEF w, k
<1> QED
  BY <1>1, <1>2, <1>3 DEF FilesArriveWhole

\* However the writes are cut and the requests interleave (message_read, Write), the
\* invariant holds: what is in the inbox and the queue is one line of whole replies,
\* each for the chunk its transaction is at, and each request is in one place.
THEOREM RepliesStandInLine ==
  ASSUME Apart
  PROVE  FilesSpec => []FileInv
<1>1. FilesInit => FileInv
  BY InvInit
<1>2. FileInv /\ [FilesNext]_fileVars => FileInv'
  BY InvStep
<1> QED
  BY <1>1, <1>2, PTL DEF FilesSpec

\* The client gets whole messages and the data of each file in order, and a reply in
\* the queue finds its transaction at the chunk it announces (FileServerMessage keeps
\* only a reference), though acknowledgements move and delete transactions.
THEOREM FilesArrive ==
  ASSUME Apart
  PROVE  FilesSpec => []FilesArriveWhole
<1>1. FileInv => FilesArriveWhole
  BY InvGives
<1> QED
  BY <1>1, RepliesStandInLine, PTL
=============================================================================
