----------------------------- MODULE GamesProofs -----------------------------
(***************************************************************************)
(* Proofs about the games of an age, for any players and any bounds: every *)
(* game ID finds the manager it was asked for, and the members of a        *)
(* VarSync game see its variables as the server has them.  The second part *)
(* is about Heek, for any chairs and stakes: the counts that end a round   *)
(* are those of the players at the table, each state that waits has its    *)
(* timer, and no point is made from nothing.  The third is about marker    *)
(* games: once nothing is on its way, a client sees the name, the markers  *)
(* and the captures that the database has, whatever statements failed, in  *)
(* doubt or not, and whoever came and left while they were answered.  The  *)
(* last part is about the locks on the objects of an age: two players are  *)
(* never entitled to one object, and a lock that is held is timed.         *)
(***************************************************************************)
EXTENDS Games, ObjectLocks, SequenceFacts

-----------------------------------------------------------------------------
(* The folds of GameManagers, as recursions.                               *)

\* f is what the setups ss make of g, after each of the first n, the values in Y.
TakesAll(Y, ss, n) == \A i \in 1..n : \A h \in Y : InitializeGame(h, ss[i].who) \in Y
InOrder(f, g, ss, n) ==
  f[0] = g /\ \A i \in 1..n : f[i] = InitializeGame(f[i - 1], ss[i].who)

\* assign_id runs through the saved setups from the first to the last.
LEMMA SetupsInOrder ==
  ASSUME NEW n \in Nat, NEW ss, DOMAIN ss = 1..n, NEW Y, NEW g \in Y, TakesAll(Y, ss, n)
  PROVE  \E f : InitializeAll(g, ss) = f[n] /\ InOrder(f, g, ss, n)
<1> USE DEF TakesAll, InOrder
<1> DEFINE Step(f) == [s \in SUBSET (1..n) |->
                         IF s = {} THEN g
                         ELSE InitializeGame(f[s \ {Max(s)}], ss[Max(s)].who)]
           it == CHOOSE f : f = Step(f)
           F == [p \in Y \X (1..n) |-> InitializeGame(p[1], ss[p[2]].who)]
           r == [k \in 0..n |-> it[1..k]]
<1>1. InitializeAll(g, ss) = it[1..n]
  BY DEF InitializeAll, FoldLeft, MapThenFoldSet
<1>2. PICK f : IsFold(n, Y, g, F, f)
  <2>1. \A k \in 1..n : \A x \in Y : F[<<x, k>>] \in Y
    OBVIOUS
  <2> HIDE DEF F
  <2> QED
    BY <2>1, FoldExists
<1>3. f = Step(f)
  <2>1. ASSUME NEW s \in SUBSET (1..n), s # {}
        PROVE  f[s] = InitializeGame(f[s \ {Max(s)}], ss[Max(s)].who)
    <3>1. Max(s) \in 1..n /\ f[s \ {Max(s)}] \in Y
      BY <2>1, <1>2, MaxIsPlace DEF IsFold
    <3> QED
      BY <1>2, <2>1, <3>1 DEF IsFold
  <2> QED
    BY <2>1, <1>2 DEF IsFold
<1>4. it = Step(it)
  <2> HIDE DEF Step
  <2> QED
    BY <1>3
<1>5. r[n] = it[1..n]
  OBVIOUS
<1>6. r[0] = g
  <2>1. it[{}] = g
    <3> HIDE DEF it
    <3> QED
      BY <1>4
  <2> HIDE DEF it
  <2> QED
    BY <2>1, 1..0 = {}
<1>7. ASSUME NEW i \in 1..n  PROVE r[i] = InitializeGame(r[i - 1], ss[i].who)
  <2>1. it[1..i] = InitializeGame(it[1..(i - 1)], ss[i].who)
    <3> HIDE DEF it
    <3>1. Max(1..i) = i /\ (1..i) \ {i} = 1..(i - 1) /\ 1..i # {} /\ 1..i \in SUBSET (1..n)
      BY PlacesUpTo
    <3> QED
      BY <1>4, <3>1
  <2> HIDE DEF it
  <2> QED
    BY <2>1
<1> HIDE DEF r, it
<1> QED
  BY <1>1, <1>5, <1>6, <1>7

\* m_waiting_games.remove of managers that do not wait leaves the list alone.
LEMMA NoneForgotten ==
  ASSUME NEW kept, NEW S, waiting \in Seq(S), \A i \in DOMAIN waiting : waiting[i] \in kept
  PROVE  StillWaiting(kept) = waiting
<1> DEFINE n == Len(waiting)
           Keep(q, x) == IF x \in kept THEN Append(q, x) ELSE q
           Step(f) == [s \in SUBSET (1..n) |->
                         IF s = {} THEN <<>>
                         ELSE Keep(f[s \ {Max(s)}], waiting[Max(s)])]
           it == CHOOSE f : f = Step(f)
           F == [p \in Seq(S) \X (1..n) |-> Keep(p[1], waiting[p[2]])]
           T == {i \in 0..n : it[1..i] = SubSeq(waiting, 1, i)}
<1>0. n \in Nat /\ DOMAIN waiting = 1..n
  OBVIOUS
<1>1. StillWaiting(kept) = it[1..n]
  BY <1>0 DEF StillWaiting, FoldLeft, MapThenFoldSet
<1>2. PICK f : IsFold(n, Seq(S), <<>>, F, f)
  <2>1. \A k \in 1..n : \A x \in Seq(S) : F[<<x, k>>] \in Seq(S)
    OBVIOUS
  <2>2. <<>> \in Seq(S)
    OBVIOUS
  <2> HIDE DEF F, n
  <2> QED
    BY <1>0, <2>1, <2>2, FoldExists
<1> HIDE DEF n, Keep
<1>3. f = Step(f)
  <2>1. ASSUME NEW s \in SUBSET (1..n), s # {}
        PROVE  f[s] = Keep(f[s \ {Max(s)}], waiting[Max(s)])
    <3>1. Max(s) \in 1..n /\ f[s \ {Max(s)}] \in Seq(S)
      BY <1>0, <2>1, <1>2, MaxIsPlace DEF IsFold
    <3> QED
      BY <1>2, <2>1, <3>1 DEF IsFold
  <2> QED
    BY <2>1, <1>2 DEF IsFold
<1>4. it = Step(it)
  <2> HIDE DEF Step
  <2> QED
    BY <1>3
<1> HIDE DEF it
<1>5. 0 \in T
  <2>1. it[1..0] = <<>>
    BY <1>4, 1..0 = {}
  <2>2. SubSeq(waiting, 1, 0) = <<>>
    BY SubSeqEmpty
  <2>3. it[1..0] = SubSeq(waiting, 1, 0) /\ 0 \in 0..n
    BY <2>1, <2>2, <1>0
  <2> QED
    BY <2>3
<1>6. ASSUME NEW i \in Nat, i < n, i \in T  PROVE i + 1 \in T
  <2>0. i + 1 \in 1..n /\ i + 1 - 1 = i
    BY <1>0, <1>6
  <2>1. /\ 1..(i + 1) \in SUBSET (1..n) /\ 1..(i + 1) # {}
        /\ Max(1..(i + 1)) = i + 1 /\ (1..(i + 1)) \ {i + 1} = 1..i
    BY <1>0, <2>0, PlacesUpTo
  <2>2. it[1..(i + 1)] = Keep(it[1..i], waiting[i + 1])
    BY <1>0, <1>4, <1>6, <2>1
  <2>3. it[1..(i + 1)] = Append(SubSeq(waiting, 1, i), waiting[i + 1])
    BY <2>2, <1>0, <1>6 DEF Keep
  <2>4. Append(SubSeq(waiting, 1, i), waiting[i + 1]) = SubSeq(waiting, 1, i + 1)
    BY <1>0, <1>6 DEF n
  <2> QED
    BY <2>3, <2>4, <1>0, <1>6
<1>7. n \in T
  <2> HIDE DEF T
  <2> QED
    BY <1>0, <1>5, <1>6, UpTo
<1>8. SubSeq(waiting, 1, n) = waiting
  BY <1>0, SubSeqFull DEF n
<1> QED
  BY <1>1, <1>7, <1>8

-----------------------------------------------------------------------------
(* The requests for an ID in a queue.                                      *)

IsQueue(q) == \E S : q \in Seq(S)

\* A queue holds finitely many of them.
LEMMA IdsAreFinite ==
  ASSUME NEW q, IsQueue(q)
  PROVE  IsFiniteSet(IdMessages(q)) /\ Cardinality(IdMessages(q)) \in Nat
<1>1. IdMessages(q) \in SUBSET (1..Len(q)) /\ Len(q) \in Nat
  BY DEF IsQueue, IdMessages
<1>2. IsFiniteSet(1..Len(q))
  BY <1>1, FS_Interval
<1> QED
  BY <1>1, <1>2, FS_Subset, FS_CardinalityType

\* A message that is sent goes to the back, and counts if it is one of them.
LEMMA IdSent ==
  ASSUME NEW q, IsQueue(q), NEW m
  PROVE  /\ IsQueue(Append(q, m))
         /\ Cardinality(IdMessages(Append(q, m))) =
              Cardinality(IdMessages(q)) + (IF m.op = "nextid" THEN 1 ELSE 0)
<1>1. PICK S : q \in Seq(S)
  BY DEF IsQueue
<1> DEFINE U == S \cup {m}
           r == Append(q, m)
<1>2. q \in Seq(U) /\ m \in U /\ Len(q) \in Nat
  BY <1>1
<1>3. /\ r \in Seq(U) /\ Len(r) = Len(q) + 1 /\ r[Len(q) + 1] = m
      /\ \A i \in 1..Len(q) : r[i] = q[i]
  BY <1>2, AppendProperties
<1> HIDE DEF r, U
<1>4. IdMessages(r) = IdMessages(q) \cup (IF m.op = "nextid" THEN {Len(q) + 1} ELSE {})
  BY <1>2, <1>3 DEF IdMessages
<1>5. Len(q) + 1 \notin IdMessages(q)
  BY <1>2 DEF IdMessages
<1>6. Cardinality(IdMessages(r)) = Cardinality(IdMessages(q)) + (IF m.op = "nextid" THEN 1 ELSE 0)
  <2>1. CASE m.op = "nextid"
    BY <2>1, <1>4, <1>5, IdsAreFinite, FS_AddElement
  <2>2. CASE m.op # "nextid"
    <3>1. IdMessages(r) = IdMessages(q) /\ Cardinality(IdMessages(q)) \in Nat
      BY <2>2, <1>4, IdsAreFinite
    <3> QED
      BY <3>1, <2>2
  <2> QED
    BY <2>1, <2>2
<1> QED
  BY <1>3, <1>6 DEF IsQueue, r

\* The front of a queue is taken, and no longer counts.
LEMMA IdTaken ==
  ASSUME NEW q, IsQueue(q), q # <<>>
  PROVE  /\ IsQueue(Tail(q))
         /\ Cardinality(IdMessages(q)) =
              Cardinality(IdMessages(Tail(q))) + (IF Head(q).op = "nextid" THEN 1 ELSE 0)
<1>1. PICK S : q \in Seq(S)
  BY DEF IsQueue
<1> DEFINE r == Tail(q)
           A == IdMessages(q) \ {1}
           B == IdMessages(r)
           f == [i \in A |-> i - 1]
<1>2. /\ r \in Seq(S) /\ Len(r) = Len(q) - 1 /\ Len(q) \in Nat /\ Len(q) > 0
      /\ Head(q) = q[1]
      /\ \A i \in 1..Len(r) : r[i] = q[i + 1]
  BY <1>1, HeadTailProperties
<1>3. IsQueue(r)
  BY <1>2 DEF IsQueue
<1> HIDE DEF r
<1>4. IsFiniteSet(IdMessages(q)) /\ IsFiniteSet(A) /\ IsFiniteSet(B)
  BY <1>3, IdsAreFinite, FS_RemoveElement
<1>5. A \in SUBSET (2..Len(q)) /\ \A i \in 2..Len(q) : i \in A <=> q[i].op = "nextid"
  BY <1>1, <1>2 DEF IdMessages
<1>6. B \in SUBSET (1..Len(r)) /\ \A i \in 1..Len(r) : i \in B <=> r[i].op = "nextid"
  BY <1>2 DEF IdMessages
<1> HIDE DEF A, B
<1>7. f \in Bijection(A, B)
  <2>1. ASSUME NEW i \in A  PROVE i - 1 \in B
    <3>1. i - 1 \in 1..Len(r) /\ r[i - 1] = q[i - 1 + 1] /\ i - 1 + 1 = i
      BY <1>2, <1>5
    <3> QED
      BY <3>1, <1>5, <1>6
  <2>2. ASSUME NEW j \in B  PROVE \E i \in A : f[i] = j
    <3>1. j + 1 \in 2..Len(q) /\ r[j] = q[j + 1]
      BY <1>2, <1>6
    <3>2. j + 1 \in A /\ f[j + 1] = j
      BY <3>1, <1>5, <1>6
    <3> QED
      BY <3>2
  <2>3. \A i, k \in A : f[i] = f[k] => i = k
    BY <1>5
  <2>4. f \in [A -> B]
    BY <2>1
  <2> HIDE DEF f
  <2> QED
    BY <2>2, <2>3, <2>4 DEF Bijection, Injection, IsInjective, Surjection
<1>8. Cardinality(A) = Cardinality(B) /\ Cardinality(B) \in Nat
  BY <1>4, <1>7, FS_Bijection, FS_CardinalityType DEF ExistsBijection
<1>9. Cardinality(IdMessages(q)) = Cardinality(A) + (IF Head(q).op = "nextid" THEN 1 ELSE 0)
  <2>1. 1 \in IdMessages(q) <=> Head(q).op = "nextid"
    BY <1>1, <1>2 DEF IdMessages
  <2>2. Cardinality(IdMessages(q)) \in Nat
    BY <1>1, IdsAreFinite DEF IsQueue
  <2>3. Cardinality(A) = IF 1 \in IdMessages(q) THEN Cardinality(IdMessages(q)) - 1
                                                ELSE Cardinality(IdMessages(q))
    BY <1>4, FS_RemoveElement DEF A
  <2> QED
    BY <2>1, <2>2, <2>3
<1> QED
  BY <1>3, <1>8, <1>9 DEF B, r

\* Messages of which none asks for an ID, each with its op.
NoIds(e) == IsQueue(e) /\ \A i \in DOMAIN e : e[i].op # "nextid"

\* Other messages that are sent leave the count as it was.
LEMMA OthersSent ==
  ASSUME NEW q, IsQueue(q), NEW e, NoIds(e)
  PROVE  IsQueue(q \o e) /\ Cardinality(IdMessages(q \o e)) = Cardinality(IdMessages(q))
<1>1. PICK S : q \in Seq(S)
  BY DEF IsQueue
<1>2. PICK U : e \in Seq(U)
  BY DEF IsQueue, NoIds
<1>3. q \in Seq(S \cup U) /\ e \in Seq(S \cup U)
  BY <1>1, <1>2
<1> DEFINE r == q \o e
<1>4. /\ r \in Seq(S \cup U) /\ Len(r) = Len(q) + Len(e) /\ Len(q) \in Nat /\ Len(e) \in Nat
      /\ \A i \in 1..Len(q) + Len(e) : r[i] = IF i <= Len(q) THEN q[i] ELSE e[i - Len(q)]
  BY <1>3, ConcatProperties
<1> HIDE DEF r
<1>5. ASSUME NEW i \in 1..Len(r), r[i].op = "nextid"  PROVE i \in IdMessages(q)
  <2>1. CASE i <= Len(q)
    BY <1>1, <1>4, <1>5, <2>1 DEF IdMessages
  <2>2. CASE i > Len(q)
    <3>1. i - Len(q) \in 1..Len(e) /\ r[i] = e[i - Len(q)]
      BY <1>4, <2>2
    <3>2. e[i - Len(q)].op # "nextid"
      BY <1>2, <3>1 DEF NoIds
    <3> QED
      BY <3>1, <3>2, <1>5
  <2> QED
    BY <1>4, <2>1, <2>2
<1>6. ASSUME NEW i \in IdMessages(q)  PROVE i \in 1..Len(r) /\ r[i].op = "nextid"
  <2>1. i \in 1..Len(q) /\ q[i].op = "nextid"
    BY <1>1 DEF IdMessages
  <2> QED
    BY <1>4, <2>1
<1>7. IdMessages(r) = {i \in 1..Len(r) : r[i].op = "nextid"}
  BY <1>4 DEF IdMessages
<1>8. IdMessages(r) = IdMessages(q)
  BY <1>5, <1>6, <1>7
<1> QED
  BY <1>4, <1>8 DEF IsQueue, r

-----------------------------------------------------------------------------
(* Every ID that was asked for finds its manager.  The manager it finds is *)
(* there and nobody owns it yet, which is why no player that leaves, or    *)
(* opens another game, takes it off the list; and no manager waits twice.  *)

\* The managers that wait, of ms in the order ws.
Waiters(ms, ws) ==
  /\ ws \in Seq(DOMAIN ms)
  /\ \A i, j \in DOMAIN ws : ws[i] = ws[j] => i = j
  /\ kind = "marker" => \A i \in DOMAIN ws : ms[ws[i]].owner = Nobody

\* Requests, each with its op.
Requests(q) == IsQueue(q) /\ \A i \in DOMAIN q : "op" \in DOMAIN q[i]

IdInv ==
  /\ made \in Nat /\ DOMAIN mgrs \subseteq 1..made
  /\ Waiters(mgrs, waiting)
  /\ Requests(toVault) /\ IsQueue(fromVault)
  /\ IdsFindTheirManagers

\* Requests stay such when one is sent or taken.
LEMMA RequestSent ==
  ASSUME NEW q, Requests(q), NEW m, "op" \in DOMAIN m
  PROVE  Requests(Append(q, m))
<1>1. PICK S : q \in Seq(S)
  BY DEF Requests, IsQueue
<1>2. /\ Append(q, m) \in Seq(S \cup {m}) /\ Len(Append(q, m)) = Len(q) + 1 /\ Len(q) \in Nat
      /\ Append(q, m)[Len(q) + 1] = m
      /\ \A i \in 1..Len(q) : Append(q, m)[i] = q[i]
  BY <1>1
<1>3. ASSUME NEW i \in DOMAIN Append(q, m)  PROVE "op" \in DOMAIN Append(q, m)[i]
  <2>1. i \in 1..Len(q) \/ i = Len(q) + 1
    BY <1>2
  <2>2. DOMAIN q = 1..Len(q)
    BY <1>1
  <2> QED
    BY <1>2, <2>1, <2>2 DEF Requests
<1> QED
  BY <1>2, <1>3 DEF Requests, IsQueue

\* What is left when the front is taken, and the front itself.
LEMMA RequestTaken ==
  ASSUME NEW q, Requests(q), q # <<>>
  PROVE  Requests(Tail(q)) /\ "op" \in DOMAIN Head(q)
<1>1. PICK S : q \in Seq(S)
  BY DEF Requests, IsQueue
<1>2. /\ Tail(q) \in Seq(S) /\ Len(Tail(q)) = Len(q) - 1 /\ Len(q) \in Nat /\ Len(q) > 0
      /\ Head(q) = q[1] /\ DOMAIN q = 1..Len(q)
      /\ \A i \in 1..Len(Tail(q)) : Tail(q)[i] = q[i + 1]
  BY <1>1, HeadTailProperties
<1>3. ASSUME NEW i \in DOMAIN Tail(q)  PROVE "op" \in DOMAIN Tail(q)[i]
  BY <1>2 DEF Requests
<1> QED
  BY <1>2, <1>3 DEF Requests, IsQueue

\* What the backend and the server do with their queues, while the managers stay as
\* they are, keeps the requests in order as long as no ID is lost or made.
LEMMA QueuesKeep ==
  ASSUME IdInv, UNCHANGED <<kind, mgrs, made, waiting>>,
         Requests(toVault'), IsQueue(fromVault'),
         Cardinality(IdMessages(toVault')) + Cardinality(IdMessages(fromVault')) =
           Cardinality(IdMessages(toVault)) + Cardinality(IdMessages(fromVault))
  PROVE  IdInv'
  BY DEF IdInv, Waiters, Requests, IsQueue, IdsFindTheirManagers, IdMessages

\* No player is Nobody, so a manager that waits is not one that player p owned.
LEMMA WaitersAreKept ==
  ASSUME IdInv, NEW p \in Players,
         NEW kept, kept = {n \in DOMAIN mgrs : ~OwnedBy(mgrs[n], p)}
  PROVE  /\ \A i \in DOMAIN waiting : waiting[i] \in kept
         /\ StillWaiting(kept) = waiting
<1>1. p # Nobody
  BY PlayersAssumption DEF Nobody, Unowned
<1>2. waiting \in Seq(DOMAIN mgrs)
  BY DEF IdInv, Waiters
<1>3. ASSUME NEW i \in DOMAIN waiting  PROVE waiting[i] \in kept
  <2>1. waiting[i] \in DOMAIN mgrs
    BY <1>2
  <2> QED
    BY <1>1, <2>1 DEF IdInv, Waiters, OwnedBy
<1> QED
  BY <1>2, <1>3, NoneForgotten

\* setup_manager_for with a new manager: it waits behind the others, and its
\* request goes behind theirs.
LEMMA NewGameKeeps ==
  ASSUME IdInv, NEW p \in Players, NEW template, NewGame(p, template),
         UNCHANGED <<kind, fromVault>>
  PROVE  IdInv'
<1> DEFINE kept == {n \in DOMAIN mgrs : ~OwnedBy(mgrs[n], p)}
           new == made + 1
           setup == [who |-> p, template |-> template]
<1>1. StillWaiting(kept) = waiting /\ \A i \in DOMAIN waiting : waiting[i] \in kept
  BY WaitersAreKept
<1>2. /\ made' = new
      /\ mgrs' = [n \in kept \cup {new} |-> IF n = new THEN NewMgr(setup) ELSE mgrs[n]]
      /\ waiting' = Append(waiting, new)
      /\ toVault' = Append(toVault, [op |-> "nextid"])
  BY <1>1 DEF NewGame
<1>3. kept \subseteq 1..made /\ made \in Nat /\ new \notin kept /\ kept \subseteq DOMAIN mgrs
  BY DEF IdInv
<1>4. waiting \in Seq(kept)
  <2>1. waiting \in Seq(DOMAIN mgrs)
    BY DEF IdInv, Waiters
  <2> HIDE DEF kept
  <2> QED
    BY <2>1, <1>1
<1>5. NewMgr(setup).owner = Nobody
  BY DEF NewMgr
<1>6. DOMAIN mgrs' \subseteq 1..made' /\ made' \in Nat
  BY <1>2, <1>3
<1> HIDE DEF kept, setup
<1>7. /\ waiting' \in Seq(kept \cup {new}) /\ Len(waiting') = Len(waiting) + 1
      /\ waiting'[Len(waiting) + 1] = new /\ Len(waiting) \in Nat
      /\ \A i \in 1..Len(waiting) : waiting'[i] = waiting[i] /\ waiting[i] \in kept
  BY <1>2, <1>4
<1>8. \A i, j \in DOMAIN waiting' : waiting'[i] = waiting'[j] => i = j
  BY <1>7, <1>3 DEF IdInv, Waiters
<1>9. kind = "marker" => \A i \in DOMAIN waiting' : mgrs'[waiting'[i]].owner = Nobody
  <2>1. ASSUME kind = "marker", NEW i \in DOMAIN waiting'
        PROVE  mgrs'[waiting'[i]].owner = Nobody
    <3>1. CASE i = Len(waiting) + 1
      BY <3>1, <1>2, <1>5, <1>7
    <3>2. CASE i # Len(waiting) + 1
      <4>1. i \in 1..Len(waiting) /\ i \in DOMAIN waiting
        BY <3>2, <1>7
      <4>2. mgrs'[waiting'[i]] = mgrs[waiting[i]]
        BY <4>1, <1>2, <1>3, <1>7
      <4> QED
        BY <4>1, <4>2, <2>1 DEF IdInv, Waiters
    <3> QED
      BY <3>1, <3>2
  <2> QED
    BY <2>1
<1>10. Waiters(mgrs', waiting')
  <2>1. DOMAIN mgrs' = kept \cup {new}
    BY <1>2
  <2> QED
    BY <2>1, <1>7, <1>8, <1>9 DEF Waiters
<1>11. Requests(toVault')
  BY <1>2, RequestSent DEF IdInv
<1>12. Cardinality(IdMessages(toVault')) = Cardinality(IdMessages(toVault)) + 1
  BY <1>2, IdSent DEF IdInv, Requests
<1>13. /\ Cardinality(IdMessages(toVault)) \in Nat
       /\ Cardinality(IdMessages(fromVault)) \in Nat
  BY IdsAreFinite DEF IdInv, Requests
<1>14. Cardinality(IdMessages(toVault')) + Cardinality(IdMessages(fromVault')) = Len(waiting')
  <2>1. fromVault' = fromVault
    OBVIOUS
  <2> QED
    BY <1>7, <1>12, <1>13, <2>1 DEF IdInv, IdsFindTheirManagers
<1> QED
  <2>1. IdsFindTheirManagers'
    BY <1>14 DEF IdsFindTheirManagers, IdMessages
  <2> QED
    BY <1>6, <1>10, <1>11, <2>1 DEF IdInv, Waiters, Requests, IsQueue

\* A step that changes managers in place, none that waits in a marker game, leaves
\* the requests alone.
LEMMA ManagersKeep ==
  ASSUME IdInv, UNCHANGED <<kind, made, waiting, toVault, fromVault>>,
         DOMAIN mgrs' \subseteq DOMAIN mgrs,
         \A i \in DOMAIN waiting : waiting[i] \in DOMAIN mgrs',
         kind = "marker" => \A n \in DOMAIN mgrs' : mgrs'[n] = mgrs[n]
  PROVE  IdInv'
<1>1. waiting \in Seq(DOMAIN mgrs) /\ Len(waiting) \in Nat
  BY DEF IdInv, Waiters
<1>2. waiting \in Seq(DOMAIN mgrs')
  BY <1>1
<1>3. Waiters(mgrs', waiting')
  BY <1>1, <1>2 DEF IdInv, Waiters
<1> QED
  BY <1>3 DEF IdInv, Waiters, Requests, IsQueue, IdsFindTheirManagers, IdMessages

\* A setup for the manager of the age changes nobody that waits in a marker game.
LEMMA JoinGameKeeps ==
  ASSUME IdInv, NEW p \in Players, JoinGame(p), UNCHANGED <<kind, fromVault>>
  PROVE  IdInv'
<1>1. DOMAIN mgrs' = DOMAIN mgrs /\ kind # "marker"
  BY DEF JoinGame
<1>2. \A i \in DOMAIN waiting : waiting[i] \in DOMAIN mgrs
  BY DEF IdInv, Waiters
<1> QED
  BY <1>1, <1>2, ManagersKeep DEF JoinGame

\* Neither does a player that leaves.
LEMMA LeaveKeeps ==
  ASSUME IdInv, NEW p \in Players, Leave(p)
  PROVE  IdInv'
<1> DEFINE kept == {n \in DOMAIN mgrs : ~OwnedBy(mgrs[n], p)}
<1>1. StillWaiting(kept) = waiting /\ \A i \in DOMAIN waiting : waiting[i] \in kept
  BY WaitersAreKept
<1>2. /\ mgrs' = [n \in kept |-> IF kind = "marker" THEN mgrs[n] ELSE AgeMgrLeft(mgrs[n], p)]
      /\ waiting' = waiting
  BY <1>1 DEF Leave
<1> QED
  BY <1>1, <1>2, ManagersKeep DEF Leave

\* The backend turns a request for an ID into its answer.
LEMMA NextIDKeeps ==
  ASSUME IdInv, VaultNextID
  PROVE  IdInv'
<1>1. Requests(toVault') /\ Requests(toVault)
  BY RequestTaken DEF IdInv, VaultNextID
<1>2. Cardinality(IdMessages(toVault)) = Cardinality(IdMessages(toVault')) + 1
  BY IdTaken DEF IdInv, VaultNextID, Requests
<1>3. /\ IsQueue(fromVault')
      /\ Cardinality(IdMessages(fromVault')) = Cardinality(IdMessages(fromVault)) + 1
  BY IdSent DEF IdInv, VaultNextID
<1>4. /\ Cardinality(IdMessages(toVault')) \in Nat
      /\ Cardinality(IdMessages(fromVault)) \in Nat
  BY <1>1, IdsAreFinite DEF IdInv, Requests
<1> QED
  BY <1>1, <1>2, <1>3, <1>4, QueuesKeep DEF VaultNextID

\* The answer takes the first that waits off the list; the others stay as they are.
LEMMA GotNextIDKeeps ==
  ASSUME IdInv, GotNextID, Requests(toVault'),
         Cardinality(IdMessages(toVault')) = Cardinality(IdMessages(toVault))
  PROVE  IdInv'
<1>1. waiting \in Seq(DOMAIN mgrs) /\ waiting # <<>> /\ waiting' = Tail(waiting)
  BY DEF IdInv, Waiters, GotNextID
<1>2. /\ waiting' \in Seq(DOMAIN mgrs) /\ Len(waiting') = Len(waiting) - 1
      /\ Len(waiting) \in Nat /\ Len(waiting) > 0 /\ Head(waiting) = waiting[1]
      /\ \A i \in 1..Len(waiting') : waiting'[i] = waiting[i + 1]
  BY <1>1, HeadTailProperties
<1>3. /\ DOMAIN mgrs' = DOMAIN mgrs
      /\ \A n \in DOMAIN mgrs : n # waiting[1] => mgrs'[n] = mgrs[n]
  BY <1>2 DEF GotNextID
<1>4. ASSUME NEW i \in DOMAIN waiting'
      PROVE  /\ i + 1 \in DOMAIN waiting /\ waiting'[i] = waiting[i + 1]
             /\ mgrs'[waiting'[i]] = mgrs[waiting[i + 1]]
  <2>1. i + 1 \in DOMAIN waiting /\ 1 \in DOMAIN waiting /\ i + 1 # 1
        /\ waiting'[i] = waiting[i + 1]
    BY <1>1, <1>2
  <2>2. waiting[i + 1] # waiting[1] /\ waiting[i + 1] \in DOMAIN mgrs
    BY <1>1, <2>1 DEF IdInv, Waiters
  <2> QED
    BY <1>3, <2>1, <2>2
<1>5. Waiters(mgrs', waiting')
  <2>1. \A i, j \in DOMAIN waiting' : waiting'[i] = waiting'[j] => i = j
    <3>1. ASSUME NEW i \in DOMAIN waiting', NEW j \in DOMAIN waiting', waiting'[i] = waiting'[j]
          PROVE  i = j
      <4>1. i + 1 = j + 1
        BY <1>4, <3>1 DEF IdInv, Waiters
      <4>2. i \in Nat /\ j \in Nat
        BY <1>2
      <4> QED
        BY <4>1, <4>2
    <3> QED
      BY <3>1
  <2>2. ASSUME kind = "marker", NEW i \in DOMAIN waiting'
        PROVE  mgrs'[waiting'[i]].owner = Nobody
    BY <1>4, <2>2 DEF IdInv, Waiters
  <2> QED
    BY <1>2, <1>3, <2>1, <2>2 DEF Waiters
<1>6. /\ IsQueue(fromVault')
      /\ Cardinality(IdMessages(fromVault)) = Cardinality(IdMessages(fromVault')) + 1
  BY IdTaken DEF IdInv, GotNextID
<1>7. /\ Cardinality(IdMessages(toVault)) \in Nat
      /\ Cardinality(IdMessages(fromVault')) \in Nat
  BY <1>6, IdsAreFinite DEF IdInv, Requests
<1>8. IdsFindTheirManagers'
  <2>1. Cardinality(IdMessages(toVault')) + Cardinality(IdMessages(fromVault')) = Len(waiting')
    <3>1. Cardinality(IdMessages(toVault)) + Cardinality(IdMessages(fromVault)) = Len(waiting)
      BY DEF IdInv, IdsFindTheirManagers
    <3> QED
      BY <3>1, <1>2, <1>6, <1>7
  <2> QED
    BY <2>1 DEF IdsFindTheirManagers, IdMessages
<1> QED
  BY <1>3, <1>5, <1>6, <1>8 DEF IdInv, Waiters, Requests, IsQueue, GotNextID

\* A request of a client is no request for an ID.
LEMMA AskKeeps ==
  ASSUME IdInv, NEW n, NEW op, NEW num, NEW name, op # "nextid", Ask(n, op, num, name)
  PROVE  IdInv'
<1> DEFINE m == Request(n, op, num, name)
<1>1. toVault' = Append(toVault, m) /\ m.op # "nextid" /\ "op" \in DOMAIN m
  BY DEF Ask, Request
<1> HIDE DEF m
<1>2. Requests(toVault) /\ IsQueue(fromVault)
  BY DEF IdInv
<1>3. /\ Cardinality(IdMessages(toVault)) \in Nat
      /\ Cardinality(IdMessages(toVault')) = Cardinality(IdMessages(toVault)) + 0
  BY <1>1, <1>2, IdSent, IdsAreFinite DEF Requests
<1>4. Requests(toVault')
  BY <1>1, <1>2, RequestSent
<1> QED
  BY <1>2, <1>3, <1>4, QueuesKeep DEF Ask

\* The backend takes a request of a game, and answers with messages of games.
LEMMA AnswerKeeps ==
  ASSUME IdInv, UNCHANGED <<kind, mgrs, made, waiting>>,
         toVault # <<>>, Head(toVault).op # "nextid", toVault' = Tail(toVault),
         NEW e, NoIds(e), fromVault' = fromVault \o e
  PROVE  IdInv'
<1>1. Requests(toVault) /\ IsQueue(fromVault)
  BY DEF IdInv
<1>2. Requests(toVault')
  BY <1>1, RequestTaken
<1>3. Cardinality(IdMessages(toVault)) = Cardinality(IdMessages(toVault')) + 0
  BY <1>1, IdTaken DEF Requests
<1>4. Cardinality(IdMessages(toVault')) \in Nat
  BY <1>2, IdsAreFinite DEF Requests
<1>5. IsQueue(fromVault') /\ Cardinality(IdMessages(fromVault')) = Cardinality(IdMessages(fromVault))
  BY <1>1, OthersSent
<1> QED
  BY <1>2, <1>3, <1>4, <1>5, QueuesKeep

\* handle_marker answers a change with the request itself, or with nothing.
LEMMA ReplyIsNoID ==
  ASSUME NEW m, "op" \in DOMAIN m, m.op # "nextid", NEW out
  PROVE  NoIds(Reply(m, out))
<1>1. ASSUME NEW v  PROVE [m EXCEPT !.num = v].op = m.op
  OBVIOUS
<1>2. ASSUME NEW r, r.op # "nextid"  PROVE NoIds(<<r>>)
  <2>1. <<r>> \in Seq({r}) /\ DOMAIN <<r>> = {1} /\ <<r>>[1] = r
    OBVIOUS
  <2> QED
    BY <2>1, <1>2 DEF NoIds, IsQueue
<1>3. NoIds(<<>>)
  <2>1. <<>> \in Seq({}) /\ DOMAIN <<>> = {}
    OBVIOUS
  <2> QED
    BY <2>1 DEF NoIds, IsQueue
<1> DEFINE r1 == [m EXCEPT !.num = IF out \in {"OK", "INVALID"} THEN 1 ELSE 0]
           r2 == IF m.op = "add" THEN [m EXCEPT !.num = Row(m).next] ELSE m
<1>4. r1.op # "nextid" /\ r2.op # "nextid"
  BY <1>1
<1>5. Reply(m, out) \in {<<r1>>, <<r2>>, <<>>}
  BY DEF Reply
<1> HIDE DEF r1, r2
<1> QED
  BY <1>2, <1>3, <1>4, <1>5

\* Up to three messages of which none is an ID.
LEMMA FewNoIds ==
  ASSUME NEW a, NEW b, NEW c, a.op # "nextid", b.op # "nextid", c.op # "nextid"
  PROVE  NoIds(<<>>) /\ NoIds(<<a>>) /\ NoIds(<<a, b>>) /\ NoIds(<<a, b, c>>)
<1>1. /\ <<>> \in Seq({a, b, c}) /\ <<a>> \in Seq({a, b, c})
      /\ <<a, b>> \in Seq({a, b, c}) /\ <<a, b, c>> \in Seq({a, b, c})
  OBVIOUS
<1>2. /\ \A i \in DOMAIN <<>> : <<>>[i].op # "nextid"
      /\ \A i \in DOMAIN <<a>> : <<a>>[i].op # "nextid"
  OBVIOUS
<1>3. \A i \in DOMAIN <<a, b>> : <<a, b>>[i].op # "nextid"
  <2>1. DOMAIN <<a, b>> = 1..2 /\ <<a, b>>[1] = a /\ <<a, b>>[2] = b
    OBVIOUS
  <2> QED
    BY <2>1
<1>4. \A i \in DOMAIN <<a, b, c>> : <<a, b, c>>[i].op # "nextid"
  <2>1. /\ DOMAIN <<a, b, c>> = 1..3
        /\ <<a, b, c>>[1] = a /\ <<a, b, c>>[2] = b /\ <<a, b, c>>[3] = c
    OBVIOUS
  <2> QED
    BY <2>1
<1> QED
  BY <1>1, <1>2, <1>3, <1>4 DEF NoIds, IsQueue

\* handle_marker: no answer to a request of a game is an ID.
LEMMA VaultSends ==
  ASSUME IdInv, VaultMarkers
  PROVE  /\ UNCHANGED <<kind, mgrs, made, waiting, next_id>>
         /\ toVault # <<>> /\ Head(toVault).op # "nextid" /\ toVault' = Tail(toVault)
         /\ \E e : NoIds(e) /\ fromVault' = fromVault \o e
<1> DEFINE m == Head(toVault)
<1>1. CASE \E try \in Tries : VaultChanges(try)
  <2>1. PICK try \in Tries : VaultChanges(try)
    BY <1>1
  <2>2. toVault # <<>> /\ m.op # "nextid" /\ fromVault' = fromVault \o Reply(m, Outcome(m, try))
    BY <2>1 DEF VaultChanges
  <2>3. "op" \in DOMAIN m
    BY <2>2, RequestTaken DEF IdInv
  <2>4. NoIds(Reply(m, Outcome(m, try)))
    BY <2>2, <2>3, ReplyIsNoID
  <2>5. UNCHANGED <<kind, mgrs, made, waiting, next_id>> /\ toVault' = Tail(toVault)
    BY <2>1 DEF VaultChanges
  <2> HIDE DEF m
  <2>6. Head(toVault).op # "nextid"
    BY <2>2 DEF m
  <2> QED
    BY <2>2, <2>4, <2>5, <2>6
<1>2. CASE \E found, listed, states \in BOOLEAN : VaultOpens(found, listed, states)
  <2>1. PICK found \in BOOLEAN, listed \in BOOLEAN, states \in BOOLEAN :
          VaultOpens(found, listed, states)
    BY <1>2
  <2> DEFINE new == m.local = 0
             local == IF new THEN Len(db) + 1 ELSE m.local
             row == IF new THEN NewRow(m.cgz) ELSE Row(m)
             markers == IF listed THEN row.markers ELSE <<>>
             game == [op |-> "newgame", id |-> m.id, exists |-> row.exists, local |-> local,
                      name |-> row.name, cgz |-> row.cgz]
             dump == [op |-> "dump", id |-> m.id, markers |-> markers]
             state == [op |-> "state", id |-> m.id,
                       captured |-> IF states THEN Captured(row, m.who) ELSE {}]
             e == CASE ~found -> <<>>
                    [] found /\ (new \/ ~row.exists) -> <<game>>
                    [] found /\ ~new /\ row.exists /\ markers = <<>> -> <<game, dump>>
                    [] OTHER -> <<game, dump, state>>
  <2>2. /\ toVault # <<>> /\ m.op = "newgame" /\ toVault' = Tail(toVault)
        /\ fromVault' = fromVault \o e
        /\ UNCHANGED <<kind, mgrs, made, waiting, next_id>>
    BY <2>1 DEF VaultOpens
  <2>3. game.op # "nextid" /\ dump.op # "nextid" /\ state.op # "nextid"
    OBVIOUS
  <2>4. e \in {<<>>, <<game>>, <<game, dump>>, <<game, dump, state>>}
    <3> HIDE DEF game, dump, state, markers, row, new
    <3> QED
      OBVIOUS
  <2> HIDE DEF game, dump, state, markers, row, new, e
  <2>5. NoIds(e)
    BY <2>3, <2>4, FewNoIds
  <2>6. Head(toVault).op # "nextid"
    BY <2>2
  <2> QED
    BY <2>2, <2>5, <2>6
<1> QED
  BY <1>1, <1>2 DEF VaultMarkers

\* So the backend's answers keep the requests in order.
LEMMA VaultKeeps ==
  ASSUME IdInv, VaultMarkers
  PROVE  IdInv'
  BY VaultSends, AnswerKeeps

\* The server reads an answer for a marker game.
LEMMA MarkerAnswerKeeps ==
  ASSUME IdInv, GotMarkerAnswer
  PROVE  IdInv'
<1>1. /\ IsQueue(fromVault')
      /\ Cardinality(IdMessages(fromVault)) = Cardinality(IdMessages(fromVault')) + 0
  BY IdTaken DEF IdInv, GotMarkerAnswer
<1>2. Cardinality(IdMessages(fromVault')) \in Nat
  BY <1>1, IdsAreFinite
<1>3. Requests(toVault') /\ UNCHANGED <<kind, mgrs, made, waiting, toVault>>
  BY DEF IdInv, GotMarkerAnswer, Requests, IsQueue
<1> QED
  BY <1>1, <1>2, <1>3, QueuesKeep

\* Init: nothing was asked for.
LEMMA IdInit ==
  ASSUME Init
  PROVE  IdInv
<1>1. /\ mgrs = <<>> /\ made = 0 /\ waiting = <<>> /\ toVault = <<>> /\ fromVault = <<>>
  BY DEF Init, MgrInit
<1>2. waiting \in Seq(DOMAIN mgrs) /\ DOMAIN waiting = {} /\ Len(waiting) = 0 /\ DOMAIN mgrs = {}
  BY <1>1
<1>3. IsQueue(<<>>)
  <2>1. <<>> \in Seq({})
    OBVIOUS
  <2> QED
    BY <2>1 DEF IsQueue
<1>4. IdMessages(<<>>) = {} /\ DOMAIN <<>> = {}
  BY DEF IdMessages
<1>5. IdsFindTheirManagers
  BY <1>1, <1>2, <1>4, FS_EmptySet DEF IdsFindTheirManagers
<1> QED
  BY <1>1, <1>2, <1>3, <1>4, <1>5 DEF IdInv, Waiters, Requests

\* A step that leaves the managers and both queues alone.
LEMMA OthersKeep ==
  ASSUME IdInv, UNCHANGED <<kind, mgrs, made, waiting, toVault, fromVault>>
  PROVE  IdInv'
<1>1. Requests(toVault') /\ IsQueue(fromVault')
  BY DEF IdInv
<1> QED
  BY <1>1, QueuesKeep

\* GameMgrMsg with a setup, and what the game at hand does.
LEMMA SetupKeeps ==
  ASSUME IdInv, NEW p \in Players, SetupGame(p)
  PROVE  IdInv'
<1>1. \E template : Setup(p, template)
  BY DEF SetupGame
<1>2. PICK template : Setup(p, template)
  BY <1>1
<1>3. UNCHANGED <<kind, fromVault>> /\ (NewGame(p, template) \/ JoinGame(p))
  BY <1>2 DEF Setup
<1> QED
  BY <1>3, NewGameKeeps, JoinGameKeeps

\* TRACK_NEXT_GAMEID: a marker game asks the backend for its game with the ID.
LEMMA GameGetsIDKeeps ==
  ASSUME IdInv, GameGetsID
  PROVE  IdInv'
<1>1. Requests(toVault) /\ GotNextID
  BY DEF IdInv, GameGetsID
<1>2. Requests(toVault') /\ Cardinality(IdMessages(toVault')) = Cardinality(IdMessages(toVault))
  <2>1. CASE kind = "marker"
    <3>1. MarkerInitialized
      BY <2>1 DEF GameGetsID, Initialized
    <3>2. CASE mark[Head(waiting)].form # "right"
      <4>1. toVault' = toVault
        BY <3>1, <3>2 DEF MarkerInitialized
      <4> QED
        BY <1>1, <4>1
    <3>3. CASE mark[Head(waiting)].form = "right"
      <4> DEFINE n == Head(waiting)
                 o == [op |-> "newgame", id |-> mgrs'[n].id, local |-> mark[n].template,
                       who |-> mgrs'[n].owner, num |-> 0, name |-> "first", cgz |-> mark[n].cgz]
      <4>1. PICK m : toVault' = Append(toVault, m) /\ m.op # "nextid" /\ "op" \in DOMAIN m
        <5>1. toVault' = Append(toVault, o)
          BY <3>1, <3>3 DEF MarkerInitialized
        <5>2. o.op # "nextid" /\ "op" \in DOMAIN o
          OBVIOUS
        <5> HIDE DEF o
        <5> QED
          BY <5>1, <5>2
      <4>2. Cardinality(IdMessages(toVault')) = Cardinality(IdMessages(toVault)) + 0
        BY <1>1, <4>1, IdSent DEF Requests
      <4>3. Cardinality(IdMessages(toVault)) \in Nat
        BY <1>1, IdsAreFinite DEF Requests
      <4>4. Requests(toVault')
        BY <1>1, <4>1, RequestSent
      <4> QED
        BY <4>2, <4>3, <4>4
    <3> QED
      BY <3>2, <3>3
  <2>2. CASE kind # "marker"
    <3>1. toVault' = toVault
      BY <2>2 DEF GameGetsID
    <3> QED
      BY <1>1, <3>1
  <2> QED
    BY <2>1, <2>2
<1> QED
  BY <1>1, <1>2, GotNextIDKeeps

\* Every step of Next keeps IdInv.
LEMMA IdStep ==
  ASSUME IdInv, Next
  PROVE  IdInv'
<1>1. ASSUME NEW p \in Players, Come(p)  PROVE IdInv'
  BY <1>1, OthersKeep DEF Come, Arrive
<1>2. ASSUME NEW p \in Players, SetupGame(p)  PROVE IdInv'
  BY <1>2, SetupKeeps
<1>3. ASSUME NEW p \in Players, Depart(p)  PROVE IdInv'
  BY <1>3, LeaveKeeps DEF Depart
<1>4. CASE NextID
  BY <1>4, NextIDKeeps DEF NextID
<1>5. CASE GameGetsID
  BY <1>5, GameGetsIDKeeps
<1>6. CASE VarSyncNext
  BY <1>6, OthersKeep DEF VarSyncNext, CreateNumericVar, SetNumericVar, mgrVars
<1>7. CASE DoorNext
  BY <1>7, OthersKeep DEF DoorNext, StartGame, HitRight, HitWrong, mgrVars
<1>8. CASE DoorTimer
  BY <1>8, OthersKeep DEF DoorTimer, DoorTimeouts, DoorTimeout, mgrVars
<1>9. CASE HeekNext
  BY <1>9, OthersKeep
     DEF HeekNext, PlayGame, LeaveTable, LateChoice, Choose, SeqFinished, mgrVars
<1>10. CASE HeekClock
  BY <1>10, OthersKeep DEF HeekClock, HeekTimer, mgrVars
<1>11. CASE MarkerNext
  <2>1. PICK n \in DOMAIN mark :
          \/ StartMarkers(n) \/ PauseMarkers(n) \/ ResetMarkers(n) \/ DeleteGame(n)
          \/ \E name \in GameNames : AddMarker(n, name) \/ RenameGame(n, name)
          \/ \E i \in DOMAIN view[n].markers :
               \/ DeleteMarker(n, i) \/ CaptureMarker(n, i)
               \/ \E name \in GameNames : RenameMarker(n, i, name)
    BY <1>11 DEF MarkerNext
  <2>2. \/ StartMarkers(n) \/ PauseMarkers(n)
        \/ \E op, num, name : op # "nextid" /\ Ask(n, op, num, name)
    BY <2>1 DEF ResetMarkers, DeleteGame, AddMarker, RenameGame, DeleteMarker,
                CaptureMarker, RenameMarker
  <2> QED
    BY <2>2, AskKeeps, OthersKeep DEF StartMarkers, PauseMarkers, mgrVars
<1>12. CASE VaultMarkers
  BY <1>12, VaultKeeps
<1>13. CASE MarkerAnswer
  BY <1>13, MarkerAnswerKeeps DEF MarkerAnswer
<1> QED
  BY <1>1, <1>2, <1>3, <1>4, <1>5, <1>6, <1>7, <1>8, <1>9, <1>10, <1>11, <1>12, <1>13
     DEF Next

\* The invariant that carries IdsFindTheirManagers: the managers on m_waiting_games
\* are there, differ, and, in a marker game, belong to nobody.
THEOREM GamesWaitInOrder == Spec => []IdInv
<1>1. Init => IdInv
  BY IdInit
<1>2. IdInv /\ [Next]_vars_ => IdInv'
  <2>1. CASE UNCHANGED vars_
    BY <2>1, OthersKeep DEF vars_, mgrVars
  <2> QED
    BY <2>1, IdStep
<1> QED
  BY <1>1, <1>2, PTL DEF Spec

\* For any players, any number of games and however often players come and go: the
\* IDs asked for and on their way are as many as the managers that wait, so that
\* TRACK_NEXT_GAMEID never takes the front of an empty m_waiting_games.
THEOREM IdsAlwaysFindTheirManagers == Spec => []IdsFindTheirManagers
<1>1. IdInv => IdsFindTheirManagers
  BY DEF IdInv
<1> QED
  BY <1>1, GamesWaitInOrder, PTL

\* An answer to a request for an ID finds a manager that waits, in every state.
NoEmptyFront ==
  fromVault # <<>> /\ Head(fromVault).op = "nextid" => waiting # <<>>

\* The front that GotNextID takes is always there.
THEOREM TheFrontIsThere == Spec => []NoEmptyFront
<1>1. IdInv => NoEmptyFront
  <2> SUFFICES ASSUME IdInv, fromVault # <<>>, Head(fromVault).op = "nextid", waiting = <<>>
               PROVE  FALSE
    BY DEF NoEmptyFront
  <2>1. Cardinality(IdMessages(fromVault)) = Cardinality(IdMessages(Tail(fromVault))) + 1
    BY IdTaken DEF IdInv
  <2>2. /\ Cardinality(IdMessages(Tail(fromVault))) \in Nat
        /\ Cardinality(IdMessages(toVault)) \in Nat
    BY IdTaken, IdsAreFinite DEF IdInv, Requests
  <2>3. Len(waiting) = 0
    OBVIOUS
  <2> QED
    BY <2>1, <2>2, <2>3 DEF IdInv, IdsFindTheirManagers
<1> QED
  BY <1>1, GamesWaitInOrder, PTL

-----------------------------------------------------------------------------
(* The members of a VarSync game see what the server has.                  *)

Saved == [who : Players, template : {0}]
Mgr == [id : Nat, owner : Nat, players : Seq(Nat), setups : Seq(Saved)]

\* The IDs on their way from the backend are proper ones.
PositiveIds(q) == \A i \in DOMAIN q : q[i].op = "nextid" => q[i].id \in Nat \ {0}
IdsInv == next_id \in Nat \ {0} /\ PositiveIds(fromVault)

\* The manager before it is made, while it waits for its ID, and when it has it.
NotMade ==
  /\ mgrs = <<>> /\ made = 0 /\ joined = {}
  /\ vars = <<>> /\ \A p \in Players : shown[p] = <<>>
WaitsForID ==
  /\ DOMAIN mgrs = {1} /\ mgrs[1] \in Mgr /\ mgrs[1].id = 0
  /\ waiting = <<1>>
  /\ vars = <<>> /\ \A p \in Players : shown[p] = <<>>
  /\ \A p \in joined : \E i \in DOMAIN mgrs[1].setups : mgrs[1].setups[i].who = p
HasID ==
  /\ DOMAIN mgrs = {1} /\ mgrs[1] \in Mgr /\ mgrs[1].id # 0
  /\ waiting = <<>>
  /\ \A p \in joined : p \in ToSet(mgrs[1].players) /\ shown[p] = vars

\* A player that was told of variables is a member that is here, and knows of none
\* that the server has not: it forgets them when it leaves, the server when the last
\* member does.
Views ==
  /\ joined \subseteq here /\ here \subseteq Players
  /\ IsQueue(vars)
  /\ DOMAIN shown = Players
  /\ \A p \in Players :
       /\ DOMAIN shown[p] \subseteq DOMAIN vars
       /\ shown[p] # <<>> => p \in Members
  /\ NotMade \/ WaitsForID \/ HasID

ViewInv == IdInv /\ IdsInv /\ (kind = "varsync" => Views)

\* initialize_game lets one player in, and changes nothing else that Views is about.
LEMMA InitializeGameIs ==
  ASSUME kind = "varsync", NEW h \in Mgr, NEW p \in Players
  PROVE  /\ InitializeGame(h, p) \in Mgr
         /\ InitializeGame(h, p).id = h.id /\ InitializeGame(h, p).setups = h.setups
         /\ ToSet(InitializeGame(h, p).players) = ToSet(h.players) \cup {p}
<1>1. p \in Nat /\ h.players \in Seq(Nat)
  BY PlayersAssumption DEF Mgr
<1>2. AddPlayer(h.players, p) \in Seq(Nat)
  BY <1>1 DEF AddPlayer
<1>3. ToSet(AddPlayer(h.players, p)) = ToSet(h.players) \cup {p}
  <2>1. CASE p \in ToSet(h.players)
    BY <2>1 DEF AddPlayer
  <2>2. CASE p \notin ToSet(h.players)
    <3> DEFINE q == h.players
               r == Append(q, p)
    <3>1. AddPlayer(q, p) = r
      BY <2>2 DEF AddPlayer
    <3>2. /\ Len(r) = Len(q) + 1 /\ Len(q) \in Nat /\ r[Len(q) + 1] = p
          /\ \A i \in 1..Len(q) : r[i] = q[i]
          /\ DOMAIN r = 1..(Len(q) + 1) /\ DOMAIN q = 1..Len(q)
      BY <1>1
    <3> HIDE DEF r, q
    <3>3. ToSet(r) = ToSet(q) \cup {p}
      BY <3>2 DEF ToSet
    <3> QED
      BY <3>1, <3>3 DEF q
  <2> QED
    BY <2>1, <2>2
<1> QED
  BY <1>1, <1>2, <1>3 DEF InitializeGame, Mgr

\* player_left takes the player off the list, and leaves the ID and what is saved.
LEMMA AgeMgrLeftIs ==
  ASSUME kind = "varsync", NEW h \in Mgr, NEW p \in Players
  PROVE  /\ AgeMgrLeft(h, p) \in Mgr
         /\ AgeMgrLeft(h, p).id = h.id /\ AgeMgrLeft(h, p).setups = h.setups
         /\ AgeMgrLeft(h, p).players = RemoveFirst(h.players, p)
<1> DEFINE rest == RemoveFirst(h.players, p)
<1>1. rest \in Seq(Nat)
  BY OthersStay DEF Mgr
<1>2. rest # <<>> => Head(rest) \in Nat
  BY <1>1
<1> HIDE DEF rest
<1> QED
  BY <1>1, <1>2 DEF Mgr, AgeMgrLeft, VarSyncMgrLeft, MgrLeft, RemovePlayer, rest, Unowned, Nobody

\* assign_id lets everyone in whose setup was saved.
LEMMA AllComeIn ==
  ASSUME kind = "varsync", NEW g \in Mgr, NEW ss \in Seq(Saved),
         NEW all, all = InitializeAll(g, ss)
  PROVE  /\ all \in Mgr /\ all.id = g.id
         /\ \A i \in DOMAIN ss : ss[i].who \in ToSet(all.players)
<1> DEFINE n == Len(ss)
<1>1. n \in Nat /\ DOMAIN ss = 1..n /\ \A i \in 1..n : ss[i].who \in Players
  <2>1. n \in Nat /\ DOMAIN ss = 1..n /\ \A i \in 1..n : ss[i] \in Saved
    OBVIOUS
  <2> QED
    BY <2>1 DEF Saved
<1> HIDE DEF n
<1>2. TakesAll(Mgr, ss, n)
  BY <1>1, InitializeGameIs DEF TakesAll
<1>3. PICK f : /\ all = f[n] /\ f[0] = g
               /\ \A i \in 1..n : f[i] = InitializeGame(f[i - 1], ss[i].who)
  <2>1. \E f : InitializeAll(g, ss) = f[n] /\ InOrder(f, g, ss, n)
    BY <1>1, <1>2, SetupsInOrder
  <2> QED
    BY <2>1 DEF InOrder
<1> DEFINE T == {k \in 0..n : /\ f[k] \in Mgr /\ f[k].id = g.id
                              /\ \A i \in 1..k : ss[i].who \in ToSet(f[k].players)}
<1>4. 0 \in T
  BY <1>1, <1>3
<1>5. ASSUME NEW k \in Nat, k < n, k \in T  PROVE k + 1 \in T
  <2>1. k + 1 \in 1..n /\ k + 1 - 1 = k
    BY <1>1, <1>5
  <2>0. /\ f[k] \in Mgr /\ f[k].id = g.id
        /\ \A i \in 1..k : ss[i].who \in ToSet(f[k].players)
    BY <1>5
  <2>2. f[k + 1] = InitializeGame(f[k], ss[k + 1].who) /\ ss[k + 1].who \in Players
    BY <2>1, <1>1, <1>3
  <2>3. /\ f[k + 1] \in Mgr /\ f[k + 1].id = f[k].id
        /\ ToSet(f[k + 1].players) = ToSet(f[k].players) \cup {ss[k + 1].who}
    <3> DEFINE h == f[k]
               p == ss[k + 1].who
    <3>1. h \in Mgr /\ p \in Players /\ f[k + 1] = InitializeGame(h, p)
      BY <2>2, <2>0
    <3> HIDE DEF h, p
    <3>2. /\ f[k + 1] \in Mgr /\ f[k + 1].id = h.id
          /\ ToSet(f[k + 1].players) = ToSet(h.players) \cup {p}
      BY <3>1, InitializeGameIs
    <3> QED
      BY <3>2 DEF h, p
  <2>4. ASSUME NEW i \in 1..(k + 1)  PROVE ss[i].who \in ToSet(f[k + 1].players)
    <3>1. i \in 1..k \/ i = k + 1
      OBVIOUS
    <3> QED
      BY <3>1, <2>3, <2>0
  <2>5. k + 1 \in 0..n
    BY <2>1
  <2> QED
    BY <2>0, <2>3, <2>4, <2>5
<1>6. n \in T
  <2> HIDE DEF T
  <2>1. n \in Nat /\ 0 \in T /\ \A k \in Nat : k < n /\ k \in T => k + 1 \in T
    BY <1>1, <1>4, <1>5
  <2>2. \A k \in 0..n : k \in T
    BY ONLY <2>1, UpTo
  <2> QED
    BY <2>1, <2>2
<1> QED
  BY <1>1, <1>3, <1>6

\* A client that knows of no others is told all the variables.
LEMMA InformedOfAll ==
  ASSUME NEW news, IsQueue(news), NEW known, DOMAIN known \subseteq DOMAIN news
  PROVE  Informed(known, news) = news
<1>1. PICK S : news \in Seq(S)
  BY DEF IsQueue
<1>2. news = [i \in DOMAIN news |-> news[i]]
  BY <1>1
<1>3. DOMAIN news \cup DOMAIN known = DOMAIN news
  OBVIOUS
<1> QED
  BY <1>2, <1>3 DEF Informed

\* A list of managers with the one of the age is not the empty one.
LEMMA MadeIsMade ==
  ASSUME NEW ms, DOMAIN ms = {1}
  PROVE  ms # <<>>
<1>1. DOMAIN <<>> = {}
  OBVIOUS
<1> QED
  BY <1>1

\* A player arrives: nobody is less of a member for it.
LEMMA ComeKeepsViews ==
  ASSUME kind = "varsync", Views, NEW p \in Players, Come(p)
  PROVE  Views'
<1>1. /\ here' = here \cup {p}
      /\ UNCHANGED <<joined, mgrs, made, waiting, vars, shown>>
  BY DEF Come, Arrive, OthersThan, varSyncVars
<1> QED
  BY <1>1 DEF Views, NotMade, WaitsForID, HasID, Members, AgeMgr, IsQueue

\* The first setup makes the manager, which saves it.
LEMMA FirstSetupKeepsViews ==
  ASSUME kind = "varsync", IdInv, Views, NEW p \in Players,
         Setup(p, 0), NewGame(p, 0), Initialized(InitializedNow(p))
  PROVE  Views'
<1> DEFINE setup == [who |-> p, template |-> 0]
<1>1. mgrs = <<>> /\ NotMade
  BY MadeIsMade DEF Views, NewGame, WaitsForID, HasID
<1>2. InitializedNow(p) = {}
  BY <1>1 DEF InitializedNow
<1>3. /\ vars' = vars
      /\ shown' = [q \in Players |-> IF q \in {} \cap here THEN Informed(shown[q], vars) ELSE shown[q]]
  BY <1>2 DEF Initialized, VarSyncInitialized
<1>4. DOMAIN shown' = Players /\ \A q \in Players : shown'[q] = <<>>
  BY <1>1, <1>3 DEF NotMade
<1>5. \A i \in DOMAIN waiting : FALSE
  BY <1>1 DEF IdInv, Waiters, NotMade
<1>6. waiting = <<>>
  BY <1>5 DEF IdInv, Waiters
<1> DEFINE kept == {n \in DOMAIN mgrs : ~OwnedBy(mgrs[n], p)}
<1>7. kept = {} /\ StillWaiting(kept) = <<>>
  BY <1>1, <1>6, WaitersAreKept
<1>8. made + 1 = 1
  BY <1>1 DEF NotMade
<1>9. /\ mgrs' = [n \in {1} |-> NewMgr(setup)]
      /\ waiting' = Append(<<>>, 1)
  <2>1. /\ mgrs' = [n \in kept \cup {1} |-> IF n = 1 THEN NewMgr(setup) ELSE mgrs[n]]
        /\ waiting' = Append(StillWaiting(kept), 1)
    BY <1>8 DEF NewGame
  <2> HIDE DEF kept, setup
  <2> QED
    BY <2>1, <1>7
<1>10. waiting' = <<1>> /\ DOMAIN mgrs' = {1} /\ mgrs'[1] = NewMgr(setup)
  BY <1>9
<1>11. /\ NewMgr(setup) \in Mgr /\ NewMgr(setup).id = 0
       /\ NewMgr(setup).setups = <<setup>>
  <2>1. setup \in Saved
    BY DEF Saved
  <2> HIDE DEF setup
  <2> QED
    BY <2>1 DEF NewMgr, Mgr, Nobody
<1>12. joined' = {p} /\ here' = here /\ p \in here
  BY <1>1 DEF Setup, NotMade
<1>13. \A q \in joined' : \E i \in DOMAIN mgrs'[1].setups : mgrs'[1].setups[i].who = q
  <2>1. 1 \in DOMAIN <<setup>> /\ <<setup>>[1].who = p
    OBVIOUS
  <2> HIDE DEF setup
  <2> QED
    BY <2>1, <1>10, <1>11, <1>12
<1> HIDE DEF setup
<1>14. WaitsForID'
  BY <1>1, <1>3, <1>4, <1>10, <1>11, <1>13 DEF NotMade, WaitsForID
<1> QED
  BY <1>1, <1>3, <1>4, <1>12, <1>14 DEF Views, IsQueue, NotMade

\* A setup for the manager that waits is saved; one for the manager that has its ID
\* lets the player in, who is told every variable.
LEMMA LaterSetupKeepsViews ==
  ASSUME kind = "varsync", Views, NEW p \in Players,
         Setup(p, 0), JoinGame(p), Initialized(InitializedNow(p))
  PROVE  Views'
<1> DEFINE setup == [who |-> p, template |-> 0]
           g == mgrs[1]
           ps == InitializedNow(p)
<1>1. mgrs # <<>> /\ (WaitsForID \/ HasID)
  BY DEF JoinGame, Views, NotMade
<1>2. DOMAIN mgrs = {1} /\ g \in Mgr
  BY <1>1 DEF WaitsForID, HasID
<1>3. /\ joined' = joined \cup {p} /\ here' = here /\ p \in here
      /\ UNCHANGED <<made, waiting>>
  BY DEF Setup, JoinGame
<1>4. /\ vars' = vars
      /\ shown' = [q \in Players |-> IF q \in ps \cap here THEN Informed(shown[q], vars) ELSE shown[q]]
  BY DEF Initialized, VarSyncInitialized
<1>5. /\ DOMAIN mgrs' = {1}
      /\ mgrs'[1] = IF g.id = 0 THEN SaveSetup(g, p) ELSE InitializeGame(g, p)
  <2> DEFINE h == IF g.id = 0 THEN SaveSetup(g, p) ELSE InitializeGame(g, p)
  <2>1. mgrs' = [mgrs EXCEPT ![1] = h]
    BY DEF JoinGame
  <2> HIDE DEF h, g
  <2>2. DOMAIN mgrs' = {1} /\ mgrs'[1] = h
    BY <1>2, <2>1
  <2> QED
    BY <2>2 DEF h
<1>6. mgrs # <<>> /\ mgrs' # <<>>
  BY <1>2, <1>5, MadeIsMade
<1> HIDE DEF g, setup
<1>7. CASE WaitsForID
  <2>1. ps = {} /\ g.id = 0
    BY <1>7 DEF WaitsForID, InitializedNow, AgeMgr, g
  <2>2. DOMAIN shown' = Players /\ \A q \in Players : shown'[q] = <<>>
    BY <2>1, <1>4, <1>7 DEF WaitsForID
  <2>3. setup \in Saved /\ setup.who = p
    BY DEF Saved, setup
  <2> DEFINE ss == Append(g.setups, setup)
  <2>4. g.setups \in Seq(Saved)
    BY <1>2 DEF Mgr
  <2>5. /\ ss \in Seq(Saved) /\ DOMAIN ss = 1..(Len(g.setups) + 1) /\ Len(g.setups) \in Nat
        /\ ss[Len(g.setups) + 1] = setup
        /\ DOMAIN g.setups = 1..Len(g.setups)
        /\ \A i \in 1..Len(g.setups) : ss[i] = g.setups[i]
    BY <2>3, <2>4
  <2> HIDE DEF ss
  <2>6. /\ mgrs'[1] = [g EXCEPT !.setups = ss] /\ mgrs'[1].setups = ss
        /\ mgrs'[1].id = 0 /\ mgrs'[1] \in Mgr
    BY <1>2, <1>5, <2>1, <2>5 DEF Mgr, ss, SaveSetup, setup
  <2>7. \A q \in joined' : \E i \in DOMAIN ss : ss[i].who = q
    <3>1. \E i \in DOMAIN ss : ss[i].who = p
      BY <2>3, <2>5
    <3>2. ASSUME NEW q \in joined  PROVE \E i \in DOMAIN ss : ss[i].who = q
      <4>1. PICK i \in DOMAIN g.setups : g.setups[i].who = q
        BY <1>7 DEF WaitsForID, g
      <4>2. i \in DOMAIN ss /\ ss[i] = g.setups[i]
        BY <2>5
      <4> QED
        BY <4>1, <4>2
    <3> QED
      BY <1>3, <3>1, <3>2
  <2>8. WaitsForID'
    BY <1>3, <1>4, <1>5, <1>7, <2>2, <2>6, <2>7 DEF WaitsForID
  <2> QED
    BY <1>3, <1>4, <2>2, <2>8, <1>7 DEF Views, IsQueue, WaitsForID
<1>8. CASE HasID
  <2>1. ps = {p} /\ g.id # 0
    BY <1>6, <1>8 DEF HasID, InitializedNow, AgeMgr, g
  <2>2. /\ mgrs'[1] \in Mgr /\ mgrs'[1].id # 0
        /\ ToSet(mgrs'[1].players) = ToSet(g.players) \cup {p}
    BY <1>2, <1>5, <2>1, InitializeGameIs
  <2> HIDE DEF ps
  <2>3. shown'[p] = vars /\ \A q \in Players : q # p => shown'[q] = shown[q]
    <3>1. DOMAIN shown[p] \subseteq DOMAIN vars /\ IsQueue(vars)
      BY DEF Views
    <3>2. Informed(shown[p], vars) = vars
      BY <3>1, InformedOfAll
    <3> QED
      BY <3>2, <2>1, <1>3, <1>4
  <2>4. HasID'
    BY <1>3, <1>4, <1>5, <1>8, <2>2, <2>3 DEF HasID, Views, g
  <2>5. DOMAIN shown' = Players
    BY <1>4
  <2>6. ASSUME NEW q \in Players
        PROVE  DOMAIN shown'[q] \subseteq DOMAIN vars' /\ (shown'[q] # <<>> => q \in Members')
    <3>1. Members = here \cap ToSet(g.players) /\ Members' = here \cap (ToSet(g.players) \cup {p})
      BY <1>3, <1>6, <2>2 DEF Members, AgeMgr, g
    <3> QED
      BY <3>1, <2>3, <1>3, <1>4 DEF Views
  <2> QED
    BY <1>3, <1>4, <2>4, <2>5, <2>6 DEF Views, IsQueue
<1> QED
  BY <1>1, <1>7, <1>8

\* The ID comes: everyone whose setup was saved comes in, and there are no variables
\* yet to be told of.
LEMMA IDKeepsViews ==
  ASSUME kind = "varsync", IdInv, IdsInv, Views, GameGetsID
  PROVE  Views'
<1> DEFINE g == mgrs[1]
           ps == {s.who : s \in ToSet(SavedSetups)}
<1>1. /\ fromVault # <<>> /\ Head(fromVault).op = "nextid" /\ waiting # <<>>
      /\ waiting' = Tail(waiting)
      /\ UNCHANGED <<here, joined>>
  BY DEF GameGetsID, GotNextID
<1>2. WaitsForID \/ NotMade
  BY <1>1 DEF Views, HasID
<1>3. Head(fromVault).id \in Nat \ {0}
  <2>1. PICK S : fromVault \in Seq(S)
    BY DEF IdInv, IsQueue
  <2>2. 1 \in DOMAIN fromVault /\ Head(fromVault) = fromVault[1]
    BY <1>1, <2>1
  <2> QED
    BY <1>1, <2>2 DEF IdsInv, PositiveIds
<1>4. WaitsForID
  <2>1. ASSUME NotMade  PROVE FALSE
    <3>1. \A i \in DOMAIN waiting : FALSE
      BY <2>1 DEF IdInv, Waiters, NotMade
    <3>2. waiting = <<>>
      BY <3>1 DEF IdInv, Waiters
    <3> QED
      BY <1>1, <3>2
  <2> QED
    BY <1>2, <2>1
<1>5. DOMAIN mgrs = {1} /\ g \in Mgr /\ waiting = <<1>> /\ Head(waiting) = 1 /\ Tail(waiting) = <<>>
  BY <1>4 DEF WaitsForID
<1> DEFINE new == [g EXCEPT !.id = Head(fromVault).id, !.setups = <<>>]
           all == InitializeAll(new, g.setups)
<1>6. DOMAIN mgrs' = {1} /\ mgrs'[1] = all
  <2>1. mgrs' = [mgrs EXCEPT ![1] = all]
    BY <1>5 DEF GameGetsID, GotNextID
  <2> HIDE DEF all
  <2> QED
    BY <1>5, <2>1
<1>7. /\ vars' = vars
      /\ shown' = [q \in Players |-> IF q \in ps \cap here THEN Informed(shown[q], vars) ELSE shown[q]]
  BY DEF GameGetsID, Initialized, VarSyncInitialized
<1> HIDE DEF ps, g
<1>8. DOMAIN shown' = Players /\ vars = <<>> /\ \A q \in Players : shown'[q] = <<>>
  <2>1. vars = <<>> /\ IsQueue(vars) /\ \A q \in Players : shown[q] = <<>>
    BY <1>4 DEF WaitsForID, Views
  <2>2. Informed(<<>>, <<>>) = <<>>
    BY <2>1, InformedOfAll
  <2> QED
    BY <1>7, <2>1, <2>2
<1>9. new \in Mgr /\ new.id # 0 /\ g.setups \in Seq(Saved)
  <2> DEFINE d == Head(fromVault).id
  <2>1. d \in Nat /\ d # 0 /\ <<>> \in Seq(Saved)
    BY <1>3
  <2>2. new = [g EXCEPT !.id = d, !.setups = <<>>]
    OBVIOUS
  <2> HIDE DEF d, new
  <2> QED
    BY <2>1, <2>2, <1>5 DEF Mgr
<1> HIDE DEF new
<1>10. /\ all \in Mgr /\ all.id # 0
       /\ \A i \in DOMAIN g.setups : g.setups[i].who \in ToSet(all.players)
  BY <1>9, AllComeIn
<1> HIDE DEF all
<1>11. \A q \in joined : q \in ToSet(all.players)
  BY <1>4, <1>10 DEF WaitsForID, g
<1>12. HasID'
  <2>1. joined \subseteq Players
    BY DEF Views
  <2> QED
    BY <1>1, <1>5, <1>6, <1>7, <1>8, <1>10, <1>11, <2>1 DEF HasID
<1> QED
  BY <1>1, <1>7, <1>8, <1>12 DEF Views, IsQueue

\* A player leaves: it forgets what it was told; the server forgets the variables when
\* nobody is left, and then no client knows of any.
LEMMA LeaveKeepsViews ==
  ASSUME kind = "varsync", IdInv, Views, NEW p \in Players, Depart(p)
  PROVE  Views'
<1>1. /\ here' = here \ {p} /\ joined' = joined \ {p} /\ p \in here
      /\ made' = made /\ kind' = kind
  BY DEF Depart, Leave
<1>2. /\ vars' = IF mgrs' # <<>> /\ mgrs'[1].players # <<>> THEN vars ELSE <<>>
      /\ shown' = [shown EXCEPT ![p] = <<>>]
  BY DEF Depart, VarSyncLeft
<1> DEFINE kept == {n \in DOMAIN mgrs : ~OwnedBy(mgrs[n], p)}
<1>3. kept = DOMAIN mgrs
  BY DEF OwnedBy
<1>4. waiting' = waiting /\ mgrs' = [n \in DOMAIN mgrs |-> AgeMgrLeft(mgrs[n], p)]
  <2>1. StillWaiting(kept) = waiting
    BY WaitersAreKept
  <2>2. waiting' = StillWaiting(kept)
    BY DEF Depart, Leave
  <2>3. mgrs' = [n \in kept |-> AgeMgrLeft(mgrs[n], p)]
    BY DEF Depart, Leave
  <2> HIDE DEF kept
  <2> QED
    BY <2>1, <2>2, <2>3, <1>3
<1>5. DOMAIN shown' = Players /\ shown'[p] = <<>> /\ \A q \in Players : q # p => shown'[q] = shown[q]
  BY <1>2 DEF Views
<1>6. IsQueue(<<>>) /\ DOMAIN <<>> = {}
  <2>1. <<>> \in Seq({})
    OBVIOUS
  <2> QED
    BY <2>1 DEF IsQueue
<1>7. IsQueue(vars') /\ joined' \subseteq here' /\ here' \subseteq Players
  BY <1>1, <1>2, <1>6 DEF Views, IsQueue
<1>8. CASE NotMade
  <2>1. mgrs = <<>> /\ DOMAIN mgrs = {}
    BY <1>8 DEF NotMade
  <2>2. mgrs' = <<>>
    BY <1>4, <2>1
  <2>3. \A q \in Players : shown'[q] = <<>>
    BY <1>5, <1>8 DEF NotMade
  <2>4. vars' = <<>>
    BY <1>2, <2>2
  <2>5. NotMade'
    BY <1>1, <1>8, <2>2, <2>3, <2>4 DEF NotMade
  <2> QED
    BY <1>5, <1>6, <1>7, <2>3, <2>5 DEF Views, IsQueue
<1> DEFINE g == mgrs[1]
<1>9. ASSUME DOMAIN mgrs = {1}, g \in Mgr
      PROVE  /\ DOMAIN mgrs' = {1} /\ mgrs' # <<>> /\ mgrs # <<>>
             /\ mgrs'[1] \in Mgr /\ mgrs'[1].id = g.id /\ mgrs'[1].setups = g.setups
             /\ mgrs'[1].players = RemoveFirst(g.players, p)
             /\ RemoveFirst(g.players, p) \in Seq(Nat)
             /\ \A q \in ToSet(g.players) : q # p => q \in ToSet(mgrs'[1].players)
  <2>1. DOMAIN mgrs' = {1} /\ mgrs'[1] = AgeMgrLeft(g, p)
    BY <1>4, <1>9
  <2>2. g.players \in Seq(Nat)
    BY <1>9 DEF Mgr
  <2> HIDE DEF g
  <2>3. /\ mgrs'[1] \in Mgr /\ mgrs'[1].id = g.id /\ mgrs'[1].setups = g.setups
        /\ mgrs'[1].players = RemoveFirst(g.players, p)
    BY <1>9, <2>1, AgeMgrLeftIs
  <2> QED
    BY <1>9, <2>1, <2>2, <2>3, OthersStay, MadeIsMade
<1>10. CASE WaitsForID
  <2>1. DOMAIN mgrs = {1} /\ g \in Mgr
    BY <1>10 DEF WaitsForID
  <2>2. \A q \in Players : shown'[q] = <<>>
    BY <1>5, <1>10 DEF WaitsForID
  <2>3. vars' = <<>>
    BY <1>2, <1>10 DEF WaitsForID
  <2>4. /\ DOMAIN mgrs' = {1} /\ mgrs'[1] \in Mgr /\ mgrs'[1].id = g.id
        /\ mgrs'[1].setups = g.setups
    BY <2>1, <1>9
  <2>5. WaitsForID'
    BY <1>1, <1>4, <1>10, <2>2, <2>3, <2>4 DEF WaitsForID
  <2> QED
    BY <1>5, <1>6, <1>7, <2>2, <2>5 DEF Views, IsQueue
<1>11. CASE HasID
  <2>1. DOMAIN mgrs = {1} /\ g \in Mgr
    BY <1>11 DEF HasID
  <2> DEFINE rest == mgrs'[1].players
  <2>2. /\ DOMAIN mgrs' = {1} /\ mgrs' # <<>> /\ mgrs # <<>>
        /\ mgrs'[1] \in Mgr /\ mgrs'[1].id = g.id
        /\ rest \in Seq(Nat)
        /\ \A q \in ToSet(g.players) : q # p => q \in ToSet(rest)
    BY <2>1, <1>9
  <2>3. Members = here \cap ToSet(g.players) /\ Members' = here' \cap ToSet(rest)
    BY <2>2 DEF Members, AgeMgr
  <2>4. rest = <<>> => ToSet(rest) = {}
    BY DEF ToSet
  <2> HIDE DEF rest, g
  <2>5. ASSUME NEW q \in Players
        PROVE  DOMAIN shown'[q] \subseteq DOMAIN vars' /\ (shown'[q] # <<>> => q \in Members')
    <3>1. shown'[q] # <<>> => q \in Members'
      BY <1>1, <1>5, <2>2, <2>3 DEF Views
    <3>2. DOMAIN shown'[q] \subseteq DOMAIN vars'
      <4>1. CASE shown'[q] = <<>>
        BY <4>1, <1>6
      <4>2. CASE shown'[q] # <<>>
        <5>1. rest # <<>> /\ q # p
          BY <4>2, <3>1, <2>3, <2>4, <1>5
        <5>2. vars' = vars /\ shown'[q] = shown[q]
          BY <5>1, <1>2, <1>5, <2>2 DEF rest
        <5> QED
          BY <5>2 DEF Views
      <4> QED
        BY <4>1, <4>2
    <3> QED
      BY <3>1, <3>2
  <2>6. ASSUME NEW q \in joined'  PROVE q \in ToSet(rest) /\ shown'[q] = vars'
    <3>1. q \in joined /\ q # p /\ q \in Players
      BY <1>1 DEF Views
    <3>2. q \in ToSet(g.players) /\ shown[q] = vars
      BY <3>1, <1>11 DEF HasID, g
    <3>3. q \in ToSet(rest) /\ rest # <<>>
      BY <3>1, <3>2, <2>2, <2>4
    <3>4. vars' = vars
      BY <3>3, <1>2, <2>2 DEF rest
    <3> QED
      BY <3>1, <3>2, <3>3, <3>4, <1>5
  <2>7. HasID'
    BY <1>4, <1>11, <2>2, <2>6 DEF HasID, rest, g
  <2> QED
    BY <1>5, <1>7, <2>5, <2>7 DEF Views, IsQueue
<1> QED
  BY <1>8, <1>10, <1>11 DEF Views

\* Whoever was told of variable i, v, and knew the others, knows them all.
LEMMA ToldOfChange ==
  ASSUME NEW before, IsQueue(before), NEW after, IsQueue(after), NEW i \in DOMAIN after,
         DOMAIN after = DOMAIN before \cup {i},
         \A j \in DOMAIN before : j # i => after[j] = before[j]
  PROVE  Informed(before, [j \in {i} |-> after[i]]) = after
<1>1. PICK S : after \in Seq(S)
  BY DEF IsQueue
<1>2. after = [j \in DOMAIN after |-> after[j]]
  BY <1>1
<1>3. [j \in DOMAIN after |-> after[j]] =
        [j \in {i} \cup DOMAIN before |-> IF j \in {i} THEN after[i] ELSE before[j]]
  OBVIOUS
<1> QED
  BY <1>2, <1>3 DEF Informed

\* A change of variable i that every member is told of, and nobody else.
LEMMA ChangeKeepsViews ==
  ASSUME kind = "varsync", Views, HasID, UNCHANGED mgrVars,
         NEW i \in DOMAIN vars', IsQueue(vars'),
         DOMAIN vars' = DOMAIN vars \cup {i},
         \A j \in DOMAIN vars : j # i => vars'[j] = vars[j],
         shown' = Tell(Members, i, vars'[i])
  PROVE  Views'
<1>1. UNCHANGED <<kind, here, joined, mgrs, made, waiting>>
  BY DEF mgrVars
<1>2. IsQueue(vars) /\ joined \subseteq here /\ here \subseteq Players
  BY DEF Views
<1>3. /\ DOMAIN shown' = Players
      /\ \A q \in Players :
           shown'[q] = IF q \in Members THEN Informed(shown[q], [j \in {i} |-> vars'[i]])
                                        ELSE shown[q]
  BY DEF Tell
<1>4. Members' = Members
  BY <1>1 DEF Members, AgeMgr
<1>5. ASSUME NEW q \in Players
      PROVE  DOMAIN shown'[q] \subseteq DOMAIN vars' /\ (shown'[q] # <<>> => q \in Members')
  <2>1. DOMAIN shown[q] \subseteq DOMAIN vars
    BY DEF Views
  <2>2. CASE q \in Members
    <3>1. shown'[q] = Informed(shown[q], [j \in {i} |-> vars'[i]])
      BY <1>3, <2>2
    <3> DEFINE k == shown[q]
               v == vars'[i]
    <3>2. shown'[q] = Informed(k, [j \in {i} |-> v])
      BY <3>1
    <3> HIDE DEF k, v
    <3>3. DOMAIN shown'[q] = DOMAIN k \cup {i}
      BY <3>2 DEF Informed
    <3>4. DOMAIN shown'[q] = DOMAIN shown[q] \cup {i}
      BY <3>3 DEF k
    <3> QED
      BY <3>4, <2>1, <2>2, <1>4
  <2>3. CASE q \notin Members
    BY <1>3, <1>4, <2>1, <2>3 DEF Views
  <2> QED
    BY <2>2, <2>3
<1>6. ASSUME NEW q \in joined  PROVE shown'[q] = vars'
  <2>1. q \in Players /\ shown[q] = vars /\ q \in ToSet(mgrs[1].players)
    BY <1>2 DEF HasID
  <2>2. mgrs # <<>>
    BY MadeIsMade DEF HasID
  <2>3. q \in Members
    BY <1>2, <2>1, <2>2 DEF Members, AgeMgr
  <2>4. shown'[q] = Informed(vars, [j \in {i} |-> vars'[i]])
    BY <1>3, <2>1, <2>3
  <2> QED
    BY <2>4, <1>2, ToldOfChange
<1>7. HasID'
  BY <1>1, <1>6 DEF HasID
<1> QED
  BY <1>1, <1>2, <1>3, <1>5, <1>7 DEF Views, IsQueue

\* The owner of the game is a member that is here.
LEMMA OwnerSeesAll ==
  ASSUME Views, NEW p \in Players, VarSyncOwner(p)
  PROVE  HasID /\ p \in Members /\ shown[p] = vars
<1>1. p \in joined /\ p \in Members /\ AgeMgr.id # 0
  BY DEF VarSyncOwner, MayPlay
<1>2. HasID
  BY <1>1 DEF Views, NotMade, WaitsForID, AgeMgr
<1> QED
  BY <1>1, <1>2 DEF HasID

\* CreateNumericVar: the owner hears of the variable that exists, every member of a
\* new one.
LEMMA CreateKeepsViews ==
  ASSUME kind = "varsync", Views, NEW p \in Players, NEW name, NEW val,
         CreateNumericVar(p, name, val)
  PROVE  Views'
<1> DEFINE same == {i \in DOMAIN vars : vars[i].name = name}
           new == [name |-> name, val |-> val]
<1>1. HasID /\ p \in Members /\ shown[p] = vars /\ UNCHANGED mgrVars
  BY OwnerSeesAll DEF CreateNumericVar
<1>2. PICK S : vars \in Seq(S)
  BY DEF Views, IsQueue
<1>3. ASSUME NEW i \in same, shown' = Tell({p}, i, vars[i]), UNCHANGED vars
      PROVE  Views'
  <2>1. i \in DOMAIN vars
    OBVIOUS
  <2>2. Informed(vars, [j \in {i} |-> vars[i]]) = vars
    <3>1. IsQueue(vars) /\ DOMAIN vars = DOMAIN vars \cup {i}
      BY <2>1 DEF Views
    <3> QED
      BY <2>1, <3>1, ToldOfChange
  <2>3. /\ DOMAIN shown' = Players /\ \A q \in Players : shown'[q] = shown[q]
    BY <1>1, <1>3, <2>2 DEF Tell
  <2>4. UNCHANGED <<kind, here, joined, mgrs, made, waiting>>
    BY <1>1 DEF mgrVars
  <2>5. joined \subseteq Players
    BY DEF Views
  <2>6. HasID'
    BY <1>1, <1>3, <2>3, <2>4, <2>5 DEF HasID
  <2> QED
    BY <1>3, <2>3, <2>4, <2>6 DEF Views, IsQueue, Members, AgeMgr
<1>4. ASSUME same = {}, vars' = Append(vars, new), shown' = Tell(Members, Len(vars) + 1, new)
      PROVE  Views'
  <2> DEFINE i == Len(vars) + 1
  <2> HIDE DEF new
  <2>1. vars \in Seq(S \cup {new}) /\ new \in S \cup {new}
    BY <1>2
  <2>2. /\ vars' \in Seq(S \cup {new}) /\ Len(vars') = Len(vars) + 1 /\ Len(vars) \in Nat
        /\ vars'[i] = new /\ \A j \in 1..Len(vars) : vars'[j] = vars[j]
        /\ DOMAIN vars = 1..Len(vars) /\ DOMAIN vars' = 1..(Len(vars) + 1)
    BY <1>4, <2>1, AppendProperties
  <2>3. IsQueue(vars')
    BY <2>2 DEF IsQueue
  <2>4. i \in DOMAIN vars' /\ DOMAIN vars' = DOMAIN vars \cup {i}
    BY <2>2
  <2>5. \A j \in DOMAIN vars : j # i => vars'[j] = vars[j]
    BY <2>2
  <2>6. shown' = Tell(Members, i, vars'[i])
    BY <1>4, <2>2
  <2> HIDE DEF i
  <2> QED
    BY <1>1, <2>3, <2>4, <2>5, <2>6, ChangeKeepsViews
<1> QED
  BY <1>3, <1>4 DEF CreateNumericVar

\* SetNumericVar: every member hears of the new value.
LEMMA SetKeepsViews ==
  ASSUME kind = "varsync", Views, NEW p \in Players, NEW i, NEW val,
         SetNumericVar(p, i, val)
  PROVE  Views'
<1>1. HasID /\ UNCHANGED mgrVars /\ i \in DOMAIN vars
  BY OwnerSeesAll DEF SetNumericVar
<1>2. PICK S : vars \in Seq(S)
  BY DEF Views, IsQueue
<1> DEFINE v == [vars[i] EXCEPT !.val = val]
<1>3. vars' = [vars EXCEPT ![i] = v] /\ shown' = Tell(Members, i, vars'[i])
  BY DEF SetNumericVar
<1> HIDE DEF v
<1>4. /\ vars' \in Seq(S \cup {v}) /\ DOMAIN vars' = DOMAIN vars
      /\ \A j \in DOMAIN vars : j # i => vars'[j] = vars[j]
  BY <1>1, <1>2, <1>3
<1>5. IsQueue(vars') /\ i \in DOMAIN vars' /\ DOMAIN vars' = DOMAIN vars \cup {i}
  BY <1>1, <1>4 DEF IsQueue
<1> QED
  BY <1>1, <1>3, <1>4, <1>5, ChangeKeepsViews

\* A step that changes none of what Views is about.
LEMMA OthersKeepViews ==
  ASSUME Views, UNCHANGED <<here, joined, mgrs, made, waiting, vars, shown>>
  PROVE  Views'
  BY DEF Views, NotMade, WaitsForID, HasID, Members, AgeMgr, IsQueue

\* IDs stay proper ones: the backend sends the next, and takes no other from anywhere.
LEMMA IdsStep ==
  ASSUME IdInv, IdsInv, Next
  PROVE  IdsInv'
<1>1. PICK S : fromVault \in Seq(S)
  BY DEF IdInv, IsQueue
<1>2. ASSUME UNCHANGED <<next_id, fromVault>>  PROVE IdsInv'
  BY <1>2 DEF IdsInv, PositiveIds
<1>3. ASSUME fromVault # <<>>, fromVault' = Tail(fromVault), next_id' = next_id  PROVE IdsInv'
  <2>1. /\ Len(fromVault') = Len(fromVault) - 1 /\ fromVault' \in Seq(S) /\ Len(fromVault) \in Nat
        /\ \A i \in 1..Len(fromVault') : fromVault'[i] = fromVault[i + 1]
    BY <1>1, <1>3, HeadTailProperties
  <2>2. ASSUME NEW i \in DOMAIN fromVault', fromVault'[i].op = "nextid"
        PROVE  fromVault'[i].id \in Nat \ {0}
    <3>1. i + 1 \in DOMAIN fromVault /\ fromVault'[i] = fromVault[i + 1]
      BY <1>1, <2>1
    <3> QED
      BY <2>2, <3>1 DEF IdsInv, PositiveIds
  <2> QED
    BY <1>3, <2>2 DEF IdsInv, PositiveIds
<1>4. ASSUME VaultMarkers  PROVE IdsInv'
  <2>1. PICK e : NoIds(e) /\ fromVault' = fromVault \o e
    BY <1>4, VaultSends
  <2>2. PICK U : e \in Seq(U)
    BY <2>1 DEF NoIds, IsQueue
  <2>3. fromVault \in Seq(S \cup U) /\ e \in Seq(S \cup U)
    BY <1>1, <2>2
  <2>4. /\ fromVault' \in Seq(S \cup U) /\ Len(fromVault') = Len(fromVault) + Len(e)
        /\ Len(fromVault) \in Nat /\ Len(e) \in Nat
        /\ \A i \in 1..Len(fromVault) + Len(e) :
             fromVault'[i] = IF i <= Len(fromVault) THEN fromVault[i] ELSE e[i - Len(fromVault)]
    BY <2>1, <2>3, ConcatProperties
  <2>5. ASSUME NEW i \in DOMAIN fromVault', fromVault'[i].op = "nextid"
        PROVE  fromVault'[i].id \in Nat \ {0}
    <3>1. CASE i <= Len(fromVault)
      <4>1. i \in DOMAIN fromVault /\ fromVault'[i] = fromVault[i]
        BY <1>1, <2>4, <3>1
      <4> QED
        BY <2>5, <4>1 DEF IdsInv, PositiveIds
    <3>2. CASE ~(i <= Len(fromVault))
      <4>1. i - Len(fromVault) \in DOMAIN e /\ fromVault'[i] = e[i - Len(fromVault)]
        BY <2>2, <2>4, <3>2
      <4> QED
        BY <2>1, <2>5, <4>1 DEF NoIds
    <3> QED
      BY <3>1, <3>2
  <2>6. next_id' = next_id
    BY <1>4, VaultSends
  <2> QED
    BY <2>5, <2>6 DEF IdsInv, PositiveIds
<1>5. ASSUME VaultNextID  PROVE IdsInv'
  <2> DEFINE m == [op |-> "nextid", id |-> next_id]
  <2>1. fromVault' = Append(fromVault, m) /\ next_id' = next_id + 1 /\ m.id \in Nat \ {0}
    BY <1>5 DEF VaultNextID, IdsInv
  <2> HIDE DEF m
  <2>2. fromVault \in Seq(S \cup {m}) /\ m \in S \cup {m}
    BY <1>1
  <2>3. /\ Len(fromVault') = Len(fromVault) + 1 /\ fromVault' \in Seq(S \cup {m})
        /\ Len(fromVault) \in Nat /\ fromVault'[Len(fromVault) + 1] = m
        /\ \A i \in 1..Len(fromVault) : fromVault'[i] = fromVault[i]
    BY <2>1, <2>2, AppendProperties
  <2>4. ASSUME NEW i \in DOMAIN fromVault', fromVault'[i].op = "nextid"
        PROVE  fromVault'[i].id \in Nat \ {0}
    <3>1. i \in 1..Len(fromVault) \/ i = Len(fromVault) + 1
      BY <2>3
    <3>2. CASE i \in 1..Len(fromVault)
      <4>1. i \in DOMAIN fromVault /\ fromVault'[i] = fromVault[i]
        BY <1>1, <2>3, <3>2
      <4> QED
        BY <2>4, <4>1 DEF IdsInv, PositiveIds
    <3>3. CASE i = Len(fromVault) + 1
      BY <2>1, <2>3, <3>3
    <3> QED
      BY <3>1, <3>2, <3>3
  <2>5. next_id' \in Nat \ {0}
    BY <2>1 DEF IdsInv
  <2> QED
    BY <2>4, <2>5 DEF IdsInv, PositiveIds
<1>6. CASE \E p \in Players : Come(p) \/ SetupGame(p) \/ Depart(p)
  BY <1>2, <1>6 DEF Come, Arrive, SetupGame, Setup, Depart, Leave
<1>7. CASE GameGetsID \/ MarkerAnswer
  BY <1>3, <1>7 DEF GameGetsID, GotNextID, MarkerAnswer, GotMarkerAnswer
<1>8. CASE VarSyncNext \/ DoorNext \/ DoorTimer
  BY <1>2, <1>8 DEF VarSyncNext, CreateNumericVar, SetNumericVar, DoorNext, StartGame,
                    HitRight, HitWrong, DoorTimer, DoorTimeouts, DoorTimeout, mgrVars
<1>9. CASE HeekNext \/ HeekClock
  BY <1>2, <1>9 DEF HeekNext, PlayGame, LeaveTable, LateChoice, Choose, SeqFinished,
                    HeekClock, HeekTimer, mgrVars
<1>10. CASE MarkerNext
  BY <1>2, <1>10 DEF MarkerNext, StartMarkers, PauseMarkers, ResetMarkers, DeleteGame,
                     AddMarker, RenameGame, DeleteMarker, CaptureMarker, RenameMarker, Ask, mgrVars
<1> QED
  BY <1>4, <1>5, <1>6, <1>7, <1>8, <1>9, <1>10 DEF Next, NextID

\* Every step of Next keeps what the members of a VarSync game see.
LEMMA ViewsStep ==
  ASSUME kind = "varsync", IdInv, IdsInv, Views, Next
  PROVE  Views'
<1>1. ASSUME NEW p \in Players, Come(p)  PROVE Views'
  BY <1>1, ComeKeepsViews
<1>2. ASSUME NEW p \in Players, SetupGame(p)  PROVE Views'
  <2>1. Setup(p, 0) /\ Initialized(InitializedNow(p))
    BY <1>2 DEF SetupGame
  <2>2. NewGame(p, 0) \/ JoinGame(p)
    BY <2>1 DEF Setup
  <2> QED
    BY <2>1, <2>2, FirstSetupKeepsViews, LaterSetupKeepsViews
<1>3. ASSUME NEW p \in Players, Depart(p)  PROVE Views'
  BY <1>3, LeaveKeepsViews
<1>4. CASE NextID
  BY <1>4, OthersKeepViews DEF NextID, VaultNextID, OthersThan, varSyncVars
<1>5. CASE GameGetsID
  BY <1>5, IDKeepsViews
<1>6. CASE VarSyncNext
  BY <1>6, CreateKeepsViews, SetKeepsViews DEF VarSyncNext
<1>7. CASE DoorNext \/ DoorTimer
  BY <1>7, OthersKeepViews DEF DoorNext, StartGame, HitRight, HitWrong, DoorTimer,
         DoorTimeouts, DoorTimeout, mgrVars, OthersThan, varSyncVars
<1>8. CASE HeekNext
  BY <1>8, OthersKeepViews DEF HeekNext, PlayGame, LeaveTable, LateChoice, Choose,
         SeqFinished, mgrVars, OthersThan, varSyncVars
<1>9. CASE HeekClock
  BY <1>9, OthersKeepViews DEF HeekClock, HeekTimer, mgrVars, OthersThan, varSyncVars
<1>10. CASE MarkerNext
  BY <1>10, OthersKeepViews DEF MarkerNext, StartMarkers, PauseMarkers, ResetMarkers,
         DeleteGame, AddMarker, RenameGame, DeleteMarker, CaptureMarker, RenameMarker, Ask,
         mgrVars, OthersThan, varSyncVars
<1>11. CASE VaultMarkers
  BY <1>11, OthersKeepViews DEF VaultMarkers, VaultChanges, VaultOpens, OthersThan, varSyncVars
<1>12. CASE MarkerAnswer
  BY <1>12, OthersKeepViews DEF MarkerAnswer, GotMarkerAnswer, OthersThan, varSyncVars
<1> QED
  BY <1>1, <1>2, <1>3, <1>4, <1>5, <1>6, <1>7, <1>8, <1>9, <1>10, <1>11, <1>12 DEF Next

\* A behaviour is about one kind of game.
LEMMA KindStays ==
  ASSUME Next
  PROVE  kind' = kind
  BY DEF Next, Come, Arrive, SetupGame, Setup, Depart, Leave, NextID, VaultNextID,
     GameGetsID, GotNextID, VarSyncNext, CreateNumericVar, SetNumericVar,
     DoorNext, StartGame, HitRight, HitWrong, DoorTimer, DoorTimeouts, DoorTimeout,
     HeekNext, PlayGame, LeaveTable, LateChoice, Choose, SeqFinished, HeekClock, HeekTimer,
     MarkerNext, StartMarkers, PauseMarkers, ResetMarkers, DeleteGame, AddMarker, RenameGame,
     DeleteMarker, CaptureMarker, RenameMarker, Ask, VaultMarkers, VaultChanges, VaultOpens,
     MarkerAnswer, GotMarkerAnswer, mgrVars

\* Views of a VarSync game, in every state.
THEOREM MembersAreTold == Spec => []ViewInv
<1>1. Init => ViewInv
  <2> SUFFICES ASSUME Init  PROVE ViewInv
    OBVIOUS
  <2>1. IdInv
    BY IdInit
  <2>2. next_id = 1 /\ fromVault = <<>> /\ mgrs = <<>> /\ made = 0 /\ joined = {} /\ here = {}
    BY DEF Init, MgrInit
  <2>3. vars = <<>> /\ shown = [p \in Players |-> <<>>]
    BY DEF Init, VarSyncInit
  <2>4. DOMAIN <<>> = {} /\ IsQueue(<<>>)
    <3>1. <<>> \in Seq({})
      OBVIOUS
    <3> QED
      BY <3>1 DEF IsQueue
  <2>5. IdsInv
    BY <2>2, <2>4 DEF IdsInv, PositiveIds
  <2>6. Views
    BY <2>2, <2>3, <2>4 DEF Views, NotMade
  <2> QED
    BY <2>1, <2>5, <2>6 DEF ViewInv
<1>2. ViewInv /\ [Next]_vars_ => ViewInv'
  <2> SUFFICES ASSUME ViewInv, [Next]_vars_  PROVE ViewInv'
    OBVIOUS
  <2>1. CASE UNCHANGED vars_
    <3>1. IdInv' /\ IdsInv'
      BY <2>1, OthersKeep DEF vars_, mgrVars, ViewInv, IdsInv, PositiveIds
    <3>2. kind = "varsync" => Views'
      BY <2>1, OthersKeepViews DEF vars_, mgrVars, varSyncVars, ViewInv
    <3> QED
      BY <2>1, <3>1, <3>2 DEF ViewInv, vars_, mgrVars
  <2>2. CASE Next
    <3>1. IdInv' /\ IdsInv' /\ kind' = kind
      BY <2>2, IdStep, IdsStep, KindStays DEF ViewInv
    <3>2. kind = "varsync" => Views'
      BY <2>2, ViewsStep DEF ViewInv
    <3> QED
      BY <3>1, <3>2 DEF ViewInv
  <2> QED
    BY <2>1, <2>2
<1> QED
  BY <1>1, <1>2, PTL DEF Spec

\* For any players, variables and values: whoever joined a VarSync game sees the
\* variables the server has, with their values, whenever it joined, whoever set them,
\* and also when its setup was saved until the game had its ID.
THEOREM MembersSeeTheVariables == Spec => []ViewsAgree
<1>1. ViewInv => ViewsAgree
  BY DEF ViewInv, Views, ViewsAgree, NotMade, WaitsForID, HasID, MayPlay, AgeMgr
<1> QED
  BY <1>1, MembersAreTold, PTL

-----------------------------------------------------------------------------
(* Heek: the types of the manager's record, and what each operator makes   *)
(* of it                                                                   *)

HeekStates == {"IDLE", "IN_GAME"} \cup Waits
Sitters == [score : Int, choice : HeekChoices \cup {None}, wins : [HeekChoices -> Nat],
            plays : BOOLEAN, pending : BOOLEAN]
Managers == [state : HeekStates, pool : Nat, sitting : SUBSET Players, all : Seq(Players),
             sitter : [Players -> Sitters], choices : Int, pending : Int,
             cleanup : BOOLEAN, timer : {"none", "live", "gone"}, stray : Int]

\* g is h but for its state and its timers.
SameTable(g, h) ==
  /\ g.pool = h.pool /\ g.sitting = h.sitting /\ g.all = h.all /\ g.sitter = h.sitter
  /\ g.choices = h.choices /\ g.pending = h.pending

\* The sitters of g are those of h, with the same money.
SameMoney(g, h) ==
  /\ g.pool = h.pool /\ g.sitting = h.sitting /\ g.all = h.all
  /\ \A p \in Players : /\ g.sitter[p].score = h.sitter[p].score
                        /\ g.sitter[p].plays = h.sitter[p].plays

\* A timer is set, cancelled, or fires, and the table stays as it is.
LEMMA TimersOnly ==
  ASSUME NEW h \in Managers, NEW s \in HeekStates
  PROVE  /\ Timed(h, s) \in Managers /\ SameTable(Timed(h, s), h)
         /\ Timed(h, s).state = s /\ Timed(h, s).timer = "live"
         /\ Cancelled(h) \in Managers /\ SameTable(Cancelled(h), h) /\ Cancelled(h).state = h.state
         /\ Fired(h) \in Managers /\ SameTable(Fired(h), h) /\ Fired(h).state = h.state
         /\ StrayFired(h) \in Managers /\ SameTable(StrayFired(h), h)
         /\ StrayFired(h).state = h.state
<1>1. h.stray \in Int /\ h.stray + 1 \in Int /\ h.stray - 1 \in Int /\ h.stray - 1 + 1 \in Int
  BY DEF Managers
<1>2. /\ Timed(h, s) \in Managers /\ SameTable(Timed(h, s), h)
      /\ Timed(h, s).state = s /\ Timed(h, s).timer = "live"
  BY <1>1 DEF Managers, Timed, SameTable
<1>3. Cancelled(h) \in Managers /\ SameTable(Cancelled(h), h) /\ Cancelled(h).state = h.state
  BY DEF Managers, Cancelled, SameTable
<1>4. Fired(h) \in Managers /\ SameTable(Fired(h), h) /\ Fired(h).state = h.state
  BY DEF Managers, Fired, SameTable
<1>5. /\ StrayFired(h) \in Managers /\ SameTable(StrayFired(h), h)
      /\ StrayFired(h).state = h.state
  BY <1>1 DEF Managers, StrayFired, SameTable
<1> QED
  BY <1>2, <1>3, <1>4, <1>5

\* What TimersOnly says of Timed, for a manager with a name of its own.
LEMMA TimerSet ==
  ASSUME NEW h \in Managers, NEW s \in HeekStates, NEW g, g = Timed(h, s)
  PROVE  g \in Managers /\ SameTable(g, h) /\ g.state = s /\ g.timer = "live"
  BY TimersOnly

\* A sitter of which one field was changed.
LEMMA SitterChanged ==
  ASSUME NEW s \in Sitters
  PROVE  /\ [s EXCEPT !.choice = None] \in Sitters
         /\ [s EXCEPT !.wins = NoWins] \in Sitters
         /\ [s EXCEPT !.wins = NoWins, !.plays = FALSE] \in Sitters
         /\ \A b \in BOOLEAN : [s EXCEPT !.pending = b] \in Sitters
         /\ \A i \in Int : [s EXCEPT !.score = i] \in Sitters
  BY DEF Sitters, NoWins

\* A new sitter has chosen nothing and plays in no game.
LEMMA NewSitterTyped ==
  ASSUME NEW i \in Int
  PROVE  /\ NewSitter(i) \in Sitters /\ NewSitter(i).score = i /\ NewSitter(i).choice = None
         /\ ~NewSitter(i).plays /\ ~NewSitter(i).pending
  BY DEF Sitters, NoWins, NewSitter

\* The choices of a round are forgotten, and nothing else.
ChoicesGone(g, h) ==
  /\ g.state = h.state /\ g.timer = h.timer /\ g.pending = h.pending /\ g.choices = 0
  /\ \A p \in Players : /\ g.sitter[p].choice = None
                        /\ g.sitter[p].pending = h.sitter[p].pending

\* ResetChoices forgets the choices and keeps the money.
LEMMA ChoicesReset ==
  ASSUME NEW h \in Managers
  PROVE  /\ ResetChoices(h) \in Managers /\ SameMoney(ResetChoices(h), h)
         /\ ChoicesGone(ResetChoices(h), h)
<1> DEFINE f == [p \in Players |-> [h.sitter[p] EXCEPT !.choice = None]]
           g == ResetChoices(h)
<1>1. h.sitter \in [Players -> Sitters]
  BY DEF Managers
<1>2. f \in [Players -> Sitters]
  BY <1>1, SitterChanged
<1>3. \A p \in Players : /\ f[p].choice = None /\ f[p].pending = h.sitter[p].pending
                         /\ f[p].score = h.sitter[p].score /\ f[p].plays = h.sitter[p].plays
  BY <1>1 DEF Sitters
<1>4. g = [h EXCEPT !.choices = 0, !.sitter = f]
  BY DEF ResetChoices
<1> HIDE DEF f, g
<1>5. /\ g \in Managers /\ g.sitter = f /\ g.state = h.state /\ g.timer = h.timer
      /\ g.pending = h.pending /\ g.choices = 0
      /\ g.pool = h.pool /\ g.sitting = h.sitting /\ g.all = h.all
  BY <1>2, <1>4, 0 \in Int DEF Managers
<1>6. SameMoney(g, h) /\ ChoicesGone(g, h)
  BY <1>3, <1>5 DEF SameMoney, ChoicesGone
<1> QED
  BY <1>5, <1>6 DEF g

\* A new game: nobody plays in it yet.
NobodyIn(g, h) ==
  /\ g.state = h.state /\ g.timer = h.timer /\ g.sitting = h.sitting /\ g.all = h.all
  /\ g.choices = h.choices /\ g.pending = h.pending /\ g.pool = 0
  /\ \A p \in Players : /\ g.sitter[p].score = h.sitter[p].score
                        /\ g.sitter[p].choice = h.sitter[p].choice
                        /\ g.sitter[p].pending = h.sitter[p].pending
                        /\ ~g.sitter[p].plays

\* ResetGame empties the pool, and nobody plays in the new game.
LEMMA GameReset ==
  ASSUME NEW h \in Managers
  PROVE  ResetGame(h) \in Managers /\ NobodyIn(ResetGame(h), h)
<1> DEFINE f == [p \in Players |-> [h.sitter[p] EXCEPT !.wins = NoWins, !.plays = FALSE]]
           g == ResetGame(h)
<1>1. h.sitter \in [Players -> Sitters]
  BY DEF Managers
<1>2. f \in [Players -> Sitters]
  BY <1>1, SitterChanged
<1>3. \A p \in Players : /\ f[p].choice = h.sitter[p].choice /\ f[p].pending = h.sitter[p].pending
                         /\ f[p].score = h.sitter[p].score /\ f[p].plays = FALSE
  BY <1>1 DEF Sitters
<1>4. g = [h EXCEPT !.pool = 0, !.sitter = f]
  BY DEF ResetGame, NobodyPlays, Managers
<1> HIDE DEF f, g
<1>5. /\ g \in Managers /\ g.sitter = f /\ g.state = h.state /\ g.timer = h.timer
      /\ g.pending = h.pending /\ g.choices = h.choices
      /\ g.pool = 0 /\ g.sitting = h.sitting /\ g.all = h.all
  BY <1>2, <1>4 DEF Managers
<1>6. NobodyIn(g, h)
  BY <1>3, <1>5 DEF NobodyIn
<1> QED
  BY <1>5, <1>6 DEF g

\* Those who neither sit nor are in m_all are forgotten, and nothing else.
Remembered(g, h) ==
  /\ g.state = h.state /\ g.timer = h.timer /\ g.sitting = h.sitting /\ g.all = h.all
  /\ g.choices = h.choices /\ g.pending = h.pending /\ g.pool = h.pool
  /\ \A p \in Players : g.sitter[p] = IF p \in h.sitting \cup ToSet(h.all) THEN h.sitter[p]
                                      ELSE NewSitter(0)

\* StrangersForgotten changes nobody who sits or is in m_all.
LEMMA StrangersGone ==
  ASSUME NEW h \in Managers
  PROVE  StrangersForgotten(h) \in Managers /\ Remembered(StrangersForgotten(h), h)
<1> DEFINE f == [p \in Players |-> IF p \in h.sitting \cup ToSet(h.all) THEN h.sitter[p]
                                   ELSE NewSitter(0)]
           g == StrangersForgotten(h)
<1>1. h.sitter \in [Players -> Sitters]
  BY DEF Managers
<1>2. f \in [Players -> Sitters]
  <2>1. NewSitter(0) \in Sitters
    BY NewSitterTyped
  <2> QED
    BY <1>1, <2>1
<1>4. g = [h EXCEPT !.sitter = f]
  BY DEF StrangersForgotten
<1>3. \A p \in Players : f[p] = IF p \in h.sitting \cup ToSet(h.all) THEN h.sitter[p]
                                ELSE NewSitter(0)
  OBVIOUS
<1> HIDE DEF f, g
<1>5. /\ g \in Managers /\ g.sitter = f /\ g.state = h.state /\ g.timer = h.timer
      /\ g.pending = h.pending /\ g.choices = h.choices
      /\ g.pool = h.pool /\ g.sitting = h.sitting /\ g.all = h.all
  BY <1>2, <1>4 DEF Managers
<1>6. Remembered(g, h)
  BY <1>3, <1>5 DEF Remembered
<1> QED
  BY <1>5, <1>6 DEF g

-----------------------------------------------------------------------------
(* The counts                                                              *)

\* What CountsAreRight needs to be kept: only those who play have chosen or are
\* pending winners, a game that is over or not begun has none pending, and who
\* does not sit counts for nothing when he sits down again.
Right(h) ==
  /\ h.state \in {"COUNTDOWN", "STOP_WAIT"} =>
       h.choices = Cardinality(Chose(h)) /\ \A p \in Chose(h) : h.sitter[p].plays
  /\ h.pending = IF h.state = "WINNER" THEN 0 ELSE Cardinality(Pending(h))
  /\ h.state \in {"IDLE", "WIN_WAIT"} => Pending(h) = {}
  /\ \A p \in Pending(h) : h.sitter[p].plays
  /\ \A p \in Players \ h.sitting : h.sitter[p].choice = None /\ ~h.sitter[p].pending

Timely(h) == h.state \in Waits => h.timer = "live"

\* The sets that are counted are finite.
LEMMA TableIsFinite ==
  ASSUME NEW h \in Managers
  PROVE  /\ h.sitting \subseteq Players /\ IsFiniteSet(h.sitting)
         /\ Chose(h) \subseteq h.sitting /\ IsFiniteSet(Chose(h)) /\ Cardinality(Chose(h)) \in Nat
         /\ Pending(h) \subseteq h.sitting /\ IsFiniteSet(Pending(h))
         /\ Cardinality(Pending(h)) \in Nat
<1>1. h.sitting \subseteq Players
  BY DEF Managers
<1>2. Chose(h) \subseteq h.sitting /\ Pending(h) \subseteq h.sitting
  BY DEF Chose, Pending
<1>3. IsFiniteSet(h.sitting)
  BY <1>1, HeekAssumption, FS_Subset
<1>4. IsFiniteSet(Chose(h)) /\ IsFiniteSet(Pending(h))
  BY <1>2, <1>3, FS_Subset
<1> QED
  BY <1>1, <1>2, <1>3, <1>4, FS_CardinalityType

\* The same choices make the same set.
LEMMA SameChose ==
  ASSUME NEW h, NEW g, h.sitting \subseteq Players, g.sitting = h.sitting,
         \A p \in Players : g.sitter[p].choice = h.sitter[p].choice
  PROVE  Chose(g) = Chose(h)
  BY DEF Chose

\* The pending winners depend on who sits and who pends.
LEMMA SamePending ==
  ASSUME NEW h, NEW g, h.sitting \subseteq Players, g.sitting = h.sitting,
         \A p \in Players : g.sitter[p].pending = h.sitter[p].pending
  PROVE  Pending(g) = Pending(h)
  BY DEF Pending

\* A change of state and timers only keeps the counts right.
LEMMA SameTableRight ==
  ASSUME NEW h \in Managers, NEW g \in Managers, SameTable(g, h), Right(h),
         g.state = h.state \/ (h.state = "COUNTDOWN" /\ g.state = "STOP_WAIT")
  PROVE  Right(g)
<1>1. Chose(g) = Chose(h) /\ Pending(g) = Pending(h)
  BY DEF Chose, Pending, SameTable
<1>2. g.choices = h.choices /\ g.pending = h.pending /\ g.sitter = h.sitter /\ g.sitting = h.sitting
  BY DEF SameTable
<1> QED
  BY <1>1, <1>2 DEF Right

\* A round that is over leaves no choices.
LEMMA ResetIsRight ==
  ASSUME NEW h \in Managers, Right(h), NEW g \in Managers, SameMoney(g, h),
         \A p \in Players : /\ g.sitter[p].choice = None
                            /\ g.sitter[p].pending = h.sitter[p].pending,
         g.pending = h.pending, g.choices = 0, h.state # "WINNER",
         \/ g.state \in {"IN_GAME", "ANIM_WAIT", "COUNTDOWN"}
         \/ h.state \in {"IDLE", "WIN_WAIT"} /\ g.state = "IDLE"
  PROVE  Right(g)
<1>1. h.sitting \subseteq Players /\ g.sitting = h.sitting
  BY DEF Managers, SameMoney
<1>2. Pending(g) = Pending(h)
  BY <1>1, SamePending
<1>3. Chose(g) = {}
  BY <1>1 DEF Chose
<1>4. Cardinality({}) = 0
  BY FS_EmptySet
<1>5. \A p \in Players : g.sitter[p].plays = h.sitter[p].plays
  BY DEF SameMoney
<1> QED
  BY <1>1, <1>2, <1>3, <1>4, <1>5, TableIsFinite DEF Right

\* countdown_idle
LEMMA IdleIs ==
  ASSUME NEW h \in Managers
  PROVE  /\ CountdownIdle(h) \in Managers /\ SameMoney(CountdownIdle(h), h)
         /\ CountdownIdle(h).state = "IN_GAME" /\ CountdownIdle(h).pending = h.pending
         /\ CountdownIdle(h).choices = 0
         /\ \A p \in Players : /\ CountdownIdle(h).sitter[p].choice = None
                               /\ CountdownIdle(h).sitter[p].pending = h.sitter[p].pending
<1> DEFINE k == ResetChoices(h)
           g == CountdownIdle(h)
<1>1. k \in Managers /\ SameMoney(k, h) /\ ChoicesGone(k, h)
  BY ChoicesReset
<1>2. g = [k EXCEPT !.state = "IN_GAME"]
  BY DEF CountdownIdle
<1> HIDE DEF k, g
<1>3. /\ g \in Managers /\ g.state = "IN_GAME" /\ SameTable(g, k)
  BY <1>1, <1>2 DEF Managers, SameTable, HeekStates
<1>4. SameMoney(g, h) /\ g.pending = h.pending /\ g.choices = 0
      /\ \A p \in Players : g.sitter[p].choice = None /\ g.sitter[p].pending = h.sitter[p].pending
  BY <1>1, <1>3 DEF SameTable, SameMoney, ChoicesGone
<1> QED
  BY <1>3, <1>4 DEF g

\* The winners of a round have their wins, and some may be pending winners of the
\* game; nothing else changes.
RoundIsWon(g, h) ==
  /\ g.state = h.state /\ g.timer = h.timer /\ g.pending = h.pending /\ g.choices = h.choices
  /\ \A p \in Players :
       /\ g.sitter[p].choice = h.sitter[p].choice
       /\ g.sitter[p].pending <=>
            \/ h.sitter[p].pending
            \/ p \in RoundWinners(h) /\ Enough(h, p) /\ h.pending = 0

\* t is the sitter s with one more win, and is pending as b says.
HasWon(t, s, b) == t = [s EXCEPT !.wins[s.choice] = @ + 1, !.pending = b]
\* A sitter who won a round is one.
LEMMA WinnerTyped ==
  ASSUME NEW s \in Sitters, s.choice # None, NEW b \in BOOLEAN, NEW t, HasWon(t, s, b)
  PROVE  /\ t \in Sitters /\ t.pending = b /\ t.choice = s.choice
         /\ t.score = s.score /\ t.plays = s.plays
<1>1. s.choice \in HeekChoices /\ s.wins[s.choice] + 1 \in Nat
  BY DEF Sitters
<1>2. [s.wins EXCEPT ![s.choice] = @ + 1] \in [HeekChoices -> Nat]
  BY <1>1 DEF Sitters
<1> QED
  BY <1>2 DEF Sitters, HasWon

\* The winners of a round get a win, and maybe become pending; nobody's money changes.
LEMMA WonRoundIs ==
  ASSUME NEW h \in Managers
  PROVE  /\ WonRound(h) \in Managers /\ SameMoney(WonRound(h), h) /\ RoundIsWon(WonRound(h), h)
<1> DEFINE b(p) == h.sitter[p].pending \/ (Enough(h, p) /\ h.pending = 0)
           f == [p \in Players |->
                   IF p \in RoundWinners(h)
                   THEN [h.sitter[p] EXCEPT !.wins[h.sitter[p].choice] = @ + 1, !.pending = b(p)]
                   ELSE h.sitter[p]]
           g == WonRound(h)
<1>1. h.sitter \in [Players -> Sitters]
  BY DEF Managers
<1>2. g = [h EXCEPT !.sitter = f]
  BY DEF WonRound
<1>3. ASSUME NEW p \in Players
      PROVE  /\ f[p] \in Sitters /\ f[p].choice = h.sitter[p].choice
             /\ f[p].score = h.sitter[p].score /\ f[p].plays = h.sitter[p].plays
             /\ f[p].pending = IF p \in RoundWinners(h) THEN b(p) ELSE h.sitter[p].pending
  <2>1. CASE p \in RoundWinners(h)
    <3>1. h.sitter[p].choice # None
      BY <2>1 DEF RoundWinners, Chose
    <3>2. b(p) \in BOOLEAN
      OBVIOUS
    <3>3. f[p] = [h.sitter[p] EXCEPT !.wins[h.sitter[p].choice] = @ + 1, !.pending = b(p)]
      BY <2>1
    <3>4. h.sitter[p] \in Sitters
      BY <1>1
    <3> DEFINE s == h.sitter[p]
               t == f[p]
               c == b(p)
    <3>5. s \in Sitters /\ s.choice # None /\ c \in BOOLEAN
          /\ HasWon(t, s, c)
      BY <3>1, <3>2, <3>3, <3>4 DEF HasWon
    <3> HIDE DEF b, f, s, t, c
    <3>6. /\ t \in Sitters /\ t.pending = c /\ t.choice = s.choice
          /\ t.score = s.score /\ t.plays = s.plays
      BY ONLY <3>5, WinnerTyped
    <3> QED
      BY <2>1, <3>6 DEF s, t, c
  <2>2. CASE p \notin RoundWinners(h)
    BY <1>1, <2>2
  <2> QED
    BY <2>1, <2>2
<1>4. \A p \in Players : b(p) <=> h.sitter[p].pending \/ (Enough(h, p) /\ h.pending = 0)
  OBVIOUS
<1>5. f \in [Players -> Sitters]
  BY <1>3
<1> HIDE DEF f, g, b
<1>6. /\ g \in Managers /\ g.sitter = f /\ g.state = h.state /\ g.timer = h.timer
      /\ g.pending = h.pending /\ g.choices = h.choices
      /\ g.pool = h.pool /\ g.sitting = h.sitting /\ g.all = h.all
  BY <1>2, <1>5 DEF Managers
<1>7. SameMoney(g, h) /\ RoundIsWon(g, h)
  BY <1>3, <1>4, <1>6 DEF SameMoney, RoundIsWon
<1> QED
  BY <1>6, <1>7 DEF g

\* In sudden death those who fall behind are pending winners no more.
BestRemain(g, h, best) ==
  /\ g.state = h.state /\ g.timer = h.timer /\ g.choices = h.choices
  /\ g.pending = IF h.pending = 0 THEN 0 ELSE h.pending - Cardinality(Pending(h) \ best)
  /\ \A p \in Players :
       /\ g.sitter[p].choice = h.sitter[p].choice
       /\ g.sitter[p].pending <=> h.sitter[p].pending /\ (p \in best \/ p \notin h.sitting)

\* OnlyTheBest leaves those of the pending winners that are the best.
LEMMA OnlyTheBestIs ==
  ASSUME NEW h \in Managers, NEW best
  PROVE  /\ OnlyTheBest(h, best) \in Managers /\ SameMoney(OnlyTheBest(h, best), h)
         /\ BestRemain(OnlyTheBest(h, best), h, best)
<1> DEFINE b(p) == h.sitter[p].pending /\ (p \in best \/ p \notin h.sitting)
           f == [p \in Players |-> [h.sitter[p] EXCEPT !.pending = b(p)]]
           n == IF h.pending = 0 THEN 0 ELSE h.pending - Cardinality(Pending(h) \ best)
           g == OnlyTheBest(h, best)
<1>1. h.sitter \in [Players -> Sitters]
  BY DEF Managers
<1>2. g = [h EXCEPT !.sitter = f, !.pending = n]
  BY DEF OnlyTheBest
<1>3. \A p \in Players : b(p) \in BOOLEAN
  BY <1>1 DEF Sitters
<1>4. \A p \in Players : b(p) <=> h.sitter[p].pending /\ (p \in best \/ p \notin h.sitting)
  OBVIOUS
<1> HIDE DEF b
<1>5. f \in [Players -> Sitters]
  BY <1>1, <1>3, SitterChanged
<1>6. \A p \in Players : /\ f[p].choice = h.sitter[p].choice /\ f[p].pending = b(p)
                         /\ f[p].score = h.sitter[p].score /\ f[p].plays = h.sitter[p].plays
  BY <1>1 DEF Sitters
<1>7. n \in Int
  <2>1. IsFiniteSet(Pending(h) \ best)
    BY TableIsFinite, FS_Difference
  <2> QED
    BY <2>1, FS_CardinalityType DEF Managers
<1> HIDE DEF f, g
<1>8. /\ g \in Managers /\ g.sitter = f /\ g.state = h.state /\ g.timer = h.timer
      /\ g.pending = n /\ g.choices = h.choices
      /\ g.pool = h.pool /\ g.sitting = h.sitting /\ g.all = h.all
  <2> HIDE DEF n
  <2> QED
    BY <1>2, <1>5, <1>7 DEF Managers
<1>9. SameMoney(g, h) /\ BestRemain(g, h, best)
  BY <1>4, <1>6, <1>8 DEF SameMoney, BestRemain
<1> QED
  BY <1>8, <1>9 DEF g

\* The winner of the game has the pool, and the table waits for the animation.
Paid(g, h, p) ==
  /\ g.pool = 0 /\ g.sitting = h.sitting /\ g.all = h.all /\ g.pending = 0
  /\ g.state = "WINNER" /\ g.timer = "live" /\ g.choices = h.choices
  /\ \A q \in Players :
       /\ g.sitter[q].score = IF q = p THEN h.sitter[q].score + h.pool ELSE h.sitter[q].score
       /\ g.sitter[q].choice = h.sitter[q].choice
       /\ g.sitter[q].pending = h.sitter[q].pending /\ g.sitter[q].plays = h.sitter[q].plays

\* GameWon pays the pool to the winner.
LEMMA GameWonIs ==
  ASSUME NEW h \in Managers, NEW p \in Players
  PROVE  GameWon(h, p) \in Managers /\ Paid(GameWon(h, p), h, p)
<1> DEFINE e == [h.sitter EXCEPT ![p].score = @ + h.pool]
           f == [q \in Players |-> [e[q] EXCEPT !.wins = NoWins]]
           g == [h EXCEPT !.pending = 0, !.pool = 0, !.sitter = f]
<1>1. h.sitter \in [Players -> Sitters] /\ h.pool \in Nat
  BY DEF Managers
<1>2. ASSUME NEW q \in Players
      PROVE  /\ e[q] \in Sitters
             /\ e[q].score = IF q = p THEN h.sitter[q].score + h.pool ELSE h.sitter[q].score
             /\ e[q].choice = h.sitter[q].choice
             /\ e[q].pending = h.sitter[q].pending /\ e[q].plays = h.sitter[q].plays
  <2>1. h.sitter[q].score + h.pool \in Int
    BY <1>1 DEF Sitters
  <2>2. e[q] = IF q = p THEN [h.sitter[q] EXCEPT !.score = h.sitter[q].score + h.pool] ELSE h.sitter[q]
    BY <1>1
  <2> HIDE DEF e
  <2> QED
    BY <1>1, <2>1, <2>2 DEF Sitters
<1>3. GameWon(h, p) = Timed(g, "WINNER")
  BY DEF GameWon, WinsForgotten, Managers
<1> HIDE DEF e
<1>4. f \in [Players -> Sitters]
  BY <1>2, SitterChanged
<1>5. \A q \in Players : /\ f[q].choice = e[q].choice /\ f[q].pending = e[q].pending
                         /\ f[q].score = e[q].score /\ f[q].plays = e[q].plays
  BY <1>2 DEF Sitters
<1> HIDE DEF f
<1>6. /\ g \in Managers /\ g.pool = 0 /\ g.sitting = h.sitting /\ g.all = h.all /\ g.pending = 0
      /\ g.sitter = f /\ g.choices = h.choices
  BY <1>4, 0 \in Int DEF Managers
<1> HIDE DEF g
<1>7. "WINNER" \in HeekStates
  BY DEF HeekStates, Waits
<1>8. /\ Timed(g, "WINNER") \in Managers /\ SameTable(Timed(g, "WINNER"), g)
      /\ Timed(g, "WINNER").state = "WINNER" /\ Timed(g, "WINNER").timer = "live"
  BY <1>6, <1>7, TimersOnly
<1> DEFINE k == Timed(g, "WINNER")
<1> HIDE DEF k
<1>9. Paid(k, h, p)
  BY <1>2, <1>5, <1>6, <1>8 DEF Paid, SameTable, k
<1> QED
  BY <1>3, <1>8, <1>9 DEF k

\* Only players at the table who play are pending winners.
PendingPlay(h) ==
  /\ \A p \in Pending(h) : h.sitter[p].plays
  /\ \A p \in Players \ h.sitting : ~h.sitter[p].pending

\* The pool goes to p.
TakesPool(g, h, p) ==
  /\ g.pool = 0 /\ g.sitting = h.sitting /\ g.all = h.all
  /\ \A q \in Players :
       /\ g.sitter[q].score = IF q = p THEN h.sitter[q].score + h.pool ELSE h.sitter[q].score
       /\ g.sitter[q].plays = h.sitter[q].plays

\* What a round comes to: another one, or a winner.
RoundEnded(g, h) ==
  \/ SameMoney(g, h) /\ g.state \in {"IN_GAME", "ANIM_WAIT"}
  \/ g.state = "WINNER" /\ \E p \in h.sitting : TakesPool(g, h, p)

\* Another round, after the animation of this one.
LEMMA NextRound ==
  ASSUME NEW k \in Managers, PendingPlay(k), k.pending = Cardinality(Pending(k)),
         NEW r, r = Timed(ResetChoices(k), "ANIM_WAIT")
  PROVE  /\ r \in Managers /\ Right(r) /\ Timely(r) /\ SameMoney(r, k) /\ r.state = "ANIM_WAIT"
<1> DEFINE e == ResetChoices(k)
<1>1. e \in Managers /\ SameMoney(e, k) /\ ChoicesGone(e, k)
  BY ChoicesReset
<1>2. "ANIM_WAIT" \in HeekStates
  BY DEF HeekStates, Waits
<1>3. /\ r \in Managers /\ SameTable(r, e) /\ r.state = "ANIM_WAIT" /\ r.timer = "live"
  BY <1>1, <1>2, TimersOnly
<1> HIDE DEF e
<1>4. /\ SameMoney(r, k) /\ r.sitting = k.sitting /\ r.pending = k.pending
      /\ \A p \in Players : /\ r.sitter[p].choice = None
                            /\ r.sitter[p].pending = k.sitter[p].pending
                            /\ r.sitter[p].plays = k.sitter[p].plays
  BY <1>1, <1>3 DEF SameMoney, SameTable, ChoicesGone
<1>5. Pending(r) = Pending(k) /\ Pending(k) \subseteq Players
  BY <1>4, SamePending, TableIsFinite
<1>6. Right(r) /\ Timely(r)
  BY <1>3, <1>4, <1>5 DEF Right, Timely, PendingPlay
<1> QED
  BY <1>3, <1>4, <1>6

\* The game is won by one of the pending winners.
LEMMA OneWins ==
  ASSUME NEW k \in Managers, PendingPlay(k), NEW p \in Pending(k),
         NEW r, r = ResetChoices(GameWon(k, p))
  PROVE  /\ r \in Managers /\ Right(r) /\ Timely(r) /\ TakesPool(r, k, p) /\ r.state = "WINNER"
<1> DEFINE e == GameWon(k, p)
<1>1. p \in Players
  BY TableIsFinite
<1>2. e \in Managers /\ Paid(e, k, p)
  BY <1>1, GameWonIs
<1>3. r \in Managers /\ SameMoney(r, e) /\ ChoicesGone(r, e)
  BY <1>2, ChoicesReset
<1> HIDE DEF e
<1>4. /\ r.pool = 0 /\ r.sitting = k.sitting /\ r.all = k.all /\ r.pending = 0
      /\ r.state = "WINNER" /\ r.timer = "live"
  BY <1>2, <1>3 DEF SameMoney, ChoicesGone, Paid
<1>5. \A q \in Players :
        /\ r.sitter[q].score = IF q = p THEN k.sitter[q].score + k.pool ELSE k.sitter[q].score
        /\ r.sitter[q].choice = None
        /\ r.sitter[q].pending = k.sitter[q].pending /\ r.sitter[q].plays = k.sitter[q].plays
  BY <1>2, <1>3 DEF SameMoney, ChoicesGone, Paid
<1>6. Pending(r) = Pending(k) /\ Pending(k) \subseteq Players
  BY <1>4, <1>5, SamePending, TableIsFinite
<1>7. Right(r) /\ Timely(r)
  BY <1>4, <1>5, <1>6 DEF Right, Timely, PendingPlay
<1>8. TakesPool(r, k, p)
  BY <1>4, <1>5 DEF TakesPool
<1> QED
  BY <1>3, <1>4, <1>7, <1>8

\* handle_round, once the counts are right: whoever wins or goes on, they stay so.
LEMMA HandleRoundIs ==
  ASSUME NEW h \in Managers, Right(h), h.state = "STOP_WAIT", NEW r, r = HandleRound(h)
  PROVE  r \in Managers /\ Right(r) /\ Timely(r) /\ RoundEnded(r, h)
<1> DEFINE g == WonRound(h)
           got == {p \in RoundWinners(h) : Enough(h, p)}
           most == {p \in Pending(g) : \A q \in Pending(g) : WinsOf(g, q) <= WinsOf(g, p)}
           alone == Cardinality(got) = 1 /\ h.pending = 0
           any == got # {} \/ h.pending > 0
           k == IF any /\ ~alone THEN OnlyTheBest(g, most) ELSE g
           left == IF any /\ ~alone THEN most ELSE got
           n == Cardinality(Chose(h))
           i == [k EXCEPT !.pending = Cardinality(left)]
<1>1. /\ n <= 1 => r = CountdownIdle(h)
      /\ n > 1 /\ k.pending = 0 /\ Cardinality(left) > 1 => r = Timed(ResetChoices(i), "ANIM_WAIT")
      /\ n > 1 /\ k.pending <= 1 /\ Cardinality(left) = 1 =>
           r = ResetChoices(GameWon(k, CHOOSE p \in Pending(k) : TRUE))
      /\ n > 1 /\ ~(k.pending = 0 /\ Cardinality(left) > 1)
               /\ ~(k.pending <= 1 /\ Cardinality(left) = 1) =>
           r = Timed(ResetChoices(k), "ANIM_WAIT")
  <2>1. n \in Nat
    BY TableIsFinite
  <2>2. r = CASE n <= 1 -> CountdownIdle(h)
              [] n > 1 /\ k.pending = 0 /\ Cardinality(left) > 1 ->
                   Timed(ResetChoices(i), "ANIM_WAIT")
              [] n > 1 /\ k.pending <= 1 /\ Cardinality(left) = 1 ->
                   ResetChoices(GameWon(k, CHOOSE p \in Pending(k) : TRUE))
              [] OTHER -> Timed(ResetChoices(k), "ANIM_WAIT")
    BY DEF HandleRound
  <2>3. k.pending = 0 /\ Cardinality(left) > 1 => ~(k.pending <= 1 /\ Cardinality(left) = 1)
    OBVIOUS
  <2> HIDE DEF n, k, left, i
  <2> QED
    BY <2>1, <2>2, <2>3
<1>2. g \in Managers /\ SameMoney(g, h) /\ RoundIsWon(g, h)
  BY WonRoundIs
<1>3. /\ h.sitting \subseteq Players /\ g.sitting = h.sitting /\ g.pending = h.pending
      /\ h.pending = Cardinality(Pending(h))
      /\ \A p \in Chose(h) \cup Pending(h) : h.sitter[p].plays
      /\ \A p \in Players \ h.sitting : ~h.sitter[p].pending
  BY <1>2, TableIsFinite DEF Right, SameMoney, RoundIsWon
<1>4. got \subseteq Chose(h) /\ Chose(h) \subseteq h.sitting
  BY DEF RoundWinners, Chose
<1>5. h.pending = 0 => Pending(h) = {} /\ Pending(g) = got
  <2>1. h.pending = 0 => Pending(h) = {}
    BY <1>3, TableIsFinite, FS_EmptySet
  <2>2. ASSUME h.pending = 0  PROVE Pending(g) = got
    <3>1. \A p \in h.sitting : ~h.sitter[p].pending
      BY <2>1, <2>2 DEF Pending
    <3>2. \A p \in h.sitting : g.sitter[p].pending <=> p \in RoundWinners(h) /\ Enough(h, p)
      BY <1>2, <1>3, <2>2, <3>1 DEF RoundIsWon
    <3>3. Pending(g) = {p \in h.sitting : g.sitter[p].pending}
      BY <1>3 DEF Pending
    <3> HIDE DEF g
    <3> QED
      BY <1>4, <3>2, <3>3
  <2> QED
    BY <2>1, <2>2
<1>6. h.pending # 0 => Pending(g) = Pending(h)
  <2>1. ASSUME h.pending # 0  PROVE \A p \in h.sitting : g.sitter[p].pending <=> h.sitter[p].pending
    BY <1>2, <1>3, <2>1 DEF RoundIsWon
  <2> HIDE DEF g
  <2> QED
    BY <1>3, <2>1 DEF Pending
<1>7. PendingPlay(g)
  <2>1. \A p \in Pending(g) : g.sitter[p].plays
    <3>1. Pending(g) \subseteq Chose(h) \cup Pending(h)
      BY <1>4, <1>5, <1>6
    <3>2. Pending(g) \subseteq Players
      BY <1>2, TableIsFinite
    <3> HIDE DEF g
    <3> QED
      BY <1>2, <1>3, <3>1, <3>2 DEF SameMoney
  <2>2. \A p \in Players \ h.sitting : ~g.sitter[p].pending
    BY <1>2, <1>3, <1>4 DEF RoundIsWon
  <2> HIDE DEF g
  <2> QED
    BY <1>3, <2>1, <2>2 DEF PendingPlay
<1>8. h.pending \in Nat /\ IsFiniteSet(got) /\ IsFiniteSet(Pending(g))
  BY <1>2, <1>3, <1>4, TableIsFinite, FS_Subset
<1>9. CASE n <= 1
  <2> DEFINE c == CountdownIdle(h)
  <2>1. /\ c \in Managers /\ SameMoney(c, h) /\ c.state = "IN_GAME" /\ c.pending = h.pending
        /\ c.choices = 0
        /\ \A p \in Players : c.sitter[p].choice = None /\ c.sitter[p].pending = h.sitter[p].pending
    BY IdleIs
  <2> HIDE DEF c
  <2>2. Right(c)
    BY <2>1, ResetIsRight
  <2>3. Timely(c) /\ RoundEnded(c, h)
    BY <2>1 DEF Timely, Waits, RoundEnded
  <2> QED
    BY <1>1, <1>9, <2>1, <2>2, <2>3 DEF c
<1>10. CASE n > 1 /\ ~any
  <2>1. k = g /\ left = {} /\ h.pending = 0 /\ Pending(g) = {}
    BY <1>5, <1>8, <1>10
  <2>2. Cardinality({}) = 0
    BY FS_EmptySet
  <2>3. r = Timed(ResetChoices(g), "ANIM_WAIT")
    <3> HIDE DEF k, left, n, g, i
    <3> QED
      BY <1>1, <1>10, <2>1, <2>2, <1>3
  <2> HIDE DEF g
  <2>4. r \in Managers /\ Right(r) /\ Timely(r) /\ SameMoney(r, g) /\ r.state = "ANIM_WAIT"
    BY <1>2, <1>3, <1>7, <2>1, <2>2, <2>3, NextRound
  <2> QED
    BY <1>2, <2>4 DEF RoundEnded, SameMoney
<1>11. CASE n > 1 /\ any /\ alone
  <2> DEFINE p == CHOOSE q \in Pending(g) : TRUE
  <2>1. k = g /\ left = got /\ h.pending = 0 /\ Pending(g) = got /\ Cardinality(got) = 1
    BY <1>5, <1>11
  <2>2. p \in Pending(g)
    BY <2>1, FS_EmptySet
  <2>3. r = ResetChoices(GameWon(g, p))
    <3> HIDE DEF k, left, n, g, i, got
    <3> QED
      BY <1>1, <1>11, <2>1, <1>3
  <2> HIDE DEF g, p
  <2>4. r \in Managers /\ Right(r) /\ Timely(r) /\ TakesPool(r, g, p) /\ r.state = "WINNER"
    BY <1>2, <1>7, <2>2, <2>3, OneWins
  <2>5. TakesPool(r, h, p) /\ p \in h.sitting
    BY <1>2, <1>3, <2>2, <2>4 DEF TakesPool, SameMoney, Pending
  <2> QED
    BY <2>4, <2>5 DEF RoundEnded
<1>12. CASE n > 1 /\ any /\ ~alone
  <2> DEFINE b == OnlyTheBest(g, most)
  <2>1. k = b /\ left = most
    BY <1>12
  <2>2. most \subseteq Pending(g) /\ IsFiniteSet(most) /\ Cardinality(most) \in Nat
    BY <1>8, FS_Subset, FS_CardinalityType
  <2> HIDE DEF g, most
  <2>3. b \in Managers /\ SameMoney(b, g) /\ BestRemain(b, g, most)
    BY <1>2, OnlyTheBestIs
  <2>4. Pending(b) = most
    <3>1. b.sitting = g.sitting /\ g.sitting \subseteq Players
      BY <1>3, <2>3 DEF SameMoney
    <3>2. \A p \in g.sitting : b.sitter[p].pending <=> p \in Pending(g) /\ p \in most
      BY <2>3, <3>1 DEF BestRemain, Pending
    <3>3. Pending(g) \subseteq g.sitting
      BY <1>2, TableIsFinite
    <3> HIDE DEF b
    <3> QED
      BY <2>2, <3>1, <3>2, <3>3 DEF Pending
  <2>5. PendingPlay(b)
    <3>1. \A p \in Players : b.sitter[p].plays = g.sitter[p].plays
      BY <2>3 DEF SameMoney
    <3>2. \A p \in Pending(b) : p \in Pending(g) /\ p \in Players
      BY <2>2, <2>4, <1>2, TableIsFinite
    <3>3. \A p \in Players \ b.sitting : ~b.sitter[p].pending
      BY <1>7, <2>3 DEF BestRemain, PendingPlay, SameMoney
    <3> HIDE DEF b
    <3> QED
      BY <1>7, <3>1, <3>2, <3>3 DEF PendingPlay
  <2>6. IF h.pending = 0 THEN b.pending = 0 ELSE b.pending = Cardinality(most)
    <3>1. b.pending = IF h.pending = 0 THEN 0 ELSE h.pending - Cardinality(Pending(g) \ most)
      BY <1>3, <2>3 DEF BestRemain
    <3>2. /\ Cardinality(Pending(g) \ most) = Cardinality(Pending(g)) - Cardinality(Pending(g) \cap most)
          /\ Pending(g) \cap most = most /\ Cardinality(Pending(g)) \in Nat
      BY <1>8, <2>2, FS_Difference, FS_CardinalityType
    <3>3. h.pending # 0 => h.pending = Cardinality(Pending(g))
      BY <1>3, <1>6
    <3> HIDE DEF b
    <3> QED
      BY <2>2, <3>1, <3>2, <3>3
  <2> HIDE DEF b
  <2>7. b.sitting = h.sitting /\ SameMoney(b, h)
    BY <1>2, <1>3, <2>3 DEF SameMoney
  <2>8. CASE b.pending = 0 /\ Cardinality(most) > 1
    <3> DEFINE c == [b EXCEPT !.pending = Cardinality(most)]
    <3>1. r = Timed(ResetChoices(c), "ANIM_WAIT")
      BY <1>1, <1>12, <2>1, <2>8
    <3>2. c \in Managers /\ c.sitting = b.sitting /\ c.sitter = b.sitter
          /\ c.pending = Cardinality(most) /\ c.pool = b.pool /\ c.all = b.all
      <4>1. Cardinality(most) \in Int
        BY <2>2
      <4> QED
        BY <2>3, <4>1 DEF Managers
    <3> HIDE DEF c
    <3>3. Pending(c) = most /\ PendingPlay(c) /\ SameMoney(c, h)
      BY <2>4, <2>5, <2>7, <3>2 DEF PendingPlay, SameMoney, Pending
    <3>4. r \in Managers /\ Right(r) /\ Timely(r) /\ SameMoney(r, c) /\ r.state = "ANIM_WAIT"
      BY <3>1, <3>2, <3>3, NextRound
    <3> QED
      BY <3>3, <3>4 DEF RoundEnded, SameMoney
  <2>9. CASE b.pending <= 1 /\ Cardinality(most) = 1
    <3> DEFINE p == CHOOSE q \in Pending(b) : TRUE
    <3>1. r = ResetChoices(GameWon(b, p))
      BY <1>1, <1>12, <2>1, <2>9
    <3>2. p \in Pending(b)
      BY <2>4, <2>9, FS_EmptySet
    <3> HIDE DEF p
    <3>3. r \in Managers /\ Right(r) /\ Timely(r) /\ TakesPool(r, b, p) /\ r.state = "WINNER"
      BY <2>3, <2>5, <3>1, <3>2, OneWins
    <3>4. TakesPool(r, h, p) /\ p \in h.sitting
      BY <2>7, <3>2, <3>3 DEF TakesPool, SameMoney, Pending
    <3> QED
      BY <3>3, <3>4 DEF RoundEnded
  <2>10. CASE /\ ~(b.pending = 0 /\ Cardinality(most) > 1)
              /\ ~(b.pending <= 1 /\ Cardinality(most) = 1)
    <3>1. r = Timed(ResetChoices(b), "ANIM_WAIT")
      BY <1>1, <1>12, <2>1, <2>10
    <3>2. b.pending = Cardinality(most)
      BY <2>2, <2>6, <2>10
    <3>3. r \in Managers /\ Right(r) /\ Timely(r) /\ SameMoney(r, b) /\ r.state = "ANIM_WAIT"
      BY <2>3, <2>4, <2>5, <3>1, <3>2, NextRound
    <3> QED
      BY <2>7, <3>3 DEF RoundEnded, SameMoney
  <2> QED
    BY <2>8, <2>9, <2>10
<1>13. n \in Nat
  BY TableIsFinite
<1> HIDE DEF n, any, alone
<1> QED
  BY <1>9, <1>10, <1>11, <1>12, <1>13

\* States in which the pool has been paid out.
PaidOut == {"IDLE", "WINNER", "WIN_WAIT"}

\* What a timer or the end of an animation comes to: the money stays where it is, or
\* the pool goes to one at the table.
Turned(r, h) ==
  \/ SameMoney(r, h) /\ (r.state \in PaidOut => h.state \in PaidOut)
  \/ r.state = "WINNER" /\ h.state # "WINNER" /\ \E p \in h.sitting : TakesPool(r, h, p)

\* handle_winner ends the game.
LEMMA HandleWinnerIs ==
  ASSUME NEW h \in Managers, Right(h), h.state = "WINNER", NEW r, r = HandleWinner(h)
  PROVE  /\ r \in Managers /\ Right(r) /\ Timely(r) /\ SameMoney(r, h) /\ r.state = "WIN_WAIT"
<1> DEFINE f == [p \in Players |-> IF p \in h.sitting THEN [h.sitter[p] EXCEPT !.pending = FALSE]
                                   ELSE h.sitter[p]]
           g == [h EXCEPT !.sitter = f]
<1>1. h.sitter \in [Players -> Sitters]
  BY DEF Managers
<1>2. f \in [Players -> Sitters]
  BY <1>1, SitterChanged
<1>3. \A p \in Players : /\ f[p].choice = h.sitter[p].choice /\ (p \in h.sitting => ~f[p].pending)
                         /\ f[p].score = h.sitter[p].score /\ f[p].plays = h.sitter[p].plays
                         /\ (p \notin h.sitting => f[p] = h.sitter[p])
  BY <1>1 DEF Sitters
<1>4. r = Timed(g, "WIN_WAIT")
  BY DEF HandleWinner
<1> HIDE DEF f
<1>5. /\ g \in Managers /\ g.sitter = f
      /\ g.pending = h.pending /\ g.choices = h.choices
      /\ g.pool = h.pool /\ g.sitting = h.sitting /\ g.all = h.all
  BY <1>2 DEF Managers
<1> HIDE DEF g
<1>6. r \in Managers /\ SameTable(r, g) /\ r.state = "WIN_WAIT" /\ r.timer = "live"
  BY <1>4, <1>5, TimersOnly DEF HeekStates, Waits
<1>7. r.pending = 0 /\ r.sitting = h.sitting /\ r.sitter = f /\ h.sitting \subseteq Players
  BY <1>5, <1>6, TableIsFinite DEF SameTable, Right
<1>8. Pending(r) = {} /\ Cardinality({}) = 0
  BY <1>3, <1>7, FS_EmptySet DEF Pending
<1>9. Right(r) /\ Timely(r)
  BY <1>3, <1>6, <1>7, <1>8 DEF Right, Timely
<1>10. SameMoney(r, h)
  BY <1>3, <1>5, <1>6 DEF SameMoney, SameTable
<1> QED
  BY <1>6, <1>9, <1>10

\* Back to a round or to none, as the counts allow.
LEMMA IdleIsRight ==
  ASSUME NEW h \in Managers, Right(h), h.state # "WINNER", NEW r,
         \/ r = CountdownIdle(h)
         \/ h.state = "WIN_WAIT" /\ r = [CountdownIdle(h) EXCEPT !.state = "IDLE"]
  PROVE  /\ r \in Managers /\ Right(r) /\ Timely(r) /\ SameMoney(r, h)
         /\ r.state = "IN_GAME" \/ (h.state = "WIN_WAIT" /\ r.state = "IDLE")
<1> DEFINE c == CountdownIdle(h)
<1>1. /\ c \in Managers /\ SameMoney(c, h) /\ c.state = "IN_GAME" /\ c.pending = h.pending
      /\ c.choices = 0
      /\ \A p \in Players : c.sitter[p].choice = None /\ c.sitter[p].pending = h.sitter[p].pending
  BY IdleIs
<1> HIDE DEF c
<1>2. r = c \/ (h.state = "WIN_WAIT" /\ r = [c EXCEPT !.state = "IDLE"])
  BY DEF c
<1>3. /\ r \in Managers /\ SameTable(r, c)
      /\ r.state = "IN_GAME" \/ (h.state = "WIN_WAIT" /\ r.state = "IDLE")
  BY <1>1, <1>2 DEF Managers, SameTable, HeekStates
<1>4. /\ SameMoney(r, h) /\ r.pending = h.pending /\ r.choices = 0
      /\ \A p \in Players : r.sitter[p].choice = None /\ r.sitter[p].pending = h.sitter[p].pending
  BY <1>1, <1>3 DEF SameMoney, SameTable
<1>5. Right(r)
  BY <1>3, <1>4, ResetIsRight
<1>6. Timely(r)
  BY <1>3 DEF Timely, Waits
<1> QED
  BY <1>3, <1>4, <1>5, <1>6

\* countdown_done: a round is over, and its counts wait with it.
LEMMA DoneIsRight ==
  ASSUME NEW h \in Managers, Right(h), h.state = "COUNTDOWN", NEW r, r = CountdownDone(h)
  PROVE  /\ r \in Managers /\ Right(r) /\ Timely(r) /\ SameTable(r, h) /\ r.state = "STOP_WAIT"
<1>1. "STOP_WAIT" \in HeekStates /\ r = Timed(h, "STOP_WAIT")
  BY DEF HeekStates, Waits, CountdownDone
<1>2. r \in Managers /\ SameTable(r, h) /\ r.state = "STOP_WAIT" /\ r.timer = "live"
  BY <1>1, TimersOnly
<1> QED
  BY <1>2, SameTableRight DEF Timely

\* handle_timeout, whatever became of m_timer before.
LEMMA TimeoutIs ==
  ASSUME NEW h \in Managers, Right(h), NEW r, r = HeekTimeout(h)
  PROVE  r \in Managers /\ Right(r) /\ Timely(r) /\ Turned(r, h)
<1> USE DEF PaidOut
<1>1. Cancelled(h) \in Managers /\ SameTable(Cancelled(h), h) /\ Cancelled(h).state = h.state
  BY TimersOnly DEF HeekStates
<1>2. Right(Cancelled(h))
  BY <1>1, SameTableRight
<1> DEFINE c == Cancelled(h)
<1>3. CASE h.state = "COUNTDOWN"
  <2>1. r = CountdownDone(h) \/ r = CountdownIdle(h)
    BY <1>3 DEF HeekTimeout
  <2>2. r \in Managers /\ Right(r) /\ Timely(r) /\ SameMoney(r, h) /\ r.state \in {"STOP_WAIT", "IN_GAME"}
    BY <1>3, <2>1, DoneIsRight, IdleIsRight DEF SameTable, SameMoney
  <2> QED
    BY <2>2 DEF Turned
<1>4. CASE h.state = "STOP_WAIT"
  <2>1. r = HandleRound(c)
    BY <1>4 DEF HeekTimeout
  <2> HIDE DEF c
  <2>2. r \in Managers /\ Right(r) /\ Timely(r) /\ RoundEnded(r, c)
    BY <1>1, <1>2, <1>4, <2>1, HandleRoundIs DEF c
  <2>3. Turned(r, h)
    BY <1>1, <1>4, <2>2 DEF Turned, RoundEnded, TakesPool, SameTable, SameMoney, c
  <2> QED
    BY <2>2, <2>3
<1>5. CASE h.state = "ANIM_WAIT" \/ h.state = "WIN_WAIT"
  <2>1. r = CountdownIdle(c) \/ (c.state = "WIN_WAIT" /\ r = [CountdownIdle(c) EXCEPT !.state = "IDLE"])
    BY <1>1, <1>5 DEF HeekTimeout
  <2> HIDE DEF c
  <2>2. /\ r \in Managers /\ Right(r) /\ Timely(r) /\ SameMoney(r, c)
        /\ r.state = "IN_GAME" \/ (c.state = "WIN_WAIT" /\ r.state = "IDLE")
    BY <1>1, <1>2, <1>5, <2>1, IdleIsRight DEF c
  <2>3. Turned(r, h)
    BY <1>1, <1>5, <2>2 DEF Turned, SameTable, SameMoney, c
  <2> QED
    BY <2>2, <2>3
<1>6. CASE h.state = "WINNER"
  <2>1. r = HandleWinner(h)
    BY <1>6 DEF HeekTimeout
  <2>2. r \in Managers /\ Right(r) /\ Timely(r) /\ SameMoney(r, h) /\ r.state = "WIN_WAIT"
    BY <1>6, <2>1, HandleWinnerIs
  <2> QED
    BY <1>6, <2>2 DEF Turned
<1>7. CASE h.state \notin Waits
  <2>1. r = h
    BY <1>7 DEF HeekTimeout, Waits
  <2> QED
    BY <1>7, <2>1 DEF Turned, SameMoney, Timely
<1> QED
  BY <1>3, <1>4, <1>5, <1>6, <1>7 DEF Waits

\* Who leaves the table takes his choice and his claim with him; the last one ends
\* the game.
Departed(r, h, p) ==
  /\ r.sitting = h.sitting \ {p} /\ r.all = h.all
  /\ IF h.sitting = {p}
     THEN r.pool = 0 /\ r.state \in {"STOP_WAIT", "IDLE"} /\ \A q \in Players : ~r.sitter[q].plays
     ELSE /\ r.pool = h.pool /\ r.state = h.state
          /\ \A q \in Players : q \in r.sitting \cup ToSet(r.all) =>
               r.sitter[q].score = h.sitter[q].score /\ r.sitter[q].plays = h.sitter[q].plays

\* Whether the last to go stops the clock or the game.
LastEnds(h, p) ==
  IF ~(h.sitting = {p}) THEN h
  ELSE IF h.state = "COUNTDOWN" THEN CountdownDone(ResetGame(h))
  ELSE [ResetGame(h) EXCEPT !.state = "IDLE"]

\* What becomes of the game when a player gets up, before he does.
LEMMA LastGoes ==
  ASSUME NEW h \in Managers, Right(h), Timely(h), NEW p \in h.sitting, NEW g, g = LastEnds(h, p)
  PROVE  /\ g \in Managers /\ Timely(g)
         /\ g.sitting = h.sitting /\ g.all = h.all /\ g.pending = h.pending /\ g.choices = h.choices
         /\ \A q \in Players : /\ g.sitter[q].choice = h.sitter[q].choice
                               /\ g.sitter[q].pending = h.sitter[q].pending
         /\ IF h.sitting = {p}
            THEN /\ g.pool = 0 /\ \A q \in Players : ~g.sitter[q].plays
                 /\ IF h.state = "COUNTDOWN" THEN g.state = "STOP_WAIT" ELSE g.state = "IDLE"
            ELSE g = h
<1> DEFINE e == ResetGame(h)
<1>1. e \in Managers /\ NobodyIn(e, h)
  BY GameReset
<1> USE DEF LastEnds
<1>2. CASE h.sitting # {p}
  BY <1>2
<1>3. CASE h.sitting = {p} /\ h.state = "COUNTDOWN"
  <2>1. g = Timed(e, "STOP_WAIT") /\ "STOP_WAIT" \in HeekStates
    BY <1>3 DEF CountdownDone, HeekStates, Waits
  <2> HIDE DEF e
  <2>2. g \in Managers /\ SameTable(g, e) /\ g.state = "STOP_WAIT" /\ g.timer = "live"
    BY ONLY <1>1, <2>1, TimerSet
  <2> QED
    BY <1>1, <1>3, <2>2 DEF SameTable, NobodyIn, Timely
<1>4. CASE h.sitting = {p} /\ h.state # "COUNTDOWN"
  <2>1. g = [e EXCEPT !.state = "IDLE"]
    BY <1>4
  <2> HIDE DEF e
  <2>2. g \in Managers /\ SameTable(g, e) /\ g.state = "IDLE"
    BY <1>1, <2>1 DEF Managers, SameTable, HeekStates
  <2> QED
    BY <1>1, <1>4, <2>2 DEF SameTable, NobodyIn, Timely, Waits
<1> QED
  BY <1>2, <1>3, <1>4

\* What is taken from a player that gets up, before strangers are forgotten.
Risen(g, p, c, n) ==
  [g EXCEPT !.choices = c, !.pending = n, !.sitter[p].choice = None,
            !.sitter[p].pending = FALSE, !.sitting = @ \ {p}]

\* Who gets up has no choice and no claim, and the others keep theirs.
LEMMA GetsUp ==
  ASSUME NEW g \in Managers, NEW p \in Players, NEW c \in Int, NEW n \in Int, NEW e,
         e = Risen(g, p, c, n)
  PROVE  /\ e \in Managers /\ e.choices = c /\ e.pending = n /\ e.sitting = g.sitting \ {p}
         /\ e.all = g.all /\ e.pool = g.pool /\ e.state = g.state /\ e.timer = g.timer
         /\ e.sitter[p].choice = None /\ ~e.sitter[p].pending
         /\ e.sitter[p].score = g.sitter[p].score /\ e.sitter[p].plays = g.sitter[p].plays
         /\ \A q \in Players \ {p} : e.sitter[q] = g.sitter[q]
<1> DEFINE s == [g.sitter[p] EXCEPT !.choice = None, !.pending = FALSE]
           f == [g.sitter EXCEPT ![p] = s]
<1>1. g.sitter \in [Players -> Sitters]
  BY DEF Managers
<1>2. s \in Sitters /\ s.choice = None /\ s.pending = FALSE
      /\ s.score = g.sitter[p].score /\ s.plays = g.sitter[p].plays
  BY <1>1 DEF Sitters
<1>3. e = [g EXCEPT !.choices = c, !.pending = n, !.sitter = f, !.sitting = g.sitting \ {p}]
  BY <1>1, ZenonT(30) DEF Managers, Risen
<1> HIDE DEF s
<1>4. f \in [Players -> Sitters] /\ f[p] = s /\ \A q \in Players \ {p} : f[q] = g.sitter[q]
  BY <1>1, <1>2
<1> HIDE DEF f
<1>5. /\ e \in Managers /\ e.choices = c /\ e.pending = n /\ e.sitting = g.sitting \ {p}
      /\ e.all = g.all /\ e.pool = g.pool /\ e.state = g.state /\ e.timer = g.timer /\ e.sitter = f
  <2>1. g.sitting \ {p} \in SUBSET Players
    BY DEF Managers
  <2> QED
    BY <1>3, <1>4, <2>1 DEF Managers
<1> QED
  BY <1>2, <1>4, <1>5

\* The counts are still right when a player has left the table.
LEMMA DepartureIs ==
  ASSUME NEW h \in Managers, Right(h), Timely(h), NEW p \in h.sitting, NEW r,
         r = HandleDeparture(h, p)
  PROVE  r \in Managers /\ Right(r) /\ Timely(r) /\ Departed(r, h, p)
<1> DEFINE g == LastEnds(h, p)
           chose == h.sitter[p].choice # None
           c == IF chose /\ g.state \in Waits /\ g.choices > 0 THEN g.choices - 1 ELSE g.choices
           n == IF h.sitter[p].pending /\ g.pending > 0 THEN g.pending - 1 ELSE g.pending
           e == Risen(g, p, c, n)
<1>1. /\ g \in Managers /\ Timely(g)
      /\ g.sitting = h.sitting /\ g.all = h.all /\ g.pending = h.pending /\ g.choices = h.choices
      /\ \A q \in Players : /\ g.sitter[q].choice = h.sitter[q].choice
                            /\ g.sitter[q].pending = h.sitter[q].pending
      /\ IF h.sitting = {p}
         THEN /\ g.pool = 0 /\ \A q \in Players : ~g.sitter[q].plays
              /\ IF h.state = "COUNTDOWN" THEN g.state = "STOP_WAIT" ELSE g.state = "IDLE"
         ELSE g = h
  BY LastGoes
<1>2. r = StrangersForgotten(e)
  BY DEF HandleDeparture, LastEnds, Risen
<1> HIDE DEF g
<1>3. p \in Players /\ h.sitting \subseteq Players
  BY TableIsFinite
<1>4. c \in Int /\ n \in Int
  BY <1>1 DEF Managers
<1>5. /\ e \in Managers /\ e.choices = c /\ e.pending = n /\ e.sitting = g.sitting \ {p}
      /\ e.all = g.all /\ e.pool = g.pool /\ e.state = g.state /\ e.timer = g.timer
      /\ e.sitter[p].choice = None /\ ~e.sitter[p].pending
      /\ e.sitter[p].score = g.sitter[p].score /\ e.sitter[p].plays = g.sitter[p].plays
      /\ \A q \in Players \ {p} : e.sitter[q] = g.sitter[q]
  <2> HIDE DEF c, n
  <2> QED
    BY <1>1, <1>3, <1>4, GetsUp
<1> HIDE DEF e
<1>6. r \in Managers /\ Remembered(r, e)
  BY <1>2, <1>5, StrangersGone
<1>7. /\ r.sitting = h.sitting \ {p} /\ r.choices = c /\ r.pending = n
      /\ r.all = h.all /\ r.pool = g.pool /\ r.state = g.state /\ r.timer = g.timer
  BY <1>1, <1>5, <1>6 DEF Remembered
<1>8. /\ \A q \in r.sitting : r.sitter[q] = g.sitter[q] /\ q # p
      /\ \A q \in Players : q \in r.sitting \cup ToSet(r.all) =>
           r.sitter[q].score = g.sitter[q].score /\ r.sitter[q].plays = g.sitter[q].plays
      /\ \A q \in Players : r.sitter[q].plays => g.sitter[q].plays
      /\ \A q \in Players \ r.sitting : r.sitter[q].choice = None /\ ~r.sitter[q].pending
  <2>1. ASSUME NEW q \in Players
        PROVE  \/ q \in r.sitting \cup ToSet(r.all) /\ r.sitter[q] = e.sitter[q]
               \/ q \notin r.sitting \cup ToSet(r.all) /\ r.sitter[q] = NewSitter(0)
    BY <1>6 DEF Remembered
  <2>2. NewSitter(0).choice = None /\ ~NewSitter(0).pending /\ ~NewSitter(0).plays
    BY NewSitterTyped
  <2>3. \A q \in r.sitting : q \in Players /\ q # p
    BY <1>3, <1>7
  <2>4. \A q \in r.sitting : r.sitter[q] = g.sitter[q]
    BY <1>5, <2>1, <2>3
  <2>5. ASSUME NEW q \in Players
        PROVE e.sitter[q].score = g.sitter[q].score /\ e.sitter[q].plays = g.sitter[q].plays
    BY <1>5
  <2>6. ASSUME NEW q \in Players \ r.sitting
        PROVE  e.sitter[q].choice = None /\ ~e.sitter[q].pending
    <3>1. CASE q = p
      BY <1>5, <3>1
    <3>2. CASE q # p
      <4>1. q \notin h.sitting /\ e.sitter[q] = g.sitter[q]
        BY <1>5, <1>7, <3>2
      <4> QED
        BY <1>1, <4>1 DEF Right
    <3> QED
      BY <3>1, <3>2
  <2> QED
    BY <2>1, <2>2, <2>3, <2>4, <2>5, <2>6
<1>9. Chose(r) = Chose(h) \ {p} /\ Pending(r) = Pending(h) \ {p}
  <2>1. \A q \in r.sitting : /\ r.sitter[q].choice = h.sitter[q].choice
                             /\ r.sitter[q].pending = h.sitter[q].pending
    BY <1>1, <1>3, <1>7, <1>8
  <2> QED
    BY <1>7, <2>1 DEF Chose, Pending
<1>10. /\ (p \in Chose(h) <=> chose) /\ (p \in Pending(h) <=> h.sitter[p].pending)
       /\ IsFiniteSet(Chose(h)) /\ IsFiniteSet(Pending(h))
       /\ Cardinality(Chose(h)) \in Nat /\ Cardinality(Pending(h)) \in Nat
  BY TableIsFinite DEF Chose, Pending
<1>11. /\ Cardinality(Chose(r)) = IF chose THEN Cardinality(Chose(h)) - 1 ELSE Cardinality(Chose(h))
       /\ chose => Cardinality(Chose(h)) > 0
  <2>1. p \in Chose(h) => Cardinality(Chose(h)) > 0
    BY <1>10, FS_EmptySet
  <2>2. p \notin Chose(h) => Chose(h) \ {p} = Chose(h)
    OBVIOUS
  <2> QED
    BY <1>9, <1>10, <2>1, <2>2, FS_RemoveElement
<1>12. /\ Cardinality(Pending(r)) = IF h.sitter[p].pending THEN Cardinality(Pending(h)) - 1
                                    ELSE Cardinality(Pending(h))
       /\ h.sitter[p].pending => Cardinality(Pending(h)) > 0
  <2>1. p \in Pending(h) => Cardinality(Pending(h)) > 0
    BY <1>10, FS_EmptySet
  <2>2. p \notin Pending(h) => Pending(h) \ {p} = Pending(h)
    OBVIOUS
  <2> QED
    BY <1>9, <1>10, <2>1, <2>2, FS_RemoveElement
<1>13. r.state \in {"COUNTDOWN", "STOP_WAIT"} =>
         r.choices = Cardinality(Chose(r)) /\ \A q \in Chose(r) : r.sitter[q].plays
  <2> SUFFICES ASSUME r.state \in {"COUNTDOWN", "STOP_WAIT"}
               PROVE  r.choices = Cardinality(Chose(r)) /\ \A q \in Chose(r) : r.sitter[q].plays
    OBVIOUS
  <2>1. h.state \in {"COUNTDOWN", "STOP_WAIT"} /\ g.state \in Waits
    BY <1>1, <1>7 DEF Waits
  <2>2. h.choices = Cardinality(Chose(h)) /\ \A q \in Chose(h) : h.sitter[q].plays
    BY <2>1 DEF Right
  <2>3. r.choices = Cardinality(Chose(r))
    BY <1>1, <1>7, <1>10, <1>11, <2>1, <2>2
  <2>4. \A q \in Chose(r) : r.sitter[q].plays
    <3>1. CASE h.sitting = {p}
      BY <1>7, <3>1 DEF Chose
    <3>2. CASE h.sitting # {p}
      BY <1>1, <1>8, <1>9, <2>2, <3>2, <1>7 DEF Chose
    <3> QED
      BY <3>1, <3>2
  <2> QED
    BY <2>3, <2>4
<1>14. /\ r.pending = IF r.state = "WINNER" THEN 0 ELSE Cardinality(Pending(r))
       /\ r.state \in {"IDLE", "WIN_WAIT"} => Pending(r) = {}
       /\ \A q \in Pending(r) : r.sitter[q].plays
  <2>1. CASE h.sitting = {p}
    <3>1. Pending(r) = {} /\ Cardinality({}) = 0 /\ r.state # "WINNER"
      BY <1>1, <1>7, <2>1, FS_EmptySet DEF Pending
    <3>2. r.pending = 0
      BY <1>1, <1>7, <1>10, <1>12, <3>1 DEF Right
    <3> QED
      BY <3>1, <3>2
  <2>2. CASE h.sitting # {p}
    <3>1. g = h /\ r.state = h.state
      BY <1>1, <1>7, <2>2
    <3>2. r.pending = IF r.state = "WINNER" THEN 0 ELSE Cardinality(Pending(r))
      BY <1>7, <1>10, <1>12, <3>1 DEF Right
    <3>3. r.state \in {"IDLE", "WIN_WAIT"} => Pending(r) = {}
      BY <1>9, <3>1 DEF Right
    <3>4. \A q \in Pending(r) : r.sitter[q].plays
      BY <1>7, <1>8, <1>9, <3>1 DEF Right, Pending
    <3> QED
      BY <3>2, <3>3, <3>4
  <2> QED
    BY <2>1, <2>2
<1>15. Right(r) /\ Timely(r)
  BY <1>1, <1>7, <1>8, <1>13, <1>14 DEF Right, Timely
<1>16. Departed(r, h, p)
  BY <1>1, <1>7, <1>8 DEF Departed
<1> QED
  BY <1>6, <1>15, <1>16

\* A choice when nothing goes on begins a round, or a game.
Begun(r, h) ==
  /\ r.sitting = h.sitting /\ r.all = h.all
  /\ \A p \in Players : r.sitter[p].score = h.sitter[p].score
  /\ IF h.state = "IDLE" THEN r.pool = 0 /\ \A p \in Players : ~r.sitter[p].plays
     ELSE r.pool = h.pool /\ \A p \in Players : r.sitter[p].plays = h.sitter[p].plays
  /\ r.state = IF h.state \in {"IDLE", "IN_GAME"} THEN "COUNTDOWN" ELSE h.state

\* Began begins a round when nothing goes on, and a game when none does.
LEMMA BeganIs ==
  ASSUME NEW h \in Managers, Right(h), Timely(h), NEW r, r = Began(h)
  PROVE  r \in Managers /\ Right(r) /\ Timely(r) /\ Begun(r, h)
<1> DEFINE g == IF h.state = "IDLE" THEN ResetGame(h) ELSE h
           e == ResetChoices(g)
<1>1. g \in Managers /\ (IF h.state = "IDLE" THEN NobodyIn(g, h) ELSE g = h)
  BY GameReset
<1>2. r = IF h.state \in {"IDLE", "IN_GAME"} THEN Timed(e, "COUNTDOWN") ELSE h
  BY DEF Began
<1> HIDE DEF g
<1>3. CASE h.state \in {"IDLE", "IN_GAME"}
  <2>1. e \in Managers /\ SameMoney(e, g) /\ ChoicesGone(e, g)
    BY <1>1, ChoicesReset
  <2>2. "COUNTDOWN" \in HeekStates /\ r = Timed(e, "COUNTDOWN")
    BY <1>2, <1>3 DEF HeekStates, Waits
  <2> HIDE DEF e
  <2>3. r \in Managers /\ SameTable(r, e) /\ r.state = "COUNTDOWN" /\ r.timer = "live"
    BY ONLY <2>1, <2>2, TimerSet
  <2>4. /\ SameMoney(r, g) /\ r.pending = g.pending /\ r.choices = 0
        /\ \A p \in Players : r.sitter[p].choice = None /\ r.sitter[p].pending = g.sitter[p].pending
    BY <2>1, <2>3 DEF SameTable, SameMoney, ChoicesGone
  <2>5. Right(g)
    <3>1. CASE h.state = "IDLE"
      <4>1. NobodyIn(g, h) /\ h.sitting \subseteq Players
        BY <1>1, <3>1, TableIsFinite
      <4>2. Pending(g) = Pending(h) /\ g.state = "IDLE" /\ Pending(h) = {}
        BY <3>1, <4>1, SamePending DEF NobodyIn, Right
      <4> QED
        BY <3>1, <4>1, <4>2 DEF NobodyIn, Right
    <3>2. CASE h.state # "IDLE"
      BY <1>1, <3>2
    <3> QED
      BY <3>1, <3>2
  <2>6. g.state = h.state
    BY <1>1 DEF NobodyIn
  <2>7. Right(r) /\ Timely(r)
    BY <1>1, <1>3, <2>3, <2>4, <2>5, <2>6, ResetIsRight DEF Timely
  <2>8. Begun(r, h)
    BY <1>1, <1>3, <2>3, <2>4 DEF Begun, NobodyIn, SameMoney
  <2> QED
    BY <2>3, <2>7, <2>8
<1>4. CASE h.state \notin {"IDLE", "IN_GAME"}
  BY <1>2, <1>4 DEF Begun
<1> QED
  BY <1>3, <1>4

\* A choice: the first in a game costs its player a point, which goes to the pool.
PaysAPoint(r, h, p) ==
  /\ r.sitting = h.sitting /\ r.all = h.all /\ r.state \notin PaidOut
  /\ \A q \in Players \ {p} : r.sitter[q].score = h.sitter[q].score /\ r.sitter[q].plays = h.sitter[q].plays
  /\ r.sitter[p].plays
  /\ IF h.sitter[p].plays THEN r.pool = h.pool /\ r.sitter[p].score = h.sitter[p].score
     ELSE r.pool = h.pool + 1 /\ r.sitter[p].score = h.sitter[p].score - 1

\* Chosen counts the choice, and takes the point.
LEMMA ChosenIs ==
  ASSUME NEW h \in Managers, Right(h), Timely(h), h.state = "COUNTDOWN",
         NEW p \in h.sitting, NEW c \in HeekChoices, NEW r, r = Chosen(h, p, c)
  PROVE  r \in Managers /\ Right(r) /\ Timely(r) /\ PaysAPoint(r, h, p)
<1> DEFINE first == ~h.sitter[p].plays
           paid == IF first THEN [h.sitter[p] EXCEPT !.score = @ - 1, !.plays = TRUE,
                                                     !.wins = NoWins, !.pending = FALSE]
                            ELSE h.sitter[p]
           s == [paid EXCEPT !.choice = c]
           f == [h.sitter EXCEPT ![p] = s]
           pool == IF first THEN h.pool + 1 ELSE h.pool
           n == IF h.sitter[p].choice = None THEN h.choices + 1 ELSE h.choices
           g == [h EXCEPT !.pool = pool, !.choices = n, !.sitter = f]
<1>1. /\ h.sitter \in [Players -> Sitters] /\ h.pool \in Nat /\ h.choices \in Int
      /\ p \in Players /\ h.sitting \subseteq Players
  BY TableIsFinite DEF Managers
<1>2. h.sitter[p] \in Sitters /\ h.sitter[p].score - 1 \in Int
  BY <1>1 DEF Sitters
<1>3. /\ s \in Sitters /\ s.choice = c /\ s.plays = TRUE
      /\ s.score = IF first THEN h.sitter[p].score - 1 ELSE h.sitter[p].score
      /\ s.pending = IF first THEN FALSE ELSE h.sitter[p].pending
  BY <1>2 DEF Sitters, NoWins
<1>4. r = IF g.choices >= Cardinality(g.sitting) THEN CountdownDone(Cancelled(g)) ELSE g
  BY <1>1 DEF Chosen, Managers
<1> HIDE DEF s
<1>5. f \in [Players -> Sitters] /\ f[p] = s /\ \A q \in Players \ {p} : f[q] = h.sitter[q]
  BY <1>1, <1>3
<1>6. pool \in Nat /\ n \in Int
  BY <1>1
<1> HIDE DEF f
<1>7. /\ g \in Managers /\ g.pool = pool /\ g.choices = n /\ g.sitter = f /\ g.sitting = h.sitting
      /\ g.all = h.all /\ g.state = h.state /\ g.timer = h.timer /\ g.pending = h.pending
  <2> HIDE DEF pool, n
  <2> QED
    BY <1>5, <1>6 DEF Managers
<1> HIDE DEF g
<1>8. Chose(g) = Chose(h) \cup {p}
  <2>1. c # None
    BY DEF HeekChoices, None
  <2> QED
    BY <1>1, <1>3, <1>5, <1>7, <2>1 DEF Chose
<1>9. n = Cardinality(Chose(g))
  <2>1. h.choices = Cardinality(Chose(h)) /\ IsFiniteSet(Chose(h)) /\ Cardinality(Chose(h)) \in Nat
    BY TableIsFinite DEF Right
  <2>2. p \in Chose(h) <=> h.sitter[p].choice # None
    BY DEF Chose
  <2>3. CASE p \in Chose(h)
    <3>1. Chose(g) = Chose(h)
      BY <1>8, <2>3
    <3> QED
      BY <2>1, <2>2, <2>3, <3>1
  <2>4. CASE p \notin Chose(h)
    <3>1. Cardinality(Chose(h) \cup {p}) = Cardinality(Chose(h)) + 1
      BY <2>1, <2>4, FS_AddElement
    <3> QED
      BY <1>8, <2>1, <2>2, <2>4, <3>1
  <2> QED
    BY <2>3, <2>4
<1>10. Pending(g) = Pending(h)
  <2>1. h.sitter[p].pending => ~first
    BY DEF Right, Pending
  <2>2. \A q \in Players : g.sitter[q].pending <=> h.sitter[q].pending
    BY <1>1, <1>3, <1>5, <1>7, <2>1
  <2> QED
    BY <1>1, <1>7, <2>2 DEF Pending
<1>11. Right(g)
  <2>1. \A q \in Chose(g) : g.sitter[q].plays
    BY <1>1, <1>3, <1>5, <1>7, <1>8 DEF Right, Chose
  <2>2. \A q \in Pending(g) : g.sitter[q].plays
    BY <1>1, <1>3, <1>5, <1>7, <1>10 DEF Right, Pending
  <2>3. \A q \in Players \ g.sitting : g.sitter[q].choice = None /\ ~g.sitter[q].pending
    BY <1>5, <1>7 DEF Right
  <2> QED
    BY <1>7, <1>9, <1>10, <2>1, <2>2, <2>3 DEF Right
<1>12. Timely(g)
  BY <1>7 DEF Timely
<1>13. PaysAPoint(g, h, p)
  BY <1>1, <1>3, <1>5, <1>7 DEF PaysAPoint, PaidOut
<1>14. CASE r = g
  BY <1>7, <1>11, <1>12, <1>13, <1>14
<1>15. CASE r = CountdownDone(Cancelled(g))
  <2> DEFINE k == Cancelled(g)
  <2>1. k \in Managers /\ SameTable(k, g) /\ k.state = g.state
    BY <1>7, TimersOnly DEF HeekStates
  <2>2. Right(k)
    BY <1>7, <1>11, <2>1, SameTableRight
  <2> HIDE DEF k
  <2>3. /\ r \in Managers /\ Right(r) /\ Timely(r) /\ SameTable(r, k) /\ r.state = "STOP_WAIT"
    BY <1>7, <1>15, <2>1, <2>2, DoneIsRight DEF k
  <2>4. PaysAPoint(r, h, p)
    BY <1>13, <2>1, <2>3 DEF PaysAPoint, SameTable, PaidOut
  <2> QED
    BY <2>3, <2>4
<1> QED
  BY <1>4, <1>14, <1>15

\* One more at the table, who has chosen nothing yet.
SatDown(r, h, p) ==
  /\ r.state = h.state /\ r.timer = h.timer /\ r.pool = h.pool
  /\ r.choices = h.choices /\ r.pending = h.pending
  /\ r.sitting = h.sitting \cup {p} /\ p \notin h.sitting
  /\ r.sitter[p].choice = None /\ ~r.sitter[p].pending
  /\ \A q \in Players \ {p} : r.sitter[q] = h.sitter[q]

\* The counts are still right when one more sits down.
LEMMA SitDownIsRight ==
  ASSUME NEW h \in Managers, Right(h), Timely(h), NEW p \in Players, NEW r \in Managers,
         SatDown(r, h, p)
  PROVE  Right(r) /\ Timely(r)
<1>1. h.sitting \subseteq Players /\ p \notin h.sitting
  BY TableIsFinite DEF SatDown
<1>2. Chose(r) = Chose(h) /\ Pending(r) = Pending(h)
  BY <1>1 DEF SatDown, Chose, Pending
<1>3. \A q \in Chose(h) \cup Pending(h) : r.sitter[q] = h.sitter[q]
  BY <1>1 DEF SatDown, Chose, Pending
<1> QED
  BY <1>2, <1>3 DEF Right, Timely, SatDown

\* The player's place: what his client claims, or what the table knows of him.
Place(p) ==
  LET old == heek.sitter[p] IN
  CASE p \notin ToSet(heek.all) -> NewSitter(told[p])
    [] p \in ToSet(heek.all) /\ old.plays -> [old EXCEPT !.choice = None]
    [] OTHER -> [old EXCEPT !.score = told[p], !.wins = NoWins,
                            !.pending = FALSE, !.choice = None]

\* A place at the table has the points the table remembers, or those claimed.
LEMMA PlaceIs ==
  ASSUME heek \in Managers, Right(heek), told \in [Players -> Int],
         NEW p \in Players, p \notin heek.sitting
  PROVE  /\ Place(p) \in Sitters /\ Place(p).choice = None /\ ~Place(p).pending
         /\ IF p \in ToSet(heek.all) /\ heek.sitter[p].plays
            THEN Place(p).score = heek.sitter[p].score /\ Place(p).plays
            ELSE Place(p).score = told[p] /\ ~Place(p).plays
<1>1. heek.sitter[p] \in Sitters /\ told[p] \in Int /\ ~heek.sitter[p].pending
  BY DEF Managers, Right
<1>2. CASE p \notin ToSet(heek.all)
  BY <1>1, <1>2, NewSitterTyped DEF Place
<1>3. CASE p \in ToSet(heek.all) /\ heek.sitter[p].plays
  BY <1>1, <1>3 DEF Place, Sitters
<1>4. CASE p \in ToSet(heek.all) /\ ~heek.sitter[p].plays
  <2> DEFINE s == heek.sitter[p]
             t == told[p]
             e == [s EXCEPT !.score = t, !.wins = NoWins, !.pending = FALSE, !.choice = None]
  <2>1. Place(p) = e
    BY <1>4 DEF Place
  <2>2. s \in Sitters /\ t \in Int /\ ~s.plays
    BY <1>1, <1>4
  <2> HIDE DEF s, t
  <2>3. e \in Sitters /\ e.choice = None /\ e.pending = FALSE /\ e.score = t /\ e.plays = s.plays
    BY <2>2 DEF Sitters, NoWins
  <2> HIDE DEF e
  <2> QED
    BY <1>4, <2>1, <2>2, <2>3 DEF s, t
<1> QED
  BY <1>2, <1>3, <1>4

\* Heek_PlayGame
LEMMA PlayGameIs ==
  ASSUME heek \in Managers, Right(heek), Timely(heek), told \in [Players -> Int],
         NEW p \in Players, PlayGame(p)
  PROVE  /\ heek' \in Managers /\ Right(heek') /\ Timely(heek') /\ SatDown(heek', heek, p)
         /\ heek'.sitter[p] = Place(p) /\ told' = told
         /\ ToSet(heek'.all) = ToSet(heek.all) \cup {p}
<1> DEFINE f == [heek.sitter EXCEPT ![p] = Place(p)]
           all == IF p \in ToSet(heek.all) THEN heek.all ELSE Append(heek.all, p)
<1>1. heek.sitter \in [Players -> Sitters] /\ p \notin heek.sitting /\ heek.all \in Seq(Players)
  BY DEF Managers, PlayGame
<1>2. heek' = [heek EXCEPT !.sitting = heek.sitting \cup {p}, !.all = all, !.sitter = f]
  BY <1>1 DEF PlayGame, Place, Managers
<1>3. Place(p) \in Sitters /\ Place(p).choice = None /\ ~Place(p).pending
  BY <1>1, PlaceIs
<1>4. f \in [Players -> Sitters] /\ f[p] = Place(p) /\ \A q \in Players \ {p} : f[q] = heek.sitter[q]
  BY <1>1, <1>3
<1>5. all \in Seq(Players) /\ ToSet(all) = ToSet(heek.all) \cup {p}
  <2>1. /\ Append(heek.all, p) \in Seq(Players) /\ Len(Append(heek.all, p)) = Len(heek.all) + 1
        /\ Append(heek.all, p)[Len(heek.all) + 1] = p /\ Len(heek.all) \in Nat
        /\ \A i \in 1..Len(heek.all) : Append(heek.all, p)[i] = heek.all[i]
    BY <1>1, AppendProperties
  <2>2. ToSet(Append(heek.all, p)) = ToSet(heek.all) \cup {p}
    <3> DEFINE t == Append(heek.all, p)
               n == Len(heek.all)
    <3>1. DOMAIN t = 1..(n + 1) /\ DOMAIN heek.all = 1..n
      BY <1>1, <2>1
    <3>2. \A i \in 1..(n + 1) : i \in 1..n \/ i = n + 1
      BY <2>1
    <3>3. \A i \in 1..n : i \in 1..(n + 1)
      BY <2>1
    <3>4. n + 1 \in 1..(n + 1)
      BY <2>1
    <3> HIDE DEF t, n
    <3> QED
      BY <2>1, <3>1, <3>2, <3>3, <3>4 DEF ToSet, t, n
  <2> QED
    BY <1>1, <2>1, <2>2
<1> HIDE DEF f, all
<1>6. heek.sitting \cup {p} \in SUBSET Players
  BY TableIsFinite
<1>7. /\ heek' \in Managers /\ heek'.sitting = heek.sitting \cup {p} /\ heek'.all = all
      /\ heek'.sitter = f
      /\ heek'.state = heek.state /\ heek'.timer = heek.timer /\ heek'.pool = heek.pool
      /\ heek'.choices = heek.choices /\ heek'.pending = heek.pending
  BY <1>2, <1>4, <1>5, <1>6 DEF Managers
<1>8. SatDown(heek', heek, p)
  BY <1>1, <1>3, <1>4, <1>7 DEF SatDown
<1>9. Right(heek') /\ Timely(heek')
  BY <1>7, <1>8, SitDownIsRight
<1> QED
  BY <1>4, <1>5, <1>7, <1>8, <1>9 DEF PlayGame

\* A timer that is due, whether m_timer names it or not.
LEMMA TimerTurns ==
  ASSUME heek \in Managers, Right(heek), HeekTimer
  PROVE  /\ heek' \in Managers /\ Right(heek') /\ Timely(heek') /\ Turned(heek', heek)
         /\ TellWinner(heek, heek')
<1>1. PICK h : h \in {Fired(heek), StrayFired(heek)} /\ heek' = HeekTimeout(h)
  BY DEF HeekTimer
<1>2. "IDLE" \in HeekStates
  BY DEF HeekStates
<1>3. h \in Managers /\ SameTable(h, heek) /\ h.state = heek.state
  BY <1>1, <1>2, TimersOnly
<1>4. Right(h)
  BY <1>3, SameTableRight
<1>5. heek' \in Managers /\ Right(heek') /\ Timely(heek') /\ Turned(heek', h)
  BY <1>1, <1>3, <1>4, TimeoutIs
<1>6. Turned(heek', heek)
  BY <1>3, <1>5 DEF Turned, SameTable, SameMoney, TakesPool
<1> QED
  BY <1>5, <1>6 DEF HeekTimer

\* The owner's client says that an animation is over.
LEMMA SeqTurns ==
  ASSUME heek \in Managers, Right(heek), Timely(heek), NEW p, NEW seq, SeqFinished(p, seq)
  PROVE  /\ heek' \in Managers /\ Right(heek') /\ Timely(heek') /\ Turned(heek', heek)
         /\ TellWinner(heek, heek')
<1> DEFINE h == Cancelled(heek)
<1>1. h \in Managers /\ SameTable(h, heek) /\ h.state = heek.state
  BY TimersOnly DEF HeekStates
<1>2. Right(h)
  BY <1>1, SameTableRight
<1>3. \/ heek.state = "STOP_WAIT" /\ heek' = HandleRound(h)
      \/ heek.state = "ANIM_WAIT" /\ heek' = CountdownIdle(h)
      \/ heek.state = "WINNER" /\ heek' = HandleWinner(h)
      \/ heek.state = "WIN_WAIT" /\ heek' = [CountdownIdle(h) EXCEPT !.state = "IDLE"]
      \/ heek' = heek
  BY DEF SeqFinished
<1> HIDE DEF h
<1>4. /\ heek' \in Managers /\ Right(heek') /\ Timely(heek')
      /\ (Turned(heek', h) \/ heek' = heek)
  <2>1. CASE heek.state = "STOP_WAIT" /\ heek' = HandleRound(h)
    <3>1. heek' \in Managers /\ Right(heek') /\ Timely(heek') /\ RoundEnded(heek', h)
      BY <1>1, <1>2, <2>1, HandleRoundIs
    <3> QED
      BY <1>1, <2>1, <3>1 DEF Turned, RoundEnded, PaidOut
  <2>2. CASE \/ heek.state = "ANIM_WAIT" /\ heek' = CountdownIdle(h)
             \/ heek.state = "WIN_WAIT" /\ heek' = [CountdownIdle(h) EXCEPT !.state = "IDLE"]
    <3>1. /\ heek' \in Managers /\ Right(heek') /\ Timely(heek') /\ SameMoney(heek', h)
          /\ heek'.state = "IN_GAME" \/ (h.state = "WIN_WAIT" /\ heek'.state = "IDLE")
      BY <1>1, <1>2, <2>2, IdleIsRight
    <3> QED
      BY <3>1 DEF Turned, PaidOut
  <2>3. CASE heek.state = "WINNER" /\ heek' = HandleWinner(h)
    <3>1. /\ heek' \in Managers /\ Right(heek') /\ Timely(heek') /\ SameMoney(heek', h)
      BY <1>1, <1>2, <2>3, HandleWinnerIs
    <3> QED
      BY <1>1, <2>3, <3>1 DEF Turned, PaidOut
  <2> QED
    BY <1>3, <2>1, <2>2, <2>3
<1>5. Turned(heek', heek)
  BY <1>1, <1>4 DEF Turned, SameTable, SameMoney, TakesPool
<1> QED
  BY <1>4, <1>5 DEF SeqFinished

\* A player gets up with what he has, the last with the pool.
LEMMA LeaveTableIs ==
  ASSUME heek \in Managers, Right(heek), Timely(heek), NEW p \in Players, LeaveTable(p),
         NEW score, score = heek.sitter[p].score + (IF heek.sitting = {p} THEN heek.pool ELSE 0)
  PROVE  /\ heek' \in Managers /\ Right(heek') /\ Timely(heek') /\ p \in heek.sitting
         /\ Departed(heek', heek, p)
         /\ score \in Int /\ told' = [told EXCEPT ![p] = score]
<1> DEFINE s == [heek.sitter[p] EXCEPT !.score = score]
           f == [heek.sitter EXCEPT ![p] = s]
           h == [heek EXCEPT !.sitter = f]
<1>1. heek.sitter \in [Players -> Sitters] /\ p \in heek.sitting /\ heek.pool \in Nat
  BY DEF Managers, LeaveTable
<1>2. heek.sitter[p].score \in Int /\ heek.sitter[p] \in Sitters
  BY <1>1 DEF Sitters
<1>3. score \in Int
  BY <1>1, <1>2
<1>4. [heek EXCEPT !.sitter[p].score = score] = h
  BY <1>1 DEF Managers
<1>5. [heek EXCEPT !.sitter[p].score = IF heek.sitting = {p} THEN @ + heek.pool ELSE @] = h
  <2>1. score = IF heek.sitting = {p} THEN heek.sitter[p].score + heek.pool ELSE heek.sitter[p].score
    BY <1>1, <1>2
  <2> HIDE DEF h
  <2> QED
    BY <1>4, <2>1
<1>6. /\ s \in Sitters /\ s.score = score /\ s.choice = heek.sitter[p].choice
      /\ s.pending = heek.sitter[p].pending /\ s.plays = heek.sitter[p].plays
  BY <1>2, <1>3 DEF Sitters
<1> HIDE DEF s
<1>7. f \in [Players -> Sitters] /\ f[p] = s /\ \A q \in Players \ {p} : f[q] = heek.sitter[q]
  BY <1>1, <1>6
<1> HIDE DEF f
<1>8. /\ h \in Managers /\ h.sitter = f /\ h.sitting = heek.sitting /\ h.all = heek.all
      /\ h.state = heek.state /\ h.timer = heek.timer /\ h.pool = heek.pool
      /\ h.choices = heek.choices /\ h.pending = heek.pending
  BY <1>7 DEF Managers
<1>9. told' = [told EXCEPT ![p] = h.sitter[p].score] /\ heek' = HandleDeparture(h, p)
  <2> HIDE DEF h
  <2> QED
    BY <1>5 DEF LeaveTable
<1> HIDE DEF h
<1>10. \A q \in Players : /\ h.sitter[q].choice = heek.sitter[q].choice
                          /\ h.sitter[q].pending = heek.sitter[q].pending
                          /\ h.sitter[q].plays = heek.sitter[q].plays
  BY <1>6, <1>7, <1>8
<1>11. Chose(h) = Chose(heek) /\ Pending(h) = Pending(heek) /\ heek.sitting \subseteq Players
       /\ Chose(heek) \subseteq Players /\ Pending(heek) \subseteq Players
  BY <1>8, <1>10, SameChose, SamePending, TableIsFinite
<1>12. Right(h) /\ Timely(h)
  BY <1>8, <1>10, <1>11 DEF Right, Timely
<1>13. heek' \in Managers /\ Right(heek') /\ Timely(heek') /\ Departed(heek', h, p)
  BY <1>1, <1>8, <1>9, <1>12, DepartureIs
<1>14. Departed(heek', heek, p)
  <2>1. heek.sitting # {p} => score = heek.sitter[p].score
    BY <1>2
  <2>2. heek.sitting # {p} => \A q \in Players : h.sitter[q].score = heek.sitter[q].score
    BY <1>6, <1>7, <1>8, <2>1
  <2> QED
    BY <1>8, <1>10, <1>13, <2>2 DEF Departed
<1>15. h.sitter[p].score = score
  BY <1>6, <1>7, <1>8
<1> QED
  BY <1>1, <1>3, <1>9, <1>13, <1>14, <1>15

\* The first of m_all is forgotten, and whoever neither sits nor is in it then.
Fewer(r, h) ==
  /\ r.state = h.state /\ r.sitting = h.sitting /\ r.pool = h.pool
  /\ ToSet(r.all) \subseteq ToSet(h.all)
  /\ \A q \in Players : q \in r.sitting \cup ToSet(r.all) => r.sitter[q] = h.sitter[q]

\* The counts are still right when m_all has lost its first.
LEMMA ForgottenIs ==
  ASSUME NEW h \in Managers, Right(h), Timely(h), NEW b \in BOOLEAN, NEW r,
         r = [Forgotten(h) EXCEPT !.cleanup = b]
  PROVE  r \in Managers /\ Right(r) /\ Timely(r) /\ Fewer(r, h)
<1> DEFINE all == IF h.all = <<>> THEN h.all ELSE Tail(h.all)
           e == [h EXCEPT !.all = all]
           g == StrangersForgotten(e)
<1>1. h.all \in Seq(Players)
  BY DEF Managers
<1>2. all \in Seq(Players) /\ ToSet(all) \subseteq ToSet(h.all)
  <2>1. CASE h.all = <<>>
    BY <1>1, <2>1
  <2>2. CASE h.all # <<>>
    <3>1. /\ Tail(h.all) \in Seq(Players) /\ Len(Tail(h.all)) = Len(h.all) - 1 /\ Len(h.all) \in Nat
          /\ \A i \in 1..(Len(h.all) - 1) : Tail(h.all)[i] = h.all[i + 1]
      BY <1>1, <2>2, HeadTailProperties
    <3>2. \A i \in 1..(Len(h.all) - 1) : i + 1 \in 1..Len(h.all)
      BY <3>1
    <3>3. DOMAIN Tail(h.all) = 1..(Len(h.all) - 1) /\ DOMAIN h.all = 1..Len(h.all)
      BY <1>1, <3>1
    <3> QED
      BY <2>2, <3>1, <3>2, <3>3 DEF ToSet
  <2> QED
    BY <2>1, <2>2
<1>3. g = Forgotten(h)
  BY DEF Forgotten
<1> HIDE DEF all
<1>4. /\ e \in Managers /\ e.all = all /\ e.state = h.state /\ e.timer = h.timer /\ e.pool = h.pool
      /\ e.sitting = h.sitting /\ e.choices = h.choices /\ e.pending = h.pending
      /\ e.sitter = h.sitter
  BY <1>2 DEF Managers
<1> HIDE DEF e
<1>5. g \in Managers /\ Remembered(g, e)
  BY <1>4, StrangersGone
<1> HIDE DEF g
<1>6. /\ r \in Managers /\ SameTable(r, g) /\ r.state = g.state /\ r.timer = g.timer
  BY <1>3, <1>5 DEF Managers, SameTable
<1>7. /\ r.all = all /\ r.state = h.state /\ r.timer = h.timer /\ r.pool = h.pool
      /\ r.sitting = h.sitting /\ r.choices = h.choices /\ r.pending = h.pending
      /\ \A p \in Players : r.sitter[p] = IF p \in h.sitting \cup ToSet(all) THEN h.sitter[p]
                                          ELSE NewSitter(0)
  BY <1>4, <1>5, <1>6 DEF SameTable, Remembered
<1>8. Fewer(r, h)
  BY <1>2, <1>7 DEF Fewer
<1>9. Chose(r) = Chose(h) /\ Pending(r) = Pending(h)
  BY <1>7, TableIsFinite DEF Chose, Pending
<1>10. \A p \in h.sitting : r.sitter[p] = h.sitter[p]
  BY <1>7, TableIsFinite
<1>11. \A p \in Players \ h.sitting : r.sitter[p].choice = None /\ ~r.sitter[p].pending
  <2>1. NewSitter(0).choice = None /\ ~NewSitter(0).pending
    BY NewSitterTyped
  <2> QED
    BY <1>7, <2>1 DEF Right
<1>12. Chose(h) \subseteq h.sitting /\ Pending(h) \subseteq h.sitting
  BY TableIsFinite
<1>13. Right(r) /\ Timely(r)
  BY <1>7, <1>9, <1>10, <1>11, <1>12 DEF Right, Timely
<1> QED
  BY <1>6, <1>8, <1>13

\* A player leaves the age, from the table or not.
LEMMA HeekLeftIs ==
  ASSUME heek \in Managers, Right(heek), Timely(heek), NEW p \in Players, HeekLeft(p)
  PROVE  /\ heek' \in Managers /\ Right(heek') /\ Timely(heek') /\ told' = told
         /\ \/ heek' = heek
            \/ \E h \in Managers : /\ h = heek \/ (p \in heek.sitting /\ Departed(h, heek, p))
                                   /\ Fewer(heek', h)
<1> DEFINE h == IF p \in heek.sitting THEN HandleDeparture(heek, p) ELSE heek
<1>1. /\ h \in Managers /\ Right(h) /\ Timely(h)
      /\ h = heek \/ (p \in heek.sitting /\ Departed(h, heek, p))
  BY DepartureIs
<1>2. heek' = heek \/ \E b \in BOOLEAN : heek' = [Forgotten(h) EXCEPT !.cleanup = b]
  BY DEF HeekLeft
<1> HIDE DEF h
<1>3. CASE heek' = heek
  BY <1>3 DEF HeekLeft
<1>4. ASSUME NEW b \in BOOLEAN, heek' = [Forgotten(h) EXCEPT !.cleanup = b]
      PROVE  heek' \in Managers /\ Right(heek') /\ Timely(heek') /\ Fewer(heek', h)
  BY <1>1, <1>4, ForgottenIs
<1> QED
  BY <1>1, <1>2, <1>3, <1>4 DEF HeekLeft

-----------------------------------------------------------------------------
(* The steps                                                               *)

\* What happens at the table.
TableMoves ==
  \/ \E p \in Players :
       \/ PlayGame(p) \/ LeaveTable(p) \/ LateChoice(p)
       \/ \E c \in Hands : Choose(p, c)
       \/ \E seq \in {"Countdown", "ChoiceAnim", "GameWinAnim"} : SeqFinished(p, seq)
  \/ HeekTimer

\* What a step is to the table, and to who is in the age.
LEMMA Steps ==
  ASSUME Next
  PROVE  \/ UNCHANGED <<heek, told, here, visits>>
         \/ UNCHANGED <<here, visits>> /\ TableMoves
         \/ UNCHANGED <<here, visits>> /\ \E ps : HeekInitialized(ps)
         \/ \E p \in Players : Arrive(p) /\ UNCHANGED <<heek, told>>
         \/ \E p \in Players : Leave(p) /\ (HeekLeft(p) \/ UNCHANGED <<heek, told>>)
<1> USE DEF heekVars
<1>1. ASSUME NEW p \in Players, Come(p)  PROVE Arrive(p) /\ UNCHANGED <<heek, told>>
  BY <1>1 DEF Come, OthersThan
<1>2. ASSUME NEW ps, Initialized(ps)
      PROVE  UNCHANGED <<heek, told>> \/ HeekInitialized(ps)
  BY <1>2 DEF Initialized, OthersThan
<1>3. ASSUME NEW p \in Players, SetupGame(p)
      PROVE  UNCHANGED <<here, visits>> /\ (UNCHANGED <<heek, told>> \/ \E ps : HeekInitialized(ps))
  <2>1. CASE kind = "marker"
    <3>1. PICK template \in 0..Len(db) : Setup(p, template) /\ OthersThan(kind)
      BY <1>3, <2>1 DEF SetupGame
    <3> QED
      BY <2>1, <3>1 DEF Setup, OthersThan
  <2>2. CASE kind # "marker"
    <3>1. Setup(p, 0) /\ Initialized(InitializedNow(p))
      BY <1>3, <2>2 DEF SetupGame
    <3> QED
      BY <1>2, <3>1 DEF Setup
  <2> QED
    BY <2>1, <2>2
<1>4. ASSUME NEW p \in Players, Depart(p)
      PROVE  Leave(p) /\ (HeekLeft(p) \/ UNCHANGED <<heek, told>>)
  BY <1>4 DEF Depart, OthersThan
<1>5. CASE NextID
  BY <1>5 DEF NextID, VaultNextID, OthersThan
<1>6. CASE GameGetsID
  <2>1. GotNextID /\ \E ps : Initialized(ps)
    BY <1>6 DEF GameGetsID
  <2> QED
    BY <1>2, <2>1 DEF GotNextID
<1>7. CASE VarSyncNext
  BY <1>7 DEF VarSyncNext, CreateNumericVar, SetNumericVar, mgrVars, OthersThan
<1>8. CASE DoorNext
  BY <1>8 DEF DoorNext, StartGame, HitRight, HitWrong, mgrVars, OthersThan
<1>9. CASE DoorTimer
  BY <1>9 DEF DoorTimer, DoorTimeouts, DoorTimeout, mgrVars, OthersThan
<1>10. CASE HeekNext
  BY <1>10 DEF HeekNext, TableMoves, PlayGame, LeaveTable, LateChoice, Choose, SeqFinished, mgrVars
<1>11. CASE HeekClock
  BY <1>11 DEF HeekClock, TableMoves, HeekTimer, mgrVars
<1>12. CASE MarkerNext
  <2>1. OthersThan("marker")
    BY <1>12 DEF MarkerNext
  <2>2. PICK n \in DOMAIN mark :
          \/ StartMarkers(n) \/ PauseMarkers(n) \/ ResetMarkers(n) \/ DeleteGame(n)
          \/ \E name \in GameNames : AddMarker(n, name) \/ RenameGame(n, name)
          \/ \E i \in DOMAIN view[n].markers :
               \/ DeleteMarker(n, i) \/ CaptureMarker(n, i)
               \/ \E name \in GameNames : RenameMarker(n, i, name)
    BY <1>12 DEF MarkerNext
  <2>3. \/ StartMarkers(n) \/ PauseMarkers(n)
        \/ \E op, num, name : Ask(n, op, num, name)
    BY <2>2 DEF ResetMarkers, DeleteGame, AddMarker, RenameGame, DeleteMarker,
                CaptureMarker, RenameMarker
  <2> QED
    BY <2>1, <2>3 DEF StartMarkers, PauseMarkers, Ask, mgrVars, OthersThan
<1>13. CASE VaultMarkers
  BY <1>13 DEF VaultMarkers, VaultChanges, VaultOpens, OthersThan
<1>14. CASE MarkerAnswer
  BY <1>14 DEF MarkerAnswer, GotMarkerAnswer, OthersThan
<1> QED
  BY <1>1, <1>3, <1>4, <1>5, <1>6, <1>7, <1>8, <1>9, <1>10, <1>11, <1>12, <1>13, <1>14 DEF Next

\* The invariant that carries CountsAreRight.
CountInv == heek \in Managers /\ Right(heek) /\ Timely(heek) /\ told \in [Players -> Int]

\* An empty table.
LEMMA CountInit ==
  ASSUME Init
  PROVE  CountInv
<1>1. /\ told = [p \in Players |-> Stakes] /\ Stakes \in Int
      /\ heek = [state |-> "IDLE", pool |-> 0, sitting |-> {}, all |-> <<>>,
                 sitter |-> [p \in Players |-> NewSitter(0)],
                 choices |-> 0, pending |-> 0, cleanup |-> FALSE, timer |-> "none", stray |-> 0]
  BY HeekAssumption DEF Init, HeekInit
<1>2. [p \in Players |-> NewSitter(0)] \in [Players -> Sitters]
  BY NewSitterTyped
<1>3. /\ heek \in Managers /\ heek.state = "IDLE" /\ heek.sitting = {} /\ heek.pending = 0
      /\ \A p \in Players : heek.sitter[p] = NewSitter(0)
  <2>1. "IDLE" \in HeekStates /\ {} \in SUBSET Players /\ <<>> \in Seq(Players)
    BY DEF HeekStates
  <2> DEFINE f == [p \in Players |-> NewSitter(0)]
  <2>2. \A p \in Players : f[p] = NewSitter(0)
    OBVIOUS
  <2> HIDE DEF f
  <2> QED
    BY <1>1, <1>2, <2>1, <2>2 DEF Managers, f
<1>4. Pending(heek) = {} /\ Cardinality({}) = 0
  BY <1>3, FS_EmptySet DEF Pending
<1>5. Right(heek) /\ Timely(heek)
  <2>1. NewSitter(0).choice = None /\ ~NewSitter(0).pending
    BY NewSitterTyped
  <2> QED
    BY <1>3, <1>4, <2>1 DEF Right, Timely, Waits
<1> QED
  BY <1>1, <1>3, <1>5 DEF CountInv

\* What a choice makes of the table.
LEMMA ChooseIs ==
  ASSUME CountInv, NEW p \in Players, NEW c \in Hands, Choose(p, c)
  PROVE  \E h \in Managers :
           /\ Begun(h, heek) /\ PaysAPoint(heek', h, p) /\ p \in heek.sitting
           /\ heek' \in Managers /\ Right(heek') /\ Timely(heek')
           /\ told' = IF h.sitter[p].plays THEN told
                      ELSE [told EXCEPT ![p] = heek'.sitter[p].score]
<1> DEFINE h == Began(heek)
<1>1. h \in Managers /\ Right(h) /\ Timely(h) /\ Begun(h, heek)
  BY BeganIs DEF CountInv
<1>2. /\ p \in heek.sitting /\ h.state = "COUNTDOWN" /\ heek' = Chosen(h, p, c)
      /\ told' = IF h.sitter[p].plays THEN told ELSE [told EXCEPT ![p] = heek'.sitter[p].score]
  BY DEF Choose
<1> HIDE DEF h
<1>3. p \in h.sitting /\ c \in HeekChoices
  BY <1>1, <1>2, HeekAssumption DEF Begun
<1>4. heek' \in Managers /\ Right(heek') /\ Timely(heek') /\ PaysAPoint(heek', h, p)
  BY <1>1, <1>2, <1>3, ChosenIs
<1> QED
  BY <1>1, <1>2, <1>4

\* heek_initialized: only whether a place is to be cleared.
LEMMA InitializedIs ==
  ASSUME CountInv, NEW ps, HeekInitialized(ps)
  PROVE  /\ heek' \in Managers /\ SameTable(heek', heek) /\ heek'.state = heek.state
         /\ heek'.timer = heek.timer /\ told' = told
<1>1. \E b \in BOOLEAN : heek' = [heek EXCEPT !.cleanup = b]
  BY DEF HeekInitialized
<1> QED
  BY <1>1 DEF HeekInitialized, CountInv, Managers, SameTable

\* What the clients are told keeps its type.
LEMMA ToldTyped ==
  ASSUME CountInv, NEW h1, TellWinner(heek, h1)
  PROVE  told' \in [Players -> Int]
<1>1. \A p \in Players : heek.sitter[p].score \in Int /\ told[p] \in Int
  BY DEF CountInv, Managers, Sitters
<1> QED
  BY <1>1 DEF TellWinner

\* Each step keeps the counts.
LEMMA CountStep ==
  ASSUME CountInv, Next
  PROVE  CountInv'
<1> USE DEF CountInv
<1>1. CASE UNCHANGED <<heek, told>>
  BY <1>1
<1>2. ASSUME NEW p \in Players, PlayGame(p)  PROVE CountInv'
  <2>1. p \notin heek.sitting
    BY <1>2 DEF PlayGame
  <2> QED
    BY <1>2, PlayGameIs
<1>3. ASSUME NEW p \in Players, LeaveTable(p)  PROVE CountInv'
  <2> DEFINE score == heek.sitter[p].score + (IF heek.sitting = {p} THEN heek.pool ELSE 0)
  <2>1. /\ heek' \in Managers /\ Right(heek') /\ Timely(heek')
        /\ score \in Int /\ told' = [told EXCEPT ![p] = score]
    <3> HIDE DEF score
    <3> QED
      BY <1>3, LeaveTableIs DEF score
  <2> HIDE DEF score
  <2> QED
    BY <2>1
<1>4. ASSUME NEW p \in Players, LateChoice(p)  PROVE CountInv'
  BY <1>4, BeganIs DEF LateChoice
<1>5. ASSUME NEW p \in Players, NEW c \in Hands, Choose(p, c)  PROVE CountInv'
  <2>1. PICK h \in Managers :
           /\ heek' \in Managers /\ Right(heek') /\ Timely(heek')
           /\ told' = IF h.sitter[p].plays THEN told
                      ELSE [told EXCEPT ![p] = heek'.sitter[p].score]
    BY <1>5, ChooseIs
  <2>2. heek'.sitter[p].score \in Int
    BY <2>1 DEF Managers, Sitters
  <2> QED
    BY <2>1, <2>2
<1>6. ASSUME NEW p, NEW seq, SeqFinished(p, seq)  PROVE CountInv'
  BY <1>6, SeqTurns, ToldTyped
<1>7. CASE HeekTimer
  BY <1>7, TimerTurns, ToldTyped
<1>8. ASSUME NEW ps, HeekInitialized(ps)  PROVE CountInv'
  BY <1>8, InitializedIs, SameTableRight DEF Timely
<1>9. ASSUME NEW p \in Players, HeekLeft(p)  PROVE CountInv'
  BY <1>9, HeekLeftIs
<1>10. TableMoves => CountInv'
  BY <1>2, <1>3, <1>4, <1>5, <1>6, <1>7 DEF TableMoves
<1> HIDE DEF CountInv
<1> QED
  BY <1>1, <1>8, <1>9, <1>10, Steps

\* HeekGameMgr: the invariant, in every reachable state.
LEMMA TableIsCounted == Spec => []CountInv
<1>1. Init => CountInv
  BY CountInit
<1>2. CountInv /\ [Next]_vars_ => CountInv'
  <2>1. CountInv /\ UNCHANGED vars_ => CountInv'
    BY DEF CountInv, vars_, heekVars
  <2> QED
    BY <2>1, CountStep
<1> QED
  BY <1>1, <1>2, PTL DEF Spec

\* m_choice_ct and m_pending_winner_ct are the numbers of those at the table who have
\* chosen and who are pending winners, and a state that waits has its timer.
THEOREM HeekCountsAreRight == Spec => []CountsAreRight
<1>1. CountInv => CountsAreRight
  BY DEF CountInv, Right, Timely, CountsAreRight
<1> QED
  BY <1>1, TableIsCounted, PTL

-----------------------------------------------------------------------------
(* Sums                                                                    *)

\* The element a sum takes next.
Some(s) == CHOOSE x \in s : TRUE

\* Induction over the parts of a finite set, one element less each.
LEMMA OneByOne ==
  ASSUME NEW S, IsFiniteSet(S), NEW G, {} \in G,
         \A s \in SUBSET S : s # {} /\ s \ {Some(s)} \in G => s \in G
  PROVE  \A s \in SUBSET S : s \in G
<1> DEFINE n == Cardinality(S)
           T == {k \in 0..n : \A s \in SUBSET S : Cardinality(s) = k => s \in G}
<1>1. \A s \in SUBSET S : IsFiniteSet(s) /\ Cardinality(s) \in 0..n
  BY FS_Subset, FS_CardinalityType
<1>2. 0 \in T
  <2>1. \A s \in SUBSET S : Cardinality(s) = 0 => s = {}
    BY <1>1, FS_EmptySet
  <2>2. n \in Nat
    BY FS_CardinalityType
  <2> QED
    BY <2>1, <2>2
<1>3. ASSUME NEW k \in Nat, k < n, k \in T  PROVE k + 1 \in T
  <2>1. ASSUME NEW s \in SUBSET S, Cardinality(s) = k + 1  PROVE s \in G
    <3>1. IsFiniteSet(s) /\ s # {}
      BY <1>1, <1>3, <2>1, FS_EmptySet
    <3>2. Some(s) \in s
      BY <3>1 DEF Some
    <3>3. Cardinality(s \ {Some(s)}) = k /\ s \ {Some(s)} \in SUBSET S
      <4>1. Cardinality(s \ {Some(s)}) = Cardinality(s) - 1
        BY <3>1, <3>2, FS_RemoveElement
      <4> QED
        BY <1>3, <2>1, <4>1
    <3>4. s \ {Some(s)} \in G
      BY <1>3, <3>3
    <3> QED
      BY <3>1, <3>4
  <2>2. k + 1 \in 0..n
    BY <1>3, FS_CardinalityType
  <2> QED
    BY <2>1, <2>2
<1>4. n \in Nat
  BY FS_CardinalityType
<1> HIDE DEF T, n
<1>5. 0 \in T /\ \A k \in Nat : k < n /\ k \in T => k + 1 \in T
  BY <1>2, <1>3
<1>6. \A k \in 0..n : k \in T
  BY ONLY <1>4, <1>5, UpTo
<1> QED
  BY <1>1, <1>6 DEF T

\* f adds up w over the parts of S that have at most k elements.
SumsUpTo(k, S, w, f) ==
  /\ f \in [{s \in SUBSET S : Cardinality(s) <= k} -> Int]
  /\ \A s \in SUBSET S : Cardinality(s) <= k =>
       f[s] = IF s = {} THEN 0 ELSE w[Some(s)] + f[s \ {Some(s)}]
Sums(S, w, f) ==
  /\ f \in [SUBSET S -> Int]
  /\ \A s \in SUBSET S : f[s] = IF s = {} THEN 0 ELSE w[Some(s)] + f[s \ {Some(s)}]

\* One element more can be added up.
LEMMA SumsExtend ==
  ASSUME NEW S, IsFiniteSet(S), NEW w \in [S -> Int], NEW k \in Nat, NEW f, SumsUpTo(k, S, w, f)
  PROVE  \E h : SumsUpTo(k + 1, S, w, h)
<1> DEFINE D == {s \in SUBSET S : Cardinality(s) <= k + 1}
           h == [s \in D |-> IF s = {} THEN 0 ELSE w[Some(s)] + f[s \ {Some(s)}]]
<1>1. ASSUME NEW s \in D, s # {}
      PROVE  /\ Some(s) \in S /\ s \ {Some(s)} \in SUBSET S
             /\ Cardinality(s \ {Some(s)}) <= k /\ s \ {Some(s)} \in D
  <2>1. IsFiniteSet(s) /\ Some(s) \in s
    BY <1>1, FS_Subset DEF Some
  <2>2. Cardinality(s \ {Some(s)}) = Cardinality(s) - 1 /\ Cardinality(s) \in Nat
    BY <2>1, FS_RemoveElement, FS_CardinalityType
  <2> QED
    BY <1>1, <2>1, <2>2
<1>2. h \in [D -> Int]
  <2>1. ASSUME NEW s \in D, s # {}  PROVE w[Some(s)] + f[s \ {Some(s)}] \in Int
    <3>1. w[Some(s)] \in Int
      BY <1>1, <2>1
    <3>2. f[s \ {Some(s)}] \in Int
      BY <1>1, <2>1 DEF SumsUpTo
    <3> QED
      BY <3>1, <3>2
  <2> QED
    BY <2>1
<1>3. ASSUME NEW s \in D, Cardinality(s) <= k  PROVE h[s] = f[s]
  BY <1>3 DEF SumsUpTo
<1>4. ASSUME NEW s \in D
      PROVE  h[s] = IF s = {} THEN 0 ELSE w[Some(s)] + h[s \ {Some(s)}]
  <2>1. CASE s # {}
    <3>1. h[s \ {Some(s)}] = f[s \ {Some(s)}]
      BY <1>1, <1>3, <2>1
    <3>2. h[s] = w[Some(s)] + f[s \ {Some(s)}]
      BY <2>1
    <3> QED
      BY <2>1, <3>1, <3>2
  <2> QED
    BY <2>1
<1> HIDE DEF h
<1> QED
  BY <1>2, <1>4 DEF SumsUpTo

\* All parts of a finite set can be added up.
LEMMA SumsExist ==
  ASSUME NEW S, IsFiniteSet(S), NEW w \in [S -> Int]
  PROVE  \E f : Sums(S, w, f)
<1> DEFINE n == Cardinality(S)
           T == {k \in 0..n : \E f : SumsUpTo(k, S, w, f)}
<1>1. n \in Nat /\ \A s \in SUBSET S : IsFiniteSet(s) /\ Cardinality(s) \in Nat /\ Cardinality(s) <= n
  BY FS_Subset, FS_CardinalityType
<1>2. 0 \in T
  <2> DEFINE f == [s \in {s \in SUBSET S : Cardinality(s) <= 0} |-> 0]
  <2>1. \A s \in SUBSET S : Cardinality(s) <= 0 => s = {}
    BY <1>1, FS_EmptySet
  <2>2. SumsUpTo(0, S, w, f)
    BY <2>1 DEF SumsUpTo
  <2> QED
    BY <1>1, <2>2
<1>3. ASSUME NEW k \in Nat, k < n, k \in T  PROVE k + 1 \in T
  <2>1. \E h : SumsUpTo(k + 1, S, w, h)
    BY <1>3, SumsExtend
  <2> QED
    BY <1>1, <1>3, <2>1
<1> HIDE DEF T
<1>4. n \in T
  <2> HIDE DEF n
  <2>1. 0 \in T /\ n \in Nat /\ \A k \in Nat : k < n /\ k \in T => k + 1 \in T
    BY <1>1, <1>2, <1>3
  <2>2. \A k \in 0..n : k \in T
    BY ONLY <2>1, UpTo
  <2> QED
    BY <1>1, <2>2
<1>5. PICK f : SumsUpTo(n, S, w, f)
  BY <1>4 DEF T
<1>6. {s \in SUBSET S : Cardinality(s) <= n} = SUBSET S
  BY <1>1
<1> QED
  BY <1>1, <1>5, <1>6 DEF SumsUpTo, Sums

\* SumFunction adds up a function on a finite set.
LEMMA SumIsSum ==
  ASSUME NEW S, IsFiniteSet(S), NEW w \in [S -> Int]
  PROVE  \E f : Sums(S, w, f) /\ SumFunction(w) = f[S]
<1> DEFINE Step(g) == [s \in SUBSET S |->
                         IF s = {} THEN 0 ELSE w[Some(s)] + g[s \ {Some(s)}]]
           it == CHOOSE g : g = Step(g)
<1>1. DOMAIN w = S
  OBVIOUS
<1>2. SumFunction(w) = it[S]
  BY <1>1 DEF SumFunction, SumFunctionOnSet, FoldFunctionOnSet, MapThenFoldSet, Some
<1>3. PICK f : Sums(S, w, f)
  BY SumsExist
<1>4. f = Step(f)
  BY <1>3 DEF Sums
<1>5. it = Step(it)
  <2> HIDE DEF Step
  <2> QED
    BY <1>4
<1> HIDE DEF it
<1>6. \A s \in SUBSET S : it[s] = IF s = {} THEN 0 ELSE w[Some(s)] + it[s \ {Some(s)}]
  BY <1>5
<1> DEFINE G == {s \in SUBSET S : it[s] = f[s]}
<1>7. {} \in G
  BY <1>3, <1>6 DEF Sums
<1>8. ASSUME NEW s \in SUBSET S, s # {}, s \ {Some(s)} \in G  PROVE s \in G
  BY <1>3, <1>6, <1>8 DEF Sums
<1> HIDE DEF G
<1>9. \A s \in SUBSET S : s \in G
  BY <1>7, <1>8, OneByOne
<1> QED
  BY <1>2, <1>3, <1>9 DEF G

\* A sum of no less is no less, and one of as much is as much.
LEMMA SumLess ==
  ASSUME NEW S, IsFiniteSet(S), NEW v \in [S -> Int], NEW w \in [S -> Int],
         \A x \in S : v[x] <= w[x]
  PROVE  /\ SumFunction(v) \in Int /\ SumFunction(w) \in Int
         /\ SumFunction(v) <= SumFunction(w)
<1>1. PICK f : Sums(S, v, f) /\ SumFunction(v) = f[S]
  BY SumIsSum
<1>2. PICK g : Sums(S, w, g) /\ SumFunction(w) = g[S]
  BY SumIsSum
<1> DEFINE G == {s \in SUBSET S : f[s] <= g[s]}
<1>3. \A s \in SUBSET S : f[s] \in Int /\ g[s] \in Int
  BY <1>1, <1>2 DEF Sums
<1>4. {} \in G
  <2>1. f[{}] = 0 /\ g[{}] = 0
    BY <1>1, <1>2 DEF Sums
  <2> QED
    BY <2>1
<1>5. ASSUME NEW s \in SUBSET S, s # {}, s \ {Some(s)} \in G  PROVE s \in G
  <2>1. Some(s) \in S /\ s \ {Some(s)} \in SUBSET S
    BY <1>5 DEF Some
  <2>2. v[Some(s)] <= w[Some(s)] /\ v[Some(s)] \in Int /\ w[Some(s)] \in Int
    BY <2>1
  <2>3. /\ f[s] = v[Some(s)] + f[s \ {Some(s)}]
        /\ g[s] = w[Some(s)] + g[s \ {Some(s)}]
    BY <1>1, <1>2, <1>5 DEF Sums
  <2>4. f[s] <= g[s]
    BY <1>3, <1>5, <2>1, <2>2, <2>3
  <2> QED
    BY <2>4
<1> HIDE DEF G
<1>6. \A s \in SUBSET S : s \in G
  BY <1>4, <1>5, OneByOne
<1> QED
  BY <1>1, <1>2, <1>3, <1>6 DEF G

\* What is added to one is added to the sum.
LEMMA SumOfOne ==
  ASSUME NEW S, IsFiniteSet(S), NEW v \in [S -> Int], NEW w \in [S -> Int], NEW p \in S,
         \A x \in S \ {p} : v[x] = w[x]
  PROVE  /\ SumFunction(v) \in Int /\ SumFunction(w) \in Int
         /\ SumFunction(v) - v[p] = SumFunction(w) - w[p]
<1>1. PICK f : Sums(S, v, f) /\ SumFunction(v) = f[S]
  BY SumIsSum
<1>2. PICK g : Sums(S, w, g) /\ SumFunction(w) = g[S]
  BY SumIsSum
<1> DEFINE G == {s \in SUBSET S : IF p \in s THEN f[s] - v[p] = g[s] - w[p] ELSE f[s] = g[s]}
<1>3. /\ \A s \in SUBSET S : f[s] \in Int /\ g[s] \in Int
      /\ \A x \in S : v[x] \in Int /\ w[x] \in Int
  BY <1>1, <1>2 DEF Sums
<1>4. {} \in G
  BY <1>1, <1>2 DEF Sums
<1>5. ASSUME NEW s \in SUBSET S, s # {}, s \ {Some(s)} \in G  PROVE s \in G
  <2> DEFINE x == Some(s)
             r == s \ {x}
  <2>1. x \in s /\ x \in S /\ r \in SUBSET S
    BY <1>5 DEF Some
  <2>2. f[s] = v[x] + f[r] /\ g[s] = w[x] + g[r]
    BY <1>1, <1>2, <1>5 DEF Sums
  <2>3. IF p \in r THEN f[r] - v[p] = g[r] - w[p] ELSE f[r] = g[r]
    BY <1>5
  <2>4. f[r] \in Int /\ g[r] \in Int /\ v[x] \in Int /\ w[x] \in Int /\ v[p] \in Int /\ w[p] \in Int
    BY <1>3, <2>1
  <2>5. CASE p = x
    <3>1. p \notin r /\ p \in s
      BY <2>1, <2>5
    <3>2. f[r] = g[r]
      BY <2>3, <3>1
    <3> HIDE DEF x, r
    <3>3. f[s] - v[p] = g[s] - w[p]
      BY <2>2, <2>4, <2>5, <3>2
    <3> QED
      BY <3>1, <3>3
  <2>6. CASE p # x
    <3>1. (p \in r <=> p \in s) /\ v[x] = w[x]
      BY <2>1, <2>6
    <3> DEFINE P == p \in s
    <3> HIDE DEF x, r, P
    <3>3. IF P THEN f[r] - v[p] = g[r] - w[p] ELSE f[r] = g[r]
      BY <2>3, <3>1 DEF P
    <3>4. IF P THEN f[s] - v[p] = g[s] - w[p] ELSE f[s] = g[s]
      BY ONLY <2>2, <2>4, <3>1, <3>3
    <3>2. IF p \in s THEN f[s] - v[p] = g[s] - w[p] ELSE f[s] = g[s]
      BY <3>4 DEF P
    <3> QED
      BY <3>2
  <2> QED
    BY <2>5, <2>6
<1> HIDE DEF G
<1>6. \A s \in SUBSET S : s \in G
  BY <1>4, <1>5, OneByOne
<1> QED
  BY <1>1, <1>2, <1>3, <1>6 DEF G

\* A sum of equals is their number times each.
LEMMA SumOfEquals ==
  ASSUME NEW S, IsFiniteSet(S), NEW c \in Int, NEW w \in [S -> Int], \A x \in S : w[x] = c
  PROVE  SumFunction(w) = c * Cardinality(S)
<1>1. PICK f : Sums(S, w, f) /\ SumFunction(w) = f[S]
  BY SumIsSum
<1> DEFINE G == {s \in SUBSET S : f[s] = c * Cardinality(s)}
<1>2. {} \in G
  <2>1. f[{}] = 0
    BY <1>1 DEF Sums
  <2>2. Cardinality({}) = 0
    BY FS_EmptySet
  <2>3. c * 0 = 0
    BY ONLY c \in Int
  <2> QED
    BY <2>1, <2>2, <2>3
<1>3. ASSUME NEW s \in SUBSET S, s # {}, s \ {Some(s)} \in G  PROVE s \in G
  <2> DEFINE r == s \ {Some(s)}
             k == Cardinality(r)
  <2>1. Some(s) \in s /\ IsFiniteSet(s) /\ IsFiniteSet(r)
    BY <1>3, FS_Subset DEF Some
  <2>2. k = Cardinality(s) - 1 /\ Cardinality(s) \in Nat /\ k \in Nat
    BY <2>1, FS_RemoveElement, FS_CardinalityType
  <2>3. f[s] = c + f[r] /\ f[r] = c * k
    BY <1>1, <1>3, <2>1 DEF Sums
  <2> HIDE DEF k, r
  <2>4. Cardinality(s) = k + 1
    BY <2>2
  <2>5. c * (k + 1) = c + c * k
    BY ONLY <2>2, c \in Int
  <2>6. f[s] = c * Cardinality(s)
    BY ONLY <2>3, <2>4, <2>5
  <2> QED
    BY <2>6
<1> HIDE DEF G
<1>4. \A s \in SUBSET S : s \in G
  BY <1>2, <1>3, OneByOne
<1> QED
  BY <1>1, <1>4 DEF G

-----------------------------------------------------------------------------
(* The points                                                              *)

\* A player whose points the table keeps: one who sits, and one who got up from the
\* game that still goes on, and who will find his points again when he sits down.
Counted(h, p) == p \in h.sitting \/ (p \in ToSet(h.all) /\ h.sitter[p].plays)

\* What each player has, when the table's word is good for those it counts: Worth takes
\* the client's for all who do not sit, who can lose what a pool gave them, but no more.
Held(h, t) == [p \in Players |-> IF Counted(h, p) THEN h.sitter[p].score ELSE t[p]]
Total(h, t) == h.pool + SumFunction(Held(h, t))

\* No client claims more than the table knows of, and a pool is paid out once.
Solid(h, t) ==
  /\ \A p \in Players : Counted(h, p) => t[p] <= h.sitter[p].score
  /\ h.state \in PaidOut => h.pool = 0

\* Those who got up were told what they have.
Even(h, t) == \A p \in Players \ h.sitting : Counted(h, p) => t[p] = h.sitter[p].score

\* From table h, where the clients were told t, to g and u, no point is made; and none
\* is lost, if those who got up were told.
NoneMade(g, u, h, t) == Solid(g, u) /\ Total(g, u) <= Total(h, t)
Kept(g, u, h, t) ==
  /\ NoneMade(g, u, h, t)
  /\ Even(h, t) => Even(g, u) /\ Total(g, u) = Total(h, t)

\* What players hold is a number of points, and so is what all of them do.
LEMMA HeldTyped ==
  ASSUME NEW h \in Managers, NEW t \in [Players -> Int]
  PROVE  /\ Held(h, t) \in [Players -> Int] /\ h.pool \in Nat
         /\ SumFunction(Held(h, t)) \in Int /\ Total(h, t) \in Int
<1>1. Held(h, t) \in [Players -> Int] /\ h.pool \in Nat
  BY DEF Held, Managers, Sitters
<1>2. SumFunction(Held(h, t)) \in Int
  BY <1>1, HeekAssumption, SumLess
<1> QED
  BY <1>1, <1>2 DEF Total

\* The same money, though those at the table may have been told their score.
LEMMA MoneyStays ==
  ASSUME NEW h \in Managers, NEW t \in [Players -> Int], Solid(h, t),
         NEW g \in Managers, NEW u \in [Players -> Int],
         SameMoney(g, h), g.state \in PaidOut => h.state \in PaidOut,
         \A p \in Players : u[p] = t[p] \/ (p \in h.sitting /\ u[p] = h.sitter[p].score)
  PROVE  Kept(g, u, h, t)
<1>1. \A p \in Players : Counted(g, p) <=> Counted(h, p)
  BY DEF Counted, SameMoney
<1>2. \A p \in Players : ~Counted(h, p) => u[p] = t[p]
  BY DEF Counted
<1>3. Held(g, u) = Held(h, t)
  BY <1>1, <1>2 DEF Held, SameMoney
<1>4. Total(g, u) = Total(h, t)
  BY <1>3 DEF Total, SameMoney
<1>5. \A p \in Players : h.sitter[p].score \in Int
  BY DEF Managers, Sitters
<1>6. Solid(g, u)
  BY <1>1, <1>5 DEF Solid, SameMoney
<1>7. Even(h, t) => Even(g, u)
  BY <1>1 DEF Even, SameMoney
<1> QED
  BY <1>4, <1>6, <1>7, HeldTyped DEF Kept, NoneMade

\* One at the table gets the pool.
LEMMA PoolIsTaken ==
  ASSUME NEW h \in Managers, NEW t \in [Players -> Int], Solid(h, t),
         NEW g \in Managers, NEW p \in Players, p \in h.sitting, TakesPool(g, h, p)
  PROVE  Kept(g, t, h, t)
<1>1. \A q \in Players : Counted(g, q) <=> Counted(h, q)
  BY DEF Counted, TakesPool
<1>2. Counted(h, p) /\ Counted(g, p)
  BY DEF Counted, TakesPool
<1> DEFINE v == Held(h, t)
           w == Held(g, t)
<1>3. v \in [Players -> Int] /\ w \in [Players -> Int] /\ h.pool \in Nat
  BY HeldTyped
<1>4. \A q \in Players \ {p} : v[q] = w[q]
  BY <1>1 DEF Held, TakesPool
<1>5. v[p] = h.sitter[p].score /\ w[p] = h.sitter[p].score + h.pool /\ h.sitter[p].score \in Int
  BY <1>2 DEF Held, TakesPool, Managers, Sitters
<1>6. Total(h, t) = h.pool + SumFunction(v) /\ Total(g, t) = 0 + SumFunction(w)
  BY DEF Total, TakesPool
<1>7. \A q \in Players : h.sitter[q].score \in Int
  BY DEF Managers, Sitters
<1>8. Solid(g, t)
  BY <1>1, <1>3, <1>7 DEF Solid, TakesPool
<1>9. Even(h, t) => Even(g, t)
  BY <1>1 DEF Even, TakesPool
<1> HIDE DEF v, w
<1>10. /\ SumFunction(v) \in Int /\ SumFunction(w) \in Int
       /\ SumFunction(v) - v[p] = SumFunction(w) - w[p]
  BY <1>3, <1>4, HeekAssumption, SumOfOne
<1>11. Total(g, t) = Total(h, t)
  BY <1>3, <1>5, <1>6, <1>10
<1> QED
  BY <1>8, <1>9, <1>11, HeldTyped DEF Kept, NoneMade

\* A new game counts only those who sit: who got up from the last one has what he was
\* told.
LEMMA GameBegins ==
  ASSUME NEW h \in Managers, NEW t \in [Players -> Int], Solid(h, t),
         NEW g \in Managers, Begun(g, h)
  PROVE  Kept(g, t, h, t)
<1>1. CASE h.state = "IDLE"
  <2>1. /\ h.pool = 0 /\ g.pool = 0 /\ g.sitting = h.sitting /\ g.state = "COUNTDOWN"
        /\ \A p \in Players : Counted(g, p) <=> p \in h.sitting
    BY <1>1 DEF Solid, Begun, Counted, PaidOut
  <2>2. /\ \A p \in h.sitting : Counted(h, p)
        /\ \A p \in Players : g.sitter[p].score = h.sitter[p].score /\ h.sitter[p].score \in Int
    BY DEF Counted, Begun, Managers, Sitters
  <2> DEFINE v == Held(g, t)
             w == Held(h, t)
  <2>3. v \in [Players -> Int] /\ w \in [Players -> Int]
    BY HeldTyped
  <2>4. \A p \in Players : v[p] <= w[p]
    BY <2>1, <2>2 DEF Held, Solid
  <2>5. Even(h, t) => \A p \in Players : v[p] = w[p]
    BY <2>1, <2>2 DEF Held, Even
  <2>6. Total(g, t) = 0 + SumFunction(v) /\ Total(h, t) = 0 + SumFunction(w)
    BY <2>1 DEF Total
  <2>7. Solid(g, t) /\ Even(g, t)
    BY <2>1, <2>2 DEF Solid, Even, PaidOut
  <2> HIDE DEF v, w
  <2>8. SumFunction(v) <= SumFunction(w) /\ SumFunction(v) \in Int /\ SumFunction(w) \in Int
    BY <2>3, <2>4, HeekAssumption, SumLess
  <2>9. Even(h, t) => v = w
    BY <2>3, <2>5
  <2> QED
    BY <2>6, <2>7, <2>8, <2>9 DEF Kept, NoneMade
<1>2. CASE h.state # "IDLE"
  BY <1>2, MoneyStays DEF Begun, SameMoney, PaidOut
<1> QED
  BY <1>1, <1>2

\* The first choice in a game costs a point, and the client is told.
LEMMA PointIsPaid ==
  ASSUME NEW h \in Managers, NEW t \in [Players -> Int], Solid(h, t),
         NEW g \in Managers, NEW p \in Players, p \in h.sitting, PaysAPoint(g, h, p), NEW u,
         u = IF h.sitter[p].plays THEN t ELSE [t EXCEPT ![p] = g.sitter[p].score]
  PROVE  u \in [Players -> Int] /\ Kept(g, u, h, t)
<1>1. CASE h.sitter[p].plays
  <2>1. u = t /\ SameMoney(g, h) /\ g.state \notin PaidOut
    <3>1. g.sitter[p].plays \in BOOLEAN /\ h.sitter[p].plays \in BOOLEAN
      BY DEF Managers, Sitters
    <3> QED
      BY <1>1, <3>1 DEF PaysAPoint, SameMoney
  <2> QED
    BY <2>1, MoneyStays
<1>2. CASE ~h.sitter[p].plays
  <2>1. /\ g.sitting = h.sitting /\ g.pool = h.pool + 1 /\ g.state \notin PaidOut
        /\ g.sitter[p].score = h.sitter[p].score - 1
        /\ \A q \in Players \ {p} : g.sitter[q].score = h.sitter[q].score
    BY <1>2 DEF PaysAPoint
  <2>2. \A q \in Players : Counted(g, q) <=> Counted(h, q)
    BY DEF Counted, PaysAPoint
  <2>3. \A q \in Players : g.sitter[q].score \in Int /\ h.sitter[q].score \in Int
    BY DEF Managers, Sitters
  <2>4. /\ u \in [Players -> Int] /\ u[p] = g.sitter[p].score
        /\ \A q \in Players \ {p} : u[q] = t[q]
    BY <1>2, <2>3
  <2> DEFINE v == Held(h, t)
             w == Held(g, u)
  <2>5. v \in [Players -> Int] /\ w \in [Players -> Int] /\ h.pool \in Nat
    BY <2>4, HeldTyped
  <2>6. \A q \in Players \ {p} : v[q] = w[q]
    BY <2>1, <2>2, <2>4 DEF Held
  <2>7. v[p] = h.sitter[p].score /\ w[p] = h.sitter[p].score - 1
    BY <2>1, <2>2 DEF Held, Counted
  <2>8. Total(h, t) = h.pool + SumFunction(v) /\ Total(g, u) = h.pool + 1 + SumFunction(w)
    BY <2>1 DEF Total
  <2>9. Solid(g, u)
    BY <2>1, <2>2, <2>3, <2>4 DEF Solid
  <2>10. Even(h, t) => Even(g, u)
    BY <2>1, <2>2, <2>4 DEF Even
  <2> HIDE DEF v, w
  <2>11. /\ SumFunction(v) \in Int /\ SumFunction(w) \in Int
         /\ SumFunction(v) - v[p] = SumFunction(w) - w[p]
    BY <2>5, <2>6, HeekAssumption, SumOfOne
  <2>12. Total(g, u) = Total(h, t)
    <3> DEFINE x == h.sitter[p].score
               y == w[p]
               n == h.pool
               a == SumFunction(v)
               b == SumFunction(w)
    <3>1. /\ x \in Int /\ y = x - 1 /\ n \in Nat /\ a \in Int /\ b \in Int /\ a - x = b - y
          /\ Total(h, t) = n + a /\ Total(g, u) = n + 1 + b
      BY <2>3, <2>5, <2>7, <2>8, <2>11
    <3> HIDE DEF x, y, n, a, b
    <3> QED
      BY ONLY <3>1
  <2> QED
    BY <2>4, <2>9, <2>10, <2>12, HeldTyped DEF Kept, NoneMade
<1> QED
  BY <1>1, <1>2

\* A player sits down with what he is known to have, or what his client claims.
LEMMA PointsSitDown ==
  ASSUME heek \in Managers, told \in [Players -> Int], Solid(heek, told),
         NEW g \in Managers, NEW p \in Players, SatDown(g, heek, p),
         g.sitter[p].score = Place(p).score, ToSet(g.all) = ToSet(heek.all) \cup {p},
         IF p \in ToSet(heek.all) /\ heek.sitter[p].plays
         THEN Place(p).score = heek.sitter[p].score ELSE Place(p).score = told[p]
  PROVE  Kept(g, told, heek, told)
<1>1. \A q \in Players \ {p} : Counted(g, q) <=> Counted(heek, q)
  BY DEF Counted, SatDown
<1>2. Counted(g, p) /\ g.sitter[p].score = IF Counted(heek, p) THEN heek.sitter[p].score ELSE told[p]
  BY DEF Counted, SatDown
<1>3. \A q \in Players \ {p} : g.sitter[q].score = heek.sitter[q].score
  BY DEF SatDown
<1>4. Held(g, told) = Held(heek, told)
  BY <1>1, <1>2, <1>3 DEF Held
<1>5. Total(g, told) = Total(heek, told)
  BY <1>4 DEF Total, SatDown
<1>6. Solid(g, told)
  <2>1. told[p] \in Int
    OBVIOUS
  <2>2. told[p] <= g.sitter[p].score
    BY <1>2, <2>1 DEF Solid
  <2> QED
    BY <1>1, <1>3, <2>2 DEF Solid, SatDown
<1>7. Even(heek, told) => Even(g, told)
  BY <1>1, <1>3 DEF Even, SatDown
<1> QED
  BY <1>5, <1>6, <1>7, HeldTyped DEF Kept, NoneMade

\* A player gets up and is told what he has; if he is the last, with the pool.
LEMMA PointsGetUp ==
  ASSUME NEW h \in Managers, NEW t \in [Players -> Int], Solid(h, t),
         NEW g \in Managers, NEW p \in Players, p \in h.sitting, Departed(g, h, p),
         NEW x \in Int, x = h.sitter[p].score + (IF h.sitting = {p} THEN h.pool ELSE 0),
         NEW u, u = [t EXCEPT ![p] = x]
  PROVE  Kept(g, u, h, t)
<1>1. u \in [Players -> Int] /\ u[p] = x /\ \A q \in Players \ {p} : u[q] = t[q]
  OBVIOUS
<1>2. \A q \in Players : g.sitter[q].score \in Int /\ h.sitter[q].score \in Int
  BY DEF Managers, Sitters
<1>3. CASE h.sitting # {p}
  <2>1. /\ x = h.sitter[p].score /\ g.pool = h.pool /\ g.state = h.state
        /\ g.sitting = h.sitting \ {p} /\ g.all = h.all
        /\ \A q \in Players : q \in g.sitting \cup ToSet(g.all) =>
             g.sitter[q].score = h.sitter[q].score /\ g.sitter[q].plays = h.sitter[q].plays
    BY <1>2, <1>3 DEF Departed
  <2>2. \A q \in Players \ {p} : Counted(g, q) <=> Counted(h, q)
    BY <2>1 DEF Counted
  <2>3. /\ Counted(h, p)
        /\ \A q \in Players : Counted(g, q) => g.sitter[q].score = h.sitter[q].score
    BY <2>1 DEF Counted
  <2>4. Held(g, u) = Held(h, t)
    <3>1. \A q \in Players : Held(g, u)[q] = Held(h, t)[q]
      BY <1>1, <2>1, <2>2, <2>3 DEF Held
    <3> QED
      BY <3>1 DEF Held
  <2>5. Total(g, u) = Total(h, t)
    BY <2>1, <2>4 DEF Total
  <2>6. Solid(g, u)
    BY <1>1, <1>2, <2>1, <2>2, <2>3 DEF Solid
  <2>7. Even(h, t) => Even(g, u)
    BY <1>1, <2>1, <2>2, <2>3 DEF Even
  <2> QED
    BY <1>1, <2>5, <2>6, <2>7, HeldTyped DEF Kept, NoneMade
<1>4. CASE h.sitting = {p}
  <2>1. /\ g.pool = 0 /\ x = h.sitter[p].score + h.pool
        /\ \A q \in Players : ~Counted(g, q)
    BY <1>4 DEF Departed, Counted
  <2>2. Solid(g, u) /\ Even(g, u)
    BY <2>1 DEF Solid, Even
  <2> DEFINE v == Held(h, t)
             w == [v EXCEPT ![p] = x]
  <2>3. v \in [Players -> Int] /\ h.pool \in Nat /\ v[p] = h.sitter[p].score
    BY HeldTyped DEF Held, Counted
  <2>4. Held(g, u) = u
    BY <1>1, <2>1 DEF Held
  <2>5. \A q \in Players : t[q] <= v[q] /\ (Even(h, t) /\ q # p => t[q] = v[q])
    BY <1>2, <1>4 DEF Held, Solid, Even
  <2>6. Total(g, u) = 0 + SumFunction(u) /\ Total(h, t) = h.pool + SumFunction(v)
    BY <2>1, <2>4 DEF Total
  <2> HIDE DEF v
  <2>7. w \in [Players -> Int] /\ w[p] = x /\ \A q \in Players \ {p} : v[q] = w[q]
    BY <2>3
  <2> HIDE DEF w
  <2>8. /\ SumFunction(v) \in Int /\ SumFunction(w) \in Int
        /\ SumFunction(v) - v[p] = SumFunction(w) - w[p]
    BY ONLY <2>3, <2>7, p \in Players, HeekAssumption, SumOfOne
  <2>9. \A q \in Players : u[q] <= w[q] /\ (Even(h, t) => u[q] = w[q])
    BY <1>1, <2>5, <2>7
  <2>10. SumFunction(u) <= SumFunction(w) /\ SumFunction(u) \in Int
    BY <1>1, <2>7, <2>9, HeekAssumption, SumLess
  <2>11. Even(h, t) => u = w
    BY <1>1, <2>7, <2>9
  <2>12. Total(h, t) = SumFunction(w)
    <3> DEFINE y == h.sitter[p].score
               n == h.pool
               a == SumFunction(v)
               b == SumFunction(w)
    <3>1. /\ y \in Int /\ n \in Nat /\ a \in Int /\ b \in Int /\ a - y = b - (y + n)
          /\ Total(h, t) = n + a
      BY <1>2, <2>1, <2>3, <2>6, <2>7, <2>8
    <3> HIDE DEF y, n, a, b
    <3>2. Total(h, t) = b
      BY ONLY <3>1
    <3> QED
      BY <3>2 DEF b
  <2>13. Total(g, u) = SumFunction(u)
    BY <2>6, <2>10
  <2>14. Total(g, u) <= Total(h, t)
    BY <2>10, <2>12, <2>13
  <2>15. Even(h, t) => Total(g, u) = Total(h, t)
    BY <2>11, <2>12, <2>13
  <2> QED
    BY <2>2, <2>14, <2>15 DEF Kept, NoneMade
<1> QED
  BY <1>3, <1>4

\* The table forgets what players had, who keep what they were told.
LEMMA PointsForgotten ==
  ASSUME NEW h \in Managers, NEW t \in [Players -> Int], Solid(h, t), NEW g \in Managers,
         \/ \E p \in h.sitting : Departed(g, h, p)
         \/ Fewer(g, h)
  PROVE  NoneMade(g, t, h, t)
<1>1. \A q \in Players : h.sitter[q].score \in Int /\ t[q] \in Int
  BY DEF Managers, Sitters
<1>2. /\ \A q \in Players : Counted(g, q) => Counted(h, q) /\ g.sitter[q].score = h.sitter[q].score
      /\ g.pool = h.pool \/ g.pool = 0
      /\ g.state \in PaidOut => g.pool = 0 \/ (h.state \in PaidOut /\ g.pool = h.pool)
  <2>1. ASSUME NEW p \in h.sitting, Departed(g, h, p), h.sitting = {p}
        PROVE  g.pool = 0 /\ \A q \in Players : ~Counted(g, q)
    BY <2>1 DEF Departed, Counted
  <2>2. ASSUME NEW p \in h.sitting, Departed(g, h, p), h.sitting # {p}
        PROVE  /\ \A q \in Players : Counted(g, q) => Counted(h, q) /\ g.sitter[q].score = h.sitter[q].score
               /\ g.pool = h.pool /\ g.state = h.state
    <3>1. /\ g.pool = h.pool /\ g.state = h.state
          /\ g.sitting = h.sitting \ {p} /\ g.all = h.all
          /\ \A q \in Players : q \in g.sitting \cup ToSet(g.all) =>
               g.sitter[q].score = h.sitter[q].score /\ g.sitter[q].plays = h.sitter[q].plays
      BY <2>2 DEF Departed
    <3> QED
      BY <3>1 DEF Counted
  <2>3. ASSUME Fewer(g, h)
        PROVE  /\ \A q \in Players : Counted(g, q) => Counted(h, q) /\ g.sitter[q].score = h.sitter[q].score
               /\ g.pool = h.pool /\ g.state = h.state
    BY <2>3 DEF Fewer, Counted
  <2> QED
    BY <2>1, <2>2, <2>3
<1>3. Solid(g, t)
  BY <1>1, <1>2 DEF Solid
<1> DEFINE v == Held(g, t)
           w == Held(h, t)
<1>4. /\ v \in [Players -> Int] /\ w \in [Players -> Int] /\ h.pool \in Nat /\ g.pool \in Nat
      /\ Total(g, t) = g.pool + SumFunction(v) /\ Total(h, t) = h.pool + SumFunction(w)
  BY HeldTyped DEF Total
<1>5. \A q \in Players : v[q] <= w[q]
  BY <1>1, <1>2 DEF Held, Solid
<1> HIDE DEF v, w
<1>6. SumFunction(v) <= SumFunction(w) /\ SumFunction(v) \in Int /\ SumFunction(w) \in Int
  BY <1>4, <1>5, HeekAssumption, SumLess
<1>7. Total(g, t) <= Total(h, t)
  BY <1>2, <1>4, <1>6
<1> QED
  BY <1>3, <1>7 DEF NoneMade

\* Two steps that keep the points are one that does.
LEMMA KeptOn ==
  ASSUME NEW h \in Managers, NEW t \in [Players -> Int], NEW g \in Managers,
         NEW u \in [Players -> Int], NEW k \in Managers, NEW v \in [Players -> Int],
         NoneMade(g, u, h, t), NoneMade(k, v, g, u)
  PROVE  /\ NoneMade(k, v, h, t)
         /\ Kept(g, u, h, t) /\ Kept(k, v, g, u) => Kept(k, v, h, t)
<1>1. Total(h, t) \in Int /\ Total(g, u) \in Int /\ Total(k, v) \in Int
  BY HeldTyped
<1> QED
  BY <1>1 DEF Kept, NoneMade

\* What the clock and the owner's client do to the money.
LEMMA TurnKeeps ==
  ASSUME CountInv, Solid(heek, told), heek' \in Managers, told' \in [Players -> Int],
         Turned(heek', heek), TellWinner(heek, heek')
  PROVE  Kept(heek', told', heek, told)
<1>1. heek \in Managers /\ told \in [Players -> Int]
  BY DEF CountInv
<1>2. \A p \in Players : told'[p] = told[p] \/ (p \in heek.sitting /\ told'[p] = heek.sitter[p].score)
  BY DEF TellWinner, Played
<1>3. CASE SameMoney(heek', heek) /\ (heek'.state \in PaidOut => heek.state \in PaidOut)
  BY <1>1, <1>2, <1>3, MoneyStays
<1>4. CASE heek.state # "WINNER" /\ \E p \in heek.sitting : TakesPool(heek', heek, p)
  <2>1. told' = told
    <3>1. \A p \in Players : told'[p] = told[p]
      BY <1>4 DEF TellWinner
    <3> QED
      BY <1>1, <3>1
  <2>2. PICK p \in heek.sitting : TakesPool(heek', heek, p)
    BY <1>4
  <2>3. p \in Players
    BY <1>1 DEF Managers
  <2> QED
    BY <1>1, <2>1, <2>2, <2>3, PoolIsTaken
<1> QED
  BY <1>3, <1>4 DEF Turned

\* Nothing that happens at the table makes a point or loses one.
LEMMA TableKeeps ==
  ASSUME CountInv, Solid(heek, told), TableMoves
  PROVE  Kept(heek', told', heek, told)
<1>1. heek \in Managers /\ Right(heek) /\ Timely(heek) /\ told \in [Players -> Int]
  BY DEF CountInv
<1>2. ASSUME NEW p \in Players, PlayGame(p)  PROVE Kept(heek', told', heek, told)
  <2>1. p \notin heek.sitting
    BY <1>2 DEF PlayGame
  <2>2. /\ heek' \in Managers /\ SatDown(heek', heek, p)
        /\ heek'.sitter[p] = Place(p) /\ told' = told
        /\ ToSet(heek'.all) = ToSet(heek.all) \cup {p}
    BY <1>1, <1>2, PlayGameIs
  <2>3. IF p \in ToSet(heek.all) /\ heek.sitter[p].plays
        THEN Place(p).score = heek.sitter[p].score ELSE Place(p).score = told[p]
    BY <1>1, <2>1, PlaceIs
  <2> QED
    BY <1>1, <2>2, <2>3, PointsSitDown
<1>3. ASSUME NEW p \in Players, LeaveTable(p)  PROVE Kept(heek', told', heek, told)
  <2> DEFINE score == heek.sitter[p].score + (IF heek.sitting = {p} THEN heek.pool ELSE 0)
  <2>0. score = heek.sitter[p].score + (IF heek.sitting = {p} THEN heek.pool ELSE 0)
    OBVIOUS
  <2> HIDE DEF score
  <2>1. /\ heek' \in Managers /\ p \in heek.sitting /\ Departed(heek', heek, p)
        /\ score \in Int /\ told' = [told EXCEPT ![p] = score]
    BY <1>1, <1>3, <2>0, LeaveTableIs
  <2> QED
    BY <1>1, <2>0, <2>1, PointsGetUp
<1>4. ASSUME NEW p \in Players, LateChoice(p)  PROVE Kept(heek', told', heek, told)
  <2>1. heek' \in Managers /\ Begun(heek', heek) /\ told' = told
    BY <1>1, <1>4, BeganIs DEF LateChoice
  <2> QED
    BY <1>1, <2>1, GameBegins
<1>5. ASSUME NEW p \in Players, NEW c \in Hands, Choose(p, c)
      PROVE  Kept(heek', told', heek, told)
  <2>1. PICK h \in Managers :
           /\ Begun(h, heek) /\ PaysAPoint(heek', h, p) /\ p \in heek.sitting /\ heek' \in Managers
           /\ told' = IF h.sitter[p].plays THEN told
                      ELSE [told EXCEPT ![p] = heek'.sitter[p].score]
    BY <1>5, ChooseIs
  <2>2. Kept(h, told, heek, told) /\ p \in h.sitting
    BY <1>1, <2>1, GameBegins DEF Begun
  <2>3. Solid(h, told)
    BY <2>2 DEF Kept, NoneMade
  <2>4. told' \in [Players -> Int] /\ Kept(heek', told', h, told)
    BY <1>1, <2>1, <2>2, <2>3, PointIsPaid
  <2> QED
    BY <1>1, <2>1, <2>2, <2>4, KeptOn DEF Kept
<1>6. ASSUME NEW p, NEW seq, SeqFinished(p, seq)  PROVE Kept(heek', told', heek, told)
  BY <1>1, <1>6, SeqTurns, ToldTyped, TurnKeeps
<1>7. CASE HeekTimer
  BY <1>1, <1>7, TimerTurns, ToldTyped, TurnKeeps
<1> QED
  BY <1>2, <1>3, <1>4, <1>5, <1>6, <1>7 DEF TableMoves

\* Nobody has left the age yet.
NeverLeft == (\A p \in Players : visits[p] = 1 => p \in here) /\ (\A p \in Players : visits[p] <= 1)

\* Who is in the age has come to it.
Visited ==
  /\ visits \in [Players -> Nat] /\ here \subseteq Players
  /\ \A p \in here : visits[p] >= 1

\* The invariant that carries PointsAreConserved, next to that of the counts.
Brought == Stakes * Cardinality(Players)
PointInv ==
  /\ Visited /\ Solid(heek, told) /\ Total(heek, told) <= Brought
  /\ NeverLeft => Even(heek, told) /\ Total(heek, told) = Brought

\* All have what they brought.
LEMMA PointInit ==
  ASSUME Init
  PROVE  PointInv
<1>1. /\ visits = [p \in Players |-> 0] /\ here = {}
      /\ told = [p \in Players |-> Stakes] /\ Stakes \in Int
      /\ heek.pool = 0 /\ heek.sitting = {} /\ heek.all = <<>>
  BY HeekAssumption DEF Init, MgrInit, HeekInit
<1>2. heek \in Managers /\ told \in [Players -> Int]
  BY CountInit DEF CountInv
<1>3. \A p \in Players : ~Counted(heek, p)
  BY <1>1 DEF Counted, ToSet
<1>4. Held(heek, told) = told /\ \A p \in Players : told[p] = Stakes
  BY <1>1, <1>3 DEF Held
<1>5. SumFunction(told) = Brought
  BY <1>1, <1>2, <1>4, HeekAssumption, SumOfEquals DEF Brought
<1>6. SumFunction(told) \in Int
  BY <1>2, <1>4, HeldTyped
<1>7. Total(heek, told) = Brought /\ Brought \in Int
  BY <1>1, <1>4, <1>5, <1>6 DEF Total
<1>8. Solid(heek, told) /\ Even(heek, told)
  BY <1>1, <1>3 DEF Solid, Even
<1>9. Visited
  BY <1>1 DEF Visited
<1> QED
  BY <1>7, <1>8, <1>9 DEF PointInv

\* Who comes to the age and who leaves it.
LEMMA ComesAndGoes ==
  ASSUME Visited
  PROVE  /\ UNCHANGED <<here, visits>> => Visited' /\ (NeverLeft' => NeverLeft)
         /\ \A p \in Players : Arrive(p) => Visited' /\ (NeverLeft' => NeverLeft)
         /\ \A p \in Players : Leave(p) => Visited' /\ ~NeverLeft'
<1>1. UNCHANGED <<here, visits>> => Visited' /\ (NeverLeft' => NeverLeft)
  BY DEF Visited, NeverLeft
<1>2. ASSUME NEW p \in Players, Arrive(p)  PROVE Visited' /\ (NeverLeft' => NeverLeft)
  <2>1. /\ p \notin here /\ here' = here \cup {p} /\ visits[p] \in Nat
        /\ visits' = [visits EXCEPT ![p] = visits[p] + 1]
    BY <1>2 DEF Arrive, Visited
  <2>2. /\ visits' \in [Players -> Nat] /\ visits'[p] = visits[p] + 1
        /\ \A q \in Players \ {p} : visits'[q] = visits[q]
    BY <2>1 DEF Visited
  <2>3. Visited'
    BY <2>1, <2>2 DEF Visited
  <2>4. NeverLeft' => visits[p] = 0
    BY <2>1, <2>2 DEF NeverLeft
  <2>5. NeverLeft' => NeverLeft
    BY <2>1, <2>2, <2>4 DEF NeverLeft
  <2> QED
    BY <2>3, <2>5
<1>3. ASSUME NEW p \in Players, Leave(p)  PROVE Visited' /\ ~NeverLeft'
  <2>1. p \in here /\ here' = here \ {p} /\ visits' = visits /\ visits[p] \in Nat /\ visits[p] >= 1
    BY <1>3 DEF Leave, Visited
  <2>2. Visited'
    BY <2>1 DEF Visited
  <2>3. ~NeverLeft'
    BY <2>1 DEF NeverLeft
  <2> QED
    BY <2>2, <2>3
<1> QED
  BY <1>1, <1>2, <1>3

\* Each step keeps the points.
LEMMA PointStep ==
  ASSUME CountInv, PointInv, Next
  PROVE  PointInv'
<1>1. /\ heek \in Managers /\ Right(heek) /\ Timely(heek) /\ told \in [Players -> Int]
      /\ heek' \in Managers /\ told' \in [Players -> Int]
  BY CountStep DEF CountInv
<1>2. /\ Visited /\ Solid(heek, told) /\ Total(heek, told) <= Brought
      /\ NeverLeft => Even(heek, told) /\ Total(heek, told) = Brought
  BY DEF PointInv
<1>3. Brought \in Int /\ Total(heek, told) \in Int /\ Total(heek', told') \in Int
  <2>1. Brought \in Int
    BY HeekAssumption, FS_CardinalityType DEF Brought
  <2> QED
    BY <1>1, <2>1, HeldTyped
<1>4. Brought' = Brought /\ Total(heek, told)' = Total(heek', told')
      /\ (Solid(heek, told)' <=> Solid(heek', told')) /\ (Even(heek, told)' <=> Even(heek', told'))
  BY DEF Brought, Total, Held, Counted, Solid, Even
<1>5. ASSUME Visited', NoneMade(heek', told', heek, told), ~NeverLeft'  PROVE PointInv'
  BY <1>2, <1>3, <1>4, <1>5 DEF PointInv, NoneMade
<1>6. ASSUME Visited', Kept(heek', told', heek, told), NeverLeft' => NeverLeft  PROVE PointInv'
  BY <1>2, <1>3, <1>4, <1>6 DEF PointInv, NoneMade, Kept
<1>7. ASSUME UNCHANGED <<heek, told>>  PROVE Kept(heek', told', heek, told)
  BY <1>1, <1>2, <1>7, MoneyStays DEF SameMoney
<1>8. CASE UNCHANGED <<heek, told, here, visits>>
  BY <1>2, <1>6, <1>7, <1>8, ComesAndGoes
<1>9. CASE UNCHANGED <<here, visits>> /\ TableMoves
  BY <1>2, <1>6, <1>9, ComesAndGoes, TableKeeps
<1>10. CASE UNCHANGED <<here, visits>> /\ \E ps : HeekInitialized(ps)
  <2>1. SameTable(heek', heek) /\ heek'.state = heek.state /\ told' = told
    BY <1>10, InitializedIs
  <2>2. Kept(heek', told', heek, told)
    BY <1>1, <1>2, <2>1, MoneyStays DEF SameMoney, SameTable
  <2> QED
    BY <1>2, <1>6, <1>10, <2>2, ComesAndGoes
<1>11. ASSUME NEW p \in Players, Arrive(p), UNCHANGED <<heek, told>>  PROVE PointInv'
  BY <1>2, <1>6, <1>7, <1>11, ComesAndGoes
<1>12. ASSUME NEW p \in Players, Leave(p), HeekLeft(p) \/ UNCHANGED <<heek, told>>  PROVE PointInv'
  <2>1. CASE UNCHANGED <<heek, told>>
    BY <1>2, <1>5, <1>7, <1>12, <2>1, ComesAndGoes DEF Kept
  <2>2. CASE heek' # heek /\ HeekLeft(p)
    <3>1. PICK h \in Managers : /\ h = heek \/ (p \in heek.sitting /\ Departed(h, heek, p))
                                /\ Fewer(heek', h)
      BY <1>1, <2>2, HeekLeftIs
    <3>2. NoneMade(h, told, heek, told)
      <4>1. CASE h = heek
        BY <1>2, <1>3, <4>1 DEF NoneMade
      <4>2. CASE p \in heek.sitting /\ Departed(h, heek, p)
        BY <1>1, <1>2, <4>2, PointsForgotten
      <4> QED
        BY <3>1, <4>1, <4>2
    <3>3. told' = told
      BY <1>1, <2>2, HeekLeftIs
    <3>4. NoneMade(heek', told', h, told)
      BY <1>1, <3>1, <3>2, <3>3, PointsForgotten DEF NoneMade
    <3>5. NoneMade(heek', told', heek, told)
      BY <1>1, <3>2, <3>4, KeptOn
    <3> QED
      BY <1>2, <1>5, <1>12, <3>5, ComesAndGoes
  <2>3. HeekLeft(p) => told' = told
    BY DEF HeekLeft
  <2> QED
    BY <1>12, <2>1, <2>2, <2>3
<1> QED
  BY <1>8, <1>9, <1>10, <1>11, <1>12, Steps

\* What the points are worth is never more than what is held.
LEMMA PointsAreHeld ==
  ASSUME CountInv, PointInv
  PROVE  PointsAreConserved
<1>1. heek \in Managers /\ told \in [Players -> Int] /\ Solid(heek, told)
  BY DEF CountInv, PointInv
<1> DEFINE v == Held(heek, told)
<1>2. /\ v \in [Players -> Int] /\ heek.pool \in Nat /\ Total(heek, told) = heek.pool + SumFunction(v)
      /\ Total(heek, told) \in Int
  BY <1>1, HeldTyped DEF Total
<1>3. \A p \in Players : heek.sitter[p].score \in Int /\ told[p] \in Int
  BY <1>1 DEF Managers, Sitters
<1>4. Worth \in [Players -> Int]
  BY <1>3 DEF Worth
<1>5. \A p \in Players : Worth[p] <= v[p]
  BY <1>1, <1>3 DEF Worth, Held, Counted, Solid
<1>6. Even(heek, told) => \A p \in Players : Worth[p] = v[p]
  BY <1>1, <1>3 DEF Worth, Held, Counted, Even
<1> HIDE DEF v
<1>7. /\ SumFunction(Worth) <= SumFunction(v) /\ SumFunction(Worth) \in Int
      /\ SumFunction(v) \in Int
  BY <1>2, <1>4, <1>5, HeekAssumption, SumLess
<1>8. Even(heek, told) => Worth = v
  BY <1>2, <1>4, <1>6
<1>9. Points <= Total(heek, told)
  BY <1>2, <1>7 DEF Points
<1>10. Even(heek, told) => Points = Total(heek, told)
  BY <1>2, <1>8 DEF Points
<1>11. Points \in Int
  BY <1>2, <1>7 DEF Points
<1>12. Brought \in Int
  BY HeekAssumption, FS_CardinalityType DEF Brought
<1>13. Points <= Brought
  BY <1>2, <1>9, <1>11, <1>12 DEF PointInv
<1>14. NeverLeft => Points = Brought
  BY <1>10 DEF PointInv
<1> QED
  BY <1>13, <1>14 DEF PointsAreConserved, Brought, NeverLeft

\* No point is made from nothing, whatever players claim when they sit down, get up or
\* come back; and none is lost before somebody leaves the age.
THEOREM HeekPointsAreConserved == Spec => []PointsAreConserved
<1>1. Init => PointInv
  BY PointInit
<1>2. CountInv /\ PointInv /\ [Next]_vars_ => PointInv'
  <2>1. PointInv /\ UNCHANGED vars_ => PointInv'
    BY DEF PointInv, Visited, NeverLeft, Solid, Even, Total, Held, Counted, Brought,
           vars_, heekVars, mgrVars
  <2> QED
    BY <2>1, PointStep
<1>3. CountInv /\ PointInv => PointsAreConserved
  BY PointsAreHeld
<1> QED
  BY <1>1, <1>2, <1>3, TableIsCounted, PTL DEF Spec

-----------------------------------------------------------------------------
(* What the client of a marker game will be told                           *)

\* What the client of manager n was told, and how far the game is open.
Shown(n) ==
  [state |-> IF mark[n].state = "PLAYING" THEN "READY" ELSE mark[n].state,
   local |-> mark[n].local, title |-> mark[n].name, name |-> view[n].name,
   markers |-> view[n].markers, captured |-> view[n].captured]

\* What a change that is answered makes of it.
Changed(s, m) ==
  [s EXCEPT
     !.state = IF m.op = "deletegame" /\ m.num = 1 THEN "DEAD" ELSE @,
     !.name = IF m.op = "renamegame" THEN m.name ELSE @,
     !.markers = CASE m.op \in {"add", "rename"} -> Put(@, m.num, m.name)
                   [] m.op = "delete" -> Drop(@, m.num)
                   [] OTHER -> @,
     !.captured = CASE m.op = "delete" -> @ \ {m.num}
                    [] m.op = "capture" -> @ \cup {m.num}
                    [] OTHER -> @]

\* What an answer m makes of it, for the manager with this ID, of a new game or not.
Heard(id, new, s, m) ==
  IF m.op = "nextid" THEN s
  ELSE IF m.id # id THEN s
  ELSE CASE m.op = "newgame" ->
              IF s.state # "START" THEN s
              ELSE IF ~m.exists THEN [s EXCEPT !.state = "DEAD"]
              ELSE [s EXCEPT !.state = IF new THEN "READY" ELSE "LIST_WAIT", !.local = m.local,
                             !.title = m.name, !.name = IF new THEN m.name ELSE @]
         [] m.op = "dump" ->
              IF s.state # "LIST_WAIT" THEN s
              ELSE [s EXCEPT !.state = "READY", !.markers = Over(m.markers, @), !.name = s.title]
         [] m.op = "state" ->
              IF s.state # "READY" THEN s ELSE [s EXCEPT !.captured = @ \cup m.captured]
         [] OTHER ->
              IF s.state \notin {"LIST_WAIT", "READY"} \/ (m.op = "capture" /\ s.state # "READY")
              THEN s ELSE Changed(s, m)

\* e is what the answers q make of s, one after another.
Trace(q, id, new, f) == \A i \in 1..Len(q) : f[i] = Heard(id, new, f[i - 1], q[i])
Ends(q, id, new, s, e) == \E f : f[0] = s /\ Trace(q, id, new, f) /\ f[Len(q)] = e

IsShown(s) ==
  s = [state |-> s.state, local |-> s.local, title |-> s.title, name |-> s.name,
       markers |-> s.markers, captured |-> s.captured]

\* The places of a queue that is read.
LEMMA QueueRead ==
  ASSUME NEW q, IsQueue(q), q # <<>>
  PROVE  /\ IsQueue(Tail(q)) /\ Len(q) \in Nat /\ Len(q) > 0 /\ Len(Tail(q)) = Len(q) - 1
         /\ DOMAIN q = 1..Len(q) /\ DOMAIN Tail(q) = 1..(Len(q) - 1) /\ Head(q) = q[1]
         /\ \A i \in 1..(Len(q) - 1) : Tail(q)[i] = q[i + 1]
<1>1. PICK S : q \in Seq(S)
  BY DEF IsQueue
<1> QED
  BY <1>1, HeadTailProperties DEF IsQueue

\* The places of a queue that is sent to.
LEMMA QueueSent ==
  ASSUME NEW q, IsQueue(q), NEW m
  PROVE  /\ IsQueue(Append(q, m)) /\ Len(q) \in Nat /\ Len(Append(q, m)) = Len(q) + 1
         /\ DOMAIN q = 1..Len(q) /\ DOMAIN Append(q, m) = 1..(Len(q) + 1)
         /\ Append(q, m)[Len(q) + 1] = m
         /\ \A i \in 1..Len(q) : Append(q, m)[i] = q[i]
<1>1. PICK S : q \in Seq(S)
  BY DEF IsQueue
<1>2. q \in Seq(S \cup {m}) /\ m \in S \cup {m}
  BY <1>1
<1> QED
  BY <1>2, AppendProperties DEF IsQueue

\* One more answer.
LEMMA EndsSent ==
  ASSUME NEW q, IsQueue(q), NEW id, NEW new, NEW s, NEW e, Ends(q, id, new, s, e), NEW m
  PROVE  Ends(Append(q, m), id, new, s, Heard(id, new, e, m))
<1>1. PICK f : f[0] = s /\ Trace(q, id, new, f) /\ f[Len(q)] = e
  BY DEF Ends
<1> DEFINE n == Len(q)
           r == Append(q, m)
           x == Heard(id, new, e, m)
           g == [i \in 0..(n + 1) |-> IF i <= n THEN f[i] ELSE x]
<1>2. /\ n \in Nat /\ Len(r) = n + 1 /\ r[n + 1] = m /\ \A i \in 1..n : r[i] = q[i]
  BY QueueSent
<1> HIDE DEF n, r, x
<1>3. g[0] = s /\ g[n] = e /\ g[n + 1] = x
  BY <1>1, <1>2 DEF n
<1>4. ASSUME NEW i \in 1..(n + 1)  PROVE g[i] = Heard(id, new, g[i - 1], r[i])
  <2>1. CASE i \in 1..n
    <3>1. f[i] = Heard(id, new, f[i - 1], q[i])
      BY <1>1, <2>1 DEF Trace, n
    <3>2. g[i] = f[i] /\ g[i - 1] = f[i - 1] /\ r[i] = q[i]
      BY <1>2, <2>1
    <3> QED
      BY ONLY <3>1, <3>2
  <2>2. CASE i = n + 1
    <3>1. i - 1 = n
      BY <1>2, <2>2
    <3> HIDE DEF g
    <3> QED
      BY <1>2, <1>3, <2>2, <3>1 DEF x
  <2> QED
    BY <1>2, <2>1, <2>2
<1> HIDE DEF g
<1>5. Trace(r, id, new, g)
  BY <1>2, <1>4 DEF Trace
<1> QED
  BY <1>2, <1>3, <1>5 DEF Ends, r, x

\* The first answer is read.
LEMMA EndsRead ==
  ASSUME NEW q, IsQueue(q), q # <<>>, NEW id, NEW new, NEW s, NEW e, Ends(q, id, new, s, e)
  PROVE  Ends(Tail(q), id, new, Heard(id, new, s, Head(q)), e)
<1>1. PICK f : f[0] = s /\ Trace(q, id, new, f) /\ f[Len(q)] = e
  BY DEF Ends
<1> DEFINE n == Len(q)
           r == Tail(q)
           g == [i \in 0..(n - 1) |-> f[i + 1]]
<1>2. /\ n \in Nat /\ n > 0 /\ Len(r) = n - 1 /\ Head(q) = q[1]
      /\ \A i \in 1..(n - 1) : r[i] = q[i + 1]
  BY QueueRead
<1> HIDE DEF n, r
<1>3. f[1] = Heard(id, new, s, q[1])
  BY <1>1, <1>2 DEF Trace, n
<1>4. g[0] = f[1] /\ g[n - 1] = e
  BY <1>1, <1>2 DEF n
<1>5. ASSUME NEW i \in 1..(n - 1)  PROVE g[i] = Heard(id, new, g[i - 1], r[i])
  <2>1. f[i + 1] = Heard(id, new, f[(i + 1) - 1], q[i + 1])
    <3>1. i + 1 \in 1..n
      BY <1>2
    <3> QED
      BY <1>1, <3>1 DEF Trace, n
  <2>2. g[i] = f[i + 1] /\ g[i - 1] = f[(i - 1) + 1] /\ (i - 1) + 1 = (i + 1) - 1 /\ r[i] = q[i + 1]
    BY <1>2
  <2> QED
    BY ONLY <2>1, <2>2
<1> HIDE DEF g
<1>6. Trace(r, id, new, g)
  BY <1>2, <1>5 DEF Trace
<1> QED
  BY <1>2, <1>3, <1>4, <1>6 DEF Ends, r

\* Answers that are for others.
NotFor(id, m) == m.op = "nextid" \/ m.id # id
Silent(q, id) == \A i \in DOMAIN q : NotFor(id, q[i])

\* They make nothing of what the client was told.
LEMMA EndsSilent ==
  ASSUME NEW q, IsQueue(q), NEW id, NEW new, NEW s, Silent(q, id)
  PROVE  Ends(q, id, new, s, s)
<1> DEFINE n == Len(q)
           f == [i \in 0..n |-> s]
<1>1. n \in Nat /\ DOMAIN q = 1..n
  BY DEF IsQueue
<1>2. ASSUME NEW i \in 1..n  PROVE Heard(id, new, s, q[i]) = s
  BY <1>1 DEF Silent, NotFor, Heard
<1> HIDE DEF n
<1>3. f[0] = s /\ f[n] = s /\ \A i \in 1..n : f[i] = s /\ f[i - 1] = s
  BY <1>1
<1> HIDE DEF f
<1>4. Trace(q, id, new, f)
  BY <1>2, <1>3 DEF Trace, n
<1> QED
  BY <1>3, <1>4 DEF Ends, n

\* Nor does one of them.
LEMMA NotForIsSame ==
  ASSUME NEW id, NEW new, NEW s, NEW m, NotFor(id, m)
  PROVE  Heard(id, new, s, m) = s
  BY DEF NotFor, Heard

\* A manager as the answers and the requests know it, and what its client was told.
Own(n) ==
  [id |-> mgrs[n].id, who |-> mgrs[n].owner, template |-> mark[n].template, shown |-> Shown(n)]

\* A manager x that waits for its ID.
Blank(s) == s.local = 0 /\ s.name = "none" /\ s.markers = <<>> /\ s.captured = {}
Unopened(x) == x.id = 0 /\ x.shown.state = "INIT" /\ Blank(x.shown)

\* One whose game is asked for, by a request of the queue q that is its only one, and
\* behind which nobody changes the game, unless two managers have it.
IsChange(m) == m.op \notin {"nextid", "newgame"}
AsksAt(x, q, a, k) ==
  /\ q[k].op = "newgame" /\ q[k].id = x.id /\ q[k].local = x.template /\ q[k].who = x.who
  /\ \A j \in 1..Len(q) : q[j].op # "nextid" /\ q[j].id = x.id => j = k
  /\ x.template \notin a =>
       \A j \in 1..Len(q) : j > k /\ IsChange(q[j]) => q[j].local # x.template
Opening(x, q, f, a) ==
  /\ x.id # 0 /\ x.shown.state = "START" /\ Blank(x.shown) /\ Silent(f, x.id)
  /\ \E k \in 1..Len(q) : AsksAt(x, q, a, k)

\* One whose game was opened, or whose setup was dropped, and e what its client will have been told once the
\* answers f are read: what the database has, when the requests q were not yet done.
Orderly(x, q, a, e) ==
  \A j \in 1..Len(q) : IsChange(q[j]) =>
    /\ q[j].id = x.id => q[j].local = e.local /\ q[j].who = x.who
    /\ q[j].local = e.local /\ e.local \notin a => q[j].id = x.id
StopSent(x, q) == \E j \in 1..Len(q) : q[j].op = "stop" /\ q[j].id = x.id
SeesRow(x, q, r, e) ==
  /\ e.name = r.name /\ e.markers = r.markers
  /\ StopSent(x, q) \/ Captured(r, x.who) \subseteq e.captured
WillSee(x, q, d, a, e) ==
  /\ IsShown(e) /\ e.state \in {"INIT", "START", "READY", "DEAD"}
  /\ e.state = "READY" =>
       /\ e.local \in 1..Len(d)
       /\ e.local \notin a /\ d[e.local].exists => SeesRow(x, q, d[e.local], e)
AsksNone(x, q) == \A j \in 1..Len(q) : q[j].op = "newgame" => q[j].id # x.id
Open(x, q, f, d, a) ==
  /\ x.id # 0 /\ IsShown(x.shown) /\ AsksNone(x, q)
  /\ \E e : /\ Ends(f, x.id, x.template = 0, x.shown, e)
            /\ Orderly(x, q, a, e) /\ WillSee(x, q, d, a, e)

Staged(x, q, f, d, a) == Unopened(x) \/ Opening(x, q, f, a) \/ Open(x, q, f, d, a)

\* The games of a manager: the one it was made for, the one it has, the one it is told of.
Has(x, f, g) ==
  g # 0 /\ \/ g \in {x.template, x.shown.local}
           \/ \E i \in DOMAIN f : f[i].op = "newgame" /\ f[i].id = x.id /\ f[i].local = g

-----------------------------------------------------------------------------
(* A manager while others are served                                       *)

\* What an answer makes of it keeps its form, and the game once it is opened.
LEMMA HeardIs ==
  ASSUME NEW id, NEW new, NEW s, IsShown(s), NEW m, NEW h, h = Heard(id, new, s, m)
  PROVE  /\ IsShown(h)
         /\ h.state \in {s.state, "READY", "LIST_WAIT", "DEAD"}
         /\ s.state # "START" => h.local = s.local /\ h.state # "START"
         /\ h.local = s.local \/ (m.op = "newgame" /\ m.id = id /\ m.local = h.local)
  BY DEF Heard, Changed, IsShown

\* The game that the answers f end with is one the manager has.
LEMMA EndsWith ==
  ASSUME NEW f, IsQueue(f), NEW id, NEW new, NEW s, IsShown(s), NEW e, Ends(f, id, new, s, e)
  PROVE  /\ s.state # "START" => e.local = s.local
         /\ e.local = s.local \/ \E i \in DOMAIN f : f[i].op = "newgame" /\ f[i].id = id /\ f[i].local = e.local
<1>1. PICK h : h[0] = s /\ Trace(f, id, new, h) /\ h[Len(f)] = e
  BY DEF Ends
<1> DEFINE n == Len(f)
           Told(l) == \E i \in DOMAIN f : f[i].op = "newgame" /\ f[i].id = id /\ f[i].local = l
           T == {i \in 0..n : /\ IsShown(h[i])
                              /\ s.state # "START" => h[i].local = s.local /\ h[i].state # "START"
                              /\ h[i].local = s.local \/ Told(h[i].local)}
<1>2. n \in Nat /\ DOMAIN f = 1..n
  BY DEF IsQueue
<1> HIDE DEF Told
<1>3. 0 \in T
  BY <1>1, <1>2
<1>4. ASSUME NEW i \in Nat, i < n, i \in T  PROVE i + 1 \in T
  <2>1. i + 1 \in 1..n /\ (i + 1) - 1 = i
    BY <1>2, <1>4
  <2>2. h[i + 1] = Heard(id, new, h[i], f[i + 1])
    BY <1>1, <2>1 DEF Trace, n
  <2> DEFINE g == h[i + 1]
  <2>3. /\ IsShown(g)
        /\ h[i].state # "START" => g.local = h[i].local /\ g.state # "START"
        /\ g.local = h[i].local \/ (f[i + 1].op = "newgame" /\ f[i + 1].id = id /\ f[i + 1].local = g.local)
    BY <1>4, <2>2, HeardIs
  <2>4. g.local = h[i].local \/ Told(g.local)
    BY <1>2, <2>1, <2>3 DEF Told
  <2> HIDE DEF g
  <2>5. /\ IsShown(g)
        /\ s.state # "START" => g.local = s.local /\ g.state # "START"
        /\ g.local = s.local \/ Told(g.local)
    BY <1>4, <2>3, <2>4
  <2> QED
    BY <1>2, <2>1, <2>5 DEF g
<1> HIDE DEF T
<1>5. \A i \in 0..n : i \in T
  BY <1>2, <1>3, <1>4, UpTo
<1>6. n \in T
  BY <1>2, <1>5
<1> QED
  BY <1>1, <1>6 DEF T, Told, n

\* A request m that has nothing to do with manager x.
Foreign(x, f, a, m) ==
  m.op = "nextid" \/ (m.id # x.id /\ (m.op # "newgame" /\ Has(x, f, m.local) => m.local \in a))

\* Such a request is sent: no stage of the manager ends.
LEMMA ForeignSent ==
  ASSUME NEW q, IsQueue(q), NEW f, IsQueue(f), NEW d, NEW a, NEW x, Staged(x, q, f, d, a),
         NEW m, Foreign(x, f, a, m), m.op \notin {"nextid", "newgame"} => m.local # 0
  PROVE  Staged(x, Append(q, m), f, d, a)
<1> DEFINE r == Append(q, m)
           n == Len(q)
<1>1. /\ n \in Nat /\ Len(r) = n + 1 /\ r[n + 1] = m /\ \A i \in 1..n : r[i] = q[i]
  BY QueueSent
<1>2. \A j \in 1..(n + 1) : j \in 1..n \/ j = n + 1
  BY <1>1
<1> HIDE DEF r
<1>3. CASE Opening(x, q, f, a)
  <2>1. PICK k \in 1..n : AsksAt(x, q, a, k)
    BY <1>3 DEF Opening
  <2>2. \A j \in 1..(n + 1) : r[j].op # "nextid" /\ r[j].id = x.id => j = k
    BY <1>1, <1>2, <2>1 DEF AsksAt, Foreign
  <2>3. x.template \notin a /\ IsChange(m) => m.local # x.template
    BY DEF Foreign, Has, IsChange
  <2>4. x.template \notin a =>
          \A j \in 1..(n + 1) : j > k /\ IsChange(r[j]) => r[j].local # x.template
    BY <1>1, <1>2, <2>1, <2>3 DEF AsksAt
  <2>5. AsksAt(x, r, a, k) /\ k \in 1..Len(r)
    BY <1>1, <2>1, <2>2, <2>4 DEF AsksAt
  <2> QED
    BY <1>3, <2>5 DEF Opening, Staged, r
<1>4. CASE Open(x, q, f, d, a)
  <2>1. PICK e : /\ Ends(f, x.id, x.template = 0, x.shown, e)
                 /\ Orderly(x, q, a, e) /\ WillSee(x, q, d, a, e)
    BY <1>4 DEF Open
  <2>2. IsChange(m) => m.id # x.id /\ (m.local = e.local => e.local \in a)
    <3>1. e.local # 0 => Has(x, f, e.local)
      BY <1>4, <2>1, EndsWith DEF Has, Open
    <3> QED
      BY <3>1 DEF IsChange, Foreign
  <2>3. Orderly(x, r, a, e)
    BY <1>1, <1>2, <2>1, <2>2 DEF Orderly
  <2>4. AsksNone(x, r)
    BY <1>1, <1>2, <1>4 DEF AsksNone, Open, Foreign
  <2>5. StopSent(x, q) => StopSent(x, r)
    BY <1>1, <1>2 DEF StopSent
  <2>6. WillSee(x, r, d, a, e)
    BY <2>1, <2>5 DEF WillSee, SeesRow
  <2>7. Open(x, r, f, d, a)
    BY <1>4, <2>1, <2>3, <2>4, <2>6 DEF Open
  <2> QED
    BY <2>7 DEF Staged, r
<1> QED
  BY <1>3, <1>4 DEF Staged

\* A request of another manager is taken from the queue.
LEMMA ForeignTaken ==
  ASSUME NEW q, IsQueue(q), q # <<>>, NEW f, NEW d, NEW a, NEW x, Staged(x, q, f, d, a),
         NotFor(x.id, Head(q))
  PROVE  Staged(x, Tail(q), f, d, a)
<1> DEFINE r == Tail(q)
           n == Len(q)
<1>1. /\ n \in Nat /\ n > 0 /\ Len(r) = n - 1 /\ Head(q) = q[1]
      /\ \A i \in 1..(n - 1) : r[i] = q[i + 1]
  BY QueueRead
<1>2. \A j \in 1..(n - 1) : j + 1 \in 1..n
  BY <1>1
<1> HIDE DEF r
<1>3. CASE Opening(x, q, f, a)
  <2>1. PICK k \in 1..n : AsksAt(x, q, a, k)
    BY <1>3 DEF Opening
  <2>2. k # 1
    BY <1>1, <2>1 DEF AsksAt, NotFor
  <2> DEFINE l == k - 1
  <2>3. l \in 1..(n - 1) /\ r[l] = q[k] /\ l + 1 = k
    BY <1>1, <2>1, <2>2
  <2>4. \A j \in 1..(n - 1) : r[j].op # "nextid" /\ r[j].id = x.id => j = l
    <3>1. \A j \in 1..(n - 1) : q[j + 1].op # "nextid" /\ q[j + 1].id = x.id => j + 1 = k
      BY <1>2, <2>1 DEF AsksAt
    <3> QED
      BY <1>1, <2>3, <3>1
  <2>5. ASSUME x.template \notin a, NEW j \in 1..(n - 1), j > l, IsChange(r[j])
        PROVE  r[j].local # x.template
    <3>1. j + 1 \in 1..n /\ j + 1 > k /\ r[j] = q[j + 1]
      BY <1>1, <1>2, <2>3, <2>5
    <3> QED
      BY <2>1, <2>5, <3>1 DEF AsksAt
  <2> HIDE DEF l
  <2>6. AsksAt(x, r, a, l)
    BY <1>1, <2>1, <2>3, <2>4, <2>5 DEF AsksAt
  <2> QED
    BY <1>1, <1>3, <2>3, <2>6 DEF Opening, Staged, r
<1>4. CASE Open(x, q, f, d, a)
  <2>1. PICK e : /\ Ends(f, x.id, x.template = 0, x.shown, e)
                 /\ Orderly(x, q, a, e) /\ WillSee(x, q, d, a, e)
    BY <1>4 DEF Open
  <2>2. Orderly(x, r, a, e)
    BY <1>1, <1>2, <2>1 DEF Orderly
  <2>3. AsksNone(x, r)
    BY <1>1, <1>2, <1>4 DEF AsksNone, Open
  <2>4. StopSent(x, q) => StopSent(x, r)
    <3>1. ASSUME NEW j \in 1..n, q[j].op = "stop", q[j].id = x.id
          PROVE  StopSent(x, r)
      <4>1. j # 1
        BY <1>1, <3>1 DEF NotFor
      <4>2. j - 1 \in 1..(n - 1) /\ r[j - 1] = q[j]
        BY <1>1, <4>1
      <4> QED
        BY <1>1, <3>1, <4>2 DEF StopSent
    <3> QED
      BY <3>1 DEF StopSent
  <2>5. WillSee(x, r, d, a, e)
    BY <2>1, <2>4 DEF WillSee, SeesRow
  <2>6. Open(x, r, f, d, a)
    BY <1>4, <2>1, <2>2, <2>3, <2>5 DEF Open
  <2> QED
    BY <2>6 DEF Staged, r
<1> QED
  BY <1>3, <1>4 DEF Staged

\* Answers for others come and are read.
LEMMA AnswerSent ==
  ASSUME NEW f, IsQueue(f), NEW q, NEW d, NEW a, NEW x, Staged(x, q, f, d, a),
         NEW m, NotFor(x.id, m)
  PROVE  Staged(x, q, Append(f, m), d, a)
<1> DEFINE r == Append(f, m)
           n == Len(f)
<1>1. /\ n \in Nat /\ DOMAIN r = 1..(n + 1) /\ DOMAIN f = 1..n
      /\ r[n + 1] = m /\ \A i \in 1..n : r[i] = f[i]
  BY QueueSent
<1>2. \A j \in 1..(n + 1) : j \in 1..n \/ j = n + 1
  BY <1>1
<1>3. Silent(f, x.id) => Silent(r, x.id)
  <2> HIDE DEF r
  <2> QED
    BY <1>1, <1>2 DEF Silent
<1>4. CASE Open(x, q, f, d, a)
  <2>1. PICK e : /\ Ends(f, x.id, x.template = 0, x.shown, e)
                 /\ Orderly(x, q, a, e) /\ WillSee(x, q, d, a, e)
    BY <1>4 DEF Open
  <2>2. Ends(r, x.id, x.template = 0, x.shown, e)
    BY <2>1, EndsSent, NotForIsSame
  <2>3. Open(x, q, r, d, a)
    BY <1>4, <2>1, <2>2 DEF Open
  <2> QED
    BY <2>3 DEF Staged
<1> QED
  BY <1>3, <1>4 DEF Staged, Opening

\* The server reads an answer that is for another.
LEMMA AnswerRead ==
  ASSUME NEW f, IsQueue(f), f # <<>>, NEW q, NEW d, NEW a, NEW x, Staged(x, q, f, d, a),
         NotFor(x.id, Head(f))
  PROVE  Staged(x, q, Tail(f), d, a)
<1>1. Silent(f, x.id) => Silent(Tail(f), x.id)
  <2>1. /\ Len(f) \in Nat /\ DOMAIN f = 1..Len(f) /\ DOMAIN Tail(f) = 1..(Len(f) - 1)
        /\ \A i \in 1..(Len(f) - 1) : Tail(f)[i] = f[i + 1]
    BY QueueRead
  <2> QED
    BY <2>1 DEF Silent
<1>2. CASE Open(x, q, f, d, a)
  <2>1. PICK e : /\ Ends(f, x.id, x.template = 0, x.shown, e)
                 /\ Orderly(x, q, a, e) /\ WillSee(x, q, d, a, e)
    BY <1>2 DEF Open
  <2>2. Ends(Tail(f), x.id, x.template = 0, x.shown, e)
    BY <2>1, EndsRead, NotForIsSame
  <2>3. Open(x, q, Tail(f), d, a)
    BY <1>2, <2>1, <2>2 DEF Open
  <2> QED
    BY <2>3 DEF Staged
<1> QED
  BY <1>1, <1>2 DEF Staged, Opening

\* Its own answer.
LEMMA OwnRead ==
  ASSUME NEW f, IsQueue(f), f # <<>>, NEW q, NEW d, NEW a, NEW x, Open(x, q, f, d, a),
         NEW y, y.id = x.id, y.who = x.who, y.template = x.template,
         y.shown = Heard(x.id, x.template = 0, x.shown, Head(f))
  PROVE  Open(y, q, Tail(f), d, a)
<1>1. PICK e : /\ Ends(f, x.id, x.template = 0, x.shown, e)
               /\ Orderly(x, q, a, e) /\ WillSee(x, q, d, a, e)
  BY DEF Open
<1>2. Ends(Tail(f), y.id, y.template = 0, y.shown, e)
  <2>1. Ends(Tail(f), x.id, x.template = 0, Heard(x.id, x.template = 0, x.shown, Head(f)), e)
    BY <1>1, EndsRead
  <2> QED
    BY <2>1
<1>3. Orderly(y, q, a, e) /\ WillSee(y, q, d, a, e)
  BY <1>1 DEF Orderly, WillSee, SeesRow, StopSent
<1>4. IsShown(y.shown)
  BY HeardIs DEF Open
<1> QED
  BY <1>2, <1>3, <1>4 DEF Open, AsksNone

\* The database changes where another's request may change it, or the game is known
\* to be apart.
LEMMA RowsChange ==
  ASSUME NEW q, NEW f, NEW d, NEW a, NEW x, Staged(x, q, f, d, a),
         NEW b, NEW c, a \subseteq b, Len(d) \in Nat, Len(c) \in Nat, Len(d) <= Len(c),
         \A g \in 1..Len(d) : \/ c[g] = d[g]
                              \/ \E j \in 1..Len(q) : IsChange(q[j]) /\ q[j].id # x.id /\ q[j].local = g
  PROVE  Staged(x, q, f, c, b)
<1>1. CASE Opening(x, q, f, a)
  BY <1>1 DEF Opening, AsksAt, Staged
<1>2. CASE Open(x, q, f, d, a)
  <2>1. PICK e : /\ Ends(f, x.id, x.template = 0, x.shown, e)
                 /\ Orderly(x, q, a, e) /\ WillSee(x, q, d, a, e)
    BY <1>2 DEF Open
  <2>2. Orderly(x, q, b, e)
    BY <2>1 DEF Orderly
  <2>3. e.local \in 1..Len(d) /\ e.local \notin b => c[e.local] = d[e.local]
    BY <2>1 DEF Orderly
  <2>4. WillSee(x, q, c, b, e)
    <3>1. e.local \in 1..Len(d) => e.local \in 1..Len(c)
      OBVIOUS
    <3> QED
      BY <2>1, <2>3, <3>1 DEF WillSee
  <2>5. Open(x, q, f, c, b)
    BY <1>2, <2>1, <2>2, <2>4 DEF Open
  <2> QED
    BY <2>5 DEF Staged
<1> QED
  BY <1>1, <1>2 DEF Staged

-----------------------------------------------------------------------------
(* A manager and its own requests                                          *)

\* Told the same, but of other captures.
SameElse(s, t) ==
  /\ IsShown(s) /\ IsShown(t)
  /\ s.state = t.state /\ s.local = t.local /\ s.title = t.title /\ s.name = t.name
  /\ s.markers = t.markers

\* An answer makes the same of both, but for the captures.
LEMMA HeardAlike ==
  ASSUME NEW id, NEW new, NEW s, NEW t, SameElse(s, t), NEW m
  PROVE  SameElse(Heard(id, new, s, m), Heard(id, new, t, m))
<1>1. PICK g, h : g = Heard(id, new, s, m) /\ h = Heard(id, new, t, m)
  OBVIOUS
<1>2. IsShown(g) /\ IsShown(h)
  BY <1>1, HeardIs DEF SameElse
<1>3. CASE m.op = "nextid" \/ m.id # id
  BY <1>3 DEF Heard
<1>4. CASE m.op # "nextid" /\ m.id = id /\ m.op = "newgame"
  <2>1. CASE s.state # "START"
    BY <1>1, <1>2, <1>4, <2>1 DEF Heard, SameElse
  <2>2. CASE s.state = "START" /\ ~m.exists
    BY <1>1, <1>2, <1>4, <2>2 DEF Heard, SameElse, IsShown
  <2>3. CASE s.state = "START" /\ m.exists
    BY <1>1, <1>2, <1>4, <2>3 DEF Heard, SameElse, IsShown
  <2> QED
    BY <2>1, <2>2, <2>3
<1>5. CASE m.id = id /\ m.op \in {"dump", "state"}
  BY <1>1, <1>2, <1>5 DEF Heard, SameElse, IsShown
<1>6. CASE m.id = id /\ m.op \notin {"nextid", "newgame", "dump", "state"}
  <2>1. CASE s.state \notin {"LIST_WAIT", "READY"} \/ (m.op = "capture" /\ s.state # "READY")
    BY <1>1, <1>2, <1>6, <2>1 DEF Heard, SameElse
  <2>2. CASE ~(s.state \notin {"LIST_WAIT", "READY"} \/ (m.op = "capture" /\ s.state # "READY"))
    <3>1. g = Changed(s, m) /\ h = Changed(t, m)
      BY <1>1, <1>6, <2>2 DEF Heard, SameElse
    <3> QED
      BY <1>1, <1>2, <3>1 DEF Changed, SameElse, IsShown
  <2> QED
    BY <2>1, <2>2
<1> QED
  BY <1>3, <1>4, <1>5, <1>6

\* So do all that are on their way.
LEMMA EndsAlike ==
  ASSUME NEW f, IsQueue(f), NEW id, NEW new, NEW s, NEW e, Ends(f, id, new, s, e),
         NEW t, SameElse(s, t)
  PROVE  \E x : Ends(f, id, new, t, x) /\ SameElse(e, x)
<1>1. PICK h : h[0] = s /\ Trace(f, id, new, h) /\ h[Len(f)] = e
  BY DEF Ends
<1> DEFINE n == Len(f)
           Goes(g, i) == \A j \in 1..i : g[j] = Heard(id, new, g[j - 1], f[j])
           T == {i \in 0..n : \E g : g[0] = t /\ Goes(g, i) /\ SameElse(h[i], g[i])}
<1>2. n \in Nat /\ DOMAIN f = 1..n
  BY DEF IsQueue
<1>3. 0 \in T
  <2> DEFINE g == [i \in {0} |-> t]
  <2>1. g[0] = t /\ Goes(g, 0) /\ SameElse(h[0], g[0])
    BY <1>1
  <2> HIDE DEF g, Goes
  <2> QED
    BY <1>2, <2>1
<1>4. ASSUME NEW i \in Nat, i < n, i \in T  PROVE i + 1 \in T
  <2>1. PICK g : g[0] = t /\ Goes(g, i) /\ SameElse(h[i], g[i])
    BY <1>4
  <2>2. i + 1 \in 1..n /\ (i + 1) - 1 = i /\ 0 <= i
    BY <1>2, <1>4
  <2>3. h[i + 1] = Heard(id, new, h[i], f[i + 1])
    BY <1>1, <2>2 DEF Trace, n
  <2> DEFINE x == Heard(id, new, g[i], f[i + 1])
             k == [j \in 0..(i + 1) |-> IF j <= i THEN g[j] ELSE x]
  <2>4. SameElse(h[i + 1], x)
    BY <2>1, <2>3, HeardAlike
  <2> HIDE DEF x
  <2>5. k[0] = t /\ k[i + 1] = x /\ k[i] = g[i]
    BY <1>4, <2>1
  <2>6. ASSUME NEW j \in 1..(i + 1)  PROVE k[j] = Heard(id, new, k[j - 1], f[j])
    <3>1. CASE j \in 1..i
      <4>1. g[j] = Heard(id, new, g[j - 1], f[j])
        BY <2>1, <3>1
      <4>2. k[j] = g[j] /\ k[j - 1] = g[j - 1]
        BY <1>4, <3>1
      <4> QED
        BY ONLY <4>1, <4>2
    <3>2. CASE j = i + 1
      <4> HIDE DEF k
      <4> QED
        BY <1>4, <2>5, <3>2 DEF x
    <3> QED
      BY <1>4, <3>1, <3>2
  <2> HIDE DEF k
  <2>7. Goes(k, i + 1)
    BY <2>6
  <2>8. SameElse(h[i + 1], k[i + 1])
    BY <2>4, <2>5
  <2> HIDE DEF Goes
  <2> QED
    BY <2>2, <2>5, <2>7, <2>8
<1> HIDE DEF T
<1>5. \A i \in 0..n : i \in T
  BY <1>2, <1>3, <1>4, UpTo
<1>6. n \in T
  BY <1>2, <1>5
<1>7. PICK g : g[0] = t /\ Goes(g, n) /\ SameElse(h[n], g[n])
  BY <1>6 DEF T
<1>8. Ends(f, id, new, t, g[n])
  BY <1>7 DEF Ends, Trace, n
<1> QED
  BY <1>1, <1>7, <1>8 DEF n

\* The client asks for a change of its game; a reset it is told of at once.
LEMMA OwnSent ==
  ASSUME NEW q, IsQueue(q), NEW f, IsQueue(f), NEW d, NEW a, NEW x, Open(x, q, f, d, a),
         NEW m, IsChange(m), m.id = x.id, m.who = x.who, m.local = x.shown.local,
         x.shown.state # "START",
         NEW y, y.id = x.id, y.who = x.who, y.template = x.template,
         y.shown = x.shown \/ (m.op = "stop" /\ SameElse(x.shown, y.shown))
  PROVE  Open(y, Append(q, m), f, d, a)
<1> DEFINE r == Append(q, m)
           n == Len(q)
<1>1. /\ n \in Nat /\ Len(r) = n + 1 /\ r[n + 1] = m /\ \A i \in 1..n : r[i] = q[i]
  BY QueueSent
<1>2. \A j \in 1..(n + 1) : j \in 1..n \/ j = n + 1
  BY <1>1
<1> HIDE DEF r
<1>3. PICK e : /\ Ends(f, x.id, x.template = 0, x.shown, e)
               /\ Orderly(x, q, a, e) /\ WillSee(x, q, d, a, e)
  BY DEF Open
<1>4. e.local = x.shown.local /\ IsShown(x.shown)
  BY <1>3, EndsWith DEF Open
<1>5. Orderly(x, r, a, e)
  BY <1>1, <1>2, <1>3, <1>4 DEF Orderly
<1>6. AsksNone(y, r)
  BY <1>1, <1>2 DEF AsksNone, Open, IsChange
<1>7. IsShown(y.shown) /\ y.shown.state = x.shown.state
  BY <1>4 DEF SameElse
<1>8. CASE y.shown = x.shown
  <2>1. StopSent(x, q) => StopSent(y, r)
    BY <1>1, <1>2 DEF StopSent
  <2>2. WillSee(y, r, d, a, e)
    BY <1>3, <2>1 DEF WillSee, SeesRow
  <2>3. Ends(f, y.id, y.template = 0, y.shown, e) /\ Orderly(y, r, a, e)
    BY <1>3, <1>5, <1>8 DEF Orderly
  <2> QED
    BY <1>6, <1>7, <2>2, <2>3 DEF Open, r
<1>9. CASE m.op = "stop" /\ SameElse(x.shown, y.shown)
  <2>1. StopSent(y, r)
    <3>1. n + 1 \in 1..(n + 1)
      BY <1>1
    <3> QED
      BY <1>1, <1>9, <3>1 DEF StopSent
  <2>2. PICK z : Ends(f, x.id, x.template = 0, y.shown, z) /\ SameElse(e, z)
    BY <1>3, <1>9, EndsAlike
  <2>3. WillSee(y, r, d, a, z)
    BY <1>3, <2>1, <2>2 DEF WillSee, SeesRow, SameElse
  <2>4. Ends(f, y.id, y.template = 0, y.shown, z) /\ Orderly(y, r, a, z)
    BY <1>5, <2>2 DEF Orderly, SameElse
  <2> QED
    BY <1>6, <1>7, <2>3, <2>4 DEF Open, r
<1> QED
  BY <1>8, <1>9

\* A queue with up to three more.
LEMMA JoinOne ==
  ASSUME NEW f, IsQueue(f), NEW u, NEW v, NEW w
  PROVE  /\ f \o <<>> = f
         /\ f \o <<u>> = Append(f, u)
         /\ f \o <<u, v>> = Append(Append(f, u), v)
         /\ f \o <<u, v, w>> = Append(Append(Append(f, u), v), w)
<1>1. PICK S : f \in Seq(S)
  BY DEF IsQueue
<1>2. f \in Seq(S \cup {u, v, w}) /\ u \in S \cup {u, v, w} /\ v \in S \cup {u, v, w} /\ w \in S \cup {u, v, w}
  BY <1>1
<1> QED
  BY <1>2

\* A row of the database, with what it lists.
IsRow(r) ==
  /\ r = [exists |-> r.exists, cgz |-> r.cgz, referred |-> r.referred, name |-> r.name,
          next |-> r.next, markers |-> r.markers, inplay |-> r.inplay]
  /\ r.markers = [i \in DOMAIN r.markers |-> r.markers[i]]
  /\ DOMAIN r.inplay \subseteq DOMAIN r.markers

\* VaultOpens: what the backend answers when it opens a game.
Opens(m, d, found, listed, states) ==
  LET new == m.local = 0
      local == IF new THEN Len(d) + 1 ELSE m.local
      row == IF new THEN NewRow(m.cgz) ELSE d[m.local]
      markers == IF listed THEN row.markers ELSE <<>>
      game == [op |-> "newgame", id |-> m.id, exists |-> row.exists, local |-> local,
               name |-> row.name, cgz |-> row.cgz]
      dump == [op |-> "dump", id |-> m.id, markers |-> markers]
      state == [op |-> "state", id |-> m.id,
                captured |-> IF states THEN Captured(row, m.who) ELSE {}] IN
  CASE ~found -> <<>>
    [] found /\ (new \/ ~row.exists) -> <<game>>
    [] found /\ ~new /\ row.exists /\ markers = <<>> -> <<game, dump>>
    [] OTHER -> <<game, dump, state>>

\* The request for its game is done.
LEMMA OwnOpened ==
  ASSUME NEW q, IsQueue(q), q # <<>>, NEW f, IsQueue(f), NEW d, Len(d) \in Nat,
         NEW a, NEW x, IsShown(x.shown), Opening(x, q, f, a),
         NEW m, m = Head(q), m.op = "newgame", m.id = x.id,
         \A j \in 1..Len(q) : IsChange(q[j]) => q[j].local \in 1..Len(d),
         x.template \in 0..Len(d), \A g \in 1..Len(d) : IsRow(d[g]),
         NEW found \in BOOLEAN, NEW listed \in BOOLEAN, NEW states \in BOOLEAN,
         NEW c, c = IF m.local = 0 /\ found THEN Append(d, NewRow(m.cgz)) ELSE d,
         m.local = 0 /\ found => Len(c) = Len(d) + 1 /\ c[Len(d) + 1] = NewRow(m.cgz),
         NEW b, b = IF found /\ listed /\ states THEN a ELSE a \cup {m.local}
  PROVE  Open(x, Tail(q), f \o Opens(m, d, found, listed, states), c, b)
<1> DEFINE new == m.local = 0
           local == IF new THEN Len(d) + 1 ELSE m.local
           row == IF new THEN NewRow(m.cgz) ELSE d[m.local]
           markers == IF listed THEN row.markers ELSE <<>>
           game == [op |-> "newgame", id |-> m.id, exists |-> row.exists, local |-> local,
                    name |-> row.name, cgz |-> row.cgz]
           dump == [op |-> "dump", id |-> m.id, markers |-> markers]
           state == [op |-> "state", id |-> m.id,
                     captured |-> IF states THEN Captured(row, m.who) ELSE {}]
           n == Len(q)
           r == Tail(q)
           s == x.shown
           id == x.id
           s1 == Heard(id, new, s, game)
           s2 == Heard(id, new, s1, dump)
           s3 == Heard(id, new, s2, state)
           f1 == Append(f, game)
           f2 == Append(f1, dump)
           f3 == Append(f2, state)
<1>1. /\ n \in Nat /\ n > 0 /\ Len(r) = n - 1 /\ m = q[1]
      /\ \A i \in 1..(n - 1) : r[i] = q[i + 1] /\ i + 1 \in 1..n /\ i + 1 > 1
  BY QueueRead
<1> HIDE DEF r
<1>2. /\ AsksAt(x, q, a, 1) /\ id # 0 /\ s.state = "START" /\ Blank(s) /\ Silent(f, id)
  BY <1>1 DEF Opening, AsksAt
<1>3. m.local = x.template /\ m.who = x.who /\ m.id = id
  BY <1>1, <1>2 DEF AsksAt
<1> HIDE DEF n
<1>a. \A j \in 1..(n - 1) : r[j].op # "nextid" => r[j].id # id
  <2>1. \A j \in 1..n : q[j].op # "nextid" /\ q[j].id = id => j = 1
    BY <1>2 DEF AsksAt, n
  <2> SUFFICES ASSUME NEW j \in 1..(n - 1), r[j].op # "nextid", r[j].id = id  PROVE FALSE
    OBVIOUS
  <2>2. r[j] = q[j + 1] /\ j + 1 \in 1..n /\ j + 1 # 1
    BY <1>1
  <2> QED
    BY <2>1, <2>2
<1>4. AsksNone(x, r) /\ \A j \in 1..(n - 1) : IsChange(r[j]) => r[j].id # id
  BY <1>1, <1>a DEF AsksNone, IsChange
<1>5. \A j \in 1..(n - 1) : IsChange(r[j]) =>
        /\ r[j].local # 0 /\ r[j].local # Len(d) + 1
        /\ r[j].local = m.local => m.local \in a
  <2> SUFFICES ASSUME NEW j \in 1..(n - 1), IsChange(r[j])
               PROVE  /\ r[j].local # 0 /\ r[j].local # Len(d) + 1
                      /\ r[j].local = m.local => m.local \in a
    OBVIOUS
  <2>1. r[j] = q[j + 1] /\ j + 1 \in 1..Len(q) /\ j + 1 > 1
    BY <1>1 DEF n
  <2>2. q[j + 1].local \in 1..Len(d)
    BY <2>1
  <2>3. x.template \notin a => q[j + 1].local # x.template
    BY <1>2, <2>1 DEF AsksAt
  <2> QED
    BY <1>3, <2>1, <2>2, <2>3
<1>6. /\ IsRow(row) /\ (~new => local \in 1..Len(d) /\ row = d[local])
      /\ new => row.exists /\ row.name = "first" /\ row.markers = <<>> /\ row.inplay = <<>>
  <2>1. new => row = NewRow(m.cgz)
    OBVIOUS
  <2>2. ~new => local \in 1..Len(d) /\ row = d[local] /\ IsRow(d[local])
    BY <1>3
  <2>3. IsRow(NewRow(m.cgz))
    <3>1. <<>> = [i \in DOMAIN <<>> |-> <<>>[i]]
      OBVIOUS
    <3> QED
      BY <3>1 DEF IsRow, NewRow
  <2> HIDE DEF row, local
  <2>4. IsRow(row)
    BY <2>1, <2>2, <2>3
  <2>5. new => row.exists /\ row.name = "first" /\ row.markers = <<>> /\ row.inplay = <<>>
    BY <2>1 DEF NewRow
  <2> QED
    BY <2>2, <2>4, <2>5
<1>7. \A j \in 1..Len(r) : IsChange(r[j]) =>
        r[j].id # id /\ r[j].local # 0 /\ (r[j].local = local => local \in b)
  BY <1>1, <1>4, <1>5
<1>8. Ends(f, id, new, s, s)
  BY <1>2, EndsSilent
<1>9. Ends(f1, id, new, s, s1) /\ IsQueue(f1)
  BY <1>8, EndsSent, QueueSent
<1>10. Ends(f2, id, new, s, s2) /\ IsQueue(f2)
  BY <1>9, EndsSent, QueueSent
<1>11. Ends(f3, id, new, s, s3)
  BY <1>10, EndsSent
<1>12. /\ f \o <<>> = f /\ f \o <<game>> = f1 /\ f \o <<game, dump>> = f2
       /\ f \o <<game, dump, state>> = f3
  <2> HIDE DEF game, dump, state
  <2> QED
    BY JoinOne
<1>13. Opens(m, d, found, listed, states) =
         CASE ~found -> <<>>
           [] found /\ (new \/ ~row.exists) -> <<game>>
           [] found /\ ~new /\ row.exists /\ markers = <<>> -> <<game, dump>>
           [] OTHER -> <<game, dump, state>>
  BY DEF Opens
<1>14. /\ ~row.exists => s1 = [s EXCEPT !.state = "DEAD"]
       /\ row.exists /\ new => s1 = [s EXCEPT !.state = "READY", !.local = local,
                                              !.title = row.name, !.name = row.name]
       /\ row.exists /\ ~new => s1 = [s EXCEPT !.state = "LIST_WAIT", !.local = local,
                                               !.title = row.name]
  BY <1>2, <1>3 DEF Heard
<1>15. /\ IsShown(s1)
       /\ ~row.exists => s1.state = "DEAD" /\ s1.local = 0
       /\ row.exists => s1.local = local /\ s1.title = row.name /\ s1.markers = <<>> /\ s1.captured = {}
       /\ row.exists /\ new => s1.state = "READY" /\ s1.name = row.name
       /\ row.exists /\ ~new => s1.state = "LIST_WAIT"
  <2> HIDE DEF s1
  <2> QED
    BY <1>2, <1>14 DEF IsShown, Blank
<1> HIDE DEF s1
<1>16. row.exists /\ ~new =>
         s2 = [s1 EXCEPT !.state = "READY", !.markers = Over(markers, @), !.name = s1.title]
  BY <1>3, <1>15 DEF Heard
<1>17. Over(markers, <<>>) = markers
  <2>1. DOMAIN <<>> = {}
    OBVIOUS
  <2>2. markers = [i \in DOMAIN markers |-> markers[i]]
    <3>1. <<>> = [i \in DOMAIN <<>> |-> <<>>[i]]
      OBVIOUS
    <3> QED
      BY <1>6, <3>1 DEF IsRow
  <2> HIDE DEF markers
  <2> QED
    BY <2>1, <2>2 DEF Over
<1>18. row.exists /\ ~new =>
         /\ IsShown(s2) /\ s2.state = "READY" /\ s2.local = local /\ s2.name = row.name
         /\ s2.markers = markers /\ s2.captured = {}
  <2> HIDE DEF s2, markers
  <2> QED
    BY <1>15, <1>16, <1>17 DEF IsShown
<1> HIDE DEF s2
<1>19. row.exists /\ ~new =>
         s3 = [s2 EXCEPT !.captured = @ \cup (IF states THEN Captured(row, m.who) ELSE {})]
  BY <1>3, <1>18 DEF Heard
<1>20. row.exists /\ ~new =>
         /\ IsShown(s3) /\ s3.state = "READY" /\ s3.local = local /\ s3.name = row.name
         /\ s3.markers = markers
         /\ states => s3.captured = Captured(row, m.who)
  <2> DEFINE z == Captured(row, m.who)
  <2> HIDE DEF s3, markers, row, z
  <2>1. row.exists /\ ~new => s3 = [s2 EXCEPT !.captured = @ \cup (IF states THEN z ELSE {})]
    BY <1>19 DEF z
  <2>2. row.exists /\ ~new => /\ IsShown(s3) /\ s3.state = "READY" /\ s3.local = local
                              /\ s3.name = row.name /\ s3.markers = markers
                              /\ states => s3.captured = z
    BY <1>18, <2>1 DEF IsShown
  <2> QED
    BY <2>2 DEF z
<1> HIDE DEF s3, f1, f2, f3
<1>21. /\ new /\ found => local \in 1..Len(c) /\ c[local] = row
       /\ ~new => local \in 1..Len(c) /\ c[local] = row
  BY <1>6
<1> HIDE DEF row, game, dump, state
<1>22. CASE ~found
  <2>1. WillSee(x, r, c, b, s)
    BY <1>2 DEF WillSee
  <2>2. Orderly(x, r, b, s)
    BY <1>2, <1>7 DEF Blank, Orderly
  <2>3. f \o Opens(m, d, found, listed, states) = f
    BY <1>12, <1>13, <1>22
  <2> QED
    BY <1>2, <1>3, <1>4, <1>8, <2>1, <2>2, <2>3 DEF Open, r
<1>23. CASE found /\ (new \/ ~row.exists)
  <2>1. f \o Opens(m, d, found, listed, states) = f1
    BY <1>12, <1>13, <1>23
  <2>2. Orderly(x, r, b, s1)
    BY <1>7, <1>15 DEF Orderly
  <2>3. new => Captured(row, x.who) = {}
    BY <1>6 DEF Captured
  <2>4. WillSee(x, r, c, b, s1)
    BY <1>6, <1>15, <1>21, <1>23, <2>3 DEF WillSee, SeesRow
  <2> QED
    BY <1>2, <1>3, <1>4, <1>9, <2>1, <2>2, <2>4 DEF Open, r
<1>24. listed => markers = row.markers
  OBVIOUS
<1>25. ~listed \/ ~states => m.local \in b
  OBVIOUS
<1>26. CASE found /\ ~new /\ row.exists /\ markers = <<>>
  <2>1. f \o Opens(m, d, found, listed, states) = f2
    BY <1>12, <1>13, <1>26
  <2>2. Orderly(x, r, b, s2)
    BY <1>7, <1>18, <1>26 DEF Orderly
  <2>3. listed => Captured(row, x.who) = {}
    <3>1. listed => DOMAIN row.inplay = {}
      BY <1>6, <1>24, <1>26 DEF IsRow
    <3> QED
      BY <3>1 DEF Captured
  <2>4. WillSee(x, r, c, b, s2)
    BY <1>18, <1>21, <1>24, <1>25, <1>26, <2>3 DEF WillSee, SeesRow
  <2> QED
    BY <1>2, <1>3, <1>4, <1>10, <2>1, <2>2, <2>4 DEF Open, r
<1>27. CASE found /\ ~new /\ row.exists /\ markers # <<>>
  <2>1. f \o Opens(m, d, found, listed, states) = f3
    BY <1>12, <1>13, <1>27
  <2>2. Orderly(x, r, b, s3)
    BY <1>7, <1>20, <1>27 DEF Orderly
  <2>3. WillSee(x, r, c, b, s3)
    BY <1>3, <1>20, <1>21, <1>24, <1>25, <1>27 DEF WillSee, SeesRow
  <2> QED
    BY <1>2, <1>3, <1>4, <1>11, <2>1, <2>2, <2>3 DEF Open, r
<1> QED
  BY <1>22, <1>23, <1>26, <1>27

-----------------------------------------------------------------------------
(* A manager and the changes of its game                                   *)

ChangeOps == {"add", "rename", "delete", "renamegame", "capture", "deletegame", "stop"}
IsAsked(m) ==
  m = [op |-> m.op, id |-> m.id, local |-> m.local, who |-> m.who, num |-> m.num,
       name |-> m.name, cgz |-> m.cgz]

\* What comes of a statement that did not fail, or was in doubt and tried again.
LEMMA TriesAre ==
  ASSUME NEW m, NEW try \in Tries, NEW out, out = Outcome(m, try)
  PROVE  out # "ERROR" =>
           /\ Applied(try)
           /\ \/ out = Result(m)
              \/ m.op \in {"delete", "deletegame"} /\ Result(m) = "NOT_FOUND" /\ out = "OK"
              \/ m.op = "capture" /\ Result(m) = "EXISTS" /\ out = "OK"
<1>1. ASSUME out # "ERROR"  PROVE try[Len(try)] = "done"
  BY <1>1 DEF Outcome
<1>2. ASSUME out # "ERROR"  PROVE Applied(try)
  BY <1>1, <1>2 DEF Tries, Applied, ToSet
<1> QED
  BY <1>1, <1>2 DEF Outcome

\* What an update makes of the row u.
Updates(m, u, r) ==
  /\ m.op # "deletegame" => r.exists = u.exists
  /\ m.op = "deletegame" => ~r.exists
  /\ r.name = IF m.op = "renamegame" THEN m.name ELSE u.name
  /\ m.op = "add" => r.markers = Put(u.markers, u.next, m.name)
  /\ m.op = "rename" => r.markers = Put(u.markers, m.num, m.name)
  /\ m.op = "delete" => r.markers = Drop(u.markers, m.num) /\ r.inplay = Drop(u.inplay, m.num)
  /\ m.op = "capture" => r.inplay = Put(u.inplay, m.num, m.who)
  /\ m.op = "stop" => DOMAIN r.inplay \subseteq DOMAIN u.inplay /\ Captured(r, m.who) = {}
  /\ m.op \in {"add", "rename", "renamegame"} => r.inplay = u.inplay
  /\ m.op \in {"renamegame", "capture", "stop"} => r.markers = u.markers

\* The row that it makes is one.
LEMMA UpdatedIs ==
  ASSUME NEW m, m.op \in ChangeOps, IsRow(Row(m)), Result(m) = "OK",
         NEW r, r = Updated(m)
  PROVE  IsRow(r) /\ Updates(m, Row(m), r)
<1> DEFINE Rec(v) == v = [exists |-> v.exists, cgz |-> v.cgz, referred |-> v.referred, name |-> v.name,
                          next |-> v.next, markers |-> v.markers, inplay |-> v.inplay]
           Fun(f) == f = [i \in DOMAIN f |-> f[i]]
<1>0. PICK u : u = Row(m)
  OBVIOUS
<1>1. Rec(u) /\ Fun(u.markers) /\ DOMAIN u.inplay \subseteq DOMAIN u.markers
  BY <1>0 DEF IsRow
<1>2. ASSUME NEW f, NEW i, NEW v  PROVE Fun(Put(f, i, v)) /\ DOMAIN Put(f, i, v) = DOMAIN f \cup {i}
  BY DEF Put
<1>3. ASSUME NEW f, NEW i  PROVE Fun(Drop(f, i)) /\ DOMAIN Drop(f, i) = DOMAIN f \ {i}
  BY DEF Drop
<1>a. Fun(<<>>) /\ DOMAIN <<>> = {}
  OBVIOUS
<1>b. Rec(r) /\ Fun(r.markers) /\ DOMAIN r.inplay \subseteq DOMAIN r.markers => IsRow(r)
  BY DEF IsRow
<1>4. CASE m.op = "deletegame"
  <2>1. r = [u EXCEPT !.exists = FALSE, !.markers = <<>>, !.inplay = <<>>]
    BY <1>0, <1>4 DEF Updated
  <2>2. Rec(r) /\ ~r.exists /\ r.name = u.name /\ r.markers = <<>> /\ r.inplay = <<>>
    BY <1>1, <2>1
  <2> HIDE DEF Rec, Fun
  <2> QED
    BY <1>0, <1>4, <1>a, <1>b, <2>2 DEF Updates
<1>5. CASE m.op = "renamegame"
  <2>1. r = [u EXCEPT !.name = m.name]
    BY <1>0, <1>5 DEF Updated
  <2>2. /\ Rec(r) /\ r.exists = u.exists /\ r.name = m.name
        /\ r.markers = u.markers /\ r.inplay = u.inplay
    BY <1>1, <2>1
  <2> HIDE DEF Rec, Fun
  <2> QED
    BY <1>0, <1>1, <1>5, <1>b, <2>2 DEF Updates
<1>6. CASE m.op = "add"
  <2> DEFINE new == Put(u.markers, u.next, m.name)
  <2>1. r = [u EXCEPT !.markers = new, !.next = @ + 1]
    BY <1>0, <1>6 DEF Updated
  <2>2. Fun(new) /\ DOMAIN new = DOMAIN u.markers \cup {u.next}
    BY <1>2
  <2> HIDE DEF new
  <2>3. /\ Rec(r) /\ r.exists = u.exists /\ r.name = u.name
        /\ r.markers = new /\ r.inplay = u.inplay
    BY <1>1, <2>1
  <2> HIDE DEF Rec, Fun
  <2> QED
    BY <1>0, <1>1, <1>6, <1>b, <2>2, <2>3 DEF Updates, new
<1>7. CASE m.op = "rename"
  <2> DEFINE new == Put(u.markers, m.num, m.name)
  <2>1. r = [u EXCEPT !.markers[m.num] = m.name] /\ m.num \in DOMAIN u.markers
    BY <1>0, <1>7 DEF Updated, Result, Fits
  <2>2. Fun(new) /\ DOMAIN new = DOMAIN u.markers \cup {m.num}
    BY <1>2
  <2>3. [u.markers EXCEPT ![m.num] = m.name] = new
    <3>1. DOMAIN u.markers \cup {m.num} = DOMAIN u.markers
      BY <2>1
    <3> QED
      BY <1>1, <3>1 DEF Put
  <2> HIDE DEF new
  <2>4. r = [u EXCEPT !.markers = new]
    BY <2>1, <2>3
  <2>5. /\ Rec(r) /\ r.exists = u.exists /\ r.name = u.name
        /\ r.markers = new /\ r.inplay = u.inplay
    BY <1>1, <2>4
  <2> HIDE DEF Rec, Fun
  <2> QED
    BY <1>0, <1>1, <1>7, <1>b, <2>2, <2>5 DEF Updates, new
<1>8. CASE m.op = "delete"
  <2> DEFINE left == Drop(u.markers, m.num)
             play == Drop(u.inplay, m.num)
  <2>1. r = [u EXCEPT !.markers = left, !.inplay = play]
    BY <1>0, <1>8 DEF Updated
  <2>2. /\ Fun(left) /\ DOMAIN left = DOMAIN u.markers \ {m.num}
        /\ DOMAIN play = DOMAIN u.inplay \ {m.num}
    BY <1>3
  <2> HIDE DEF left, play
  <2>3. /\ Rec(r) /\ r.exists = u.exists /\ r.name = u.name
        /\ r.markers = left /\ r.inplay = play
    BY <1>1, <2>1
  <2> HIDE DEF Rec, Fun
  <2> QED
    BY <1>0, <1>1, <1>8, <1>b, <2>2, <2>3 DEF Updates, left, play
<1>9. CASE m.op = "capture"
  <2> DEFINE play == Put(u.inplay, m.num, m.who)
  <2>1. r = [u EXCEPT !.inplay = play] /\ m.num \in DOMAIN u.markers
    BY <1>0, <1>9 DEF Updated, Result, Fits
  <2>2. DOMAIN play = DOMAIN u.inplay \cup {m.num}
    BY <1>2
  <2> HIDE DEF play
  <2>3. /\ Rec(r) /\ r.exists = u.exists /\ r.name = u.name
        /\ r.markers = u.markers /\ r.inplay = play
    BY <1>1, <2>1
  <2> HIDE DEF Rec, Fun
  <2> QED
    BY <1>0, <1>1, <1>9, <1>b, <2>1, <2>2, <2>3 DEF Updates, play
<1>10. CASE m.op = "stop"
  <2> DEFINE play == [i \in {j \in DOMAIN u.inplay : u.inplay[j] # m.who} |-> u.inplay[i]]
  <2>1. r = [u EXCEPT !.inplay = play]
    BY <1>0, <1>10 DEF Updated
  <2>2. DOMAIN play \subseteq DOMAIN u.inplay /\ {i \in DOMAIN play : play[i] = m.who} = {}
    OBVIOUS
  <2> HIDE DEF play
  <2>3. /\ Rec(r) /\ r.exists = u.exists /\ r.name = u.name
        /\ r.markers = u.markers /\ r.inplay = play
    BY <1>1, <2>1
  <2>4. Captured(r, m.who) = {}
    BY <2>2, <2>3 DEF Captured
  <2> HIDE DEF Rec, Fun
  <2> QED
    BY <1>0, <1>1, <1>10, <1>b, <2>2, <2>3, <2>4 DEF Updates
<1> QED
  BY <1>4, <1>5, <1>6, <1>7, <1>8, <1>9, <1>10 DEF ChangeOps

\* What the captures of a row become.
LEMMA CapturedMore ==
  ASSUME NEW u, NEW r, NEW i, NEW p, r.inplay = Put(u.inplay, i, p)
  PROVE  Captured(r, p) \subseteq Captured(u, p) \cup {i}
  BY DEF Captured, Put

\* What is left to see of the row u once it is r, for a client told e and then z.
StillSees(m, u, r, e, z) ==
  /\ z.name = r.name /\ z.markers = r.markers
  /\ Captured(u, m.who) \subseteq e.captured => Captured(r, m.who) \subseteq z.captured
  /\ m.op = "stop" => Captured(r, m.who) = {}

\* A client that saw the row sees what the change made of it, told of it or not.
LEMMA SeesChange ==
  ASSUME NEW m, m.op \in ChangeOps, IsAsked(m), IsRow(Row(m)), Row(m).exists,
         NEW out, out # "ERROR",
         \/ out = Result(m)
         \/ m.op \in {"delete", "deletegame"} /\ Result(m) = "NOT_FOUND" /\ out = "OK"
         \/ m.op = "capture" /\ Result(m) = "EXISTS" /\ out = "OK",
         NEW r, r = IF Result(m) = "OK" THEN Updated(m) ELSE Row(m), r.exists,
         NEW e, IsShown(e), e.state = "READY", e.name = Row(m).name, e.markers = Row(m).markers,
         NEW new, NEW z, z.state = "READY",
         \/ Reply(m, out) = <<>> /\ z = e
         \/ \E y : Reply(m, out) = <<y>> /\ z = Heard(m.id, new, e, y)
  PROVE  StillSees(m, Row(m), r, e, z)
<1>0. PICK u : u = Row(m)
  OBVIOUS
<1>1. Result(m) = "OK" => Updates(m, u, r)
  BY <1>0, UpdatedIs
<1>2. Result(m) # "OK" => r = u
  BY <1>0
<1>3. /\ u.markers = [i \in DOMAIN u.markers |-> u.markers[i]]
      /\ DOMAIN u.inplay \subseteq DOMAIN u.markers /\ u.exists
      /\ e.name = u.name /\ e.markers = u.markers
  BY <1>0 DEF IsRow
<1>4. ASSUME NEW w, Reply(m, out) = <<w>>  PROVE z = Heard(m.id, new, e, w)
  <2>1. <<w>> # <<>>
    OBVIOUS
  <2>2. PICK y : <<y>> = <<w>> /\ z = Heard(m.id, new, e, y)
    BY <1>4, <2>1
  <2>3. y = w
    BY <2>2
  <2> QED
    BY <2>2, <2>3
<1>5. ASSUME m.op # "deletegame", m.op # "stop", out = "OK"
      PROVE  \E y : /\ z = Changed(e, y) /\ y.op = m.op /\ y.name = m.name
                    /\ y.num = IF m.op = "add" THEN u.next ELSE m.num
  <2> DEFINE w == IF m.op = "add" THEN [m EXCEPT !.num = u.next] ELSE m
  <2>1. Reply(m, out) = <<w>>
    BY <1>0, <1>5 DEF Reply
  <2>2. w.op = m.op /\ w.id = m.id /\ w.name = m.name /\ w.num = IF m.op = "add" THEN u.next ELSE m.num
    <3>1. ASSUME NEW v  PROVE /\ [m EXCEPT !.num = v].op = m.op /\ [m EXCEPT !.num = v].id = m.id
                              /\ [m EXCEPT !.num = v].name = m.name /\ [m EXCEPT !.num = v].num = v
      BY DEF IsAsked
    <3> QED
      BY <3>1
  <2> HIDE DEF w
  <2>3. z = Heard(m.id, new, e, w)
    BY <1>4, <2>1
  <2>4. z = Changed(e, w)
    BY <1>5, <2>2, <2>3 DEF Heard, ChangeOps
  <2> QED
    BY <2>2, <2>4
<1>6. ASSUME m.op # "deletegame", m.op = "stop" \/ out # "OK"  PROVE z = e
  <2>1. Reply(m, out) = <<>>
    BY <1>6 DEF Reply
  <2>2. \A y : <<y>> # <<>>
    OBVIOUS
  <2> QED
    BY <2>1, <2>2
<1>7. /\ Captured(u, m.who) = {j \in DOMAIN u.inplay : u.inplay[j] = m.who}
      /\ Captured(r, m.who) = {j \in DOMAIN r.inplay : r.inplay[j] = m.who}
  BY DEF Captured
<1> SUFFICES StillSees(m, u, r, e, z)
  BY <1>0
<1> USE DEF StillSees
<1>8. CASE m.op = "deletegame"
  <2>1. Result(m) # "OK"
    BY <1>1, <1>8 DEF Updates
  <2>2. Result(m) = "INVALID" /\ out = "INVALID"
    BY <2>1, <1>0, <1>3, <1>8 DEF Result
  <2> DEFINE w == [m EXCEPT !.num = 1]
  <2>3. Reply(m, out) = <<w>>
    BY <2>2, <1>8 DEF Reply
  <2>4. w.op = "deletegame" /\ w.num = 1 /\ w.id = m.id
    BY <1>8 DEF IsAsked
  <2> HIDE DEF w
  <2>5. z = Heard(m.id, new, e, w)
    BY <1>4, <2>3
  <2>6. z = Changed(e, w)
    BY <2>4, <2>5 DEF Heard
  <2>7. z.state = "DEAD"
    BY <2>4, <2>6 DEF Changed, IsShown
  <2> QED
    BY <2>7
<1>9. CASE m.op = "stop"
  <2>1. Result(m) = "OK" /\ z = e
    BY <1>6, <1>9 DEF Result
  <2>2. Captured(r, m.who) = {} /\ r.name = u.name /\ r.markers = u.markers
    BY <1>1, <1>9, <2>1 DEF Updates
  <2> QED
    BY <1>3, <2>1, <2>2
<1>10. CASE m.op \in {"renamegame", "add", "rename"} /\ Result(m) = "OK"
  <2>1. PICK y : /\ z = Changed(e, y) /\ y.op = m.op /\ y.name = m.name
                 /\ y.num = IF m.op = "add" THEN u.next ELSE m.num
    BY <1>5, <1>10
  <2>2. z.captured = e.captured /\ r.inplay = u.inplay
    BY <1>1, <1>10, <2>1 DEF Changed, IsShown, Updates
  <2>3. CASE m.op = "renamegame"
    <3>1. z.name = m.name /\ z.markers = e.markers
      BY <2>1, <2>3 DEF Changed, IsShown
    <3>2. r.name = m.name /\ r.markers = u.markers
      BY <1>1, <1>10, <2>3 DEF Updates
    <3> QED
      BY <1>3, <1>7, <1>10, <2>2, <3>1, <3>2
  <2>4. CASE m.op # "renamegame"
    <3> DEFINE new2 == Put(u.markers, y.num, m.name)
    <3>1. z.name = e.name /\ z.markers = new2
      <4> HIDE DEF new2
      <4>1. new2 = Put(e.markers, y.num, y.name)
        BY <1>3, <2>1 DEF new2
      <4> QED
        BY <1>10, <2>1, <2>4, <4>1 DEF Changed, IsShown
    <3>2. r.name = u.name /\ r.markers = new2
      BY <1>1, <1>10, <2>1, <2>4 DEF Updates
    <3> HIDE DEF new2
    <3> QED
      BY <1>3, <1>7, <1>10, <2>2, <3>1, <3>2
  <2> QED
    BY <2>3, <2>4
<1>11. CASE m.op \in {"renamegame", "add", "rename"} /\ Result(m) # "OK"
  <2>1. out # "OK" /\ z = e /\ r = u
    BY <1>2, <1>6, <1>11
  <2> QED
    BY <1>3, <1>11, <2>1
<1>12. CASE m.op = "delete"
  <2>1. m.num \in DOMAIN u.markers => Result(m) = "OK"
    BY <1>0, <1>12 DEF Result, Fits
  <2>3. CASE out = "OK"
    <3>1. PICK y : z = Changed(e, y) /\ y.op = m.op /\ y.num = m.num
      BY <1>5, <1>12, <2>3
    <3>2. z.name = e.name /\ z.markers = Drop(e.markers, m.num) /\ z.captured = e.captured \ {m.num}
      BY <1>12, <3>1 DEF Changed, IsShown
    <3>3. CASE Result(m) = "OK"
      <4>1. r.name = u.name /\ r.markers = Drop(u.markers, m.num) /\ r.inplay = Drop(u.inplay, m.num)
        BY <1>1, <1>12, <3>3 DEF Updates
      <4>2. Captured(r, m.who) \subseteq Captured(u, m.who) \ {m.num}
        <5>1. DOMAIN r.inplay = DOMAIN u.inplay \ {m.num} /\ \A j \in DOMAIN r.inplay : r.inplay[j] = u.inplay[j]
          BY <4>1 DEF Drop
        <5> QED
          BY <1>7, <5>1
      <4> QED
        BY <1>3, <1>12, <3>2, <4>1, <4>2
    <3>4. CASE Result(m) # "OK"
      <4>1. r = u /\ m.num \notin DOMAIN u.markers /\ m.num \notin DOMAIN u.inplay
        BY <1>2, <1>3, <2>1, <3>4
      <4>2. u.markers = Drop(u.markers, m.num)
        <5>1. DOMAIN u.markers \ {m.num} = DOMAIN u.markers
          BY <4>1
        <5> QED
          BY <1>3, <5>1 DEF Drop
      <4>3. m.num \notin Captured(u, m.who)
        BY <1>7, <4>1
      <4> QED
        BY <1>3, <1>12, <3>2, <4>1, <4>2, <4>3
    <3> QED
      BY <3>3, <3>4
  <2>4. CASE out # "OK"
    <3>1. z = e /\ r = u
      BY <1>2, <1>6, <1>12, <2>4
    <3> QED
      BY <1>3, <1>12, <3>1
  <2> QED
    BY <2>3, <2>4
<1>13. CASE m.op = "capture"
  <2>1. CASE out = "OK"
    <3>1. PICK y : z = Changed(e, y) /\ y.op = m.op /\ y.num = m.num
      BY <1>5, <1>13, <2>1
    <3>2. z.name = e.name /\ z.markers = e.markers /\ z.captured = e.captured \cup {m.num}
      BY <1>13, <3>1 DEF Changed, IsShown
    <3>3. r.name = u.name /\ r.markers = u.markers
          /\ (r.inplay = u.inplay \/ r.inplay = Put(u.inplay, m.num, m.who))
      BY <1>1, <1>2, <1>13 DEF Updates
    <3>4. Captured(r, m.who) \subseteq Captured(u, m.who) \cup {m.num}
      <4>1. CASE r.inplay = u.inplay
        BY <1>7, <4>1
      <4>2. CASE r.inplay = Put(u.inplay, m.num, m.who)
        BY <4>2, CapturedMore
      <4> QED
        BY <3>3, <4>1, <4>2
    <3> QED
      BY <1>3, <1>13, <3>2, <3>3, <3>4
  <2>2. CASE out # "OK"
    <3>1. z = e /\ r = u
      BY <1>2, <1>6, <1>13, <2>2
    <3> QED
      BY <1>3, <1>13, <3>1
  <2> QED
    BY <2>1, <2>2
<1> HIDE DEF StillSees
<1> QED
  BY <1>8, <1>9, <1>10, <1>11, <1>12, <1>13 DEF ChangeOps

\* The database after a change.
LEMMA RowsAre ==
  ASSUME NEW q, q = db, IsQueue(q), NEW m, m.local \in 1..Len(q), NEW try, NEW c,
         c = IF Applied(try) THEN Committed(m) ELSE q
  PROVE  /\ IsQueue(c) /\ Len(c) = Len(q) /\ Len(q) \in Nat
         /\ \A g \in 1..Len(q) : g # m.local => c[g] = q[g]
         /\ c[m.local] = IF Applied(try) /\ Result(m) = "OK" THEN Updated(m) ELSE Row(m)
<1>1. PICK S : q \in Seq(S)
  BY DEF IsQueue
<1>2. CASE Applied(try) /\ Result(m) = "OK"
  <2> DEFINE r == Updated(m)
  <2>1. c = [q EXCEPT ![m.local] = r]
    BY <1>2 DEF Committed
  <2>2. q \in Seq(S \cup {r}) /\ r \in S \cup {r}
    BY <1>1
  <2> HIDE DEF r
  <2>3. c \in Seq(S \cup {r}) /\ Len(c) = Len(q)
    BY <2>1, <2>2, ExceptSeq
  <2>4. (\A g \in 1..Len(q) : g # m.local => c[g] = q[g]) /\ c[m.local] = r
    BY <1>1, <2>1
  <2> QED
    BY <1>1, <1>2, <2>3, <2>4 DEF IsQueue, r
<1>3. CASE ~(Applied(try) /\ Result(m) = "OK")
  <2>1. c = q
    BY <1>3 DEF Committed
  <2> QED
    BY <1>1, <1>3, <2>1 DEF IsQueue, Row
<1> QED
  BY <1>2, <1>3

\* An answer repeats the request.
LEMMA ReplyIs ==
  ASSUME NEW m, IsAsked(m), NEW out
  PROVE  Reply(m, out) = <<>> \/ \E y : Reply(m, out) = <<y>> /\ y.op = m.op /\ y.id = m.id
<1>1. ASSUME NEW v  PROVE [m EXCEPT !.num = v].op = m.op /\ [m EXCEPT !.num = v].id = m.id
  BY DEF IsAsked
<1> DEFINE u == [m EXCEPT !.num = IF out \in {"OK", "INVALID"} THEN 1 ELSE 0]
           w == IF m.op = "add" THEN [m EXCEPT !.num = Row(m).next] ELSE m
<1>2. u.op = m.op /\ u.id = m.id /\ w.op = m.op /\ w.id = m.id
  BY <1>1
<1>3. Reply(m, out) \in {<<u>>, <<w>>, <<>>}
  BY DEF Reply
<1> HIDE DEF u, w
<1> QED
  BY <1>2, <1>3

\* What an answer to a change does.
LEMMA HeardOfChange ==
  ASSUME NEW id, NEW new, NEW e, IsShown(e), e.state \in {"INIT", "START", "READY", "DEAD"},
         NEW y, y.op \in ChangeOps, NEW z, z = Heard(id, new, e, y)
  PROVE  /\ IsShown(z) /\ z.state \in {"INIT", "START", "READY", "DEAD"} /\ z.local = e.local
         /\ z.state = "READY" => e.state = "READY"
<1>1. z = e \/ (e.state = "READY" /\ z = Changed(e, y))
  BY DEF Heard, ChangeOps
<1>2. ASSUME NEW w, w = Changed(e, y)
      PROVE  IsShown(w) /\ w.local = e.local /\ w.state \in {e.state, "DEAD"}
  BY <1>2 DEF Changed, IsShown
<1> QED
  BY <1>1, <1>2

\* A change of the manager's own game is done.
LEMMA OwnChanged ==
  ASSUME NEW q, IsQueue(q), q # <<>>, NEW f, IsQueue(f), NEW d, d = db, IsQueue(d),
         NEW a, a = apart, NEW x, Open(x, q, f, d, a),
         NEW m, m = Head(q), m.op \in ChangeOps, IsAsked(m), m.id = x.id,
         m.local \in 1..Len(d), IsRow(Row(m)),
         NEW try \in Tries, NEW out, out = Outcome(m, try),
         NEW c, c = IF Applied(try) THEN Committed(m) ELSE d,
         NEW b, b = IF out = "ERROR" THEN a \cup {m.local} ELSE a
  PROVE  Open(x, Tail(q), f \o Reply(m, out), c, b)
<1> DEFINE r == Tail(q)
           n == Len(q)
           new == x.template = 0
<1>1. /\ n \in Nat /\ n > 0 /\ Len(r) = n - 1 /\ m = q[1] /\ 1 \in 1..n
      /\ \A i \in 1..(n - 1) : r[i] = q[i + 1] /\ i + 1 \in 1..n
  BY QueueRead
<1> HIDE DEF r
<1>2. PICK e : /\ Ends(f, x.id, new, x.shown, e)
               /\ Orderly(x, q, a, e) /\ WillSee(x, q, d, a, e)
  BY DEF Open
<1>3. IsChange(m) /\ m.local = e.local /\ m.who = x.who
  <2>1. IsChange(m)
    BY DEF IsChange, ChangeOps
  <2> QED
    BY <1>1, <1>2, <2>1 DEF Orderly
<1>4. PICK z : /\ Ends(f \o Reply(m, out), x.id, new, x.shown, z)
               /\ IsShown(z) /\ z.state \in {"INIT", "START", "READY", "DEAD"} /\ z.local = e.local
               /\ z.state = "READY" => e.state = "READY"
               /\ \/ Reply(m, out) = <<>> /\ z = e
                  \/ \E y : Reply(m, out) = <<y>> /\ z = Heard(m.id, new, e, y)
  <2>1. CASE Reply(m, out) = <<>>
    <3>1. f \o <<>> = f
      BY JoinOne
    <3> QED
      BY <1>2, <2>1, <3>1 DEF WillSee
  <2>2. ASSUME NEW y, Reply(m, out) = <<y>>, y.op = m.op, y.id = m.id
        PROVE  \E z : /\ Ends(f \o Reply(m, out), x.id, new, x.shown, z)
                      /\ IsShown(z) /\ z.state \in {"INIT", "START", "READY", "DEAD"} /\ z.local = e.local
                      /\ z.state = "READY" => e.state = "READY"
                      /\ \/ Reply(m, out) = <<>> /\ z = e
                         \/ \E w : Reply(m, out) = <<w>> /\ z = Heard(m.id, new, e, w)
    <3> DEFINE z == Heard(m.id, new, e, y)
    <3>1. f \o <<y>> = Append(f, y)
      BY JoinOne
    <3>2. Ends(Append(f, y), x.id, new, x.shown, z)
      BY <1>2, EndsSent
    <3>3. /\ IsShown(z) /\ z.state \in {"INIT", "START", "READY", "DEAD"} /\ z.local = e.local
          /\ z.state = "READY" => e.state = "READY"
      BY <1>2, <2>2, HeardOfChange DEF WillSee
    <3>4. \E w : Reply(m, out) = <<w>> /\ z = Heard(m.id, new, e, w)
      BY <2>2
    <3> HIDE DEF z
    <3> QED
      BY <2>2, <3>1, <3>2, <3>3, <3>4
  <2> QED
    BY <2>1, <2>2, ReplyIs
<1>5. Orderly(x, r, b, z)
  <2>1. ASSUME NEW j \in 1..(n - 1), IsChange(r[j])
        PROVE  /\ r[j].id = x.id => r[j].local = z.local /\ r[j].who = x.who
               /\ r[j].local = z.local /\ z.local \notin b => r[j].id = x.id
    <3>1. r[j] = q[j + 1] /\ j + 1 \in 1..n /\ IsChange(q[j + 1])
      BY <1>1, <2>1
    <3>2. z.local \notin b => e.local \notin a
      BY <1>4
    <3> QED
      BY <1>2, <1>4, <3>1, <3>2 DEF Orderly
  <2> QED
    BY <1>1, <2>1 DEF Orderly
<1>6. AsksNone(x, r)
  BY <1>1 DEF AsksNone, Open
<1>7. /\ Len(c) = Len(d) /\ Len(d) \in Nat
      /\ c[m.local] = IF Applied(try) /\ Result(m) = "OK" THEN Updated(m) ELSE Row(m)
  BY RowsAre
<1>8. m.op # "stop" /\ StopSent(x, q) => StopSent(x, r)
  <2>1. ASSUME m.op # "stop", NEW j \in 1..n, q[j].op = "stop", q[j].id = x.id
        PROVE  StopSent(x, r)
    <3>1. j # 1
      BY <1>1, <2>1
    <3>2. j - 1 \in 1..(n - 1) /\ r[j - 1] = q[j]
      BY <1>1, <3>1
    <3> QED
      BY <1>1, <2>1, <3>2 DEF StopSent
  <2> QED
    BY <2>1 DEF StopSent
<1>9. ASSUME z.state = "READY", z.local \notin b, c[z.local].exists
      PROVE  SeesRow(x, r, c[z.local], z)
  <2> DEFINE u == c[m.local]
  <2>1. out # "ERROR" /\ e.local \notin a
    BY <1>3, <1>4, <1>9
  <2>2. /\ Applied(try)
        /\ \/ out = Result(m)
           \/ m.op \in {"delete", "deletegame"} /\ Result(m) = "NOT_FOUND" /\ out = "OK"
           \/ m.op = "capture" /\ Result(m) = "EXISTS" /\ out = "OK"
    BY <2>1, TriesAre
  <2>3. u = IF Result(m) = "OK" THEN Updated(m) ELSE Row(m)
    BY <1>7, <2>2
  <2>4. u.exists
    BY <1>3, <1>4, <1>9
  <2> HIDE DEF u
  <2>5. Row(m) = d[e.local]
    BY <1>3 DEF Row
  <2>6. Row(m).exists
    <3>1. CASE Result(m) = "OK"
      <4>1. Updates(m, Row(m), u)
        BY <2>3, <3>1, UpdatedIs
      <4> QED
        BY <2>4, <4>1 DEF Updates
    <3>2. CASE Result(m) # "OK"
      BY <2>3, <2>4, <3>2
    <3> QED
      BY <3>1, <3>2
  <2>7. SeesRow(x, q, Row(m), e) /\ e.state = "READY" /\ IsShown(e)
    BY <1>2, <1>4, <1>9, <2>1, <2>5, <2>6 DEF WillSee
  <2>8. e.name = Row(m).name /\ e.markers = Row(m).markers
        /\ (StopSent(x, q) \/ Captured(Row(m), m.who) \subseteq e.captured)
    BY <1>3, <2>7 DEF SeesRow
  <2>9. StillSees(m, Row(m), u, e, z)
    <3> HIDE DEF new
    <3>1. IsRow(Row(m)) /\ m.op \in ChangeOps /\ IsAsked(m)
      OBVIOUS
    <3>2. \/ Reply(m, out) = <<>> /\ z = e
          \/ \E y : Reply(m, out) = <<y>> /\ z = Heard(m.id, new, e, y)
      BY <1>4
    <3> QED
      BY ONLY <1>9, <2>1, <2>2, <2>3, <2>4, <2>6, <2>7, <2>8, <3>1, <3>2, SeesChange
  <2>10. SeesRow(x, r, u, z)
    BY <1>3, <1>8, <2>8, <2>9 DEF SeesRow, StillSees
  <2> QED
    BY <1>3, <1>4, <2>10 DEF u
<1>10. WillSee(x, r, c, b, z)
  <2>1. z.state = "READY" => z.local \in 1..Len(c)
    BY <1>2, <1>4, <1>7 DEF WillSee
  <2> QED
    BY <1>4, <1>9, <2>1 DEF WillSee
<1> QED
  BY <1>4, <1>5, <1>6, <1>10 DEF Open, r

-----------------------------------------------------------------------------
(* What is true of the marker games of an age                              *)

IsMark(k) ==
  k = [state |-> k.state, template |-> k.template, local |-> k.local, cgz |-> k.cgz,
       name |-> k.name, visit |-> k.visit, form |-> k.form]
IsView(v) == v = [name |-> v.name, markers |-> v.markers, captured |-> v.captured]
Owners == [id : Nat, owner : Nat, players : Seq(Nat), setups : Seq([who : Players, template : Nat])]
IsManager(g, k, v, ids, games) ==
  /\ g \in Owners /\ g.id < ids /\ IsMark(k) /\ IsView(v)
  /\ k.template \in 0..games /\ k.local \in 0..games
  /\ k.state \in {"LIST_WAIT", "READY", "PLAYING"} => k.local # 0

IsRequest(m, ids, games) ==
  \/ m = [op |-> "nextid"]
  \/ /\ IsAsked(m) /\ m.op \in ChangeOps \cup {"newgame"}
     /\ m.id \in Nat \ {0} /\ m.id < ids /\ m.local \in 0..games
     /\ m.op # "newgame" => m.local # 0
AnswerOps == {"nextid", "newgame", "dump", "state"} \cup (ChangeOps \ {"stop"})
IsAnswer(m, ids, games) ==
  /\ m.op \in AnswerOps /\ m.id \in Nat \ {0} /\ m.id < ids
  /\ m.op = "newgame" => m.local \in 1..games

MarkTyped ==
  /\ DOMAIN mark = DOMAIN mgrs /\ DOMAIN view = DOMAIN mgrs
  /\ IsQueue(db) /\ \A g \in 1..Len(db) : IsRow(db[g])
  /\ next_id \in Nat \ {0}
  /\ \A n \in DOMAIN mgrs : IsManager(mgrs[n], mark[n], view[n], next_id, Len(db))
  /\ \A j \in 1..Len(toVault) : IsRequest(toVault[j], next_id, Len(db))
  /\ \A j \in 1..Len(fromVault) : IsAnswer(fromVault[j], next_id, Len(db))

\* The ID of an answer that comes at place k is nobody's yet.
NotUsed(ms, q, f, id, k) ==
  /\ \A n \in DOMAIN ms : ms[n].id # id
  /\ \A j \in 1..Len(q) : q[j].op # "nextid" => q[j].id # id
  /\ \A j \in 1..Len(f) : f[j].id = id => j = k
MarkIds ==
  /\ \A n, k \in DOMAIN mgrs : mgrs[n].id = mgrs[k].id /\ mgrs[n].id # 0 => n = k
  /\ \A i \in DOMAIN waiting : mgrs[waiting[i]].id = 0
  /\ \A j \in 1..Len(fromVault) : fromVault[j].op = "nextid" =>
       NotUsed(mgrs, toVault, fromVault, fromVault[j].id, j)

\* Two managers have a game only if it is known to be apart.
Sole ==
  \A n, k \in DOMAIN mgrs : n # k =>
    \A g : Has(Own(n), fromVault, g) /\ Has(Own(k), fromVault, g) => g \in apart
Stages == \A n \in DOMAIN mgrs : Staged(Own(n), toVault, fromVault, db, apart)

MarkInv == MarkTyped /\ MarkIds /\ Sole /\ Stages

\* The parts of a manager, and of what its client was told.
LEMMA OwnIs ==
  ASSUME NEW n
  PROVE  /\ IsShown(Own(n).shown) /\ Own(n).id = mgrs[n].id /\ Own(n).who = mgrs[n].owner
         /\ Own(n).template = mark[n].template /\ Own(n).shown = Shown(n)
         /\ Own(n).shown.local = mark[n].local
         /\ Own(n).shown.state = IF mark[n].state = "PLAYING" THEN "READY" ELSE mark[n].state
  BY DEF Own, Shown, IsShown

\* A manager that a step leaves alone.
LEMMA OwnStays ==
  ASSUME NEW n, mgrs'[n] = mgrs[n], mark'[n] = mark[n], view'[n] = view[n]
  PROVE  Own(n)' = Own(n)
  BY DEF Own, Shown

\* The places of a queue are those of another, or hold one of M.
Drawn(r, q, M) ==
  /\ IsQueue(r)
  /\ \A j \in 1..Len(r) : r[j] \in M \/ \E i \in 1..Len(q) : r[j] = q[i]

\* A queue that is sent to, and one that is read.
LEMMA DrawnSent ==
  ASSUME NEW q, IsQueue(q), NEW m
  PROVE  Drawn(Append(q, m), q, {m})
<1> DEFINE r == Append(q, m)
           n == Len(q)
<1>1. /\ IsQueue(r) /\ n \in Nat /\ Len(r) = n + 1 /\ r[n + 1] = m
      /\ \A i \in 1..n : r[i] = q[i]
  BY QueueSent
<1> HIDE DEF r, n
<1>2. ASSUME NEW j \in 1..(n + 1)  PROVE r[j] \in {m} \/ \E i \in 1..n : r[j] = q[i]
  <2>1. j \in 1..n \/ j = n + 1
    BY <1>1
  <2> QED
    BY <1>1, <2>1
<1> QED
  BY <1>1, <1>2 DEF Drawn, r, n

\* The queue without its front.
LEMMA DrawnRead ==
  ASSUME NEW q, IsQueue(q), q # <<>>
  PROVE  Drawn(Tail(q), q, {})
<1> DEFINE r == Tail(q)
           n == Len(q)
<1>1. /\ IsQueue(r) /\ n \in Nat /\ Len(r) = n - 1
      /\ \A i \in 1..(n - 1) : r[i] = q[i + 1] /\ i + 1 \in 1..n
  BY QueueRead
<1> HIDE DEF r, n
<1> QED
  BY <1>1 DEF Drawn, r, n

\* A manager keeps its form while IDs and games come.
LEMMA ManagerGrows ==
  ASSUME NEW a, NEW b, NEW c, NEW i \in Nat, NEW h \in Nat, i <= h,
         NEW g \in Nat, NEW k \in Nat, g <= k, IsManager(a, b, c, i, g)
  PROVE  IsManager(a, b, c, h, k)
  BY DEF IsManager, Owners

\* What a step needs to keep apart the games of managers that are not new.
LEMMA SoleKeeps ==
  ASSUME Sole, apart \subseteq apart', DOMAIN mgrs' \subseteq DOMAIN mgrs,
         \A n \in DOMAIN mgrs' : \A g : Has(Own(n)', fromVault', g) => Has(Own(n), fromVault, g)
  PROVE  Sole'
  BY DEF Sole

\* Nothing that matters happens.
LEMMA MarkStays ==
  ASSUME MarkInv, UNCHANGED <<mgrs, waiting, next_id, toVault, fromVault, mark, db, view, apart>>
  PROVE  MarkInv'
<1>1. \A n : Own(n)' = Own(n)
  BY OwnStays
<1>2. MarkTyped' /\ MarkIds'
  BY DEF MarkInv, MarkTyped, MarkIds
<1>3. Sole' /\ Stages'
  BY <1>1 DEF MarkInv, Sole, Stages
<1> QED
  BY <1>2, <1>3 DEF MarkInv

\* A player leaves.
LEMMA MarkDeparts ==
  ASSUME kind = "marker", IdInv, MarkInv, NEW p \in Players, Depart(p)
  PROVE  MarkInv'
<1> DEFINE kept == {n \in DOMAIN mgrs : ~OwnedBy(mgrs[n], p)}
<1>1. /\ mgrs' = [n \in kept |-> mgrs[n]] /\ waiting' = waiting
      /\ \A i \in DOMAIN waiting : waiting[i] \in kept
      /\ UNCHANGED <<next_id, toVault, fromVault>>
  BY WaitersAreKept DEF Depart, Leave
<1>2. /\ mark' = [n \in kept |-> mark[n]] /\ view' = [n \in kept |-> view[n]]
      /\ UNCHANGED <<db, apart>>
  BY <1>1 DEF Depart, MarkerLeft
<1> DEFINE old == DOMAIN mgrs
<1>3. kept \subseteq old
  OBVIOUS
<1> HIDE DEF kept, old
<1>4. /\ DOMAIN mgrs' = kept /\ DOMAIN mark' = kept /\ DOMAIN view' = kept
      /\ \A n \in kept : mgrs'[n] = mgrs[n] /\ mark'[n] = mark[n] /\ view'[n] = view[n] /\ n \in old
  BY <1>1, <1>2, <1>3
<1>5. \A n \in kept : Own(n)' = Own(n)
  BY <1>4, OwnStays
<1>6. MarkTyped'
  BY <1>1, <1>2, <1>4 DEF MarkInv, MarkTyped, old
<1>7. MarkIds'
  BY <1>1, <1>4 DEF MarkInv, MarkIds, NotUsed, old
<1>8. Sole' /\ Stages'
  BY <1>1, <1>2, <1>4, <1>5 DEF MarkInv, Sole, Stages, old
<1> QED
  BY <1>6, <1>7, <1>8 DEF MarkInv

\* A player asks for a game.
LEMMA MarkSetup ==
  ASSUME kind = "marker", IdInv, MarkInv, NEW p \in Players, SetupGame(p)
  PROVE  MarkInv'
<1>1. PICK t \in 0..Len(db), cgz \in BOOLEAN, form \in Forms :
        Openable(t) /\ Setup(p, t) /\ MarkerSetup(p, t, cgz, form)
  BY DEF SetupGame
<1>0. PICK new : new = made + 1
  OBVIOUS
<1> DEFINE kept == {n \in DOMAIN mgrs : ~OwnedBy(mgrs[n], p)}
           setup == [who |-> p, template |-> t]
           old == DOMAIN mgrs
           m == [op |-> "nextid"]
           k0 == [state |-> "INIT", template |-> t, local |-> 0, cgz |-> cgz,
                  name |-> "first", visit |-> visits[p], form |-> form]
<1>2. StillWaiting(kept) = waiting /\ \A i \in DOMAIN waiting : waiting[i] \in kept
  BY WaitersAreKept
<1>3. /\ mgrs' = [n \in kept \cup {new} |-> IF n = new THEN NewMgr(setup) ELSE mgrs[n]]
      /\ waiting' = Append(waiting, new) /\ toVault' = Append(toVault, m)
      /\ UNCHANGED <<next_id, fromVault>>
  BY <1>0, <1>1, <1>2 DEF Setup, NewGame, JoinGame
<1>4. kept \subseteq old /\ new \notin old /\ DOMAIN mgrs' = kept \cup {new}
      /\ DOMAIN mark = old /\ DOMAIN view = old
  BY <1>0, <1>3 DEF IdInv, MarkInv, MarkTyped
<1>5. /\ mark' = [n \in DOMAIN mgrs' |-> IF n \in DOMAIN mark THEN mark[n] ELSE k0]
      /\ view' = [n \in DOMAIN mgrs' |-> IF n \in DOMAIN view THEN view[n] ELSE Unseen]
      /\ db' = db
  BY <1>1 DEF MarkerSetup
<1>6. /\ apart \subseteq apart'
      /\ \A n \in kept : t # 0 /\ t \in {mark[n].template, mark[n].local} => t \in apart'
  BY <1>1, <1>4 DEF MarkerSetup
<1> HIDE DEF kept, old, m
<1>7. /\ DOMAIN mark' = kept \cup {new} /\ DOMAIN view' = kept \cup {new}
      /\ \A n \in kept : mgrs'[n] = mgrs[n] /\ mark'[n] = mark[n] /\ view'[n] = view[n]
                         /\ n \in old /\ n # new
      /\ mgrs'[new] = NewMgr(setup) /\ mark'[new] = k0 /\ view'[new] = Unseen
  <2> HIDE DEF setup, k0
  <2> QED
    BY <1>3, <1>4, <1>5
<1>8. \A n \in kept : Own(n)' = Own(n)
  BY <1>7, OwnStays
<1>9. /\ IsQueue(toVault) /\ IsQueue(fromVault) /\ Len(db) \in Nat /\ next_id \in Nat /\ next_id > 0
      /\ waiting \in Seq(old)
  BY DEF IdInv, Requests, MarkInv, MarkTyped, IsQueue, Waiters, old
<1>10. Drawn(toVault', toVault, {m})
  BY <1>3, <1>9, DrawnSent
<1>11. IsManager(mgrs'[new], mark'[new], view'[new], next_id, Len(db))
  <2>1. NewMgr(setup) \in Owners /\ NewMgr(setup).id = 0
    <3>1. setup \in [who : Players, template : Nat]
      OBVIOUS
    <3> HIDE DEF setup
    <3>2. <<setup>> \in Seq([who : Players, template : Nat]) /\ <<>> \in Seq(Nat)
      BY <3>1
    <3> QED
      BY <3>2 DEF NewMgr, Owners, Nobody
  <2>2. IsMark(k0) /\ k0.template = t /\ k0.local = 0 /\ k0.state = "INIT"
    BY DEF IsMark
  <2> HIDE DEF setup, k0
  <2> QED
    BY <1>7, <1>9, <2>1, <2>2 DEF IsManager, IsView, Unseen
<1>12. MarkTyped'
  <2>1. \A j \in 1..Len(toVault') : IsRequest(toVault'[j], next_id, Len(db))
    <3>1. \A w \in {m} : IsRequest(w, next_id, Len(db))
      BY DEF IsRequest, m
    <3>2. \A j \in 1..Len(toVault) : IsRequest(toVault[j], next_id, Len(db))
      BY DEF MarkInv, MarkTyped
    <3> QED
      BY <1>10, <3>1, <3>2 DEF Drawn
  <2>2. \A n \in kept \cup {new} : IsManager(mgrs'[n], mark'[n], view'[n], next_id, Len(db))
    BY <1>7, <1>11 DEF MarkInv, MarkTyped, old
  <2> QED
    BY <1>3, <1>4, <1>5, <1>7, <2>1, <2>2 DEF MarkInv, MarkTyped
<1>13. mgrs'[new].id = 0 /\ Own(new)'.id = 0 /\ Own(new)'.template = t
       /\ Own(new)'.shown.local = 0 /\ Own(new)'.shown.state = "INIT" /\ Blank(Own(new)'.shown)
  <2>1. /\ mgrs'[new].id = 0
        /\ mark'[new].template = t /\ mark'[new].local = 0 /\ mark'[new].state = "INIT"
        /\ view'[new].name = "none" /\ view'[new].markers = <<>> /\ view'[new].captured = {}
    BY <1>7 DEF NewMgr, Unseen
  <2>2. /\ Own(new)'.id = mgrs'[new].id /\ Own(new)'.template = mark'[new].template
        /\ Own(new)'.shown.local = mark'[new].local
        /\ Own(new)'.shown.state = IF mark'[new].state = "PLAYING" THEN "READY" ELSE mark'[new].state
        /\ Own(new)'.shown.name = view'[new].name /\ Own(new)'.shown.markers = view'[new].markers
        /\ Own(new)'.shown.captured = view'[new].captured
    BY DEF Own, Shown
  <2> QED
    BY ONLY <2>1, <2>2 DEF Blank
<1>14. MarkIds'
  <2>1. \A n, k \in kept \cup {new} : mgrs'[n].id = mgrs'[k].id /\ mgrs'[n].id # 0 => n = k
    BY <1>7, <1>13 DEF MarkInv, MarkIds, old
  <2>2. ASSUME NEW i \in DOMAIN waiting'  PROVE mgrs'[waiting'[i]].id = 0
    <3>1. /\ Len(waiting) \in Nat /\ Len(waiting') = Len(waiting) + 1 /\ DOMAIN waiting' = 1..(Len(waiting) + 1)
          /\ waiting'[Len(waiting) + 1] = new /\ DOMAIN waiting = 1..Len(waiting)
          /\ \A j \in 1..Len(waiting) : waiting'[j] = waiting[j]
      <4>1. IsQueue(waiting)
        BY <1>9 DEF IsQueue
      <4> QED
        BY <1>3, <4>1, QueueSent
    <3>2. i \in 1..Len(waiting) \/ i = Len(waiting) + 1
      BY <3>1
    <3>3. i \in DOMAIN waiting => waiting[i] \in kept /\ mgrs[waiting[i]].id = 0
      BY <1>2 DEF MarkInv, MarkIds, kept
    <3> QED
      BY <1>7, <1>13, <3>1, <3>2, <3>3
  <2>3. ASSUME NEW j \in 1..Len(fromVault), fromVault[j].op = "nextid"
        PROVE  NotUsed(mgrs', toVault', fromVault, fromVault[j].id, j)
    <3>1. NotUsed(mgrs, toVault, fromVault, fromVault[j].id, j)
      BY <2>3 DEF MarkInv, MarkIds
    <3>2. fromVault[j].id # 0
      BY DEF MarkInv, MarkTyped, IsAnswer
    <3>3. \A n \in kept \cup {new} : mgrs'[n].id # fromVault[j].id
      BY <1>7, <1>13, <3>1, <3>2 DEF NotUsed, old
    <3>4. \A i \in 1..Len(toVault') : toVault'[i].op # "nextid" => toVault'[i].id # fromVault[j].id
      <4>1. PICK id : id = fromVault[j].id
        OBVIOUS
      <4>2. \A i \in 1..Len(toVault) : toVault[i].op # "nextid" => toVault[i].id # id
        BY <3>1, <4>1 DEF NotUsed
      <4>3. m.op = "nextid"
        BY DEF m
      <4>4. \A i \in 1..Len(toVault') : toVault'[i].op # "nextid" => toVault'[i].id # id
        BY ONLY <1>10, <4>2, <4>3 DEF Drawn
      <4> QED
        BY <4>1, <4>4
    <3> QED
      BY <1>4, <3>1, <3>3, <3>4 DEF NotUsed
  <2> QED
    BY <1>3, <1>4, <2>1, <2>2, <2>3 DEF MarkIds
<1>15. Sole'
  <2>1. ASSUME NEW k \in kept, NEW g, Has(Own(new)', fromVault, g), Has(Own(k), fromVault, g)
        PROVE  g \in apart'
    <3>1. g = t /\ t # 0
      <4>1. \A i \in DOMAIN fromVault : fromVault[i].id # 0
        BY <1>9 DEF MarkInv, MarkTyped, IsAnswer, IsQueue
      <4> QED
        BY <1>13, <2>1, <4>1 DEF Has
    <3>2. \A i \in DOMAIN fromVault : fromVault[i].op = "newgame" => fromVault[i].local # t
      BY <1>1 DEF Openable, ToSet
    <3>3. t \in {mark[k].template, mark[k].local}
      BY <2>1, <3>1, <3>2, OwnIs DEF Has
    <3> QED
      BY <1>6, <3>1, <3>3
  <2>2. ASSUME NEW n \in kept, NEW k \in kept, n # k, NEW g,
               Has(Own(n), fromVault, g), Has(Own(k), fromVault, g)
        PROVE  g \in apart'
    BY <1>6, <1>7, <2>2 DEF MarkInv, Sole, old
  <2>3. ASSUME NEW n \in DOMAIN mgrs', NEW k \in DOMAIN mgrs', n # k, NEW g,
               Has(Own(n)', fromVault', g), Has(Own(k)', fromVault', g)
        PROVE  g \in apart'
    <3>1. fromVault' = fromVault /\ n \in kept \cup {new} /\ k \in kept \cup {new}
      BY <1>3, <1>4
    <3>2. CASE n \in kept /\ k \in kept
      BY <1>8, <2>2, <2>3, <3>1, <3>2
    <3>3. CASE n = new /\ k \in kept
      BY <1>8, <2>1, <2>3, <3>1, <3>3
    <3>4. CASE n \in kept /\ k = new
      BY <1>8, <2>1, <2>3, <3>1, <3>4
    <3> QED
      BY <2>3, <3>1, <3>2, <3>3, <3>4
  <2> QED
    BY <2>3 DEF Sole
<1>16. Stages'
  <2>1. ASSUME NEW n \in kept  PROVE Staged(Own(n), toVault', fromVault, db, apart')
    <3>1. Staged(Own(n), toVault, fromVault, db, apart)
      BY <1>7 DEF MarkInv, Stages, old
    <3>2. Staged(Own(n), toVault', fromVault, db, apart)
      <4>1. Foreign(Own(n), fromVault, apart, m) /\ m.op = "nextid"
        BY DEF Foreign, m
      <4> QED
        BY <1>3, <1>9, <3>1, <4>1, ForeignSent
    <3> QED
      BY <1>6, <1>9, <3>2, RowsChange
  <2>2. Staged(Own(new)', toVault', fromVault, db, apart')
    BY <1>13 DEF Staged, Unopened
  <2>3. ASSUME NEW n \in DOMAIN mgrs'
        PROVE  Staged(Own(n)', toVault', fromVault', db', apart')
    <3>1. fromVault' = fromVault /\ db' = db /\ n \in kept \cup {new}
      BY <1>3, <1>4, <1>5
    <3>2. CASE n \in kept
      BY <1>8, <2>1, <3>1, <3>2
    <3>3. CASE n = new
      BY <2>2, <3>1, <3>3
    <3> QED
      BY <3>1, <3>2, <3>3
  <2> QED
    BY <2>3 DEF Stages
<1> QED
  BY <1>12, <1>14, <1>15, <1>16 DEF MarkInv

\* The games of a manager while answers come and are read.
LEMMA HasSent ==
  ASSUME NEW f, IsQueue(f), NEW m, NEW x, m.op = "newgame" => m.id # x.id,
         NEW g, Has(x, Append(f, m), g)
  PROVE  Has(x, f, g)
<1> DEFINE r == Append(f, m)
           n == Len(f)
<1>1. /\ n \in Nat /\ DOMAIN r = 1..(n + 1) /\ DOMAIN f = 1..n
      /\ r[n + 1] = m /\ \A i \in 1..n : r[i] = f[i]
  BY QueueSent
<1>2. \A j \in 1..(n + 1) : j \in 1..n \/ j = n + 1
  BY <1>1
<1> HIDE DEF r
<1>3. Has(x, r, g)
  BY DEF r
<1> QED
  BY <1>1, <1>2, <1>3 DEF Has

\* An answer that is read gives a manager no game.
LEMMA HasRead ==
  ASSUME NEW f, IsQueue(f), f # <<>>, NEW x, NEW g, Has(x, Tail(f), g)
  PROVE  Has(x, f, g)
<1>1. /\ Len(f) \in Nat /\ DOMAIN f = 1..Len(f) /\ DOMAIN Tail(f) = 1..(Len(f) - 1)
      /\ \A i \in 1..(Len(f) - 1) : Tail(f)[i] = f[i + 1] /\ i + 1 \in 1..Len(f)
  BY QueueRead
<1> QED
  BY <1>1 DEF Has

\* What the invariant says of the queues and the counts.
LEMMA MarkCounts ==
  ASSUME IdInv, MarkInv
  PROVE  /\ IsQueue(toVault) /\ IsQueue(fromVault) /\ IsQueue(db)
         /\ Len(db) \in Nat /\ next_id \in Nat /\ next_id > 0
         /\ \A n \in DOMAIN mgrs : IsManager(mgrs[n], mark[n], view[n], next_id, Len(db))
         /\ \A j \in 1..Len(toVault) : IsRequest(toVault[j], next_id, Len(db))
         /\ \A j \in 1..Len(fromVault) : IsAnswer(fromVault[j], next_id, Len(db))
         /\ \A n \in DOMAIN mgrs : Staged(Own(n), toVault, fromVault, db, apart)
  BY DEF IdInv, Requests, MarkInv, MarkTyped, Stages, IsQueue

\* The backend gives an ID.
LEMMA MarkNextID ==
  ASSUME IdInv, MarkInv, NextID
  PROVE  MarkInv'
<1> DEFINE q == toVault
           f == fromVault
           i == next_id
           m == [op |-> "nextid", id |-> i]
<1>1. /\ q # <<>> /\ Head(q).op = "nextid" /\ toVault' = Tail(q) /\ fromVault' = Append(f, m)
      /\ next_id' = i + 1 /\ UNCHANGED <<mgrs, waiting, mark, db, view, apart>>
  BY DEF NextID, VaultNextID, OthersThan, markerVars
<1> HIDE DEF m
<1>2. /\ IsQueue(q) /\ IsQueue(f) /\ Len(db) \in Nat /\ i \in Nat /\ i > 0
  BY MarkCounts
<1>0. PICK none : none = {}
  OBVIOUS
<1>3. /\ Drawn(toVault', q, none) /\ Drawn(fromVault', f, {m})
  BY <1>0, <1>1, <1>2, DrawnRead, DrawnSent
<1>4. m.op = "nextid" /\ m.id = i
  BY DEF m
<1>5. \A n : Own(n)' = Own(n)
  BY <1>1, OwnStays
<1>6. MarkTyped'
  <2> DEFINE h == i + 1
             k == Len(db)
  <2>0. /\ h \in Nat /\ i <= h /\ k \in Nat /\ k <= k
        /\ \A j \in 1..Len(q) : IsRequest(q[j], i, k)
        /\ \A j \in 1..Len(f) : IsAnswer(f[j], i, k)
        /\ \A w \in none : IsRequest(w, h, k)
    BY <1>0, <1>2, MarkCounts
  <2>a. next_id' = h /\ Len(db') = k
    BY <1>1
  <2>b. IsAnswer(m, h, k)
    BY <1>2, <1>4 DEF IsAnswer, AnswerOps
  <2> HIDE DEF h, k, q, f, i
  <2>1. \A j \in 1..Len(toVault') : IsRequest(toVault'[j], h, k)
    <3>1. ASSUME NEW w, IsRequest(w, i, k)  PROVE IsRequest(w, h, k)
      <4>1. i \in Nat /\ h \in Nat /\ i <= h /\ k \in Nat
        BY <1>2, <2>0
      <4> QED
      BY ONLY <4>1, <3>1 DEF IsRequest
    <3>2. \A j \in 1..Len(toVault') : toVault'[j] \in none \/ \E l \in 1..Len(q) : toVault'[j] = q[l]
      BY <1>3 DEF Drawn
    <3> QED
      BY <1>0, <2>0, <3>1, <3>2
  <2>2. \A w \in {m} : IsAnswer(w, h, k)
    BY <2>b
  <2>3. \A j \in 1..Len(fromVault') : IsAnswer(fromVault'[j], h, k)
    <3>1. ASSUME NEW w, IsAnswer(w, i, k)  PROVE IsAnswer(w, h, k)
      <4>1. i \in Nat /\ h \in Nat /\ i <= h
        BY <1>2, <2>0
      <4> QED
        BY ONLY <4>1, <3>1 DEF IsAnswer
    <3>2. \A j \in 1..Len(fromVault') : fromVault'[j] \in {m} \/ \E l \in 1..Len(f) : fromVault'[j] = f[l]
      BY <1>3 DEF Drawn
    <3> QED
      BY <2>0, <2>2, <3>1, <3>2
  <2>4. \A n \in DOMAIN mgrs : IsManager(mgrs[n], mark[n], view[n], h, k)
    BY <1>2, <2>0, MarkCounts, ManagerGrows DEF i, k
  <2> QED
    BY <1>1, <1>2, <2>0, <2>1, <2>3, <2>4, <2>a DEF MarkInv, MarkTyped, h, i
<1>7. MarkIds'
  <2> DEFINE r == fromVault'
             n == Len(f)
  <2>1. /\ n \in Nat /\ Len(r) = n + 1 /\ r[n + 1] = m /\ \A j \in 1..n : r[j] = f[j]
    BY <1>1, <1>2, QueueSent
  <2>2. \A j \in 1..(n + 1) : j \in 1..n \/ j = n + 1
    BY <2>1
  <2>3. /\ \A k \in DOMAIN mgrs : mgrs[k].id # i
        /\ \A j \in 1..Len(q) : q[j].op # "nextid" => q[j].id # i
        /\ \A j \in 1..n : f[j].id # i
    BY <1>2, MarkCounts DEF IsManager, Owners, IsRequest, IsAnswer
  <2> HIDE DEF r
  <2>4. ASSUME NEW j \in 1..(n + 1), r[j].op = "nextid"
        PROVE  NotUsed(mgrs, toVault', r, r[j].id, j)
    <3>1. CASE j = n + 1
      <4>1. r[j].id = i
        BY <1>4, <2>1, <3>1
      <4>2. \A k \in 1..Len(r) : r[k].id = i => k = j
        BY <2>1, <2>2, <2>3, <3>1
      <4>3. \A k \in 1..Len(toVault') : toVault'[k].op # "nextid" => toVault'[k].id # i
        BY <1>0, <1>3, <2>3 DEF Drawn
      <4> QED
        BY <2>3, <4>1, <4>2, <4>3 DEF NotUsed
    <3>2. CASE j \in 1..n
      <4>1. r[j] = f[j] /\ NotUsed(mgrs, q, f, f[j].id, j)
        BY <2>1, <2>4, <3>2 DEF MarkInv, MarkIds
      <4>2. f[j].id # i
        BY <2>3, <3>2
      <4>3. \A k \in 1..Len(r) : r[k].id = f[j].id => k = j
        BY <1>4, <2>1, <2>2, <4>1, <4>2 DEF NotUsed
      <4>4. \A k \in 1..Len(toVault') : toVault'[k].op # "nextid" => toVault'[k].id # f[j].id
        BY <1>0, <1>3, <4>1 DEF NotUsed, Drawn
      <4> QED
        BY <4>1, <4>3, <4>4 DEF NotUsed
    <3> QED
      BY <2>2, <3>1, <3>2
  <2> QED
    BY <1>1, <2>1, <2>4 DEF MarkInv, MarkIds, r
<1>8. Sole'
  <2>1. \A n \in DOMAIN mgrs : \A g : Has(Own(n), Append(f, m), g) => Has(Own(n), f, g)
    BY <1>2, <1>4, HasSent
  <2>2. \A n \in DOMAIN mgrs' : \A g : Has(Own(n)', fromVault', g) => Has(Own(n), fromVault, g)
    BY <1>1, <1>5, <2>1
  <2> QED
    BY <1>1, <2>2, SoleKeeps DEF MarkInv
<1>9. Stages'
  <2>1. ASSUME NEW n \in DOMAIN mgrs  PROVE Staged(Own(n), Tail(q), Append(f, m), db, apart)
    <3>1. Staged(Own(n), q, f, db, apart)
      BY MarkCounts
    <3>2. Staged(Own(n), Tail(q), f, db, apart)
      BY <1>1, <1>2, <3>1, ForeignTaken DEF NotFor
    <3> QED
      BY <1>2, <1>4, <3>2, AnswerSent DEF NotFor
  <2> QED
    BY <1>1, <1>5, <2>1 DEF Stages
<1> QED
  BY <1>6, <1>7, <1>8, <1>9 DEF MarkInv

\* GameMgr::assign_id keeps the ID while the setups are answered.
LEMMA InitializedAll ==
  ASSUME kind = "marker", NEW g \in Owners, NEW ss \in Seq([who : Players, template : Nat])
  PROVE  InitializeAll(g, ss) \in Owners /\ InitializeAll(g, ss).id = g.id
<1> DEFINE Y == {h \in Owners : h.id = g.id}
<1>1. Players \subseteq Nat
  BY PlayersAssumption
<1>2. ASSUME NEW h \in Y, NEW p \in Players  PROVE InitializeGame(h, p) \in Y
  <2>1. p \in Nat /\ h.players \in Seq(Nat)
    BY <1>1 DEF Owners
  <2>2. AddPlayer(h.players, p) \in Seq(Nat)
    BY <2>1 DEF AddPlayer
  <2> DEFINE z == AddPlayer(h.players, p)
  <2> HIDE DEF z
  <2>3. InitializeGame(h, p) = [h EXCEPT !.owner = p, !.players = z]
    BY DEF InitializeGame, z
  <2>4. z \in Seq(Nat)
    BY <2>2 DEF z
  <2> QED
    BY <2>1, <2>3, <2>4 DEF Owners
<1> DEFINE n == Len(ss)
<1>3. n \in Nat /\ DOMAIN ss = 1..n /\ \A i \in 1..n : ss[i].who \in Players
  <2> DEFINE S == [who : Players, template : Nat]
  <2>1. \A s \in S : s.who \in Players
    OBVIOUS
  <2> HIDE DEF S
  <2>2. ss \in Seq(S)
    BY DEF S
  <2> QED
    BY <2>1, <2>2
<1>4. g \in Y
  OBVIOUS
<1> HIDE DEF Y, n
<1>5. TakesAll(Y, ss, n)
  BY <1>2, <1>3 DEF TakesAll
<1>6. PICK h : InitializeAll(g, ss) = h[n] /\ InOrder(h, g, ss, n)
  BY <1>3, <1>4, <1>5, SetupsInOrder
<1> DEFINE T == {i \in 0..n : h[i] \in Y}
<1>7. 0 \in T
  BY <1>3, <1>4, <1>6 DEF InOrder
<1>8. ASSUME NEW i \in Nat, i < n, i \in T  PROVE i + 1 \in T
  <2>1. i + 1 \in 1..n /\ (i + 1) - 1 = i
    BY <1>3, <1>8
  <2>2. h[i + 1] = InitializeGame(h[i], ss[i + 1].who)
    BY <1>6, <2>1 DEF InOrder
  <2> QED
    BY <1>2, <1>3, <1>8, <2>1, <2>2
<1> HIDE DEF T
<1>9. \A i \in 0..n : i \in T
  BY <1>3, <1>7, <1>8, UpTo
<1>10. h[n] \in Y
  BY <1>3, <1>9 DEF T
<1> QED
  BY <1>6, <1>10 DEF Y

\* A manager gets its ID and asks for its game.
LEMMA MarkGetsID ==
  ASSUME kind = "marker", IdInv, MarkInv, GameGetsID
  PROVE  MarkInv'
<1> DEFINE q == toVault
           f == fromVault
<1>1. /\ f # <<>> /\ Head(f).op = "nextid" /\ waiting # <<>>
      /\ waiting' = Tail(waiting) /\ fromVault' = Tail(f)
      /\ UNCHANGED <<next_id, db, view, apart>>
  BY DEF GameGetsID, GotNextID, Initialized, MarkerInitialized
<1>2. PICK n0 : n0 = Head(waiting)
  OBVIOUS
<1>3. PICK id : id = Head(f).id
  OBVIOUS
<1>4. PICK ss : ss = mgrs[n0].setups
  OBVIOUS
<1>5. PICK g : g = [mgrs[n0] EXCEPT !.id = id, !.setups = <<>>]
  OBVIOUS
<1>6. PICK h : h = InitializeAll(g, ss)
  OBVIOUS
<1>7. mgrs' = [mgrs EXCEPT ![n0] = h]
  BY <1>2, <1>3, <1>4, <1>5, <1>6 DEF GameGetsID, GotNextID
<1>8. /\ IsQueue(q) /\ IsQueue(f) /\ Len(db) \in Nat /\ next_id \in Nat /\ next_id > 0
  BY MarkCounts
<1>9. /\ Len(waiting) \in Nat /\ Len(waiting) > 0 /\ DOMAIN waiting = 1..Len(waiting)
      /\ DOMAIN waiting' = 1..(Len(waiting) - 1) /\ n0 = waiting[1] /\ n0 \in DOMAIN mgrs
      /\ \A i \in 1..(Len(waiting) - 1) : waiting'[i] = waiting[i + 1] /\ i + 1 \in DOMAIN waiting
                                          /\ waiting[i + 1] # n0
  <2>1. waiting \in Seq(DOMAIN mgrs)
    BY DEF IdInv, Waiters
  <2>2. IsQueue(waiting)
    BY <2>1 DEF IsQueue
  <2>3. /\ Len(waiting) \in Nat /\ Len(waiting) > 0 /\ DOMAIN waiting = 1..Len(waiting)
        /\ DOMAIN waiting' = 1..(Len(waiting) - 1) /\ n0 = waiting[1]
        /\ \A i \in 1..(Len(waiting) - 1) : waiting'[i] = waiting[i + 1]
    BY <1>1, <1>2, <2>2, QueueRead
  <2>4. ASSUME NEW i \in 1..(Len(waiting) - 1)  PROVE i + 1 \in DOMAIN waiting /\ waiting[i + 1] # n0
    <3>1. i + 1 \in DOMAIN waiting /\ 1 \in DOMAIN waiting /\ i + 1 # 1
      BY <2>3
    <3>2. waiting[i + 1] = waiting[1] => i + 1 = 1
      BY <3>1 DEF IdInv, Waiters
    <3> QED
      BY <2>3, <3>1, <3>2
  <2> QED
    BY <2>1, <2>3, <2>4
<1>10. PICK m : m = [op |-> "newgame", id |-> h.id, local |-> mark[n0].template,
                     who |-> h.owner, num |-> 0, name |-> "first", cgz |-> mark[n0].cgz]
  OBVIOUS
<1> DEFINE asks == mark[n0].form = "right"
           mute == mark[n0].form = "too long"
<1>11. /\ asks => ~mute
       /\ toVault' = IF asks THEN Append(q, m) ELSE q
       /\ mark' = IF mute THEN mark ELSE [mark EXCEPT ![n0].state = "START"]
  <2>1. h = mgrs'[n0]
    BY <1>7, <1>9
  <2> QED
    BY <1>2, <1>10, <2>1 DEF GameGetsID, Initialized, MarkerInitialized
<1>12. /\ IsManager(mgrs[n0], mark[n0], view[n0], next_id, Len(db))
       /\ Staged(Own(n0), q, f, db, apart) /\ mgrs[n0].id = 0
       /\ DOMAIN mark = DOMAIN mgrs /\ DOMAIN view = DOMAIN mgrs
  <2>1. mgrs[n0].id = 0
    BY <1>9 DEF MarkInv, MarkIds
  <2> QED
    BY <1>9, <2>1, MarkCounts DEF MarkInv, MarkTyped
<1>13. /\ Len(f) \in Nat /\ Len(f) > 0 /\ Head(f) = f[1] /\ DOMAIN f = 1..Len(f)
       /\ Len(fromVault') = Len(f) - 1 /\ DOMAIN fromVault' = 1..(Len(f) - 1)
       /\ \A i \in 1..(Len(f) - 1) : fromVault'[i] = f[i + 1] /\ i + 1 \in 1..Len(f) /\ i + 1 # 1
  BY <1>1, <1>8, QueueRead
<1>14. /\ id \in Nat /\ id # 0 /\ id < next_id
       /\ \A n \in DOMAIN mgrs : mgrs[n].id # id
       /\ \A j \in 1..Len(q) : q[j].op # "nextid" => q[j].id # id
       /\ \A j \in 1..Len(f) : f[j].id = id => j = 1
  <2>1. 1 \in 1..Len(f) /\ f[1].op = "nextid" /\ f[1].id = id
    BY <1>1, <1>3, <1>13
  <2>2. IsAnswer(f[1], next_id, Len(db)) /\ NotUsed(mgrs, q, f, f[1].id, 1)
    BY <2>1, MarkCounts DEF MarkInv, MarkIds
  <2> QED
    BY <2>1, <2>2 DEF IsAnswer, NotUsed
<1>15. h \in Owners /\ h.id = id
  <2>1. mgrs[n0] \in Owners /\ ss \in Seq([who : Players, template : Nat])
    BY <1>4, <1>12 DEF IsManager, Owners
  <2>2. <<>> \in Seq([who : Players, template : Nat])
    OBVIOUS
  <2>3. g \in Owners /\ g.id = id
    BY <1>5, <1>14, <2>1, <2>2 DEF Owners
  <2> QED
    BY <1>6, <2>1, <2>3, InitializedAll
<1> DEFINE old == DOMAIN mgrs
<1> HIDE DEF q, f, old, asks, mute
<1>16. /\ DOMAIN mgrs' = old /\ DOMAIN mark' = old /\ DOMAIN view' = old /\ n0 \in old
       /\ \A n \in old : n # n0 => mgrs'[n] = mgrs[n] /\ mark'[n] = mark[n] /\ view'[n] = view[n]
       /\ mgrs'[n0] = h /\ view'[n0] = view[n0]
       /\ mark'[n0] = IF mute THEN mark[n0] ELSE [mark[n0] EXCEPT !.state = "START"]
  BY <1>1, <1>7, <1>9, <1>11, <1>12 DEF old
<1>17. \A n \in old : n # n0 => Own(n)' = Own(n)
  BY <1>16, OwnStays
<1>18. PICK x : x = Own(n0)
  OBVIOUS
<1>19. Unopened(x) /\ x.template = mark[n0].template /\ x.shown.local = mark[n0].local
  BY <1>12, <1>18, OwnIs DEF Staged, Opening, Open, q, f
<1>20. /\ IsMark(mark[n0])
       /\ mark'[n0].state = (IF mute THEN "INIT" ELSE "START")
       /\ mark'[n0].template = mark[n0].template
       /\ mark'[n0].local = mark[n0].local /\ IsMark(mark'[n0])
  <2>1. PICK k : k = mark[n0]
    OBVIOUS
  <2>2. IsMark(k) /\ mark'[n0] = IF mute THEN k ELSE [k EXCEPT !.state = "START"]
    BY <1>12, <1>16, <2>1 DEF IsManager
  <2>3. k.state = "INIT"
    BY <1>18, <1>19, <2>1, OwnIs DEF Unopened
  <2> QED
    BY <2>1, <2>2, <2>3 DEF IsMark
<1>21. m.op = "newgame" /\ m.id = id /\ m.local = mark[n0].template /\ m.who = h.owner
  BY <1>10, <1>15
<1>22. Drawn(toVault', q, {m})
  BY <1>8, <1>11, DrawnSent DEF q, Drawn
<1>23. MarkTyped'
  <2>1. Drawn(toVault', q, {m}) /\ Drawn(fromVault', f, {})
    BY <1>1, <1>8, <1>22, DrawnRead DEF q, f
  <2>2. IsRequest(m, next_id, Len(db))
    <3>1. IsAsked(m)
      BY <1>10 DEF IsAsked
    <3>2. mark[n0].template \in 0..Len(db)
      BY <1>12 DEF IsManager
    <3> QED
      BY <1>14, <1>21, <3>1, <3>2 DEF IsRequest
  <2>3. \A j \in 1..Len(toVault') : IsRequest(toVault'[j], next_id, Len(db))
    BY <2>1, <2>2, MarkCounts DEF Drawn, q
  <2>4. \A j \in 1..Len(fromVault') : IsAnswer(fromVault'[j], next_id, Len(db))
    BY <1>13, MarkCounts DEF f
  <2>5. IsManager(mgrs'[n0], mark'[n0], view'[n0], next_id, Len(db))
    <3>1. h.id < next_id /\ mark'[n0].state \notin {"LIST_WAIT", "READY", "PLAYING"}
      BY <1>14, <1>15, <1>20
    <3> QED
      BY <1>12, <1>15, <1>16, <1>20, <3>1 DEF IsManager
  <2>6. \A n \in old : IsManager(mgrs'[n], mark'[n], view'[n], next_id, Len(db))
    <3>1. \A n \in old : IsManager(mgrs[n], mark[n], view[n], next_id, Len(db))
      BY MarkCounts DEF old
    <3> QED
      BY <1>16, <2>5, <3>1
  <2> QED
    BY <1>1, <1>16, <2>3, <2>4, <2>6 DEF MarkInv, MarkTyped
<1>24. MarkIds'
  <2>1. \A n, k \in old : mgrs'[n].id = mgrs'[k].id /\ mgrs'[n].id # 0 => n = k
    BY <1>14, <1>15, <1>16 DEF MarkInv, MarkIds, old
  <2>2. \A i \in DOMAIN waiting' : mgrs'[waiting'[i]].id = 0
    <3>1. ASSUME NEW i \in DOMAIN waiting  PROVE waiting[i] \in old /\ mgrs[waiting[i]].id = 0
      BY DEF IdInv, Waiters, MarkInv, MarkIds, old
    <3> QED
      BY <1>9, <1>16, <3>1
  <2>3. ASSUME NEW j \in 1..(Len(f) - 1), fromVault'[j].op = "nextid"
        PROVE  NotUsed(mgrs', toVault', fromVault', fromVault'[j].id, j)
    <3>1. PICK i : i = f[j + 1].id
      OBVIOUS
    <3>2. fromVault'[j].id = i /\ j + 1 \in 1..Len(f) /\ j + 1 # 1 /\ f[j + 1].op = "nextid"
      BY <1>13, <2>3, <3>1
    <3>3. NotUsed(mgrs, q, f, i, j + 1)
      BY <3>1, <3>2 DEF MarkInv, MarkIds, f, q
    <3>4. i # id
      BY <1>14, <3>1, <3>2
    <3>5. \A n \in DOMAIN mgrs' : mgrs'[n].id # i
      BY <1>15, <1>16, <3>3, <3>4 DEF NotUsed, old
    <3>6. \A l \in 1..Len(toVault') : toVault'[l].op # "nextid" => toVault'[l].id # i
      BY <1>21, <1>22, <3>3, <3>4 DEF NotUsed, Drawn
    <3>7. \A l \in 1..Len(fromVault') : fromVault'[l].id = i => l = j
      BY <1>13, <3>3 DEF NotUsed
    <3> QED
      BY <3>2, <3>5, <3>6, <3>7 DEF NotUsed
  <2> QED
    BY <1>13, <1>16, <2>1, <2>2, <2>3 DEF MarkIds
<1>25. PICK y : y = Own(n0)'
  OBVIOUS
<1>26. /\ y.id = id /\ y.who = h.owner /\ y.template = x.template /\ y.shown.local = x.shown.local
       /\ y.shown.state = (IF mute THEN "INIT" ELSE "START") /\ Blank(y.shown) /\ IsShown(y.shown)
  <2>1. PICK k : k = mark'[n0]
    OBVIOUS
  <2>2. y = [id |-> h.id, who |-> h.owner, template |-> k.template,
             shown |-> [state |-> IF k.state = "PLAYING" THEN "READY" ELSE k.state,
                        local |-> k.local, title |-> k.name, name |-> view[n0].name,
                        markers |-> view[n0].markers, captured |-> view[n0].captured]]
    BY <1>16, <1>25, <2>1 DEF Own, Shown
  <2>3. Blank(x.shown) /\ x.shown.name = view[n0].name /\ x.shown.markers = view[n0].markers
        /\ x.shown.captured = view[n0].captured
    BY <1>18, <1>19 DEF Unopened, Own, Shown
  <2> QED
    BY <1>15, <1>20, <1>19, <2>1, <2>2, <2>3 DEF Blank, IsShown
<1>27. Sole'
  <2>1. ASSUME NEW e, Has(y, fromVault', e)  PROVE Has(x, f, e)
    <3>1. \A i \in DOMAIN fromVault' : fromVault'[i].id # id
      BY <1>13, <1>14
    <3> QED
      BY <1>26, <2>1, <3>1 DEF Has
  <2>2. ASSUME NEW n \in old, NEW e, Has(Own(n)', fromVault', e)  PROVE Has(Own(n), f, e)
    <3>1. CASE n = n0
      BY <1>18, <1>25, <2>1, <2>2, <3>1
    <3>2. CASE n # n0
      <4>1. Has(Own(n), Tail(f), e)
        BY <1>1, <1>17, <2>2, <3>2 DEF f
      <4> QED
        BY <1>1, <1>8, <4>1, HasRead DEF f
    <3> QED
      BY <3>1, <3>2
  <2> QED
    BY <1>1, <1>16, <2>2, SoleKeeps DEF MarkInv, old, f
<1>28. Stages'
  <2> DEFINE Goes == /\ Staged(y, toVault', fromVault', db, apart)
                     /\ \A n \in old : n # n0 => Staged(Own(n), toVault', fromVault', db, apart)
  <2>1. ASSUME asks  PROVE Goes
    <3>1. Staged(y, toVault', fromVault', db, apart)
      <4>1. /\ Len(q) \in Nat /\ Len(toVault') = Len(q) + 1 /\ toVault'[Len(q) + 1] = m
            /\ \A j \in 1..Len(q) : toVault'[j] = q[j]
        BY <1>8, <1>11, <2>1, QueueSent DEF q
      <4>2. \A j \in 1..(Len(q) + 1) : j \in 1..Len(q) \/ j = Len(q) + 1
        BY <4>1
      <4>3. \A j \in 1..(Len(q) + 1) :
              toVault'[j].op # "nextid" /\ toVault'[j].id = id => j = Len(q) + 1
        BY <1>14, <4>1, <4>2
      <4>4. AsksAt(y, toVault', apart, Len(q) + 1) /\ Len(q) + 1 \in 1..Len(toVault')
        BY <1>21, <1>19, <1>26, <4>1, <4>3 DEF AsksAt
      <4>5. Silent(fromVault', y.id)
        BY <1>13, <1>14, <1>26 DEF Silent, NotFor
      <4>6. y.shown.state = "START" /\ Blank(y.shown) /\ y.id # 0
        BY <1>11, <1>14, <1>26, <2>1
      <4> QED
        BY <4>4, <4>5, <4>6 DEF Staged, Opening
    <3>2. ASSUME NEW n \in old, n # n0  PROVE Staged(Own(n), toVault', fromVault', db, apart)
      <4>1. Staged(Own(n), q, f, db, apart)
        BY MarkCounts DEF old, q, f
      <4>2. Staged(Own(n), q, Tail(f), db, apart)
        BY <1>1, <1>8, <4>1, AnswerRead DEF NotFor, q, f
      <4>3. Foreign(Own(n), Tail(f), apart, m)
        <5>1. Own(n).id # id
          BY <1>14, OwnIs DEF old
        <5> QED
          BY <1>21, <5>1 DEF Foreign
      <4>4. IsQueue(Tail(f))
        BY <1>1, <1>8, QueueRead DEF f
      <4>5. Staged(Own(n), Append(q, m), Tail(f), db, apart)
        BY <1>8, <1>21, <4>2, <4>3, <4>4, ForeignSent DEF q
      <4> QED
        BY <1>1, <1>11, <2>1, <4>5 DEF f, q
    <3> QED
      BY <3>1, <3>2
  <2>2. ASSUME ~asks  PROVE Goes
    <3>1. toVault' = q /\ fromVault' = Tail(f)
      BY <1>1, <1>11, <2>2 DEF f
    <3>2. Staged(y, q, fromVault', db, apart)
      <4>1. PICK e : e = y.shown
        OBVIOUS
      <4>2. /\ Silent(fromVault', id) /\ IsQueue(fromVault')
        <5>1. IsQueue(Tail(f))
          BY <1>1, <1>8, QueueRead DEF f
        <5> QED
          BY <1>13, <1>14, <3>1, <5>1 DEF Silent, NotFor
      <4>3. Ends(fromVault', y.id, y.template = 0, y.shown, e)
        BY <1>26, <4>1, <4>2, EndsSilent
      <4>4. \A j \in 1..Len(q) : IsChange(q[j]) => q[j].local # 0
        BY MarkCounts DEF IsRequest, IsChange, q
      <4>5. y.id = id /\ e.local = 0 /\ e.state \in {"INIT", "START"} /\ IsShown(e)
        BY <1>26, <4>1 DEF Blank
      <4>6. Orderly(y, q, apart, e)
        <5>1. ASSUME NEW j \in 1..Len(q), IsChange(q[j])
              PROVE  q[j].id # y.id /\ q[j].local # e.local
          <6>1. q[j].op # "nextid"
            BY <5>1 DEF IsChange
          <6> QED
            BY <1>14, <4>4, <4>5, <5>1, <6>1
        <5> QED
          BY <5>1 DEF Orderly
      <4>7. WillSee(y, q, db, apart, e)
        BY <4>5 DEF WillSee
      <4>8. AsksNone(y, q)
        <5>1. \A j \in 1..Len(q) : q[j].op = "newgame" => q[j].id # id
          BY <1>14
        <5> QED
          BY <4>5, <5>1 DEF AsksNone
      <4> QED
        BY <1>14, <1>26, <4>3, <4>6, <4>7, <4>8 DEF Staged, Open
    <3>3. ASSUME NEW n \in old, n # n0  PROVE Staged(Own(n), q, fromVault', db, apart)
      <4>1. Staged(Own(n), q, f, db, apart)
        BY MarkCounts DEF old, q, f
      <4> QED
        BY <1>1, <1>8, <3>1, <4>1, AnswerRead DEF NotFor, q, f
    <3> QED
      BY <3>1, <3>2, <3>3
  <2>3. ASSUME NEW n \in old  PROVE Staged(Own(n)', toVault', fromVault', db, apart)
    <3>1. Goes
      BY <2>1, <2>2
    <3> QED
      BY <1>17, <1>25, <3>1
  <2> QED
    BY <1>1, <1>16, <2>3 DEF Stages
<1> QED
  BY <1>23, <1>24, <1>27, <1>28 DEF MarkInv

\* What a client that is told of its manager has: a game that was opened.
LEMMA AskerIsOpen ==
  ASSUME IdInv, MarkInv, NEW n \in DOMAIN mark, MayAsk(n), AfterStart(n)
  PROVE  /\ n \in DOMAIN mgrs /\ mgrs[n].id # 0 /\ mark[n].local # 0
         /\ Own(n).shown.state \in {"LIST_WAIT", "READY"}
         /\ Open(Own(n), toVault, fromVault, db, apart)
<1>1. n \in DOMAIN mgrs /\ mgrs[n].id # 0
  BY DEF MarkInv, MarkTyped, MayAsk, Known
<1>2. IsManager(mgrs[n], mark[n], view[n], next_id, Len(db)) /\ Staged(Own(n), toVault, fromVault, db, apart)
  BY <1>1, MarkCounts
<1>3. mark[n].local # 0
  BY <1>2 DEF IsManager, AfterStart
<1>4. Own(n).id = mgrs[n].id /\ Own(n).shown.state \in {"LIST_WAIT", "READY"}
  BY OwnIs DEF AfterStart
<1> QED
  BY <1>1, <1>2, <1>3, <1>4 DEF Staged, Unopened, Opening

\* StartGame and PauseGame are nothing the database hears of.
LEMMA MarkPlays ==
  ASSUME IdInv, MarkInv, NEW n \in DOMAIN mark, StartMarkers(n) \/ PauseMarkers(n)
  PROVE  MarkInv'
<1> DEFINE old == DOMAIN mgrs
<1>1. /\ UNCHANGED <<mgrs, waiting, next_id, toVault, fromVault, db, view, apart>>
      /\ \E s \in {"READY", "PLAYING"} : mark' = [mark EXCEPT ![n].state = s]
      /\ mark[n].state \in {"READY", "PLAYING"}
  BY DEF StartMarkers, PauseMarkers, mgrVars
<1>2. PICK s \in {"READY", "PLAYING"} : mark' = [mark EXCEPT ![n].state = s]
  BY <1>1
<1>3. DOMAIN mark = old /\ n \in old
  BY DEF MarkInv, MarkTyped
<1>4. PICK k : k = mark[n]
  OBVIOUS
<1>5. IsManager(mgrs[n], k, view[n], next_id, Len(db))
  BY <1>3, <1>4, MarkCounts
<1>6. PICK l : l = mark'[n]
  OBVIOUS
<1>7. DOMAIN mark' = old /\ l = [k EXCEPT !.state = s] /\ \A i \in old : i # n => mark'[i] = mark[i]
  BY <1>2, <1>3, <1>4, <1>6
<1> HIDE DEF old
<1>8. IsMark(k) /\ k.state \in {"READY", "PLAYING"}
  BY <1>1, <1>4, <1>5 DEF IsManager
<1>9. /\ IsMark(l) /\ l.state = s /\ l.template = k.template /\ l.local = k.local /\ l.name = k.name
  BY <1>7, <1>8 DEF IsMark
<1>10. IsManager(mgrs[n], l, view[n], next_id, Len(db))
  BY <1>5, <1>8, <1>9 DEF IsManager
<1>11. Own(n)' = Own(n)
  BY <1>1, <1>4, <1>6, <1>8, <1>9 DEF Own, Shown
<1>12. \A i \in old : Own(i)' = Own(i)
  BY <1>1, <1>7, <1>11, OwnStays
<1>13. MarkTyped'
  <2>1. \A i \in old : IsManager(mgrs[i], mark'[i], view[i], next_id, Len(db))
    BY <1>6, <1>7, <1>10, MarkCounts DEF old
  <2> QED
    BY <1>1, <1>7, <2>1 DEF MarkInv, MarkTyped, old
<1>14. MarkIds'
  BY <1>1 DEF MarkInv, MarkIds
<1>15. Sole' /\ Stages'
  BY <1>1, <1>12 DEF MarkInv, Sole, Stages, old
<1> QED
  BY <1>13, <1>14, <1>15 DEF MarkInv

\* A client asks for a change of its game.
LEMMA MarkAsks ==
  ASSUME kind = "marker", IdInv, MarkInv, NEW n \in DOMAIN mark,
         NEW op \in ChangeOps, NEW num, NEW name, AfterStart(n), Ask(n, op, num, name),
         DOMAIN mark' = DOMAIN mark, DOMAIN view' = DOMAIN view,
         \A k \in DOMAIN mark : k # n => mark'[k] = mark[k] /\ view'[k] = view[k],
         NEW b, b = mark'[n], NEW v, v = view'[n],
         IsManager(mgrs[n], b, v, next_id, Len(db)),
         b.template = mark[n].template, b.local = mark[n].local,
         NEW y, y = Own(n)',
         y.shown = Own(n).shown \/ (op = "stop" /\ SameElse(Own(n).shown, y.shown))
  PROVE  MarkInv'
<1> DEFINE q == toVault
           f == fromVault
           old == DOMAIN mgrs
<1>1. PICK m : m = Request(n, op, num, name)
  OBVIOUS
<1>2. toVault' = Append(q, m) /\ UNCHANGED <<mgrs, waiting, next_id, fromVault, db, apart>>
  BY <1>1 DEF Ask
<1>3. /\ IsQueue(q) /\ IsQueue(f) /\ Len(db) \in Nat /\ next_id \in Nat /\ next_id > 0
  BY MarkCounts
<1>4. PICK x : x = Own(n)
  OBVIOUS
<1>5. /\ n \in old /\ x.id # 0 /\ mark[n].local # 0 /\ Open(x, q, f, db, apart)
      /\ x.id = mgrs[n].id /\ x.who = mgrs[n].owner /\ x.shown.local = mark[n].local
      /\ x.template = mark[n].template
      /\ x.shown.state # "START" /\ DOMAIN mark = old /\ DOMAIN view = old
  <2>1. MayAsk(n)
    BY DEF Ask
  <2> QED
    BY <1>4, <2>1, AskerIsOpen, OwnIs DEF MarkInv, MarkTyped
<1>6. /\ IsAsked(m) /\ m.op = op /\ m.id = x.id /\ m.local = x.shown.local /\ m.who = x.who
  BY <1>1, <1>5 DEF Request, IsAsked
<1>7. /\ y.id = x.id /\ y.who = x.who /\ y.template = x.template
  BY <1>2, <1>5 DEF Own
<1>8. y.shown = x.shown \/ (m.op = "stop" /\ SameElse(x.shown, y.shown))
  BY <1>4, <1>6
<1>9. op \notin {"nextid", "newgame"}
  BY DEF ChangeOps
<1> HIDE DEF q, f, old
<1>10. \A k \in old : k # n => Own(k)' = Own(k)
  BY <1>2, <1>5, OwnStays
<1>11. IsManager(mgrs[n], mark[n], view[n], next_id, Len(db))
  BY <1>5, MarkCounts DEF old
<1>12. MarkTyped'
  <2>1. Drawn(toVault', q, {m})
    BY <1>2, <1>3, DrawnSent DEF q
  <2>2. IsRequest(m, next_id, Len(db))
    <3>1. m.id \in Nat \ {0} /\ m.id < next_id /\ m.local \in 0..Len(db) /\ m.local # 0
      BY <1>5, <1>6, <1>11 DEF IsManager, Owners
    <3> QED
      BY <1>6, <3>1 DEF IsRequest
  <2>3. \A j \in 1..Len(toVault') : IsRequest(toVault'[j], next_id, Len(db))
    BY <2>1, <2>2, MarkCounts DEF Drawn, q
  <2>4. \A k \in old : IsManager(mgrs[k], mark'[k], view'[k], next_id, Len(db))
    BY <1>5, MarkCounts DEF old
  <2> QED
    BY <1>2, <1>5, <2>3, <2>4 DEF MarkInv, MarkTyped, old
<1>13. MarkIds'
  <2>1. ASSUME NEW j \in 1..Len(f), f[j].op = "nextid"
        PROVE  NotUsed(mgrs, toVault', f, f[j].id, j)
    <3>1. NotUsed(mgrs, q, f, f[j].id, j)
      BY <2>1 DEF MarkInv, MarkIds, q, f
    <3>2. m.id # f[j].id
      BY <1>5, <1>6, <3>1 DEF NotUsed, old
    <3>3. Drawn(toVault', q, {m})
      BY <1>2, <1>3, DrawnSent DEF q
    <3>4. \A l \in 1..Len(toVault') : toVault'[l].op # "nextid" => toVault'[l].id # f[j].id
      BY <3>1, <3>2, <3>3 DEF NotUsed, Drawn
    <3> QED
      BY <3>1, <3>4 DEF NotUsed
  <2> QED
    BY <1>2, <2>1 DEF MarkInv, MarkIds, f
<1>14. Sole'
  <2>1. y.shown.local = x.shown.local
    BY <1>8 DEF SameElse
  <2>2. \A g : Has(y, f, g) => Has(x, f, g)
    BY <1>7, <2>1 DEF Has
  <2>3. \A k \in old : \A g : Has(Own(k)', f, g) => Has(Own(k), f, g)
    BY <1>4, <1>10, <2>2
  <2> QED
    BY <1>2, <2>3, SoleKeeps DEF MarkInv, old, f
<1>15. Stages'
  <2>1. Open(y, Append(q, m), f, db, apart)
    <3>1. IsChange(m)
      BY <1>6, <1>9 DEF IsChange
    <3> QED
      BY <1>3, <1>5, <1>6, <1>7, <1>8, <3>1, OwnSent
  <2>2. ASSUME NEW k \in old, k # n  PROVE Staged(Own(k), Append(q, m), f, db, apart)
    <3>1. Staged(Own(k), q, f, db, apart)
      BY MarkCounts DEF old, q, f
    <3>2. m.id # Own(k).id
      <4>1. Own(k).id = mgrs[k].id
        BY OwnIs
      <4> QED
        BY <1>5, <1>6, <2>2, <4>1 DEF MarkInv, MarkIds, old
    <3>3. Has(Own(k), f, m.local) => m.local \in apart
      <4>1. Has(x, f, m.local)
        BY <1>5, <1>6 DEF Has
      <4> QED
        BY <1>4, <1>5, <2>2, <4>1 DEF MarkInv, Sole, old, f
    <3>4. Foreign(Own(k), f, apart, m) /\ m.local # 0
      BY <1>5, <1>6, <3>2, <3>3 DEF Foreign
    <3> QED
      BY <1>3, <3>1, <3>4, ForeignSent
  <2>3. ASSUME NEW k \in old  PROVE Staged(Own(k)', Append(q, m), f, db, apart)
    BY <1>10, <2>1, <2>2 DEF Staged
  <2> QED
    BY <1>2, <2>3 DEF Stages, old, f, q
<1> QED
  BY <1>12, <1>13, <1>14, <1>15 DEF MarkInv

\* Every message of a client to its manager.
LEMMA MarkMessages ==
  ASSUME kind = "marker", IdInv, MarkInv, MarkerNext
  PROVE  MarkInv'
<1>1. PICK n \in DOMAIN mark :
        \/ StartMarkers(n) \/ PauseMarkers(n) \/ ResetMarkers(n) \/ DeleteGame(n)
        \/ \E name \in GameNames : AddMarker(n, name) \/ RenameGame(n, name)
        \/ \E i \in DOMAIN view[n].markers :
             \/ DeleteMarker(n, i) \/ CaptureMarker(n, i)
             \/ \E name \in GameNames : RenameMarker(n, i, name)
  BY DEF MarkerNext
<1>2. PICK b, v : b = mark'[n] /\ v = view'[n]
  OBVIOUS
<1>3. PICK y : y = Own(n)'
  OBVIOUS
<1>4. n \in DOMAIN mgrs /\ IsManager(mgrs[n], mark[n], view[n], next_id, Len(db))
      /\ DOMAIN view = DOMAIN mark
  BY MarkCounts DEF MarkInv, MarkTyped
<1>5. CASE StartMarkers(n) \/ PauseMarkers(n)
  BY <1>5, MarkPlays
<1>6. CASE ResetMarkers(n)
  <2>1. Ready(n) /\ Ask(n, "stop", 0, "none") /\ AfterStart(n)
    BY <1>6 DEF ResetMarkers, Ready, AfterStart
  <2>2. mark' = [mark EXCEPT ![n].state = "READY"] /\ view' = [view EXCEPT ![n].captured = {}]
    BY <1>6 DEF ResetMarkers
  <2>3. PICK k, w : k = mark[n] /\ w = view[n]
    OBVIOUS
  <2>4. /\ b = [k EXCEPT !.state = "READY"] /\ v = [w EXCEPT !.captured = {}]
        /\ DOMAIN mark' = DOMAIN mark /\ DOMAIN view' = DOMAIN view
        /\ \A i \in DOMAIN mark : i # n => mark'[i] = mark[i] /\ view'[i] = view[i]
    BY <1>2, <1>4, <2>2, <2>3
  <2>5. IsMark(k) /\ IsView(w) /\ k.state \in {"READY", "PLAYING"}
    BY <1>4, <2>1, <2>3 DEF IsManager, Ready
  <2>6. /\ IsMark(b) /\ IsView(v) /\ b.state = "READY" /\ b.template = k.template
        /\ b.local = k.local /\ b.name = k.name /\ v.name = w.name /\ v.markers = w.markers
    BY <2>4, <2>5 DEF IsMark, IsView
  <2>7. IsManager(mgrs[n], b, v, next_id, Len(db))
    BY <1>4, <2>3, <2>5, <2>6 DEF IsManager
  <2>8. SameElse(Own(n).shown, y.shown)
    <3>1. y.shown = [state |-> IF b.state = "PLAYING" THEN "READY" ELSE b.state,
                     local |-> b.local, title |-> b.name, name |-> v.name,
                     markers |-> v.markers, captured |-> v.captured]
      BY <1>2, <1>3 DEF Own, Shown
    <3>2. Own(n).shown = [state |-> IF k.state = "PLAYING" THEN "READY" ELSE k.state,
                          local |-> k.local, title |-> k.name, name |-> w.name,
                          markers |-> w.markers, captured |-> w.captured]
      BY <2>3 DEF Own, Shown
    <3> QED
      BY <2>5, <2>6, <3>1, <3>2 DEF SameElse, IsShown
  <2>9. "stop" \in ChangeOps
    BY DEF ChangeOps
  <2> QED
    BY <1>2, <1>3, <2>1, <2>3, <2>4, <2>6, <2>7, <2>8, <2>9, MarkAsks
<1>7. ASSUME NEW op \in ChangeOps, NEW num, NEW name, AfterStart(n), Ask(n, op, num, name),
             UNCHANGED <<mark, view>>
      PROVE  MarkInv'
  <2>1. UNCHANGED mgrs
    BY <1>7 DEF Ask
  <2>2. y = Own(n)
    BY <1>3, <1>7, <2>1, OwnStays
  <2> QED
    BY <1>2, <1>3, <1>4, <1>7, <2>2, MarkAsks
<1>8. Ready(n) => AfterStart(n)
  BY DEF Ready, AfterStart
<1>9. {"add", "rename", "delete", "capture", "renamegame", "deletegame"} \subseteq ChangeOps
  BY DEF ChangeOps
<1>10. CASE DeleteGame(n)
  BY <1>7, <1>9, <1>10 DEF DeleteGame
<1>11. ASSUME NEW name, AddMarker(n, name) \/ RenameGame(n, name)  PROVE MarkInv'
  BY <1>7, <1>8, <1>9, <1>11 DEF AddMarker, RenameGame
<1>12. ASSUME NEW i, DeleteMarker(n, i) \/ CaptureMarker(n, i)  PROVE MarkInv'
  BY <1>7, <1>8, <1>9, <1>12 DEF DeleteMarker, CaptureMarker
<1>13. ASSUME NEW i, NEW name, RenameMarker(n, i, name)  PROVE MarkInv'
  BY <1>7, <1>8, <1>9, <1>13 DEF RenameMarker
<1> QED
  BY <1>1, <1>5, <1>6, <1>10, <1>11, <1>12, <1>13

\* A request of the front of the queue, as the backend takes it.
LEMMA FrontIs ==
  ASSUME IdInv, MarkInv, toVault # <<>>
  PROVE  /\ Len(toVault) \in Nat /\ Len(toVault) > 0 /\ 1 \in 1..Len(toVault)
         /\ Head(toVault) = toVault[1]
         /\ IsRequest(Head(toVault), next_id, Len(db))
<1>1. IsQueue(toVault)
  BY MarkCounts
<1>2. Len(toVault) \in Nat /\ Len(toVault) > 0 /\ Head(toVault) = toVault[1]
  BY <1>1, QueueRead
<1> QED
  BY <1>2, MarkCounts

\* The backend changes a game.
LEMMA MarkChanges ==
  ASSUME IdInv, MarkInv, NEW try \in Tries, VaultChanges(try)
  PROVE  MarkInv'
<1> DEFINE q == toVault
           f == fromVault
           old == DOMAIN mgrs
<1>1. PICK m : m = Head(q)
  OBVIOUS
<1>2. PICK out : out = Outcome(m, try)
  OBVIOUS
<1>3. PICK c : c = IF Applied(try) THEN Committed(m) ELSE db
  OBVIOUS
<1>4. PICK b : b = IF out = "ERROR" THEN apart \cup {m.local} ELSE apart
  OBVIOUS
<1>5. /\ q # <<>> /\ m.op \notin {"nextid", "newgame"}
      /\ db' = c /\ fromVault' = f \o Reply(m, out) /\ apart' = b /\ toVault' = Tail(q)
      /\ UNCHANGED <<mark, view, mgrs, waiting, next_id>>
  BY <1>1, <1>2, <1>3, <1>4 DEF VaultChanges
<1>6. /\ IsQueue(q) /\ IsQueue(f) /\ IsQueue(db) /\ Len(db) \in Nat /\ next_id \in Nat /\ next_id > 0
  BY MarkCounts
<1>7. /\ m = q[1] /\ 1 \in 1..Len(q)
      /\ m.op \in ChangeOps /\ IsAsked(m) /\ m.id \in Nat \ {0} /\ m.id < next_id
      /\ m.local \in 1..Len(db) /\ m.op # "nextid"
  <2>1. m = q[1] /\ 1 \in 1..Len(q) /\ IsRequest(m, next_id, Len(db))
    BY <1>1, <1>5, FrontIs
  <2> QED
    BY <1>5, <1>6, <2>1 DEF IsRequest
<1>8. /\ IsQueue(c) /\ Len(c) = Len(db)
      /\ \A g \in 1..Len(db) : g # m.local => c[g] = db[g]
      /\ c[m.local] = IF Applied(try) /\ Result(m) = "OK" THEN Updated(m) ELSE Row(m)
  BY <1>3, <1>6, <1>7, RowsAre
<1>9. IsRow(Row(m))
  BY <1>7 DEF Row, MarkInv, MarkTyped
<1>10. \A g \in 1..Len(c) : IsRow(c[g])
  <2>1. IsRow(c[m.local])
    <3>1. CASE Applied(try) /\ Result(m) = "OK"
      BY <1>7, <1>8, <1>9, <3>1, UpdatedIs
    <3>2. CASE ~(Applied(try) /\ Result(m) = "OK")
      BY <1>8, <1>9, <3>2
    <3> QED
      BY <3>1, <3>2
  <2> QED
    BY <1>8, <2>1 DEF MarkInv, MarkTyped
<1>11. apart \subseteq b
  BY <1>4
<1>12. PICK y : /\ y.op = m.op /\ y.id = m.id
                /\ fromVault' = f \/ (m.op # "stop" /\ fromVault' = Append(f, y))
  <2>1. CASE Reply(m, out) = <<>>
    BY <1>5, <1>6, <2>1, JoinOne
  <2>2. ASSUME NEW y, Reply(m, out) = <<y>>, y.op = m.op, y.id = m.id
        PROVE  fromVault' = Append(f, y) /\ m.op # "stop"
    <3>1. fromVault' = Append(f, y)
      BY <1>5, <1>6, <2>2, JoinOne
    <3>2. m.op = "stop" => Reply(m, out) = <<>>
      BY DEF Reply
    <3> QED
      BY <2>2, <3>1, <3>2
  <2> QED
    BY <1>7, <2>1, <2>2, ReplyIs
<1> HIDE DEF q, f, old
<1>13. Drawn(fromVault', f, {y})
  <2>1. Drawn(f, f, {y})
    BY <1>6 DEF Drawn
  <2> QED
    BY <1>6, <1>12, <2>1, DrawnSent
<1>14. PICK none : none = {}
  OBVIOUS
<1>15. Drawn(toVault', q, none)
  BY <1>5, <1>6, DrawnRead, <1>14
<1>16. \A n : Own(n)' = Own(n)
  BY <1>5, OwnStays
<1>17. MarkTyped'
  <2>1. \A j \in 1..Len(toVault') : IsRequest(toVault'[j], next_id, Len(db))
    BY <1>14, <1>15, MarkCounts DEF Drawn, q
  <2>2. fromVault' # f => IsAnswer(y, next_id, Len(db))
    BY <1>7, <1>12 DEF IsAnswer, AnswerOps, ChangeOps
  <2>3. \A j \in 1..Len(fromVault') : IsAnswer(fromVault'[j], next_id, Len(db))
    <3>1. \A j \in 1..Len(f) : IsAnswer(f[j], next_id, Len(db))
      BY MarkCounts DEF f
    <3> QED
      BY <1>13, <2>2, <3>1 DEF Drawn
  <2> QED
    BY <1>5, <1>8, <1>10, <2>1, <2>3 DEF MarkInv, MarkTyped
<1>18. MarkIds'
  <2>1. ASSUME NEW j \in 1..Len(fromVault'), fromVault'[j].op = "nextid"
        PROVE  NotUsed(mgrs, toVault', fromVault', fromVault'[j].id, j)
    <3>1. j \in 1..Len(f) /\ fromVault'[j] = f[j]
          /\ \A k \in 1..Len(fromVault') : (k \in 1..Len(f) /\ fromVault'[k] = f[k]) \/ fromVault'[k] = y
      <4>1. CASE fromVault' = f
        BY <2>1, <4>1
      <4>2. CASE fromVault' = Append(f, y)
        <5>1. /\ Len(f) \in Nat /\ Len(fromVault') = Len(f) + 1 /\ fromVault'[Len(f) + 1] = y
              /\ \A k \in 1..Len(f) : fromVault'[k] = f[k]
          BY <1>6, <4>2, QueueSent DEF f
        <5>2. \A k \in 1..(Len(f) + 1) : k \in 1..Len(f) \/ k = Len(f) + 1
          BY <5>1
        <5> QED
          BY <1>7, <1>12, <2>1, <5>1, <5>2
      <4> QED
        BY <1>12, <4>1, <4>2
    <3>2. NotUsed(mgrs, q, f, f[j].id, j)
      BY <2>1, <3>1 DEF MarkInv, MarkIds, f, q
    <3>3. f[j].id # m.id
      BY <1>7, <3>2 DEF NotUsed
    <3>4. \A k \in 1..Len(fromVault') : fromVault'[k].id = f[j].id => k = j
      BY <1>12, <3>1, <3>2, <3>3 DEF NotUsed
    <3>5. \A k \in 1..Len(toVault') : toVault'[k].op # "nextid" => toVault'[k].id # f[j].id
      BY <1>14, <1>15, <3>2 DEF NotUsed, Drawn
    <3> QED
      BY <3>1, <3>2, <3>4, <3>5 DEF NotUsed
  <2> QED
    BY <1>5, <2>1 DEF MarkInv, MarkIds
<1>19. Sole'
  <2>1. ASSUME NEW n \in old, NEW g, Has(Own(n), fromVault', g)  PROVE Has(Own(n), f, g)
    <3>1. y.op # "newgame"
      BY <1>5, <1>12
    <3> QED
      BY <1>6, <1>12, <2>1, <3>1, HasSent DEF f
  <2>2. \A n \in DOMAIN mgrs' : \A g : Has(Own(n)', fromVault', g) => Has(Own(n), fromVault, g)
    BY <1>5, <1>16, <2>1 DEF f, old
  <2> QED
    BY <1>5, <1>11, <2>2, SoleKeeps DEF MarkInv
<1>20. Stages'
  <2>1. ASSUME NEW n \in old  PROVE Staged(Own(n), Tail(q), f \o Reply(m, out), c, b)
    <3>1. Staged(Own(n), q, f, db, apart)
      BY MarkCounts DEF old, q, f
    <3>2. PICK x : x = Own(n)
      OBVIOUS
    <3>3. CASE x.id = m.id
      <4>1. ~Unopened(x)
        BY <1>7, <3>3 DEF Unopened
      <4>2. ~Opening(x, q, f, apart)
        <5> SUFFICES ASSUME NEW k \in 1..Len(q), AsksAt(x, q, apart, k)  PROVE FALSE
          BY DEF Opening
        <5>1. k = 1
          BY <1>7, <3>3 DEF AsksAt
        <5> QED
          BY <1>5, <1>7, <5>1 DEF AsksAt
      <4>3. Open(x, q, f, db, apart)
        BY <3>1, <3>2, <4>1, <4>2 DEF Staged
      <4>4. Open(x, Tail(q), f \o Reply(m, out), c, b)
        BY <1>1, <1>2, <1>3, <1>4, <1>5, <1>6, <1>7, <1>9, <3>3, <4>3, OwnChanged DEF q, f
      <4> QED
        BY <3>2, <4>4 DEF Staged
    <3>4. CASE x.id # m.id
      <4>1. \A g \in 1..Len(db) : \/ c[g] = db[g]
                                  \/ \E j \in 1..Len(q) : IsChange(q[j]) /\ q[j].id # x.id /\ q[j].local = g
        BY <1>5, <1>7, <1>8, <3>4 DEF IsChange
      <4>2. Staged(x, q, f, c, b)
        <5>1. Len(db) \in Nat /\ Len(c) \in Nat /\ Len(db) <= Len(c)
          BY <1>6, <1>8
        <5> QED
          BY <1>11, <3>1, <3>2, <4>1, <5>1, RowsChange
      <4>3. NotFor(x.id, Head(q))
        BY <1>1, <3>4 DEF NotFor, q
      <4>4. Staged(x, Tail(q), f, c, b)
        BY <1>5, <1>6, <4>2, <4>3, ForeignTaken DEF q, f
      <4>5. NotFor(x.id, y)
        BY <1>12, <3>4 DEF NotFor
      <4>6. Staged(x, Tail(q), Append(f, y), c, b)
        BY <1>6, <4>4, <4>5, AnswerSent DEF f
      <4> QED
        BY <1>5, <1>12, <3>2, <4>4, <4>6
    <3> QED
      BY <3>3, <3>4
  <2> QED
    BY <1>5, <1>16, <2>1 DEF Stages, old
<1> QED
  BY <1>17, <1>18, <1>19, <1>20 DEF MarkInv

\* An answer to the request m for game l, and a queue that has such answers behind others.
IsOpening(m, l, u) ==
  u.op \in {"newgame", "dump", "state"} /\ u.id = m.id /\ (u.op = "newgame" => u.local = l)
Told(r, f, m, l) ==
  /\ IsQueue(r) /\ Len(f) <= Len(r)
  /\ \A j \in 1..Len(r) : (j \in 1..Len(f) /\ r[j] = f[j]) \/ (j > Len(f) /\ IsOpening(m, l, r[j]))

\* One more such answer.
LEMMA ToldMore ==
  ASSUME NEW f, IsQueue(f), NEW m, NEW l, NEW r, Told(r, f, m, l), NEW u, IsOpening(m, l, u)
  PROVE  Told(Append(r, u), f, m, l)
<1> DEFINE n == Len(r)
           s == Append(r, u)
<1>1. /\ n \in Nat /\ IsQueue(s) /\ Len(s) = n + 1 /\ s[n + 1] = u /\ \A i \in 1..n : s[i] = r[i]
  BY QueueSent DEF Told
<1>2. Len(f) \in Nat /\ Len(f) <= n
  BY DEF Told, IsQueue
<1> HIDE DEF s
<1>3. ASSUME NEW j \in 1..(n + 1)
      PROVE  (j \in 1..Len(f) /\ s[j] = f[j]) \/ (j > Len(f) /\ IsOpening(m, l, s[j]))
  <2>1. CASE j = n + 1
    BY <1>1, <1>2, <2>1
  <2>2. CASE j \in 1..n
    BY <1>1, <2>2 DEF Told
  <2> QED
    BY <1>1, <2>1, <2>2
<1>4. Len(f) <= n + 1
  BY <1>1, <1>2
<1> HIDE DEF n
<1> QED
  BY <1>1, <1>3, <1>4 DEF Told, s

\* What the backend answers when it opens a game.
OpensTo(r, f, m, l, found) ==
  \E u, v, w :
    /\ IsOpening(m, l, u) /\ IsOpening(m, l, v) /\ IsOpening(m, l, w)
    /\ r \in {f, Append(f, u), Append(Append(f, u), v), Append(Append(Append(f, u), v), w)}
    /\ ~found => r = f

\* Each case of VaultOpens sends such answers, in this order.
LEMMA OpensAre ==
  ASSUME NEW f, IsQueue(f), NEW m, NEW d,
         NEW found \in BOOLEAN, NEW listed \in BOOLEAN, NEW states \in BOOLEAN, NEW l, l = IF m.local = 0 THEN Len(d) + 1 ELSE m.local,
         NEW r, r = f \o Opens(m, d, found, listed, states)
  PROVE  OpensTo(r, f, m, l, found)
<1> DEFINE new == m.local = 0
           row == IF new THEN NewRow(m.cgz) ELSE d[m.local]
           markers == IF listed THEN row.markers ELSE <<>>
           u == [op |-> "newgame", id |-> m.id, exists |-> row.exists, local |-> l,
                 name |-> row.name, cgz |-> row.cgz]
           v == [op |-> "dump", id |-> m.id, markers |-> markers]
           w == [op |-> "state", id |-> m.id,
                 captured |-> IF states THEN Captured(row, m.who) ELSE {}]
<1>1. IsOpening(m, l, u) /\ IsOpening(m, l, v) /\ IsOpening(m, l, w)
  BY DEF IsOpening
<1>2. Opens(m, d, found, listed, states) =
         CASE ~found -> <<>>
           [] found /\ (new \/ ~row.exists) -> <<u>>
           [] found /\ ~new /\ row.exists /\ markers = <<>> -> <<u, v>>
           [] OTHER -> <<u, v, w>>
  BY DEF Opens
<1> HIDE DEF u, v, w, row, markers, new
<1>3. /\ f \o <<>> = f /\ f \o <<u>> = Append(f, u) /\ f \o <<u, v>> = Append(Append(f, u), v)
      /\ f \o <<u, v, w>> = Append(Append(Append(f, u), v), w)
  BY JoinOne
<1>4. /\ Opens(m, d, found, listed, states) \in {<<>>, <<u>>, <<u, v>>, <<u, v, w>>}
      /\ ~found => Opens(m, d, found, listed, states) = <<>>
  BY <1>2
<1>5. r \in {f, Append(f, u), Append(Append(f, u), v), Append(Append(Append(f, u), v), w)}
      /\ (~found => r = f)
  BY <1>3, <1>4
<1> QED
  BY <1>1, <1>5 DEF OpensTo

\* The games that are there are those that a manager can have.
LEMMA HasFew ==
  ASSUME IdInv, MarkInv, NEW n \in DOMAIN mgrs, NEW g, Has(Own(n), fromVault, g)
  PROVE  g \in 1..Len(db)
<1>1. Own(n).template = mark[n].template /\ Own(n).shown.local = mark[n].local
  BY OwnIs
<1>2. IsManager(mgrs[n], mark[n], view[n], next_id, Len(db)) /\ Len(db) \in Nat
  BY MarkCounts
<1>3. g # 0 /\ g \in {mark[n].template, mark[n].local} => g \in 1..Len(db)
  BY <1>2 DEF IsManager
<1>4. DOMAIN fromVault = 1..Len(fromVault)
  BY MarkCounts DEF IsQueue
<1>5. \A i \in 1..Len(fromVault) : fromVault[i].op = "newgame" => fromVault[i].local \in 1..Len(db)
  BY MarkCounts DEF IsAnswer
<1> QED
  BY <1>1, <1>3, <1>4, <1>5 DEF Has

\* The backend opens a game.
LEMMA MarkOpens ==
  ASSUME IdInv, MarkInv, NEW found \in BOOLEAN, NEW listed \in BOOLEAN, NEW states \in BOOLEAN,
         VaultOpens(found, listed, states)
  PROVE  MarkInv'
<1> DEFINE q == toVault
           f == fromVault
           old == DOMAIN mgrs
<1>1. PICK m : m = Head(q)
  OBVIOUS
<1>2. PICK c : c = IF m.local = 0 /\ found THEN Append(db, NewRow(m.cgz)) ELSE db
  OBVIOUS
<1>3. PICK b : b = IF found /\ listed /\ states THEN apart ELSE apart \cup {m.local}
  OBVIOUS
<1>4. PICK l : l = IF m.local = 0 THEN Len(db) + 1 ELSE m.local
  OBVIOUS
<1>5. /\ q # <<>> /\ m.op = "newgame"
      /\ db' = c /\ apart' = b /\ toVault' = Tail(q)
      /\ UNCHANGED <<mark, view, mgrs, waiting, next_id>>
  BY <1>1, <1>2, <1>3 DEF VaultOpens
<1>6. fromVault' = f \o Opens(m, db, found, listed, states)
  BY <1>1 DEF VaultOpens, Opens, Row
<1>7. /\ IsQueue(q) /\ IsQueue(f) /\ IsQueue(db) /\ Len(db) \in Nat /\ next_id \in Nat /\ next_id > 0
  BY MarkCounts
<1>8. /\ m = q[1] /\ 1 \in 1..Len(q) /\ Len(q) \in Nat
      /\ m.id \in Nat \ {0} /\ m.id < next_id /\ m.local \in 0..Len(db)
  <2>1. m = q[1] /\ 1 \in 1..Len(q) /\ Len(q) \in Nat /\ IsRequest(m, next_id, Len(db))
    BY <1>1, <1>5, FrontIs
  <2> QED
    BY <1>5, <1>7, <2>1 DEF IsRequest
<1>9. /\ IsQueue(c) /\ Len(c) \in Nat /\ Len(db) <= Len(c)
      /\ \A g \in 1..Len(db) : c[g] = db[g]
      /\ \A g \in 1..Len(c) : IsRow(c[g])
      /\ m.local = 0 /\ found => Len(c) = Len(db) + 1 /\ c[Len(db) + 1] = NewRow(m.cgz)
      /\ found => l \in 1..Len(c)
  <2>1. \A g \in 1..Len(db) : IsRow(db[g])
    BY DEF MarkInv, MarkTyped
  <2>2. CASE m.local = 0 /\ found
    <3>1. IsRow(NewRow(m.cgz))
      <4>1. <<>> = [i \in DOMAIN <<>> |-> <<>>[i]] /\ DOMAIN <<>> \subseteq DOMAIN <<>>
        OBVIOUS
      <4> QED
        BY <4>1 DEF IsRow, NewRow
    <3>2. /\ IsQueue(c) /\ Len(c) = Len(db) + 1 /\ c[Len(db) + 1] = NewRow(m.cgz)
          /\ \A g \in 1..Len(db) : c[g] = db[g]
      BY <1>2, <1>7, <2>2, QueueSent
    <3>3. \A g \in 1..(Len(db) + 1) : g \in 1..Len(db) \/ g = Len(db) + 1
      BY <1>7
    <3> QED
      BY <1>4, <1>7, <2>1, <2>2, <3>1, <3>2, <3>3
  <2>3. CASE ~(m.local = 0 /\ found)
    <3>1. c = db /\ (found => l \in 1..Len(db))
      BY <1>2, <1>4, <1>7, <1>8, <2>3
    <3> QED
      BY <1>7, <2>1, <2>3, <3>1
  <2> QED
    BY <2>2, <2>3
<1>10. apart \subseteq b
  BY <1>3
<1>11. PICK u, v, w :
         /\ IsOpening(m, l, u) /\ IsOpening(m, l, v) /\ IsOpening(m, l, w)
         /\ fromVault' \in {f, Append(f, u), Append(Append(f, u), v), Append(Append(Append(f, u), v), w)}
         /\ ~found => fromVault' = f
  <2>1. PICK r : r = fromVault'
    OBVIOUS
  <2>2. r = f \o Opens(m, db, found, listed, states)
    BY <1>6, <2>1
  <2> HIDE DEF f
  <2>3. OpensTo(r, f, m, l, found)
    BY <1>4, <1>7, <2>2, OpensAre
  <2> QED
    BY <2>1, <2>3 DEF OpensTo
<1> HIDE DEF q, f, old
<1>12. Told(fromVault', f, m, l)
  <2>1. Told(f, f, m, l)
    BY <1>7 DEF Told, IsQueue, f
  <2>2. Told(Append(f, u), f, m, l)
    BY <1>7, <1>11, <2>1, ToldMore DEF f
  <2>3. Told(Append(Append(f, u), v), f, m, l)
    BY <1>7, <1>11, <2>2, ToldMore DEF f
  <2>4. Told(Append(Append(Append(f, u), v), w), f, m, l)
    BY <1>7, <1>11, <2>3, ToldMore DEF f
  <2> QED
    BY <1>11, <2>1, <2>2, <2>3, <2>4
<1>13. PICK none : none = {}
  OBVIOUS
<1>14. Drawn(toVault', q, none)
  BY <1>5, <1>7, DrawnRead, <1>13
<1>15. \A n : Own(n)' = Own(n)
  BY <1>5, OwnStays
<1>16. MarkTyped'
  <2>1. ASSUME NEW e, IsRequest(e, next_id, Len(db))  PROVE IsRequest(e, next_id, Len(c))
    <3>1. Len(db) \in Nat /\ Len(c) \in Nat /\ Len(db) <= Len(c)
      BY <1>7, <1>9
    <3> QED
      BY ONLY <2>1, <3>1 DEF IsRequest
  <2>2. ASSUME NEW e, IsAnswer(e, next_id, Len(db))  PROVE IsAnswer(e, next_id, Len(c))
    <3>1. Len(db) \in Nat /\ Len(c) \in Nat /\ Len(db) <= Len(c)
      BY <1>7, <1>9
    <3> QED
      BY ONLY <2>2, <3>1 DEF IsAnswer
  <2>3. \A j \in 1..Len(toVault') : IsRequest(toVault'[j], next_id, Len(c))
    BY <1>13, <1>14, <2>1, MarkCounts DEF Drawn, q
  <2>4. ASSUME NEW e, IsOpening(m, l, e), found  PROVE IsAnswer(e, next_id, Len(c))
    BY <1>8, <1>9, <2>4 DEF IsAnswer, IsOpening, AnswerOps
  <2>5. \A j \in 1..Len(f) : IsAnswer(f[j], next_id, Len(c))
    BY <2>2, MarkCounts DEF f
  <2>6. \A j \in 1..Len(fromVault') : IsAnswer(fromVault'[j], next_id, Len(c))
    BY <1>11, <1>12, <2>4, <2>5 DEF Told
  <2>7. \A n \in DOMAIN mgrs : IsManager(mgrs[n], mark[n], view[n], next_id, Len(c))
    <3>1. next_id \in Nat /\ next_id <= next_id /\ Len(db) \in Nat /\ Len(c) \in Nat /\ Len(db) <= Len(c)
      BY <1>7, <1>9
    <3> QED
      BY <3>1, MarkCounts, ManagerGrows
  <2> QED
    BY <1>5, <1>9, <2>3, <2>6, <2>7 DEF MarkInv, MarkTyped
<1>17. MarkIds'
  <2>1. ASSUME NEW j \in 1..Len(fromVault'), fromVault'[j].op = "nextid"
        PROVE  NotUsed(mgrs, toVault', fromVault', fromVault'[j].id, j)
    <3>1. j \in 1..Len(f) /\ fromVault'[j] = f[j]
      BY <1>12, <2>1 DEF Told, IsOpening
    <3>2. NotUsed(mgrs, q, f, f[j].id, j)
      BY <2>1, <3>1 DEF MarkInv, MarkIds, f, q
    <3>3. f[j].id # m.id
      BY <1>5, <1>8, <3>2 DEF NotUsed
    <3>4. \A k \in 1..Len(fromVault') : fromVault'[k].id = f[j].id => k = j
      BY <1>12, <3>1, <3>2, <3>3 DEF NotUsed, Told, IsOpening
    <3>5. \A k \in 1..Len(toVault') : toVault'[k].op # "nextid" => toVault'[k].id # f[j].id
      BY <1>13, <1>14, <3>2 DEF NotUsed, Drawn
    <3> QED
      BY <3>1, <3>2, <3>4, <3>5 DEF NotUsed
  <2> QED
    BY <1>5, <2>1 DEF MarkInv, MarkIds
<1>18. ASSUME NEW n \in old, mgrs[n].id = m.id
       PROVE  Opening(Own(n), q, f, apart) /\ Own(n).template = m.local
  <2>1. PICK x : x = Own(n)
    OBVIOUS
  <2>2. Staged(x, q, f, db, apart) /\ x.id = m.id
    BY <1>18, <2>1, MarkCounts, OwnIs DEF old, q, f
  <2>3. Opening(x, q, f, apart)
    BY <1>5, <1>8, <2>2 DEF Staged, Unopened, Open, AsksNone
  <2>4. x.template = m.local
    <3>1. PICK k \in 1..Len(q) : AsksAt(x, q, apart, k)
      BY <2>3 DEF Opening
    <3>2. k = 1
      BY <1>5, <1>8, <2>2, <3>1 DEF AsksAt
    <3> QED
      BY <1>8, <3>1, <3>2 DEF AsksAt
  <2> QED
    BY <2>1, <2>3, <2>4
<1>19. Sole'
  <2>1. ASSUME NEW n \in old, NEW g, Has(Own(n), fromVault', g)
        PROVE  Has(Own(n), f, g) \/ (mgrs[n].id = m.id /\ g = Len(db) + 1)
    <3>1. PICK x : x = Own(n)
      OBVIOUS
    <3>2. /\ DOMAIN f = 1..Len(f) /\ DOMAIN fromVault' = 1..Len(fromVault')
      BY <1>7, <1>12 DEF Told, IsQueue
    <3>3. Has(x, f, g) \/ (x.id = m.id /\ g = l)
      BY <1>12, <2>1, <3>1, <3>2 DEF Has, Told, IsOpening
    <3>4. x.id = m.id => x.template = m.local /\ mgrs[n].id = m.id
      BY <1>18, <3>1, OwnIs
    <3>5. x.id = m.id /\ m.local # 0 => Has(x, f, m.local)
      BY <3>4 DEF Has
    <3> QED
      BY <1>4, <3>1, <3>3, <3>4, <3>5
  <2>2. ASSUME NEW n \in old, NEW k \in old, n # k, NEW g,
               Has(Own(n), fromVault', g), Has(Own(k), fromVault', g)
        PROVE  g \in b
    <3>1. \A i \in old : Has(Own(i), f, g) => g # Len(db) + 1
      BY <1>7, HasFew DEF old, f
    <3>2. ~(mgrs[n].id = m.id /\ mgrs[k].id = m.id)
      BY <1>8, <2>2 DEF MarkInv, MarkIds, old
    <3>3. Has(Own(n), f, g) /\ Has(Own(k), f, g)
      BY <2>1, <2>2, <3>1, <3>2
    <3> QED
      BY <1>10, <2>2, <3>3 DEF MarkInv, Sole, old, f
  <2> QED
    BY <1>5, <1>15, <2>2 DEF Sole, old
<1>20. Stages'
  <2>1. ASSUME NEW n \in old  PROVE Staged(Own(n), Tail(q), fromVault', c, b)
    <3>1. Staged(Own(n), q, f, db, apart) /\ Own(n).id = mgrs[n].id /\ IsShown(Own(n).shown)
      BY MarkCounts, OwnIs DEF old, q, f
    <3>2. PICK x : x = Own(n)
      OBVIOUS
    <3>3. CASE x.id = m.id
      <4>1. Opening(x, q, f, apart)
        BY <1>18, <3>1, <3>2, <3>3
      <4>2. x.template \in 0..Len(db) /\ IsShown(x.shown)
        BY <1>8, <1>18, <3>1, <3>2, <3>3
      <4>3. \A j \in 1..Len(q) : IsChange(q[j]) => q[j].local \in 1..Len(db)
        <5>1. ASSUME NEW e, IsRequest(e, next_id, Len(db)), IsChange(e)
              PROVE  e.local \in 1..Len(db)
          BY <1>7, <5>1 DEF IsRequest, IsChange
        <5> QED
          BY <5>1, MarkCounts DEF q
      <4>4. Open(x, Tail(q), f \o Opens(m, db, found, listed, states), c, b)
        <5>1. \A g \in 1..Len(db) : IsRow(db[g])
          BY DEF MarkInv, MarkTyped
        <5> QED
          BY <1>1, <1>2, <1>3, <1>5, <1>7, <1>9, <3>3, <4>1, <4>2, <4>3, <5>1, OwnOpened DEF q, f
      <4> QED
        BY <1>6, <3>2, <4>4 DEF Staged, f
    <3>4. CASE x.id # m.id
      <4>1. Staged(x, q, f, c, b)
        BY <1>7, <1>9, <1>10, <3>1, <3>2, RowsChange
      <4>2. NotFor(x.id, Head(q))
        BY <1>1, <3>4 DEF NotFor, q
      <4>3. Staged(x, Tail(q), f, c, b)
        BY <1>5, <1>7, <4>1, <4>2, ForeignTaken DEF q, f
      <4>4. NotFor(x.id, u) /\ NotFor(x.id, v) /\ NotFor(x.id, w)
        BY <1>11, <3>4 DEF NotFor, IsOpening
      <4>5. Staged(x, Tail(q), Append(f, u), c, b) /\ IsQueue(Append(f, u))
        BY <1>7, <4>3, <4>4, AnswerSent, QueueSent DEF f
      <4>6. Staged(x, Tail(q), Append(Append(f, u), v), c, b) /\ IsQueue(Append(Append(f, u), v))
        BY <4>4, <4>5, AnswerSent, QueueSent
      <4>7. Staged(x, Tail(q), Append(Append(Append(f, u), v), w), c, b)
        BY <4>4, <4>6, AnswerSent
      <4> QED
        BY <1>11, <3>2, <4>3, <4>5, <4>6, <4>7
    <3> QED
      BY <3>3, <3>4
  <2> QED
    BY <1>5, <1>15, <2>1 DEF Stages, old
<1> QED
  BY <1>16, <1>17, <1>19, <1>20 DEF MarkInv

\* What the client was told, of a marker part k and a view w.
ShownOf(k, w) ==
  [state |-> IF k.state = "PLAYING" THEN "READY" ELSE k.state,
   local |-> k.local, title |-> k.name, name |-> w.name,
   markers |-> w.markers, captured |-> w.captured]

\* What an answer m makes of the manager with this ID: b and v are what was k and w.
Hears(m, k, w, b, v) ==
  /\ ShownOf(b, v) = Heard(m.id, k.template = 0, ShownOf(k, w), m)
  /\ IsMark(b) /\ IsView(v) /\ b.template = k.template
  /\ b.local = k.local \/ (m.op = "newgame" /\ b.local = m.local)
  /\ b.state \in {"LIST_WAIT", "READY", "PLAYING"} =>
       k.state \in {"LIST_WAIT", "READY", "PLAYING"} \/ (m.op = "newgame" /\ b.local = m.local)

\* process_backend_message does what Heard says, for each kind of answer.
LEMMA HearsNothing ==
  ASSUME NEW m, NEW k, IsMark(k), NEW w, IsView(w),
         Heard(m.id, k.template = 0, ShownOf(k, w), m) = ShownOf(k, w)
  PROVE  Hears(m, k, w, k, w)
  BY DEF Hears

\* MARKER_NEWGAME: the game is there, or is gone.
LEMMA HearsNewGame ==
  ASSUME NEW m, m.op = "newgame", NEW k, IsMark(k), NEW w, IsView(w), k.state = "START",
         NEW b, NEW v,
         \/ ~m.exists /\ b = [k EXCEPT !.state = "DEAD"] /\ v = w
         \/ /\ m.exists
            /\ b = [k EXCEPT !.state = IF k.template = 0 THEN "READY" ELSE "LIST_WAIT",
                             !.local = m.local, !.cgz = m.cgz, !.name = m.name]
            /\ v = IF k.template = 0 THEN [w EXCEPT !.name = m.name] ELSE w
  PROVE  Hears(m, k, w, b, v)
<1>1. PICK s : s = ShownOf(k, w)
  OBVIOUS
<1>2. /\ IsShown(s) /\ s.local = k.local /\ s.title = k.name /\ s.name = w.name
      /\ s.markers = w.markers /\ s.captured = w.captured /\ s.state = "START"
  BY <1>1 DEF ShownOf, IsShown
<1>3. CASE ~m.exists
  <2>1. Heard(m.id, k.template = 0, s, m) = [s EXCEPT !.state = "DEAD"]
    BY <1>2, <1>3 DEF Heard
  <2>2. b = [k EXCEPT !.state = "DEAD"] /\ v = w
    BY <1>3
  <2>3. /\ IsMark(b) /\ b.template = k.template /\ b.local = k.local /\ b.state = "DEAD"
        /\ b.name = k.name
    BY <2>2 DEF IsMark
  <2>4. ShownOf(b, v) = [s EXCEPT !.state = "DEAD"]
    BY ONLY <1>2, <2>2, <2>3 DEF ShownOf, IsShown
  <2> QED
    BY <1>1, <2>1, <2>2, <2>3, <2>4 DEF Hears
<1>4. CASE m.exists
  <2>1. PICK st, na : /\ st = IF k.template = 0 THEN "READY" ELSE "LIST_WAIT"
                      /\ na = IF k.template = 0 THEN m.name ELSE w.name
    OBVIOUS
  <2>2. Heard(m.id, k.template = 0, s, m) =
          [s EXCEPT !.state = st, !.local = m.local, !.title = m.name, !.name = na]
    BY <1>2, <1>4, <2>1 DEF Heard
  <2>3. /\ b = [k EXCEPT !.state = st, !.local = m.local, !.cgz = m.cgz, !.name = m.name]
        /\ v = IF k.template = 0 THEN [w EXCEPT !.name = m.name] ELSE w
    BY <1>4, <2>1
  <2>4. /\ IsMark(b) /\ b.template = k.template /\ b.local = m.local /\ b.state = st
        /\ b.name = m.name
    BY <2>3 DEF IsMark
  <2>5. IsView(v) /\ v.name = na /\ v.markers = w.markers /\ v.captured = w.captured
    BY <2>1, <2>3 DEF IsView
  <2>6. ShownOf(b, v) = [s EXCEPT !.state = st, !.local = m.local, !.title = m.name, !.name = na]
    <3>1. [s EXCEPT !.state = st, !.local = m.local, !.title = m.name, !.name = na] =
            [state |-> st, local |-> m.local, title |-> m.name, name |-> na,
             markers |-> w.markers, captured |-> w.captured]
      <4>1. s = [state |-> "START", local |-> k.local, title |-> k.name, name |-> w.name,
                 markers |-> w.markers, captured |-> w.captured]
        BY <1>1 DEF ShownOf
      <4>2. PICK e : e = [s EXCEPT !.state = st, !.local = m.local, !.title = m.name, !.name = na]
        OBVIOUS
      <4>3. e = [state |-> st, local |-> m.local, title |-> m.name, name |-> na,
                 markers |-> w.markers, captured |-> w.captured]
        BY ONLY <4>1, <4>2
      <4> QED
        BY ONLY <4>2, <4>3
    <3>2. st # "PLAYING"
      BY <2>1
    <3> QED
      BY ONLY <2>4, <2>5, <3>1, <3>2 DEF ShownOf
  <2> QED
    BY <1>1, <2>2, <2>4, <2>5, <2>6 DEF Hears
<1> QED
  BY <1>3, <1>4

\* MARKER_DUMP: the markers of a game that is fetched.
LEMMA HearsDump ==
  ASSUME NEW m, m.op = "dump", NEW k, IsMark(k), NEW w, IsView(w), k.state = "LIST_WAIT",
         NEW b, b = [k EXCEPT !.state = "READY"],
         NEW v, v = [w EXCEPT !.markers = Over(m.markers, @), !.name = k.name]
  PROVE  Hears(m, k, w, b, v)
<1>1. PICK s, o : s = ShownOf(k, w) /\ o = Over(m.markers, w.markers)
  OBVIOUS
<1>2. /\ IsShown(s) /\ s.local = k.local /\ s.title = k.name /\ s.name = w.name
      /\ s.markers = w.markers /\ s.captured = w.captured /\ s.state = "LIST_WAIT"
  BY <1>1 DEF ShownOf, IsShown
<1>3. Heard(m.id, k.template = 0, s, m) =
        [s EXCEPT !.state = "READY", !.markers = o, !.name = k.name]
  BY <1>1, <1>2 DEF Heard
<1>4. /\ IsView(v) /\ v.name = k.name /\ v.markers = o /\ v.captured = w.captured
  BY <1>1 DEF IsView
<1>5. /\ IsMark(b) /\ b.template = k.template /\ b.local = k.local /\ b.state = "READY"
      /\ b.name = k.name
  BY DEF IsMark
<1>6. ShownOf(b, v) = [s EXCEPT !.state = "READY", !.markers = o, !.name = k.name]
  <2>1. [s EXCEPT !.state = "READY", !.markers = o, !.name = k.name] =
          [state |-> "READY", local |-> k.local, title |-> k.name, name |-> k.name,
           markers |-> o, captured |-> w.captured]
    <3>1. s = [state |-> "LIST_WAIT", local |-> k.local, title |-> k.name, name |-> w.name,
               markers |-> w.markers, captured |-> w.captured]
      BY <1>1 DEF ShownOf
    <3>2. PICK e : e = [s EXCEPT !.state = "READY", !.markers = o, !.name = k.name]
      OBVIOUS
    <3>3. e = [state |-> "READY", local |-> k.local, title |-> k.name, name |-> k.name,
               markers |-> o, captured |-> w.captured]
      BY ONLY <3>1, <3>2
    <3> QED
      BY ONLY <3>2, <3>3
  <2> QED
    BY ONLY <1>4, <1>5, <2>1 DEF ShownOf
<1> QED
  BY <1>1, <1>3, <1>4, <1>5, <1>6 DEF Hears

\* MARKER_STATE: the captures of the player.
LEMMA HearsState ==
  ASSUME NEW m, m.op = "state", NEW k, IsMark(k), NEW w, IsView(w),
         k.state \in {"READY", "PLAYING"}, NEW v, v = [w EXCEPT !.captured = @ \cup m.captured]
  PROVE  Hears(m, k, w, k, v)
<1>1. PICK s, o : s = ShownOf(k, w) /\ o = w.captured \cup m.captured
  OBVIOUS
<1>2. /\ IsShown(s) /\ s.local = k.local /\ s.title = k.name /\ s.name = w.name
      /\ s.markers = w.markers /\ s.captured = w.captured /\ s.state = "READY"
      /\ s.state = IF k.state = "PLAYING" THEN "READY" ELSE k.state
  BY <1>1 DEF ShownOf, IsShown
<1>3. Heard(m.id, k.template = 0, s, m) = [s EXCEPT !.captured = o]
  BY <1>1, <1>2 DEF Heard
<1>4. /\ IsView(v) /\ v.name = w.name /\ v.markers = w.markers /\ v.captured = o
  BY <1>1 DEF IsView
<1>5. ShownOf(k, v) = [s EXCEPT !.captured = o]
  BY ONLY <1>2, <1>4 DEF ShownOf, IsShown
<1> QED
  BY <1>1, <1>3, <1>4, <1>5 DEF Hears

\* The answer to a change of the game.
LEMMA HearsChange ==
  ASSUME NEW m, m.op \in ChangeOps \ {"stop"}, NEW k, IsMark(k), NEW w, IsView(w),
         k.state \in {"LIST_WAIT", "READY", "PLAYING"},
         m.op = "capture" => k.state \in {"READY", "PLAYING"},
         NEW b, b = IF m.op = "deletegame" /\ m.num = 1 THEN [k EXCEPT !.state = "DEAD"] ELSE k,
         NEW v, v = CASE m.op = "add" -> [w EXCEPT !.markers = Put(@, m.num, m.name)]
                      [] m.op = "rename" -> [w EXCEPT !.markers = Put(@, m.num, m.name)]
                      [] m.op = "delete" -> [w EXCEPT !.markers = Drop(@, m.num), !.captured = @ \ {m.num}]
                      [] m.op = "renamegame" -> [w EXCEPT !.name = m.name]
                      [] m.op = "capture" -> [w EXCEPT !.captured = @ \cup {m.num}]
                      [] m.op = "deletegame" -> w
  PROVE  Hears(m, k, w, b, v)
<1>1. PICK s : s = ShownOf(k, w)
  OBVIOUS
<1>2. /\ IsShown(s) /\ s.local = k.local /\ s.title = k.name /\ s.name = w.name
      /\ s.markers = w.markers /\ s.captured = w.captured
      /\ s.state = IF k.state = "PLAYING" THEN "READY" ELSE k.state
  BY <1>1 DEF ShownOf, IsShown
<1>3. PICK e : e = Changed(s, m)
  OBVIOUS
<1>4. Heard(m.id, k.template = 0, s, m) = e
  BY <1>2, <1>3 DEF Heard, ChangeOps
<1>5. PICK st : st = IF m.op = "deletegame" /\ m.num = 1 THEN "DEAD" ELSE s.state
  OBVIOUS
<1>6. PICK na : na = IF m.op = "renamegame" THEN m.name ELSE s.name
  OBVIOUS
<1>7. PICK ma : ma = CASE m.op \in {"add", "rename"} -> Put(s.markers, m.num, m.name)
                       [] m.op = "delete" -> Drop(s.markers, m.num)
                       [] OTHER -> s.markers
  OBVIOUS
<1>8. PICK ca : ca = CASE m.op = "delete" -> s.captured \ {m.num}
                       [] m.op = "capture" -> s.captured \cup {m.num}
                       [] OTHER -> s.captured
  OBVIOUS
<1>9. e = [s EXCEPT !.state = st, !.name = na, !.markers = ma, !.captured = ca]
  BY <1>3, <1>5, <1>6, <1>7, <1>8 DEF Changed
<1>10. e = [state |-> st, local |-> k.local, title |-> k.name, name |-> na,
            markers |-> ma, captured |-> ca]
  BY <1>2, <1>9 DEF IsShown
<1>11. /\ IsView(v) /\ v.name = na /\ v.markers = ma /\ v.captured = ca
  <2>1. PICK put : put = Put(w.markers, m.num, m.name)
    OBVIOUS
  <2>2. PICK drop : drop = Drop(w.markers, m.num)
    OBVIOUS
  <2>3. CASE m.op \in {"add", "rename"}
    <3>1. v = [w EXCEPT !.markers = put]
      BY <2>1, <2>3
    <3>2. na = w.name /\ ma = put /\ ca = w.captured
      BY <1>2, <1>6, <1>7, <1>8, <2>1, <2>3
    <3> QED
      BY ONLY <3>1, <3>2, IsView(w) DEF IsView
  <2>4. CASE m.op = "delete"
    <3>1. v = [w EXCEPT !.markers = drop, !.captured = @ \ {m.num}]
      BY <2>2, <2>4
    <3>2. na = w.name /\ ma = drop /\ ca = w.captured \ {m.num}
      BY <1>2, <1>6, <1>7, <1>8, <2>2, <2>4
    <3> QED
      BY ONLY <3>1, <3>2, IsView(w) DEF IsView
  <2>5. CASE m.op = "renamegame"
    <3>1. v = [w EXCEPT !.name = m.name]
      BY <2>5
    <3>2. na = m.name /\ ma = w.markers /\ ca = w.captured
      BY <1>2, <1>6, <1>7, <1>8, <2>5
    <3> QED
      BY ONLY <3>1, <3>2, IsView(w) DEF IsView
  <2>6. CASE m.op = "capture"
    <3>1. v = [w EXCEPT !.captured = @ \cup {m.num}]
      BY <2>6
    <3>2. na = w.name /\ ma = w.markers /\ ca = w.captured \cup {m.num}
      BY <1>2, <1>6, <1>7, <1>8, <2>6
    <3> QED
      BY ONLY <3>1, <3>2, IsView(w) DEF IsView
  <2>7. CASE m.op = "deletegame"
    <3>1. v = w
      BY <2>7
    <3>2. na = w.name /\ ma = w.markers /\ ca = w.captured
      BY <1>2, <1>6, <1>7, <1>8, <2>7
    <3> QED
      BY ONLY <3>1, <3>2, IsView(w) DEF IsView
  <2> QED
    BY <2>3, <2>4, <2>5, <2>6, <2>7 DEF ChangeOps
<1>12. /\ IsMark(b) /\ b.template = k.template /\ b.local = k.local /\ b.name = k.name
       /\ st = IF b.state = "PLAYING" THEN "READY" ELSE b.state
  <2>1. CASE m.op = "deletegame" /\ m.num = 1
    <3>1. b = [k EXCEPT !.state = "DEAD"] /\ st = "DEAD"
      BY <1>5, <2>1
    <3> QED
      BY ONLY <3>1, IsMark(k) DEF IsMark
  <2>2. CASE ~(m.op = "deletegame" /\ m.num = 1)
    <3>1. b = k /\ st = s.state
      BY <1>5, <2>2
    <3> QED
      BY <1>2, <3>1
  <2> QED
    BY <2>1, <2>2
<1>13. ShownOf(b, v) = e
  BY ONLY <1>10, <1>11, <1>12 DEF ShownOf
<1> QED
  BY <1>1, <1>4, <1>11, <1>12, <1>13 DEF Hears

\* The manager that the answer m names.
LEMMA MarkHears ==
  ASSUME MarkInv, NEW n \in DOMAIN mgrs, NEW m, m.op \in AnswerOps, m.op # "nextid",
         CASE m.op = "newgame" -> GotNewGame(n, m)
           [] m.op = "dump" -> GotDump(n, m)
           [] m.op = "state" -> GotState(n, m)
           [] OTHER -> GotChange(n, m),
         NEW k, k = mark[n], NEW w, w = view[n], IsMark(k), IsView(w),
         NEW b, b = mark'[n], NEW v, v = view'[n]
  PROVE  /\ DOMAIN mark' = DOMAIN mgrs /\ DOMAIN view' = DOMAIN mgrs
         /\ \A i \in DOMAIN mgrs : i # n => mark'[i] = mark[i] /\ view'[i] = view[i]
         /\ Hears(m, k, w, b, v)
<1> DEFINE Alone == /\ DOMAIN mark' = DOMAIN mgrs /\ DOMAIN view' = DOMAIN mgrs
                    /\ \A i \in DOMAIN mgrs : i # n => mark'[i] = mark[i] /\ view'[i] = view[i]
           s == ShownOf(k, w)
           Same == Heard(m.id, k.template = 0, s, m) = s
<1>1. DOMAIN mark = DOMAIN mgrs /\ DOMAIN view = DOMAIN mgrs
  BY DEF MarkInv, MarkTyped
<1>2. ASSUME UNCHANGED <<mark, view>>  PROVE Alone /\ b = k /\ v = w
  BY <1>1, <1>2
<1>3. ASSUME NEW e, mark' = [mark EXCEPT ![n] = e]
      PROVE  DOMAIN mark' = DOMAIN mgrs /\ b = e /\ \A i \in DOMAIN mgrs : i # n => mark'[i] = mark[i]
  BY <1>1, <1>3
<1>4. ASSUME NEW e, view' = [view EXCEPT ![n] = e]
      PROVE  DOMAIN view' = DOMAIN mgrs /\ v = e /\ \A i \in DOMAIN mgrs : i # n => view'[i] = view[i]
  BY <1>1, <1>4
<1>5. /\ mark' = mark => DOMAIN mark' = DOMAIN mgrs /\ b = k /\ \A i \in DOMAIN mgrs : i # n => mark'[i] = mark[i]
      /\ view' = view => DOMAIN view' = DOMAIN mgrs /\ v = w /\ \A i \in DOMAIN mgrs : i # n => view'[i] = view[i]
  BY <1>1
<1>6. CASE m.op = "newgame"
  <2>1. GotNewGame(n, m)
    BY <1>6
  <2>2. CASE k.state # "START"
    <3>1. Same
      BY <1>6, <2>2 DEF Heard, ShownOf
    <3>2. UNCHANGED <<mark, view>>
      BY <2>1, <2>2 DEF GotNewGame
    <3> QED
      BY <1>2, <3>1, <3>2, HearsNothing
  <2>3. CASE k.state = "START" /\ ~m.exists
    <3>1. PICK e : e = [k EXCEPT !.state = "DEAD"]
      OBVIOUS
    <3>2. mark' = [mark EXCEPT ![n] = e] /\ view' = view
      BY <2>1, <2>3, <3>1 DEF GotNewGame
    <3>3. Hears(m, k, w, e, w)
      BY <1>6, <2>3, <3>1, HearsNewGame
    <3> QED
      BY <1>3, <1>5, <3>2, <3>3
  <2>4. CASE k.state = "START" /\ m.exists
    <3>1. PICK e, u :
            /\ e = [k EXCEPT !.state = IF k.template = 0 THEN "READY" ELSE "LIST_WAIT",
                             !.local = m.local, !.cgz = m.cgz, !.name = m.name]
            /\ u = IF k.template = 0 THEN [w EXCEPT !.name = m.name] ELSE w
      OBVIOUS
    <3>2. mark' = [mark EXCEPT ![n] = e]
      BY <2>1, <2>4, <3>1 DEF GotNewGame
    <3>3. view' = [view EXCEPT ![n] = u] \/ (view' = view /\ u = w)
      BY <2>1, <2>4, <3>1 DEF GotNewGame
    <3>4. Hears(m, k, w, e, u)
      BY <1>6, <2>4, <3>1, HearsNewGame
    <3> QED
      BY <1>3, <1>4, <1>5, <3>2, <3>3, <3>4
  <2> QED
    BY <2>2, <2>3, <2>4
<1>7. CASE m.op = "dump"
  <2>1. GotDump(n, m)
    BY <1>7
  <2>2. CASE k.state # "LIST_WAIT"
    <3>1. Same
      BY <1>7, <2>2 DEF Heard, ShownOf
    <3>2. UNCHANGED <<mark, view>>
      BY <2>1, <2>2 DEF GotDump
    <3> QED
      BY <1>2, <3>1, <3>2, HearsNothing
  <2>3. CASE k.state = "LIST_WAIT"
    <3>1. PICK e, u : /\ e = [k EXCEPT !.state = "READY"]
                      /\ u = [w EXCEPT !.markers = Over(m.markers, @), !.name = k.name]
      OBVIOUS
    <3>2. mark' = [mark EXCEPT ![n] = e] /\ view' = [view EXCEPT ![n] = u]
      BY <2>1, <2>3, <3>1 DEF GotDump
    <3>3. Hears(m, k, w, e, u)
      BY <1>7, <2>3, <3>1, HearsDump
    <3> QED
      BY <1>3, <1>4, <3>2, <3>3
  <2> QED
    BY <2>2, <2>3
<1>8. CASE m.op = "state"
  <2>1. GotState(n, m)
    BY <1>8
  <2>2. CASE k.state \notin {"READY", "PLAYING"}
    <3>1. Same
      BY <1>8, <2>2 DEF Heard, ShownOf
    <3>2. UNCHANGED <<mark, view>>
      BY <2>1, <2>2 DEF GotState, Ready
    <3> QED
      BY <1>2, <3>1, <3>2, HearsNothing
  <2>3. CASE k.state \in {"READY", "PLAYING"}
    <3>1. PICK u : u = [w EXCEPT !.captured = @ \cup m.captured]
      OBVIOUS
    <3>2. mark' = mark /\ view' = [view EXCEPT ![n] = u]
      BY <2>1, <2>3, <3>1 DEF GotState, Ready
    <3>3. Hears(m, k, w, k, u)
      BY <1>8, <2>3, <3>1, HearsState
    <3> QED
      BY <1>4, <1>5, <3>2, <3>3
  <2> QED
    BY <2>2, <2>3
<1>9. CASE m.op \in ChangeOps \ {"stop"}
  <2>1. GotChange(n, m)
    BY <1>9 DEF ChangeOps
  <2>2. CASE ~AfterStart(n) \/ (m.op = "capture" /\ ~Ready(n))
    <3>1. Same
      BY <1>9, <2>2 DEF Heard, ShownOf, AfterStart, Ready, ChangeOps
    <3>2. UNCHANGED <<mark, view>>
      BY <2>1, <2>2 DEF GotChange
    <3> QED
      BY <1>2, <3>1, <3>2, HearsNothing
  <2>3. CASE AfterStart(n) /\ (m.op = "capture" => Ready(n))
    <3>1. PICK e : e = IF m.op = "deletegame" /\ m.num = 1 THEN [k EXCEPT !.state = "DEAD"] ELSE k
      OBVIOUS
    <3>2. PICK u : u = CASE m.op = "add" -> [view[n] EXCEPT !.markers = Put(@, m.num, m.name)]
                         [] m.op = "rename" -> [view[n] EXCEPT !.markers = Put(@, m.num, m.name)]
                         [] m.op = "delete" -> [view[n] EXCEPT !.markers = Drop(@, m.num), !.captured = @ \ {m.num}]
                         [] m.op = "renamegame" -> [view[n] EXCEPT !.name = m.name]
                         [] m.op = "capture" -> [view[n] EXCEPT !.captured = @ \cup {m.num}]
                         [] m.op = "deletegame" -> view[n]
      OBVIOUS
    <3>a. u = CASE m.op = "add" -> [w EXCEPT !.markers = Put(@, m.num, m.name)]
                [] m.op = "rename" -> [w EXCEPT !.markers = Put(@, m.num, m.name)]
                [] m.op = "delete" -> [w EXCEPT !.markers = Drop(@, m.num), !.captured = @ \ {m.num}]
                [] m.op = "renamegame" -> [w EXCEPT !.name = m.name]
                [] m.op = "capture" -> [w EXCEPT !.captured = @ \cup {m.num}]
                [] m.op = "deletegame" -> w
      BY <3>2
    <3>3. view' = [view EXCEPT ![n] = u]
      BY <2>1, <2>3, <3>2 DEF GotChange
    <3>4. mark' = [mark EXCEPT ![n] = e] \/ (mark' = mark /\ e = k)
      BY <2>1, <2>3, <3>1 DEF GotChange
    <3>5. Hears(m, k, w, e, u)
      <4>1. k.state \in {"LIST_WAIT", "READY", "PLAYING"} /\ (m.op = "capture" => k.state \in {"READY", "PLAYING"})
        BY <2>3 DEF AfterStart, Ready
      <4> QED
        BY <1>9, <3>1, <3>a, <4>1, HearsChange
    <3> QED
      BY <1>3, <1>4, <1>5, <3>3, <3>4, <3>5
  <2> QED
    BY <2>2, <2>3
<1> QED
  BY <1>6, <1>7, <1>8, <1>9 DEF AnswerOps

\* What is left of the answers when the first is read, and nothing else moves but the
\* managers that it is for.
LEMMA AnswerIds ==
  ASSUME IdInv, MarkInv, fromVault # <<>>, fromVault' = Tail(fromVault),
         UNCHANGED <<mgrs, waiting, toVault>>
  PROVE  MarkIds'
<1> DEFINE f == fromVault
           r == fromVault'
<1>1. IsQueue(f)
  BY MarkCounts
<1>2. /\ Len(f) \in Nat /\ Len(r) = Len(f) - 1
      /\ \A i \in 1..(Len(f) - 1) : r[i] = f[i + 1] /\ i + 1 \in 1..Len(f)
  BY <1>1, QueueRead
<1>3. ASSUME NEW j \in 1..(Len(f) - 1), r[j].op = "nextid"
      PROVE  NotUsed(mgrs, toVault, r, r[j].id, j)
  <2>1. PICK i : i = f[j + 1].id
    OBVIOUS
  <2>2. r[j].id = i /\ j + 1 \in 1..Len(f) /\ f[j + 1].op = "nextid"
    BY <1>2, <1>3, <2>1
  <2>3. NotUsed(mgrs, toVault, f, i, j + 1)
    BY <2>1, <2>2 DEF MarkInv, MarkIds
  <2>4. \A l \in 1..Len(r) : r[l].id = i => l = j
    BY <1>2, <2>3 DEF NotUsed
  <2> QED
    BY <2>2, <2>3, <2>4 DEF NotUsed
<1> QED
  BY <1>2, <1>3 DEF MarkInv, MarkIds

\* The server reads an answer about a game.
LEMMA MarkReads ==
  ASSUME IdInv, MarkInv, GotMarkerAnswer
  PROVE  MarkInv'
<1> DEFINE f == fromVault
           old == DOMAIN mgrs
<1>1. PICK m : m = Head(f)
  OBVIOUS
<1>2. /\ f # <<>> /\ m.op # "nextid" /\ fromVault' = Tail(f)
      /\ UNCHANGED <<mgrs, waiting, next_id, toVault, db, apart>>
  BY <1>1 DEF GotMarkerAnswer
<1>3. IsQueue(f) /\ Len(db) \in Nat /\ next_id \in Nat
  BY MarkCounts
<1>4. /\ Len(f) \in Nat /\ Len(f) > 0 /\ m = f[1] /\ DOMAIN f = 1..Len(f)
      /\ Len(fromVault') = Len(f) - 1
      /\ \A i \in 1..(Len(f) - 1) : fromVault'[i] = f[i + 1] /\ i + 1 \in 1..Len(f)
  BY <1>1, <1>2, <1>3, QueueRead
<1>5. IsAnswer(m, next_id, Len(db))
  <2>1. 1 \in 1..Len(f)
    BY <1>4
  <2> QED
    BY <1>4, <2>1, MarkCounts
<1>6. MarkIds'
  BY <1>2, AnswerIds
<1>7. \A j \in 1..Len(fromVault') : IsAnswer(fromVault'[j], next_id, Len(db))
  BY <1>4, MarkCounts
<1> DEFINE Read == /\ DOMAIN mark' = old /\ DOMAIN view' = old
                   /\ \A i \in old : mgrs[i].id # m.id => mark'[i] = mark[i] /\ view'[i] = view[i]
                   /\ \A i \in old : mgrs[i].id = m.id =>
                        Hears(m, mark[i], view[i], mark'[i], view'[i])
<1>8. DOMAIN mark = old /\ DOMAIN view = old
  BY DEF MarkInv, MarkTyped
<1>9. Read
  <2> DEFINE theirs == {n \in old : mgrs[n].id = m.id}
  <2>1. CASE theirs = {}
    <3>1. UNCHANGED <<mark, view>>
      BY <1>1, <2>1 DEF GotMarkerAnswer
    <3> QED
      BY <1>8, <2>1, <3>1
  <2>2. CASE theirs # {}
    <3>1. PICK n \in theirs :
            CASE m.op = "newgame" -> GotNewGame(n, m)
              [] m.op = "dump" -> GotDump(n, m)
              [] m.op = "state" -> GotState(n, m)
              [] OTHER -> GotChange(n, m)
      BY <1>1, <2>2 DEF GotMarkerAnswer
    <3>2. PICK k, w, b, v : k = mark[n] /\ w = view[n] /\ b = mark'[n] /\ v = view'[n]
      OBVIOUS
    <3>3. IsMark(k) /\ IsView(w) /\ n \in old /\ mgrs[n].id = m.id
      BY <3>2, MarkCounts DEF IsManager
    <3>4. m.op \in AnswerOps /\ m.id # 0
      BY <1>5 DEF IsAnswer
    <3>5. /\ DOMAIN mark' = old /\ DOMAIN view' = old
          /\ \A i \in old : i # n => mark'[i] = mark[i] /\ view'[i] = view[i]
          /\ Hears(m, k, w, b, v)
      BY <1>2, <3>1, <3>2, <3>3, <3>4, MarkHears
    <3>6. \A i \in old : mgrs[i].id = m.id => i = n
      BY <3>3, <3>4 DEF MarkInv, MarkIds
    <3> HIDE DEF theirs
    <3> QED
      BY <3>2, <3>3, <3>5, <3>6
  <2> QED
    BY <2>1, <2>2
<1> HIDE DEF f, old
<1>10. ASSUME NEW n \in old
       PROVE  /\ IsManager(mgrs[n], mark'[n], view'[n], next_id, Len(db))
              /\ \A g : Has(Own(n)', fromVault', g) => Has(Own(n), f, g)
              /\ Staged(Own(n)', toVault, fromVault', db, apart)
  <2>1. PICK k, w, b, v : k = mark[n] /\ w = view[n] /\ b = mark'[n] /\ v = view'[n]
    OBVIOUS
  <2>2. IsManager(mgrs[n], k, w, next_id, Len(db)) /\ Staged(Own(n), toVault, f, db, apart)
    BY <2>1, MarkCounts DEF f, old
  <2>3. CASE mgrs[n].id # m.id
    <3>1. Own(n)' = Own(n) /\ b = k /\ v = w
      BY <1>2, <1>9, <2>1, <2>3, OwnStays
    <3>2. NotFor(Own(n).id, Head(f))
      BY <1>1, <2>3, OwnIs DEF NotFor
    <3>3. Staged(Own(n), toVault, Tail(f), db, apart)
      BY <1>2, <1>3, <2>2, <3>2, AnswerRead
    <3>4. \A g : Has(Own(n), Tail(f), g) => Has(Own(n), f, g)
      BY <1>2, <1>3, HasRead
    <3> QED
      BY <1>2, <2>1, <2>2, <3>1, <3>3, <3>4
  <2>4. CASE mgrs[n].id = m.id
    <3>1. Hears(m, k, w, b, v)
      BY <1>9, <2>1, <2>4
    <3>2. PICK x, y : x = Own(n) /\ y = Own(n)'
      OBVIOUS
    <3>3. /\ x.id = m.id /\ x.who = mgrs[n].owner /\ x.template = k.template
          /\ x.shown = ShownOf(k, w) /\ x.shown.local = k.local
      BY <2>1, <2>4, <3>2 DEF Own, Shown, ShownOf
    <3>4. /\ y.id = m.id /\ y.who = mgrs[n].owner /\ y.template = b.template
          /\ y.shown = ShownOf(b, v) /\ y.shown.local = b.local
      BY <1>2, <2>1, <2>4, <3>2 DEF Own, Shown, ShownOf
    <3>5. /\ y.id = x.id /\ y.who = x.who /\ y.template = x.template
          /\ y.shown = Heard(x.id, x.template = 0, x.shown, Head(f))
      BY <1>1, <3>1, <3>3, <3>4 DEF Hears
    <3>6. IsManager(mgrs[n], b, v, next_id, Len(db))
      <4>1. m.op = "newgame" => m.local \in 1..Len(db)
        BY <1>5 DEF IsAnswer
      <4> QED
        BY <1>3, <2>2, <3>1, <4>1 DEF IsManager, Hears
    <3>7. 1 \in DOMAIN f /\ f[1] = m
      BY <1>4 DEF f
    <3>8. ASSUME NEW g, Has(y, Tail(f), g)  PROVE Has(x, f, g)
      <4>1. Has(y, f, g)
        BY <1>2, <1>3, <3>8, HasRead
      <4>2. y.shown.local = x.shown.local \/ (m.op = "newgame" /\ y.shown.local = m.local)
        BY <3>1, <3>3, <3>4 DEF Hears
      <4> QED
        BY <3>3, <3>5, <3>7, <4>1, <4>2 DEF Has
    <3>9. Open(x, toVault, f, db, apart)
      <4>1. Staged(x, toVault, f, db, apart) /\ x.id # 0
        BY <1>5, <2>2, <3>2, <3>3 DEF IsAnswer
      <4>2. ~Silent(f, x.id)
        BY <1>2, <3>3, <3>7 DEF Silent, NotFor
      <4> QED
        BY <4>1, <4>2 DEF Staged, Unopened, Opening
    <3>10. Open(y, toVault, Tail(f), db, apart)
      BY <1>2, <1>3, <3>5, <3>9, OwnRead
    <3> QED
      BY <1>2, <2>1, <3>2, <3>6, <3>8, <3>10 DEF Staged
  <2> QED
    BY <2>3, <2>4
<1>11. MarkTyped'
  <2>1. /\ next_id' = next_id /\ Len(db') = Len(db) /\ DOMAIN mgrs' = old
        /\ \A n \in old : IsManager(mgrs'[n], mark'[n], view'[n], next_id', Len(db'))
    BY <1>2, <1>10 DEF old
  <2>2. \A j \in 1..Len(fromVault') : IsAnswer(fromVault'[j], next_id', Len(db'))
    BY <1>7, <2>1
  <2>3. /\ IsQueue(db) /\ \A g \in 1..Len(db) : IsRow(db[g])
        /\ next_id \in Nat \ {0} /\ \A j \in 1..Len(toVault) : IsRequest(toVault[j], next_id, Len(db))
    BY DEF MarkInv, MarkTyped
  <2> QED
    BY <1>2, <1>9, <2>1, <2>2, <2>3 DEF MarkTyped
<1>12. Sole'
  <2>1. \A n \in DOMAIN mgrs' : \A g : Has(Own(n)', fromVault', g) => Has(Own(n), fromVault, g)
    BY <1>2, <1>10 DEF old, f
  <2> QED
    BY <1>2, <2>1, SoleKeeps DEF MarkInv
<1>13. Stages'
  BY <1>2, <1>10 DEF Stages, old
<1> QED
  BY <1>6, <1>11, <1>12, <1>13 DEF MarkInv

\* A step that has nothing to do with the marker games of an age.
LEMMA MarkOthers ==
  ASSUME MarkInv, UNCHANGED <<mgrVars, markerVars>>
  PROVE  MarkInv'
  BY MarkStays DEF mgrVars, markerVars

\* Every step of Next keeps MarkInv.
LEMMA MarkStep ==
  ASSUME kind = "marker", IdInv, MarkInv, Next
  PROVE  MarkInv'
<1>1. ASSUME NEW p \in Players, Come(p)  PROVE MarkInv'
  BY <1>1, MarkStays DEF Come, Arrive, OthersThan, markerVars
<1>2. ASSUME NEW p \in Players, SetupGame(p)  PROVE MarkInv'
  BY <1>2, MarkSetup
<1>3. ASSUME NEW p \in Players, Depart(p)  PROVE MarkInv'
  BY <1>3, MarkDeparts
<1>4. CASE NextID
  BY <1>4, MarkNextID
<1>5. CASE GameGetsID
  BY <1>5, MarkGetsID
<1>6. CASE VarSyncNext
  BY <1>6, MarkOthers DEF VarSyncNext, CreateNumericVar, SetNumericVar, OthersThan
<1>7. CASE DoorNext
  BY <1>7, MarkOthers DEF DoorNext, StartGame, HitRight, HitWrong, OthersThan
<1>8. CASE DoorTimer
  BY <1>8, MarkOthers DEF DoorTimer, DoorTimeouts, DoorTimeout, OthersThan
<1>9. CASE HeekNext
  BY <1>9, MarkOthers
     DEF HeekNext, PlayGame, LeaveTable, LateChoice, Choose, SeqFinished, OthersThan
<1>10. CASE HeekClock
  BY <1>10, MarkOthers DEF HeekClock, HeekTimer, OthersThan
<1>11. CASE MarkerNext
  BY <1>11, MarkMessages
<1>12. CASE VaultMarkers
  BY <1>12, MarkChanges, MarkOpens DEF VaultMarkers
<1>13. CASE MarkerAnswer
  BY <1>13, MarkReads DEF MarkerAnswer
<1> QED
  BY <1>1, <1>2, <1>3, <1>4, <1>5, <1>6, <1>7, <1>8, <1>9, <1>10, <1>11, <1>12, <1>13
     DEF Next

\* Init: one game is there, which nobody has.
LEMMA MarkInit ==
  ASSUME Init
  PROVE  MarkInv
<1>1. /\ mark = <<>> /\ view = <<>> /\ apart = {} /\ next_id = 1
      /\ mgrs = <<>> /\ waiting = <<>> /\ toVault = <<>> /\ fromVault = <<>>
  BY DEF Init, MgrInit, MarkerInit
<1>2. PICK r : r = [NewRow(TRUE) EXCEPT !.referred = TRUE, !.next = 1,
                                        !.markers = [i \in {0} |-> "first"]]
  OBVIOUS
<1>3. IsRow(r)
  <2>1. PICK first : first = [i \in {0} |-> "first"]
    OBVIOUS
  <2>2. PICK none : none = <<>>
    OBVIOUS
  <2>3. r = [exists |-> TRUE, cgz |-> TRUE, referred |-> TRUE, name |-> "first",
             next |-> 1, markers |-> first, inplay |-> none]
    BY <1>2, <2>1, <2>2 DEF NewRow
  <2>4. first = [i \in DOMAIN first |-> first[i]] /\ DOMAIN none \subseteq DOMAIN first
    BY <2>1, <2>2
  <2> QED
    BY ONLY <2>3, <2>4 DEF IsRow
<1>4. IsQueue(db) /\ Len(db) = 1 /\ \A g \in 1..Len(db) : IsRow(db[g])
  <2>1. db = <<r>>
    BY <1>2 DEF Init, MarkerInit
  <2>2. <<r>> \in Seq({r}) /\ Len(<<r>>) = 1 /\ <<r>>[1] = r
    OBVIOUS
  <2>3. IsQueue(db)
    BY <2>1, <2>2 DEF IsQueue
  <2> QED
    BY <1>3, <2>1, <2>2, <2>3
<1>5. DOMAIN <<>> = {} /\ Len(<<>>) = 0
  OBVIOUS
<1> QED
  BY <1>1, <1>4, <1>5 DEF MarkInv, MarkTyped, MarkIds, Sole, Stages

\* Games of other kinds have no marker part.
LEMMA NoMarkers ==
  ASSUME kind # "marker", DOMAIN mark = {}, Next
  PROVE  DOMAIN mark' = {}
<1>1. ASSUME NEW p \in Players, Come(p) \/ SetupGame(p) \/ Depart(p)  PROVE mark' = mark
  BY <1>1 DEF Come, SetupGame, Initialized, Depart, OthersThan, markerVars
<1>2. ASSUME NextID \/ GameGetsID  PROVE mark' = mark
  BY <1>2 DEF NextID, GameGetsID, Initialized, OthersThan, markerVars
<1>3. ASSUME VarSyncNext \/ DoorNext \/ DoorTimer \/ HeekNext \/ HeekClock  PROVE mark' = mark
  BY <1>3 DEF VarSyncNext, DoorNext, DoorTimer, HeekNext, HeekClock, OthersThan, markerVars
<1>4. ASSUME MarkerNext  PROVE FALSE
  BY <1>4 DEF MarkerNext
<1>5. ASSUME VaultMarkers  PROVE mark' = mark
  BY <1>5 DEF VaultMarkers, VaultChanges, VaultOpens
<1>6. ASSUME MarkerAnswer  PROVE DOMAIN mark' = DOMAIN mark
  BY <1>6 DEF MarkerAnswer, GotMarkerAnswer, GotNewGame, GotDump, GotState, GotChange
<1> QED
  BY <1>1, <1>2, <1>3, <1>4, <1>5, <1>6 DEF Next

\* The invariant that carries ClientSeesTheGame.
GameInv == IdInv /\ IF kind = "marker" THEN MarkInv ELSE DOMAIN mark = {}

\* What the answers on their way will make of a client's view is, once its requests are
\* done, what the database has of its game; and the games of two managers differ, but
\* for those apart.
THEOREM MarkersAreFollowed == Spec => []GameInv
<1>1. Init => GameInv
  BY IdInit, MarkInit DEF GameInv, Init, MarkerInit
<1>2. GameInv /\ [Next]_vars_ => GameInv'
  <2> SUFFICES ASSUME GameInv, [Next]_vars_  PROVE GameInv'
    OBVIOUS
  <2>1. CASE UNCHANGED vars_
    BY <2>1, OthersKeep, MarkOthers DEF GameInv, vars_, mgrVars, markerVars
  <2>2. CASE Next
    BY <2>2, IdStep, KindStays, MarkStep, NoMarkers DEF GameInv
  <2> QED
    BY <2>1, <2>2
<1> QED
  BY <1>1, <1>2, PTL DEF Spec

\* When nothing is on its way, a game that is open was told to its client.
LEMMA AllIsTold ==
  ASSUME MarkInv, Quiet, NEW n \in DOMAIN mark, Ready(n), Known(n),
         mark[n].local \notin apart, db[mark[n].local].exists
  PROVE  /\ view[n].name = db[mark[n].local].name /\ view[n].markers = db[mark[n].local].markers
         /\ Captured(db[mark[n].local], mgrs[n].owner) \subseteq view[n].captured
<1>1. n \in DOMAIN mgrs /\ toVault = <<>> /\ fromVault = <<>> /\ mgrs[n].id # 0
  BY DEF MarkInv, MarkTyped, Quiet, Known
<1>2. PICK x : x = Own(n)
  OBVIOUS
<1>3. PICK s : s = x.shown
  OBVIOUS
<1>4. /\ x.id # 0 /\ x.who = mgrs[n].owner /\ s.state = "READY" /\ s.local = mark[n].local
      /\ s.name = view[n].name /\ s.markers = view[n].markers /\ s.captured = view[n].captured
  BY <1>1, <1>2, <1>3 DEF Own, Shown, Ready
<1>5. Open(x, toVault, fromVault, db, apart)
  <2>1. Staged(x, toVault, fromVault, db, apart)
    BY <1>1, <1>2 DEF MarkInv, Stages
  <2> QED
    BY <1>3, <1>4, <2>1 DEF Staged, Unopened, Opening
<1>6. PICK e : /\ Ends(fromVault, x.id, x.template = 0, s, e)
               /\ WillSee(x, toVault, db, apart, e)
  BY <1>3, <1>5 DEF Open
<1>7. e = s
  <2>1. Len(<<>>) = 0
    OBVIOUS
  <2> QED
    BY <1>1, <1>6, <2>1 DEF Ends
<1>8. SeesRow(x, toVault, db[mark[n].local], s)
  BY <1>4, <1>6, <1>7 DEF WillSee
<1>9. ~StopSent(x, toVault)
  <2>1. Len(<<>>) = 0
    OBVIOUS
  <2> QED
    BY <1>1, <2>1 DEF StopSent
<1> QED
  BY <1>4, <1>8, <1>9 DEF SeesRow

\* For any players, games, requests and faults, whatever order the requests of several
\* clients reach the backend in: a client that has a game to itself was told its name,
\* its markers and the captures of its player, as the database has them, when nothing is
\* on its way.
THEOREM ClientsSeeTheirGames == Spec => []ClientSeesTheGame
<1>1. GameInv => ClientSeesTheGame
  <2>1. DOMAIN mark = {} => ClientSeesTheGame
    BY DEF ClientSeesTheGame
  <2>2. MarkInv => ClientSeesTheGame
    BY AllIsTold DEF ClientSeesTheGame
  <2> QED
    BY <2>1, <2>2 DEF GameInv
<1> QED
  BY <1>1, MarkersAreFollowed, PTL

-----------------------------------------------------------------------------
(* The locks on the objects of an age.                                     *)

\* No timer is from a grant that has not been made yet.
TimersAreOfThePast == \A t \in timers : t.lockseq <= lockseq[t.lock]

\* The timer of the current grant goes off when the holder's time is up, and
\* the holder is whoever is entitled.
EntitledHolds ==
  \A l \in Lock \ Footstep : \A k \in Ki : Entitled(l, k) =>
    /\ who[l] = k
    /\ \A t \in timers :
         t.lock = l /\ t.lockseq = lockseq[l] => t.when = lease[l][k] + MAX_LOCK_TIME

\* The locks with a current timer that is not due are all that are held.
LocksInv == TypeOK /\ TimersAreOfThePast /\ EntitledHolds /\ HeldIsTimed

USE KiAssumption, FootstepAssumption, TimeAssumption

\* The first state has no locks.
LEMMA LocksBegin == LocksInit => LocksInv
<1> SUFFICES ASSUME LocksInit PROVE LocksInv
  OBVIOUS
<1>1. TypeOK
  BY DEF LocksInit, TypeOK, Asker
<1>2. TimersAreOfThePast /\ HeldIsTimed
  BY DEF LocksInit, TimersAreOfThePast, HeldIsTimed
<1>3. EntitledHolds
  BY DEF LocksInit, EntitledHolds, Entitled, Asker
<1> QED
  BY <1>1, <1>2, <1>3 DEF LocksInv

\* A lock that is tried keeps the invariant.
LEMMA TryLockKeeps ==
  ASSUME LocksInv, NEW l \in Lock, NEW k \in Asker, TryLock(l, k) PROVE LocksInv'
<1> DEFINE new == [lock |-> l, lockseq |-> lockseq[l] + 1, when |-> clock + MAX_LOCK_TIME]
<1> USE DEF LocksInv
<1>0. /\ l \notin Footstep /\ who[l] = NoKi
      /\ who' = [who EXCEPT ![l] = k]
      /\ lockseq' = [lockseq EXCEPT ![l] = lockseq[l] + 1]
      /\ timers' = timers \cup {new}
      /\ lease' = [lease EXCEPT ![l][k] = clock]
      /\ clock' = clock
  BY DEF TryLock, Granted, TypeOK
<1>1. TypeOK'
  <2>1. new \in ClearLockTimer
    BY DEF TypeOK, ClearLockTimer
  <2>2. lease' \in [Lock -> [Asker -> Nat \cup {Never}]]
    BY <1>0 DEF TypeOK
  <2>3. who' \in [Lock -> Asker] /\ lockseq' \in [Lock -> Nat]
    BY <1>0 DEF TypeOK
  <2> QED
    BY <1>0, <2>1, <2>2, <2>3 DEF TypeOK
<1>2. TimersAreOfThePast'
  <2> SUFFICES ASSUME NEW t \in timers' PROVE t.lockseq <= lockseq'[t.lock]
    BY DEF TimersAreOfThePast
  <2>1. CASE t \in timers
    BY <1>0, <2>1 DEF TimersAreOfThePast, TypeOK, ClearLockTimer
  <2>2. CASE t = new
    BY <1>0, <2>2 DEF TypeOK
  <2> QED
    BY <1>0, <2>1, <2>2
<1>3. EntitledHolds'
  <2> SUFFICES ASSUME NEW m \in Lock \ Footstep, NEW j \in Ki, Entitled(m, j)'
               PROVE  /\ who'[m] = j
                      /\ \A t \in timers' : t.lock = m /\ t.lockseq = lockseq'[m] =>
                           t.when = lease'[m][j] + MAX_LOCK_TIME
    BY DEF EntitledHolds
  <2>1. CASE m # l
    <3>1. lease'[m][j] = lease[m][j] /\ who'[m] = who[m] /\ lockseq'[m] = lockseq[m]
      BY <1>0, <2>1 DEF TypeOK, Asker
    <3>2. Entitled(m, j)
      BY <1>0, <3>1 DEF Entitled
    <3> QED
      BY <1>0, <2>1, <3>1, <3>2 DEF EntitledHolds
  <2>2. CASE m = l /\ j # k
    <3>1. lease'[l][j] = lease[l][j]
      BY <1>0, <2>2 DEF TypeOK, Asker
    <3>2. Entitled(l, j)
      BY <1>0, <2>2, <3>1 DEF Entitled
    <3>3. who[l] = j
      BY <2>2, <3>2 DEF EntitledHolds
    <3> QED
      BY <1>0, <3>3
  <2>3. CASE m = l /\ j = k
    <3>1. lease'[l][k] = clock /\ lockseq'[l] = lockseq[l] + 1 /\ who'[l] = k
      BY <1>0 DEF TypeOK, Asker
    <3>2. \A t \in timers : t.lock = l => t.lockseq # lockseq'[l]
      BY <3>1 DEF TimersAreOfThePast, TypeOK, ClearLockTimer
    <3> QED
      BY <1>0, <2>3, <3>1, <3>2
  <2> QED
    BY <2>1, <2>2, <2>3
<1>4. HeldIsTimed'
  <2> SUFFICES ASSUME NEW m \in Lock, who'[m] # NoKi
               PROVE  \E t \in timers' : t.lock = m /\ t.lockseq = lockseq'[m]
    BY DEF HeldIsTimed
  <2>1. CASE m = l
    <3>1. new \in timers' /\ new.lock = m /\ new.lockseq = lockseq'[m]
      BY <1>0, <2>1 DEF TypeOK
    <3> QED
      BY <3>1
  <2>2. CASE m # l
    BY <1>0, <2>2 DEF TypeOK, HeldIsTimed
  <2> QED
    BY <2>1, <2>2
<1> QED
  BY <1>1, <1>2, <1>3, <1>4

\* So does a footstep.
LEMMA TryFootstepKeeps ==
  ASSUME LocksInv, NEW l \in Lock, NEW k \in Asker, TryFootstep(l, k) PROVE LocksInv'
<1> USE DEF LocksInv
<1>0. /\ l \in Footstep /\ lease' = [lease EXCEPT ![l][k] = clock]
      /\ UNCHANGED <<clock, who, lockseq, timers>>
  BY DEF TryFootstep, Granted
<1>1. TypeOK' /\ TimersAreOfThePast' /\ HeldIsTimed'
  BY <1>0 DEF TypeOK, TimersAreOfThePast, HeldIsTimed
<1>2. \A m \in Lock \ Footstep : lease'[m] = lease[m]
  BY <1>0 DEF TypeOK
<1>3. EntitledHolds'
  BY <1>0, <1>2 DEF EntitledHolds, Entitled
<1> QED
  BY <1>1, <1>3

\* So does an unlock.
LEMMA ClearLockKeeps ==
  ASSUME LocksInv, NEW l \in Lock, NEW k \in Asker, ClearLock(l, k) PROVE LocksInv'
<1> USE DEF LocksInv
<1>0. /\ who' = IF l \notin Footstep /\ who[l] = k THEN [who EXCEPT ![l] = NoKi] ELSE who
      /\ lease' = [lease EXCEPT ![l][k] = Never]
      /\ UNCHANGED <<clock, lockseq, timers>>
  BY DEF ClearLock
<1>1. TypeOK'
  <2>1. lease' \in [Lock -> [Asker -> Nat \cup {Never}]]
    BY <1>0 DEF TypeOK
  <2>2. who' \in [Lock -> Asker]
    BY <1>0 DEF TypeOK, Asker
  <2> QED
    BY <1>0, <2>1, <2>2 DEF TypeOK
<1>2. TimersAreOfThePast'
  BY <1>0 DEF TimersAreOfThePast
<1>3. \A m \in Lock : who'[m] = who[m] \/ (who'[m] = NoKi /\ m = l /\ who[m] = k)
  BY <1>0 DEF TypeOK
<1>4. EntitledHolds'
  <2> SUFFICES ASSUME NEW m \in Lock \ Footstep, NEW j \in Ki, Entitled(m, j)'
               PROVE  /\ who'[m] = j
                      /\ \A t \in timers' : t.lock = m /\ t.lockseq = lockseq'[m] =>
                           t.when = lease'[m][j] + MAX_LOCK_TIME
    BY DEF EntitledHolds
  <2>1. ~(m = l /\ j = k)
    BY <1>0 DEF Entitled, TypeOK
  <2>2. lease'[m][j] = lease[m][j]
    BY <1>0, <2>1 DEF TypeOK, Asker
  <2>3. Entitled(m, j)
    BY <1>0, <2>2 DEF Entitled
  <2> QED
    BY <1>0, <1>3, <2>1, <2>2, <2>3 DEF EntitledHolds
<1>5. HeldIsTimed'
  BY <1>0, <1>3 DEF HeldIsTimed
<1> QED
  BY <1>1, <1>2, <1>4, <1>5

\* So does a lock that times out.
LEMMA HandleTimeoutKeeps == ASSUME LocksInv, HandleTimeout PROVE LocksInv'
<1> USE DEF LocksInv
<1>0. /\ who' = [l \in Lock |-> IF \E t \in Due : Clears(t, l) THEN NoKi ELSE who[l]]
      /\ timers' = timers \ Due
      /\ UNCHANGED <<clock, lockseq, lease>>
  BY DEF HandleTimeout
<1>1. TypeOK'
  BY <1>0 DEF TypeOK, Asker
<1>2. TimersAreOfThePast'
  BY <1>0 DEF TimersAreOfThePast
<1>3. EntitledHolds'
  <2> SUFFICES ASSUME NEW m \in Lock \ Footstep, NEW j \in Ki, Entitled(m, j)'
               PROVE  /\ who'[m] = j
                      /\ \A t \in timers' : t.lock = m /\ t.lockseq = lockseq'[m] =>
                           t.when = lease'[m][j] + MAX_LOCK_TIME
    BY DEF EntitledHolds
  <2>1. Entitled(m, j)
    BY <1>0 DEF Entitled
  <2>2. ~\E t \in Due : Clears(t, m)
    BY <2>1 DEF EntitledHolds, Entitled, Due, Clears, TypeOK, ClearLockTimer, Never, Asker
  <2> QED
    BY <1>0, <2>1, <2>2 DEF EntitledHolds
<1>4. HeldIsTimed'
  <2> SUFFICES ASSUME NEW m \in Lock, who'[m] # NoKi
               PROVE  \E t \in timers' : t.lock = m /\ t.lockseq = lockseq'[m]
    BY DEF HeldIsTimed
  <2>1. who[m] # NoKi /\ ~\E t \in Due : Clears(t, m)
    BY <1>0
  <2>2. PICK t \in timers : t.lock = m /\ t.lockseq = lockseq[m]
    BY <2>1 DEF HeldIsTimed
  <2> QED
    BY <1>0, <2>1, <2>2 DEF Clears
<1> QED
  BY <1>1, <1>2, <1>3, <1>4

\* So does time.
LEMMA TickKeeps == ASSUME LocksInv, Tick PROVE LocksInv'
<1> USE DEF LocksInv
<1>0. clock \in Nat /\ clock' = clock + 1 /\ UNCHANGED <<who, lockseq, timers, lease>>
  BY DEF Tick, TypeOK
<1>1. TypeOK' /\ TimersAreOfThePast' /\ HeldIsTimed'
  BY <1>0 DEF TypeOK, TimersAreOfThePast, HeldIsTimed
<1>2. ASSUME NEW m \in Lock, NEW j \in Ki, Entitled(m, j)' PROVE Entitled(m, j)
  <2>1. lease[m][j] \in Nat \cup {Never}
    BY DEF TypeOK, Asker
  <2> QED
    BY <1>0, <1>2, <2>1 DEF Entitled, Never
<1>3. EntitledHolds'
  BY <1>0, <1>2 DEF EntitledHolds
<1> QED
  BY <1>1, <1>3

\* So does each step.
LEMMA LocksStepKeeps == LocksInv /\ [LocksNext]_lockVars => LocksInv'
<1> SUFFICES ASSUME LocksInv, [LocksNext]_lockVars PROVE LocksInv'
  OBVIOUS
<1>1. ASSUME NEW l \in Lock, NEW k \in Asker, TestAndSet(l, k) PROVE LocksInv'
  BY <1>1, TryLockKeeps, TryFootstepKeeps, ClearLockKeeps DEF TestAndSet
<1>2. CASE HandleTimeout
  BY <1>2, HandleTimeoutKeeps
<1>3. CASE Tick
  BY <1>3, TickKeeps
<1>4. CASE UNCHANGED lockVars
  BY <1>4 DEF lockVars, LocksInv, TypeOK, TimersAreOfThePast, EntitledHolds, Entitled, HeldIsTimed
<1> QED
  BY <1>1, <1>2, <1>3, <1>4 DEF LocksNext

\* The invariant, in every reachable state.
LEMMA LocksAlwaysKept == LocksSpec => []LocksInv
BY LocksBegin, LocksStepKeeps, PTL DEF LocksSpec

\* The types of the locks, for any players, objects and lock time.
THEOREM LocksTyped == LocksSpec => []TypeOK
<1>1. LocksInv => TypeOK
  BY DEF LocksInv
<1> QED
  BY <1>1, LocksAlwaysKept, PTL

\* try_lock, clear_lock and the ClearLockTimers never give two players the use
\* of one object within MAX_LOCK_TIME.
THEOREM LocksExclude == LocksSpec => []OneEntitled
<1>1. LocksInv => OneEntitled
  BY DEF LocksInv, EntitledHolds, OneEntitled
<1> QED
  BY <1>1, LocksAlwaysKept, PTL

\* Whatever is locked has the timer that clears it, under its sequence number.
THEOREM LocksAreTimed == LocksSpec => []HeldIsTimed
<1>1. LocksInv => HeldIsTimed
  BY DEF LocksInv
<1> QED
  BY <1>1, LocksAlwaysKept, PTL
=============================================================================
