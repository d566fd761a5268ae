---------------------------- MODULE TrackerProofs ----------------------------
(***************************************************************************)
(* What tracking promises, for any players, game servers and requests: no  *)
(* request is waited for twice, none of a client that is there is          *)
(* forgotten, and none is answered with two game servers.                  *)
(***************************************************************************)
EXTENDS MCTracker, SequenceFacts

-----------------------------------------------------------------------------
(* Waiters and the array they are in                                       *)

WaiterRecord == [sess : Session, req : Nat, kinum : Ki, cancelled : BOOLEAN]

\* The array q is one of the waiters ws, each once.
Kept(ws, q) ==
  /\ ws \in Seq(WaiterRecord)
  /\ q \in Seq(1..Len(ws)) /\ Once(q)

\* Those of them that are not cancelled.
LiveOf(ws, q) == {i \in Within(q) : ~ws[i].cancelled}

\* The waiters v stand for what the waiters ws stand for.
StandsFor(w, u) == w.sess = u.sess /\ w.req = u.req /\ w.kinum = u.kinum

\* They wait in the order they were made.
LEMMA AgeIs ==
  ASSUME NEW ws \in Seq(WaiterRecord)
  PROVE  Age(ws) \in [1..Len(ws) -> Int]
<1>1. DOMAIN ws = 1..Len(ws) /\ Len(ws) \in Nat
  OBVIOUS
<1> QED
  BY <1>1 DEF Age

\* The waiters v in the array p are those of ws in q, and w.
AddedTo(ws, q, w, v, p) ==
  /\ Kept(v, p) /\ Len(v) = Len(ws) + 1 /\ v[Len(ws) + 1] = w
  /\ \A i \in 1..Len(ws) : v[i] = ws[i]
  /\ Within(p) = Within(q) \cup {Len(ws) + 1}
  /\ Within(q) \subseteq 1..Len(ws)

\* A new waiter joins the others in the array.
LEMMA AddIs ==
  ASSUME NEW ws, NEW q, Kept(ws, q), NEW w \in WaiterRecord, NEW v, v = Append(ws, w),
         NEW p, p = Push(q, Age(v), Len(v))
  PROVE  AddedTo(ws, q, w, v, p)
<1> DEFINE n == Len(ws)
<1>1. ws \in Seq(WaiterRecord) /\ n \in Nat /\ q \in Seq(1..n) /\ Once(q)
  BY DEF Kept
<1>2. /\ v \in Seq(WaiterRecord) /\ Len(v) = n + 1 /\ v[n + 1] = w
      /\ \A i \in 1..n : v[i] = ws[i]
  BY <1>1
<1> HIDE DEF n
<1>3. q \in Seq(1..(n + 1)) /\ n + 1 \in 1..(n + 1) /\ Age(v) \in [1..(n + 1) -> Int]
  <2>1. Age(v) \in [1..Len(v) -> Int]
    BY <1>2, AgeIs
  <2>2. 1..n \subseteq 1..(n + 1)
    BY <1>1
  <2>3. q \in Seq(1..(n + 1))
    BY <1>1, <2>2
  <2> QED
    BY <1>1, <1>2, <2>1, <2>3
<1>4. PutsOn(1..(n + 1), q, Age(v), n + 1, p)
  <2>1. p = Push(q, Age(v), n + 1)
    BY <1>2
  <2> QED
    BY <1>3, <2>1, PushIs
<1>5. Within(q) \subseteq 1..n
  BY <1>1 DEF Within
<1>6. n + 1 \notin Within(q)
  BY <1>1, <1>5
<1>7. p \in Seq(1..(n + 1)) /\ Once(p) /\ Within(p) = Within(q) \cup {n + 1}
  BY <1>1, <1>4, <1>6 DEF PutsOn
<1> QED
  BY <1>2, <1>5, <1>7 DEF Kept, AddedTo, n

\* Some are cancelled, and stay in the array.
LEMMA CancelIs ==
  ASSUME NEW ws, NEW q, Kept(ws, q), NEW S, NEW v, v = Cancelled(ws, S)
  PROVE  /\ Kept(v, q) /\ Len(v) = Len(ws)
         /\ \A i \in 1..Len(ws) : StandsFor(v[i], ws[i])
         /\ \A i \in 1..Len(ws) : v[i].cancelled <=> ws[i].cancelled \/ i \in S
         /\ LiveOf(v, q) = LiveOf(ws, q) \ S
<1> DEFINE n == Len(ws)
<1>1. /\ ws \in Seq(WaiterRecord) /\ n \in Nat /\ q \in Seq(1..n) /\ Once(q)
      /\ DOMAIN ws = 1..n /\ \A i \in 1..n : ws[i] \in WaiterRecord
  BY DEF Kept
<1> HIDE DEF n
<1>2. v = [i \in 1..n |-> [ws[i] EXCEPT !.cancelled = @ \/ i \in S]]
  BY <1>1 DEF Cancelled
<1>3. ASSUME NEW i \in 1..n
      PROVE  /\ v[i] \in WaiterRecord /\ StandsFor(v[i], ws[i])
             /\ v[i].cancelled <=> ws[i].cancelled \/ i \in S
  <2>1. v[i] = [ws[i] EXCEPT !.cancelled = @ \/ i \in S] /\ ws[i] \in WaiterRecord
    BY <1>1, <1>2
  <2>2. (ws[i].cancelled \/ i \in S) \in BOOLEAN
    OBVIOUS
  <2> QED
    BY <2>1, <2>2 DEF WaiterRecord, StandsFor
<1>4. v \in Seq(WaiterRecord) /\ Len(v) = n
  <2>1. v = [i \in 1..n |-> v[i]]
    BY <1>2
  <2>2. v \in [1..n -> WaiterRecord]
    BY ONLY <1>3, <2>1
  <2> QED
    BY <1>1, <2>2
<1>5. Within(q) \subseteq 1..n
  BY <1>1 DEF Within
<1>6. LiveOf(v, q) = LiveOf(ws, q) \ S
  BY <1>3, <1>5 DEF LiveOf
<1> QED
  BY <1>1, <1>3, <1>4, <1>6 DEF Kept, n

\* A waiter that is replaced is live no more, the new one is, and stands for the same.
RenewedTo(ws, q, i, v, p) ==
  /\ Kept(v, p) /\ Len(v) = Len(ws) + 1
  /\ \A j \in 1..Len(ws) : StandsFor(v[j], ws[j])
  /\ StandsFor(v[Len(ws) + 1], ws[i])
  /\ LiveOf(ws, q) \subseteq 1..Len(ws)
  /\ i \in LiveOf(ws, q) => LiveOf(v, p) = (LiveOf(ws, q) \ {i}) \cup {Len(ws) + 1}

\* The waiter and the array after it is replaced.
LEMMA RenewIs ==
  ASSUME NEW ws, NEW q, Kept(ws, q), NEW i \in 1..Len(ws), NEW a, a = Renew([ws |-> ws, q |-> q], i)
  PROVE  /\ RenewedTo(ws, q, i, a.ws, a.q)
         /\ a = [ws |-> a.ws, q |-> a.q]
<1> DEFINE n == Len(ws)
           u == Cancelled(ws, {i})
<1>1. ws \in Seq(WaiterRecord) /\ n \in Nat /\ q \in Seq(1..n) /\ ws[i] \in WaiterRecord
  BY DEF Kept
<1>2. u = Cancelled(ws, {i})
  OBVIOUS
<1> HIDE DEF u
<1>3. /\ Kept(u, q) /\ Len(u) = Len(ws)
      /\ \A j \in 1..Len(ws) : StandsFor(u[j], ws[j])
      /\ LiveOf(u, q) = LiveOf(ws, q) \ {i}
  BY <1>2, CancelIs
<1>4. a.ws = Append(u, ws[i]) /\ a.q = Push(q, Age(a.ws), Len(a.ws)) /\ a = [ws |-> a.ws, q |-> a.q]
  BY <1>2 DEF Renew, Renewed
<1>5. /\ Kept(a.ws, a.q) /\ Len(a.ws) = n + 1 /\ a.ws[n + 1] = ws[i]
      /\ \A j \in 1..n : a.ws[j] = u[j]
      /\ Within(a.q) = Within(q) \cup {n + 1}
      /\ Within(q) \subseteq 1..n
  <2>1. AddedTo(u, q, ws[i], a.ws, a.q)
    BY <1>1, <1>3, <1>4, AddIs
  <2> QED
    BY <1>3, <2>1 DEF AddedTo
<1> HIDE DEF n
<1>6. /\ \A j \in 1..n : StandsFor(a.ws[j], ws[j])
      /\ StandsFor(a.ws[n + 1], ws[i])
  BY <1>3, <1>5 DEF StandsFor, n
<1>7. ASSUME i \in LiveOf(ws, q)
      PROVE  LiveOf(a.ws, a.q) = (LiveOf(ws, q) \ {i}) \cup {n + 1}
  <2>1. ~a.ws[n + 1].cancelled
    BY <1>5, <1>7 DEF LiveOf
  <2>2. \A j \in Within(q) : a.ws[j] = u[j]
    BY <1>5
  <2> QED
    BY <1>3, <1>5, <2>1, <2>2 DEF LiveOf
<1> QED
  BY <1>4, <1>5, <1>6, <1>7 DEF RenewedTo, n, LiveOf

-----------------------------------------------------------------------------
(* The folds of Tracker                                                    *)

\* Among lists the places of the array that are in the set, each once.
Lists(l, n, q, W) == l \in Seq(1..n) /\ Once(l) /\ Within(l) = Within(q) \cap W

\* A scan of the array finds each that it looks for once.
LEMMA AmongIs ==
  ASSUME NEW m \in Nat, NEW q \in Seq(1..m), Once(q), NEW W, NEW l, l = Among(W, q)
  PROVE  Lists(l, m, q, W)
<1> DEFINE n == Len(q)
           S == 1..m
           Keep(x, i) == IF i \in W THEN Append(x, i) ELSE x
           Step(f) == [s \in SUBSET (1..n) |->
                         IF s = {} THEN <<>> ELSE Keep(f[s \ {Max(s)}], q[Max(s)])]
           it == CHOOSE f : f = Step(f)
           F == [p \in Seq(S) \X (1..n) |-> Keep(p[1], q[p[2]])]
           Up(k) == {i \in 1..k : q[i] \in W}
           Good(k) == /\ it[1..k] \in Seq(S) /\ Once(it[1..k])
                      /\ Within(it[1..k]) = {q[i] : i \in Up(k)}
           T == {k \in 0..n : Good(k)}
<1>0. n \in Nat /\ DOMAIN q = 1..n /\ q \in Seq(S) /\ Once(q) /\ \A i \in 1..n : q[i] \in S
  OBVIOUS
<1>1. l = it[1..n]
  BY <1>0 DEF Among, FoldLeft, MapThenFoldSet
<1> HIDE DEF n, S
<1>2. PICK f : IsFold(n, Seq(S), <<>>, F, f)
  <2>1. ASSUME NEW k \in 1..n, NEW x \in Seq(S)  PROVE F[<<x, k>>] \in Seq(S)
    <3>1. q[k] \in S
      BY <1>0
    <3>2. Append(x, q[k]) \in Seq(S)
      BY <3>1
    <3> QED
      BY <3>2
  <2>2. <<>> \in Seq(S)
    OBVIOUS
  <2> HIDE DEF F
  <2> QED
    BY <1>0, <2>1, <2>2, FoldExists
<1> HIDE DEF Keep
<1>3. f = Step(f)
  <2>1. ASSUME NEW s \in SUBSET (1..n), s # {}
        PROVE  f[s] = Keep(f[s \ {Max(s)}], q[Max(s)])
    <3>1. Max(s) \in 1..n /\ f[s \ {Max(s)}] \in Seq(S)
      BY <1>0, <2>1, <1>2, MaxIsPlace DEF IsFold
    <3> QED
      BY <1>2, <2>1, <3>1 DEF IsFold
  <2> QED
    BY <2>1, <1>2 DEF IsFold
<1>4. it = Step(it)
  <2> HIDE DEF Step
  <2> QED
    BY <1>3
<1>5. it[1..0] = <<>>
  <2>1. it[{}] = <<>>
    <3> HIDE DEF it
    <3> QED
      BY <1>4
  <2> HIDE DEF it
  <2> QED
    BY <2>1, 1..0 = {}
<1>6. ASSUME NEW i \in 1..n  PROVE it[1..i] = Keep(it[1..(i - 1)], q[i])
  <2> HIDE DEF it
  <2>1. Max(1..i) = i /\ (1..i) \ {i} = 1..(i - 1) /\ 1..i # {} /\ 1..i \in SUBSET (1..n)
    BY <1>0, PlacesUpTo
  <2> QED
    BY <1>4, <2>1
<1> HIDE DEF it
<1>7. 0 \in T
  <2>1. Up(0) = {}
    OBVIOUS
  <2>2. <<>> \in Seq(S) /\ DOMAIN <<>> = {}
    OBVIOUS
  <2>3. Once(<<>>) /\ Within(<<>>) = {}
    BY <2>2 DEF Once, Within
  <2>4. {q[i] : i \in Up(0)} = {}
    BY <2>1
  <2>5. Good(0)
    <3> HIDE DEF Up
    <3> QED
      BY <1>5, <2>2, <2>3, <2>4
  <2>6. 0 \in 0..n
    BY <1>0
  <2> QED
    BY <2>5, <2>6
<1>8. ASSUME NEW k \in Nat, k < n, k \in T  PROVE k + 1 \in T
  <2> DEFINE x == it[1..k]
             y == it[1..(k + 1)]
             e == q[k + 1]
  <2>1. x \in Seq(S) /\ Once(x) /\ Within(x) = {q[i] : i \in Up(k)}
    BY <1>8
  <2>2. k + 1 \in 1..n /\ e \in S
    BY <1>0, <1>8
  <2>3. y = Keep(x, e)
    <3>1. (k + 1) - 1 = k
      BY <1>8
    <3> QED
      BY <1>6, <2>2, <3>1
  <2>4. k + 1 \in 0..n
    BY <1>0, <1>8
  <2> HIDE DEF x, y
  <2>5. CASE e \notin W
    <3>1. y = x
      BY <2>3, <2>5 DEF Keep
    <3>2. Up(k + 1) = Up(k)
      BY <2>5
    <3> QED
      BY <2>1, <2>4, <3>1, <3>2 DEF y
  <2>6. CASE e \in W
    <3>1. y = Append(x, e)
      BY <2>3, <2>6 DEF Keep
    <3>2. Up(k + 1) = Up(k) \cup {k + 1}
      BY <2>6
    <3>3. /\ y \in Seq(S) /\ Len(y) = Len(x) + 1 /\ y[Len(x) + 1] = e
          /\ \A i \in 1..Len(x) : y[i] = x[i]
      BY <2>1, <2>2, <3>1
    <3>4. Within(y) = Within(x) \cup {e}
      <4>1. DOMAIN y = 1..(Len(x) + 1) /\ DOMAIN x = 1..Len(x) /\ Len(x) \in Nat
        BY <2>1, <3>3
      <4>2. 1..(Len(x) + 1) = 1..Len(x) \cup {Len(x) + 1}
        BY <4>1
      <4> QED
        BY ONLY <3>3, <4>1, <4>2, SMTT(30) DEF Within
    <3>5. e \notin Within(x)
      <4>1. \A i \in Up(k) : i \in 1..n /\ i # k + 1
        BY <1>0, <1>8
      <4>2. \A i \in Up(k) : q[i] # e
        BY <1>0, <2>2, <4>1 DEF Once
      <4> QED
        BY <2>1, <4>2
    <3>6. Once(y)
      <4>1. DOMAIN y = 1..(Len(x) + 1) /\ DOMAIN x = 1..Len(x) /\ Len(x) \in Nat
        BY <2>1, <3>3
      <4>2. \A i \in 1..Len(x) : x[i] # e
        BY <3>5, <4>1 DEF Within
      <4> QED
        BY <2>1, <3>3, <4>1, <4>2, SMTT(30) DEF Once
    <3>7. Within(y) = {q[i] : i \in Up(k + 1)}
      BY <2>1, <3>2, <3>4
    <3> QED
      BY <2>4, <3>3, <3>6, <3>7 DEF y
  <2> QED
    BY <2>5, <2>6
<1> HIDE DEF T
<1>9. n \in T
  <2>1. 0 \in T /\ \A k \in Nat : k < n /\ k \in T => k + 1 \in T
    BY <1>7, <1>8
  <2>2. \A k \in 0..n : k \in T
    BY ONLY <1>0, <2>1, UpTo
  <2> QED
    BY <1>0, <2>2
<1>10. l \in Seq(S) /\ Once(l) /\ Within(l) = {q[i] : i \in Up(n)}
  BY <1>1, <1>9 DEF T
<1>11. {q[i] : i \in Up(n)} = Within(q) \cap W
  BY <1>0 DEF Within
<1> QED
  BY <1>10, <1>11 DEF S, Lists

\* LiveIn lists those that are not cancelled, each once.
LEMMA LiveInIs ==
  ASSUME NEW ws, NEW q, Kept(ws, q), NEW l, l = LiveIn(ws, q)
  PROVE  l \in Seq(1..Len(ws)) /\ Once(l) /\ Within(l) = LiveOf(ws, q)
<1> DEFINE W == {i \in DOMAIN ws : ~ws[i].cancelled}
<1>1. Len(ws) \in Nat /\ q \in Seq(1..Len(ws)) /\ Once(q) /\ DOMAIN ws = 1..Len(ws)
  BY DEF Kept
<1>2. l = Among(W, q)
  BY DEF LiveIn
<1>3. Within(q) \cap W = LiveOf(ws, q)
  BY <1>1 DEF Within, LiveOf
<1> HIDE DEF W
<1>4. Lists(l, Len(ws), q, W)
  BY ONLY <1>1, <1>2, AmongIs
<1> QED
  BY <1>3, <1>4 DEF Lists


\* No request is waited for twice.
OneEach(ws, q) == \A i, j \in LiveOf(ws, q) : ws[i].req = ws[j].req => i = j

\* The live ones of v are there for the same as those of ws.
SameWaiters(ws, q, v, p) ==
  /\ Kept(v, p) /\ OneEach(v, p)
  /\ \A j \in LiveOf(v, p) : \E i \in LiveOf(ws, q) : StandsFor(v[j], ws[i])
  /\ \A i \in LiveOf(ws, q) : \E j \in LiveOf(v, p) : StandsFor(v[j], ws[i])

\* Those that are there for the same as others are there for the same as theirs.
LEMMA SameAsSame ==
  ASSUME NEW ws, NEW q, NEW v, NEW p, NEW u, NEW o,
         SameWaiters(ws, q, v, p), SameWaiters(v, p, u, o)
  PROVE  SameWaiters(ws, q, u, o)
<1>1. ASSUME NEW k \in LiveOf(u, o)  PROVE \E i \in LiveOf(ws, q) : StandsFor(u[k], ws[i])
  <2>1. PICK j \in LiveOf(v, p) : StandsFor(u[k], v[j])
    BY DEF SameWaiters
  <2>2. PICK i \in LiveOf(ws, q) : StandsFor(v[j], ws[i])
    BY DEF SameWaiters
  <2> QED
    BY <2>1, <2>2 DEF StandsFor
<1>2. ASSUME NEW i \in LiveOf(ws, q)  PROVE \E k \in LiveOf(u, o) : StandsFor(u[k], ws[i])
  <2>1. PICK j \in LiveOf(v, p) : StandsFor(v[j], ws[i])
    BY DEF SameWaiters
  <2>2. PICK k \in LiveOf(u, o) : StandsFor(u[k], v[j])
    BY DEF SameWaiters
  <2> QED
    BY <2>1, <2>2 DEF StandsFor
<1> QED
  BY <1>1, <1>2 DEF SameWaiters

\* After one is replaced they are there for the same.
LEMMA RenewedIsSame ==
  ASSUME NEW ws, NEW q, Kept(ws, q), OneEach(ws, q), NEW i \in LiveOf(ws, q),
         NEW v, NEW p, RenewedTo(ws, q, i, v, p)
  PROVE  /\ SameWaiters(ws, q, v, p)
         /\ \A j \in LiveOf(ws, q) : j # i => j \in LiveOf(v, p)
<1> DEFINE n == Len(ws)
<1>1. n \in Nat
  BY DEF Kept
<1> HIDE DEF n
<1>2. /\ Kept(v, p)
      /\ \A j \in 1..n : StandsFor(v[j], ws[j])
      /\ StandsFor(v[n + 1], ws[i])
      /\ LiveOf(ws, q) \subseteq 1..n
      /\ LiveOf(v, p) = (LiveOf(ws, q) \ {i}) \cup {n + 1}
  BY DEF RenewedTo, n
<1>3. ASSUME NEW j \in LiveOf(v, p), NEW k \in LiveOf(v, p), v[j].req = v[k].req  PROVE j = k
  <2>1. \A x \in LiveOf(ws, q) : v[x].req = ws[x].req
    BY <1>2 DEF StandsFor
  <2>2. v[n + 1].req = ws[i].req
    BY <1>2 DEF StandsFor
  <2>3. CASE j # n + 1 /\ k # n + 1
    BY <1>2, <1>3, <2>1, <2>3 DEF OneEach
  <2>4. CASE j = n + 1 /\ k # n + 1
    BY <1>2, <1>3, <2>1, <2>2, <2>4 DEF OneEach
  <2>5. CASE j # n + 1 /\ k = n + 1
    BY <1>2, <1>3, <2>1, <2>2, <2>5 DEF OneEach
  <2> QED
    BY <2>3, <2>4, <2>5
<1>4. \A j \in LiveOf(v, p) : \E k \in LiveOf(ws, q) : StandsFor(v[j], ws[k])
  BY <1>2
<1>5. \A k \in LiveOf(ws, q) : \E j \in LiveOf(v, p) : StandsFor(v[j], ws[k])
  BY <1>2
<1> QED
  BY <1>2, <1>3, <1>4, <1>5 DEF SameWaiters, OneEach

\* The arrays of at least n waiters.
Arrays(n) ==
  {x \in [ws : Seq(WaiterRecord), q : Seq(Nat)] : Kept(x.ws, x.q) /\ n <= Len(x.ws)}

\* Waiters and their array are of that kind.
LEMMA ArrayIs ==
  ASSUME NEW n \in Nat, NEW ws, NEW q, Kept(ws, q), n <= Len(ws)
  PROVE  [ws |-> ws, q |-> q] \in Arrays(n)
<1>1. ws \in Seq(WaiterRecord) /\ q \in Seq(1..Len(ws)) /\ 1..Len(ws) \subseteq Nat
  BY DEF Kept
<1>2. q \in Seq(Nat)
  BY <1>1
<1> QED
  BY <1>1, <1>2 DEF Arrays

\* When each is replaced they are still there for the same.
LEMMA AllRenewed ==
  ASSUME NEW ws, NEW q, Kept(ws, q), OneEach(ws, q),
         NEW l \in Seq(1..Len(ws)), Once(l), Within(l) \subseteq LiveOf(ws, q),
         NEW a, a = FoldLeft(Renew, [ws |-> ws, q |-> q], l)
  PROVE  SameWaiters(ws, q, a.ws, a.q)
<1> DEFINE n == Len(l)
           m == Len(ws)
           X == Arrays(m)
           b == [ws |-> ws, q |-> q]
           Step(f) == [s \in SUBSET (1..n) |->
                         IF s = {} THEN b ELSE Renew(f[s \ {Max(s)}], l[Max(s)])]
           it == CHOOSE f : f = Step(f)
           F == [p \in X \X (1..n) |-> Renew(p[1], l[p[2]])]
           Good(k) == /\ it[1..k] \in X
                      /\ SameWaiters(ws, q, it[1..k].ws, it[1..k].q)
                      /\ \A i \in (k + 1)..n : l[i] \in LiveOf(it[1..k].ws, it[1..k].q)
           T == {k \in 0..n : Good(k)}
<1>0. /\ n \in Nat /\ DOMAIN l = 1..n /\ m \in Nat /\ ws \in Seq(WaiterRecord)
      /\ \A i \in 1..n : l[i] \in 1..m
  BY DEF Kept
<1>1. a = it[1..n]
  BY <1>0 DEF FoldLeft, MapThenFoldSet
<1>b. b \in X
  BY <1>0, ArrayIs
<1>r. ASSUME NEW x \in X, NEW k \in 1..n
      PROVE  /\ Renew(x, l[k]) \in X
             /\ RenewedTo(x.ws, x.q, l[k], Renew(x, l[k]).ws, Renew(x, l[k]).q)
  <2>1. /\ Kept(x.ws, x.q) /\ m <= Len(x.ws) /\ x = [ws |-> x.ws, q |-> x.q]
        /\ Len(x.ws) \in Nat
    BY DEF X, Arrays
  <2> DEFINE y == Renew(x, l[k])
  <2>2. l[k] \in 1..Len(x.ws)
    BY <1>0, <2>1
  <2>3. y = Renew([ws |-> x.ws, q |-> x.q], l[k])
    BY <2>1
  <2> HIDE DEF y
  <2>4. RenewedTo(x.ws, x.q, l[k], y.ws, y.q) /\ y = [ws |-> y.ws, q |-> y.q]
    BY <2>1, <2>2, <2>3, RenewIs
  <2>5. Kept(y.ws, y.q) /\ m <= Len(y.ws)
    <3>1. Kept(y.ws, y.q) /\ Len(y.ws) = Len(x.ws) + 1
      BY <2>4 DEF RenewedTo
    <3> QED
      BY <1>0, <2>1, <3>1
  <2>6. y \in X
    BY <1>0, <2>4, <2>5, ArrayIs
  <2> QED
    BY <2>4, <2>6 DEF y
<1> HIDE DEF n, m, b, X
<1>2. PICK f : IsFold(n, X, b, F, f)
  <2>1. \A k \in 1..n : \A x \in X : F[<<x, k>>] \in X
    BY <1>r
  <2> HIDE DEF F
  <2> QED
    BY <1>0, <1>b, <2>1, FoldExists
<1>3. f = Step(f)
  <2>1. ASSUME NEW s \in SUBSET (1..n), s # {}
        PROVE  f[s] = Renew(f[s \ {Max(s)}], l[Max(s)])
    <3>1. Max(s) \in 1..n /\ f[s \ {Max(s)}] \in X
      BY <1>0, <2>1, <1>2, MaxIsPlace DEF IsFold
    <3> QED
      BY <1>2, <2>1, <3>1 DEF IsFold
  <2> QED
    BY <2>1, <1>2 DEF IsFold
<1>4. it = Step(it)
  <2> HIDE DEF Step
  <2> QED
    BY <1>3
<1>5. it[1..0] = b
  <2>1. it[{}] = b
    <3> HIDE DEF it
    <3> QED
      BY <1>4
  <2> HIDE DEF it
  <2> QED
    BY <2>1, 1..0 = {}
<1>6. ASSUME NEW i \in 1..n  PROVE it[1..i] = Renew(it[1..(i - 1)], l[i])
  <2> HIDE DEF it
  <2>1. Max(1..i) = i /\ (1..i) \ {i} = 1..(i - 1) /\ 1..i # {} /\ 1..i \in SUBSET (1..n)
    BY <1>0, PlacesUpTo
  <2> QED
    BY <1>4, <2>1
<1> HIDE DEF it
<1>7. 0 \in T
  <2>1. b.ws = ws /\ b.q = q
    BY DEF b
  <2>2. SameWaiters(ws, q, ws, q)
    BY DEF SameWaiters, StandsFor
  <2>3. \A i \in (0 + 1)..n : l[i] \in LiveOf(ws, q)
    BY <1>0 DEF Within
  <2>4. Good(0)
    BY <1>5, <1>b, <2>1, <2>2, <2>3
  <2>5. 0 \in 0..n
    BY <1>0
  <2> QED
    BY <2>4, <2>5
<1>8. ASSUME NEW k \in Nat, k < n, k \in T  PROVE k + 1 \in T
  <2> DEFINE x == it[1..k]
             y == it[1..(k + 1)]
             e == l[k + 1]
  <2>1. /\ x \in X /\ SameWaiters(ws, q, x.ws, x.q)
        /\ \A i \in (k + 1)..n : l[i] \in LiveOf(x.ws, x.q)
    BY <1>8
  <2>2. k + 1 \in 1..n /\ k + 1 \in 0..n /\ k + 1 \in (k + 1)..n
    BY <1>0, <1>8
  <2>3. y = Renew(x, e)
    <3>1. (k + 1) - 1 = k
      BY <1>8
    <3> QED
      BY <1>6, <2>2, <3>1
  <2>4. e \in LiveOf(x.ws, x.q)
    BY <2>1, <2>2
  <2>5. \A i \in ((k + 1) + 1)..n : l[i] \in LiveOf(x.ws, x.q) /\ l[i] # e
    <3>1. \A i \in ((k + 1) + 1)..n : i \in (k + 1)..n /\ i \in 1..n /\ i # k + 1
      BY <1>0, <1>8
    <3> QED
      BY <1>0, <2>1, <2>2, <3>1 DEF Once
  <2>6. y \in X /\ RenewedTo(x.ws, x.q, e, y.ws, y.q)
    <3> HIDE DEF x, y
    <3> QED
      BY <1>r, <2>1, <2>2, <2>3
  <2>e. e = l[k + 1]
    OBVIOUS
  <2> HIDE DEF x, y, e
  <2>7. Kept(x.ws, x.q) /\ OneEach(x.ws, x.q)
    BY <2>1 DEF SameWaiters
  <2>8. /\ SameWaiters(x.ws, x.q, y.ws, y.q)
        /\ \A j \in LiveOf(x.ws, x.q) : j # e => j \in LiveOf(y.ws, y.q)
    BY <2>4, <2>6, <2>7, RenewedIsSame
  <2>9. SameWaiters(ws, q, y.ws, y.q)
    BY <2>1, <2>8, SameAsSame
  <2>10. \A i \in ((k + 1) + 1)..n : l[i] \in LiveOf(y.ws, y.q)
    BY <2>5, <2>8
  <2> QED
    BY <2>2, <2>6, <2>9, <2>10 DEF y
<1> HIDE DEF T
<1>9. n \in T
  <2>1. 0 \in T /\ \A k \in Nat : k < n /\ k \in T => k + 1 \in T
    BY <1>7, <1>8
  <2>2. \A k \in 0..n : k \in T
    BY ONLY <1>0, <2>1, UpTo
  <2> QED
    BY <1>0, <2>2
<1> QED
  BY <1>1, <1>9 DEF T

-----------------------------------------------------------------------------
(* The waiters that are due                                                *)

\* What handle_timeout leaves of the array q: the ones it takes off are due or cancelled.
LeftOf(q, oldest, p) ==
  /\ Kept(waiters, p) /\ Within(p) \subseteq Within(q)
  /\ \A i \in Within(q) \ Within(p) : i <= oldest \/ waiters[i].cancelled

\* One turn of its loop takes off one at most.
LEMMA PoppedIs ==
  ASSUME NEW q, Kept(waiters, q), NEW oldest, NEW p, p = Popped(q, oldest)
  PROVE  LeftOf(q, oldest, p)
<1> DEFINE S == 1..Len(waiters)
<1>1. waiters \in Seq(WaiterRecord) /\ q \in Seq(S) /\ Once(q)
  BY DEF Kept
<1>2. p = IF q # <<>> /\ (q[1] <= oldest \/ waiters[q[1]].cancelled)
            THEN Pop(q, Age(waiters)) ELSE q
  BY DEF Popped
<1>3. CASE q # <<>> /\ (q[1] <= oldest \/ waiters[q[1]].cancelled)
  <2>1. p = Pop(q, Age(waiters))
    BY <1>2, <1>3
  <2>2. Age(waiters) \in [S -> Int]
    BY <1>1, AgeIs
  <2> HIDE DEF S
  <2>3. TakesOff(S, q, Age(waiters), p)
    BY <1>1, <1>3, <2>1, <2>2, PopIs
  <2>4. p \in Seq(S) /\ Once(p) /\ Within(q) = {q[1]} \cup Within(p)
    BY <1>1, <2>3 DEF TakesOff
  <2> QED
    BY <1>1, <1>3, <2>4 DEF LeftOf, Kept, S
<1>4. CASE ~(q # <<>> /\ (q[1] <= oldest \/ waiters[q[1]].cancelled))
  BY <1>2, <1>4 DEF LeftOf
<1> QED
  BY <1>3, <1>4

\* All the turns together take off only those that are due or cancelled.
LEMMA LeftIs ==
  ASSUME Kept(waiters, queue), NEW oldest, NEW left, left = Left(oldest)
  PROVE  LeftOf(queue, oldest, left)
<1> DEFINE n == Len(queue)
           X == {p \in Seq(Nat) : LeftOf(queue, oldest, p)}
           Step(f) == [s \in SUBSET (1..n) |->
                         IF s = {} THEN queue ELSE Popped(f[s \ {Max(s)}], oldest)]
           it == CHOOSE f : f = Step(f)
           F == [p \in X \X (1..n) |-> Popped(p[1], oldest)]
<1>0. n \in Nat /\ DOMAIN queue = 1..n /\ queue \in Seq(1..Len(waiters)) /\ Len(waiters) \in Nat
  BY DEF Kept
<1>1. left = it[1..n]
  BY <1>0 DEF Left, FoldLeft, MapThenFoldSet
<1>b. queue \in X
  <2>1. queue \in Seq(Nat)
    BY <1>0
  <2> QED
    BY <2>1 DEF LeftOf
<1>r. ASSUME NEW x \in X  PROVE Popped(x, oldest) \in X
  <2> DEFINE y == Popped(x, oldest)
  <2>1. y = Popped(x, oldest)
    OBVIOUS
  <2> HIDE DEF y
  <2>2. LeftOf(x, oldest, y)
    BY <2>1, PoppedIs DEF LeftOf
  <2>3. LeftOf(queue, oldest, y)
    BY <2>2 DEF LeftOf
  <2>4. y \in Seq(Nat)
    <3>1. y \in Seq(1..Len(waiters)) /\ 1..Len(waiters) \subseteq Nat
      BY <1>0, <2>2 DEF LeftOf, Kept
    <3> QED
      BY <3>1
  <2> QED
    BY <2>3, <2>4 DEF y
<1> HIDE DEF n, X
<1>2. PICK f : IsFold(n, X, queue, F, f)
  <2>1. \A k \in 1..n : \A x \in X : F[<<x, k>>] \in X
    BY <1>r
  <2> HIDE DEF F
  <2> QED
    BY <1>0, <1>b, <2>1, FoldExists
<1>3. f = Step(f)
  <2>1. ASSUME NEW s \in SUBSET (1..n), s # {}
        PROVE  f[s] = Popped(f[s \ {Max(s)}], oldest)
    <3>1. Max(s) \in 1..n /\ f[s \ {Max(s)}] \in X
      BY <1>0, <2>1, <1>2, MaxIsPlace DEF IsFold
    <3> QED
      BY <1>2, <2>1, <3>1 DEF IsFold
  <2> QED
    BY <2>1, <1>2 DEF IsFold
<1>4. it = Step(it)
  <2> HIDE DEF Step
  <2> QED
    BY <1>3
<1> HIDE DEF it
<1>5. ASSUME NEW k \in Nat, k <= n, it[1..k] \in X, k < n  PROVE it[1..(k + 1)] \in X
  <2>1. Max(1..(k + 1)) = k + 1 /\ (1..(k + 1)) \ {k + 1} = 1..k /\ 1..(k + 1) # {}
        /\ 1..(k + 1) \in SUBSET (1..n)
    <3>1. k + 1 \in 1..n /\ (k + 1) - 1 = k
      BY <1>0, <1>5
    <3> QED
      BY <1>0, <3>1, PlacesUpTo
  <2>2. it[1..(k + 1)] = Popped(it[1..k], oldest)
    BY <1>4, <2>1
  <2> QED
    BY <1>5, <1>r, <2>2
<1> DEFINE T == {k \in 0..n : it[1..k] \in X}
<1>6. 0 \in T
  <2>1. it[{}] = queue
    BY <1>4
  <2> QED
    BY <1>0, <1>b, <2>1, 1..0 = {}
<1>7. ASSUME NEW k \in Nat, k < n, k \in T  PROVE k + 1 \in T
  <2>1. k + 1 \in 0..n
    BY <1>0, <1>7
  <2> QED
    BY <1>5, <1>7, <2>1
<1> HIDE DEF T
<1>8. n \in T
  <2>1. 0 \in T /\ \A k \in Nat : k < n /\ k \in T => k + 1 \in T
    BY <1>6, <1>7
  <2>2. \A k \in 0..n : k \in T
    BY ONLY <1>0, <2>1, UpTo
  <2> QED
    BY <1>0, <2>2
<1> QED
  BY <1>1, <1>8 DEF T, X

-----------------------------------------------------------------------------
(* The invariant                                                           *)

\* A session is of its player, once the player is known.
SessionsOk ==
  /\ sess \in [Session -> [phase : {"new", "on", "left"}, kinum : Ki \cup {NoKi}, game : Nat]]
  /\ \A s \in Session : sess[s].kinum # NoKi => sess[s].kinum = Player[s]

\* Requests are made by sessions that are logged in.
RequestsOk ==
  /\ asked \in Seq(Session)
  /\ answers \in Seq(Seq(Nat)) /\ Len(answers) = Len(asked)
  /\ \A r \in 1..Len(asked) : sess[asked[r]].phase # "new"

\* Of the answers to a request one at most names a server.
OneServer(ans) ==
  \A m, n \in DOMAIN ans : ans[m] # Refused /\ ans[n] # Refused => m = n

\* A waiter that is not cancelled is for a request that was sent nowhere.
IsFor(w) ==
  /\ w.req \in 1..Len(asked) /\ w.sess = asked[w.req] /\ w.kinum = Player[w.sess]
  /\ \A n \in DOMAIN answers[w.req] : answers[w.req][n] = Refused

TrackInv ==
  /\ SessionsOk /\ RequestsOk
  /\ Kept(waiters, queue) /\ OneEach(waiters, queue)
  /\ \A i \in LiveOf(waiters, queue) : IsFor(waiters[i])
  /\ \A r \in 1..Len(asked) : OneServer(answers[r])

\* A request that no answer was sent for, of a client that is there, has a waiter.
Waited(r) == Outstanding(r) => \E i \in LiveOf(waiters, queue) : waiters[i].req = r

\* So have all but those of players that had another client that quit.
Covered == \A r \in 1..Len(asked) : TwinQuit(r) \/ Waited(r)

\* Another client of the player who asked quits.
TwinQuits(r) ==
  \E s \in Session \ {asked[r]} :
    Player[s] = Player[asked[r]] /\ sess[s].phase = "on" /\ sess'[s].phase = "left"

\* The waiters that are not cancelled are those of LiveOf.
LEMMA LiveIs ==
  ASSUME Kept(waiters, queue)
  PROVE  Live = LiveOf(waiters, queue) /\ Live \subseteq 1..Len(waiters)
<1>1. DOMAIN waiters = 1..Len(waiters) /\ Within(queue) \subseteq 1..Len(waiters)
  BY DEF Kept, Within
<1>2. ToSet(queue) = Within(queue)
  BY DEF ToSet, Within
<1> QED
  BY <1>1, <1>2 DEF Live, LiveOf

\* The waiter u is replaced by one that stands for the same.
StillThere(u) == \E j \in LiveOf(waiters', queue') : StandsFor(waiters'[j], u)

\* What an answer is: nothing, a refusal, or a server for one that then waits no more.
AnsweredTo(r) ==
  \/ answers'[r] = answers[r]
  \/ answers'[r] = Append(answers[r], Refused)
  \/ \E i \in LiveOf(waiters, queue), g \in Nat :
       /\ waiters[i].req = r /\ ~StillThere(waiters[i])
       /\ answers'[r] = Append(answers[r], g)

\* What every step but a request does.
Goes ==
  /\ asked' = asked
  /\ \A s \in Session : sess[s].phase # "new" =>
       sess'[s].phase # "new" /\ (sess'[s].phase = "on" => sess[s].phase = "on")
  /\ answers' = [r \in 1..Len(asked) |-> answers'[r]] /\ \A r \in 1..Len(asked) : AnsweredTo(r)
  /\ Kept(waiters', queue') /\ OneEach(waiters', queue')
  /\ \A j \in LiveOf(waiters', queue') :
       \E i \in LiveOf(waiters, queue) : StandsFor(waiters'[j], waiters[i])

\* A waiter is not dropped without a word to a client that is there.
Minded(i) ==
  \/ StillThere(waiters[i])
  \/ answers'[waiters[i].req] # <<>>
  \/ sess'[waiters[i].sess].phase # "on"

NoneDropped == \A i \in LiveOf(waiters, queue) : Minded(i)

\* Every request that is waited for still is, and a new one is.
WaitersStay ==
  \A r \in 1..Len(asked') : (r \in 1..Len(asked) => Waited(r)) => Waited(r)'

\* An answer is one that was there before or the last, which is new.
Longer(s, e, t) ==
  /\ t \in Seq(Nat) /\ DOMAIN s = 1..Len(s) /\ DOMAIN t = 1..(Len(s) + 1)
  /\ Len(s) \in Nat /\ t[Len(s) + 1] = e /\ t # <<>>
  /\ \A n \in 1..Len(s) : t[n] = s[n]

\* Answers are added at the end.
LEMMA AnswerIs ==
  ASSUME NEW s \in Seq(Nat), NEW e \in Nat, NEW t, t = Append(s, e)
  PROVE  Longer(s, e, t)
  BY DEF Longer

\* Such a step keeps the invariant.
LEMMA StepIs ==
  ASSUME TrackInv, SessionsOk', Goes
  PROVE  /\ TrackInv'
         /\ \A r \in 1..Len(asked) :
              (\A i \in LiveOf(waiters, queue) : waiters[i].req = r => Minded(i)) =>
                (Waited(r) => Waited(r)')
         /\ NoneDropped => WaitersStay
<1>1. /\ asked \in Seq(Session) /\ asked' = asked
      /\ answers \in Seq(Seq(Nat)) /\ Len(answers) = Len(asked)
      /\ DOMAIN answers = 1..Len(asked) /\ DOMAIN answers' = 1..Len(asked) /\ Len(asked) \in Nat
      /\ \A r \in 1..Len(asked) : answers[r] \in Seq(Nat) /\ asked[r] \in Session
  BY DEF TrackInv, RequestsOk, Goes
<1>2. ASSUME NEW r \in 1..Len(asked)
      PROVE  answers'[r] \in Seq(Nat) /\ OneServer(answers'[r]) /\ (answers[r] # <<>> => answers'[r] # <<>>)
  <2>1. answers[r] \in Seq(Nat) /\ OneServer(answers[r])
    BY <1>1 DEF TrackInv
  <2>2. CASE answers'[r] = answers[r]
    BY <2>1, <2>2
  <2>3. CASE answers'[r] = Append(answers[r], Refused)
    <3>1. Refused \in Nat
      BY DEF Refused
    <3>2. /\ answers'[r] \in Seq(Nat) /\ answers'[r] # <<>>
          /\ DOMAIN answers[r] = 1..Len(answers[r]) /\ Len(answers[r]) \in Nat
          /\ DOMAIN answers'[r] = 1..(Len(answers[r]) + 1)
          /\ answers'[r][Len(answers[r]) + 1] = Refused
          /\ \A n \in 1..Len(answers[r]) : answers'[r][n] = answers[r][n]
      <4>1. Longer(answers[r], Refused, answers'[r])
        BY ONLY <2>1, <2>3, <3>1, AnswerIs
      <4> QED
        BY ONLY <4>1 DEF Longer
    <3>3. \A n \in 1..(Len(answers[r]) + 1) : n # Len(answers[r]) + 1 => n \in 1..Len(answers[r])
      BY <3>2
    <3> QED
      BY <2>1, <3>2, <3>3 DEF OneServer
  <2>4. ASSUME NEW i \in LiveOf(waiters, queue), NEW g \in Nat, waiters[i].req = r,
               answers'[r] = Append(answers[r], g)
        PROVE  answers'[r] \in Seq(Nat) /\ OneServer(answers'[r]) /\ answers'[r] # <<>>
    <3>1. \A n \in DOMAIN answers[r] : answers[r][n] = Refused
      BY <2>4 DEF TrackInv, IsFor
    <3>2. /\ answers'[r] \in Seq(Nat) /\ answers'[r] # <<>>
          /\ DOMAIN answers[r] = 1..Len(answers[r]) /\ Len(answers[r]) \in Nat
          /\ DOMAIN answers'[r] = 1..(Len(answers[r]) + 1)
          /\ \A n \in 1..Len(answers[r]) : answers'[r][n] = answers[r][n]
      <4>1. Longer(answers[r], g, answers'[r])
        BY ONLY <2>1, <2>4, AnswerIs
      <4> QED
        BY ONLY <4>1 DEF Longer
    <3>3. \A n \in 1..(Len(answers[r]) + 1) : n # Len(answers[r]) + 1 => n \in 1..Len(answers[r])
      BY <3>2
    <3> QED
      BY <3>1, <3>2, <3>3 DEF OneServer
  <2>5. AnsweredTo(r)
    BY DEF Goes
  <2> QED
    BY <2>2, <2>3, <2>4, <2>5, <2>1 DEF AnsweredTo
<1>3. RequestsOk'
  <2>1. answers' \in Seq(Seq(Nat)) /\ Len(answers') = Len(asked)
    <3>1. answers' = [r \in 1..Len(asked) |-> answers'[r]]
      BY DEF Goes
    <3>2. answers' \in [1..Len(asked) -> Seq(Nat)]
      BY ONLY <1>2, <3>1
    <3>3. \A S : \A m \in Nat : \A a \in [1..m -> S] : a \in Seq(S) /\ Len(a) = m
      OBVIOUS
    <3> QED
      BY ONLY <1>1, <3>2, <3>3
  <2>2. \A r \in 1..Len(asked) : sess'[asked[r]].phase # "new"
    BY <1>1 DEF TrackInv, RequestsOk, Goes
  <2> QED
    BY <1>1, <2>1, <2>2 DEF RequestsOk
<1>4. ASSUME NEW j \in LiveOf(waiters', queue')  PROVE IsFor(waiters[j])'
  <2>1. PICK i \in LiveOf(waiters, queue) : StandsFor(waiters'[j], waiters[i])
    BY DEF Goes
  <2> DEFINE r == waiters'[j].req
  <2>2. /\ r = waiters[i].req /\ waiters'[j].sess = waiters[i].sess
        /\ waiters'[j].kinum = waiters[i].kinum /\ StillThere(waiters[i])
    BY <2>1 DEF StandsFor, StillThere
  <2>3. /\ r \in 1..Len(asked) /\ waiters'[j].sess = asked[r]
        /\ waiters'[j].kinum = Player[waiters'[j].sess]
        /\ \A n \in DOMAIN answers[r] : answers[r][n] = Refused
    BY <2>2 DEF TrackInv, IsFor
  <2> HIDE DEF r
  <2>4. \A n \in DOMAIN answers'[r] : answers'[r][n] = Refused
    <3>1. AnsweredTo(r) /\ answers[r] \in Seq(Nat)
      BY <1>1, <2>3 DEF Goes
    <3>2. ASSUME NEW k \in LiveOf(waiters, queue), waiters[k].req = r  PROVE StillThere(waiters[k])
      <4>1. k = i
        BY <2>2, <3>2 DEF TrackInv, OneEach
      <4> QED
        BY <2>2, <4>1
    <3>3. answers'[r] = answers[r] \/ answers'[r] = Append(answers[r], Refused)
      BY <3>1, <3>2 DEF AnsweredTo
    <3>4. CASE answers'[r] = answers[r]
      BY <2>3, <3>4
    <3>5. CASE answers'[r] = Append(answers[r], Refused)
      <4>1. /\ DOMAIN answers[r] = 1..Len(answers[r]) /\ Len(answers[r]) \in Nat
            /\ DOMAIN answers'[r] = 1..(Len(answers[r]) + 1)
            /\ answers'[r][Len(answers[r]) + 1] = Refused
            /\ \A n \in 1..Len(answers[r]) : answers'[r][n] = answers[r][n]
        <5>1. Refused \in Nat
          BY DEF Refused
        <5>2. Longer(answers[r], Refused, answers'[r])
          BY ONLY <3>1, <3>5, <5>1, AnswerIs
        <5> QED
          BY ONLY <5>2 DEF Longer
      <4>2. \A n \in 1..(Len(answers[r]) + 1) : n # Len(answers[r]) + 1 => n \in 1..Len(answers[r])
        BY <4>1
      <4> QED
        BY <2>3, <4>1, <4>2
    <3> QED
      BY <3>3, <3>4, <3>5
  <2> QED
    BY <1>1, <2>3, <2>4 DEF IsFor, r
<1>5. TrackInv'
  BY <1>1, <1>2, <1>3, <1>4 DEF TrackInv, Goes
<1>6. ASSUME NEW r \in 1..Len(asked), Waited(r), Outstanding(r)',
             \A i \in LiveOf(waiters, queue) : waiters[i].req = r => Minded(i)
      PROVE  \E j \in LiveOf(waiters', queue') : waiters'[j].req = r
  <2>1. answers'[r] = <<>> /\ sess'[asked[r]].phase = "on"
    BY <1>1, <1>6 DEF Outstanding
  <2>2. answers[r] = <<>> /\ sess[asked[r]].phase = "on"
    BY <1>1, <1>2, <2>1 DEF Goes, TrackInv, RequestsOk
  <2>3. PICK i \in LiveOf(waiters, queue) : waiters[i].req = r
    BY <1>6, <2>2 DEF Waited, Outstanding
  <2>4. waiters[i].sess = asked[r]
    BY <2>3 DEF TrackInv, IsFor
  <2>5. StillThere(waiters[i])
    BY <1>6, <2>1, <2>3, <2>4 DEF Minded
  <2> QED
    BY <2>3, <2>5 DEF StillThere, StandsFor
<1>7. \A r \in 1..Len(asked) :
        (\A i \in LiveOf(waiters, queue) : waiters[i].req = r => Minded(i)) =>
          (Waited(r) => Waited(r)')
  BY <1>6 DEF Waited
<1>8. NoneDropped => WaitersStay
  BY <1>1, <1>7 DEF NoneDropped, WaitersStay
<1> QED
  BY <1>5, <1>7, <1>8

-----------------------------------------------------------------------------
(* The steps                                                               *)

\* A session that was logged in is never new again, nor one that left logged in.
PhasesGoOn ==
  \A s \in Session : sess[s].phase # "new" =>
    sess'[s].phase # "new" /\ (sess'[s].phase = "on" => sess[s].phase = "on")

\* Those that wait after the step stand for some that waited, or for a new request.
FromBefore ==
  \A j \in LiveOf(waiters', queue') :
    \/ \E i \in LiveOf(waiters, queue) : StandsFor(waiters'[j], waiters[i])
    \/ \E s \in Session : FindGame(s) /\ waiters'[j].sess = s

\* No request is taken back.
AskedStay == \A r \in 1..Len(asked) : r \in 1..Len(asked') /\ asked'[r] = asked[r]

\* The step keeps the invariant, and forgets no request.
Keeps == TrackInv' /\ PhasesGoOn /\ AskedStay /\ FromBefore /\ WaitersStay

\* A step that leaves the waiters and the answers alone.
LEMMA ApartIs ==
  ASSUME TrackInv, SessionsOk', PhasesGoOn, UNCHANGED <<waitVars, asked, answers>>
  PROVE  Keeps
<1>1. waiters' = waiters /\ queue' = queue /\ asked' = asked /\ answers' = answers
  BY DEF waitVars
<1>2. answers' = [r \in 1..Len(asked) |-> answers'[r]]
  BY <1>1 DEF TrackInv, RequestsOk
<1>3. Goes /\ NoneDropped
  BY <1>1, <1>2 DEF TrackInv, Goes, PhasesGoOn, AnsweredTo, StandsFor, NoneDropped, Minded, StillThere
<1> QED
  BY <1>3, StepIs DEF Keeps, Goes, FromBefore, PhasesGoOn, AskedStay

\* A step that leaves the sessions alone too.
LEMMA AsideIs ==
  ASSUME TrackInv, UNCHANGED <<sess, waitVars, asked, answers>>
  PROVE  Keeps
<1>1. SessionsOk' /\ PhasesGoOn
  BY DEF TrackInv, SessionsOk, PhasesGoOn
<1> QED
  BY <1>1, ApartIs

\* A login.
LEMMA LoginStep ==
  ASSUME TrackInv, NEW s \in Session, Login(s)
  PROVE  Keeps
<1>1. sess' = [sess EXCEPT ![s].phase = "on"] /\ sess[s].phase = "new"
  BY DEF Login
<1>2. UNCHANGED <<waitVars, asked, answers>>
  BY DEF Login, waitVars, reqVars
<1>3. SessionsOk' /\ PhasesGoOn
  BY <1>1 DEF TrackInv, SessionsOk, PhasesGoOn
<1> QED
  BY <1>2, <1>3, ApartIs

\* The player is known.
LEMMA KiValidateStep ==
  ASSUME TrackInv, NEW s \in Session, KiValidate(s)
  PROVE  Keeps
<1>1. sess' = [sess EXCEPT ![s].kinum = Player[s]]
  BY DEF KiValidate
<1>2. UNCHANGED <<waitVars, asked, answers>>
  BY DEF KiValidate, waitVars, reqVars
<1>3. SessionsOk' /\ PhasesGoOn
  BY <1>1, KiAssumption DEF TrackInv, SessionsOk, PhasesGoOn
<1> QED
  BY <1>2, <1>3, ApartIs

\* A game server tells who joined.
LEMMA PlayerInfoStep ==
  ASSUME TrackInv, NEW g \in GameId, PlayerInfo(g)
  PROVE  Keeps
<1>1. sess' = sess \/ \E s : sess' = [sess EXCEPT ![s].game = g]
  BY DEF PlayerInfo
<1>2. UNCHANGED <<waitVars, asked, answers>>
  BY DEF PlayerInfo, waitVars, reqVars
<1>3. CASE sess' = sess
  BY <1>2, <1>3, AsideIs
<1>4. ASSUME NEW s, sess' = [sess EXCEPT ![s].game = g]  PROVE SessionsOk' /\ PhasesGoOn
  <2>1. g \in Nat
    BY IdAssumption
  <2>2. ASSUME NEW t \in Session
        PROVE  /\ sess'[t] \in [phase : {"new", "on", "left"}, kinum : Ki \cup {NoKi}, game : Nat]
               /\ sess'[t].phase = sess[t].phase /\ sess'[t].kinum = sess[t].kinum
    BY <1>4, <2>1 DEF TrackInv, SessionsOk
  <2>3. sess' = [t \in Session |-> sess'[t]]
    BY <1>4 DEF TrackInv, SessionsOk
  <2> QED
    BY <2>2, <2>3 DEF TrackInv, SessionsOk, PhasesGoOn
<1> QED
  BY <1>1, <1>2, <1>3, <1>4, ApartIs

\* The steps of the dispatcher and of the game servers.
LEMMA ServerStep ==
  ASSUME TrackInv,
         \/ \E g \in GameId : GameAsks(g) \/ Register(g) \/ Drop(g) \/ AskToStop(g) \/ Stop(g)
         \/ \E g \in GameId, k \in Ki : PlayerStep(g, k)
         \/ StartServer \/ RefuseStart \/ StartLost \/ UNCHANGED vars
  PROVE  Keeps
<1>1. UNCHANGED <<sess, waitVars, asked, answers>>
  BY DEF GameAsks, Register, Drop, AskToStop, Stop, PlayerStep, Arrive, Leave, Forget,
         StartServer, RefuseStart, StartLost, vars, loginVars, waitVars, reqVars
<1> QED
  BY <1>1, AsideIs

\* Waiters that are cancelled go; the others stay.
LEMMA CancelledGo ==
  ASSUME TrackInv, NEW S, waiters' = Cancelled(waiters, S), queue' = queue
  PROVE  /\ Kept(waiters', queue') /\ OneEach(waiters', queue')
         /\ \A j \in LiveOf(waiters', queue') :
              \E i \in LiveOf(waiters, queue) : StandsFor(waiters'[j], waiters[i])
         /\ \A i \in LiveOf(waiters, queue) : i \notin S => StillThere(waiters[i])
         /\ \A i \in LiveOf(waiters, queue) : i \in S => ~StillThere(waiters[i])
<1>1. /\ Kept(waiters', queue')
      /\ \A i \in 1..Len(waiters) : StandsFor(waiters'[i], waiters[i])
      /\ LiveOf(waiters', queue') = LiveOf(waiters, queue) \ S
  BY CancelIs DEF TrackInv
<1>2. LiveOf(waiters, queue) \subseteq 1..Len(waiters)
  BY DEF TrackInv, LiveOf, Kept, Within
<1>3. \A i \in LiveOf(waiters, queue) : waiters'[i].req = waiters[i].req
  BY <1>1, <1>2 DEF StandsFor
<1>4. OneEach(waiters', queue')
  BY <1>1, <1>3 DEF TrackInv, OneEach
<1>5. ASSUME NEW i \in LiveOf(waiters, queue), i \in S  PROVE ~StillThere(waiters[i])
  <2>1. ASSUME NEW j \in LiveOf(waiters', queue'), StandsFor(waiters'[j], waiters[i])  PROVE FALSE
    <3>1. j \in LiveOf(waiters, queue) /\ j # i
      BY <1>1, <1>5
    <3>2. waiters[j].req = waiters[i].req
      BY <1>3, <2>1, <3>1 DEF StandsFor
    <3> QED
      BY <3>1, <3>2 DEF TrackInv, OneEach
  <2> QED
    BY <2>1 DEF StillThere
<1> QED
  BY <1>1, <1>2, <1>4, <1>5 DEF StillThere

\* What a step keeps that may forget the requests of a player with two clients.
KeepsBut ==
  /\ TrackInv' /\ PhasesGoOn /\ AskedStay /\ FromBefore
  /\ \A r \in 1..Len(asked') :
       \/ Waited(r)'
       \/ r \in 1..Len(asked) /\ (~Waited(r) \/ TwinQuits(r))

\* A session ends: only its player's waiters go.
LEMMA AuthLeavesStep ==
  ASSUME TrackInv, NEW s \in Session, AuthLeaves(s)
  PROVE  KeepsBut
<1> DEFINE k == sess[s].kinum
<1>1. /\ sess' = [sess EXCEPT ![s] = [phase |-> "left", kinum |-> NoKi, game |-> NoGame]]
      /\ waiters' = Cancelled(waiters, WaitersFor(k)) /\ queue' = queue
      /\ asked' = asked /\ answers' = answers
  BY DEF AuthLeaves, reqVars
<1>2. SessionsOk' /\ PhasesGoOn
  BY <1>1 DEF TrackInv, SessionsOk, PhasesGoOn, NoGame
<1>3. /\ Kept(waiters', queue') /\ OneEach(waiters', queue')
      /\ \A j \in LiveOf(waiters', queue') :
           \E i \in LiveOf(waiters, queue) : StandsFor(waiters'[j], waiters[i])
      /\ \A i \in LiveOf(waiters, queue) : i \notin WaitersFor(k) => StillThere(waiters[i])
  <2> HIDE DEF k
  <2> QED
    BY <1>1, CancelledGo
<1>4. Goes
  <2>1. answers' = [r \in 1..Len(asked) |-> answers'[r]]
    BY <1>1 DEF TrackInv, RequestsOk
  <2> QED
    BY <1>1, <1>2, <1>3, <2>1 DEF Goes, PhasesGoOn, AnsweredTo
<1>5. ASSUME NEW r \in 1..Len(asked), ~TwinQuits(r), Waited(r)  PROVE Waited(r)'
  <2>1. ASSUME NEW i \in LiveOf(waiters, queue), waiters[i].req = r, ~StillThere(waiters[i])
        PROVE  sess'[waiters[i].sess].phase # "on"
    <3>1. i \in WaitersFor(k)
      BY <1>3, <2>1
    <3>2. waiters[i].kinum = k
      BY <3>1 DEF WaitersFor
    <3>3. /\ waiters[i].kinum = Player[waiters[i].sess] /\ waiters[i].sess \in Session
          /\ waiters[i].sess = asked[r]
      BY <2>1 DEF TrackInv, IsFor, RequestsOk
    <3>4. k \in Ki
      BY <3>2, <3>3, KiAssumption
    <3>5. k = Player[s]
      BY <3>4, KiAssumption DEF TrackInv, SessionsOk
    <3>6. sess[s].phase = "on" /\ sess'[s].phase = "left"
      BY <1>1 DEF AuthLeaves, Online, TrackInv, SessionsOk
    <3>7. waiters[i].sess = s
      BY <1>5, <3>2, <3>3, <3>5, <3>6 DEF TwinQuits
    <3> QED
      BY <3>6, <3>7
  <2>2. \A i \in LiveOf(waiters, queue) : waiters[i].req = r => Minded(i)
    BY <2>1 DEF Minded
  <2> QED
    BY <1>2, <1>4, <1>5, <2>2, StepIs
<1>6. TrackInv' /\ PhasesGoOn /\ FromBefore
  BY <1>2, <1>4, StepIs DEF Goes, FromBefore
<1> QED
  BY <1>1, <1>5, <1>6 DEF KeepsBut, AskedStay

\* A server cannot be started: all that wait are told, if they are there.
LEMMA StartFailedStep ==
  ASSUME TrackInv, StartFailed
  PROVE  Keeps
<1>1. /\ sess' = sess /\ queue' = queue /\ asked' = asked
      /\ waiters' = Cancelled(waiters, Live)
      /\ answers' = [r \in DOMAIN answers |->
           IF \E i \in Live : waiters[i].req = r /\ waiters[i].sess \in Online
             THEN Append(answers[r], Refused) ELSE answers[r]]
  BY DEF StartFailed, loginVars
<1>2. Live = LiveOf(waiters, queue) /\ DOMAIN answers = 1..Len(asked)
      /\ \A r \in 1..Len(asked) : answers[r] \in Seq(Nat)
  BY LiveIs DEF TrackInv, RequestsOk
<1>3. /\ Kept(waiters', queue') /\ OneEach(waiters', queue')
      /\ \A j \in LiveOf(waiters', queue') :
           \E i \in LiveOf(waiters, queue) : StandsFor(waiters'[j], waiters[i])
  BY <1>1, CancelledGo
<1>4. \A r \in 1..Len(asked) : answers'[r] = answers[r] \/ answers'[r] = Append(answers[r], Refused)
  BY <1>1, <1>2
<1>5. SessionsOk'
  BY <1>1 DEF TrackInv, SessionsOk
<1>6. Goes
  BY <1>1, <1>2, <1>3, <1>4 DEF Goes, AnsweredTo
<1>7. NoneDropped
  <2>1. ASSUME NEW i \in LiveOf(waiters, queue), sess[waiters[i].sess].phase = "on"
        PROVE  answers'[waiters[i].req] # <<>>
    <3>1. waiters[i].req \in 1..Len(asked) /\ waiters[i].sess \in Session
      BY DEF TrackInv, IsFor, RequestsOk
    <3>2. waiters[i].sess \in Online
      BY <2>1, <3>1 DEF Online
    <3>3. answers'[waiters[i].req] = Append(answers[waiters[i].req], Refused)
      BY <1>1, <1>2, <3>1, <3>2
    <3>4. answers[waiters[i].req] \in Seq(Nat) /\ Refused \in Nat
      BY <1>2, <3>1 DEF Refused
    <3>5. Longer(answers[waiters[i].req], Refused, answers'[waiters[i].req])
      BY ONLY <3>3, <3>4, AnswerIs
    <3> QED
      BY <3>5 DEF Longer
  <2> QED
    BY <1>1, <2>1 DEF NoneDropped, Minded
<1> QED
  BY <1>5, <1>6, <1>7, StepIs DEF Keeps, Goes, FromBefore, PhasesGoOn, AskedStay

\* The waiters that are due are told, if they are there.
LEMMA WaitersTimeOutStep ==
  ASSUME TrackInv, WaitersTimeOut
  PROVE  Keeps
<1>1. PICK oldest \in ToSet(queue) :
        /\ sess' = sess /\ waiters' = waiters /\ asked' = asked
        /\ queue' = Left(oldest)
        /\ answers' = [r \in DOMAIN answers |->
             IF \E i \in {j \in Live : j <= oldest /\ waiters[j].sess \in Online} : waiters[i].req = r
               THEN Append(answers[r], Refused) ELSE answers[r]]
  BY DEF WaitersTimeOut, loginVars
<1>2. Live = LiveOf(waiters, queue) /\ DOMAIN answers = 1..Len(asked)
      /\ \A r \in 1..Len(asked) : answers[r] \in Seq(Nat)
  BY LiveIs DEF TrackInv, RequestsOk
<1>3. /\ Kept(waiters, queue') /\ Within(queue') \subseteq Within(queue)
      /\ \A i \in Within(queue) \ Within(queue') : i <= oldest \/ waiters[i].cancelled
  BY <1>1, LeftIs DEF TrackInv, LeftOf
<1>4. LiveOf(waiters, queue') \subseteq LiveOf(waiters, queue)
      /\ \A i \in LiveOf(waiters, queue) : i \notin LiveOf(waiters, queue') => i <= oldest
  BY <1>3 DEF LiveOf
<1>5. \A r \in 1..Len(asked) : answers'[r] = answers[r] \/ answers'[r] = Append(answers[r], Refused)
  BY <1>1, <1>2
<1>6. SessionsOk'
  BY <1>1 DEF TrackInv, SessionsOk
<1>7. Goes
  <2>1. OneEach(waiters, queue')
    BY <1>4 DEF TrackInv, OneEach
  <2>2. \A j \in LiveOf(waiters, queue') : \E i \in LiveOf(waiters, queue) : StandsFor(waiters[j], waiters[i])
    BY <1>4 DEF StandsFor
  <2> QED
    BY <1>1, <1>2, <1>3, <1>5, <2>1, <2>2 DEF Goes, AnsweredTo
<1>8. NoneDropped
  <2>1. ASSUME NEW i \in LiveOf(waiters, queue), i \notin LiveOf(waiters, queue'),
               sess[waiters[i].sess].phase = "on"
        PROVE  answers'[waiters[i].req] # <<>>
    <3>1. waiters[i].req \in 1..Len(asked) /\ waiters[i].sess \in Session
      BY DEF TrackInv, IsFor, RequestsOk
    <3>2. waiters[i].sess \in Online
      BY <2>1, <3>1 DEF Online
    <3>3. answers'[waiters[i].req] = Append(answers[waiters[i].req], Refused)
      BY <1>1, <1>2, <1>4, <2>1, <3>1, <3>2
    <3>4. answers[waiters[i].req] \in Seq(Nat) /\ Refused \in Nat
      BY <1>2, <3>1 DEF Refused
    <3>5. Longer(answers[waiters[i].req], Refused, answers'[waiters[i].req])
      BY ONLY <3>3, <3>4, AnswerIs
    <3> QED
      BY <3>5 DEF Longer
  <2> QED
    BY <1>1, <2>1 DEF NoneDropped, Minded, StillThere, StandsFor
<1> QED
  BY <1>6, <1>7, <1>8, StepIs DEF Keeps, Goes, FromBefore, PhasesGoOn, AskedStay

\* A game server ends: one that waits may be told that there is no other.
LEMMA GameLeavesStep ==
  ASSUME TrackInv, NEW g \in GameId, GameLeaves(g)
  PROVE  Keeps
<1>1. /\ sess' = sess /\ waiters' = waiters /\ queue' = queue /\ asked' = asked
      /\ answers' = answers \/ \E r : answers' = [answers EXCEPT ![r] = Append(@, Refused)]
  BY DEF GameLeaves, loginVars, waitVars, Answer
<1>2. answers \in Seq(Seq(Nat)) /\ DOMAIN answers = 1..Len(asked)
      /\ \A r \in 1..Len(asked) : answers[r] \in Seq(Nat)
  BY DEF TrackInv, RequestsOk
<1>3. /\ answers' = [r \in 1..Len(asked) |-> answers'[r]]
      /\ \A r \in 1..Len(asked) : answers'[r] = answers[r] \/ answers'[r] = Append(answers[r], Refused)
  BY <1>1, <1>2
<1>4. SessionsOk'
  BY <1>1 DEF TrackInv, SessionsOk
<1>5. Goes /\ NoneDropped
  BY <1>1, <1>3, <1>4 DEF TrackInv, Goes, AnsweredTo, StandsFor, NoneDropped, Minded, StillThere
<1> QED
  BY <1>4, <1>5, StepIs DEF Keeps, Goes, FromBefore, PhasesGoOn, AskedStay

\* The waiters are there for the same after a step that answers nobody.
LEMMA SameIs ==
  ASSUME TrackInv, SameWaiters(waiters, queue, waiters', queue'),
         UNCHANGED <<sess, asked, answers>>
  PROVE  Keeps
<1>1. SessionsOk'
  BY DEF TrackInv, SessionsOk
<1>2. answers' = [r \in 1..Len(asked) |-> answers'[r]]
  BY DEF TrackInv, RequestsOk
<1>3. Goes /\ NoneDropped
  BY <1>2 DEF SameWaiters, Goes, AnsweredTo, NoneDropped, Minded, StillThere
<1> QED
  BY <1>1, <1>3, StepIs DEF Keeps, Goes, FromBefore, PhasesGoOn, AskedStay

\* A new game server: all that wait start over.
LEMMA HelloStep ==
  ASSUME TrackInv, NEW g \in GameId, Hello(g)
  PROVE  Keeps
<1> DEFINE l == LiveIn(waiters, queue)
           a == FoldLeft(Renew, [ws |-> waiters, q |-> queue], l)
<1>1. /\ waiters' = a.ws /\ queue' = a.q
      /\ UNCHANGED <<sess, asked, answers>>
  BY DEF Hello, loginVars, reqVars
<1>2. Kept(waiters, queue) /\ OneEach(waiters, queue)
  BY DEF TrackInv
<1>3. l = LiveIn(waiters, queue)
  OBVIOUS
<1>4. a = FoldLeft(Renew, [ws |-> waiters, q |-> queue], l)
  OBVIOUS
<1> HIDE DEF l
<1>5. l \in Seq(1..Len(waiters)) /\ Once(l) /\ Within(l) = LiveOf(waiters, queue)
  BY ONLY <1>2, <1>3, LiveInIs
<1> HIDE DEF a
<1>6. SameWaiters(waiters, queue, a.ws, a.q)
  BY ONLY <1>2, <1>4, <1>5, AllRenewed
<1> QED
  BY <1>1, <1>6, SameIs

\* An acknowledgement: the first that waits goes, is answered, or starts over.
LEMMA AckStep ==
  ASSUME TrackInv, NEW g \in GameId, Ack(g)
  PROVE  Keeps
<1> DEFINE l == LiveIn(waiters, queue)
           i == l[1]
           w == waiters[i]
           a == Renew([ws |-> waiters, q |-> queue], i)
<1>1. /\ sess' = sess /\ asked' = asked
      /\ \/ UNCHANGED <<waitVars, answers>>
         \/ /\ l # <<>> /\ w.sess \notin Online
            /\ waiters' = Cancelled(waiters, {i}) /\ queue' = queue /\ answers' = answers
         \/ /\ l # <<>> /\ waiters' = Cancelled(waiters, {i}) /\ queue' = queue
            /\ answers' = [answers EXCEPT ![w.req] = Append(@, g)]
         \/ l # <<>> /\ waiters' = a.ws /\ queue' = a.q /\ answers' = answers
  BY DEF Ack, loginVars, reqVars, Taken, Answer
<1>2. Kept(waiters, queue) /\ OneEach(waiters, queue)
  BY DEF TrackInv
<1>3. l = LiveIn(waiters, queue)
  OBVIOUS
<1>4. ASSUME l # <<>>  PROVE i \in LiveOf(waiters, queue) /\ i \in 1..Len(waiters)
  <2> HIDE DEF l
  <2>1. l \in Seq(1..Len(waiters)) /\ Within(l) = LiveOf(waiters, queue)
    BY ONLY <1>2, <1>3, LiveInIs
  <2>2. 1 \in DOMAIN l /\ l[1] \in 1..Len(waiters)
    BY <1>4, <2>1
  <2> QED
    BY <2>1, <2>2 DEF Within
<1>5. SessionsOk' /\ PhasesGoOn
  BY <1>1 DEF TrackInv, SessionsOk, PhasesGoOn
<1>6. answers \in Seq(Seq(Nat)) /\ DOMAIN answers = 1..Len(asked) /\ g \in Nat
  BY IdAssumption DEF TrackInv, RequestsOk
<1> HIDE DEF l
<1>7. CASE UNCHANGED <<waitVars, answers>>
  BY <1>1, <1>7, AsideIs DEF waitVars
<1>8. ASSUME l # <<>>, waiters' = Cancelled(waiters, {i}), queue' = queue,
             \/ w.sess \notin Online /\ answers' = answers
             \/ answers' = [answers EXCEPT ![w.req] = Append(@, g)]
      PROVE  Keeps
  <2>1. i \in LiveOf(waiters, queue)
    BY <1>4, <1>8
  <2>2. /\ w.req \in 1..Len(asked) /\ answers[w.req] \in Seq(Nat)
        /\ w.sess \in Session
    BY <2>1, <1>6, SMTT(30) DEF TrackInv, IsFor, RequestsOk
  <2> HIDE DEF i
  <2>3. /\ Kept(waiters', queue') /\ OneEach(waiters', queue')
        /\ \A j \in LiveOf(waiters', queue') :
             \E k \in LiveOf(waiters, queue) : StandsFor(waiters'[j], waiters[k])
        /\ \A k \in LiveOf(waiters, queue) : k \notin {i} => StillThere(waiters[k])
        /\ \A k \in LiveOf(waiters, queue) : k \in {i} => ~StillThere(waiters[k])
    BY <1>8, CancelledGo
  <2>4. /\ answers' = [r \in 1..Len(asked) |-> answers'[r]]
        /\ \A r \in 1..Len(asked) : answers'[r] = answers[r] \/ (r = w.req /\ answers'[r] = Append(answers[r], g))
    BY <1>6, <1>8, SMTT(30)
  <2>5. \A r \in 1..Len(asked) : AnsweredTo(r)
    BY <1>6, <2>1, <2>3, <2>4 DEF AnsweredTo
  <2>6. Goes
    BY <1>1, <1>5, <2>3, <2>4, <2>5 DEF Goes, PhasesGoOn
  <2>7. sess'[w.sess].phase # "on" \/ answers'[w.req] # <<>>
    <3>1. CASE w.sess \notin Online
      BY <1>1, <2>2, <3>1 DEF Online
    <3>2. CASE answers' = [answers EXCEPT ![w.req] = Append(@, g)]
      <4>1. answers'[w.req] = Append(answers[w.req], g)
        BY <1>6, <2>2, <3>2
      <4>2. Longer(answers[w.req], g, answers'[w.req])
        BY ONLY <1>6, <2>2, <4>1, AnswerIs
      <4> QED
        BY <4>2 DEF Longer
    <3> QED
      BY <1>8, <3>1, <3>2
  <2>8. NoneDropped
    BY <2>3, <2>7 DEF NoneDropped, Minded
  <2> QED
    BY <1>5, <2>6, <2>8, StepIs DEF Keeps, Goes, FromBefore, PhasesGoOn, AskedStay
<1>9. ASSUME l # <<>>, waiters' = a.ws, queue' = a.q, answers' = answers
      PROVE  Keeps
  <2>1. i \in LiveOf(waiters, queue) /\ i \in 1..Len(waiters)
    BY <1>4, <1>9
  <2>2. a = Renew([ws |-> waiters, q |-> queue], i)
    OBVIOUS
  <2> HIDE DEF i, a
  <2>3. RenewedTo(waiters, queue, i, a.ws, a.q)
    BY ONLY <1>2, <2>1, <2>2, RenewIs
  <2>4. SameWaiters(waiters, queue, a.ws, a.q)
    BY ONLY <1>2, <2>1, <2>3, RenewedIsSame
  <2> QED
    BY <1>1, <1>9, <2>4, SameIs
<1> QED
  BY <1>1, <1>7, <1>8, <1>9

\* A request: it is refused at once, or has a waiter.
LEMMA FindGameStep ==
  ASSUME TrackInv, NEW s \in Session, FindGame(s)
  PROVE  Keeps
<1> DEFINE n == Len(asked)
           w == [sess |-> s, req |-> n + 1, kinum |-> sess[s].kinum, cancelled |-> FALSE]
<1>1. /\ sess' = sess /\ asked' = Append(asked, s)
      /\ sess[s].phase = "on" /\ sess[s].kinum # NoKi
      /\ \/ answers' = Append(answers, <<Refused>>) /\ UNCHANGED waitVars
         \/ answers' = Append(answers, <<>>) /\ AddWaiter(s, Len(asked'))
  BY DEF FindGame, loginVars, Online
<1>2. /\ asked \in Seq(Session) /\ answers \in Seq(Seq(Nat)) /\ Len(answers) = n /\ n \in Nat
      /\ Kept(waiters, queue) /\ OneEach(waiters, queue)
      /\ \A i \in LiveOf(waiters, queue) : IsFor(waiters[i])
      /\ \A r \in 1..n : OneServer(answers[r])
      /\ \A r \in 1..n : sess[asked[r]].phase # "new" /\ asked[r] \in Session
  BY DEF TrackInv, RequestsOk
<1>3. /\ asked' \in Seq(Session) /\ Len(asked') = n + 1 /\ asked'[n + 1] = s
      /\ \A r \in 1..n : asked'[r] = asked[r]
  BY <1>1, <1>2
<1>4. PICK e \in Seq(Nat) :
        /\ answers' = Append(answers, e) /\ OneServer(e)
        /\ \/ e # <<>> /\ UNCHANGED waitVars
           \/ e = <<>> /\ AddWaiter(s, Len(asked'))
  <2>1. <<Refused>> \in Seq(Nat) /\ <<Refused>> # <<>> /\ OneServer(<<Refused>>)
    BY DEF OneServer, Refused
  <2>2. <<>> \in Seq(Nat) /\ OneServer(<<>>)
    BY DEF OneServer
  <2> QED
    BY <1>1, <2>1, <2>2
<1>5. /\ answers' \in Seq(Seq(Nat)) /\ Len(answers') = n + 1 /\ answers'[n + 1] = e
      /\ \A r \in 1..n : answers'[r] = answers[r]
  BY <1>2, <1>4
<1>6. w \in WaiterRecord /\ w.req = n + 1 /\ w.sess = s /\ w.kinum = Player[s] /\ ~w.cancelled
  BY <1>1, <1>2, KiAssumption DEF TrackInv, SessionsOk, WaiterRecord
<1>7. \A r \in 1..(n + 1) : r # n + 1 => r \in 1..n
  BY <1>2
<1>w. ASSUME e = <<>>, AddWaiter(s, Len(asked'))  PROVE AddedTo(waiters, queue, w, waiters', queue')
  <2>1. waiters' = Append(waiters, w) /\ queue' = Push(queue, Age(waiters'), Len(waiters'))
    BY <1>3, <1>w DEF AddWaiter
  <2> HIDE DEF w
  <2> QED
    BY <1>2, <1>6, <2>1, AddIs
<1>c. n + 1 \in 1..(n + 1) /\ 1..n \subseteq 1..(n + 1)
  BY <1>2
<1> HIDE DEF n, w
<1>8. SessionsOk' /\ RequestsOk'
  <2>1. SessionsOk'
    BY <1>1 DEF TrackInv, SessionsOk
  <2>2. \A r \in 1..(n + 1) : sess'[asked'[r]].phase # "new"
    BY <1>1, <1>2, <1>3, <1>7
  <2> QED
    BY <1>3, <1>5, <2>1, <2>2 DEF RequestsOk
<1>9. \A r \in 1..Len(asked') : OneServer(answers'[r])
  BY <1>2, <1>3, <1>4, <1>5, <1>7
<1>10. ASSUME NEW u, IsFor(u)
       PROVE  /\ u.req \in 1..n /\ u.req \in 1..Len(asked') /\ u.sess = asked'[u.req]
              /\ u.kinum = Player[u.sess]
              /\ \A m \in DOMAIN answers'[u.req] : answers'[u.req][m] = Refused
  BY <1>3, <1>5, <1>10, <1>c DEF IsFor, n
<1>11. CASE e # <<>> /\ UNCHANGED waitVars
  <2>1. waiters' = waiters /\ queue' = queue
    BY <1>11 DEF waitVars
  <2>2. TrackInv'
    BY <1>2, <1>8, <1>9, <1>10, <2>1 DEF TrackInv, IsFor
  <2>3. ASSUME NEW r \in 1..(n + 1), r \in 1..n => Waited(r), Outstanding(r)'
        PROVE  \E i \in LiveOf(waiters, queue) : waiters[i].req = r
    <3>1. answers'[r] = <<>> /\ sess'[asked'[r]].phase = "on"
      BY <2>3 DEF Outstanding
    <3>2. r \in 1..n
      BY <1>5, <1>7, <1>11, <3>1
    <3>3. answers[r] = <<>> /\ sess[asked[r]].phase = "on"
      BY <1>1, <1>3, <1>5, <3>1, <3>2
    <3> QED
      BY <2>3, <3>2, <3>3 DEF Waited, Outstanding
  <2>4. WaitersStay
    BY <1>3, <2>1, <2>3 DEF WaitersStay, Waited, n
  <2>5. PhasesGoOn /\ AskedStay
    BY <1>1, <1>3, <1>c DEF PhasesGoOn, AskedStay, n
  <2> QED
    BY <2>1, <2>2, <2>4, <2>5 DEF Keeps, FromBefore, StandsFor
<1>12. CASE e = <<>> /\ AddWaiter(s, Len(asked'))
  <2> DEFINE m == Len(waiters) + 1
  <2>1. /\ Kept(waiters', queue') /\ waiters'[m] = w
        /\ \A i \in 1..Len(waiters) : waiters'[i] = waiters[i]
        /\ Within(queue') = Within(queue) \cup {m}
        /\ Within(queue) \subseteq 1..Len(waiters)
    BY <1>12, <1>w DEF AddedTo
  <2> HIDE DEF m
  <2>2. LiveOf(waiters', queue') = LiveOf(waiters, queue) \cup {m}
    BY <1>6, <2>1 DEF LiveOf
  <2>3. \A i \in LiveOf(waiters, queue) : waiters'[i] = waiters[i]
    BY <2>1 DEF LiveOf
  <2>4. \A i \in LiveOf(waiters, queue) : waiters'[i].req # n + 1
    <3>1. \A i \in LiveOf(waiters, queue) : waiters'[i].req \in 1..n
      BY <1>2, <1>10, <2>3
    <3>2. n + 1 \notin 1..n
      BY <1>2
    <3> QED
      BY <3>1, <3>2
  <2>5. OneEach(waiters', queue')
    BY <1>2, <1>6, <2>1, <2>2, <2>3, <2>4 DEF OneEach
  <2>6. ASSUME NEW i \in LiveOf(waiters', queue')  PROVE IsFor(waiters[i])'
    <3>1. CASE i \in LiveOf(waiters, queue)
      <4>1. IsFor(waiters[i]) /\ waiters'[i] = waiters[i]
        BY <1>2, <2>3, <3>1
      <4> DEFINE u == waiters'[i]
      <4>2. /\ u.req \in 1..Len(asked') /\ u.sess = asked'[u.req] /\ u.kinum = Player[u.sess]
            /\ \A a \in DOMAIN answers'[u.req] : answers'[u.req][a] = Refused
        BY <1>10, <4>1
      <4> QED
        BY <4>2 DEF IsFor
    <3>2. CASE i = m
      <4>1. waiters'[i] = w
        BY <2>1, <3>2
      <4>2. DOMAIN answers'[n + 1] = {}
        BY <1>5, <1>12
      <4> DEFINE u == waiters'[i]
      <4>3. u.req = n + 1 /\ u.sess = s /\ u.kinum = Player[s]
        BY <1>6, <4>1
      <4>4. /\ u.req \in 1..Len(asked') /\ u.sess = asked'[u.req] /\ u.kinum = Player[u.sess]
            /\ \A a \in DOMAIN answers'[u.req] : answers'[u.req][a] = Refused
        BY <1>3, <1>c, <4>2, <4>3
      <4> QED
        BY <4>4 DEF IsFor
    <3> QED
      BY <2>2, <3>1, <3>2
  <2>7. TrackInv'
    BY <1>8, <1>9, <2>1, <2>5, <2>6 DEF TrackInv
  <2>8. ASSUME NEW r \in 1..(n + 1), r \in 1..n => Waited(r), Outstanding(r)'
        PROVE  \E i \in LiveOf(waiters', queue') : waiters'[i].req = r
    <3>1. CASE r = n + 1
      BY <1>6, <2>1, <2>2, <3>1
    <3>2. CASE r \in 1..n
      <4>1. answers[r] = <<>> /\ sess[asked[r]].phase = "on"
        BY <1>1, <1>3, <1>5, <2>8, <3>2 DEF Outstanding
      <4>2. PICK i \in LiveOf(waiters, queue) : waiters[i].req = r
        BY <2>8, <3>2, <4>1 DEF Waited, Outstanding
      <4> QED
        BY <2>2, <2>3, <4>2
    <3> QED
      BY <1>7, <3>1, <3>2
  <2>9. FromBefore
    <3>1. \A j \in LiveOf(waiters', queue') : j \in LiveOf(waiters, queue) \/ waiters'[j].sess = s
      BY <1>6, <2>1, <2>2
    <3> QED
      BY <2>3, <3>1 DEF FromBefore, StandsFor
  <2>10. WaitersStay
    BY <1>3, <2>8 DEF WaitersStay, Waited, n
  <2>11. PhasesGoOn /\ AskedStay
    BY <1>1, <1>3, <1>c DEF PhasesGoOn, AskedStay, n
  <2> QED
    BY <2>7, <2>9, <2>10, <2>11 DEF Keeps
<1> QED
  BY <1>4, <1>11, <1>12

\* Every step keeps the invariant; none but the end of a session of a player
\* that is at another client too forgets a request.
LEMMA NextStep ==
  ASSUME TrackInv, [Next]_vars
  PROVE  KeepsBut
<1>0. Keeps => KeepsBut
  BY DEF Keeps, KeepsBut, WaitersStay
<1>1. CASE UNCHANGED vars
  BY <1>0, <1>1, ServerStep
<1>2. ASSUME NEW s \in Session, SessionStep(s)
      PROVE  KeepsBut
  BY <1>0, <1>2, LoginStep, KiValidateStep, FindGameStep, AuthLeavesStep DEF SessionStep
<1>3. ASSUME NEW g \in GameId, TrackerStep(g) \/ Register(g) \/ Drop(g) \/ AskToStop(g) \/ Stop(g)
      PROVE  Keeps
  <2>1. CASE TrackerStep(g)
    BY <2>1, HelloStep, AckStep, PlayerInfoStep, GameLeavesStep, ServerStep DEF TrackerStep
  <2>2. CASE Register(g) \/ Drop(g) \/ AskToStop(g) \/ Stop(g)
    BY <2>2, ServerStep
  <2> QED
    BY <1>3, <2>1, <2>2
<1>4. CASE \E g \in GameId, k \in Ki : PlayerStep(g, k)
  BY <1>0, <1>4, ServerStep
<1>5. CASE StartFailed \/ WaitersTimeOut \/ StartServer \/ RefuseStart \/ StartLost
  BY <1>0, <1>5, StartFailedStep, WaitersTimeOutStep, ServerStep
<1> QED
  BY <1>0, <1>1, <1>2, <1>3, <1>4, <1>5 DEF Next

\* The invariant holds at first.
LEMMA InitHolds ==
  ASSUME Init
  PROVE  TrackInv /\ Covered
<1>1. /\ sess = [s \in Session |-> [phase |-> "new", kinum |-> NoKi, game |-> NoGame]]
      /\ waiters = <<>> /\ queue = <<>> /\ asked = <<>> /\ answers = <<>>
  BY DEF Init
<1>2. SessionsOk
  BY <1>1 DEF SessionsOk, NoGame
<1>3. Len(asked) = 0 /\ 1..Len(asked) = {}
  BY <1>1
<1>4. Kept(waiters, queue) /\ LiveOf(waiters, queue) = {}
  <2>1. <<>> \in Seq(WaiterRecord) /\ <<>> \in Seq(1..Len(waiters)) /\ DOMAIN <<>> = {}
    OBVIOUS
  <2> QED
    BY <1>1, <2>1 DEF Kept, LiveOf, Once, Within
<1>5. RequestsOk
  <2>1. <<>> \in Seq(Session) /\ <<>> \in Seq(Seq(Nat)) /\ Len(answers) = 0
    BY <1>1
  <2> QED
    BY <1>1, <1>3, <2>1 DEF RequestsOk
<1> QED
  BY <1>2, <1>3, <1>4, <1>5 DEF TrackInv, OneEach, Covered

-----------------------------------------------------------------------------
(* What tracking promises                                                  *)

\* The waiters in the timer queue that are not cancelled are, at every step,
\* for requests that were sent nowhere, one for each at most, and no answer but
\* one names a server.
THEOREM WaitersAreForRequests == Spec => []TrackInv
<1>1. Init => TrackInv
  BY InitHolds
<1>2. TrackInv /\ [Next]_vars => TrackInv'
  BY NextStep DEF KeepsBut
<1> QED
  BY <1>1, <1>2, PTL DEF Spec

\* A set in which any two are the same has one element at most.
LEMMA AtMostOne ==
  ASSUME NEW S, \A x, y \in S : x = y
  PROVE  Cardinality(S) <= 1
<1>1. CASE S = {}
  <2>1. Cardinality(S) = 0
    BY <1>1, FS_EmptySet
  <2> QED
    BY <2>1
<1>2. CASE S # {}
  <2>1. PICK x \in S : S = {x}
    BY <1>2
  <2>2. Cardinality(S) = 1
    BY <2>1, FS_Singleton
  <2> QED
    BY <2>2
<1> QED
  BY <1>1, <1>2

\* No client is told twice, for one request, to go to a game server, however
\* often game servers refuse, stop, are replaced, or acknowledge a player that
\* another waiter stands for.
THEOREM NobodyIsSentTwice == Spec => []SentOnce
<1>1. TrackInv => SentOnce
  <2>1. ASSUME TrackInv, NEW r \in DOMAIN answers
        PROVE  Cardinality({n \in DOMAIN answers[r] : answers[r][n] # Refused}) <= 1
    <3>1. r \in 1..Len(asked)
      BY <2>1 DEF TrackInv, RequestsOk
    <3>2. OneServer(answers[r])
      BY <2>1, <3>1 DEF TrackInv
    <3> QED
      BY <3>2, AtMostOne DEF OneServer
  <2> QED
    BY <2>1 DEF SentOnce
<1> QED
  BY <1>1, WaitersAreForRequests, PTL

\* No request is waited for twice.
NoneTwice == \A r \in DOMAIN asked : Cardinality(WaitersOf(r)) <= 1

\* What is not cancelled is for one request each.
LEMMA TrackInvNoneTwice == TrackInv => NoneTwice
<1>1. ASSUME TrackInv, NEW r \in DOMAIN asked  PROVE Cardinality(WaitersOf(r)) <= 1
  <2>1. Live = LiveOf(waiters, queue)
    BY <1>1, LiveIs DEF TrackInv
  <2>2. \A i, j \in WaitersOf(r) : i = j
    BY <1>1, <2>1 DEF TrackInv, OneEach, WaitersOf
  <2> QED
    BY <2>2, AtMostOne
<1> QED
  BY <1>1 DEF NoneTwice

\* Whoever the players are, a waiter that is replaced when a server comes up or
\* refuses (TRACK_GAME_HELLO, TRACK_ADD_PLAYER) does not wait beside the new one.
THEOREM NoRequestIsWaitedForTwice == Spec => []NoneTwice
  BY WaitersAreForRequests, TrackInvNoneTwice, PTL

\* A client that quit does not come back: what was excepted stays so.
LEMMA CoveredStep ==
  ASSUME TrackInv, Covered, KeepsBut
  PROVE  Covered'
<1>1. ASSUME NEW s \in Session, sess[s].phase = "left"  PROVE sess'[s].phase = "left"
  <2>1. sess'[s].phase \in {"new", "on", "left"}
    BY DEF KeepsBut, TrackInv, SessionsOk
  <2> QED
    BY <1>1, <2>1 DEF KeepsBut, PhasesGoOn
<1>2. ASSUME NEW r \in 1..Len(asked), TwinQuit(r) \/ TwinQuits(r)  PROVE TwinQuit(r)'
  BY <1>1, <1>2 DEF TwinQuit, TwinQuits, KeepsBut, AskedStay
<1>3. ASSUME NEW r \in 1..Len(asked')  PROVE TwinQuit(r)' \/ Waited(r)'
  BY <1>2 DEF Covered, KeepsBut
<1> QED
  BY <1>3 DEF Covered

\* Every request of a client that is there is answered or has a waiter, and
\* never two, unless another client of the same player has quit.
THEOREM RequestsAreWaitedFor == Spec => []OneWaiterPerRequest
<1>1. Init => TrackInv /\ Covered
  BY InitHolds
<1>2. TrackInv /\ Covered /\ [Next]_vars => (TrackInv /\ Covered)'
  BY NextStep, CoveredStep DEF KeepsBut
<1>3. TrackInv /\ Covered => OneWaiterPerRequest
  <2>1. ASSUME TrackInv, Covered, NEW r \in DOMAIN asked, Outstanding(r), ~TwinQuit(r)
        PROVE  WaitersOf(r) # {}
    <3>1. Live = LiveOf(waiters, queue)
      BY <2>1, LiveIs DEF TrackInv
    <3>2. r \in 1..Len(asked)
      BY <2>1 DEF TrackInv, RequestsOk
    <3> QED
      BY <2>1, <3>1, <3>2 DEF Covered, Waited, WaitersOf
  <2> QED
    BY <2>1, TrackInvNoneTwice DEF OneWaiterPerRequest, NoneTwice
<1> QED
  BY <1>1, <1>2, <1>3, PTL DEF Spec

\* A request of a client that is there, not answered, and that nothing waits for.
Forgotten(r) == Outstanding(r) /\ WaitersOf(r) = {}

\* It is one that is not waited for, in the terms of the invariant.
LEMMA ForgottenIs == TrackInv => \A r \in DOMAIN asked : Waited(r) <=> ~Forgotten(r)
<1> SUFFICES ASSUME TrackInv  PROVE \A r \in DOMAIN asked : Waited(r) <=> ~Forgotten(r)
  OBVIOUS
<1> QED
  BY LiveIs DEF TrackInv, Waited, Forgotten, WaitersOf

\* No request is made without a waiter or an answer, and none loses its waiter
\* unanswered, whatever servers, dispatchers and time-outs do, but in the one
\* step in which another client of the same player quits.
THEOREM OnlyTwinsForget ==
  Spec => [][\A r \in DOMAIN asked' :
               Forgotten(r)' => r \in DOMAIN asked /\ (Forgotten(r) \/ TwinQuits(r))]_vars
<1> DEFINE Step ==
      \A r \in DOMAIN asked' :
        Forgotten(r)' => r \in DOMAIN asked /\ (Forgotten(r) \/ TwinQuits(r))
<1>1. TrackInv => \A r \in DOMAIN asked : Waited(r) <=> ~Forgotten(r)
  BY ForgottenIs
<1>2. (TrackInv => \A r \in DOMAIN asked : Waited(r) <=> ~Forgotten(r))'
  BY ForgottenIs, PTL
<1>3. ASSUME TrackInv  PROVE DOMAIN asked = 1..Len(asked)
  BY <1>3 DEF TrackInv, RequestsOk
<1>4. ASSUME TrackInv'  PROVE DOMAIN asked' = 1..Len(asked')
  BY <1>4 DEF TrackInv, RequestsOk
<1>5. TrackInv /\ [Next]_vars => Step
  <2> SUFFICES ASSUME TrackInv, [Next]_vars  PROVE Step
    OBVIOUS
  <2>1. KeepsBut
    BY NextStep
  <2> QED
    BY <1>1, <1>2, <1>3, <1>4, <2>1 DEF KeepsBut
<1> QED
  BY <1>5, WaitersAreForRequests, PTL DEF Spec

-----------------------------------------------------------------------------
(* The messages of the game servers                                        *)

\* The line q of messages has one of this type.
Has(q, type) == \E n \in DOMAIN q : q[n].type = type

\* A server's messages, if it is s, and tracking knows it or not: its hello is
\* the first, and when it is gone and tracking knows it, or will, its end follows.
Line(q, s, known) ==
  /\ q \in Seq(Within(q))
  /\ \A n \in DOMAIN q : q[n].type = "hello" => n = 1
  /\ s = "unborn" => q = <<>> /\ ~known
  /\ s = "gone" /\ (known \/ Has(q, "hello")) => Has(q, "close")

\* A server says something more: its last word when it goes.
LEMMA LineGrows ==
  ASSUME NEW q, NEW s, NEW known, Line(q, s, known), NEW e, e.type # "hello",
         NEW r, r = Append(q, e), s # "unborn",
         NEW t, t # "unborn", t = "gone" => s = "gone" \/ e.type = "close"
  PROVE  Line(r, t, known) /\ (Has(q, "hello") => Has(r, "hello"))
<1> DEFINE m == Len(q)
<1>1. /\ q \in Seq(Within(q)) /\ m \in Nat /\ DOMAIN q = 1..m
      /\ DOMAIN r = 1..(m + 1) /\ r[m + 1] = e /\ \A n \in 1..m : r[n] = q[n]
      /\ r = [n \in 1..(m + 1) |-> r[n]]
  <2> DEFINE W == Within(q) \cup {e}
  <2>1. q \in Seq(Within(q)) /\ Within(q) \subseteq W /\ e \in W
    BY DEF Line
  <2> HIDE DEF W
  <2>2. \A V : q \in Seq(V) /\ V \subseteq W => q \in Seq(W)
    OBVIOUS
  <2>3. q \in Seq(W)
    BY <2>1, <2>2
  <2>4. r \in Seq(W) /\ m \in Nat /\ DOMAIN q = 1..m /\ Len(r) = m + 1 /\ DOMAIN r = 1..Len(r)
    BY ONLY <2>1, <2>3, r = Append(q, e)
  <2>5. r[m + 1] = e /\ \A n \in 1..m : r[n] = q[n]
    BY ONLY <2>1, <2>3, <2>4, r = Append(q, e)
  <2>6. r = [n \in 1..Len(r) |-> r[n]]
    BY ONLY <2>4
  <2> QED
    BY <2>1, <2>4, <2>5, <2>6
<1> HIDE DEF m
<1>2. 1..(m + 1) = 1..m \cup {m + 1} /\ m + 1 \in 1..(m + 1)
  BY <1>1
<1>3. r \in Seq(Within(r))
  <2>1. \A n \in 1..(m + 1) : r[n] \in Within(r)
    BY <1>1 DEF Within
  <2> DEFINE W == Within(r)
  <2> HIDE DEF W
  <2>2. r \in [1..(m + 1) -> W]
    BY ONLY <1>1, <2>1 DEF W
  <2>3. m + 1 \in Nat
    BY <1>1
  <2>4. r \in Seq(W)
    BY ONLY <2>2, <2>3
  <2> QED
    BY <2>4 DEF W
<1>4. \A n \in 1..(m + 1) : r[n].type = "hello" => n = 1
  BY <1>1, <1>2 DEF Line
<1>5. ASSUME NEW type, Has(q, type)  PROVE Has(r, type)
  BY <1>1, <1>2, <1>5 DEF Has
<1>6. Has(r, "hello") => Has(q, "hello")
  BY <1>1, <1>2 DEF Has
<1>7. e.type = "close" => Has(r, "close")
  BY <1>1, <1>2 DEF Has
<1> QED
  BY <1>1, <1>3, <1>4, <1>5, <1>6, <1>7 DEF Line

\* Tracking takes the first message: a hello makes the server known, its end unknown.
LEMMA LineShrinks ==
  ASSUME NEW q, NEW s, NEW known, Line(q, s, known), q # <<>>, NEW r, r = Tail(q),
         NEW now,
         \/ q[1].type = "hello"
         \/ q[1].type = "close" /\ ~now
         \/ q[1].type \notin {"hello", "close"} /\ (now => known)
  PROVE  Line(r, s, now) /\ (Has(q, "hello") => q[1].type = "hello")
<1> DEFINE m == Len(q)
<1>1. /\ q \in Seq(Within(q)) /\ m \in Nat /\ m >= 1 /\ DOMAIN q = 1..m
      /\ DOMAIN r = 1..(m - 1) /\ \A n \in 1..(m - 1) : r[n] = q[n + 1]
      /\ r = [n \in 1..(m - 1) |-> r[n]]
      /\ \A n \in DOMAIN q : q[n].type = "hello" => n = 1
      /\ s # "unborn"
  <2> DEFINE W == Within(q)
  <2>1. q \in Seq(W)
    BY DEF Line
  <2> HIDE DEF W
  <2>2. /\ m \in Nat /\ m >= 1 /\ DOMAIN q = 1..m
        /\ r \in Seq(W) /\ Len(r) = m - 1 /\ DOMAIN r = 1..Len(r)
    BY ONLY <2>1, q # <<>>, r = Tail(q)
  <2>3. \A n \in 1..(m - 1) : r[n] = q[n + 1]
    BY ONLY <2>1, <2>2, r = Tail(q)
  <2>4. r = [n \in 1..Len(r) |-> r[n]]
    BY ONLY <2>2
  <2>5. q \in Seq(Within(q))
    BY <2>1 DEF W
  <2>6. (\A n \in DOMAIN q : q[n].type = "hello" => n = 1) /\ s # "unborn"
    BY DEF Line
  <2> QED
    BY ONLY <2>2, <2>3, <2>4, <2>5, <2>6
<1> HIDE DEF m
<1>2. \A n \in 1..(m - 1) : n + 1 \in 1..m /\ n + 1 # 1 /\ n + 1 > 1
  BY <1>1
<1>3. \A n \in 1..m : n # 1 => n - 1 \in 1..(m - 1) /\ (n - 1) + 1 = n
  BY <1>1
<1>4. r \in Seq(Within(r))
  <2>1. \A n \in 1..(m - 1) : r[n] \in Within(r)
    BY <1>1 DEF Within
  <2> DEFINE W == Within(r)
  <2> HIDE DEF W
  <2>2. r \in [1..(m - 1) -> W]
    BY ONLY <1>1, <2>1 DEF W
  <2>3. m - 1 \in Nat
    BY <1>1
  <2>4. r \in Seq(W)
    BY ONLY <2>2, <2>3
  <2> QED
    BY <2>4 DEF W
<1>5. ~Has(r, "hello")
  BY <1>1, <1>2 DEF Has
<1>6. Has(q, "hello") => q[1].type = "hello"
  BY <1>1 DEF Has
<1>7. Has(q, "close") /\ q[1].type # "close" => Has(r, "close")
  BY <1>1, <1>3 DEF Has
<1>8. s = "gone" /\ now => Has(r, "close")
  <2>1. ASSUME s = "gone", now  PROVE Has(q, "close") /\ q[1].type # "close"
    <3>1. CASE q[1].type = "hello"
      <4>1. Has(q, "hello")
        BY <1>1, <3>1 DEF Has
      <4> QED
        BY <2>1, <3>1, <4>1 DEF Line
    <3>2. CASE q[1].type \notin {"hello", "close"} /\ (now => known)
      BY <2>1, <3>2 DEF Line
    <3> QED
      BY <2>1, <3>1, <3>2
  <2> QED
    BY <1>7, <2>1
<1> QED
  BY <1>1, <1>2, <1>4, <1>5, <1>6, <1>8 DEF Line

\* The servers and their lines.
LineOf(g) == Line(fromGame[g], server[g], g \in DOMAIN games)
LinesOk ==
  /\ server \in [GameId -> {"unborn", "up", "asked", "gone"}]
  /\ fromGame = [g \in GameId |-> fromGame[g]]
  /\ DOMAIN games \subseteq GameId
  /\ \A g \in GameId : LineOf(g)

\* Somebody waits: a server is to be started, cannot be, comes, or is known; or
\* the last came to nothing.
Hoped ==
  \/ starved \/ starts > 0 \/ failures > 0
  \/ \E g \in GameId : Has(fromGame[g], "hello") \/ g \in DOMAIN games
HopeInv ==
  /\ starts \in Nat /\ failures \in Nat /\ refusals \in Nat
  /\ LiveOf(waiters, queue) # {} => Hoped

\* A session that is there and has asked has a player, and those that wait are there.
ThereInv ==
  /\ \A r \in 1..Len(asked) : sess[asked[r]].phase = "on" => sess[asked[r]].kinum # NoKi
  /\ \A i \in LiveOf(waiters, queue) : sess[waiters[i].sess].phase = "on"

\* What those that are there do, and what servers say, leaves the other lines alone.
LEMMA OthersLines ==
  ASSUME LinesOk, NEW g \in GameId, NEW q, fromGame' = [fromGame EXCEPT ![g] = q],
         NEW s \in {"unborn", "up", "asked", "gone"},
         server' = [server EXCEPT ![g] = s], DOMAIN games' \subseteq GameId,
         \A h \in GameId : h # g => (h \in DOMAIN games' <=> h \in DOMAIN games),
         Line(q, s, g \in DOMAIN games')
  PROVE  LinesOk'
<1>1. /\ server' \in [GameId -> {"unborn", "up", "asked", "gone"}]
      /\ fromGame' = [h \in GameId |-> fromGame'[h]]
  BY DEF LinesOk
<1>2. ASSUME NEW h \in GameId  PROVE Line(fromGame'[h], server'[h], h \in DOMAIN games')
  <2>1. CASE h = g
    <3>1. fromGame'[h] = q /\ server'[h] = s
      BY <2>1 DEF LinesOk
    <3> QED
      BY <2>1, <3>1
  <2>2. CASE h # g
    <3>1. /\ fromGame'[h] = fromGame[h] /\ server'[h] = server[h]
          /\ (h \in DOMAIN games') = (h \in DOMAIN games)
      BY <2>2 DEF LinesOk
    <3>2. Line(fromGame[h], server[h], h \in DOMAIN games)
      BY DEF LinesOk, LineOf
    <3> QED
      BY <3>1, <3>2
  <2> QED
    BY <2>1, <2>2
<1> QED
  BY <1>1, <1>2 DEF LinesOk, LineOf

\* The first of a line that is not empty.
LEMMA FirstOf ==
  ASSUME NEW q, NEW s, NEW known, Line(q, s, known), q # <<>>
  PROVE  Head(q) = q[1]
  BY DEF Line

\* A hello that tracking has not read stays in its line.
HellosStay == \A h \in GameId : Has(fromGame[h], "hello") => Has(fromGame'[h], "hello")

\* A server that runs says something.
LEMMA SaysIs ==
  ASSUME LinesOk, NEW g \in GameId, server[g] \in {"up", "asked"},
         NEW e, e.type # "hello", Reply(g, e),
         NEW s \in {"up", "asked", "gone"}, s = "gone" => e.type = "close",
         server' = [server EXCEPT ![g] = s], games' = games
  PROVE  LinesOk' /\ HellosStay
<1> DEFINE q == Append(fromGame[g], e)
<1>1. fromGame' = [fromGame EXCEPT ![g] = q]
  BY DEF Reply
<1>2. Line(fromGame[g], server[g], g \in DOMAIN games) /\ q = Append(fromGame[g], e)
  BY DEF LinesOk, LineOf
<1> HIDE DEF q
<1>3. Line(q, s, g \in DOMAIN games) /\ (Has(fromGame[g], "hello") => Has(q, "hello"))
  <2> DEFINE known == g \in DOMAIN games
  <2> HIDE DEF known
  <2>1. Line(fromGame[g], server[g], known)
    BY <1>2 DEF known
  <2>2. /\ server[g] # "unborn" /\ s # "unborn" /\ e.type # "hello"
        /\ s = "gone" => server[g] = "gone" \/ e.type = "close"
    OBVIOUS
  <2>3. Line(q, s, known) /\ (Has(fromGame[g], "hello") => Has(q, "hello"))
    BY ONLY <1>2, <2>1, <2>2, LineGrows, ZenonT(30)
  <2> QED
    BY <2>3 DEF known
<1>4. LinesOk'
  BY <1>1, <1>3, OthersLines DEF LinesOk
<1>5. HellosStay
  BY <1>1, <1>3 DEF LinesOk, HellosStay
<1> QED
  BY <1>4, <1>5

\* Tracking reads a message.
LEMMA HearsIs ==
  ASSUME LinesOk, NEW g \in GameId, NEW type, From(g, type), Received(g), server' = server,
         \/ type = "hello" /\ DOMAIN games' = DOMAIN games \cup {g}
         \/ type = "close" /\ DOMAIN games' = DOMAIN games \ {g}
         \/ type \notin {"hello", "close"} /\ DOMAIN games' = DOMAIN games
  PROVE  LinesOk' /\ (type # "hello" => HellosStay)
<1> DEFINE q == Tail(fromGame[g])
           known == g \in DOMAIN games
           now == g \in DOMAIN games'
<1>1. /\ fromGame' = [fromGame EXCEPT ![g] = q] /\ fromGame[g] # <<>>
      /\ Head(fromGame[g]).type = type
  BY DEF Received, From
<1>2. Line(fromGame[g], server[g], known) /\ q = Tail(fromGame[g])
  BY DEF LinesOk, LineOf
<1>3. /\ type = "close" => ~now
      /\ type \notin {"hello", "close"} => (now => known)
  OBVIOUS
<1> HIDE DEF q, known, now
<1>4. fromGame[g][1].type = type
  BY <1>1, <1>2, FirstOf
<1>5. Line(q, server[g], now) /\ (Has(fromGame[g], "hello") => type = "hello")
  BY <1>1, <1>2, <1>3, <1>4, LineShrinks
<1>6. DOMAIN games' \subseteq GameId /\ server' = [server EXCEPT ![g] = server[g]]
      /\ server[g] \in {"unborn", "up", "asked", "gone"}
  BY DEF LinesOk
<1>7. LinesOk'
  BY <1>1, <1>5, <1>6, OthersLines, ZenonT(30) DEF now
<1>8. type # "hello" => HellosStay
  BY <1>1, <1>5 DEF LinesOk, HellosStay
<1> QED
  BY <1>7, <1>8

\* A server starts: its hello is its first word.
LEMMA StartServerStep ==
  ASSUME LinesOk, StartServer
  PROVE  LinesOk' /\ \E g \in GameId : Has(fromGame'[g], "hello")
<1>1. PICK g \in GameId :
        /\ server[g] = "unborn" /\ server' = [server EXCEPT ![g] = "up"]
        /\ fromGame' = [fromGame EXCEPT ![g] = <<HelloMsg>>] /\ games' = games
  BY DEF StartServer
<1>2. HelloMsg.type = "hello"
  BY DEF HelloMsg
<1> DEFINE q == <<HelloMsg>>
<1>3. DOMAIN q = {1} /\ q[1] = HelloMsg
  OBVIOUS
<1>4. q \in Seq(Within(q))
  <2>1. HelloMsg \in Within(q)
    BY <1>3 DEF Within
  <2> QED
    BY <2>1
<1> HIDE DEF q
<1>5. Line(q, "up", g \in DOMAIN games')
  BY <1>3, <1>4 DEF Line
<1>6. Has(q, "hello")
  BY <1>2, <1>3 DEF Has
<1>7. fromGame' = [fromGame EXCEPT ![g] = q]
  BY <1>1 DEF q
<1>8. LinesOk'
  BY <1>1, <1>5, <1>7, OthersLines DEF LinesOk
<1> QED
  BY <1>6, <1>7, <1>8 DEF LinesOk

\* The steps by which a server that runs says something.
LEMMA ServersSay ==
  ASSUME LinesOk, NEW g \in GameId,
         \/ Register(g) \/ Drop(g) \/ AskToStop(g) \/ Stop(g)
         \/ \E k \in Ki : PlayerStep(g, k)
  PROVE  LinesOk' /\ HellosStay
<1> USE DEF AckMsg, InfoMsg, AskMsg, CloseMsg
<1>1. server[g] \in {"up", "asked"} /\ games' = games
  BY DEF Register, Drop, AskToStop, Stop, PlayerStep, Arrive, Leave, Forget, To
<1>2. server = [server EXCEPT ![g] = server[g]]
  BY DEF LinesOk
<1>3. ASSUME NEW e, e.type # "hello", Reply(g, e), server' = server  PROVE LinesOk' /\ HellosStay
  BY <1>1, <1>2, <1>3, SaysIs
<1>4. CASE UNCHANGED <<fromGame, server>>
  BY <1>1, <1>4 DEF LinesOk, LineOf, HellosStay
<1>5. CASE Register(g)
  BY <1>3, <1>5 DEF Register
<1>6. CASE Drop(g)
  BY <1>3, <1>4, <1>6 DEF Drop, gameVars
<1>7. CASE AskToStop(g)
  <2>1. /\ Reply(g, AskMsg) /\ AskMsg.type # "hello"
        /\ "asked" \in {"up", "asked", "gone"} /\ server' = [server EXCEPT ![g] = "asked"]
    BY <1>7 DEF AskToStop
  <2> QED
    BY <1>1, <2>1, SaysIs
<1>8. CASE Stop(g)
  <2>1. /\ Reply(g, CloseMsg) /\ CloseMsg.type = "close"
        /\ "gone" \in {"up", "asked", "gone"} /\ server' = [server EXCEPT ![g] = "gone"]
    BY <1>8 DEF Stop
  <2> QED
    BY <1>1, <2>1, SaysIs
<1>9. ASSUME NEW k \in Ki, PlayerStep(g, k)  PROVE LinesOk' /\ HellosStay
  <2>1. CASE Arrive(g, k)
    BY <1>3, <2>1 DEF Arrive
  <2>2. CASE Leave(g, k)
    BY <1>3, <2>2 DEF Leave
  <2>3. CASE Forget(g, k)
    BY <1>4, <2>3 DEF Forget
  <2> QED
    BY <1>9, <2>1, <2>2, <2>3 DEF PlayerStep
<1> QED
  BY <1>5, <1>6, <1>7, <1>8, <1>9

\* The steps by which tracking hears something.
LEMMA TrackerHears ==
  ASSUME LinesOk, NEW g \in GameId, TrackerStep(g)
  PROVE  LinesOk' /\ (Hello(g) \/ HellosStay)
<1>1. server' = server
  BY DEF TrackerStep, Hello, Ack, PlayerInfo, GameAsks, GameLeaves, gameVars
<1>0. ASSUME NEW type, type \notin {"hello", "close"}, From(g, type), Received(g),
             DOMAIN games' = DOMAIN games
      PROVE  LinesOk' /\ HellosStay
  BY <1>0, <1>1, HearsIs
<1>2. CASE Hello(g)
  <2>1. DOMAIN games' = DOMAIN games \cup {g} /\ From(g, "hello") /\ Received(g)
    BY <1>2 DEF Hello
  <2> QED
    BY <1>1, <1>2, <2>1, HearsIs
<1>3. CASE GameLeaves(g)
  <2>1. DOMAIN games' = DOMAIN games \ {g} /\ From(g, "close") /\ Received(g)
    BY <1>3 DEF GameLeaves
  <2> QED
    BY <1>1, <2>1, HearsIs
<1>4. CASE Ack(g)
  <2>1. DOMAIN games' = DOMAIN games /\ From(g, "ack") /\ Received(g)
        /\ "ack" \notin {"hello", "close"}
    BY <1>4 DEF Ack
  <2> QED
    BY <1>0, <2>1
<1>5. CASE PlayerInfo(g)
  <2>1. DOMAIN games' = DOMAIN games /\ From(g, "info") /\ Received(g)
        /\ "info" \notin {"hello", "close"}
    BY <1>5 DEF PlayerInfo
  <2> QED
    BY <1>0, <2>1
<1>6. CASE GameAsks(g)
  <2>1. DOMAIN games' = DOMAIN games /\ From(g, "ask") /\ Received(g)
        /\ "ask" \notin {"hello", "close"}
    BY <1>6 DEF GameAsks
  <2> QED
    BY <1>0, <2>1
<1> QED
  BY <1>2, <1>3, <1>4, <1>5, <1>6 DEF TrackerStep

\* The lines are kept.
LEMMA LinesStep ==
  ASSUME LinesOk, [Next]_vars
  PROVE  LinesOk'
<1>1. CASE UNCHANGED <<games, fromGame, server>>
  BY <1>1 DEF LinesOk, LineOf
<1>2. CASE UNCHANGED vars
  BY <1>1, <1>2 DEF vars, gameVars
<1>3. CASE \E s \in Session : SessionStep(s)
  BY <1>1, <1>3 DEF SessionStep, Login, KiValidate, FindGame, AuthLeaves, gameVars
<1>4. CASE StartFailed \/ WaitersTimeOut \/ RefuseStart \/ StartLost
  BY <1>1, <1>4 DEF StartFailed, WaitersTimeOut, RefuseStart, StartLost, gameVars
<1> QED
  BY <1>2, <1>3, <1>4, StartServerStep, ServersSay, TrackerHears DEF Next

\* A session of one that waits is one, and asked for what is waited for.
LEMMA WaiterIsOf ==
  ASSUME TrackInv, NEW i \in LiveOf(waiters, queue)
  PROVE  /\ waiters[i].sess \in Session /\ waiters[i].kinum = Player[waiters[i].sess]
         /\ \E r \in 1..Len(asked) : asked[r] = waiters[i].sess
  BY DEF TrackInv, IsFor, RequestsOk

\* Sessions that are there stay, and keep their players.
LEMMA ThereStays ==
  ASSUME TrackInv, ThereInv, FromBefore, PhasesGoOn, asked' = asked,
         ~\E s \in Session : FindGame(s),
         \A s \in Session : sess[s].phase = "on" =>
           sess'[s].phase = "on" /\ (sess[s].kinum # NoKi => sess'[s].kinum # NoKi)
  PROVE  ThereInv'
<1>1. ASSUME NEW r \in 1..Len(asked), sess'[asked[r]].phase = "on"
      PROVE  sess'[asked[r]].kinum # NoKi
  <2>1. asked[r] \in Session /\ sess[asked[r]].phase # "new"
    BY DEF TrackInv, RequestsOk
  <2>2. sess[asked[r]].phase = "on"
    BY <1>1, <2>1 DEF PhasesGoOn
  <2> QED
    BY <2>1, <2>2 DEF ThereInv
<1>2. ASSUME NEW j \in LiveOf(waiters', queue')  PROVE sess'[waiters'[j].sess].phase = "on"
  <2>1. PICK i \in LiveOf(waiters, queue) : StandsFor(waiters'[j], waiters[i])
    BY DEF FromBefore
  <2>2. sess[waiters[i].sess].phase = "on" /\ waiters[i].sess \in Session
    BY WaiterIsOf DEF ThereInv
  <2> QED
    BY <2>1, <2>2 DEF StandsFor
<1> QED
  BY <1>1, <1>2 DEF ThereInv

\* Those that wait are there.
LEMMA ThereStep ==
  ASSUME TrackInv, ThereInv, [Next]_vars
  PROVE  ThereInv'
<1>1. FromBefore
  BY NextStep DEF KeepsBut
<1>s. sess \in [Session -> [phase : {"new", "on", "left"}, kinum : Ki \cup {NoKi}, game : Nat]]
  BY DEF TrackInv, SessionsOk
<1>2. ASSUME NEW s \in Session, FindGame(s)  PROVE ThereInv'
  <2>1. /\ sess' = sess /\ asked' = Append(asked, s)
        /\ sess[s].phase = "on" /\ sess[s].kinum # NoKi
    BY <1>2 DEF FindGame, loginVars, Online
  <2>2. ASSUME NEW r \in 1..Len(asked'), sess[asked'[r]].phase = "on"
        PROVE  sess[asked'[r]].kinum # NoKi
    <3>1. asked \in Seq(Session)
      BY DEF TrackInv, RequestsOk
    <3>2. asked'[r] = s \/ (r \in 1..Len(asked) /\ asked'[r] = asked[r])
      BY <2>1, <3>1
    <3> QED
      BY <2>1, <2>2, <3>2 DEF ThereInv
  <2>3. ASSUME NEW j \in LiveOf(waiters', queue')  PROVE sess[waiters'[j].sess].phase = "on"
    <3>1. CASE \E i \in LiveOf(waiters, queue) : StandsFor(waiters'[j], waiters[i])
      BY <3>1 DEF StandsFor, ThereInv
    <3>2. ASSUME NEW t \in Session, FindGame(t), waiters'[j].sess = t
          PROVE  sess[waiters'[j].sess].phase = "on"
      BY <3>2 DEF FindGame, Online
    <3> QED
      BY <1>1, <3>1, <3>2 DEF FromBefore
  <2> QED
    BY <2>1, <2>2, <2>3 DEF ThereInv
<1> DEFINE NoRequest == ~\E s \in Session : FindGame(s)
<1>3. ASSUME NoRequest, sess' = sess, asked' = asked  PROVE ThereInv'
  BY <1>1, <1>3, ThereStays DEF PhasesGoOn
<1>4. ASSUME NEW s \in Session, NoRequest, Login(s)  PROVE ThereInv'
  <2>1. sess' = [sess EXCEPT ![s].phase = "on"] /\ sess[s].phase = "new" /\ asked' = asked
    BY <1>4 DEF Login, reqVars
  <2>2. PhasesGoOn
    BY <1>s, <2>1 DEF PhasesGoOn
  <2>3. \A t \in Session : sess[t].phase = "on" =>
          sess'[t].phase = "on" /\ (sess[t].kinum # NoKi => sess'[t].kinum # NoKi)
    BY <1>s, <2>1
  <2> QED
    BY <1>1, <1>4, <2>1, <2>2, <2>3, ThereStays
<1>5. ASSUME NEW s \in Session, NoRequest, KiValidate(s)  PROVE ThereInv'
  <2>1. sess' = [sess EXCEPT ![s].kinum = Player[s]] /\ Player[s] # NoKi /\ asked' = asked
    BY <1>5, KiAssumption DEF KiValidate, reqVars
  <2>2. PhasesGoOn
    BY <1>s, <2>1 DEF PhasesGoOn
  <2>3. \A t \in Session : sess[t].phase = "on" =>
          sess'[t].phase = "on" /\ (sess[t].kinum # NoKi => sess'[t].kinum # NoKi)
    BY <1>s, <2>1
  <2> QED
    BY <1>1, <1>5, <2>1, <2>2, <2>3, ThereStays
<1>6. ASSUME NEW g \in GameId, NoRequest, PlayerInfo(g)  PROVE ThereInv'
  <2>1. (sess' = sess \/ \E s : sess' = [sess EXCEPT ![s].game = g]) /\ asked' = asked
    BY <1>6 DEF PlayerInfo, reqVars
  <2>2. \A t \in Session : sess'[t].phase = sess[t].phase /\ sess'[t].kinum = sess[t].kinum
    BY <1>s, <2>1
  <2>3. PhasesGoOn
    BY <2>2 DEF PhasesGoOn
  <2> QED
    BY <1>1, <1>6, <2>1, <2>2, <2>3, ThereStays
<1>7. ASSUME NEW s \in Session, AuthLeaves(s)  PROVE ThereInv'
  <2> DEFINE k == sess[s].kinum
  <2>1. /\ sess' = [sess EXCEPT ![s] = [phase |-> "left", kinum |-> NoKi, game |-> NoGame]]
        /\ waiters' = Cancelled(waiters, WaitersFor(k)) /\ queue' = queue /\ asked' = asked
        /\ sess[s].phase = "on"
    BY <1>7 DEF AuthLeaves, reqVars, Online
  <2>2. ASSUME NEW r \in 1..Len(asked), sess'[asked[r]].phase = "on"
        PROVE  sess'[asked[r]].kinum # NoKi
    <3>1. asked[r] \in Session
      BY DEF TrackInv, RequestsOk
    <3> QED
      BY <1>s, <2>1, <2>2, <3>1 DEF ThereInv
  <2> HIDE DEF k
  <2>3. LiveOf(waiters', queue') = LiveOf(waiters, queue) \ WaitersFor(k)
    BY <2>1, CancelIs DEF TrackInv
  <2>4. ASSUME NEW j \in LiveOf(waiters', queue')  PROVE sess'[waiters'[j].sess].phase = "on"
    <3>1. j \in LiveOf(waiters, queue) /\ j \notin WaitersFor(k) /\ j \in 1..Len(waiters)
      BY <2>3, LiveIs DEF TrackInv
    <3>2. StandsFor(waiters'[j], waiters[j])
      BY <2>1, <3>1, CancelIs DEF TrackInv
    <3>3. /\ waiters[j].sess \in Session /\ waiters[j].kinum = Player[waiters[j].sess]
          /\ \E r \in 1..Len(asked) : asked[r] = waiters[j].sess
      BY <3>1, WaiterIsOf
    <3>4. sess[waiters[j].sess].phase = "on"
      BY <3>1 DEF ThereInv
    <3>5. waiters[j].sess # s
      <4>1. ASSUME waiters[j].sess = s  PROVE FALSE
        <5>1. k = Player[s]
          BY <2>1, <3>3, <4>1 DEF ThereInv, TrackInv, SessionsOk, k
        <5>2. j \in WaitersFor(k)
          BY <3>1, <3>3, <4>1, <5>1, LiveIs DEF WaitersFor, TrackInv
        <5> QED
          BY <3>1, <5>2
      <4> QED
        BY <4>1
    <3> QED
      BY <1>s, <2>1, <3>2, <3>3, <3>4, <3>5 DEF StandsFor
  <2> QED
    BY <2>1, <2>2, <2>4 DEF ThereInv
<1>8. CASE UNCHANGED vars
  <2>1. /\ sess' = sess /\ asked' = asked /\ waiters' = waiters /\ queue' = queue
    BY <1>8 DEF vars, loginVars, reqVars, waitVars
  <2> QED
    BY <2>1 DEF ThereInv
<1>9. ASSUME NEW g \in GameId, TrackerStep(g), ~PlayerInfo(g), NoRequest  PROVE ThereInv'
  BY <1>3, <1>9 DEF TrackerStep, Hello, Ack, GameAsks, GameLeaves, loginVars, reqVars
<1>10. ASSUME NoRequest,
              \/ \E g \in GameId : Register(g) \/ Drop(g) \/ AskToStop(g) \/ Stop(g)
              \/ \E g \in GameId, k \in Ki : PlayerStep(g, k)
              \/ StartFailed \/ WaitersTimeOut \/ StartServer \/ RefuseStart \/ StartLost
       PROVE  ThereInv'
  BY <1>3, <1>10 DEF Register, Drop, AskToStop, Stop, PlayerStep, Arrive, Leave, Forget,
       StartFailed, WaitersTimeOut, StartServer, RefuseStart, StartLost, loginVars, reqVars
<1> QED
  <2> HIDE DEF NoRequest
  <2>1. CASE NoRequest
    BY <2>1, <1>4, <1>5, <1>6, <1>7, <1>8, <1>9, <1>10, <1>2 DEF Next, SessionStep
  <2>2. CASE ~NoRequest
    BY <2>2, <1>2 DEF NoRequest
  <2> QED
    BY <2>1, <2>2

\* The counters stay counters, and hope that there was stays if anybody waits.
HopeStays ==
  /\ starts' \in Nat /\ failures' \in Nat /\ refusals' \in Nat
  /\ LiveOf(waiters, queue) # {} /\ LiveOf(waiters', queue') # {} /\ Hoped => Hoped'

\* The steps that leave starts and failures alone.
LEMMA HopeAside ==
  ASSUME HopeInv, starts' = starts, failures' = failures, refusals' \in Nat,
         \/ /\ HellosStay /\ starved' = starved
            /\ \A g \in GameId : g \in DOMAIN games => g \in DOMAIN games'
         \/ \E g \in GameId : g \in DOMAIN games'
  PROVE  HopeStays
  BY DEF HopeInv, Hoped, HopeStays, HellosStay

\* A server leaves: it is replaced if anybody waits, for those that wait are there.
LEMMA HopeLeaves ==
  ASSUME TrackInv, ThereInv, LinesOk, HopeInv, NEW g \in GameId, GameLeaves(g)
  PROVE  HopeStays
<1> DEFINE W == {i \in Live : waiters[i].sess \in Online}
           l == Among(W, queue)
<1>1. /\ failures' = failures /\ waiters' = waiters /\ queue' = queue
      /\ DOMAIN games' = DOMAIN games \ {g}
      /\ \/ l = <<>> /\ UNCHANGED <<starts, refusals>>
         \/ Defeat /\ starved' = TRUE
         \/ \E k : HandleAgeRequest(games', k, TRUE) /\ refusals' = refusals
  BY DEF GameLeaves, waitVars
<1>2. CASE Defeat /\ starved' = TRUE
  <2>1. starts' = starts /\ refusals' = refusals + 1
    BY <1>2 DEF Defeat
  <2> QED
    BY <1>1, <1>2, <2>1 DEF HopeStays, HopeInv, Hoped
<1>3. ASSUME l = <<>>  PROVE LiveOf(waiters, queue) = {}
  <2>1. Live = LiveOf(waiters, queue)
    BY LiveIs DEF TrackInv
  <2>2. LiveOf(waiters, queue) \subseteq W
    <3>1. ASSUME NEW i \in LiveOf(waiters, queue)  PROVE waiters[i].sess \in Online
      BY WaiterIsOf DEF ThereInv, Online
    <3> QED
      BY <2>1, <3>1
  <2>3. Len(waiters) \in Nat /\ queue \in Seq(1..Len(waiters)) /\ Once(queue)
    BY DEF TrackInv, Kept
  <2>4. l = Among(W, queue)
    OBVIOUS
  <2> HIDE DEF W, l
  <2>5. Lists(l, Len(waiters), queue, W)
    BY ONLY <2>3, <2>4, AmongIs
  <2>6. Within(l) = {}
    BY <1>3 DEF Within
  <2>7. LiveOf(waiters, queue) \subseteq Within(queue)
    BY DEF LiveOf
  <2> QED
    BY <2>2, <2>5, <2>6, <2>7 DEF Lists
<1> HIDE DEF l
<1>4. CASE l = <<>> /\ UNCHANGED <<starts, refusals>>
  BY <1>1, <1>3, <1>4 DEF HopeStays, HopeInv
<1>5. ASSUME NEW k, HandleAgeRequest(games', k, TRUE), refusals' = refusals  PROVE HopeStays
  <2>1. CASE DOMAIN games' = {}
    <3>1. starts' = starts + 1
      BY <1>5, <2>1 DEF HandleAgeRequest
    <3> QED
      BY <1>1, <1>5, <3>1 DEF HopeStays, HopeInv, Hoped
  <2>2. CASE DOMAIN games' # {}
    <3>1. starts' = starts
      BY <1>5, <2>2 DEF HandleAgeRequest
    <3>2. \E h \in GameId : h \in DOMAIN games'
      BY <1>1, <2>2 DEF LinesOk
    <3> QED
      BY <1>1, <1>5, <3>1, <3>2, HopeAside DEF HopeInv
  <2> QED
    BY <2>1, <2>2
<1> QED
  BY <1>1, <1>2, <1>4, <1>5

\* A request finds a server, or others that wait, or asks for a server.
LEMMA HopeFinds ==
  ASSUME TrackInv, LinesOk, HopeInv, NEW s \in Session, FindGame(s)
  PROVE  HopeInv'
<1>1. /\ games' = games /\ failures' = failures /\ fromGame' = fromGame
      /\ \/ Defeat /\ UNCHANGED <<waitVars, starved>>
         \/ HandleAgeRequest(games, sess[s].kinum, FALSE) /\ refusals' = refusals
  BY DEF FindGame
<1>2. Live = LiveOf(waiters, queue)
  BY LiveIs DEF TrackInv
<1>3. starts \in Nat /\ failures \in Nat /\ refusals \in Nat
      /\ (LiveOf(waiters, queue) # {} => Hoped)
  BY DEF HopeInv
<1>4. ASSUME starts' \in Nat, refusals' \in Nat, LiveOf(waiters', queue') # {} => Hoped'
      PROVE  HopeInv'
  BY <1>1, <1>3, <1>4 DEF HopeInv
<1>5. ASSUME starts' = starts, starved' = starved, Hoped  PROVE Hoped'
  BY <1>1, <1>5 DEF Hoped
<1>6. CASE Defeat /\ UNCHANGED <<waitVars, starved>>
  <2>1. starts' = starts /\ starved' = starved /\ refusals' = refusals + 1 /\ waiters' = waiters /\ queue' = queue
    BY <1>6 DEF Defeat, waitVars
  <2> QED
    BY <1>3, <1>4, <1>5, <2>1
<1>7. CASE HandleAgeRequest(games, sess[s].kinum, FALSE) /\ refusals' = refusals
  <2>1. CASE DOMAIN games # {}
    <3>1. starts' = starts /\ starved' = starved
      BY <1>7, <2>1 DEF HandleAgeRequest
    <3>2. \E h \in GameId : h \in DOMAIN games
      BY <2>1 DEF LinesOk
    <3>3. Hoped
      BY <3>2 DEF Hoped
    <3> QED
      BY <1>3, <1>7, <1>4, <1>5, <3>1, <3>3
  <2>2. CASE DOMAIN games = {}
    <3>1. /\ starts' = IF Live = {} THEN starts + 1 ELSE starts
          /\ starved' = (starved /\ Live # {})
      BY <1>7, <2>2 DEF HandleAgeRequest
    <3>2. CASE Live = {}
      <4>1. starts' = starts + 1 /\ refusals' = refusals
        BY <1>7, <3>1, <3>2
      <4>2. starts' \in Nat /\ starts' > 0 /\ refusals' \in Nat
        BY <1>3, <4>1
      <4>3. Hoped'
        BY <4>2 DEF Hoped
      <4> QED
        BY <1>4, <4>2, <4>3
    <3>3. CASE Live # {}
      <4>1. starts' = starts /\ (starved' <=> starved) /\ Hoped
        BY <1>2, <1>3, <3>1, <3>3
      <4>2. Hoped'
        BY <1>1, <4>1 DEF Hoped
      <4> QED
        BY <1>3, <1>7, <1>4, <4>1, <4>2
    <3> QED
      BY <3>2, <3>3
  <2> QED
    BY <2>1, <2>2
<1> QED
  BY <1>1, <1>6, <1>7

\* No step leaves those that wait without hope.
LEMMA HopeStep ==
  ASSUME TrackInv, ThereInv, LinesOk, HopeInv, [Next]_vars
  PROVE  HopeInv'
<1>1. FromBefore
  BY NextStep DEF KeepsBut
<1>2. CASE \E s \in Session : FindGame(s)
  BY <1>2, HopeFinds
<1> DEFINE NoRequest == ~\E s \in Session : FindGame(s)
<1>3. ASSUME NoRequest, HopeStays  PROVE HopeInv'
  <2>1. LiveOf(waiters', queue') # {} => LiveOf(waiters, queue) # {}
    BY <1>1, <1>3 DEF FromBefore
  <2> QED
    BY <1>3, <2>1 DEF HopeStays, HopeInv
<1>n. starts \in Nat /\ failures \in Nat /\ refusals \in Nat
  BY DEF HopeInv
<1>4. ASSUME UNCHANGED <<starts, failures, starved, refusals, games, fromGame>>  PROVE HopeStays
  BY <1>4, <1>n, HopeAside DEF HellosStay
<1>5. ASSUME UNCHANGED vars  PROVE HopeStays
  <2>1. UNCHANGED <<starts, failures, starved, refusals, games, fromGame>>
    BY <1>5 DEF vars, diskVars, reqVars
  <2> QED
    BY <1>4, <2>1
<1>6. ASSUME NEW s \in Session, Login(s) \/ KiValidate(s) \/ AuthLeaves(s)  PROVE HopeStays
  BY <1>4, <1>6 DEF Login, KiValidate, AuthLeaves, diskVars, reqVars
<1>7. ASSUME WaitersTimeOut  PROVE HopeStays
  BY <1>4, <1>7 DEF WaitersTimeOut, diskVars
<1>8. ASSUME StartFailed  PROVE HopeStays
  <2>1. /\ waiters' = Cancelled(waiters, Live) /\ queue' = queue
        /\ failures > 0 /\ failures' = failures - 1
        /\ starts' = starts /\ refusals' = refusals
    BY <1>8 DEF StartFailed
  <2>2. Live = LiveOf(waiters, queue)
    BY LiveIs DEF TrackInv
  <2>3. LiveOf(waiters', queue') = LiveOf(waiters, queue) \ Live
    BY <2>1, CancelIs DEF TrackInv
  <2> QED
    BY <1>n, <2>1, <2>2, <2>3 DEF HopeStays
<1>9. ASSUME RefuseStart  PROVE HopeStays
  <2>1. /\ starts > 0 /\ starts' = starts - 1 /\ failures' = failures + 1 /\ refusals' = refusals
    BY <1>9 DEF RefuseStart, reqVars
  <2> QED
    BY <1>n, <2>1 DEF HopeStays, Hoped
<1>10. ASSUME StartServer  PROVE HopeStays
  <2>1. /\ starts > 0 /\ starts' = starts - 1 /\ failures' = failures /\ refusals' = refusals
    BY <1>10 DEF StartServer, reqVars
  <2>2. \E g \in GameId : Has(fromGame'[g], "hello")
    BY <1>10, StartServerStep
  <2> QED
    BY <1>n, <2>1, <2>2 DEF HopeStays, Hoped
<1>l. ASSUME StartLost  PROVE HopeStays
  <2>1. /\ starts > 0 /\ starts' = starts - 1 /\ failures' = failures /\ refusals' = refusals
        /\ starved' = TRUE
    BY <1>l DEF StartLost, reqVars
  <2> QED
    BY <1>n, <2>1 DEF HopeStays, Hoped
<1>11. ASSUME NEW g \in GameId,
              \/ Register(g) \/ Drop(g) \/ AskToStop(g) \/ Stop(g)
              \/ \E k \in Ki : PlayerStep(g, k)
       PROVE  HopeStays
  <2>1. HellosStay
    BY <1>11, ServersSay
  <2>2. UNCHANGED <<starts, failures, starved, refusals, games>>
    BY <1>11 DEF Register, Drop, AskToStop, Stop, PlayerStep, Arrive, Leave, Forget, diskVars, reqVars
  <2> QED
    BY <1>n, <2>1, <2>2, HopeAside
<1>12. ASSUME NEW g \in GameId, TrackerStep(g)  PROVE HopeStays
  <2>1. Hello(g) \/ HellosStay
    BY <1>12, TrackerHears
  <2>2. CASE GameLeaves(g)
    BY <2>2, HopeLeaves
  <2>3. CASE ~GameLeaves(g)
    <3>1. /\ UNCHANGED <<starts, failures, refusals>>
          /\ \A h \in GameId : h \in DOMAIN games => h \in DOMAIN games'
          /\ (Hello(g) => g \in DOMAIN games') /\ (~Hello(g) => starved' = starved)
      BY <1>12, <2>3 DEF TrackerStep, Hello, Ack, PlayerInfo, GameAsks, diskVars, reqVars
    <3> QED
      BY <1>n, <2>1, <3>1, HopeAside
  <2> QED
    BY <2>2, <2>3
<1> HIDE DEF NoRequest
<1>13. CASE NoRequest
  <2>1. HopeStays
    <3>1. CASE \E s \in Session : SessionStep(s)
      BY <1>6, <1>13, <3>1 DEF SessionStep, NoRequest
    <3> QED
      BY <1>5, <1>7, <1>8, <1>9, <1>10, <1>l, <1>11, <1>12, <3>1 DEF Next
  <2> QED
    BY <1>3, <1>13, <2>1
<1> QED
  BY <1>2, <1>13 DEF NoRequest

\* These hold at first.
LEMMA InitHopes ==
  ASSUME Init
  PROVE  ThereInv /\ LinesOk /\ HopeInv
<1>1. /\ waiters = <<>> /\ queue = <<>> /\ asked = <<>> /\ refusals = 0
      /\ starts = 0 /\ failures = 0 /\ games = [g \in {} |-> FALSE]
      /\ fromGame = [g \in GameId |-> <<>>] /\ server = [g \in GameId |-> "unborn"]
  BY DEF Init
<1>2. LiveOf(waiters, queue) = {} /\ 1..Len(asked) = {}
  BY <1>1 DEF LiveOf, Within
<1>3. ThereInv /\ HopeInv
  BY <1>1, <1>2 DEF ThereInv, HopeInv
<1>4. Line(<<>>, "unborn", FALSE)
  <2>1. <<>> \in Seq(Within(<<>>)) /\ DOMAIN <<>> = {}
    OBVIOUS
  <2> QED
    BY <2>1 DEF Line
<1>5. \A g \in GameId : (g \in DOMAIN games) = FALSE
  BY <1>1
<1>6. LinesOk
  <2>1. \A g \in GameId : LineOf(g)
    BY <1>1, <1>4, <1>5 DEF LineOf
  <2> QED
    BY <1>1, <2>1 DEF LinesOk
<1> QED
  BY <1>3, <1>6

\* Whoever waits has a server that runs or whose end tracking will hear of, or
\* one that comes, or is asked for, or the news that there is none; unless the
\* last server came to nothing without a word, or handle_age_request failed to
\* replace one, since any came: tracking's picture of the game servers, made of
\* messages that may be late, is never the reason that a request only expires.
THEOREM SomethingIsUnderWay == Spec => []UnderWay
<1> DEFINE I == TrackInv /\ ThereInv /\ LinesOk /\ HopeInv
<1>1. Init => I
  BY InitHolds, InitHopes
<1>2. I /\ [Next]_vars => I'
  BY NextStep, ThereStep, LinesStep, HopeStep DEF KeepsBut
<1>3. I => UnderWay
  <2>1. ASSUME I, Live # {}, ~(starved \/ starts > 0 \/ failures > 0)
        PROVE  \E g \in GameId :
                 \/ Says(g, "hello")
                 \/ g \in DOMAIN games /\ (server[g] \in {"up", "asked"} \/ Says(g, "close"))
    <3>1. Hoped
      BY <2>1, LiveIs DEF HopeInv, TrackInv
    <3>2. PICK g \in GameId : Has(fromGame[g], "hello") \/ g \in DOMAIN games
      BY <2>1, <3>1 DEF Hoped
    <3>3. \A type : Has(fromGame[g], type) => Says(g, type)
      BY DEF Has, Says, ToSet
    <3>4. Line(fromGame[g], server[g], g \in DOMAIN games)
      BY <2>1 DEF LinesOk, LineOf
    <3>5. CASE g \in DOMAIN games
      <4>1. server[g] # "unborn" /\ (server[g] = "gone" => Has(fromGame[g], "close"))
        BY <3>4, <3>5 DEF Line
      <4>2. server[g] \in {"unborn", "up", "asked", "gone"}
        BY <2>1 DEF LinesOk
      <4> QED
        BY <3>3, <3>5, <4>1, <4>2
    <3> QED
      BY <3>2, <3>3, <3>5
  <2> QED
    BY <2>1 DEF UnderWay
<1> HIDE DEF I
<1> QED
  BY <1>1, <1>2, <1>3, PTL DEF Spec
=============================================================================
