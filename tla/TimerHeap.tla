------------------------------ MODULE TimerHeap ------------------------------
(***************************************************************************)
(* The array of Server::TimerQueue (moss_serv.cc): a binary heap kept with *)
(* std::push_heap and std::pop_heap, the soonest timer first.  The order   *)
(* of the others matters, because the servers scan the array (m_timers->   *)
(* begin() to end()) and stop at the first match.                          *)
(*                                                                         *)
(* q is the sequence of timers, w gives each timer the time it is due.     *)
(***************************************************************************)
EXTENDS Integers, Sequences, FiniteSets

Parent(i) == i \div 2

IsHeap(q, w) == \A i \in 2..Len(q) : w[q[Parent(i)]] <= w[q[i]]

\* position n of an array and its parents, up to the root
Chain(n) ==
  LET up[i \in 1..n] == IF i = 1 THEN {1} ELSE {i} \cup up[Parent(i)] IN up[n]

Lowest(S) == CHOOSE i \in S : \A j \in S : i <= j

MutPush(q, w, t) == Append(q, t)               \* a slip: no push_heap

\* push_back and push_heap: t climbs past every parent that is due later, and
\* stops at the first that is not
Push(q, w, t) ==
  LET n  == Len(q) + 1
      at == Lowest({i \in Chain(n) : \A j \in Chain(n) \ {n} : i <= j => w[q[j]] > w[t]})
  IN [i \in 1..n |-> IF i = at THEN t
                     ELSE IF i \in Chain(n) /\ i > at THEN q[Parent(i)]
                     ELSE q[i]]

\* the way down from the root to a leaf through the child that is due sooner,
\* the second child if both are due at once
SoonerChild(q, w, m, i) ==
  IF 2*i + 1 <= m /\ w[q[2*i + 1]] <= w[q[2*i]] THEN 2*i + 1 ELSE 2*i

WayDown(q, w, m) ==
  LET way[i \in 1..m] ==
        IF 2*i > m THEN {i} ELSE {i} \cup way[SoonerChild(q, w, m, i)]
  IN way[1]

\* pop_heap and pop_back: the way down moves up by one, and the last timer is
\* put on it, below those due no later than itself
Pop(q, w) ==
  LET m    == Len(q) - 1
      last == q[Len(q)]
      way  == WayDown(q, w, m)
      below(i) == CHOOSE j \in way : Parent(j) = i
      stays(i) == i = 1 \/ w[q[i]] <= w[last]
      at   == CHOOSE i \in way : stays(i) /\ \A j \in way : stays(j) => j <= i
  IN IF m = 0 THEN <<>>
     ELSE [i \in 1..m |-> IF i = at THEN last
                          ELSE IF i \in way /\ i < at THEN q[below(i)]
                          ELSE q[i]]
=============================================================================
