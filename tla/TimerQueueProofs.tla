-------------------------- MODULE TimerQueueProofs --------------------------
(***************************************************************************)
(* What a timer queue promises, for any timers and any times: no timer     *)
(* that is due is left behind, and the queue does what Timers says.  Both  *)
(* rest on the array being a heap, which push_heap and pop_heap keep.      *)
(***************************************************************************)
EXTENDS MCTimerQueue, SequenceFacts

-----------------------------------------------------------------------------
(* The inductive invariant                                                 *)

\* The inductive invariant: the array is a heap without doubles, its timers
\* have neither been called nor deleted, and handle_timeout was called with a
\* time that has been.
TimersInv ==
  /\ clock \in Time /\ Known \subseteq Timer
  /\ when \in [Known -> Time] /\ queue \in Seq(Known)
  /\ Once(queue) /\ IsHeap(queue, when)
  /\ cancelled \subseteq Known /\ called \cup deleted \subseteq Known
  /\ Queued \cap (called \cup deleted) = {}
  /\ now \in Time \cup {Idle} /\ (now # Idle => now <= clock)

\* The order of a heap depends on the times of its own timers only.
LEMMA SameHeap ==
  ASSUME NEW S, NEW q \in Seq(S), NEW w, NEW v, \A u \in S : v[u] = w[u], IsHeap(q, w)
  PROVE  IsHeap(q, v)
<1>1. ASSUME NEW i \in 2..Len(q)
      PROVE  q[i] \in S /\ q[Parent(i)] \in S
  <2>1. i \in Nat /\ i >= 2 /\ i <= Len(q) /\ Len(q) \in Nat
    OBVIOUS
  <2>2. Parent(i) \in Nat /\ Parent(i) >= 1 /\ Parent(i) < i
    BY <2>1, HalfIs
  <2>3. i \in 1..Len(q) /\ Parent(i) \in 1..Len(q)
    BY ONLY <2>1, <2>2
  <2> QED
    BY <2>3
<1> QED
  BY <1>1 DEF IsHeap

\* A timer that is set joins the others in the heap; it comes first only if it
\* is due before the first.
LEMMA NewTimer ==
  ASSUME TimersInv, NEW t \in Timer \ Known, NEW at \in Time,
         NEW w, w = NewWhen(t, at), NEW r, r = Push(queue, w, t)
  PROVE  /\ DOMAIN w = Known \cup {t} /\ w \in [Known \cup {t} -> Time]
         /\ w[t] = at /\ \A u \in Known : w[u] = when[u]
         /\ r \in Seq(Known \cup {t}) /\ Within(r) = Queued \cup {t}
         /\ Once(r) /\ IsHeap(r, w)
         /\ queue # <<>> /\ when[queue[1]] <= at => r # <<>> /\ r[1] = queue[1]
<1> DEFINE S == Known \cup {t}
<1>1. /\ when \in [Known -> Time] /\ queue \in Seq(Known)
      /\ Once(queue) /\ IsHeap(queue, when)
  BY DEF TimersInv
<1>2. /\ DOMAIN w = S /\ w \in [S -> Time]
      /\ w[t] = at /\ \A u \in Known : w[u] = when[u]
  BY <1>1 DEF NewWhen
<1>3. w \in [S -> Int]
  BY <1>2, HorizonAssumption DEF Time
<1>4. queue \in Seq(S)
  <2>1. Known \subseteq S
    OBVIOUS
  <2> HIDE DEF S
  <2> QED
    BY <1>1, <2>1
<1>5. t \in S
  OBVIOUS
<1> HIDE DEF S
<1>6. PutsOn(S, queue, w, t, r)
  BY <1>3, <1>4, <1>5, PushIs
<1>7. IsHeap(queue, w)
  BY <1>1, <1>2, SameHeap
<1>8. Within(queue) = Queued /\ t \notin Within(queue)
  <2>1. Within(queue) = Queued
    BY DEF Within, Queued
  <2>2. \A i \in DOMAIN queue : queue[i] \in Known
    BY <1>1
  <2> QED
    BY <2>1, <2>2 DEF Within
<1>9. queue # <<>> => queue[1] \in Known /\ r # <<>>
  <2>1. queue # <<>> => Len(queue) # 0
    BY <1>1, EmptySeq
  <2>2. Len(r) # 0
    BY <1>1, <1>6 DEF PutsOn
  <2> QED
    BY <1>1, <2>1, <2>2, EmptySeq
<1> QED
  BY <1>1, <1>2, <1>6, <1>7, <1>8, <1>9 DEF S, PutsOn

\* The first timer of the queue is due no later than the others.
LEMMA HeadIsSoonest ==
  ASSUME TimersInv, queue # <<>>
  PROVE  /\ Head(queue) = queue[1] /\ Head(queue) \in Queued
         /\ \A t \in Queued : when[Head(queue)] <= when[t]
         /\ \A t \in Queued : t \in Known /\ when[t] \in Int
<1>1. when \in [Known -> Int] /\ queue \in Seq(Known) /\ IsHeap(queue, when)
  BY HorizonAssumption DEF TimersInv, Time
<1>2. \A i \in 1..Len(queue) : when[queue[1]] <= when[queue[i]]
  BY <1>1, FirstIsSoonest
<1>3. Len(queue) \in Nat /\ Len(queue) # 0 /\ DOMAIN queue = 1..Len(queue)
  BY <1>1, EmptySeq
<1>4. Head(queue) = queue[1]
  BY <1>1
<1>5. 1 \in DOMAIN queue
  BY <1>3
<1>6. \A i \in DOMAIN queue : queue[i] \in Known /\ when[queue[i]] \in Int
  BY <1>1
<1> QED
  BY <1>2, <1>3, <1>4, <1>5, <1>6 DEF Queued

\* Without its first timer a queue has the others, and is still a heap.
LEMMA WithoutHead ==
  ASSUME NEW S, NEW q \in Seq(S), q # <<>>, NEW w \in [S -> Time],
         Once(q), IsHeap(q, w), NEW r, r = Pop(q, w)
  PROVE  /\ r \in Seq(S) /\ Once(r) /\ IsHeap(r, w)
         /\ Within(r) = Within(q) \ {q[1]}
<1>1. w \in [S -> Int]
  BY HorizonAssumption DEF Time
<1>2. TakesOff(S, q, w, r)
  BY <1>1, PopIs
<1> QED
  BY <1>2 DEF TakesOff

\* The timers that a queue still has to call.
LEMMA PendingIs ==
  ASSUME TimersInv
  PROVE  Pending = Queued /\ Queued = Within(queue) /\ Queued \subseteq Known
<1>1. \A i \in DOMAIN queue : queue[i] \in Known
  BY DEF TimersInv
<1> QED
  BY <1>1 DEF TimersInv, Pending, Queued, Within

-----------------------------------------------------------------------------
(* Each step keeps the invariant.                                          *)

\* A queue is empty at first.
LEMMA InitInv == Init => TimersInv
<1> SUFFICES ASSUME Init  PROVE TimersInv
  OBVIOUS
<1>1. DOMAIN when = {} /\ when \in [{} -> Time] /\ queue \in Seq({}) /\ queue = <<>>
  BY EmptySeq DEF Init
<1>2. Len(queue) = 0 /\ DOMAIN queue = {}
  BY <1>1
<1>3. clock \in Time /\ now = Idle
  BY HorizonAssumption DEF Init, Time
<1> QED
  BY <1>1, <1>2, <1>3 DEF Init, TimersInv, Known, Queued, Once, IsHeap

\* insert() adds a timer that is not known yet.
LEMMA InsertKeeps ==
  ASSUME TimersInv, NEW t \in Timer, NEW at \in Time, Insert(t, at)
  PROVE  TimersInv'
<1>1. t \in Timer \ Known /\ when' = NewWhen(t, at) /\ queue' = Push(queue, when', t)
  BY DEF Insert
<1>2. UNCHANGED <<clock, cancelled, called, deleted, now>>
  BY DEF Insert
<1>3. /\ DOMAIN when' = Known \cup {t} /\ when' \in [Known \cup {t} -> Time]
      /\ queue' \in Seq(Known \cup {t}) /\ Within(queue') = Queued \cup {t}
      /\ Once(queue') /\ IsHeap(queue', when')
  BY <1>1, NewTimer
<1>4. Known' = Known \cup {t} /\ Queued' = Queued \cup {t}
  BY <1>3 DEF Known, Queued, Within
<1> QED
  BY <1>1, <1>2, <1>3, <1>4 DEF TimersInv

\* A timer that is cancelled stays where it is.
LEMMA CancelKeeps ==
  ASSUME TimersInv, NEW t \in Timer, Cancel(t)
  PROVE  TimersInv'
<1>1. cancelled' = cancelled \cup {t} /\ t \in Known
  BY PendingIs DEF Cancel
<1>2. UNCHANGED <<clock, queue, when, called, deleted, now>>
  BY DEF Cancel
<1>3. Known' = Known /\ Queued' = Queued
  BY <1>2 DEF Known, Queued
<1> QED
  BY <1>1, <1>2, <1>3 DEF TimersInv

\* handle_timeout is called with the time it is.
LEMMA WakeUpKeeps ==
  ASSUME TimersInv, WakeUp
  PROVE  TimersInv'
<1>1. now' = clock
  BY DEF WakeUp
<1>2. UNCHANGED <<clock, queue, when, cancelled, called, deleted>>
  BY DEF WakeUp
<1>3. Known' = Known /\ Queued' = Queued
  BY <1>2 DEF Known, Queued
<1>4. clock \in Int
  BY HorizonAssumption DEF TimersInv, Time
<1> QED
  BY <1>1, <1>2, <1>3, <1>4 DEF TimersInv

\* What the loop of handle_timeout does with the first timer: queue' is without
\* it, but has the timer that its callback may have set.
FiredAlone == when' = when /\ Queued' = Queued \ {Head(queue)}
FiredSetting(t, at) ==
  /\ t \in Timer \ Known /\ at \in Time /\ at > clock
  /\ when' = NewWhen(t, at) /\ Queued' = (Queued \ {Head(queue)}) \cup {t}

\* The callback's timer never comes before the timer that called it, so that the
\* pop takes off the one that was called.
LEMMA FireIs ==
  ASSUME TimersInv, Fire
  PROVE  /\ FiredAlone \/ \E t, at : FiredSetting(t, at)
         /\ Known \subseteq Known' /\ Known' \subseteq Timer /\ when' \in [Known' -> Time]
         /\ queue' \in Seq(Known') /\ Once(queue') /\ IsHeap(queue', when')
<1> DEFINE h == Head(queue)
<1>1. /\ now # Idle /\ queue # <<>> /\ h \notin cancelled
      /\ when[h] < now \/ h \in cancelled
  BY DEF Fire, HeadGoes
<1>2. /\ h = queue[1] /\ h \in Queued /\ h \in Known /\ when[h] \in Int
  BY <1>1, HeadIsSoonest
<1>3. /\ when \in [Known -> Time] /\ queue \in Seq(Known) /\ Known \subseteq Timer
      /\ Once(queue) /\ IsHeap(queue, when)
      /\ now \in Int /\ clock \in Int /\ now <= clock
  BY <1>1, HorizonAssumption DEF TimersInv, Time, Idle
<1>4. CASE UNCHANGED <<when, timeout>> /\ queue' = Pop(queue, when)
  <2>1. /\ queue' \in Seq(Known) /\ Once(queue') /\ IsHeap(queue', when)
        /\ Within(queue') = Within(queue) \ {queue[1]}
    BY <1>1, <1>3, <1>4, WithoutHead
  <2>2. Known' = Known /\ Queued' = Queued \ {h}
    BY <1>2, <1>4, <2>1 DEF Known, Queued, Within
  <2> QED
    BY <1>3, <1>4, <2>1, <2>2 DEF FiredAlone
<1>5. ASSUME NEW t \in Timer \ Known, NEW at \in Time, at > clock, when' = NewWhen(t, at),
             queue' = Pop(Push(queue, when', t), when')
      PROVE  /\ FiredSetting(t, at)
             /\ Known \subseteq Known' /\ Known' \subseteq Timer /\ when' \in [Known' -> Time]
             /\ queue' \in Seq(Known') /\ Once(queue') /\ IsHeap(queue', when')
  <2> DEFINE p == Push(queue, when', t)
  <2>1. p = Push(queue, when', t)
    OBVIOUS
  <2> HIDE DEF p
  <2>2. /\ DOMAIN when' = Known \cup {t} /\ when' \in [Known \cup {t} -> Time]
        /\ p \in Seq(Known \cup {t}) /\ Within(p) = Queued \cup {t}
        /\ Once(p) /\ IsHeap(p, when')
        /\ queue # <<>> /\ when[queue[1]] <= at => p # <<>> /\ p[1] = queue[1]
    BY <1>5, <2>1, NewTimer
  <2>3. when[queue[1]] <= at
    <3>1. at \in Int
      BY HorizonAssumption DEF Time
    <3> QED
      BY <1>1, <1>2, <1>3, <1>5, <3>1
  <2>4. p # <<>> /\ p[1] = h
    BY <1>1, <1>2, <2>2, <2>3
  <2>5. /\ queue' \in Seq(Known \cup {t}) /\ Once(queue') /\ IsHeap(queue', when')
        /\ Within(queue') = Within(p) \ {p[1]}
    BY <1>5, <2>1, <2>2, <2>4, WithoutHead
  <2>6. Known' = Known \cup {t}
    BY <2>2 DEF Known
  <2>7. Queued' = (Queued \ {h}) \cup {t}
    <3>1. Queued' = Within(queue')
      BY DEF Queued, Within
    <3>2. t # h
      BY <1>2
    <3> QED
      BY <2>2, <2>4, <2>5, <3>1, <3>2
  <2> QED
    BY <1>3, <1>5, <2>2, <2>5, <2>6, <2>7 DEF FiredSetting
<1>6. \/ UNCHANGED <<when, timeout>> /\ queue' = Pop(queue, when)
      \/ \E t \in Timer \ Known, at \in Time :
           /\ at > clock /\ when' = NewWhen(t, at)
           /\ queue' = Pop(Push(queue, when', t), when')
  BY DEF Fire
<1> QED
  BY <1>4, <1>5, <1>6

\* A timer that is called leaves the queue.
LEMMA FireKeeps ==
  ASSUME TimersInv, Fire
  PROVE  TimersInv'
<1>1. /\ queue # <<>>
      /\ called' = called \cup {Head(queue)} /\ deleted' = deleted \cup {Head(queue)}
  BY DEF Fire, HeadGoes
<1>2. UNCHANGED <<clock, cancelled, now>>
  BY DEF Fire
<1>3. /\ FiredAlone \/ \E t, at : FiredSetting(t, at)
      /\ Known \subseteq Known' /\ Known' \subseteq Timer /\ when' \in [Known' -> Time]
      /\ queue' \in Seq(Known') /\ Once(queue') /\ IsHeap(queue', when')
  BY FireIs
<1>4. Head(queue) \in Known /\ Head(queue) \in Queued
  BY <1>1, HeadIsSoonest
<1>5. Queued' \cap (called' \cup deleted') = {}
  <2>1. Queued \cap (called \cup deleted) = {} /\ called \cup deleted \subseteq Known
    BY DEF TimersInv
  <2>2. CASE FiredAlone
    BY <1>1, <2>1, <2>2 DEF FiredAlone
  <2>3. ASSUME NEW t, NEW at, FiredSetting(t, at)  PROVE Queued' \cap (called' \cup deleted') = {}
    BY <1>1, <1>4, <2>1, <2>3 DEF FiredSetting
  <2> QED
    BY <1>3, <2>2, <2>3
<1> QED
  BY <1>1, <1>2, <1>3, <1>4, <1>5 DEF TimersInv

\* A cancelled timer leaves the queue when it is the first.
LEMMA DiscardKeeps ==
  ASSUME TimersInv, Discard
  PROVE  TimersInv' /\ Queued' = Queued \ {Head(queue)}
<1>1. /\ queue # <<>> /\ queue' = Pop(queue, when)
      /\ deleted' = deleted \cup {Head(queue)}
  BY DEF Discard, HeadGoes
<1>2. UNCHANGED <<clock, when, cancelled, called, now>>
  BY DEF Discard
<1>3. /\ when \in [Known -> Time] /\ queue \in Seq(Known)
      /\ Once(queue) /\ IsHeap(queue, when)
  BY DEF TimersInv
<1>4. /\ queue' \in Seq(Known) /\ Once(queue') /\ IsHeap(queue', when)
      /\ Within(queue') = Within(queue) \ {queue[1]}
  BY <1>1, <1>3, WithoutHead
<1>5. Head(queue) = queue[1] /\ Head(queue) \in Known
  BY <1>1, HeadIsSoonest
<1>6. Known' = Known /\ Queued' = Queued \ {Head(queue)}
  BY <1>2, <1>4, <1>5 DEF Known, Queued, Within
<1> QED
  BY <1>1, <1>2, <1>4, <1>5, <1>6 DEF TimersInv

\* handle_timeout returns.
LEMMA DoneKeeps ==
  ASSUME TimersInv, Done
  PROVE  TimersInv'
<1>1. now' = Idle
  BY DEF Done
<1>2. UNCHANGED <<clock, queue, when, cancelled, called, deleted>>
  BY DEF Done
<1>3. Known' = Known /\ Queued' = Queued
  BY <1>2 DEF Known, Queued
<1> QED
  BY <1>1, <1>2, <1>3 DEF TimersInv, Idle, Time

\* Time goes on.
LEMMA TickKeeps ==
  ASSUME TimersInv, Tick
  PROVE  TimersInv'
<1>1. clock < Horizon /\ clock' = clock + 1
  BY DEF Tick
<1>2. UNCHANGED <<queue, when, cancelled, called, deleted, now>>
  BY DEF Tick
<1>3. Known' = Known /\ Queued' = Queued
  BY <1>2 DEF Known, Queued
<1>4. clock' \in Time /\ (now # Idle => now <= clock')
  BY <1>1, HorizonAssumption DEF TimersInv, Time, Idle
<1> QED
  BY <1>2, <1>3, <1>4 DEF TimersInv

\* Every step of a queue keeps it a heap of timers that are still to be called.
LEMMA StepKeepsInv == TimersInv /\ [Next]_vars => TimersInv'
<1> SUFFICES ASSUME TimersInv, [Next]_vars  PROVE TimersInv'
  OBVIOUS
<1>1. CASE UNCHANGED vars
  <2>1. Known' = Known /\ Queued' = Queued
    BY <1>1 DEF vars, Known, Queued
  <2> QED
    BY <1>1, <2>1 DEF vars, TimersInv
<1>2. ASSUME NEW t \in Timer, Cancel(t)  PROVE TimersInv'
  BY <1>2, CancelKeeps
<1>3. ASSUME NEW t \in Timer, NEW at \in Time, Insert(t, at)  PROVE TimersInv'
  BY <1>3, InsertKeeps
<1>4. CASE WakeUp
  BY <1>4, WakeUpKeeps
<1>5. CASE Fire
  BY <1>5, FireKeeps
<1>6. CASE Discard
  BY <1>6, DiscardKeeps
<1>7. CASE Done
  BY <1>7, DoneKeeps
<1>8. CASE Tick
  BY <1>8, TickKeeps
<1> QED
  BY <1>1, <1>2, <1>3, <1>4, <1>5, <1>6, <1>7, <1>8 DEF Next

\* In every reachable state.
LEMMA AlwaysTimersInv == Spec => []TimersInv
BY InitInv, StepKeepsInv, PTL DEF Spec

-----------------------------------------------------------------------------
(* What a queue promises.                                                  *)

\* handle_timeout returns only when the first timer is not due and not
\* cancelled, and then, the array being a heap, none is due.
THEOREM NothingDueIsLeft == Spec => AllDueAreCalled
<1>1. ASSUME TimersInv, Next, now # Idle, now' = Idle
      PROVE  \A t \in Queued' \ cancelled' : when'[t] >= now
  <2>1. Done
    BY <1>1 DEF Next, Cancel, Insert, WakeUp, Fire, Discard, Tick
  <2>2. ~HeadGoes /\ UNCHANGED <<queue, when, cancelled>> /\ Queued' = Queued
    BY <2>1 DEF Done, Queued
  <2>3. ASSUME NEW t \in Queued \ cancelled  PROVE when[t] >= now
    <3>1. queue # <<>>
      BY <2>3 DEF Queued
    <3>2. when[Head(queue)] <= when[t] /\ when[Head(queue)] \in Int /\ when[t] \in Int
      BY <1>1, <2>3, <3>1, HeadIsSoonest
    <3>3. ~(when[Head(queue)] < now)
      BY <1>1, <2>2, <3>1 DEF HeadGoes
    <3>4. now \in Int
      BY <1>1, HorizonAssumption DEF TimersInv, Time, Idle
    <3> QED
      BY <3>2, <3>3, <3>4
  <2> QED
    BY <2>2, <2>3
<1>2. TimersInv /\ [Next]_vars =>
        [now # Idle /\ now' = Idle => \A t \in Queued' \ cancelled' : when'[t] >= now]_vars
  BY <1>1
<1> QED
  BY <1>2, AlwaysTimersInv, PTL DEF Spec, AllDueAreCalled

\* The timers that are to be called, as Timers has them.
Promised == [t \in Pending \ cancelled |-> when[t]]

\* At first there is none.
LEMMA InitRefines == Init => Abstract!Init
<1> SUFFICES ASSUME Init  PROVE clock = 0 /\ Promised = [t \in {} |-> 0]
  BY DEF Abstract!Init, Promised
<1>1. Pending = {}
  BY DEF Init, Pending, Queued
<1> QED
  BY <1>1 DEF Init, Promised

\* Each step calls a timer as Timers has it, sets or cancels one, or changes
\* nothing that Timers speaks of.
LEMMA StepRefines ==
  TimersInv /\ TimersInv' /\ [Next]_vars => [Abstract!Next]_(Abstract!vars)
<1> SUFFICES ASSUME TimersInv, TimersInv', [Next]_vars
             PROVE  Abstract!Next \/ UNCHANGED <<clock, Promised>>
  BY DEF Abstract!vars, Promised
<1>1. /\ Pending = Queued /\ Queued \subseteq Known /\ Known \subseteq Timer
      /\ when \in [Known -> Time] /\ clock \in Int /\ cancelled \subseteq Known
      /\ Queued \cap (called \cup deleted) = {}
  BY PendingIs, HorizonAssumption DEF TimersInv, Time
<1>2. Pending' = Queued'
  <2>1. Queued' \cap (called' \cup deleted') = {}
    BY DEF TimersInv
  <2> QED
    BY <2>1 DEF Pending
<1>3. DOMAIN Promised = Queued \ cancelled /\ \A u \in Queued \ cancelled : Promised[u] = when[u]
  BY <1>1 DEF Promised
<1>4. Promised' = [u \in Queued' \ cancelled' |-> when'[u]]
  BY <1>2 DEF Promised
<1>5. CASE UNCHANGED vars
  BY <1>5 DEF vars, Promised, Pending, Queued
<1>6. ASSUME NEW t \in Timer, Cancel(t)  PROVE Abstract!Next
  <2>1. /\ t \in Queued \ cancelled /\ cancelled' = cancelled \cup {t}
        /\ when' = when /\ clock' = clock /\ Queued' = Queued
    BY <1>1, <1>6 DEF Cancel, Queued
  <2>2. Promised' = [u \in (Queued \ cancelled) \ {t} |-> when[u]]
    BY <1>4, <2>1
  <2>3. Promised' = [u \in DOMAIN Promised \ {t} |-> Promised[u]]
    BY <1>3, <2>2
  <2>4. Abstract!Cancel(t)
    BY <1>3, <2>1, <2>3 DEF Abstract!Cancel, Abstract!Waiting, Abstract!Without, Promised
  <2> QED
    BY <2>4 DEF Abstract!Next
<1>7. ASSUME NEW t \in Timer, NEW at \in Time, Insert(t, at)  PROVE Abstract!Next
  <2>1. /\ t \in Timer \ Known /\ at >= clock /\ when' = NewWhen(t, at)
        /\ queue' = Push(queue, when', t) /\ cancelled' = cancelled /\ clock' = clock
    BY <1>7 DEF Insert
  <2>2. Within(queue') = Queued \cup {t}
    BY <2>1, NewTimer
  <2>3. Queued' = Queued \cup {t}
    BY <2>2 DEF Queued, Within
  <2>4. t \notin DOMAIN Promised /\ t \notin cancelled
    BY <1>1, <1>3, <2>1
  <2>5. Promised' = [u \in (Queued \ cancelled) \cup {t} |-> IF u = t THEN at ELSE when[u]]
    <3>1. Queued' \ cancelled' = (Queued \ cancelled) \cup {t}
      BY <2>1, <2>3, <2>4
    <3>2. \A u \in Known \cup {t} : when'[u] = IF u = t THEN at ELSE when[u]
      BY <2>1 DEF NewWhen
    <3> QED
      BY <1>1, <1>4, <3>1, <3>2
  <2>6. Promised' = Abstract!With(Promised, t, at)
    BY <1>3, <2>5 DEF Abstract!With
  <2>7. at \in clock..Horizon
    BY <1>1, <2>1, HorizonAssumption DEF Time
  <2>8. Abstract!Set(t, at)
    BY <2>1, <2>4, <2>6 DEF Abstract!Set, Abstract!Waiting, Promised
  <2> QED
    BY <2>7, <2>8 DEF Abstract!Next
<1>8. ASSUME WakeUp \/ Done  PROVE UNCHANGED <<clock, Promised>>
  BY <1>8 DEF WakeUp, Done, Promised, Pending, Queued
<1>9. ASSUME Tick  PROVE Abstract!Next
  <2>1. Promised' = Promised /\ clock' = clock + 1
    BY <1>9 DEF Tick, Promised, Pending, Queued
  <2> QED
    BY <2>1 DEF Abstract!Next, Abstract!Tick, Promised
<1>10. ASSUME Discard  PROVE UNCHANGED <<clock, Promised>>
  <2>1. Queued' = Queued \ {Head(queue)}
    BY <1>10, DiscardKeeps
  <2>2. UNCHANGED <<clock, when, cancelled>> /\ Head(queue) \in cancelled
    BY <1>10 DEF Discard
  <2>3. Queued' \ cancelled' = Queued \ cancelled
    BY <2>1, <2>2
  <2> QED
    BY <1>1, <1>4, <2>2, <2>3 DEF Promised
<1>11. ASSUME NEW h, h = Head(queue), Fire  PROVE Abstract!Next
  <2>1. /\ now # Idle /\ queue # <<>> /\ h \notin cancelled /\ when[h] < now
        /\ UNCHANGED <<clock, cancelled>>
    BY <1>11 DEF Fire, HeadGoes
  <2>2. /\ h \in Queued /\ h \in Timer
        /\ \A t \in Queued : when[h] <= when[t]
        /\ when[h] \in Int
    BY <1>1, <1>11, <2>1, HeadIsSoonest
  <2>3. when[h] < clock
    <3>1. now \in Int /\ now <= clock
      BY <2>1, HorizonAssumption DEF TimersInv, Time, Idle
    <3> QED
      BY <1>1, <2>1, <2>2, <3>1
  <2>4. FiredAlone \/ \E t, at : FiredSetting(t, at)
    BY <1>11, FireIs
  <2> DEFINE less == [u \in DOMAIN Promised \ {h} |-> Promised[u]]
  <2>5. /\ h \in DOMAIN Promised /\ Promised[h] < clock
        /\ \A u \in DOMAIN Promised : Promised[h] <= Promised[u]
    BY <1>3, <2>1, <2>2, <2>3
  <2>6. ASSUME FiredAlone  PROVE Promised' = less
    <3>1. Queued' = Queued \ {h} /\ when' = when
      BY <1>11, <2>6 DEF FiredAlone
    <3>2. Queued' \ cancelled' = (Queued \ cancelled) \ {h}
      BY <2>1, <3>1
    <3> QED
      BY <1>3, <1>4, <3>1, <3>2
  <2>7. ASSUME NEW t, NEW at, FiredSetting(t, at)
        PROVE  /\ t \in Timer \ DOMAIN Promised /\ at \in clock..Horizon
               /\ Promised' = Abstract!With(less, t, at)
    <3>1. /\ t \in Timer \ Known /\ at \in Time /\ at > clock
          /\ when' = NewWhen(t, at) /\ Queued' = (Queued \ {h}) \cup {t}
      BY <1>11, <2>7 DEF FiredSetting
    <3>2. t \notin cancelled /\ t \notin DOMAIN Promised
      BY <1>1, <1>3, <3>1
    <3>3. Queued' \ cancelled' = ((Queued \ cancelled) \ {h}) \cup {t}
      BY <2>1, <3>1, <3>2
    <3>4. \A u \in Known \cup {t} : when'[u] = IF u = t THEN at ELSE when[u]
      BY <3>1 DEF NewWhen
    <3>5. Promised' = [u \in ((Queued \ cancelled) \ {h}) \cup {t} |-> IF u = t THEN at ELSE when[u]]
      BY <1>1, <1>4, <3>3, <3>4
    <3>6. Promised' = Abstract!With(less, t, at)
      BY <1>3, <3>5 DEF Abstract!With
    <3>7. at \in clock..Horizon
      BY <1>1, <3>1, HorizonAssumption DEF Time
    <3> QED
      BY <3>1, <3>2, <3>6, <3>7
  <2>8. Abstract!Call(h)
    BY <2>1, <2>4, <2>5, <2>6, <2>7 DEF Abstract!Call, Abstract!Waiting, Abstract!Without, Promised
  <2> QED
    BY <2>2, <2>8 DEF Abstract!Next
<1> QED
  BY <1>5, <1>6, <1>7, <1>8, <1>9, <1>10, <1>11 DEF Next

\* The queue does what Timers says: a timer is called once, in time and soonest
\* first, unless it is cancelled.
THEOREM QueueImplementsTimers == Spec => ImplementsTimers
<1>1. TimersInv /\ TimersInv' /\ [Next]_vars => [Abstract!Next]_(Abstract!vars)
  BY StepRefines
<1> QED
  BY <1>1, InitRefines, AlwaysTimersInv, PTL DEF Spec, ImplementsTimers, Abstract!Spec
=============================================================================
