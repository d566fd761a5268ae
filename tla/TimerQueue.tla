----------------------------- MODULE TimerQueue -----------------------------
(***************************************************************************)
(* Server::TimerQueue (moss_serv.cc, moss_serv.h): the timers of a server, *)
(* kept on its list of connections so that the select loop wakes up for    *)
(* the soonest.  handle_timeout runs the callback of every timer that is   *)
(* due; a callback may set another timer (the games of GameState.cc do)    *)
(* while the timer that called it is still in the heap.                    *)
(* The wall clock (gettimeofday) is assumed not to be set back.            *)
(***************************************************************************)
EXTENDS TimerHeap

CONSTANTS
  Timer,         \* timer objects
  Horizon        \* bound: the times are 0..Horizon

ASSUME HorizonAssumption == Horizon \in Nat

Time == 0..Horizon
Idle == Horizon + 1      \* m_interval = 0, or no handle_timeout under way

VARIABLES
  clock,       \* what gettimeofday returns
  queue,       \* m_queue
  when,        \* m_when of every timer ever set
  cancelled,   \* timers that have m_cancelled
  called,      \* timers whose callback has run
  deleted,     \* timers that have been deleted
  timeout,     \* m_timeout, when the select loop is to wake up
  now          \* the time handle_timeout was called with, while it runs

vars == <<clock, queue, when, cancelled, called, deleted, timeout, now>>

Known == DOMAIN when
Queued == {queue[i] : i \in DOMAIN queue}
\* a timer's pointer may be used to cancel it until it fires
Pending == Queued \ (called \cup deleted)

SetTimeout(q, w) == IF q = <<>> THEN Idle ELSE w[q[1]]
NewWhen(t, at) == [u \in Known \cup {t} |-> IF u = t THEN at ELSE when[u]]

MutInsert(t, at) ==   \* a slip: no set_timeout
  /\ now = Idle /\ t \notin Known /\ at >= clock
  /\ when' = NewWhen(t, at)
  /\ queue' = Push(queue, when', t)
  /\ UNCHANGED <<clock, cancelled, called, deleted, timeout, now>>

Insert(t, at) ==
  /\ now = Idle /\ t \notin Known /\ at >= clock
  /\ when' = NewWhen(t, at)
  /\ queue' = Push(queue, when', t)
  /\ timeout' = SetTimeout(queue', when')
  /\ UNCHANGED <<clock, cancelled, called, deleted, now>>

Cancel(t) ==
  /\ now = Idle /\ t \in Pending \ cancelled
  /\ cancelled' = cancelled \cup {t}
  /\ UNCHANGED <<clock, queue, when, called, deleted, timeout, now>>

\* select() returned because nothing happened until after m_timeout
WakeUp ==
  /\ now = Idle /\ timeout < clock
  /\ now' = clock
  /\ UNCHANGED <<clock, queue, when, cancelled, called, deleted, timeout>>

\* the condition of handle_timeout's loop
HeadGoes ==
  now # Idle /\ queue # <<>> /\ (when[Head(queue)] < now \/ Head(queue) \in cancelled)

\* the loop of handle_timeout: the callback, which may set a timer (and so
\* m_timeout), then pop_heap, pop_back, and delete of the timer that was called;
\* none of the program's callbacks cancels another timer
Fire ==
  /\ HeadGoes /\ Head(queue) \notin cancelled
  /\ called' = called \cup {Head(queue)}
  /\ deleted' = deleted \cup {Head(queue)}
  /\ \/ UNCHANGED <<when, timeout>> /\ queue' = Pop(queue, when)
     \/ \E t \in Timer \ Known, at \in Time :
          /\ at > clock
          /\ when' = NewWhen(t, at)
          /\ LET pushed == Push(queue, when', t)
             IN /\ timeout' = SetTimeout(pushed, when')
                /\ queue' = Pop(pushed, when')
  /\ UNCHANGED <<clock, cancelled, now>>

Discard ==
  /\ HeadGoes /\ Head(queue) \in cancelled
  /\ queue' = Pop(queue, when)
  /\ deleted' = deleted \cup {Head(queue)}
  /\ UNCHANGED <<clock, when, cancelled, called, timeout, now>>

MutDone ==   \* a slip: not every timer that is due is looked at
  /\ now # Idle
  /\ now' = Idle
  /\ timeout' = SetTimeout(queue, when)
  /\ UNCHANGED <<clock, queue, when, cancelled, called, deleted>>

Done ==
  /\ now # Idle /\ ~HeadGoes
  /\ now' = Idle
  /\ timeout' = SetTimeout(queue, when)
  /\ UNCHANGED <<clock, queue, when, cancelled, called, deleted>>

Tick ==
  /\ clock < Horizon
  /\ clock' = clock + 1
  /\ UNCHANGED <<queue, when, cancelled, called, deleted, timeout, now>>

Init ==
  /\ clock = 0
  /\ queue = <<>> /\ when = [t \in {} |-> 0]
  /\ cancelled = {} /\ called = {} /\ deleted = {}
  /\ timeout = Idle /\ now = Idle

Next ==
  \/ \E t \in Timer : Cancel(t) \/ \E at \in Time : Insert(t, at)
  \/ WakeUp \/ Fire \/ Discard \/ Done
  \/ Tick

Spec == Init /\ [][Next]_vars

\* the clock moves and the select loop turns
FairSpec == Spec /\ WF_vars(WakeUp \/ Fire \/ Discard \/ Done) /\ WF_vars(Tick)
=============================================================================
