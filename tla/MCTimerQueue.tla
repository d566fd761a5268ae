---------------------------- MODULE MCTimerQueue ----------------------------
(* The timer queue of a server, and what it promises.                      *)
EXTENDS TimerQueue

\* handle_timeout leaves nothing behind that was due when it was called, also
\* when cancelled timers lie on top of others.
AllDueAreCalled ==
  [][now # Idle /\ now' = Idle => \A t \in Queued' \ cancelled' : when'[t] >= now]_vars

\* "called at expiration time unless the timer has been cancelled", as a step
\* of Timers: each is called once, in time, soonest first.
Abstract == INSTANCE Timers WITH pending <- [t \in Pending \ cancelled |-> when[t]]
ImplementsTimers == Abstract!Spec

\* Every timer is called in the end if it is not cancelled, since set_timeout
\* never lets the select loop sleep for longer.
EveryTimerEnds ==
  \A t \in Timer :
    t \in Known /\ (t \in Known => when[t] < Horizon) ~> t \in called \cup cancelled
=============================================================================
