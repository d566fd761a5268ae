------------------------------- MODULE Timers -------------------------------
(***************************************************************************)
(* What a timer queue promises (the comment on Timer in moss_serv.h): the  *)
(* callback of a timer is called once, when its time has passed, unless    *)
(* the timer has been cancelled before; soonest first.                     *)
(***************************************************************************)
EXTENDS Integers

CONSTANTS Timer, Horizon

VARIABLES clock, pending   \* the time each timer is to be called at
vars == <<clock, pending>>

Waiting == DOMAIN pending
Without(t) == [u \in Waiting \ {t} |-> pending[u]]
With(p, t, at) == [u \in DOMAIN p \cup {t} |-> IF u = t THEN at ELSE p[u]]

Set(t, at) == t \notin Waiting /\ pending' = With(pending, t, at) /\ UNCHANGED clock
Cancel(t) == t \in Waiting /\ pending' = Without(t) /\ UNCHANGED clock

Call(t) ==
  /\ t \in Waiting /\ pending[t] < clock
  /\ \A u \in Waiting : pending[t] <= pending[u]
  /\ \/ pending' = Without(t)
     \/ \E u \in Timer \ Waiting, at \in clock..Horizon : pending' = With(Without(t), u, at)
  /\ UNCHANGED clock

Tick == clock' = clock + 1 /\ UNCHANGED pending

Init == clock = 0 /\ pending = [t \in {} |-> 0]
Next ==
  \/ Tick
  \/ \E t \in Timer : Cancel(t) \/ Call(t) \/ \E at \in clock..Horizon : Set(t, at)

Spec == Init /\ [][Next]_vars
=============================================================================
