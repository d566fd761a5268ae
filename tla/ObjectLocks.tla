---------------------------- MODULE ObjectLocks ----------------------------
(***************************************************************************)
(* The locks of a game server on the shared objects of its age             *)
(* (GameState.cc, plNetMsgTestAndSet).  A client asks for a lock before it *)
(* lets its player use an object, and is granted it or refused.  A lock    *)
(* that is not given back is cleared by a timer; the timer of an earlier   *)
(* grant stays in the queue when the lock is given back, and is told from  *)
(* the current one by the lock's sequence number.                          *)
(*                                                                         *)
(* lockseq is 32 bits wide and a timer lives five seconds: it is unbounded *)
(* here, since no age grants a lock 2^32 times in that time.               *)
(***************************************************************************)
EXTENDS Integers, FiniteSets

CONSTANTS
  Ki,           \* players in the age
  NoKi,         \* m_kinum = 0, a connection that never got through join
  Lock,         \* the keys of the objects
  Footstep,     \* those whose name holds "Footstep" (GRANT_ALL_FOOTSTEPS)
  MAX_LOCK_TIME,
  Horizon,      \* bound: the time runs up to it, and locks are granted while
                \* there is time to clear them
  MaxGrants     \* bound: how often each lock is granted

ASSUME KiAssumption == NoKi \notin Ki
ASSUME FootstepAssumption == Footstep \subseteq Lock
ASSUME TimeAssumption == MAX_LOCK_TIME \in Nat /\ Horizon \in Nat /\ MaxGrants \in Nat

VARIABLES
  clock,     \* gettimeofday
  who,       \* ObjectLock::who
  lockseq,   \* ObjectLock::lockseq
  timers,    \* the ClearLockTimers in m_timers
  lease      \* what the clients know: when each was granted a lock that it has
             \* not given back since

lockVars == <<clock, who, lockseq, timers, lease>>

Never == -1
Asker == Ki \cup {NoKi}

-----------------------------------------------------------------------------
Room(l) == clock + MAX_LOCK_TIME < Horizon /\ lockseq[l] < MaxGrants
Granted(l, k) == lease' = [lease EXCEPT ![l][k] = clock]

MutTryLock(l, k) ==                     \* a slip: no timer
  /\ l \notin Footstep /\ who[l] = NoKi /\ Room(l)
  /\ who' = [who EXCEPT ![l] = k]
  /\ lockseq' = [lockseq EXCEPT ![l] = @ + 1]
  /\ Granted(l, k)
  /\ UNCHANGED <<clock, timers>>

\* try_lock, granted; a lock nobody asked for before is made on the way.  A
\* lock that is held is refused, to its holder too, and nothing changes.
TryLock(l, k) ==
  /\ l \notin Footstep /\ who[l] = NoKi /\ Room(l)
  /\ who' = [who EXCEPT ![l] = k]
  /\ lockseq' = [lockseq EXCEPT ![l] = @ + 1]
  /\ timers' = timers \cup {[lock |-> l, lockseq |-> lockseq'[l], when |-> clock + MAX_LOCK_TIME]}
  /\ Granted(l, k)
  /\ UNCHANGED clock

\* every client may walk on the same sand
TryFootstep(l, k) ==
  /\ l \in Footstep
  /\ Granted(l, k)
  /\ UNCHANGED <<clock, who, lockseq, timers>>

\* clear_lock: only the holder's request has an effect
ClearLock(l, k) ==
  /\ who' = IF l \notin Footstep /\ who[l] = k THEN [who EXCEPT ![l] = NoKi] ELSE who
  /\ lease' = [lease EXCEPT ![l][k] = Never]
  /\ UNCHANGED <<clock, lockseq, timers>>

\* ClearLockTimer::callback clears a lock held by somebody, under this timer's
\* sequence number
MutClears(t, l) == t.lock = l /\ who[l] # NoKi     \* a slip: any grant's timer
Clears(t, l) == t.lock = l /\ who[l] # NoKi /\ lockseq[l] = t.lockseq

\* handle_timeout runs the callbacks of all that are due
Due == {t \in timers : t.when < clock}
HandleTimeout ==
  /\ Due # {}
  /\ who' = [l \in Lock |-> IF \E t \in Due : Clears(t, l) THEN NoKi ELSE who[l]]
  /\ timers' = timers \ Due
  /\ UNCHANGED <<clock, lockseq, lease>>

Tick == clock < Horizon /\ clock' = clock + 1 /\ UNCHANGED <<who, lockseq, timers, lease>>

-----------------------------------------------------------------------------
LocksInit ==
  /\ clock = 0
  /\ who = [l \in Lock |-> NoKi]
  /\ lockseq = [l \in Lock |-> 0]
  /\ timers = {}
  /\ lease = [l \in Lock |-> [k \in Asker |-> Never]]

TestAndSet(l, k) == TryLock(l, k) \/ TryFootstep(l, k) \/ ClearLock(l, k)

LocksNext ==
  \/ \E l \in Lock, k \in Asker : TestAndSet(l, k)
  \/ HandleTimeout
  \/ Tick

LocksSpec == LocksInit /\ [][LocksNext]_lockVars

\* the clock moves, and the select loop calls handle_timeout
FairLocks == LocksSpec /\ WF_lockVars(Tick) /\ WF_lockVars(HandleTimeout)

-----------------------------------------------------------------------------
ClearLockTimer == [lock: Lock, lockseq: Nat, when: Nat]

\* The types of the locks and their timers; lockseq only counts up from 0.
TypeOK ==
  /\ clock \in Nat
  /\ who \in [Lock -> Asker]
  /\ lockseq \in [Lock -> Nat]
  /\ timers \subseteq ClearLockTimer
  /\ lease \in [Lock -> [Asker -> Nat \cup {Never}]]

\* a player was granted the lock, has not given it back, and its time is not up
Entitled(l, k) == lease[l][k] # Never /\ clock <= lease[l][k] + MAX_LOCK_TIME

\* Two players never both have the use of an object: whoever was granted the
\* lock (the server's reply to plNetMsgTestAndSet) keeps others from it for
\* MAX_LOCK_TIME or until the lock is given back, whatever timers of earlier
\* grants go off in the meantime.
OneEntitled ==
  \A l \in Lock \ Footstep : \A j, k \in Ki :
    Entitled(l, j) /\ Entitled(l, k) => j = k

\* A lock that is held has the timer that will clear it in the queue, under
\* its current sequence number, so no player who vanishes keeps it for ever.
HeldIsTimed ==
  \A l \in Lock : who[l] # NoKi =>
    \E t \in timers : t.lock = l /\ t.lockseq = lockseq[l]

\* A grant ends: given back, or cleared when its time is up.
GrantEnds ==
  \A l \in Lock : \A n \in 1..MaxGrants :
    who[l] # NoKi /\ lockseq[l] = n ~> who[l] = NoKi \/ lockseq[l] # n
=============================================================================
