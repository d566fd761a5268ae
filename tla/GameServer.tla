----------------------------- MODULE GameServer -----------------------------
(***************************************************************************)
(* One MOSS game server: the thread that runs one age instance             *)
(* (GameServer.cc, driven by the select loop of moss_serv.cc).             *)
(*                                                                         *)
(* Tracking announces a player with TRACK_ADD_PLAYER; the server registers *)
(* it with a JoinTimer that lives two minutes.  The dispatcher hands over  *)
(* the player's connection, already negotiated up to its JoinAgeRequest,   *)
(* through a queue shared by the two threads.  The request is answered by  *)
(* scanning the timers for the registration.  An age that is empty and     *)
(* expects nobody arms a shutdown timer, and when it fires the server asks *)
(* tracking for leave to stop (a TRACK_GAME_BYE that is not final).        *)
(*                                                                         *)
(* Time is abstract: a timer that is in the queue may expire at any step,  *)
(* and timers with the same delay expire in the order they were set.       *)
(***************************************************************************)
EXTENDS Integers, Sequences, FiniteSets, Functions

CONSTANTS
  Ki,           \* KI numbers; a player has one, and so has the account behind it
  NoKi,         \* m_kinum = 0: the connection has not got through join
  MaxAdds,      \* bound: how many times tracking announces a player
  MaxArrivals   \* bound: how many connections the dispatcher hands over

ASSUME KiAssumption == NoKi \notin Ki
ASSUME BoundAssumption == MaxAdds \in Nat /\ MaxArrivals \in Nat

\* GameServer::state_t, the states a handed-over connection can be in
JOIN_REQ               == 3
JOINED                 == 4
HAVE_CLONE             == 5
MEMBERS_REQUESTED      == 6
STATE_REQUESTED        == 7
IN_GAME                == 8
KILL_AFTER_QUEUE_EMPTY == 255

VARIABLES
  phase,          \* the thread: running, closing (shutdown() done, draining), quit,
                  \* reaped (deleted by the ThreadManager), undefined (used freed memory)
  stop,           \* request_shutdown() was called by the dispatcher
  queue,          \* m_client_queue: connections waiting to be taken over
  newconns,       \* the swapped-out queue get_queued_connections is working through
  arrivals,       \* connections handed over so far; their place in m_conns' order
  conns,          \* m_conns without m_timers and m_vault
  joinTimers,     \* the JoinTimers in m_timers, keyed by the order they were set
  adds,           \* JoinTimers set so far
  joiners,        \* m_joiners
  shutdownTimer,  \* none (m_shutdown_timer NULL), armed, fired (m_timed_shutdown)
  owner,          \* m_group_owner
  told,           \* players tracking was told are here (TrackGamePlayerInfo)
  bye             \* a TRACK_GAME_BYE that is not final awaits tracking's answer

loopVars   == <<phase, stop>>
queueVars  == <<queue, newconns, arrivals>>
timerVars  == <<joinTimers, adds, joiners>>
playerVars == <<conns, owner, told>>
vars == <<loopVars, queueVars, timerVars, playerVars, shutdownTimer, bye>>

-----------------------------------------------------------------------------
Connection == [who: Ki, kinum: Ki \cup {NoKi},
               state: {JOIN_REQ, JOINED, HAVE_CLONE, MEMBERS_REQUESTED,
                       STATE_REQUESTED, IN_GAME, KILL_AFTER_QUEUE_EMPTY},
               in_shutdown: BOOLEAN,
               reply: {"none", "NO_ERROR", "ERROR_AUTH_TOO_OLD"},
               isOwner: BOOLEAN,                  \* its last PlNetMsgGroupOwner
               members: SUBSET (Ki \cup {NoKi}),  \* the members its client was told of
               asked: BOOLEAN]   \* auxiliary, no field of the code's: the client
                                 \* asked for the member list since its last join

(* An operator whose name begins with Mut is not the code but a slip the   *)
(* code could have had: it is put in the place of the definition after it  *)
(* to see that the properties notice.                                      *)

\* handed over one message too early, before the client's JoinAgeRequest
MutArriving(who) ==
  [who |-> who, kinum |-> NoKi, state |-> JOIN_REQ - 1, in_shutdown |-> FALSE,
   reply |-> "none", isOwner |-> FALSE, members |-> {}, asked |-> FALSE]

\* A connection as the dispatcher leaves it; `who` is the player whose client
\* opened it, and whose KI number and account UUID its requests carry.
Arriving(who) ==
  [who |-> who, kinum |-> NoKi, state |-> JOIN_REQ, in_shutdown |-> FALSE,
   reply |-> "none", isOwner |-> FALSE, members |-> {}, asked |-> FALSE]

Players(cs) == {cs[c].kinum : c \in DOMAIN cs} \ {NoKi}
Live(timers) == {t \in DOMAIN timers : ~timers[t].cancelled}
Nothing == [x \in {} |-> x]
First(S) == CHOOSE c \in S : \A d \in S : c <= d

\* set_state: a connection being killed keeps that state
SetState(conn, s) ==
  IF conn.state = KILL_AFTER_QUEUE_EMPTY THEN conn ELSE [conn EXCEPT !.state = s]

\* set up to be dropped once its message queue has drained
Killed(conn) == [conn EXCEPT !.in_shutdown = TRUE, !.state = KILL_AFTER_QUEUE_EMPTY]

MutCancelShutdownTimer(timer) == timer   \* forgotten
CancelShutdownTimer(timer) == IF timer = "armed" THEN "none" ELSE timer

\* off by one: m_conns also holds m_timers and m_vault
MutMaybeStartShutdownTimer(cs, j, timer) ==
  IF Cardinality(DOMAIN cs) = 1 /\ j = 0 /\ timer = "none" THEN "armed" ELSE timer

MaybeStartShutdownTimer(cs, j, timer) ==
  IF DOMAIN cs = {} /\ j = 0 /\ timer = "none" THEN "armed" ELSE timer

-----------------------------------------------------------------------------
(* conn_shutdown of a client connection: hand the age to another player,   *)
(* tell the other clients, tell tracking, forget the connection.           *)

Heirs(cs, c) == {d \in DOMAIN cs \ {c} : cs[d].state >= JOINED}
Inherits(cs, own, c, d) ==
  own # NoKi /\ cs[c].kinum = own /\ Heirs(cs, c) # {} /\ d = First(Heirs(cs, c))

MutOwnerStays(cs, own, c) == own   \* nobody looks for the next owner

OwnerAfter(cs, own, c) ==
  IF own = NoKi \/ cs[c].kinum # own THEN own
  ELSE IF Heirs(cs, c) = {} THEN NoKi
  ELSE cs[First(Heirs(cs, c))].kinum

ConnsAfter(cs, own, c) ==
  [d \in DOMAIN cs \ {c} |->
     [cs[d] EXCEPT !.isOwner = @ \/ Inherits(cs, own, c, d),
                   !.members = IF cs[d].state >= MEMBERS_REQUESTED /\ cs[c].kinum # NoKi
                                 THEN @ \ {cs[c].kinum} ELSE @]]

\* tracking is not told that the player left
MutConnShutdown(c) ==
  /\ conns' = ConnsAfter(conns, owner, c)
  /\ owner' = OwnerAfter(conns, owner, c)
  /\ told' = told
  /\ shutdownTimer' = MaybeStartShutdownTimer(conns', joiners, shutdownTimer)

ConnShutdown(c) ==
  /\ conns' = ConnsAfter(conns, owner, c)
  /\ owner' = OwnerAfter(conns, owner, c)
  /\ told' = told \ {conns[c].kinum}
  /\ shutdownTimer' = MaybeStartShutdownTimer(conns', joiners, shutdownTimer)

-----------------------------------------------------------------------------
(* handle_join_request for connection c of cs, whose client plays k.       *)

Registrations(k) == {t \in DOMAIN joinTimers : joinTimers[t].kinum = k}
Replied(cs, c, result) == [cs EXCEPT ![c].reply = result]
\* other connections that still claim the arriving player's KI number
Stale(cs, c, k) == {d \in DOMAIN cs \ {c} : cs[d].kinum = k}
MutEvicted(cs, c, k) == cs   \* the player's old connection stays
Evicted(cs, c, k) ==
  IF Stale(cs, c, k) = {} THEN cs ELSE ConnsAfter(cs, owner, First(Stale(cs, c, k)))
OwnerEvicted(cs, c, k) ==
  IF Stale(cs, c, k) = {} THEN owner ELSE OwnerAfter(cs, owner, First(Stale(cs, c, k)))

\* only players wholly in the age hear of the newcomer
MutJoined(cs, own, c, k) ==
  [d \in DOMAIN cs |->
     IF d = c
       THEN [SetState(cs[c], JOINED) EXCEPT !.kinum = k, !.isOwner = (own = NoKi),
                                            !.asked = FALSE]
       ELSE [cs[d] EXCEPT !.members = IF cs[d].state >= IN_GAME THEN @ \cup {k} ELSE @]]

\* The connection becomes player k's, and the members are told.  The client
\* keeps the member list an earlier join brought it, but its state is below
\* MEMBERS_REQUESTED again: it is sent no updates until it asks or moves on.
Joined(cs, own, c, k) ==
  [d \in DOMAIN cs |->
     IF d = c
       THEN [SetState(cs[c], JOINED) EXCEPT !.kinum = k, !.isOwner = (own = NoKi),
                                            !.asked = FALSE]
       ELSE [cs[d] EXCEPT !.members =
               IF cs[d].state >= MEMBERS_REQUESTED THEN @ \cup {k} ELSE @]]

\* The scan stops at the first registration with this KI number and account,
\* expired ones are gone from the queue, cancelled ones are not; the queue is
\* a heap, so which of several it meets first is not their order in time.
JoinRegistered(cs, c, k) ==
  \E t \in Registrations(k) :
    /\ ~joinTimers[t].cancelled
    /\ joinTimers' = [joinTimers EXCEPT ![t].cancelled = TRUE]
    /\ joiners' = IF joiners > 0 THEN joiners - 1 ELSE joiners
    /\ LET replied == Replied(cs, c, "NO_ERROR")
           own == OwnerEvicted(replied, c, k)
       IN /\ conns' = Joined(Evicted(replied, c, k), own, c, k)
          /\ owner' = IF own = NoKi THEN k ELSE own
    /\ told' = told \cup {k}
    /\ shutdownTimer' = CancelShutdownTimer(shutdownTimer)
    /\ UNCHANGED adds

\* "we already did all the following stuff, so skip it"
JoinRepeated(cs, c, k) ==
  /\ \/ \E t \in Registrations(k) : joinTimers[t].cancelled
     \/ Registrations(k) = {} /\ cs[c].kinum = k /\ cs[c].state >= JOINED
  /\ LET replied == Replied(cs, c, "NO_ERROR")
     IN /\ conns' = Evicted(replied, c, k)
        /\ owner' = OwnerEvicted(replied, c, k)
        /\ told' = IF Stale(replied, c, k) = {} THEN told ELSE told \ {k}
  /\ UNCHANGED <<timerVars, shutdownTimer>>

JoinUnknown(cs, c, k) ==
  /\ Registrations(k) = {}
  /\ ~(cs[c].kinum = k /\ cs[c].state >= JOINED)

-----------------------------------------------------------------------------
(* The dispatcher's thread.                                                *)

\* get_server_from_id finds the server until thread_join has reaped it
HandOff(k) ==
  /\ phase \notin {"reaped", "undefined"}
  /\ arrivals < MaxArrivals
  /\ arrivals' = arrivals + 1
  /\ queue' = Append(queue, [id |-> arrivals', who |-> k])
  /\ UNCHANGED <<loopVars, newconns, timerVars, playerVars, shutdownTimer, bye>>

RequestShutdown ==
  /\ phase = "running" /\ ~stop
  /\ stop' = TRUE
  /\ UNCHANGED <<phase, queueVars, timerVars, playerVars, shutdownTimer, bye>>

MutReap ==   \* the queue is not emptied
  /\ phase = "quit"
  /\ phase' = "reaped"
  /\ UNCHANGED <<stop, queueVars, timerVars, playerVars, shutdownTimer, bye>>

\* thread_join: the thread is done, ~GameServer drops what was still queued
Reap ==
  /\ phase = "quit"
  /\ phase' = "reaped"
  /\ queue' = <<>>
  /\ UNCHANGED <<stop, newconns, arrivals, timerVars, playerVars, shutdownTimer, bye>>

-----------------------------------------------------------------------------
(* The server's thread.  While get_queued_connections is looping, nothing  *)
(* else of the server runs.                                                *)

Looping == phase = "running" /\ newconns = <<>>

\* signals are processed at the top of the loop, in shutdown too
TakeQueue ==
  /\ phase \in {"running", "closing"} /\ newconns = <<>>
  /\ queue # <<>>
  /\ newconns' = queue
  /\ queue' = <<>>
  /\ UNCHANGED <<loopVars, arrivals, timerVars, playerVars, shutdownTimer, bye>>

\* `broken`: bytes the client sent after its JoinAgeRequest are no message
JoinQueued ==
  /\ phase = "running" /\ newconns # <<>>
  /\ LET c == Head(newconns).id
         k == Head(newconns).who
         cs == [d \in DOMAIN conns \cup {c} |-> IF d = c THEN Arriving(k) ELSE conns[d]]
     IN \/ JoinRegistered(cs, c, k)
        \/ JoinRepeated(cs, c, k)
        \/ /\ JoinUnknown(cs, c, k)
           /\ conns' = [cs EXCEPT ![c] =
                          Killed([Arriving(k) EXCEPT !.reply = "ERROR_AUTH_TOO_OLD"])]
           /\ UNCHANGED <<timerVars, owner, told, shutdownTimer>>
  /\ newconns' = Tail(newconns)
  /\ UNCHANGED <<loopVars, queue, arrivals, bye>>

\* shutdown() deleted m_timers with the other connections, and the scan of
\* the registrations reads them
JoinAfterShutdown ==
  /\ phase = "closing" /\ newconns # <<>>
  /\ phase' = "undefined"
  /\ UNCHANGED <<stop, queueVars, timerVars, playerVars, shutdownTimer, bye>>

Readable(c) == Looping /\ c \in DOMAIN conns /\ ~conns[c].in_shutdown

LateJoin(c) ==
  /\ Readable(c)
  /\ LET k == conns[c].who
     IN \/ JoinRegistered(conns, c, k)
        \/ JoinRepeated(conns, c, k)
        \/ JoinUnknown(conns, c, k) /\ ConnShutdown(c) /\ UNCHANGED timerVars
  /\ UNCHANGED <<loopVars, queueVars, bye>>

MembersListReq(c) ==
  /\ Readable(c)
  /\ conns' = [conns EXCEPT ![c] =
       [SetState(@, MEMBERS_REQUESTED) EXCEPT
          !.asked = TRUE,
          !.members = {conns[d].kinum : d \in Heirs(conns, c)}]]
  /\ UNCHANGED <<loopVars, queueVars, timerVars, owner, told, shutdownTimer, bye>>

\* LoadClone, GameStateRequest and the SDL messages only move the state on
ClientProgress(c) ==
  /\ Readable(c)
  /\ \/ /\ conns[c].state < HAVE_CLONE
        /\ conns' = [conns EXCEPT ![c] = SetState(@, HAVE_CLONE)]
     \/ conns' = [conns EXCEPT ![c] = SetState(@, STATE_REQUESTED)]
     \/ conns' = [conns EXCEPT ![c] = SetState(@, IN_GAME)]
  /\ UNCHANGED <<loopVars, queueVars, timerVars, owner, told, shutdownTimer, bye>>

\* the peer closed or reset, sent no message, or was silent for three intervals
DropClient(c) ==
  /\ Looping /\ c \in DOMAIN conns
  /\ ConnShutdown(c)
  /\ UNCHANGED <<loopVars, queueVars, timerVars, bye>>

\* bytes that came with the JoinAgeRequest are read by get_queued_connections,
\* which kills the connection for an error rather than shutting it down
KillBroken(c) ==
  /\ Readable(c) /\ conns[c].state <= JOINED
  /\ conns' = [conns EXCEPT ![c] = Killed(@)]
  /\ UNCHANGED <<loopVars, queueVars, timerVars, owner, told, shutdownTimer, bye>>

-----------------------------------------------------------------------------
(* Tracking's messages.                                                    *)

AddPlayer(k) ==
  /\ Looping /\ adds < MaxAdds
  /\ shutdownTimer # "fired"   \* else ERROR_REMOTE_SHUTDOWN, and nothing changes
  /\ adds' = adds + 1
  /\ joinTimers' = [t \in DOMAIN joinTimers \cup {adds'} |->
       IF t = adds' THEN [kinum |-> k, cancelled |-> FALSE] ELSE joinTimers[t]]
  /\ joiners' = joiners + 1
  /\ shutdownTimer' = CancelShutdownTimer(shutdownTimer)
  /\ UNCHANGED <<loopVars, queueVars, playerVars, bye>>

KillClient(k) ==
  /\ Looping
  /\ LET claims == {c \in DOMAIN conns : conns[c].kinum = k}
     IN /\ claims # {}
        /\ conns' = [conns EXCEPT ![First(claims)] = Killed(@)]
  /\ UNCHANGED <<loopVars, queueVars, timerVars, owner, told, shutdownTimer, bye>>

\* handle_timeout runs every expired timer, then the server reacts
TimersTimeout ==
  /\ Looping
  /\ \E expired \in SUBSET DOMAIN joinTimers, fires \in BOOLEAN :
       /\ \A t \in expired : \A u \in DOMAIN joinTimers : u < t => u \in expired
       /\ fires => shutdownTimer = "armed"
       /\ expired # {} \/ fires
       /\ joinTimers' = Restrict(joinTimers, DOMAIN joinTimers \ expired)
       /\ joiners' = LET gone == Cardinality(expired \cap Live(joinTimers))
                     IN IF joiners > gone THEN joiners - gone ELSE 0
       /\ LET timer == IF fires THEN "fired" ELSE shutdownTimer
          IN IF timer = "fired"
               THEN shutdownTimer' = timer /\ bye' = TRUE
               ELSE /\ shutdownTimer' = MaybeStartShutdownTimer(conns, joiners', timer)
                    /\ UNCHANGED bye
  /\ UNCHANGED <<loopVars, queueVars, adds, playerVars>>

-----------------------------------------------------------------------------
(* The end of the server.                                                  *)

\* shutdown(): save the state, delete every connection but tracking's (the
\* timers with them), queue the final TRACK_GAME_BYE
Shutdown ==
  /\ phase' = "closing"
  /\ conns' = Nothing
  /\ joinTimers' = Nothing
  /\ UNCHANGED <<stop, queueVars, adds, joiners, owner, told, shutdownTimer, bye>>

GameBye           == Looping /\ bye /\ Shutdown
ShutdownRequested == Looping /\ stop /\ Shutdown
VaultLost         == Looping /\ Shutdown

\* the final TRACK_GAME_BYE is written: the select loop ends
Quit ==
  /\ phase = "closing" /\ newconns = <<>>
  /\ phase' = "quit"
  /\ UNCHANGED <<stop, queueVars, timerVars, playerVars, shutdownTimer, bye>>

-----------------------------------------------------------------------------
Init ==
  /\ phase = "running" /\ stop = FALSE
  /\ queue = <<>> /\ newconns = <<>> /\ arrivals = 0
  /\ conns = Nothing /\ owner = NoKi /\ told = {}
  /\ joinTimers = Nothing /\ adds = 0 /\ joiners = 0
  /\ shutdownTimer = "armed" /\ bye = FALSE

ClientStep(c) ==
  LateJoin(c) \/ MembersListReq(c) \/ ClientProgress(c) \/ DropClient(c) \/ KillBroken(c)

Next ==
  \/ \E k \in Ki : HandOff(k) \/ AddPlayer(k) \/ KillClient(k)
  \/ \E c \in DOMAIN conns : ClientStep(c)
  \/ TakeQueue \/ JoinQueued \/ JoinAfterShutdown \/ TimersTimeout
  \/ RequestShutdown \/ GameBye \/ ShutdownRequested \/ VaultLost \/ Quit \/ Reap

Spec == Init /\ [][Next]_vars

(* The select loop keeps turning: it takes over queued connections, timers *)
(* expire because the clock moves, a connection marked for shutdown drains *)
(* or is dropped, tracking answers a Bye, and the dispatcher reaps.        *)
Fairness ==
  /\ WF_vars(TakeQueue) /\ WF_vars(JoinQueued) /\ WF_vars(JoinAfterShutdown)
  /\ WF_vars(TimersTimeout)
  /\ WF_vars(GameBye) /\ WF_vars(ShutdownRequested)
  /\ WF_vars(Quit) /\ WF_vars(Reap)

FairSpec == Spec /\ Fairness
=============================================================================
