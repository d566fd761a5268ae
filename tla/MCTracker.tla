------------------------------ MODULE MCTracker ------------------------------
(***************************************************************************)
(* What tracking promises the players it sends to game servers.            *)
(***************************************************************************)
EXTENDS Tracker

CONSTANTS k1, k2

\* each player at one client
PlayerEach == 1 :> k1 @@ 2 :> k2
TwoIds == 1..2
OneId == {1}

Outstanding(r) == answers[r] = <<>> /\ sess[asked[r]].phase = "on"
WaitersOf(r) == {i \in Live : waiters[i].req = r}

-----------------------------------------------------------------------------
\* A request that no answer was sent for, of a client that is still there, has
\* a waiter that is not cancelled, so the client will hear of it; and a waiter
\* that is replaced (TRACK_GAME_HELLO, TRACK_ADD_PLAYER with
\* ERROR_REMOTE_SHUTDOWN) is cancelled, so no request is waited for twice: the
\* client would be told twice, and Ack would spend an acknowledgement on it.
\* The exception is a player with another client that quit: conn_shutdown
\* cancels the waiters of the player, whichever client they are for.
TwinQuit(r) ==
  \E s \in Session \ {asked[r]} : Player[s] = Player[asked[r]] /\ sess[s].phase = "left"

OneWaiterPerRequest ==
  \A r \in DOMAIN asked :
    /\ Outstanding(r) /\ ~TwinQuit(r) => WaitersOf(r) # {}
    /\ Cardinality(WaitersOf(r)) <= 1

\* A client is told at most once, for one request, to go to a game server.
SentOnce ==
  \A r \in DOMAIN answers :
    Cardinality({n \in DOMAIN answers[r] : answers[r][n] # Refused}) <= 1

\* As long as anybody waits, a server is to be started, or the news that there
\* is none is on its way, or a server comes, or tracking knows one that runs or
\* whose end it will hear of: a server that leaves while players wait for it is
\* replaced, and the first who asks, when there is none, asks for one.  The
\* exception is `starved`: a server died before its hello and nobody told
\* tracking (GameServer::init), or handle_age_request failed to replace one.
\* Those who wait then have only their time-outs, until one asks anew.
Says(g, type) == \E m \in ToSet(fromGame[g]) : m.type = type
UnderWay ==
  Live # {} =>
    \/ starved
    \/ starts > 0 \/ failures > 0
    \/ \E g \in GameId :
         \/ Says(g, "hello")
         \/ g \in DOMAIN games /\ (server[g] \in {"up", "asked"} \/ Says(g, "close"))

\* Every client that stays is answered in the end, since every waiter is in the
\* timer queue until its callback or its answer.
RequestIsAnswered ==
  \A r \in 1..MaxRequests :
    []<>(r \in DOMAIN asked => ~Outstanding(r))

-----------------------------------------------------------------------------
(* What the comments say and the handlers do not do.                       *)

\* "this should never happen": a server is asked for, in place of one that
\* quit, while there is none of that age (handle_age_request with force_new).
NoneOfThatTypeIsLeft ==
  [][\A g \in DOMAIN games : g \notin DOMAIN games' /\
       (\E i \in Live : waiters[i].sess \in Online) => DOMAIN games' = {}]_vars
=============================================================================
