------------------------------- MODULE Tracker -------------------------------
(***************************************************************************)
(* Tracking, the part of the MOSS backend that sends players to game       *)
(* servers (backend_all.cc, moss_backend.h).                               *)
(*                                                                         *)
(* A client asks, through its auth server, for an age.  Tracking asks the  *)
(* game server that runs the age to expect the player, or a dispatcher to  *)
(* start one, and keeps a Waiter, a timer of 30 seconds, until it can      *)
(* answer.  The waiters are kept in a TimerQueue, and the handlers scan    *)
(* its array; time is abstract, so a waiter may expire at any step, but    *)
(* never before an older one.  Game servers (GameServer.tla has them in    *)
(* full) and the dispatcher appear by the messages they exchange with      *)
(* tracking; each game server has a connection of its own, first in first  *)
(* out.  One age is modelled: every scan compares age UUIDs first, so the  *)
(* waiters and servers of another age are not looked at.                   *)
(***************************************************************************)
EXTENDS TimerHeap, SequencesExt

CONSTANTS
  Ki,           \* players, one to an account
  NoKi,         \* m_kinum = 0
  Session,      \* auth connections, numbered as the hash table sorts them
  Player,       \* the account, hence the player, each session logs in
  GameId,       \* game servers, numbered as the hash table sorts them
  MaxRequests,  \* bound: TRACK_FIND_GAMEs
  MaxRefusals   \* bound: age requests the database or lack of a dispatcher defeats

ASSUME KiAssumption == NoKi \notin Ki /\ Player \in [Session -> Ki]
ASSUME IdAssumption == Session \subseteq Nat \ {0} /\ GameId \subseteq Nat \ {0}
ASSUME BoundAssumption == MaxRequests \in Nat /\ MaxRefusals \in Nat

NoGame  == 0      \* m_id = 0
Refused == 0      \* an answer that names no server

VARIABLES
  sess,      \* ConnectionEntity of each auth connection
  punted,    \* sessions that were sent a KillClient
  games,     \* ConnectionEntity of each game server: whether in_shutdown
  waiters,   \* every Waiter ever made, by age
  queue,     \* m_timers, the array of waiters not yet deleted
  asked,     \* the session of each TRACK_FIND_GAME
  answers,   \* the TrackAgeRequest answers sent for each
  refusals,  \* age requests defeated so far
  starts,    \* TRACK_START_GAMEs the dispatcher has not handled
  failures,  \* its replies that a server could not be started
  starved,   \* auxiliary: the last start came to nothing without a word, or could
             \* not be asked for, and no server has come since
  toGame,    \* messages to each game server
  fromGame,  \* messages from each game server
  server,    \* what each game server is: unborn, up, asked (has said Bye), gone
  expected,  \* players registered at each game server
  here       \* players that have joined

loginVars == <<sess, punted>>
waitVars  == <<waiters, queue>>
reqVars   == <<asked, answers, refusals>>
diskVars  == <<starts, failures, starved>>
gameVars  == <<server, expected, here>>
vars == <<loginVars, games, waitVars, reqVars, diskVars, toGame, fromGame, gameVars>>

-----------------------------------------------------------------------------
Online == {s \in Session : sess[s].phase = "on"}

\* find_by_uuid, find_by_kinum: the first in the hash table
LoggedIn(k) == {s \in Online : Player[s] = k}
Playing(k)  == {s \in Online : sess[s].kinum = k}

\* all wait equally long: waiters are numbered as they are made
Age(ws) == [i \in DOMAIN ws |-> i]
\* the scans go through the array in its order
Among(S, q) == FoldLeft(LAMBDA found, i : IF i \in S THEN Append(found, i) ELSE found, <<>>, q)
LiveIn(ws, q) == Among({i \in DOMAIN ws : ~ws[i].cancelled}, q)
Live == {i \in DOMAIN waiters : ~waiters[i].cancelled} \cap ToSet(queue)
Cancelled(ws, S) ==
  [i \in DOMAIN ws |-> [ws[i] EXCEPT !.cancelled = @ \/ i \in S]]

MutRenewed(ws, i) == Append(ws, ws[i])         \* a slip: the old one stays

\* a waiter is cancelled and another, with a full timeout, takes its place
Renewed(ws, i) == Append(Cancelled(ws, {i}), ws[i])

\* the new one is inserted
Renew(acc, i) ==
  LET ws == Renewed(acc.ws, i) IN [ws |-> ws, q |-> Push(acc.q, Age(ws), Len(ws))]

\* a slip: it is not inserted
MutLostWaiter(s, r) ==
  /\ waiters' = Append(waiters, [sess |-> s, req |-> r, kinum |-> sess[s].kinum,
                                cancelled |-> FALSE])
  /\ UNCHANGED queue

AddWaiter(s, r) ==
  /\ waiters' = Append(waiters, [sess |-> s, req |-> r, kinum |-> sess[s].kinum,
                                cancelled |-> FALSE])
  /\ queue' = Push(queue, Age(waiters'), Len(waiters'))

Answer(r, result) == answers' = [answers EXCEPT ![r] = Append(@, result)]

\* messages to a game server
AddPlayerMsg(k) == [type |-> "add", kinum |-> k]
KillMsg(k)      == [type |-> "kill", kinum |-> k]
ByeMsg          == [type |-> "bye", kinum |-> NoKi]
\* messages from a game server
HelloMsg      == [type |-> "hello", kinum |-> NoKi, ok |-> TRUE]
AckMsg(k, ok) == [type |-> "ack", kinum |-> k, ok |-> ok]
InfoMsg(k, present) == [type |-> "info", kinum |-> k, ok |-> present]
AskMsg        == [type |-> "ask", kinum |-> NoKi, ok |-> FALSE]
CloseMsg      == [type |-> "close", kinum |-> NoKi, ok |-> FALSE]
\* what is sent to a server that has gone is lost
SendAll(g, ms) == toGame' = [toGame EXCEPT ![g] = IF server[g] = "gone" THEN @ ELSE @ \o ms]
Send(g, m) == SendAll(g, <<m>>)

-----------------------------------------------------------------------------
(* Auth servers.                                                           *)

\* AUTH_ACCT_LOGIN: "if the player is already logged in, punt him there"
\* (clients are alike: they come in the order of their numbers)
Login(s) ==
  /\ sess[s].phase = "new" /\ \A t \in Session : t < s => sess[t].phase # "new"
  /\ punted' = IF LoggedIn(Player[s]) = {} THEN punted
               ELSE punted \cup {Lowest(LoggedIn(Player[s]))}
  /\ sess' = [sess EXCEPT ![s].phase = "on"]
  /\ UNCHANGED <<games, waitVars, reqVars, diskVars, toGame, fromGame, gameVars>>

\* AUTH_KI_VALIDATE
KiValidate(s) ==
  /\ s \in Online /\ sess[s].kinum = NoKi
  /\ sess' = [sess EXCEPT ![s].kinum = Player[s]]
  /\ UNCHANGED <<punted, games, waitVars, reqVars, diskVars, toGame, fromGame, gameVars>>

Tell(g, k, inShutdown) ==
  IF inShutdown THEN UNCHANGED toGame ELSE Send(g, AddPlayerMsg(k))

\* a slip: also when a server is replaced, others that wait stop it
MutHandleAgeRequest(known, k, forceNew) ==
  IF DOMAIN known # {}
    THEN LET g == Lowest(DOMAIN known) IN Tell(g, k, known[g]) /\ UNCHANGED <<starts, starved>>
    ELSE /\ starts' = IF Live = {} THEN starts + 1 ELSE starts
         /\ starved' = (starved /\ Live # {})
         /\ UNCHANGED toGame

\* handle_age_request for player k, with the game servers tracking knows of:
\* the server that runs the age is told of the player, unless it is about to
\* stop; if there is none, a dispatcher is asked for one, but only once for all
\* that wait
HandleAgeRequest(known, k, forceNew) ==
  IF DOMAIN known # {}
    THEN LET g == Lowest(DOMAIN known) IN Tell(g, k, known[g]) /\ UNCHANGED <<starts, starved>>
    ELSE LET needed == forceNew \/ Live = {}
         IN /\ starts' = IF needed THEN starts + 1 ELSE starts
            /\ starved' = (starved /\ ~needed)
            /\ UNCHANGED toGame

\* handle_age_request fails: the age is not in the database, or has another
\* name there, or no dispatcher takes new game servers
Defeat == refusals < MaxRefusals /\ refusals' = refusals + 1 /\ UNCHANGED <<starts, toGame>>

\* TRACK_FIND_GAME
FindGame(s) ==
  /\ s \in Online /\ sess[s].kinum # NoKi
  /\ Len(asked) < MaxRequests
  /\ asked' = Append(asked, s)
  /\ LET r == Len(asked')
     IN \/ Defeat /\ answers' = Append(answers, <<Refused>>) /\ UNCHANGED <<waitVars, starved>>
        \/ /\ HandleAgeRequest(games, sess[s].kinum, FALSE)
           /\ AddWaiter(s, r)
           /\ answers' = Append(answers, <<>>)
           /\ UNCHANGED refusals
  /\ UNCHANGED <<loginVars, games, failures, fromGame, gameVars>>

WaitersFor(k) == {i \in Live : waiters[i].kinum = k}

\* conn_shutdown of an auth connection: the client quit, or was punted
AuthLeaves(s) ==
  /\ s \in Online
  /\ sess' = [sess EXCEPT ![s] = [phase |-> "left", kinum |-> NoKi, game |-> NoGame]]
  /\ LET k == sess[s].kinum
         g == sess[s].game
     IN /\ waiters' = Cancelled(waiters, WaitersFor(k))
        /\ IF k # NoKi /\ g \in DOMAIN games THEN Send(g, KillMsg(k)) ELSE UNCHANGED toGame
  /\ UNCHANGED <<punted, games, queue, reqVars, diskVars, fromGame, gameVars>>

-----------------------------------------------------------------------------
(* Game servers' messages.                                                 *)

From(g, type) == fromGame[g] # <<>> /\ Head(fromGame[g]).type = type
Received(g) == fromGame' = [fromGame EXCEPT ![g] = Tail(@)]

\* TRACK_GAME_HELLO: every waiter is registered with the new server, and is
\* replaced by one with a full timeout
Hello(g) ==
  /\ From(g, "hello") /\ Received(g)
  /\ games' = [h \in DOMAIN games \cup {g} |-> IF h = g THEN FALSE ELSE games[h]]
  /\ LET waiting == LiveIn(waiters, queue)
         renewed == FoldLeft(Renew, [ws |-> waiters, q |-> queue], waiting)
     IN /\ waiters' = renewed.ws
        /\ queue' = renewed.q
        /\ SendAll(g, [i \in DOMAIN waiting |-> AddPlayerMsg(waiters[waiting[i]].kinum)])
  /\ starved' = FALSE
  /\ UNCHANGED <<loginVars, reqVars, starts, failures, gameVars>>

MutTaken(i) == waiters                         \* a slip: it stays

Taken(i) == Cancelled(waiters, {i})

\* TRACK_ADD_PLAYER, the answer: the first waiter there is gets it
Ack(g) ==
  /\ From(g, "ack") /\ Received(g)
  /\ LET waiting == LiveIn(waiters, queue)
         i == waiting[1]
         w == waiters[i]
     IN IF g \notin DOMAIN games \/ waiting = <<>> THEN UNCHANGED <<waitVars, answers>>
        ELSE IF w.sess \notin Online
          THEN waiters' = Taken(i) /\ UNCHANGED <<queue, answers>>
        ELSE IF Head(fromGame[g]).ok
          THEN waiters' = Taken(i) /\ Answer(w.req, g) /\ UNCHANGED queue
        ELSE LET renewed == Renew([ws |-> waiters, q |-> queue], i)
             IN waiters' = renewed.ws /\ queue' = renewed.q /\ UNCHANGED answers
  /\ UNCHANGED <<loginVars, games, asked, refusals, diskVars, toGame, gameVars>>

\* TRACK_GAME_PLAYERINFO
PlayerInfo(g) ==
  /\ From(g, "info") /\ Received(g)
  /\ LET k == Head(fromGame[g]).kinum
     IN IF Head(fromGame[g]).ok /\ g \in DOMAIN games /\ Playing(k) # {}
          THEN sess' = [sess EXCEPT ![Lowest(Playing(k))].game = g]
          ELSE UNCHANGED sess
  /\ UNCHANGED <<punted, games, waitVars, reqVars, diskVars, toGame, gameVars>>

\* TRACK_GAME_BYE that is not final
GameAsks(g) ==
  /\ From(g, "ask") /\ Received(g)
  /\ games' = [games EXCEPT ![g] = TRUE]
  /\ Send(g, ByeMsg)
  /\ UNCHANGED <<loginVars, waitVars, reqVars, diskVars, gameVars>>

\* conn_shutdown of a game connection, after a final TRACK_GAME_BYE or without:
\* "if there are any Waiters for this server, start a new one".  The first
\* waiter whose client is still there decides.
GameLeaves(g) ==
  /\ From(g, "close") /\ Received(g)
  /\ games' = [h \in DOMAIN games \ {g} |-> games[h]]
  /\ LET waiting == Among({i \in Live : waiters[i].sess \in Online}, queue)
         w == waiters[waiting[1]]
     IN IF waiting = <<>> THEN UNCHANGED <<answers, refusals, starts, starved, toGame>>
        ELSE \/ Defeat /\ Answer(w.req, Refused) /\ starved' = TRUE
             \/ /\ HandleAgeRequest(games', sess[w.sess].kinum, TRUE)
                /\ UNCHANGED <<answers, refusals>>
  /\ UNCHANGED <<loginVars, waitVars, asked, failures, gameVars>>

\* TRACK_START_GAME with a problem: everybody who waits is told
StartFailed ==
  /\ failures > 0 /\ failures' = failures - 1
  /\ waiters' = Cancelled(waiters, Live)
  /\ answers' = [r \in DOMAIN answers |->
       IF \E i \in Live : waiters[i].req = r /\ waiters[i].sess \in Online
         THEN Append(answers[r], Refused) ELSE answers[r]]
  /\ UNCHANGED <<loginVars, games, queue, asked, refusals, starts, starved, toGame, fromGame,
                 gameVars>>

\* one turn of handle_timeout's loop: what is due, or cancelled, is popped (p
\* stands for q, so that TLC works q out once)
Popped(q, oldest) ==
  CHOOSE left \in {IF p # <<>> /\ (p[1] <= oldest \/ waiters[p[1]].cancelled)
                     THEN Pop(p, Age(waiters)) ELSE p : p \in {q}} : TRUE

Left(oldest) == FoldLeft(LAMBDA q, i : Popped(q, oldest), queue, queue)

\* handle_timeout: the waiters up to `oldest` are due
WaitersTimeOut ==
  \E oldest \in ToSet(queue) :
    LET told == {i \in Live : i <= oldest /\ waiters[i].sess \in Online}
    IN /\ queue' = Left(oldest)
       /\ answers' = [r \in DOMAIN answers |->
            IF \E i \in told : waiters[i].req = r THEN Append(answers[r], Refused)
            ELSE answers[r]]
       /\ UNCHANGED <<loginVars, games, waiters, asked, refusals, diskVars, toGame, fromGame, gameVars>>

-----------------------------------------------------------------------------
(* The dispatcher and the game servers.                                    *)

\* the dispatcher starts a thread, or finds that it cannot (servers are
\* numbered as they start)
StartServer ==
  /\ starts > 0 /\ starts' = starts - 1
  /\ \E g \in GameId :
       /\ server[g] = "unborn" /\ \A h \in GameId : h < g => server[h] # "unborn"
       /\ server' = [server EXCEPT ![g] = "up"]
       /\ fromGame' = [fromGame EXCEPT ![g] = <<HelloMsg>>]
  /\ UNCHANGED <<loginVars, games, waitVars, reqVars, failures, starved, toGame, expected, here>>

RefuseStart ==
  /\ starts > 0 /\ starts' = starts - 1
  /\ failures' = failures + 1
  /\ UNCHANGED <<loginVars, games, waitVars, reqVars, starved, toGame, fromGame, gameVars>>

\* the thread starts and ends before it has said TRACK_GAME_HELLO (init() fails,
\* or its connection to tracking does): nobody is told
StartLost ==
  /\ starts > 0 /\ starts' = starts - 1
  /\ starved' = TRUE
  /\ UNCHANGED <<loginVars, games, waitVars, reqVars, failures, toGame, fromGame, gameVars>>

To(g, type) == server[g] \in {"up", "asked"} /\ toGame[g] # <<>> /\ Head(toGame[g]).type = type
Handled(g) == toGame' = [toGame EXCEPT ![g] = Tail(@)]
Reply(g, m) == fromGame' = [fromGame EXCEPT ![g] = Append(@, m)]

\* TRACK_ADD_PLAYER, ERROR_REMOTE_SHUTDOWN once the shutdown timer has fired
Register(g) ==
  /\ To(g, "add") /\ Handled(g)
  /\ LET k == Head(toGame[g]).kinum
         ok == server[g] = "up"
     IN /\ Reply(g, AckMsg(k, ok))
        /\ expected' = IF ok THEN [expected EXCEPT ![g] = @ \cup {k}] ELSE expected
  /\ UNCHANGED <<loginVars, games, waitVars, reqVars, diskVars, server, here>>

\* ADMIN_KILL_CLIENT
Drop(g) ==
  /\ To(g, "kill") /\ Handled(g)
  /\ LET k == Head(toGame[g]).kinum
     IN IF k \in here[g]
          THEN here' = [here EXCEPT ![g] = @ \ {k}] /\ Reply(g, InfoMsg(k, FALSE))
          ELSE UNCHANGED <<here, fromGame>>
  /\ UNCHANGED <<loginVars, games, waitVars, reqVars, diskVars, server, expected>>

\* the client goes where it was sent
Arrive(g, k) ==
  /\ server[g] \in {"up", "asked"} /\ k \in expected[g]
  /\ \E r \in DOMAIN answers : Player[asked[r]] = k /\ g \in ToSet(answers[r])
  /\ expected' = [expected EXCEPT ![g] = @ \ {k}]
  /\ here' = [here EXCEPT ![g] = @ \cup {k}]
  /\ Reply(g, InfoMsg(k, TRUE))
  /\ UNCHANGED <<loginVars, games, waitVars, reqVars, diskVars, toGame, server>>

Leave(g, k) ==
  /\ server[g] \in {"up", "asked"} /\ k \in here[g]
  /\ here' = [here EXCEPT ![g] = @ \ {k}]
  /\ Reply(g, InfoMsg(k, FALSE))
  /\ UNCHANGED <<loginVars, games, waitVars, reqVars, diskVars, toGame, server, expected>>

\* the JoinTimer expires
Forget(g, k) ==
  /\ server[g] = "up" /\ k \in expected[g]
  /\ expected' = [expected EXCEPT ![g] = @ \ {k}]
  /\ UNCHANGED <<loginVars, games, waitVars, reqVars, diskVars, toGame, fromGame, server, here>>

\* nobody there and nobody expected: the shutdown timer fires
AskToStop(g) ==
  /\ server[g] = "up" /\ expected[g] = {} /\ here[g] = {}
  /\ server' = [server EXCEPT ![g] = "asked"]
  /\ Reply(g, AskMsg)
  /\ UNCHANGED <<loginVars, games, waitVars, reqVars, diskVars, toGame, expected, here>>

\* the answer to its Bye, a shutdown request, or a crash: the connection closes
Stop(g) ==
  /\ server[g] \in {"up", "asked"}
  /\ server' = [server EXCEPT ![g] = "gone"]
  /\ expected' = [expected EXCEPT ![g] = {}]
  /\ here' = [here EXCEPT ![g] = {}]
  /\ toGame' = [toGame EXCEPT ![g] = <<>>]
  /\ Reply(g, CloseMsg)
  /\ UNCHANGED <<loginVars, games, waitVars, reqVars, diskVars>>

-----------------------------------------------------------------------------
Init ==
  /\ sess = [s \in Session |-> [phase |-> "new", kinum |-> NoKi, game |-> NoGame]]
  /\ punted = {}
  /\ games = [g \in {} |-> FALSE]
  /\ waiters = <<>> /\ queue = <<>>
  /\ asked = <<>> /\ answers = <<>> /\ refusals = 0
  /\ starts = 0 /\ failures = 0 /\ starved = FALSE
  /\ toGame = [g \in GameId |-> <<>>] /\ fromGame = [g \in GameId |-> <<>>]
  /\ server = [g \in GameId |-> "unborn"]
  /\ expected = [g \in GameId |-> {}] /\ here = [g \in GameId |-> {}]

SessionStep(s) == Login(s) \/ KiValidate(s) \/ FindGame(s) \/ AuthLeaves(s)
TrackerStep(g) == Hello(g) \/ Ack(g) \/ PlayerInfo(g) \/ GameAsks(g) \/ GameLeaves(g)
PlayerStep(g, k) == Arrive(g, k) \/ Leave(g, k) \/ Forget(g, k)

Next ==
  \/ \E s \in Session : SessionStep(s)
  \/ \E g \in GameId : TrackerStep(g) \/ Register(g) \/ Drop(g) \/ AskToStop(g) \/ Stop(g)
  \/ \E g \in GameId, k \in Ki : PlayerStep(g, k)
  \/ StartFailed \/ WaitersTimeOut \/ StartServer \/ RefuseStart \/ StartLost

Spec == Init /\ [][Next]_vars

\* The clock moves and tracking's timers are looked at.
FairSpec == Spec /\ WF_vars(WaitersTimeOut)
=============================================================================
