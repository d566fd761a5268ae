--------------------------- MODULE GameServerProps ---------------------------
(***************************************************************************)
(* What a game server promises: to its players, to tracking, and to the    *)
(* dispatcher.                                                             *)
(***************************************************************************)
EXTENDS GameServer

JoinTimer == [kinum: Ki, cancelled: BOOLEAN]
Arrival == [id: Nat, who: Ki]

\* The types of the server's state (GameServer.h, the members of GameServer and
\* GameConnection); the keys of conns and joinTimers are the places of their
\* objects in the order of arrival.
TypeOK ==
  /\ phase \in {"running", "closing", "quit", "reaped", "undefined"}
  /\ stop \in BOOLEAN /\ bye \in BOOLEAN
  /\ queue \in Seq(Arrival) /\ newconns \in Seq(Arrival)
  /\ arrivals \in Nat /\ adds \in Nat /\ joiners \in Nat
  /\ DOMAIN conns \subseteq Nat
  /\ conns \in [DOMAIN conns -> Connection]
  /\ DOMAIN joinTimers \subseteq 1..adds
  /\ joinTimers \in [DOMAIN joinTimers -> JoinTimer]
  /\ shutdownTimer \in {"none", "armed", "fired"}
  /\ owner \in Ki \cup {NoKi} /\ told \subseteq Ki

Running == phase = "running"

\* m_joiners, bumped and dropped in four places, is the number of players
\* that are registered and have not come: JoinTimers not cancelled.
JoinersCounted == Running => joiners = Cardinality(Live(joinTimers))

\* The age never shuts down under a player: from the moment the shutdown timer
\* is armed until tracking's answer to the Bye closes the server, nobody is in
\* the age and nobody that tracking was promised a place for is on the way.
NobodyAbandoned ==
  Running /\ (shutdownTimer # "none" \/ bye) => Players(conns) = {} /\ Live(joinTimers) = {}

\* Two connections never play the same player: whoever arrives evicts the
\* connection left over from an earlier visit (handle_join_request).
OneConnectionPerPlayer ==
  \A c, d \in DOMAIN conns :
    conns[c].kinum = conns[d].kinum /\ conns[c].kinum # NoKi => c = d

\* Tracking believes in the age exactly the players that have a connection
\* here, through evictions and repeated joins (TrackGamePlayerInfo).
TrackingIsRight == Running => told = Players(conns)

\* The group owner is a player connected to this age, whoever left before, and
\* nobody else was last told to be the owner (conn_shutdown,
\* handle_join_request): two clients never both drive the age's shared objects.
OwnerIsRight ==
  /\ Running /\ owner # NoKi => owner \in Players(conns)
  /\ \A c \in DOMAIN conns :
       conns[c].isOwner /\ conns[c].kinum # NoKi => conns[c].kinum = owner

\* A client that asked for the member list since it last joined has, through the
\* updates sent to it, the exact list of the other players (MembersListReq lists
\* the connections there are, each later join and leave is announced).  Joining
\* once more, with a new registration, ends that: handle_join_request puts the
\* connection below MEMBERS_REQUESTED, and the list it has goes stale.
MemberListsAreCurrent ==
  \A c \in DOMAIN conns :
    conns[c].asked => conns[c].members \ {NoKi} = Players(conns) \ {conns[c].kinum}

\* A connection handed over by the dispatcher does not stay unanswered in the
\* shared queue: the server takes it over, or is reaped and drops it.
HandOffIsServed ==
  []<>(queue = <<>> \/ phase = "undefined")

\* A server nobody is connected to and nobody is expected in goes away.
EmptyServerEnds ==
  []<>~(Running /\ DOMAIN conns = {} /\ joiners = 0)

-----------------------------------------------------------------------------
(* What the code's comments say and the code does not do.                  *)

\* "no other player found": the age is left without an owner only if there is
\* no player left in it.
OwnerlessMeansEmpty ==
  Running /\ owner = NoKi =>
    \A c \in DOMAIN conns : conns[c].kinum = NoKi \/ conns[c].state = KILL_AFTER_QUEUE_EMPTY

\* m_shutdown_timer may be dereferenced when it is set and the timer has not
\* fired; a join is handled only while that holds of the timers.
TimersOutliveJoins == phase # "undefined"
=============================================================================
