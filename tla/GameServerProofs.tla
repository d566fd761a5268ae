-------------------------- MODULE GameServerProofs --------------------------
(***************************************************************************)
(* Proofs about the game server, for any set of players and any bounds.    *)
(***************************************************************************)
EXTENDS GameServerProps, FiniteSetTheorems, NaturalsInduction, TLAPS

-----------------------------------------------------------------------------
(* Connections and timers are keyed by natural numbers, so a non-empty set *)
(* of them has a first one.                                                *)

\* The order of the naturals, as a relation.
LEMMA LessThanRelation == OpToRel(<, Nat) = {p \in Nat \X Nat : p[1] < p[2]}
  BY DEF OpToRel

\* First, the iteration order of m_conns, returns a member of the set.
LEMMA FirstIsMember ==
  ASSUME NEW S \in SUBSET Nat, S # {}
  PROVE  First(S) \in S
<1> DEFINE Less == OpToRel(<, Nat)
<1>1. IsWellFoundedOn(Less, Nat) /\ Less = {p \in Nat \X Nat : p[1] < p[2]}
  BY NatLessThanWellFounded, LessThanRelation
<1> HIDE DEF Less
<1>2. PICK x \in S : \A y \in S : ~(<<y, x>> \in Less)
  BY <1>1, WFMin
<1>3. ASSUME NEW y \in S  PROVE x <= y
  <2>1. y \in Nat /\ x \in Nat /\ ~(<<y, x>> \in Less)
    BY <1>2
  <2>2. ~(y < x)
    BY <2>1, <1>1
  <2> QED
    BY <2>1, <2>2
<1> QED
  BY <1>3 DEF First

-----------------------------------------------------------------------------
(* What the helpers of conn_shutdown and handle_join_request do to a map   *)
(* of connections.                                                         *)

ConnectionMap(cs) == DOMAIN cs \subseteq Nat /\ cs \in [DOMAIN cs -> Connection]

\* Losing a connection keeps the others, and whose they are.
LEMMA LosingAConnection ==
  ASSUME NEW cs, ConnectionMap(cs), NEW own \in Ki \cup {NoKi}, NEW c \in DOMAIN cs
  PROVE  /\ DOMAIN ConnsAfter(cs, own, c) = DOMAIN cs \ {c}
         /\ ConnectionMap(ConnsAfter(cs, own, c))
         /\ OwnerAfter(cs, own, c) \in Ki \cup {NoKi}
         /\ \A d \in DOMAIN cs \ {c} : ConnsAfter(cs, own, c)[d].kinum = cs[d].kinum
<1>1. Heirs(cs, c) \in SUBSET Nat /\ Heirs(cs, c) \subseteq DOMAIN cs
  BY DEF Heirs, ConnectionMap
<1>2. OwnerAfter(cs, own, c) \in Ki \cup {NoKi}
  BY <1>1, FirstIsMember DEF OwnerAfter, ConnectionMap, Connection
<1>3. DOMAIN ConnsAfter(cs, own, c) = DOMAIN cs \ {c}
  BY DEF ConnsAfter
<1>4. ASSUME NEW d \in DOMAIN cs \ {c}
      PROVE  /\ ConnsAfter(cs, own, c)[d] \in Connection
             /\ ConnsAfter(cs, own, c)[d].kinum = cs[d].kinum
  <2>1. cs[d] \in Connection /\ cs[c] \in Connection
    BY DEF ConnectionMap
  <2>2. Inherits(cs, own, c, d) \in BOOLEAN
    BY DEF Inherits
  <2> QED
    BY <2>1, <2>2 DEF ConnsAfter, Connection
<1> QED
  BY <1>2, <1>3, <1>4 DEF ConnectionMap, ConnsAfter

\* Evicting the connections left over from an earlier visit of k takes away
\* at most one, and never the arriving one.
LEMMA Evicting ==
  ASSUME NEW cs, ConnectionMap(cs), NEW c \in DOMAIN cs, NEW k \in Ki,
         owner \in Ki \cup {NoKi}
  PROVE  /\ DOMAIN Evicted(cs, c, k) \subseteq DOMAIN cs
         /\ c \in DOMAIN Evicted(cs, c, k)
         /\ ConnectionMap(Evicted(cs, c, k))
         /\ OwnerEvicted(cs, c, k) \in Ki \cup {NoKi}
         /\ \A d \in DOMAIN Evicted(cs, c, k) : Evicted(cs, c, k)[d].kinum = cs[d].kinum
<1>1. CASE Stale(cs, c, k) = {}
  BY <1>1 DEF Evicted, OwnerEvicted
<1>2. CASE Stale(cs, c, k) # {}
  <2>1. Stale(cs, c, k) \in SUBSET Nat /\ Stale(cs, c, k) \subseteq DOMAIN cs \ {c}
    BY DEF Stale, ConnectionMap
  <2>2. First(Stale(cs, c, k)) \in DOMAIN cs \ {c}
    BY <1>2, <2>1, FirstIsMember
  <2> DEFINE s == First(Stale(cs, c, k))
  <2>3. Evicted(cs, c, k) = ConnsAfter(cs, owner, s) /\ OwnerEvicted(cs, c, k) = OwnerAfter(cs, owner, s)
    BY <1>2 DEF Evicted, OwnerEvicted
  <2> HIDE DEF s
  <2>4. s \in DOMAIN cs /\ s # c
    BY <2>2 DEF s
  <2>5. /\ DOMAIN ConnsAfter(cs, owner, s) = DOMAIN cs \ {s}
        /\ ConnectionMap(ConnsAfter(cs, owner, s))
        /\ OwnerAfter(cs, owner, s) \in Ki \cup {NoKi}
        /\ \A d \in DOMAIN cs \ {s} : ConnsAfter(cs, owner, s)[d].kinum = cs[d].kinum
    BY <2>4, LosingAConnection
  <2> QED
    BY <2>3, <2>4, <2>5
<1> QED
  BY <1>1, <1>2

\* Joining gives connection c to player k, and only that.
LEMMA Joining ==
  ASSUME NEW cs, ConnectionMap(cs), NEW c \in DOMAIN cs, NEW k \in Ki,
         NEW own \in Ki \cup {NoKi}
  PROVE  /\ DOMAIN Joined(cs, own, c, k) = DOMAIN cs
         /\ ConnectionMap(Joined(cs, own, c, k))
         /\ Joined(cs, own, c, k)[c].kinum = k
         /\ \A d \in DOMAIN cs \ {c} : Joined(cs, own, c, k)[d].kinum = cs[d].kinum
<1> DEFINE in == Joined(cs, own, c, k)
<1>1. DOMAIN in = DOMAIN cs /\ in = [d \in DOMAIN cs |-> in[d]]
  BY DEF Joined
<1>2. in[c] \in Connection /\ in[c].kinum = k
  <2>1. cs[c] \in Connection
    BY DEF ConnectionMap
  <2>2. SetState(cs[c], JOINED) \in Connection
    BY <2>1 DEF SetState, Connection, JOINED
  <2> QED
    BY <2>2 DEF Joined, Connection
<1>3. ASSUME NEW d \in DOMAIN cs \ {c}
      PROVE  in[d] \in Connection /\ in[d].kinum = cs[d].kinum
  <2>1. cs[d] \in Connection
    BY DEF ConnectionMap
  <2> QED
    BY <2>1 DEF Joined, Connection
<1> HIDE DEF in
<1>4. in \in [DOMAIN cs -> Connection]
  BY <1>1, <1>2, <1>3
<1>5. ConnectionMap(in)
  BY <1>1, <1>4 DEF ConnectionMap
<1> QED
  BY <1>1, <1>2, <1>3, <1>5 DEF in
-----------------------------------------------------------------------------
(* The three outcomes of a join request, for connection c of cs: cs is     *)
(* conns, or conns with the arriving connection added.                     *)

\* Whose connections there are after an accepted request: those of cs, and
\* the arriving player's if the request used up a registration.
LEMMA JoinKeepsTypes ==
  ASSUME TypeOK, NEW cs, ConnectionMap(cs), NEW c \in DOMAIN cs, NEW k \in Ki,
         JoinRegistered(cs, c, k) \/ JoinRepeated(cs, c, k)
  PROVE  /\ ConnectionMap(conns')
         /\ owner' \in Ki \cup {NoKi}
         /\ told' \subseteq Ki
         /\ Players(conns') \subseteq Players(cs) \cup {k}
         /\ JoinRepeated(cs, c, k) => Players(conns') \subseteq Players(cs)
<1> DEFINE replied == Replied(cs, c, "NO_ERROR")
<1>1. /\ DOMAIN replied = DOMAIN cs /\ ConnectionMap(replied)
      /\ \A d \in DOMAIN cs : replied[d].kinum = cs[d].kinum
  BY DEF Replied, ConnectionMap, Connection
<1> HIDE DEF replied
<1> DEFINE left == Evicted(replied, c, k)
           own == OwnerEvicted(replied, c, k)
<1>2. /\ DOMAIN left \subseteq DOMAIN cs /\ c \in DOMAIN left /\ ConnectionMap(left)
      /\ own \in Ki \cup {NoKi}
      /\ \A d \in DOMAIN left : left[d].kinum = cs[d].kinum
  <2>1. owner \in Ki \cup {NoKi} /\ c \in DOMAIN replied
    BY <1>1 DEF TypeOK
  <2> QED
    BY <1>1, <2>1, Evicting
<1>3. Players(left) \subseteq Players(cs)
  BY <1>2 DEF Players
<1>4. CASE JoinRepeated(cs, c, k)
  <2>1. conns' = left /\ owner' = own /\ told' \subseteq told
    BY <1>4 DEF JoinRepeated, replied
  <2> QED
    BY <1>2, <1>3, <2>1 DEF TypeOK
<1>5. CASE JoinRegistered(cs, c, k) /\ ~JoinRepeated(cs, c, k)
  <2>1. /\ conns' = Joined(left, own, c, k)
        /\ owner' = IF own = NoKi THEN k ELSE own
        /\ told' = told \cup {k}
    BY <1>5 DEF JoinRegistered, replied
  <2> HIDE DEF left, own
  <2>2. /\ DOMAIN conns' = DOMAIN left /\ ConnectionMap(conns') /\ conns'[c].kinum = k
        /\ \A d \in DOMAIN left \ {c} : conns'[d].kinum = left[d].kinum
    BY <1>2, <2>1, Joining
  <2>3. Players(conns') \subseteq Players(left) \cup {k}
    BY <2>2 DEF Players
  <2> QED
    BY <1>2, <1>3, <1>5, <2>1, <2>2, <2>3 DEF TypeOK
<1> QED
  BY <1>4, <1>5

\* The registrations, the counter and the shutdown timer after an accepted
\* request.
LEMMA JoinKeepsTimers ==
  ASSUME TypeOK, NEW cs, NEW c, NEW k \in Ki,
         JoinRegistered(cs, c, k) \/ JoinRepeated(cs, c, k)
  PROVE  /\ DOMAIN joinTimers' = DOMAIN joinTimers
         /\ joinTimers' \in [DOMAIN joinTimers -> JoinTimer]
         /\ joiners' \in Nat /\ adds' = adds
         /\ shutdownTimer' \in {"none", "armed", "fired"}
<1>1. CASE JoinRepeated(cs, c, k)
  BY <1>1 DEF JoinRepeated, timerVars, TypeOK
<1>2. CASE JoinRegistered(cs, c, k)
  <2>1. PICK t \in DOMAIN joinTimers :
          /\ joinTimers' = [joinTimers EXCEPT ![t].cancelled = TRUE]
          /\ joiners' = IF joiners > 0 THEN joiners - 1 ELSE joiners
    BY <1>2 DEF JoinRegistered, Registrations
  <2>2. joinTimers' \in [DOMAIN joinTimers -> JoinTimer]
    BY <2>1 DEF TypeOK, JoinTimer
  <2>3. joiners' \in Nat
    BY <2>1 DEF TypeOK
  <2>4. adds' = adds /\ shutdownTimer' \in {"none", "armed", "fired"}
    BY <1>2 DEF JoinRegistered, CancelShutdownTimer, TypeOK
  <2> QED
    BY <2>1, <2>2, <2>3, <2>4
<1> QED
  BY <1>1, <1>2
\* conn_shutdown of a client keeps the types and takes in nobody.
LEMMA ShutdownKeepsTypes ==
  ASSUME TypeOK, NEW c \in DOMAIN conns, ConnShutdown(c)
  PROVE  /\ ConnectionMap(conns') /\ owner' \in Ki \cup {NoKi} /\ told' \subseteq Ki
         /\ shutdownTimer' \in {"none", "armed", "fired"}
         /\ Players(conns') \subseteq Players(conns)
<1>1. ConnectionMap(conns) /\ owner \in Ki \cup {NoKi}
  BY DEF TypeOK, ConnectionMap
<1>2. conns' = ConnsAfter(conns, owner, c) /\ owner' = OwnerAfter(conns, owner, c)
  BY DEF ConnShutdown
<1>3. /\ DOMAIN conns' = DOMAIN conns \ {c} /\ ConnectionMap(conns')
      /\ owner' \in Ki \cup {NoKi}
      /\ \A d \in DOMAIN conns \ {c} : conns'[d].kinum = conns[d].kinum
  <2>1. /\ DOMAIN ConnsAfter(conns, owner, c) = DOMAIN conns \ {c}
        /\ ConnectionMap(ConnsAfter(conns, owner, c))
        /\ OwnerAfter(conns, owner, c) \in Ki \cup {NoKi}
        /\ \A d \in DOMAIN conns \ {c} : ConnsAfter(conns, owner, c)[d].kinum = conns[d].kinum
    BY <1>1, LosingAConnection
  <2> QED
    BY <1>2, <2>1
<1>4. Players(conns') \subseteq Players(conns)
  BY <1>3 DEF Players
<1> QED
  BY <1>3, <1>4 DEF ConnShutdown, MaybeStartShutdownTimer, TypeOK

\* A kill keeps the types.
LEMMA KillingKeepsTypes ==
  \A conn \in Connection : Killed(conn) \in Connection /\ Killed(conn).kinum = conn.kinum
  BY DEF Killed, Connection

\* The connection the loop takes from the swapped-out queue joins the map.
LEMMA ArrivalKeepsTypes ==
  ASSUME TypeOK, newconns # <<>>
  PROVE  LET c == Head(newconns).id
             k == Head(newconns).who
             cs == [d \in DOMAIN conns \cup {c} |-> IF d = c THEN Arriving(k) ELSE conns[d]]
         IN /\ k \in Ki /\ c \in DOMAIN cs /\ ConnectionMap(cs)
            /\ Players(cs) \subseteq Players(conns)
            /\ Tail(newconns) \in Seq(Arrival)
<1> DEFINE c == Head(newconns).id
           k == Head(newconns).who
           cs == [d \in DOMAIN conns \cup {c} |-> IF d = c THEN Arriving(k) ELSE conns[d]]
<1>1. Head(newconns) \in Arrival /\ Tail(newconns) \in Seq(Arrival)
  BY DEF TypeOK
<1>2. c \in Nat /\ k \in Ki
  BY <1>1 DEF Arrival
<1>3. Arriving(k) \in Connection /\ Arriving(k).kinum = NoKi
  BY <1>2 DEF Arriving, Connection, JOIN_REQ
<1> HIDE DEF c, k
<1>4. ConnectionMap(cs)
  BY <1>2, <1>3 DEF ConnectionMap, TypeOK
<1>5. Players(cs) \subseteq Players(conns)
  BY <1>3 DEF Players
<1> QED
  BY <1>1, <1>2, <1>4, <1>5 DEF c, k

\* There are finitely many registrations, and of any part of them.
LEMMA TimersAreFinite ==
  ASSUME TypeOK
  PROVE  \A S \in SUBSET DOMAIN joinTimers : IsFiniteSet(S)
<1>1. 1 \in Int /\ adds \in Int
  BY DEF TypeOK
<1>2. IsFiniteSet(1..adds)
  BY <1>1, FS_Interval
<1> QED
  BY <1>2, FS_Subset DEF TypeOK

-----------------------------------------------------------------------------
\* The first state is typed.
LEMMA TypeOKInit == Init => TypeOK
<1> SUFFICES ASSUME Init PROVE TypeOK
  OBVIOUS
<1>1. DOMAIN conns = {} /\ conns \in [DOMAIN conns -> Connection]
  BY DEF Init, Nothing
<1>2. DOMAIN joinTimers = {} /\ joinTimers \in [DOMAIN joinTimers -> JoinTimer]
  BY DEF Init, Nothing
<1>3. queue \in Seq(Arrival) /\ newconns \in Seq(Arrival)
  BY DEF Init
<1> QED
  BY <1>1, <1>2, <1>3 DEF Init, TypeOK

\* Each step keeps the types.
LEMMA TypeOKNext == TypeOK /\ [Next]_vars => TypeOK'
<1> SUFFICES ASSUME TypeOK, [Next]_vars PROVE TypeOK'
  OBVIOUS
<1> USE DEF loopVars, queueVars, timerVars, playerVars
<1>1. ASSUME NEW k \in Ki, HandOff(k) PROVE TypeOK'
  <2>1. [id |-> arrivals', who |-> k] \in Arrival /\ arrivals' \in Nat
    BY <1>1 DEF HandOff, TypeOK, Arrival
  <2>2. queue' \in Seq(Arrival)
    BY <1>1, <2>1 DEF HandOff, TypeOK
  <2> QED
    BY <1>1, <2>1, <2>2 DEF HandOff, TypeOK
<1>2. ASSUME NEW k \in Ki, AddPlayer(k) PROVE TypeOK'
  <2>1. /\ adds' \in Nat /\ DOMAIN joinTimers' = DOMAIN joinTimers \cup {adds'}
        /\ DOMAIN joinTimers' \subseteq 1..adds' /\ joiners' \in Nat
    BY <1>2 DEF AddPlayer, TypeOK
  <2>2. [kinum |-> k, cancelled |-> FALSE] \in JoinTimer
    BY DEF JoinTimer
  <2>3. joinTimers' \in [DOMAIN joinTimers' -> JoinTimer]
    BY <1>2, <2>2 DEF AddPlayer, TypeOK
  <2> QED
    BY <1>2, <2>1, <2>3 DEF AddPlayer, CancelShutdownTimer, TypeOK
<1>3. ASSUME NEW k \in Ki, KillClient(k) PROVE TypeOK'
  <2> DEFINE claims == {c \in DOMAIN conns : conns[c].kinum = k}
  <2>1. claims \in SUBSET Nat /\ claims # {}
    BY <1>3 DEF KillClient, TypeOK
  <2>2. First(claims) \in DOMAIN conns
    BY <2>1, FirstIsMember
  <2>3. conns' = [conns EXCEPT ![First(claims)] = Killed(@)]
    BY <1>3 DEF KillClient
  <2> HIDE DEF claims
  <2>4. DOMAIN conns' = DOMAIN conns /\ conns' \in [DOMAIN conns -> Connection]
    BY <2>2, <2>3, KillingKeepsTypes DEF TypeOK
  <2> QED
    BY <1>3, <2>4 DEF KillClient, TypeOK
<1>4. ASSUME NEW c \in DOMAIN conns, LateJoin(c) PROVE TypeOK'
  <2> DEFINE k == conns[c].who
  <2>1. ConnectionMap(conns) /\ k \in Ki
    BY DEF TypeOK, ConnectionMap, Connection
  <2>2. CASE JoinRegistered(conns, c, k) \/ JoinRepeated(conns, c, k)
    <3>1. /\ ConnectionMap(conns') /\ owner' \in Ki \cup {NoKi} /\ told' \subseteq Ki
      BY <2>1, <2>2, JoinKeepsTypes
    <3>2. /\ DOMAIN joinTimers' = DOMAIN joinTimers
          /\ joinTimers' \in [DOMAIN joinTimers -> JoinTimer]
          /\ joiners' \in Nat /\ adds' = adds
          /\ shutdownTimer' \in {"none", "armed", "fired"}
      BY <2>1, <2>2, JoinKeepsTimers
    <3> QED
      BY <1>4, <3>1, <3>2 DEF LateJoin, TypeOK, ConnectionMap
  <2>3. CASE ConnShutdown(c) /\ UNCHANGED timerVars
    BY <1>4, <2>3, ShutdownKeepsTypes DEF LateJoin, TypeOK, ConnectionMap
  <2> QED
    BY <1>4, <2>2, <2>3 DEF LateJoin
<1>5. ASSUME NEW c \in DOMAIN conns, MembersListReq(c) PROVE TypeOK'
  <2>1. Heirs(conns, c) \subseteq DOMAIN conns
    BY DEF Heirs
  <2>2. {conns[d].kinum : d \in Heirs(conns, c)} \subseteq Ki \cup {NoKi}
    BY <2>1 DEF TypeOK, Connection
  <2>3. SetState(conns[c], MEMBERS_REQUESTED) \in Connection
    BY ZenonT(30) DEF TypeOK, SetState, Connection, MEMBERS_REQUESTED
  <2>4. conns' \in [DOMAIN conns -> Connection] /\ DOMAIN conns' = DOMAIN conns
    BY <1>5, <2>2, <2>3 DEF MembersListReq, TypeOK, Connection
  <2> QED
    BY <1>5, <2>4 DEF MembersListReq, TypeOK
<1>6. ASSUME NEW c \in DOMAIN conns, ClientProgress(c) PROVE TypeOK'
  <2>1. /\ SetState(conns[c], HAVE_CLONE) \in Connection
        /\ SetState(conns[c], STATE_REQUESTED) \in Connection
        /\ SetState(conns[c], IN_GAME) \in Connection
    BY DEF TypeOK, SetState, Connection, HAVE_CLONE, STATE_REQUESTED, IN_GAME
  <2>2. conns' \in [DOMAIN conns -> Connection] /\ DOMAIN conns' = DOMAIN conns
    BY <1>6, <2>1 DEF ClientProgress, TypeOK
  <2> QED
    BY <1>6, <2>2 DEF ClientProgress, TypeOK
<1>7. ASSUME NEW c \in DOMAIN conns, DropClient(c) PROVE TypeOK'
  BY <1>7, ShutdownKeepsTypes DEF DropClient, TypeOK, ConnectionMap
<1>8. ASSUME NEW c \in DOMAIN conns, KillBroken(c) PROVE TypeOK'
  <2>1. conns' \in [DOMAIN conns -> Connection] /\ DOMAIN conns' = DOMAIN conns
    BY <1>8, KillingKeepsTypes DEF KillBroken, TypeOK
  <2> QED
    BY <1>8, <2>1 DEF KillBroken, TypeOK
<1>9. CASE TakeQueue
  BY <1>9 DEF TakeQueue, TypeOK
<1>10. CASE JoinQueued
  <2> DEFINE c == Head(newconns).id
             k == Head(newconns).who
             cs == [d \in DOMAIN conns \cup {c} |-> IF d = c THEN Arriving(k) ELSE conns[d]]
  <2>1. /\ k \in Ki /\ c \in DOMAIN cs /\ ConnectionMap(cs)
        /\ Tail(newconns) \in Seq(Arrival)
    BY <1>10, ArrivalKeepsTypes DEF JoinQueued
  <2>2. /\ phase' = phase /\ stop' = stop /\ queue' = queue /\ arrivals' = arrivals
        /\ newconns' = Tail(newconns) /\ bye' = bye
    BY <1>10 DEF JoinQueued
  <2>3. CASE JoinRegistered(cs, c, k) \/ JoinRepeated(cs, c, k)
    <3> HIDE DEF c, k, cs
    <3>1. ConnectionMap(conns') /\ owner' \in Ki \cup {NoKi} /\ told' \subseteq Ki
      BY <2>1, <2>3, JoinKeepsTypes
    <3>2. /\ DOMAIN joinTimers' = DOMAIN joinTimers
          /\ joinTimers' \in [DOMAIN joinTimers -> JoinTimer]
          /\ joiners' \in Nat /\ adds' = adds
          /\ shutdownTimer' \in {"none", "armed", "fired"}
      BY <2>1, <2>3, JoinKeepsTimers
    <3> QED
      BY <2>1, <2>2, <3>1, <3>2 DEF TypeOK, ConnectionMap
  <2>4. CASE ~(JoinRegistered(cs, c, k) \/ JoinRepeated(cs, c, k))
    <3> DEFINE refused == [Arriving(k) EXCEPT !.reply = "ERROR_AUTH_TOO_OLD"]
    <3>1. /\ conns' = [cs EXCEPT ![c] = Killed(refused)]
          /\ UNCHANGED <<timerVars, owner, told, shutdownTimer>>
      BY <1>10, <2>4 DEF JoinQueued
    <3>2. Killed(refused) \in Connection
      <4>1. refused \in Connection
        BY <2>1 DEF Arriving, Connection, JOIN_REQ
      <4> QED
        BY <4>1, KillingKeepsTypes
    <3> HIDE DEF refused
    <3> HIDE DEF cs, c, k
    <3>3. DOMAIN conns' = DOMAIN cs /\ conns' \in [DOMAIN cs -> Connection]
      BY <2>1, <3>1, <3>2 DEF ConnectionMap
    <3> QED
      BY <2>1, <2>2, <3>1, <3>3 DEF TypeOK, ConnectionMap
  <2> QED
    BY <2>3, <2>4
<1>11. CASE JoinAfterShutdown
  BY <1>11 DEF JoinAfterShutdown, TypeOK
<1>12. CASE TimersTimeout
  <2>1. PICK expired \in SUBSET DOMAIN joinTimers :
          /\ joinTimers' = Restrict(joinTimers, DOMAIN joinTimers \ expired)
          /\ joiners' = LET gone == Cardinality(expired \cap Live(joinTimers))
                        IN IF joiners > gone THEN joiners - gone ELSE 0
    BY <1>12 DEF TimersTimeout
  <2>2. /\ DOMAIN joinTimers' \subseteq DOMAIN joinTimers
        /\ joinTimers' \in [DOMAIN joinTimers' -> JoinTimer]
    BY <2>1 DEF Restrict, TypeOK
  <2>3. joiners' \in Nat /\ adds' = adds
    <3>1. Cardinality(expired \cap Live(joinTimers)) \in Nat
      BY TimersAreFinite, FS_CardinalityType DEF Live
    <3> QED
      BY <1>12, <2>1, <3>1 DEF TimersTimeout, TypeOK
  <2>4. shutdownTimer' \in {"none", "armed", "fired"} /\ bye' \in BOOLEAN
    BY <1>12 DEF TimersTimeout, MaybeStartShutdownTimer, TypeOK
  <2> QED
    BY <1>12, <2>2, <2>3, <2>4 DEF TimersTimeout, TypeOK
<1>13. CASE RequestShutdown
  BY <1>13 DEF RequestShutdown, TypeOK
<1>14. CASE Shutdown
  <2>1. DOMAIN Nothing = {} /\ \A S : Nothing \in [DOMAIN Nothing -> S]
    BY DEF Nothing
  <2> QED
    BY <1>14, <2>1 DEF Shutdown, TypeOK
<1>15. CASE Quit
  BY <1>15 DEF Quit, TypeOK
<1>16. CASE Reap
  BY <1>16 DEF Reap, TypeOK
<1>17. CASE UNCHANGED vars
  BY <1>17 DEF vars, TypeOK
<1> QED
  BY <1>1, <1>2, <1>3, <1>4, <1>5, <1>6, <1>7, <1>8, <1>9, <1>10, <1>11, <1>12,
     <1>13, <1>14, <1>15, <1>16, <1>17
  DEF Next, ClientStep, GameBye, ShutdownRequested, VaultLost

\* The server's state stays what the code declares it to be.
THEOREM TypeCorrect == Spec => []TypeOK
  BY TypeOKInit, TypeOKNext, PTL DEF Spec

-----------------------------------------------------------------------------
(* Nobody is abandoned.  The count of joiners is what the code decides by, *)
(* so it has to be right; a Bye is only out once the timer has fired.      *)

Safe ==
  /\ JoinersCounted
  /\ NobodyAbandoned
  /\ Running /\ bye => shutdownTimer = "fired"

\* m_joiners = 0 says that no registration is waiting.
LEMMA NoJoinersNoRegistrations ==
  ASSUME TypeOK, Running, JoinersCounted
  PROVE  joiners = 0 <=> Live(joinTimers) = {}
<1>1. IsFiniteSet(Live(joinTimers))
  BY TimersAreFinite DEF Live
<1> QED
  BY <1>1, FS_EmptySet DEF JoinersCounted

\* Safe is about players and connections only.
LEMMA SamePlayers ==
  ASSUME DOMAIN conns' = DOMAIN conns,
         \A c \in DOMAIN conns : conns'[c].kinum = conns[c].kinum
  PROVE  Players(conns') = Players(conns)
  BY DEF Players

\* Using up a registration happens only while no shutdown is under way, and
\* takes it off the count.
LEMMA RegisteredIsSafe ==
  ASSUME TypeOK, Safe, Running, phase' = phase, bye' = bye,
         NEW cs, NEW c, NEW k, JoinRegistered(cs, c, k)
  PROVE  Safe'
<1>1. PICK t \in DOMAIN joinTimers :
        /\ ~joinTimers[t].cancelled
        /\ joinTimers' = [joinTimers EXCEPT ![t].cancelled = TRUE]
        /\ joiners' = IF joiners > 0 THEN joiners - 1 ELSE joiners
  BY DEF JoinRegistered, Registrations
<1>2. t \in Live(joinTimers) /\ Live(joinTimers') = Live(joinTimers) \ {t}
  BY <1>1 DEF Live, TypeOK, JoinTimer
<1>3. joiners' = Cardinality(Live(joinTimers'))
  <2>1. IsFiniteSet(Live(joinTimers)) /\ joiners = Cardinality(Live(joinTimers))
    BY TimersAreFinite DEF Live, Safe, JoinersCounted
  <2>2. joiners # 0
    BY <1>2, <2>1, FS_EmptySet
  <2>3. joiners' = joiners - 1
    BY <1>1, <2>2 DEF TypeOK
  <2> QED
    BY <1>2, <2>1, <2>3, FS_RemoveElement
<1>4. shutdownTimer = "none" /\ ~bye
  BY <1>2 DEF Safe, NobodyAbandoned
<1>5. shutdownTimer' = "none" /\ ~bye'
  BY <1>4 DEF JoinRegistered, CancelShutdownTimer
<1> QED
  BY <1>3, <1>5 DEF Safe, JoinersCounted, NobodyAbandoned

\* A step that takes in nobody and leaves the registrations and the shutdown
\* timer alone is safe.
LEMMA NobodyEntersIsSafe ==
  ASSUME Safe, Running' => Running, UNCHANGED <<timerVars, shutdownTimer, bye>>,
         Players(conns') \subseteq Players(conns)
  PROVE  Safe'
  BY DEF Safe, JoinersCounted, NobodyAbandoned, timerVars

\* Losing a connection may arm the shutdown timer, of an empty age only.
LEMMA ShutdownIsSafe ==
  ASSUME TypeOK, Safe, Running, phase' = phase, UNCHANGED <<timerVars, bye>>,
         NEW c \in DOMAIN conns, ConnShutdown(c)
  PROVE  Safe'
<1>1. Players(conns') \subseteq Players(conns)
  BY ShutdownKeepsTypes
<1>2. CASE shutdownTimer' = shutdownTimer
  BY <1>1, <1>2 DEF Safe, JoinersCounted, NobodyAbandoned, timerVars, Running
<1>3. CASE shutdownTimer' # shutdownTimer
  <2>1. DOMAIN conns' = {} /\ joiners = 0 /\ shutdownTimer = "none"
    BY <1>3 DEF ConnShutdown, MaybeStartShutdownTimer
  <2>2. Players(conns') = {}
    BY <2>1 DEF Players
  <2>3. Live(joinTimers') = {}
    BY <2>1, NoJoinersNoRegistrations DEF Safe, timerVars
  <2> QED
    BY <2>1, <2>2, <2>3 DEF Safe, JoinersCounted, NobodyAbandoned, timerVars, Running
<1> QED
  BY <1>2, <1>3

\* The first state is safe.
LEMMA SafeInit == Init => Safe
<1> SUFFICES ASSUME Init PROVE Safe
  OBVIOUS
<1>1. DOMAIN conns = {} /\ DOMAIN joinTimers = {}
  BY DEF Init, Nothing
<1>2. Players(conns) = {} /\ Live(joinTimers) = {}
  BY <1>1 DEF Players, Live
<1> QED
  BY <1>2, FS_EmptySet DEF Init, Safe, JoinersCounted, NobodyAbandoned

\* Each step keeps it so.
LEMMA SafeNext == TypeOK /\ Safe /\ [Next]_vars => Safe'
<1> SUFFICES ASSUME TypeOK, Safe, [Next]_vars PROVE Safe'
  OBVIOUS
<1> USE DEF loopVars, queueVars, playerVars, Looping
<1>1. ASSUME NEW k \in Ki, HandOff(k) PROVE Safe'
  BY <1>1, NobodyEntersIsSafe DEF HandOff, Running
<1>2. ASSUME NEW k \in Ki, AddPlayer(k) PROVE Safe'
  <2>1. Running /\ shutdownTimer # "fired" /\ ~bye
    BY <1>2 DEF AddPlayer, Safe, Running
  <2>2. shutdownTimer' = "none" /\ ~bye' /\ phase' = phase /\ conns' = conns
    BY <1>2, <2>1 DEF AddPlayer, CancelShutdownTimer, TypeOK
  <2>3. Live(joinTimers') = Live(joinTimers) \cup {adds'} /\ adds' \notin Live(joinTimers)
    BY <1>2 DEF AddPlayer, Live, TypeOK
  <2>4. IsFiniteSet(Live(joinTimers))
    BY TimersAreFinite DEF Live
  <2>5. joiners' = Cardinality(Live(joinTimers'))
    BY <1>2, <2>1, <2>3, <2>4, FS_AddElement DEF AddPlayer, Safe, JoinersCounted
  <2> QED
    BY <2>2, <2>5 DEF Safe, JoinersCounted, NobodyAbandoned
<1>3. ASSUME NEW k \in Ki, KillClient(k) PROVE Safe'
  <2> DEFINE claims == {c \in DOMAIN conns : conns[c].kinum = k}
  <2>1. conns' = [conns EXCEPT ![First(claims)] = Killed(@)]
    BY <1>3 DEF KillClient
  <2> HIDE DEF claims
  <2>2. DOMAIN conns' = DOMAIN conns /\ \A c \in DOMAIN conns : conns'[c].kinum = conns[c].kinum
    BY <2>1, KillingKeepsTypes DEF TypeOK
  <2> QED
    BY <1>3, <2>2, SamePlayers, NobodyEntersIsSafe DEF KillClient, Running
<1>4. ASSUME NEW c \in DOMAIN conns, LateJoin(c) PROVE Safe'
  <2> DEFINE k == conns[c].who
  <2>1. ConnectionMap(conns) /\ k \in Ki /\ Running /\ phase' = phase /\ bye' = bye
    BY <1>4 DEF TypeOK, ConnectionMap, Connection, LateJoin, Readable, Running
  <2>2. CASE JoinRegistered(conns, c, k)
    BY <2>1, <2>2, RegisteredIsSafe
  <2>3. CASE JoinRepeated(conns, c, k)
    <3>1. Players(conns') \subseteq Players(conns)
      BY <2>1, <2>3, JoinKeepsTypes
    <3> QED
      BY <2>1, <2>3, <3>1, NobodyEntersIsSafe DEF JoinRepeated
  <2>4. CASE ConnShutdown(c) /\ UNCHANGED timerVars
    BY <2>1, <2>4, ShutdownIsSafe
  <2> QED
    BY <1>4, <2>2, <2>3, <2>4 DEF LateJoin
<1>5. ASSUME NEW c \in DOMAIN conns, MembersListReq(c) PROVE Safe'
  <2>1. DOMAIN conns' = DOMAIN conns /\ \A d \in DOMAIN conns : conns'[d].kinum = conns[d].kinum
    BY <1>5 DEF MembersListReq, SetState, TypeOK, Connection
  <2> QED
    BY <1>5, <2>1, SamePlayers, NobodyEntersIsSafe DEF MembersListReq, Readable, Running
<1>6. ASSUME NEW c \in DOMAIN conns, ClientProgress(c) PROVE Safe'
  <2>1. \A s : SetState(conns[c], s).kinum = conns[c].kinum
    BY DEF SetState, TypeOK, Connection
  <2>2. DOMAIN conns' = DOMAIN conns /\ \A d \in DOMAIN conns : conns'[d].kinum = conns[d].kinum
    BY <1>6, <2>1 DEF ClientProgress, TypeOK
  <2> QED
    BY <1>6, <2>2, SamePlayers, NobodyEntersIsSafe DEF ClientProgress, Readable, Running
<1>7. ASSUME NEW c \in DOMAIN conns, DropClient(c) PROVE Safe'
  BY <1>7, ShutdownIsSafe DEF DropClient, Running
<1>8. ASSUME NEW c \in DOMAIN conns, KillBroken(c) PROVE Safe'
  <2>1. DOMAIN conns' = DOMAIN conns /\ \A d \in DOMAIN conns : conns'[d].kinum = conns[d].kinum
    BY <1>8, KillingKeepsTypes DEF KillBroken, TypeOK
  <2> QED
    BY <1>8, <2>1, SamePlayers, NobodyEntersIsSafe DEF KillBroken, Readable, Running
<1>9. CASE TakeQueue
  BY <1>9, NobodyEntersIsSafe DEF TakeQueue, Running
<1>10. CASE JoinQueued
  <2> DEFINE c == Head(newconns).id
             k == Head(newconns).who
             cs == [d \in DOMAIN conns \cup {c} |-> IF d = c THEN Arriving(k) ELSE conns[d]]
  <2>1. /\ k \in Ki /\ c \in DOMAIN cs /\ ConnectionMap(cs)
        /\ Players(cs) \subseteq Players(conns)
    BY <1>10, ArrivalKeepsTypes DEF JoinQueued
  <2>2. Running /\ phase' = phase /\ bye' = bye
    BY <1>10 DEF JoinQueued, Running
  <2>3. \/ JoinRegistered(cs, c, k) \/ JoinRepeated(cs, c, k)
        \/ /\ conns' = [cs EXCEPT ![c] = Killed([Arriving(k) EXCEPT !.reply = "ERROR_AUTH_TOO_OLD"])]
           /\ UNCHANGED <<timerVars, owner, told, shutdownTimer>>
    BY <1>10 DEF JoinQueued
  <2>4. Killed([Arriving(k) EXCEPT !.reply = "ERROR_AUTH_TOO_OLD"]).kinum = NoKi
    BY DEF Killed, Arriving
  <2> HIDE DEF c, k, cs
  <2>5. CASE JoinRegistered(cs, c, k)
    BY <2>2, <2>5, RegisteredIsSafe
  <2>6. CASE JoinRepeated(cs, c, k)
    <3>1. Players(conns') \subseteq Players(conns)
      BY <2>1, <2>6, JoinKeepsTypes
    <3> QED
      BY <2>2, <2>6, <3>1, NobodyEntersIsSafe DEF JoinRepeated
  <2>7. CASE /\ conns' = [cs EXCEPT ![c] = Killed([Arriving(k) EXCEPT !.reply = "ERROR_AUTH_TOO_OLD"])]
             /\ UNCHANGED <<timerVars, owner, told, shutdownTimer>>
    <3>1. Players(conns') \subseteq Players(conns)
      BY <2>1, <2>4, <2>7 DEF Players, ConnectionMap
    <3> QED
      BY <2>2, <2>7, <3>1, NobodyEntersIsSafe
  <2> QED
    BY <2>3, <2>5, <2>6, <2>7
<1>11. CASE JoinAfterShutdown
  BY <1>11, NobodyEntersIsSafe DEF JoinAfterShutdown, Running
<1>12. CASE TimersTimeout
  <2>1. PICK expired \in SUBSET DOMAIN joinTimers, fires \in BOOLEAN :
          /\ fires => shutdownTimer = "armed"
          /\ joinTimers' = Restrict(joinTimers, DOMAIN joinTimers \ expired)
          /\ joiners' = LET gone == Cardinality(expired \cap Live(joinTimers))
                        IN IF joiners > gone THEN joiners - gone ELSE 0
          /\ LET timer == IF fires THEN "fired" ELSE shutdownTimer
             IN IF timer = "fired"
                  THEN shutdownTimer' = timer /\ bye' = TRUE
                  ELSE /\ shutdownTimer' = MaybeStartShutdownTimer(conns, joiners', timer)
                       /\ UNCHANGED bye
    BY <1>12 DEF TimersTimeout
  <2>2. Running /\ phase' = phase /\ conns' = conns
    BY <1>12 DEF TimersTimeout, Running
  <2>3. Live(joinTimers') = Live(joinTimers) \ expired
    BY <2>1 DEF Live, Restrict
  <2>4. IsFiniteSet(Live(joinTimers)) /\ IsFiniteSet(expired \cap Live(joinTimers))
    BY TimersAreFinite DEF Live
  <2>5. joiners' = Cardinality(Live(joinTimers')) /\ IsFiniteSet(Live(joinTimers'))
    <3> DEFINE live == Live(joinTimers)
               gone == Cardinality(expired \cap live)
    <3>1. live \cap expired = expired \cap live
      OBVIOUS
    <3>2. /\ IsFiniteSet(live \ expired) /\ Cardinality(live \ expired) = Cardinality(live) - gone
      BY <2>4, <3>1, FS_Difference
    <3>3. gone \in Nat /\ Cardinality(live \ expired) \in Nat /\ Cardinality(live) \in Nat
      BY <2>4, <3>2, FS_CardinalityType
    <3>4. joiners = Cardinality(live)
      BY <2>2 DEF Safe, JoinersCounted
    <3>5. joiners' = Cardinality(live) - gone
      BY <2>1, <3>2, <3>3, <3>4
    <3> QED
      BY <2>3, <3>2, <3>5
  <2>6. shutdownTimer # "none" => Players(conns) = {} /\ Live(joinTimers) = {}
    BY <2>2 DEF Safe, NobodyAbandoned
  <2>7. CASE shutdownTimer # "none"
    <3>1. Players(conns') = {} /\ Live(joinTimers') = {}
      BY <2>2, <2>3, <2>6, <2>7
    <3>2. bye' => shutdownTimer' = "fired"
      BY <2>1, <2>2, <2>7 DEF Safe, MaybeStartShutdownTimer
    <3> QED
      BY <2>5, <3>1, <3>2 DEF Safe, JoinersCounted, NobodyAbandoned
  <2>8. CASE shutdownTimer = "none"
    <3>1. ~fires /\ ~bye /\ ~bye' /\ shutdownTimer' = MaybeStartShutdownTimer(conns, joiners', "none")
      BY <2>1, <2>2, <2>8 DEF Safe
    <3>2. CASE shutdownTimer' = "none"
      BY <2>5, <3>1, <3>2 DEF Safe, JoinersCounted, NobodyAbandoned
    <3>3. CASE shutdownTimer' # "none"
      <4>1. DOMAIN conns = {} /\ joiners' = 0
        BY <3>1, <3>3 DEF MaybeStartShutdownTimer
      <4>2. Players(conns') = {} /\ Live(joinTimers') = {}
        BY <2>2, <2>5, <4>1, FS_EmptySet DEF Players
      <4> QED
        BY <2>5, <3>1, <4>2 DEF Safe, JoinersCounted, NobodyAbandoned
    <3> QED
      BY <3>2, <3>3
  <2> QED
    BY <2>7, <2>8
<1>13. CASE RequestShutdown
  BY <1>13, NobodyEntersIsSafe DEF RequestShutdown, Running
<1>14. CASE Shutdown
  BY <1>14 DEF Shutdown, Running, Safe, JoinersCounted, NobodyAbandoned
<1>15. CASE Quit
  BY <1>15, NobodyEntersIsSafe DEF Quit, Running
<1>16. CASE Reap
  BY <1>16, NobodyEntersIsSafe DEF Reap, Running
<1>17. CASE UNCHANGED vars
  BY <1>17, NobodyEntersIsSafe DEF vars, timerVars, Running
<1> QED
  BY <1>1, <1>2, <1>3, <1>4, <1>5, <1>6, <1>7, <1>8, <1>9, <1>10, <1>11, <1>12,
     <1>13, <1>14, <1>15, <1>16, <1>17
  DEF Next, ClientStep, GameBye, ShutdownRequested, VaultLost

\* A timed shutdown never happens under a player who is in the age or who was
\* promised a place in it, and the count the decision rests on is right.
THEOREM NobodyIsAbandoned == Spec => [](NobodyAbandoned /\ JoinersCounted)
<1>1. Init => TypeOK /\ Safe
  BY TypeOKInit, SafeInit
<1>2. TypeOK /\ Safe /\ [Next]_vars => TypeOK' /\ Safe'
  BY TypeOKNext, SafeNext
<1>3. Safe => NobodyAbandoned /\ JoinersCounted
  BY DEF Safe
<1> QED
  BY <1>1, <1>2, <1>3, PTL DEF Spec

-----------------------------------------------------------------------------
(* Who is in the age: one connection to a player, and tracking, the group  *)
(* owner and the clients' member lists agree with the connections there    *)
(* are.  None of the four is inductive: each is kept by an eviction, a     *)
(* join or a departure only because the others hold before it.             *)

\* What a map of connections is like between any two steps: a connection
\* claims its own player or none, is past the join when it claims one, and is
\* sent the updates of the members from the time it lister for them.
Sound(cs) ==
  /\ \A c, d \in DOMAIN cs : cs[c].kinum = cs[d].kinum /\ cs[c].kinum # NoKi => c = d
  /\ \A c \in DOMAIN cs :
       /\ cs[c].kinum \in {NoKi, cs[c].who}
       /\ cs[c].kinum # NoKi => cs[c].state >= JOINED
       /\ cs[c].asked => /\ cs[c].state >= MEMBERS_REQUESTED
                          /\ cs[c].members \ {NoKi} = Players(cs) \ {cs[c].kinum}

\* The owner is one of the players, and no other was told to be.
Owned(cs, own) ==
  /\ own # NoKi => own \in Players(cs)
  /\ \A c \in DOMAIN cs : cs[c].isOwner /\ cs[c].kinum # NoKi => cs[c].kinum = own

\* No connection is handed over twice, so that one that joins is a new one.
Fresh ==
  /\ \A c \in DOMAIN conns : c <= arrivals
  /\ \A i \in DOMAIN queue : queue[i].id <= arrivals /\ queue[i].id \notin DOMAIN conns
  /\ \A i \in DOMAIN newconns : newconns[i].id <= arrivals /\ newconns[i].id \notin DOMAIN conns
  /\ \A i, j \in DOMAIN queue : queue[i].id = queue[j].id => i = j
  /\ \A i, j \in DOMAIN newconns : newconns[i].id = newconns[j].id => i = j
  /\ \A i \in DOMAIN newconns, j \in DOMAIN queue : newconns[i].id # queue[j].id

\* The inductive invariant.  After shutdown() there are no connections.
Membership ==
  /\ Sound(conns)
  /\ Running => Owned(conns, owner) /\ told = Players(conns)
  /\ ~Running => DOMAIN conns = {}
  /\ Fresh

\* The invariant says what the runs check.
LEMMA MembershipSuffices ==
  Membership => /\ OneConnectionPerPlayer /\ TrackingIsRight
                /\ OwnerIsRight /\ MemberListsAreCurrent
  BY DEF Membership, Sound, Owned, OneConnectionPerPlayer, TrackingIsRight, OwnerIsRight,
         MemberListsAreCurrent

-----------------------------------------------------------------------------
(* Departures.                                                             *)

\* What conn_shutdown of c changes of another connection.
LEMMA FieldsAfterLoss ==
  ASSUME NEW cs, ConnectionMap(cs), NEW own \in Ki \cup {NoKi}, NEW c \in DOMAIN cs,
         NEW d \in DOMAIN cs \ {c}
  PROVE  /\ ConnsAfter(cs, own, c)[d].who = cs[d].who
         /\ ConnsAfter(cs, own, c)[d].kinum = cs[d].kinum
         /\ ConnsAfter(cs, own, c)[d].state = cs[d].state
         /\ ConnsAfter(cs, own, c)[d].asked = cs[d].asked
         /\ ConnsAfter(cs, own, c)[d].isOwner => cs[d].isOwner \/ Inherits(cs, own, c, d)
         /\ ConnsAfter(cs, own, c)[d].members =
              IF cs[d].state >= MEMBERS_REQUESTED /\ cs[c].kinum # NoKi
                THEN cs[d].members \ {cs[c].kinum} ELSE cs[d].members
<1>1. cs[d] \in Connection
  BY DEF ConnectionMap
<1> QED
  BY <1>1 DEF ConnsAfter, Connection

\* Where one connection to a player is the rule, the player goes with it.
LEMMA PlayersAfterLoss ==
  ASSUME NEW cs, ConnectionMap(cs), NEW own \in Ki \cup {NoKi}, NEW c \in DOMAIN cs,
         Sound(cs)
  PROVE  Players(ConnsAfter(cs, own, c)) = Players(cs) \ {cs[c].kinum}
<1> DEFINE after == ConnsAfter(cs, own, c)
<1>1. DOMAIN after = DOMAIN cs \ {c} /\ \A d \in DOMAIN cs \ {c} : after[d].kinum = cs[d].kinum
  BY LosingAConnection
<1> HIDE DEF after
<1>2. \A d \in DOMAIN cs \ {c} : cs[d].kinum = cs[c].kinum => cs[d].kinum = NoKi
  BY DEF Sound
<1>3. Players(after) \subseteq Players(cs) \ {cs[c].kinum}
  BY <1>1, <1>2 DEF Players
<1>4. ASSUME NEW p \in Players(cs) \ {cs[c].kinum} PROVE p \in Players(after)
  <2>1. PICK d \in DOMAIN cs : p = cs[d].kinum /\ p # NoKi
    BY DEF Players
  <2>2. d \in DOMAIN after /\ after[d].kinum = p
    BY <1>1, <2>1
  <2> QED
    BY <2>1, <2>2 DEF Players
<1> QED
  BY <1>3, <1>4 DEF after

\* The departure is announced to everyone who keeps a list (conn_shutdown).
LEMMA LossIsSound ==
  ASSUME NEW cs, ConnectionMap(cs), NEW own \in Ki \cup {NoKi}, NEW c \in DOMAIN cs,
         Sound(cs)
  PROVE  Sound(ConnsAfter(cs, own, c))
<1> DEFINE after == ConnsAfter(cs, own, c)
<1>1. DOMAIN after = DOMAIN cs \ {c}
  BY LosingAConnection
<1>2. Players(after) = Players(cs) \ {cs[c].kinum}
  BY PlayersAfterLoss
<1>3. \A d \in DOMAIN cs \ {c} :
        /\ after[d].who = cs[d].who /\ after[d].kinum = cs[d].kinum
        /\ after[d].state = cs[d].state /\ after[d].asked = cs[d].asked
        /\ after[d].members = IF cs[d].state >= MEMBERS_REQUESTED /\ cs[c].kinum # NoKi
                                THEN cs[d].members \ {cs[c].kinum} ELSE cs[d].members
  BY FieldsAfterLoss
<1> HIDE DEF after
<1>4. ASSUME NEW d \in DOMAIN after, after[d].asked
      PROVE  after[d].members \ {NoKi} = Players(after) \ {after[d].kinum}
  <2>1. cs[d].state >= MEMBERS_REQUESTED /\ cs[d].members \ {NoKi} = Players(cs) \ {cs[d].kinum}
    BY <1>1, <1>3, <1>4 DEF Sound
  <2>2. CASE cs[c].kinum # NoKi
    BY <1>1, <1>2, <1>3, <2>1, <2>2
  <2>3. CASE cs[c].kinum = NoKi
    <3>1. NoKi \notin Players(cs)
      BY DEF Players
    <3> QED
      BY <1>1, <1>2, <1>3, <2>1, <2>3, <3>1
  <2> QED
    BY <2>2, <2>3
<1>5. \A d, e \in DOMAIN after : after[d].kinum = after[e].kinum /\ after[d].kinum # NoKi => d = e
  BY <1>1, <1>3 DEF Sound
<1>6. \A d \in DOMAIN after :
        /\ after[d].kinum \in {NoKi, after[d].who}
        /\ after[d].kinum # NoKi => after[d].state >= JOINED
        /\ after[d].asked => after[d].state >= MEMBERS_REQUESTED
  BY <1>1, <1>3 DEF Sound
<1>7. Sound(after)
  BY <1>4, <1>5, <1>6 DEF Sound
<1> QED
  BY <1>7 DEF after

\* The age passes to the first who has joined, and nobody else was told.
LEMMA LossIsOwned ==
  ASSUME NEW cs, ConnectionMap(cs), NEW own \in Ki \cup {NoKi}, NEW c \in DOMAIN cs,
         Sound(cs), Owned(cs, own)
  PROVE  Owned(ConnsAfter(cs, own, c), OwnerAfter(cs, own, c))
<1> DEFINE after == ConnsAfter(cs, own, c)
           new == OwnerAfter(cs, own, c)
<1>1. DOMAIN after = DOMAIN cs \ {c}
  BY LosingAConnection
<1>2. Players(after) = Players(cs) \ {cs[c].kinum}
  BY PlayersAfterLoss
<1>3. \A d \in DOMAIN cs \ {c} :
        /\ after[d].kinum = cs[d].kinum
        /\ after[d].isOwner => cs[d].isOwner \/ Inherits(cs, own, c, d)
  BY FieldsAfterLoss
<1> HIDE DEF after
<1>4. CASE own = NoKi \/ cs[c].kinum # own
  <2>1. new = own /\ \A d \in DOMAIN cs : ~Inherits(cs, own, c, d)
    BY <1>4 DEF OwnerAfter, Inherits
  <2> QED
    BY <1>1, <1>2, <1>3, <1>4, <2>1 DEF Owned, after
<1>5. CASE own # NoKi /\ cs[c].kinum = own
  <2>1. \A d \in DOMAIN cs \ {c} : ~(cs[d].isOwner /\ cs[d].kinum # NoKi)
    BY <1>5 DEF Owned, Sound
  <2>2. CASE Heirs(cs, c) = {}
    <3>1. new = NoKi /\ \A d \in DOMAIN cs : ~Inherits(cs, own, c, d)
      BY <1>5, <2>2 DEF OwnerAfter, Inherits
    <3> QED
      BY <1>1, <1>3, <2>1, <3>1 DEF Owned, after
  <2>3. CASE Heirs(cs, c) # {}
    <3> DEFINE h == First(Heirs(cs, c))
    <3>1. Heirs(cs, c) \in SUBSET Nat /\ Heirs(cs, c) \subseteq DOMAIN cs \ {c}
      BY DEF Heirs, ConnectionMap
    <3>2. h \in DOMAIN cs \ {c}
      BY <2>3, <3>1, FirstIsMember
    <3>3. new = cs[h].kinum /\ \A d \in DOMAIN cs : Inherits(cs, own, c, d) => d = h
      BY <1>5, <2>3 DEF OwnerAfter, Inherits
    <3> HIDE DEF h, new
    <3>4. new # NoKi => new \in Players(after)
      BY <1>1, <1>3, <3>2, <3>3 DEF Players
    <3>5. \A d \in DOMAIN after : after[d].isOwner /\ after[d].kinum # NoKi => after[d].kinum = new
      BY <1>1, <1>3, <2>1, <3>3
    <3> QED
      BY <3>4, <3>5 DEF Owned, after, new
  <2> QED
    BY <2>2, <2>3
<1> QED
  BY <1>4, <1>5

-----------------------------------------------------------------------------
(* Joins.                                                                  *)

\* At most one connection is left over from an earlier visit, so none is
\* after the eviction, which takes the player out of the age for the moment.
LEMMA EvictionIsSound ==
  ASSUME NEW cs, ConnectionMap(cs), NEW c \in DOMAIN cs, NEW k \in Ki,
         owner \in Ki \cup {NoKi}, Sound(cs), Owned(cs, owner)
  PROVE  /\ Sound(Evicted(cs, c, k)) /\ Owned(Evicted(cs, c, k), OwnerEvicted(cs, c, k))
         /\ Players(Evicted(cs, c, k)) =
              IF Stale(cs, c, k) = {} THEN Players(cs) ELSE Players(cs) \ {k}
         /\ \A d \in DOMAIN Evicted(cs, c, k) \ {c} : Evicted(cs, c, k)[d].kinum # k
         /\ Evicted(cs, c, k)[c].who = cs[c].who
<1>1. CASE Stale(cs, c, k) = {}
  BY <1>1 DEF Evicted, OwnerEvicted, Stale
<1>2. CASE Stale(cs, c, k) # {}
  <2> DEFINE s == First(Stale(cs, c, k))
  <2>1. Stale(cs, c, k) \in SUBSET Nat
    BY DEF Stale, ConnectionMap
  <2>2. s \in Stale(cs, c, k)
    BY <1>2, <2>1, FirstIsMember
  <2>3. Evicted(cs, c, k) = ConnsAfter(cs, owner, s) /\ OwnerEvicted(cs, c, k) = OwnerAfter(cs, owner, s)
    BY <1>2 DEF Evicted, OwnerEvicted
  <2> HIDE DEF s
  <2>4. s \in DOMAIN cs /\ s # c /\ cs[s].kinum = k
    BY <2>2 DEF Stale
  <2>5. /\ Sound(ConnsAfter(cs, owner, s))
        /\ Owned(ConnsAfter(cs, owner, s), OwnerAfter(cs, owner, s))
    BY <2>4, LossIsSound, LossIsOwned
  <2>6. Players(ConnsAfter(cs, owner, s)) = Players(cs) \ {cs[s].kinum}
    BY <2>4, PlayersAfterLoss
  <2>7. /\ DOMAIN ConnsAfter(cs, owner, s) = DOMAIN cs \ {s}
        /\ \A d \in DOMAIN cs \ {s} : ConnsAfter(cs, owner, s)[d].kinum = cs[d].kinum
    BY <2>4, LosingAConnection
  <2>8. \A d \in DOMAIN cs \ {s} : cs[d].kinum # k
    BY <2>4, KiAssumption DEF Sound
  <2>9. ConnsAfter(cs, owner, s)[c].who = cs[c].who
    BY <2>4, FieldsAfterLoss, ZenonT(30)
  <2> QED
    BY <1>2, <2>3, <2>4, <2>5, <2>6, <2>7, <2>8, <2>9
<1> QED
  BY <1>1, <1>2

\* What joining changes of the connection that joins.
LEMMA FieldsOfJoiner ==
  ASSUME NEW cs, ConnectionMap(cs), NEW own \in Ki \cup {NoKi}, NEW c \in DOMAIN cs,
         NEW k \in Ki
  PROVE  /\ Joined(cs, own, c, k)[c].who = cs[c].who
         /\ Joined(cs, own, c, k)[c].kinum = k
         /\ Joined(cs, own, c, k)[c].state >= JOINED
         /\ ~Joined(cs, own, c, k)[c].asked
         /\ Joined(cs, own, c, k)[c].isOwner => own = NoKi
<1>1. SetState(cs[c], JOINED) \in Connection
  BY DEF ConnectionMap, SetState, Connection, JOINED
<1>2. SetState(cs[c], JOINED).who = cs[c].who /\ SetState(cs[c], JOINED).state >= JOINED
  BY DEF ConnectionMap, SetState, Connection, JOINED, KILL_AFTER_QUEUE_EMPTY
<1> QED
  BY <1>1, <1>2 DEF Joined, Connection

\* A connection takes over its player when no other claims it.
LEMMA JoinIsSound ==
  ASSUME NEW cs, ConnectionMap(cs), NEW own \in Ki \cup {NoKi}, NEW c \in DOMAIN cs,
         NEW k \in Ki, cs[c].who = k, Sound(cs), Owned(cs, own),
         \A d \in DOMAIN cs \ {c} : cs[d].kinum # k
  PROVE  /\ Players(Joined(cs, own, c, k)) = Players(cs) \cup {k}
         /\ Sound(Joined(cs, own, c, k))
         /\ Owned(Joined(cs, own, c, k), IF own = NoKi THEN k ELSE own)
<1> DEFINE in == Joined(cs, own, c, k)
<1>1. DOMAIN in = DOMAIN cs
  BY DEF Joined
<1>2. /\ in[c].who = k /\ in[c].kinum = k /\ in[c].state >= JOINED /\ ~in[c].asked
      /\ in[c].isOwner => own = NoKi
  BY FieldsOfJoiner
<1>3. ASSUME NEW d \in DOMAIN cs \ {c}
      PROVE  /\ in[d].who = cs[d].who /\ in[d].kinum = cs[d].kinum
             /\ in[d].state = cs[d].state /\ in[d].asked = cs[d].asked
             /\ in[d].isOwner => cs[d].isOwner
             /\ in[d].members = IF cs[d].state >= MEMBERS_REQUESTED THEN cs[d].members \cup {k}
                                ELSE cs[d].members
  <2>1. cs[d] \in Connection
    BY DEF ConnectionMap
  <2> QED
    BY <2>1 DEF Joined, Connection
<1> HIDE DEF in
<1>4. k # NoKi /\ cs[c].kinum \in {NoKi, k}
  BY KiAssumption DEF Sound
<1>5. Players(in) = Players(cs) \cup {k}
  <2>1. ASSUME NEW p \in Players(in) PROVE p \in Players(cs) \cup {k}
    <3>1. PICK d \in DOMAIN cs : in[d].kinum = p /\ p # NoKi
      BY <1>1 DEF Players
    <3>2. d # c => cs[d].kinum = p
      BY <1>3, <3>1
    <3> QED
      BY <1>2, <3>1, <3>2 DEF Players
  <2>2. k \in Players(in)
    BY <1>1, <1>2, <1>3, <1>4 DEF Players
  <2>3. ASSUME NEW p \in Players(cs), p # k PROVE p \in Players(in)
    <3>1. PICK d \in DOMAIN cs : cs[d].kinum = p /\ p # NoKi
      BY DEF Players
    <3>2. in[d].kinum = p
      BY <1>3, <1>4, <2>3, <3>1
    <3> QED
      BY <1>1, <3>1, <3>2 DEF Players
  <2> QED
    BY <2>1, <2>2, <2>3
<1>6. Sound(in)
  <2>1. ASSUME NEW d \in DOMAIN in, NEW e \in DOMAIN in,
               in[d].kinum = in[e].kinum, in[d].kinum # NoKi
        PROVE  d = e
    <3>1. d # c => in[d].kinum = cs[d].kinum /\ cs[d].kinum # k
      BY <1>1, <1>3
    <3>2. e # c => in[e].kinum = cs[e].kinum /\ cs[e].kinum # k
      BY <1>1, <1>3
    <3>3. CASE d = c \/ e = c
      BY <1>2, <2>1, <3>1, <3>2, <3>3
    <3>4. CASE d # c /\ e # c
      BY <1>1, <2>1, <3>1, <3>2, <3>4 DEF Sound
    <3> QED
      BY <3>3, <3>4
  <2>2. ASSUME NEW d \in DOMAIN in
        PROVE  /\ in[d].kinum \in {NoKi, in[d].who}
               /\ in[d].kinum # NoKi => in[d].state >= JOINED
               /\ in[d].asked => in[d].state >= MEMBERS_REQUESTED
    <3>1. CASE d = c
      BY <1>2, <3>1
    <3>2. CASE d # c
      BY <1>1, <1>3, <3>2 DEF Sound
    <3> QED
      BY <3>1, <3>2
  <2>3. ASSUME NEW d \in DOMAIN in, in[d].asked
        PROVE  in[d].members \ {NoKi} = Players(in) \ {in[d].kinum}
    <3>1. d \in DOMAIN cs \ {c} /\ cs[d].asked
      BY <1>1, <1>2, <1>3, <2>3
    <3>2. cs[d].state >= MEMBERS_REQUESTED /\ cs[d].members \ {NoKi} = Players(cs) \ {cs[d].kinum}
      BY <3>1 DEF Sound
    <3>3. in[d].members = cs[d].members \cup {k} /\ in[d].kinum = cs[d].kinum /\ cs[d].kinum # k
      BY <1>3, <3>1, <3>2
    <3> QED
      BY <1>4, <1>5, <3>2, <3>3
  <2> QED
    BY <2>1, <2>2, <2>3 DEF Sound
<1>7. Owned(in, IF own = NoKi THEN k ELSE own)
  BY <1>1, <1>2, <1>3, <1>5 DEF Owned
<1> QED
  BY <1>5, <1>6, <1>7 DEF in

\* A join request that is not refused, for the player of connection c.
LEMMA RequestIsSound ==
  ASSUME TypeOK, NEW cs, ConnectionMap(cs), NEW c \in DOMAIN cs, NEW k \in Ki, cs[c].who = k,
         Sound(cs), Owned(cs, owner), told = Players(cs),
         JoinRegistered(cs, c, k) \/ JoinRepeated(cs, c, k)
  PROVE  /\ Sound(conns') /\ Owned(conns', owner') /\ told' = Players(conns')
         /\ DOMAIN conns' \subseteq DOMAIN cs
<1> DEFINE replied == Replied(cs, c, "NO_ERROR")
<1>1. /\ DOMAIN replied = DOMAIN cs /\ ConnectionMap(replied)
      /\ \A d \in DOMAIN cs :
           /\ replied[d].who = cs[d].who /\ replied[d].kinum = cs[d].kinum
           /\ replied[d].state = cs[d].state /\ replied[d].asked = cs[d].asked
           /\ replied[d].isOwner = cs[d].isOwner /\ replied[d].members = cs[d].members
  BY DEF Replied, ConnectionMap, Connection
<1> HIDE DEF replied
<1>2. Players(replied) = Players(cs)
  BY <1>1 DEF Players
<1>3. Sound(replied) /\ Owned(replied, owner) /\ owner \in Ki \cup {NoKi}
  BY <1>1, <1>2 DEF Sound, Owned, TypeOK
<1> DEFINE left == Evicted(replied, c, k)
           own == OwnerEvicted(replied, c, k)
<1>4. /\ DOMAIN left \subseteq DOMAIN cs /\ c \in DOMAIN left /\ ConnectionMap(left)
      /\ own \in Ki \cup {NoKi}
  BY <1>1, <1>3, Evicting
<1>5. /\ Sound(left) /\ Owned(left, own)
      /\ Players(left) = IF Stale(replied, c, k) = {} THEN Players(cs) ELSE Players(cs) \ {k}
      /\ \A d \in DOMAIN left \ {c} : left[d].kinum # k
      /\ left[c].who = k
  BY <1>1, <1>2, <1>3, EvictionIsSound
<1>6. CASE JoinRepeated(cs, c, k)
  <2>1. /\ conns' = left /\ owner' = own
        /\ told' = IF Stale(replied, c, k) = {} THEN told ELSE told \ {k}
    BY <1>6 DEF JoinRepeated, replied
  <2> HIDE DEF left, own
  <2> QED
    BY <1>4, <1>5, <2>1
<1>7. CASE JoinRegistered(cs, c, k)
  <2>1. /\ conns' = Joined(left, own, c, k)
        /\ owner' = IF own = NoKi THEN k ELSE own
        /\ told' = told \cup {k}
    BY <1>7 DEF JoinRegistered, replied
  <2> HIDE DEF left, own
  <2>2. /\ Players(Joined(left, own, c, k)) = Players(left) \cup {k}
        /\ Sound(Joined(left, own, c, k))
        /\ Owned(Joined(left, own, c, k), IF own = NoKi THEN k ELSE own)
    BY <1>4, <1>5, JoinIsSound
  <2>3. DOMAIN conns' = DOMAIN left
    BY <2>1 DEF Joined
  <2>4. told' = Players(conns')
    BY <1>5, <2>1, <2>2
  <2> QED
    BY <1>4, <2>1, <2>2, <2>3, <2>4
<1> QED
  BY <1>6, <1>7

-----------------------------------------------------------------------------
(* Steps that move connections on without anyone coming or leaving.        *)

SameVisits(cs, ds) ==
  /\ DOMAIN ds = DOMAIN cs
  /\ \A c \in DOMAIN cs :
       /\ ds[c].who = cs[c].who /\ ds[c].kinum = cs[c].kinum
       /\ ds[c].isOwner => cs[c].isOwner
       /\ cs[c].kinum # NoKi => ds[c].state >= JOINED
       /\ ds[c].asked => cs[c].asked /\ ds[c].state >= MEMBERS_REQUESTED
       /\ ds[c].members = cs[c].members

\* Such a step leaves the players, the owner and the lists right.
LEMMA SameVisitsAreSound ==
  ASSUME NEW cs, NEW ds, NEW own, SameVisits(cs, ds), Sound(cs), Owned(cs, own)
  PROVE  Players(ds) = Players(cs) /\ Sound(ds) /\ Owned(ds, own)
<1>1. Players(ds) = Players(cs)
  BY DEF SameVisits, Players
<1>2. Owned(ds, own)
  BY <1>1 DEF SameVisits, Owned
<1>3. Sound(ds)
  BY <1>1 DEF SameVisits, Sound
<1> QED
  BY <1>1, <1>2, <1>3

\* set_state changes only the state, and not that of a connection being killed.
LEMMA StateIsSet ==
  ASSUME NEW conn \in Connection, NEW s
  PROVE  /\ SetState(conn, s).who = conn.who /\ SetState(conn, s).kinum = conn.kinum
         /\ SetState(conn, s).isOwner = conn.isOwner /\ SetState(conn, s).asked = conn.asked
         /\ SetState(conn, s).members = conn.members
         /\ SetState(conn, s).state = IF conn.state = KILL_AFTER_QUEUE_EMPTY
                                        THEN KILL_AFTER_QUEUE_EMPTY ELSE s
  BY DEF SetState, Connection

\* Nor does setting a connection up to be dropped change anything else.
LEMMA KillingIsSound ==
  ASSUME NEW cs, ConnectionMap(cs), NEW own, NEW c \in DOMAIN cs, Sound(cs), Owned(cs, own)
  PROVE  LET ds == [cs EXCEPT ![c] = Killed(@)]
         IN DOMAIN ds = DOMAIN cs /\ Players(ds) = Players(cs) /\ Sound(ds) /\ Owned(ds, own)
<1> DEFINE ds == [cs EXCEPT ![c] = Killed(@)]
<1>1. cs[c] \in Connection
  BY DEF ConnectionMap
<1>2. /\ Killed(cs[c]).who = cs[c].who /\ Killed(cs[c]).kinum = cs[c].kinum
      /\ Killed(cs[c]).isOwner = cs[c].isOwner /\ Killed(cs[c]).asked = cs[c].asked
      /\ Killed(cs[c]).members = cs[c].members /\ Killed(cs[c]).state = KILL_AFTER_QUEUE_EMPTY
  BY <1>1 DEF Killed, Connection
<1>3. SameVisits(cs, ds)
  BY <1>2 DEF SameVisits, Sound, KILL_AFTER_QUEUE_EMPTY, JOINED, MEMBERS_REQUESTED
<1>4. DOMAIN ds = DOMAIN cs
  OBVIOUS
<1> HIDE DEF ds
<1>5. Players(ds) = Players(cs) /\ Sound(ds) /\ Owned(ds, own)
  BY <1>3, SameVisitsAreSound
<1> QED
  BY <1>4, <1>5 DEF ds

-----------------------------------------------------------------------------
(* The steps of the server.                                                *)

\* Losing connections, or none, makes no connection come back.
LEMMA FewerAreFresh ==
  ASSUME Fresh, DOMAIN conns' \subseteq DOMAIN conns, UNCHANGED queueVars
  PROVE  Fresh'
  BY DEF Fresh, queueVars

\* A step that leaves the connections, the owner and tracking alone.
LEMMA NobodyMoves ==
  ASSUME Membership, UNCHANGED playerVars, Running' <=> Running, Fresh'
  PROVE  Membership'
<1>1. Players(conns') = Players(conns) /\ (Sound(conns) => Sound(conns'))
      /\ (Owned(conns, owner) => Owned(conns', owner'))
  BY DEF playerVars
<1> QED
  BY <1>1 DEF Membership, playerVars

\* conn_shutdown of a client.
LEMMA ShutdownIsSound ==
  ASSUME TypeOK, Membership, Running, Running', UNCHANGED queueVars,
         NEW c \in DOMAIN conns, ConnShutdown(c)
  PROVE  Membership'
<1>1. ConnectionMap(conns) /\ owner \in Ki \cup {NoKi} /\ Sound(conns) /\ Owned(conns, owner)
      /\ told = Players(conns) /\ Fresh
  BY DEF TypeOK, ConnectionMap, Membership
<1>2. /\ conns' = ConnsAfter(conns, owner, c) /\ owner' = OwnerAfter(conns, owner, c)
      /\ told' = told \ {conns[c].kinum}
  BY DEF ConnShutdown
<1>3. /\ Sound(ConnsAfter(conns, owner, c))
      /\ Owned(ConnsAfter(conns, owner, c), OwnerAfter(conns, owner, c))
      /\ Players(ConnsAfter(conns, owner, c)) = Players(conns) \ {conns[c].kinum}
      /\ DOMAIN ConnsAfter(conns, owner, c) = DOMAIN conns \ {c}
  <2>1. /\ Sound(ConnsAfter(conns, owner, c))
        /\ Owned(ConnsAfter(conns, owner, c), OwnerAfter(conns, owner, c))
    BY <1>1, LossIsSound, LossIsOwned
  <2>2. Players(ConnsAfter(conns, owner, c)) = Players(conns) \ {conns[c].kinum}
    BY <1>1, PlayersAfterLoss
  <2>3. DOMAIN ConnsAfter(conns, owner, c) = DOMAIN conns \ {c}
    BY DEF ConnsAfter
  <2> QED
    BY <2>1, <2>2, <2>3
<1>4. DOMAIN conns' \subseteq DOMAIN conns
  BY <1>2, <1>3
<1>5. Fresh'
  BY <1>1, <1>4, FewerAreFresh
<1> QED
  BY <1>1, <1>2, <1>3, <1>5 DEF Membership

\* A client asks who is here: everyone who claims a player has joined.
LEMMA ListingIsSound ==
  ASSUME TypeOK, Membership, NEW c \in DOMAIN conns, MembersListReq(c)
  PROVE  Membership'
<1>1. ConnectionMap(conns) /\ Sound(conns) /\ Owned(conns, owner) /\ Running /\ Running'
      /\ Fresh /\ told = Players(conns) /\ owner' = owner /\ told' = told
  BY DEF TypeOK, ConnectionMap, Membership, MembersListReq, Readable, Looping, Running, loopVars
<1> DEFINE conn == SetState(conns[c], MEMBERS_REQUESTED)
           others == {conns[d].kinum : d \in Heirs(conns, c)}
<1>2. /\ conn.who = conns[c].who /\ conn.kinum = conns[c].kinum
      /\ conn.isOwner = conns[c].isOwner
      /\ conn.state = IF conns[c].state = KILL_AFTER_QUEUE_EMPTY
                        THEN KILL_AFTER_QUEUE_EMPTY ELSE MEMBERS_REQUESTED
  BY <1>1, StateIsSet DEF ConnectionMap
<1>3. conn \in Connection
  BY <1>1 DEF ConnectionMap, SetState, Connection, MEMBERS_REQUESTED
<1>4. conns' = [conns EXCEPT ![c] = [conn EXCEPT !.asked = TRUE, !.members = others]]
  BY DEF MembersListReq
<1>5. others \ {NoKi} = Players(conns) \ {conns[c].kinum}
  <2>1. \A d \in DOMAIN conns \ {c} :
          conns[d].kinum # NoKi => d \in Heirs(conns, c) /\ conns[d].kinum # conns[c].kinum
    BY <1>1 DEF Sound, Heirs
  <2>2. Heirs(conns, c) \subseteq DOMAIN conns \ {c}
    BY DEF Heirs
  <2>3. others \ {NoKi} \subseteq Players(conns) \ {conns[c].kinum}
    BY <2>1, <2>2 DEF Players
  <2>4. ASSUME NEW p \in Players(conns) \ {conns[c].kinum} PROVE p \in others \ {NoKi}
    <3>1. PICK d \in DOMAIN conns : conns[d].kinum = p /\ p # NoKi
      BY DEF Players
    <3>2. d \in Heirs(conns, c)
      BY <2>1, <3>1, <2>4
    <3> QED
      BY <3>1, <3>2
  <2> QED
    BY <2>3, <2>4
<1> HIDE DEF conn, others
<1>6. /\ DOMAIN conns' = DOMAIN conns
      /\ conns'[c].who = conns[c].who /\ conns'[c].kinum = conns[c].kinum
      /\ conns'[c].isOwner => conns[c].isOwner
      /\ conns'[c].state \in {MEMBERS_REQUESTED, KILL_AFTER_QUEUE_EMPTY}
      /\ conns'[c].members = others
      /\ \A d \in DOMAIN conns \ {c} : conns'[d] = conns[d]
  <2> DEFINE lister == [conn EXCEPT !.asked = TRUE, !.members = others]
  <2>1. /\ lister.who = conn.who /\ lister.kinum = conn.kinum /\ lister.state = conn.state
        /\ lister.isOwner = conn.isOwner /\ lister.members = others
    BY <1>3 DEF Connection
  <2>2. conns'[c] = lister
    BY <1>4
  <2> HIDE DEF lister
  <2> QED
    BY <1>2, <1>4, <2>1, <2>2
<1>7. Players(conns') = Players(conns)
  BY <1>6 DEF Players
<1>8. Owned(conns', owner')
  <2>1. \A d \in DOMAIN conns' : conns'[d].isOwner /\ conns'[d].kinum # NoKi => conns'[d].kinum = owner
    BY <1>1, <1>6 DEF Owned
  <2> QED
    BY <1>1, <1>7, <2>1 DEF Owned
<1>9. Sound(conns')
  <2>1. \A d \in DOMAIN conns : conns'[d].kinum = conns[d].kinum /\ conns'[d].who = conns[d].who
    BY <1>6
  <2>2. \A d, e \in DOMAIN conns' : conns'[d].kinum = conns'[e].kinum /\ conns'[d].kinum # NoKi => d = e
    BY <1>1, <1>6, <2>1 DEF Sound
  <2>3. ASSUME NEW d \in DOMAIN conns'
        PROVE  /\ conns'[d].kinum \in {NoKi, conns'[d].who}
               /\ conns'[d].kinum # NoKi => conns'[d].state >= JOINED
               /\ conns'[d].asked => /\ conns'[d].state >= MEMBERS_REQUESTED
                                      /\ conns'[d].members \ {NoKi} = Players(conns') \ {conns'[d].kinum}
    <3>1. CASE d = c
      <4>1. conns'[c].state >= JOINED /\ conns'[c].state >= MEMBERS_REQUESTED
        BY <1>6 DEF JOINED, MEMBERS_REQUESTED, KILL_AFTER_QUEUE_EMPTY
      <4> QED
        BY <1>1, <1>5, <1>6, <1>7, <3>1, <4>1 DEF Sound
    <3>2. CASE d # c
      BY <1>1, <1>6, <1>7, <3>2 DEF Sound
    <3> QED
      BY <3>1, <3>2
  <2> QED
    BY <2>2, <2>3 DEF Sound
<1>10. Fresh'
  BY <1>1, <1>6, FewerAreFresh DEF MembersListReq
<1> QED
  BY <1>1, <1>7, <1>8, <1>9, <1>10 DEF Membership

\* The connection taken from the swapped-out queue is a new one, and claims
\* nobody yet.
LEMMA ArrivalIsSound ==
  ASSUME TypeOK, NEW c \in Nat \ DOMAIN conns, NEW k \in Ki, NEW cs,
         cs = [d \in DOMAIN conns \cup {c} |-> IF d = c THEN Arriving(k) ELSE conns[d]],
         Sound(conns), Owned(conns, owner)
  PROVE  /\ cs[c].who = k /\ Players(cs) = Players(conns)
         /\ Sound(cs) /\ Owned(cs, owner)
<1>1. /\ Arriving(k).who = k /\ Arriving(k).kinum = NoKi
      /\ Arriving(k).asked = FALSE /\ Arriving(k).isOwner = FALSE
  BY DEF Arriving
<1>2. /\ DOMAIN cs = DOMAIN conns \cup {c} /\ cs[c] = Arriving(k)
      /\ \A d \in DOMAIN conns : cs[d] = conns[d]
  OBVIOUS
<1>3. Players(cs) = Players(conns)
  BY <1>1, <1>2 DEF Players
<1>4. Owned(cs, owner)
  BY <1>1, <1>2, <1>3 DEF Owned
<1>5. Sound(cs)
  <2>1. \A d, e \in DOMAIN cs : cs[d].kinum = cs[e].kinum /\ cs[d].kinum # NoKi => d = e
    BY <1>1, <1>2 DEF Sound
  <2>2. \A d \in DOMAIN cs :
          /\ cs[d].kinum \in {NoKi, cs[d].who}
          /\ cs[d].kinum # NoKi => cs[d].state >= JOINED
          /\ cs[d].asked => /\ cs[d].state >= MEMBERS_REQUESTED
                             /\ cs[d].members \ {NoKi} = Players(cs) \ {cs[d].kinum}
    BY <1>1, <1>2, <1>3 DEF Sound
  <2> QED
    BY <2>1, <2>2 DEF Sound
<1> QED
  BY <1>1, <1>2, <1>3, <1>4, <1>5

\* Taking the head off the swapped-out queue: no other entry is the same.
LEMMA TakenIsFresh ==
  ASSUME TypeOK, Fresh, newconns # <<>>, newconns' = Tail(newconns),
         queue' = queue, arrivals' = arrivals,
         DOMAIN conns' \subseteq DOMAIN conns \cup {Head(newconns).id}
  PROVE  Fresh' /\ Head(newconns).id \notin DOMAIN conns
<1>1. newconns \in Seq(Arrival) /\ Head(newconns) = newconns[1] /\ 1 \in DOMAIN newconns
  BY DEF TypeOK
<1>2. \A i \in DOMAIN newconns' :
        /\ i + 1 \in DOMAIN newconns /\ i + 1 # 1 /\ newconns'[i] = newconns[i + 1]
        /\ i \in Int
  BY <1>1
<1>3. \A i, j \in DOMAIN newconns' : i + 1 = j + 1 => i = j
  BY <1>2
<1>4. Head(newconns).id <= arrivals /\ Head(newconns).id \notin DOMAIN conns
  BY <1>1 DEF Fresh
<1>5. \A i \in DOMAIN newconns' : /\ newconns'[i].id <= arrivals
                                  /\ newconns'[i].id \notin DOMAIN conns'
  BY <1>1, <1>2 DEF Fresh
<1>6. \A i, j \in DOMAIN newconns' : newconns'[i].id = newconns'[j].id => i = j
  BY <1>2, <1>3 DEF Fresh
<1>7. \A i \in DOMAIN newconns', j \in DOMAIN queue : newconns'[i].id # queue[j].id
  BY <1>2 DEF Fresh
<1>8. \A i \in DOMAIN queue : queue[i].id \notin DOMAIN conns'
  BY <1>1 DEF Fresh
<1>9. \A d \in DOMAIN conns' : d <= arrivals
  BY <1>4 DEF Fresh
<1> QED
  BY <1>4, <1>5, <1>6, <1>7, <1>8, <1>9 DEF Fresh

\* The dispatcher hands each connection over once.
LEMMA HandedOverIsFresh ==
  ASSUME TypeOK, Fresh, NEW k \in Ki, HandOff(k)
  PROVE  Fresh'
<1>1. /\ arrivals \in Nat /\ arrivals' = arrivals + 1 /\ conns' = conns /\ newconns' = newconns
      /\ queue \in Seq(Arrival) /\ queue' = Append(queue, [id |-> arrivals', who |-> k])
  BY DEF HandOff, TypeOK, playerVars
<1>2. DOMAIN conns \subseteq Nat /\ newconns \in Seq(Arrival)
  BY DEF TypeOK
<1>3. \A i \in DOMAIN queue' :
        \/ i \in DOMAIN queue /\ queue'[i] = queue[i]
        \/ i = Len(queue) + 1 /\ queue'[i].id = arrivals'
  BY <1>1
<1>4. ASSUME NEW i \in DOMAIN queue PROVE queue[i].id \in Nat /\ queue[i].id < arrivals'
  <2>1. queue[i] \in Arrival
    BY <1>1
  <2>2. queue[i].id \in Nat /\ queue[i].id <= arrivals
    BY <2>1 DEF Arrival, Fresh
  <2> QED
    BY <1>1, <2>2
<1>5. ASSUME NEW i \in DOMAIN newconns PROVE newconns[i].id \in Nat /\ newconns[i].id < arrivals'
  <2>1. newconns[i] \in Arrival
    BY <1>2
  <2>2. newconns[i].id \in Nat /\ newconns[i].id <= arrivals
    BY <2>1 DEF Arrival, Fresh
  <2> QED
    BY <1>1, <2>2
<1>6. \A c \in DOMAIN conns : c \in Nat /\ c < arrivals'
  BY <1>1, <1>2 DEF Fresh
<1>7. \A i \in DOMAIN queue' : queue'[i].id <= arrivals' /\ queue'[i].id \notin DOMAIN conns
  BY <1>1, <1>3, <1>4, <1>6 DEF Fresh
<1>8. \A i, j \in DOMAIN queue' : queue'[i].id = queue'[j].id => i = j
  BY <1>1, <1>3, <1>4 DEF Fresh
<1>9. \A i \in DOMAIN newconns, j \in DOMAIN queue' : newconns[i].id # queue'[j].id
  BY <1>1, <1>3, <1>5 DEF Fresh
<1> QED
  BY <1>1, <1>5, <1>6, <1>7, <1>8, <1>9 DEF Fresh

\* A server starts with nobody connected.
LEMMA MembershipInit == Init => Membership
<1> SUFFICES ASSUME Init PROVE Membership
  OBVIOUS
<1>1. DOMAIN conns = {} /\ DOMAIN queue = {} /\ DOMAIN newconns = {} /\ Running
  BY DEF Init, Nothing, Running
<1>2. Sound(conns) /\ Owned(conns, owner) /\ told = Players(conns)
  BY <1>1 DEF Sound, Owned, Players, Init
<1>3. Fresh
  BY <1>1 DEF Fresh
<1> QED
  BY <1>1, <1>2, <1>3 DEF Membership

\* Every step of the server and of those it talks to keeps the invariant.
LEMMA MembershipNext == TypeOK /\ Membership /\ [Next]_vars => Membership'
<1> SUFFICES ASSUME TypeOK, Membership, [Next]_vars PROVE Membership'
  OBVIOUS
<1> USE DEF loopVars
<1>1. ConnectionMap(conns) /\ Sound(conns) /\ Fresh /\ owner \in Ki \cup {NoKi}
      /\ (Running => Owned(conns, owner) /\ told = Players(conns))
  BY DEF TypeOK, ConnectionMap, Membership
<1>2. ASSUME NEW k \in Ki, HandOff(k) PROVE Membership'
  <2>1. Fresh'
    BY <1>1, <1>2, HandedOverIsFresh
  <2> QED
    BY <1>2, <2>1, NobodyMoves DEF HandOff, Running
<1>3. ASSUME NEW k \in Ki, AddPlayer(k) PROVE Membership'
  <2>1. UNCHANGED queueVars /\ UNCHANGED playerVars /\ (Running' <=> Running)
    BY <1>3 DEF AddPlayer, Running
  <2>2. Fresh'
    BY <1>1, <2>1, FewerAreFresh DEF playerVars
  <2> QED
    BY <2>1, <2>2, NobodyMoves
<1>4. ASSUME NEW k \in Ki, KillClient(k) PROVE Membership'
  <2> DEFINE claims == {c \in DOMAIN conns : conns[c].kinum = k}
  <2>1. claims \in SUBSET Nat /\ claims # {}
    BY <1>4 DEF KillClient, TypeOK
  <2>2. First(claims) \in DOMAIN conns
    BY <2>1, FirstIsMember
  <2>3. /\ conns' = [conns EXCEPT ![First(claims)] = Killed(@)]
        /\ UNCHANGED <<queueVars, owner, told>> /\ Running /\ Running'
    BY <1>4 DEF KillClient, Looping, Running
  <2> HIDE DEF claims
  <2>4. /\ DOMAIN conns' = DOMAIN conns /\ Players(conns') = Players(conns)
        /\ Sound(conns') /\ Owned(conns', owner)
    BY <1>1, <2>2, <2>3, KillingIsSound
  <2>5. Fresh'
    BY <1>1, <2>3, <2>4, FewerAreFresh
  <2> QED
    BY <1>1, <2>3, <2>4, <2>5 DEF Membership
<1>5. ASSUME NEW c \in DOMAIN conns, LateJoin(c) PROVE Membership'
  <2> DEFINE k == conns[c].who
  <2>1. k \in Ki /\ Running /\ Running' /\ UNCHANGED queueVars
    BY <1>1, <1>5 DEF ConnectionMap, Connection, LateJoin, Readable, Looping, Running
  <2>2. CASE JoinRegistered(conns, c, k) \/ JoinRepeated(conns, c, k)
    <3>1. /\ Sound(conns') /\ Owned(conns', owner') /\ told' = Players(conns')
          /\ DOMAIN conns' \subseteq DOMAIN conns
      BY <1>1, <2>1, <2>2, RequestIsSound
    <3>2. Fresh'
      BY <1>1, <2>1, <3>1, FewerAreFresh
    <3> QED
      BY <2>1, <3>1, <3>2 DEF Membership
  <2>3. CASE ConnShutdown(c)
    BY <2>1, <2>3, ShutdownIsSound
  <2> QED
    BY <1>5, <2>2, <2>3 DEF LateJoin
<1>6. ASSUME NEW c \in DOMAIN conns, MembersListReq(c) PROVE Membership'
  BY <1>6, ListingIsSound
<1>7. ASSUME NEW c \in DOMAIN conns, ClientProgress(c) PROVE Membership'
  <2>1. UNCHANGED <<queueVars, owner, told>> /\ Running /\ Running'
    BY <1>7 DEF ClientProgress, Readable, Looping, Running
  <2>2. PICK s \in {HAVE_CLONE, STATE_REQUESTED, IN_GAME} :
          /\ conns' = [conns EXCEPT ![c] = SetState(@, s)]
          /\ s = HAVE_CLONE => conns[c].state < HAVE_CLONE
    BY <1>7 DEF ClientProgress, HAVE_CLONE, STATE_REQUESTED, IN_GAME
  <2> DEFINE conn == SetState(conns[c], s)
  <2>3. /\ conn.who = conns[c].who /\ conn.kinum = conns[c].kinum
        /\ conn.isOwner = conns[c].isOwner /\ conn.asked = conns[c].asked
        /\ conn.members = conns[c].members
        /\ conn.state = IF conns[c].state = KILL_AFTER_QUEUE_EMPTY
                          THEN KILL_AFTER_QUEUE_EMPTY ELSE s
    BY <1>1, StateIsSet DEF ConnectionMap
  <2>4. conns' = [conns EXCEPT ![c] = conn]
    BY <2>2
  <2> HIDE DEF conn
  <2>5. conn.state >= JOINED
    BY <2>3 DEF JOINED, HAVE_CLONE, STATE_REQUESTED, IN_GAME, KILL_AFTER_QUEUE_EMPTY
  <2>6. ASSUME conns[c].asked PROVE conn.state >= MEMBERS_REQUESTED
    <3>1. conns[c].state \in Int /\ conns[c].state >= MEMBERS_REQUESTED
      BY <1>1, <2>6 DEF Sound, ConnectionMap, Connection, JOIN_REQ, JOINED, HAVE_CLONE,
         MEMBERS_REQUESTED, STATE_REQUESTED, IN_GAME, KILL_AFTER_QUEUE_EMPTY
    <3>2. s # HAVE_CLONE
      BY <2>2, <3>1 DEF HAVE_CLONE, MEMBERS_REQUESTED
    <3> QED
      BY <2>3, <3>2 DEF MEMBERS_REQUESTED, STATE_REQUESTED, IN_GAME, KILL_AFTER_QUEUE_EMPTY
  <2>7. DOMAIN conns' = DOMAIN conns /\ SameVisits(conns, conns')
    BY <1>1, <2>3, <2>4, <2>5, <2>6 DEF SameVisits, Sound
  <2>8. Players(conns') = Players(conns) /\ Sound(conns') /\ Owned(conns', owner)
    BY <1>1, <2>1, <2>7, SameVisitsAreSound
  <2>9. Fresh'
    BY <1>1, <2>1, <2>7, FewerAreFresh
  <2> QED
    BY <1>1, <2>1, <2>8, <2>9 DEF Membership
<1>8. ASSUME NEW c \in DOMAIN conns, DropClient(c) PROVE Membership'
  BY <1>8, ShutdownIsSound DEF DropClient, Looping, Running
<1>9. ASSUME NEW c \in DOMAIN conns, KillBroken(c) PROVE Membership'
  <2>1. /\ conns' = [conns EXCEPT ![c] = Killed(@)]
        /\ UNCHANGED <<queueVars, owner, told>> /\ Running /\ Running'
    BY <1>9 DEF KillBroken, Readable, Looping, Running
  <2>2. /\ DOMAIN conns' = DOMAIN conns /\ Players(conns') = Players(conns)
        /\ Sound(conns') /\ Owned(conns', owner)
    BY <1>1, <2>1, KillingIsSound
  <2>3. Fresh'
    BY <1>1, <2>1, <2>2, FewerAreFresh
  <2> QED
    BY <1>1, <2>1, <2>2, <2>3 DEF Membership
<1>10. CASE TakeQueue
  <2>1. Fresh'
    BY <1>1, <1>10 DEF TakeQueue, Fresh, playerVars
  <2> QED
    BY <1>10, <2>1, NobodyMoves DEF TakeQueue, Running
<1>11. CASE JoinQueued
  <2> DEFINE c == Head(newconns).id
             k == Head(newconns).who
             cs == [d \in DOMAIN conns \cup {c} |-> IF d = c THEN Arriving(k) ELSE conns[d]]
  <2>1. /\ newconns # <<>> /\ newconns' = Tail(newconns) /\ queue' = queue /\ arrivals' = arrivals
        /\ Running /\ Running'
    BY <1>11 DEF JoinQueued, Running
  <2>2. /\ c \in Nat /\ k \in Ki /\ c \in DOMAIN cs /\ ConnectionMap(cs)
    <3>1. Head(newconns) \in Arrival
      BY <2>1 DEF TypeOK
    <3>2. c \in Nat
      BY <3>1 DEF Arrival
    <3>3. k \in Ki /\ c \in DOMAIN cs /\ ConnectionMap(cs)
      BY <2>1, ArrivalKeepsTypes
    <3> QED
      BY <3>2, <3>3
  <2>3. c \notin DOMAIN conns
    BY <1>1, <2>1 DEF Fresh, TypeOK
  <2>4. /\ cs[c].who = k /\ Players(cs) = Players(conns)
        /\ Sound(cs) /\ Owned(cs, owner)
    BY <1>1, <2>1, <2>2, <2>3, ArrivalIsSound
  <2>5. \/ JoinRegistered(cs, c, k) \/ JoinRepeated(cs, c, k)
        \/ /\ conns' = [cs EXCEPT ![c] = Killed([Arriving(k) EXCEPT !.reply = "ERROR_AUTH_TOO_OLD"])]
           /\ UNCHANGED <<owner, told>>
    BY <1>11 DEF JoinQueued
  <2>6. DOMAIN cs = DOMAIN conns \cup {c}
    OBVIOUS
  <2>7. cs[c] = Arriving(k)
    OBVIOUS
  <2> HIDE DEF cs, k
  <2>8. /\ Sound(conns') /\ Owned(conns', owner') /\ told' = Players(conns')
        /\ DOMAIN conns' \subseteq DOMAIN cs
    <3>1. CASE JoinRegistered(cs, c, k) \/ JoinRepeated(cs, c, k)
      <4> HIDE DEF c
      <4> QED
        BY <1>1, <2>1, <2>2, <2>4, <3>1, RequestIsSound
    <3>2. CASE /\ conns' = [cs EXCEPT ![c] = Killed([Arriving(k) EXCEPT !.reply = "ERROR_AUTH_TOO_OLD"])]
               /\ UNCHANGED <<owner, told>>
      <4> DEFINE refused == Killed([Arriving(k) EXCEPT !.reply = "ERROR_AUTH_TOO_OLD"])
      <4>1. /\ refused.who = Arriving(k).who /\ refused.kinum = Arriving(k).kinum
            /\ refused.asked = FALSE /\ refused.isOwner = FALSE
            /\ refused.members = Arriving(k).members /\ Arriving(k).kinum = NoKi
        BY DEF Arriving, Killed
      <4>2. conns' = [cs EXCEPT ![c] = refused]
        BY <3>2
      <4> HIDE DEF refused, c
      <4>3. /\ DOMAIN conns' = DOMAIN cs /\ conns'[c] = refused
            /\ \A d \in DOMAIN cs \ {c} : conns'[d] = cs[d]
        BY <2>2, <4>2
      <4>4. SameVisits(cs, conns')
        <5>1. ASSUME NEW d \in DOMAIN cs, d # c
              PROVE  /\ cs[d].kinum # NoKi => conns'[d].state >= JOINED
                     /\ conns'[d].asked => cs[d].asked /\ conns'[d].state >= MEMBERS_REQUESTED
          BY <2>4, <4>3, <5>1 DEF Sound
        <5> QED
          BY <2>7, <4>1, <4>3, <5>1 DEF SameVisits
      <4> QED
        BY <1>1, <2>1, <2>4, <3>2, <4>3, <4>4, SameVisitsAreSound
    <3> QED
      BY <2>5, <3>1, <3>2
  <2>9. Fresh'
    BY <1>1, <2>1, <2>6, <2>8, TakenIsFresh
  <2> QED
    BY <2>1, <2>8, <2>9 DEF Membership
<1>12. CASE JoinAfterShutdown \/ Quit \/ RequestShutdown \/ TimersTimeout \/ UNCHANGED vars
  <2>1. UNCHANGED queueVars /\ UNCHANGED playerVars /\ (Running' <=> Running)
    BY <1>12 DEF JoinAfterShutdown, Quit, RequestShutdown, TimersTimeout, vars, Running
  <2>2. Fresh'
    BY <1>1, <2>1, FewerAreFresh DEF playerVars
  <2> QED
    BY <2>1, <2>2, NobodyMoves
<1>13. CASE Shutdown
  <2>1. DOMAIN conns' = {} /\ UNCHANGED queueVars /\ ~Running'
    BY <1>13 DEF Shutdown, Nothing, Running
  <2>2. Fresh'
    BY <1>1, <2>1, FewerAreFresh
  <2> QED
    BY <2>1, <2>2 DEF Membership, Sound
<1>14. CASE Reap
  <2>1. Fresh'
    BY <1>1, <1>14 DEF Reap, Fresh, playerVars
  <2> QED
    BY <1>14, <2>1, NobodyMoves DEF Reap, Running
<1> QED
  BY <1>2, <1>3, <1>4, <1>5, <1>6, <1>7, <1>8, <1>9, <1>10, <1>11, <1>12, <1>13, <1>14
  DEF Next, ClientStep, GameBye, ShutdownRequested, VaultLost

\* The invariant holds in every state of the server.
THEOREM MembershipHolds == Spec => []Membership
<1>1. Init => TypeOK /\ Membership
  BY TypeOKInit, MembershipInit
<1>2. TypeOK /\ Membership /\ [Next]_vars => TypeOK' /\ Membership'
  BY TypeOKNext, MembershipNext
<1> QED
  BY <1>1, <1>2, PTL DEF Spec

\* A player has one connection, whatever the order of visits, evictions and
\* departures: handle_join_request evicts at most one, and one is enough.
THEOREM PlayersAreApart == Spec => []OneConnectionPerPlayer
  BY MembershipHolds, MembershipSuffices, PTL

\* The players tracking was told of are those connected: each join and each
\* departure is told once, and an evicted player who comes back is told again.
THEOREM TrackingAgrees == Spec => []TrackingIsRight
  BY MembershipHolds, MembershipSuffices, PTL

\* The group owner is a player of the age, and the only one told to be.
THEOREM OwnerAgrees == Spec => []OwnerIsRight
  BY MembershipHolds, MembershipSuffices, PTL

\* Each client that lister for the member list has, by the updates since, the
\* other players exactly.
THEOREM MemberListsAgree == Spec => []MemberListsAreCurrent
  BY MembershipHolds, MembershipSuffices, PTL
=============================================================================
