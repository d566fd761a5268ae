-------------------------- MODULE AuthSessionProofs --------------------------
(***************************************************************************)
(* Proofs about auth sessions, for any accounts, players and sessions, any *)
(* number of requests and any failures of the database.                    *)
(***************************************************************************)
EXTENDS AuthSessionProps, TLAPS

-----------------------------------------------------------------------------
(* Types.                                                                  *)

AuthServer == [open: BOOLEAN, state: Nat, reqid: Nat,
               account: Account \cup {NoAccount}, kinum: Ki \cup {NoKi}, download: BOOLEAN]
Request == [kind: {"login", "player", "create", "delete", "age"}, answers: Nat]
ToBackend ==
  {m \in [type: {"login", "ki", "logout", "create", "delete", "age", "close"}, req: Nat,
          what: Account \cup Ki \cup {NoKi}, by: Account \cup {NoAccount} \cup Ki \cup {NoKi}] :
     (m.type = "login" => m.what \in Account) /\ (m.type = "ki" => m.what \in Ki)}
FromBackend ==
  {m \in [type: {"login", "ki", "create", "delete", "age", "kill"}, req: Nat,
          what: Account \cup {NoAccount} \cup Ki \cup {NoKi}, ok: BOOLEAN, stranger: BOOLEAN] :
     (m.type = "login" /\ m.ok => m.what \in Account) /\ (m.type = "ki" => m.what \in Ki)}
Entity == [account: Account \cup {NoAccount}, kinum: Ki \cup {NoKi}]

TypeOK ==
  /\ auth \in [Session -> AuthServer]
  /\ requests \in [Session -> Seq(Request)]
  /\ toBack \in [Session -> Seq(ToBackend)]
  /\ fromBack \in [Session -> Seq(FromBackend)]
  /\ entity \in [Session -> Entity]
  /\ failures \in Nat

USE DEF START, NEGOTIATION_DONE, NONCE_DONE, REGISTER, LOGIN, LOGIN_DONE, DOWNLOAD,
        IN_STARTUP, VAULT_DOWNLOAD, AGE_REQ, IN_GAME

\* An auth server as it is made, and empty queues.
LEMMA TypeOKInit == Init => TypeOK
  BY NobodyAssumption DEF Init, TypeOK, Fresh, AuthServer, Entity

Local(s) == auth' \in [Session -> AuthServer] /\ requests' \in [Session -> Seq(Request)]
            /\ toBack' \in [Session -> Seq(ToBackend)]

\* An auth server that ends.
LEMMA EndTypes ==
  ASSUME TypeOK, NEW s \in Session, End(s)
  PROVE  auth' \in [Session -> AuthServer] /\ toBack' \in [Session -> Seq(ToBackend)]
<1>1. [Fresh EXCEPT !.open = FALSE] \in AuthServer
  BY DEF Fresh, AuthServer
<1> DEFINE closed == [type |-> "close", req |-> 0, what |-> NoKi, by |-> NoKi]
<1>2. closed \in ToBackend
  BY DEF ToBackend
<1> HIDE DEF closed
<1>3. PICK written \in 0..Len(toBack[s]) :
        toBack' = [toBack EXCEPT ![s] = Append(SubSeq(@, 1, written), closed)]
  BY DEF End, closed
<1>4. toBack[s] \in Seq(ToBackend)
  BY DEF TypeOK
<1>5. SubSeq(toBack[s], 1, written) \in Seq(ToBackend)
  BY <1>4
<1>6. Append(SubSeq(toBack[s], 1, written), closed) \in Seq(ToBackend)
  BY <1>2, <1>5
<1> QED
  BY <1>1, <1>3, <1>6 DEF End, Update, TypeOK

\* A server that is given a value of the right type has it.
LEMMA UpdateTypes ==
  ASSUME TypeOK, NEW s \in Session, NEW a \in AuthServer, Update(s, a)
  PROVE  auth' \in [Session -> AuthServer]
  BY DEF TypeOK, Update

\* Each member of an AuthServer may be assigned a value of its type.
LEMMA FieldTypes ==
  ASSUME NEW a \in AuthServer
  PROVE  /\ \A n \in Nat : [a EXCEPT !.state = n] \in AuthServer
         /\ \A r \in Nat : [a EXCEPT !.reqid = r] \in AuthServer
         /\ \A x \in BOOLEAN : [a EXCEPT !.download = x] \in AuthServer
         /\ \A x \in Ki \cup {NoKi} : [a EXCEPT !.kinum = x] \in AuthServer
         /\ \A x \in Account : [a EXCEPT !.account = x] \in AuthServer
  BY DEF AuthServer

\* A request that is numbered is of the right type.
LEMMA RequestTypes ==
  ASSUME TypeOK, NEW s \in Session, NEW kind \in {"login", "player", "create", "delete", "age"},
         NEW n \in Nat, Requests(s, kind, n)
  PROVE  requests' \in [Session -> Seq(Request)]
<1>1. [kind |-> kind, answers |-> n] \in Request
  BY DEF Request
<1> QED
  BY <1>1 DEF Requests, TypeOK

\* So is a message that is sent to the backend.
LEMMA QueryTypes ==
  ASSUME TypeOK, NEW s \in Session, NEW type, NEW req, NEW what, NEW by,
         [type |-> type, req |-> req, what |-> what, by |-> by] \in ToBackend,
         Query(s, type, req, what, by)
  PROVE  toBack' \in [Session -> Seq(ToBackend)]
  BY DEF Query, TypeOK

\* What a client has its server do, message by message.
LEMMA ClientStepTypes ==
  ASSUME TypeOK, NEW s \in Session, ClientStep(s)
  PROVE  Local(s)
<1>1. auth[s] \in AuthServer /\ requests[s] \in Seq(Request) /\ toBack[s] \in Seq(ToBackend)
  BY DEF TypeOK
<1>2. UNCHANGED auth \/ UNCHANGED requests \/ UNCHANGED toBack =>
        /\ UNCHANGED auth => auth' \in [Session -> AuthServer]
        /\ UNCHANGED requests => requests' \in [Session -> Seq(Request)]
        /\ UNCHANGED toBack => toBack' \in [Session -> Seq(ToBackend)]
  BY DEF TypeOK
<1>3. NewReq(s) \in Nat
  BY <1>1 DEF NewReq
<1>4. Kick(s) => Local(s)
  BY EndTypes DEF Kick, Local, TypeOK
<1>5. Negotiate(s) \/ SetUpKey(s) \/ ClientRegister(s) \/ LastChunkAck(s) => Local(s)
  BY <1>1, <1>2, UpdateTypes, FieldTypes DEF Negotiate, SetUpKey, ClientRegister, LastChunkAck, Local
<1>6. ASSUME NEW x \in BOOLEAN, FileRequest(s, x) PROVE Local(s)
  <2>1. [auth[s] EXCEPT !.state = DOWNLOAD, !.download = ~x] \in AuthServer
    BY <1>1 DEF AuthServer
  <2> QED
    BY <1>2, <1>4, <1>6, <2>1, UpdateTypes DEF FileRequest, Local
<1>7. ASSUME NEW x \in Account, LoginReq(s, x) PROVE Local(s)
  <2>1. [type |-> "login", req |-> NewReq(s), what |-> x, by |-> NoKi] \in ToBackend
    BY <1>3 DEF ToBackend
  <2>2. [auth[s] EXCEPT !.state = LOGIN, !.reqid = NewReq(s)] \in AuthServer
    BY <1>1, <1>3 DEF AuthServer
  <2> QED
    BY <1>7, <2>1, <2>2, UpdateTypes, RequestTypes, QueryTypes DEF LoginReq, Local
<1>8. ASSUME NEW k \in Ki \cup {NoKi}, SetPlayer(s, k) PROVE Local(s)
  <2> DEFINE reqid == IF k = NoKi THEN 0 ELSE NewReq(s)
  <2>1. k # NoKi => [type |-> "ki", req |-> 0, what |-> k, by |-> auth[s].account] \in ToBackend
    BY <1>1, NobodyAssumption DEF ToBackend, AuthServer
  <2>2. [type |-> "logout", req |-> 0, what |-> auth[s].kinum, by |-> NoKi] \in ToBackend
    BY <1>1 DEF ToBackend, AuthServer
  <2>3. requests' \in [Session -> Seq(Request)]
    BY <1>8, RequestTypes DEF SetPlayer
  <2>4. reqid \in Nat
    BY <1>3
  <2> HIDE DEF reqid
  <2>5. [auth[s] EXCEPT !.state = IN_STARTUP, !.kinum = k, !.reqid = reqid,
                        !.download = IF State(s) = DOWNLOAD THEN FALSE ELSE @] \in AuthServer
    BY <1>1, <2>4 DEF AuthServer
  <2>6. auth' \in [Session -> AuthServer]
    BY <1>8, <2>5, UpdateTypes DEF SetPlayer, reqid
  <2>7. toBack' \in [Session -> Seq(ToBackend)]
    BY <1>2, <1>8, <2>1, <2>2, QueryTypes DEF SetPlayer
  <2> QED
    BY <2>3, <2>6, <2>7 DEF Local
<1>9. ASSUME PlayerCreate(s) PROVE Local(s)
  <2>1. [type |-> "create", req |-> NewReq(s), what |-> NoKi, by |-> NoKi] \in ToBackend
    BY <1>3 DEF ToBackend
  <2> QED
    BY <1>1, <1>2, <1>3, <1>4, <1>9, <2>1, UpdateTypes, FieldTypes, RequestTypes, QueryTypes
    DEF PlayerCreate, Local
<1>10. ASSUME PlayerDelete(s) PROVE Local(s)
  <2>1. [type |-> "delete", req |-> NewReq(s), what |-> NoKi, by |-> NoKi] \in ToBackend
    BY <1>3 DEF ToBackend
  <2> QED
    BY <1>1, <1>2, <1>3, <1>10, <2>1, UpdateTypes, FieldTypes, RequestTypes, QueryTypes
    DEF PlayerDelete, Local
<1>11. ASSUME AgeReq(s) PROVE Local(s)
  <2>1. [type |-> "age", req |-> NewReq(s), what |-> NoKi, by |-> auth[s].kinum] \in ToBackend
    BY <1>1, <1>3 DEF ToBackend, AuthServer
  <2>2. [auth[s] EXCEPT !.state = AGE_REQ, !.reqid = NewReq(s)] \in AuthServer
    BY <1>1, <1>3 DEF AuthServer
  <2> QED
    BY <1>2, <1>4, <1>11, <2>1, <2>2, UpdateTypes, RequestTypes, QueryTypes DEF AgeReq, Local
<1> QED
  BY <1>4, <1>5, <1>6, <1>7, <1>8, <1>9, <1>10, <1>11 DEF ClientStep

\* The messages a server has not read keep their type, or are lost.
LEMMA WaitingTypes ==
  ASSUME TypeOK, NEW s \in Session, NEW ms \in Seq(FromBackend), Waiting(s, ms)
  PROVE  fromBack' \in [Session -> Seq(FromBackend)]
<1>1. <<>> \in Seq(FromBackend)
  OBVIOUS
<1> QED
  BY <1>1 DEF Waiting, TypeOK

\* A message is delivered, or lost because the server has ended.
LEMMA DeliverTypes ==
  ASSUME NEW to \in [Session -> Seq(FromBackend)], NEW s, NEW m \in FromBackend
  PROVE  Deliver(to, s, m) \in [Session -> Seq(FromBackend)]
<1>1. CASE s \in Session
  <2>1. Append(to[s], m) \in Seq(FromBackend)
    BY <1>1
  <2> QED
    BY <1>1, <2>1 DEF Deliver
<1>2. CASE s \notin Session
  BY <1>2 DEF Deliver
<1> QED
  BY <1>1, <1>2

\* What an answer of the backend has the server do, answer by answer.
LEMMA ReplyStepTypes ==
  ASSUME TypeOK, NEW s \in Session, ReplyStep(s)
  PROVE  TypeOK'
<1>1. /\ auth[s] \in AuthServer /\ requests[s] \in Seq(Request) /\ fromBack[s] \in Seq(FromBackend)
      /\ fromBack[s] # <<>>
  BY DEF TypeOK, ReplyStep, Killed, LoginReply, KiReply, PlayerReply, AgeReply, Arrived
<1> DEFINE m == Head(fromBack[s])
<1>2. m \in FromBackend /\ Tail(fromBack[s]) \in Seq(FromBackend)
  BY <1>1
<1>3. fromBack' \in [Session -> Seq(FromBackend)]
  BY <1>2, WaitingTypes DEF ReplyStep
<1>4. UNCHANGED <<entity, failures>>
  BY DEF ReplyStep, Killed, LoginReply, KiReply, PlayerReply, AgeReply, backVars
<1>5. UNCHANGED auth \/ UNCHANGED requests \/ UNCHANGED toBack =>
        /\ UNCHANGED auth => auth' \in [Session -> AuthServer]
        /\ UNCHANGED requests => requests' \in [Session -> Seq(Request)]
        /\ UNCHANGED toBack => toBack' \in [Session -> Seq(ToBackend)]
  BY DEF TypeOK
<1>6. ASSUME NEW r, Answer(s, r) PROVE requests' \in [Session -> Seq(Request)]
  <2> DEFINE rs == [requests[s] EXCEPT ![r].answers = @ + 1]
  <2>1. requests' = [requests EXCEPT ![s] = rs]
    BY <1>6 DEF Answer
  <2>2. rs \in Seq(Request)
    <3> DEFINE n == Len(requests[s])
    <3>1. n \in Nat /\ DOMAIN requests[s] = 1..n
      BY <1>1
    <3>2. ASSUME NEW i \in 1..n PROVE rs[i] \in Request
      <4>1. requests[s][i] \in Request
        BY <1>1
      <4>2. [requests[s][i] EXCEPT !.answers = @ + 1] \in Request
        BY <4>1 DEF Request
      <4> QED
        BY <3>1, <4>1, <4>2
    <3>3. rs \in [1..n -> Request]
      BY <3>1, <3>2
    <3> HIDE DEF rs, n
    <3> QED
      BY <3>1, <3>3
  <2> HIDE DEF rs
  <2> QED
    BY <2>1, <2>2 DEF TypeOK
<1>7. Kick(s) => Local(s)
  BY EndTypes DEF Kick, Local, TypeOK
<1>8. CASE LoginReply(s)
  <2>1. m.ok /\ m.type = "login" =>
          [auth[s] EXCEPT !.state = LOGIN_DONE, !.reqid = 0, !.account = m.what] \in AuthServer
    BY <1>1, <1>2 DEF AuthServer, FromBackend
  <2>2. [auth[s] EXCEPT !.reqid = 0] \in AuthServer
    BY <1>1, FieldTypes
  <2>3. Local(s)
    BY <1>5, <1>6, <1>8, <2>1, <2>2, UpdateTypes DEF LoginReply, Arrived, Local
  <2> QED
    BY <1>3, <1>4, <2>3 DEF TypeOK, Local
<1>9. CASE KiReply(s)
  <2>1. [auth[s] EXCEPT !.state = VAULT_DOWNLOAD] \in AuthServer
    BY <1>1, FieldTypes
  <2>2. Local(s)
    BY <1>5, <1>6, <1>7, <1>9, <2>1, UpdateTypes DEF KiReply, Local
  <2> QED
    BY <1>3, <1>4, <2>2 DEF TypeOK, Local
<1>10. CASE PlayerReply(s)
  <2>1. [auth[s] EXCEPT !.reqid = 0] \in AuthServer
    BY <1>1, FieldTypes
  <2>2. Local(s)
    BY <1>1, <1>5, <1>6, <1>10, <2>1, UpdateTypes DEF PlayerReply, Local
  <2> QED
    BY <1>3, <1>4, <2>2 DEF TypeOK, Local
<1>11. CASE AgeReply(s)
  <2>1. \A ok : [auth[s] EXCEPT !.reqid = 0, !.state = IF ok THEN IN_GAME ELSE @] \in AuthServer
    BY <1>1 DEF AuthServer
  <2>2. Local(s)
    BY <1>5, <1>6, <1>11, <2>1, UpdateTypes DEF AgeReply, Local
  <2> QED
    BY <1>3, <1>4, <2>2 DEF TypeOK, Local
<1>12. CASE Killed(s)
  BY <1>3, <1>4, <1>7, <1>12 DEF Killed, TypeOK, Local
<1> QED
  BY <1>8, <1>9, <1>10, <1>11, <1>12 DEF ReplyStep

\* What the backend does with a message, message by message.
LEMMA BackendStepTypes ==
  ASSUME TypeOK, NEW s \in Session, BackendStep(s)
  PROVE  TypeOK'
<1>1. /\ fromBack \in [Session -> Seq(FromBackend)] /\ toBack[s] \in Seq(ToBackend)
      /\ entity[s] \in Entity /\ failures \in Nat
  BY DEF TypeOK
<1> DEFINE m == Head(toBack[s])
<1>2. toBack[s] # <<>> /\ Handled(s) /\ UNCHANGED <<auth, requests>>
  BY DEF BackendStep, AcctLogin, KiValidate, PlayerLogout, ChangePlayers, FindGame, SessionEnds, Asked
<1>3. m \in ToBackend /\ Tail(toBack[s]) \in Seq(ToBackend)
  BY <1>1, <1>2
<1>4. toBack' \in [Session -> Seq(ToBackend)]
  BY <1>2, <1>3 DEF Handled, TypeOK
<1>5. KillMsg \in FromBackend
  BY DEF KillMsg, Reply, FromBackend
<1>6. Fails \/ NoFailure => failures' \in Nat
  BY <1>1 DEF Fails, NoFailure
<1>7. CASE AcctLogin(s)
  <2> DEFINE punted == LoggedIn(m.what)
             killed == IF punted = {} THEN fromBack ELSE Deliver(fromBack, Lowest(punted), KillMsg)
  <2>1. killed \in [Session -> Seq(FromBackend)]
    BY <1>1, <1>5, DeliverTypes
  <2>2. m.what \in Account
    BY <1>3, <1>7 DEF AcctLogin, Asked, ToBackend
  <2>3. \A ok \in BOOLEAN :
          Reply("login", m.req, IF ok THEN m.what ELSE NoAccount, ok) \in FromBackend
    BY <1>3, <2>2 DEF Reply, ToBackend, FromBackend
  <2>4. Reply("login", m.req, NoAccount, FALSE) \in FromBackend
    BY <1>3 DEF Reply, ToBackend, FromBackend
  <2> HIDE DEF killed
  <2>5. \/ /\ fromBack' = Deliver(fromBack, s, Reply("login", m.req, NoAccount, FALSE))
           /\ UNCHANGED <<entity, connected, failures>>
        \/ \E ok \in BOOLEAN :
             /\ IF ok THEN NoFailure ELSE Fails
             /\ fromBack' = Deliver(killed, s,
                              Reply("login", m.req, IF ok THEN m.what ELSE NoAccount, ok))
             /\ entity' = [entity EXCEPT ![s].account = m.what]
    BY <1>7 DEF AcctLogin, killed
  <2>6. fromBack' \in [Session -> Seq(FromBackend)]
    <3>1. \E x \in FromBackend :
            fromBack' = Deliver(fromBack, s, x) \/ fromBack' = Deliver(killed, s, x)
      BY <2>3, <2>4, <2>5
    <3>2. \A x \in FromBackend : /\ Deliver(fromBack, s, x) \in [Session -> Seq(FromBackend)]
                                 /\ Deliver(killed, s, x) \in [Session -> Seq(FromBackend)]
      BY <1>1, <2>1, DeliverTypes
    <3> QED
      BY <3>1, <3>2
  <2>7. [entity[s] EXCEPT !.account = m.what] \in Entity
    BY <1>1, <2>2 DEF Entity
  <2>8. entity' \in [Session -> Entity] /\ failures' \in Nat
    BY <1>1, <1>6, <2>5, <2>7 DEF TypeOK
  <2> QED
    BY <1>2, <1>4, <2>6, <2>8 DEF TypeOK
<1>8. CASE KiValidate(s)
  <2>1. m.what \in Ki
    BY <1>3, <1>8 DEF KiValidate, Asked, ToBackend
  <2>2. /\ Reply("ki", 0, m.what, TRUE) \in FromBackend
        /\ Reply("ki", 0, m.what, FALSE) \in FromBackend
        /\ Stranger(Reply("ki", 0, m.what, FALSE)) \in FromBackend
    BY <2>1 DEF Reply, Stranger, FromBackend
  <2>3. [entity[s] EXCEPT !.kinum = m.what] \in Entity
    BY <1>1, <2>1 DEF Entity
  <2>4. fromBack' \in [Session -> Seq(FromBackend)]
    <3>1. \/ fromBack' = Deliver(fromBack, s, Reply("ki", 0, m.what, TRUE))
          \/ fromBack' = Deliver(fromBack, s, Reply("ki", 0, m.what, FALSE))
          \/ fromBack' = Deliver(fromBack, s, Stranger(Reply("ki", 0, m.what, FALSE)))
      BY <1>8 DEF KiValidate
    <3>2. \A x \in FromBackend : Deliver(fromBack, s, x) \in [Session -> Seq(FromBackend)]
      BY <1>1, DeliverTypes
    <3> QED
      BY <2>2, <3>1, <3>2
  <2>5. entity' \in [Session -> Entity] /\ failures' \in Nat
    BY <1>1, <1>6, <1>8, <2>3 DEF KiValidate, TypeOK
  <2> QED
    BY <1>2, <1>4, <2>4, <2>5 DEF TypeOK
<1>9. CASE PlayerLogout(s)
  BY <1>4, <1>9 DEF PlayerLogout, TypeOK
<1>10. CASE ChangePlayers(s)
  <2>1. Reply(m.type, m.req, NoKi, TRUE) \in FromBackend
    BY <1>3, <1>10 DEF ChangePlayers, Asked, Reply, ToBackend, FromBackend
  <2>2. fromBack' \in [Session -> Seq(FromBackend)] /\ failures' \in Nat /\ UNCHANGED entity
    BY <1>1, <1>5, <1>6, <1>10, <2>1, DeliverTypes DEF ChangePlayers
  <2> QED
    BY <1>2, <1>4, <2>2 DEF TypeOK
<1>11. CASE FindGame(s)
  <2>1. Deliver(fromBack, s, KillMsg) \in [Session -> Seq(FromBackend)]
    BY <1>1, <1>5, DeliverTypes
  <2>2. \/ UNCHANGED <<fromBack, failures>>
        \/ Fails /\ fromBack' = Deliver(fromBack, s, KillMsg)
    BY <1>11 DEF FindGame
  <2>3. UNCHANGED entity
    BY <1>11 DEF FindGame
  <2> QED
    BY <1>1, <1>2, <1>4, <1>6, <2>1, <2>2, <2>3 DEF TypeOK
<1>12. CASE SessionEnds(s)
  <2>1. [account |-> NoAccount, kinum |-> NoKi] \in Entity
    BY DEF Entity
  <2> QED
    BY <1>4, <1>12, <2>1 DEF SessionEnds, TypeOK
<1> QED
  BY <1>7, <1>8, <1>9, <1>10, <1>11, <1>12 DEF BackendStep

\* Tracking's answer to an age request.
LEMMA AgeFoundTypes ==
  ASSUME TypeOK, NEW s \in Session, NEW r \in 1..MaxRequests[s], NEW ok \in BOOLEAN,
         AgeFound(s, r, ok)
  PROVE  TypeOK'
<1>1. r \in Nat
  BY BoundAssumption
<1>2. Reply("age", r, NoKi, ok) \in FromBackend
  BY <1>1 DEF Reply, FromBackend
<1> QED
  BY <1>2, DeliverTypes DEF AgeFound, TypeOK

\* Every step keeps the types.
LEMMA TypeOKNext == TypeOK /\ [Next]_vars => TypeOK'
<1> SUFFICES ASSUME TypeOK, [Next]_vars PROVE TypeOK'
  OBVIOUS
<1>1. ASSUME NEW s \in Session, ClientStep(s), Waiting(s, fromBack[s]), UNCHANGED backVars
      PROVE  TypeOK'
  <2>1. fromBack[s] \in Seq(FromBackend)
    BY DEF TypeOK
  <2>2. fromBack' \in [Session -> Seq(FromBackend)]
    BY <1>1, <2>1, WaitingTypes
  <2> QED
    BY <1>1, <2>2, ClientStepTypes DEF Local, backVars, TypeOK
<1>2. CASE UNCHANGED vars
  BY <1>2 DEF vars, TypeOK
<1> QED
  BY <1>1, <1>2, ReplyStepTypes, BackendStepTypes, AgeFoundTypes DEF Next

-----------------------------------------------------------------------------
(* What is in a queue, in whatever order.                                  *)

\* Appending, taking the first and cutting, as sets of messages.
LEMMA Queues ==
  ASSUME NEW S, NEW q \in Seq(S)
  PROVE  /\ \A m \in S : ToSet(Append(q, m)) = ToSet(q) \cup {m}
         /\ q # <<>> => Head(q) \in ToSet(q) /\ ToSet(Tail(q)) \subseteq ToSet(q)
         /\ \A n \in 0..Len(q) : ToSet(SubSeq(q, 1, n)) \subseteq ToSet(q)
         /\ ToSet(<<>>) = {} /\ ToSet(q) \subseteq S
<1>1. ASSUME NEW m \in S PROVE ToSet(Append(q, m)) = ToSet(q) \cup {m}
  <2>1. /\ \A i \in DOMAIN q : i \in DOMAIN Append(q, m) /\ Append(q, m)[i] = q[i]
        /\ \A i \in DOMAIN Append(q, m) : i \in DOMAIN q \/ i = Len(q) + 1
        /\ Len(q) + 1 \in DOMAIN Append(q, m) /\ Append(q, m)[Len(q) + 1] = m
    OBVIOUS
  <2> QED
    BY <2>1 DEF ToSet
<1>2. ASSUME q # <<>> PROVE Head(q) \in ToSet(q) /\ ToSet(Tail(q)) \subseteq ToSet(q)
  <2>1. 1 \in DOMAIN q /\ Head(q) = q[1]
    BY <1>2
  <2>2. \A i \in DOMAIN Tail(q) : i + 1 \in DOMAIN q /\ Tail(q)[i] = q[i + 1]
    BY <1>2
  <2> QED
    BY <2>1, <2>2 DEF ToSet
<1>3. ASSUME NEW n \in 0..Len(q) PROVE ToSet(SubSeq(q, 1, n)) \subseteq ToSet(q)
  <2>1. \A i \in DOMAIN SubSeq(q, 1, n) : i \in DOMAIN q /\ SubSeq(q, 1, n)[i] = q[i]
    OBVIOUS
  <2> QED
    BY <2>1 DEF ToSet
<1>4. ToSet(<<>>) = {} /\ ToSet(q) \subseteq S
  BY DEF ToSet
<1> QED
  BY <1>1, <1>2, <1>3, <1>4

\* What is left of a queue that was cut, and one more.
LEMMA CutQueue ==
  ASSUME NEW S, NEW q \in Seq(S), NEW m \in S, NEW n \in 0..Len(q)
  PROVE  ToSet(Append(SubSeq(q, 1, n), m)) \subseteq ToSet(q) \cup {m}
<1> DEFINE kept == SubSeq(q, 1, n)
<1>1. kept \in Seq(S) /\ ToSet(kept) \subseteq ToSet(q)
  BY Queues
<1> HIDE DEF kept
<1>2. ToSet(Append(kept, m)) = ToSet(kept) \cup {m}
  BY <1>1, Queues
<1> QED
  BY <1>1, <1>2 DEF kept

-----------------------------------------------------------------------------
(* What a step of session s does to the other sessions, and to its own.    *)

Others(s) ==
  \A t \in Session \ {s} :
    /\ auth'[t] = auth[t] /\ requests'[t] = requests[t] /\ toBack'[t] = toBack[t]
    /\ entity'[t] = entity[t]
    /\ ToSet(fromBack'[t]) \subseteq ToSet(fromBack[t]) \cup {KillMsg}

\* What a server does, for its client or on an answer, concerns its own session.
LEMMA ClientOthers ==
  ASSUME TypeOK, NEW s \in Session, ClientStep(s) \/ ReplyStep(s),
         NEW ms, Waiting(s, ms), UNCHANGED entity
  PROVE  Others(s)
<1>1. ASSUME NEW t \in Session \ {s} PROVE auth'[t] = auth[t]
  BY <1>1 DEF ClientStep, ReplyStep, Negotiate, SetUpKey, ClientRegister, LastChunkAck, PlayerCreate,
     PlayerDelete, AgeReq, LoginReq, SetPlayer, FileRequest, Kick, End, Update,
     Killed, LoginReply, KiReply, PlayerReply, AgeReply, TypeOK
<1>2. ASSUME NEW t \in Session \ {s} PROVE requests'[t] = requests[t]
  BY <1>2 DEF ClientStep, ReplyStep, Negotiate, SetUpKey, ClientRegister, LastChunkAck, PlayerCreate,
     PlayerDelete, AgeReq, LoginReq, SetPlayer, FileRequest, Kick, Requests, Answer,
     Killed, LoginReply, KiReply, PlayerReply, AgeReply, TypeOK
<1>3. ASSUME NEW t \in Session \ {s} PROVE toBack'[t] = toBack[t]
  BY <1>3 DEF ClientStep, ReplyStep, Negotiate, SetUpKey, ClientRegister, LastChunkAck, PlayerCreate,
     PlayerDelete, AgeReq, LoginReq, SetPlayer, FileRequest, Kick, End, Query,
     Killed, LoginReply, KiReply, PlayerReply, AgeReply, TypeOK
<1>4. ASSUME NEW t \in Session \ {s} PROVE fromBack'[t] = fromBack[t]
  BY <1>4 DEF Waiting, TypeOK
<1> QED
  BY <1>1, <1>2, <1>3, <1>4 DEF Others

\* The server of s has received at most the messages M.
Received(s, M) == ToSet(fromBack'[s]) \subseteq ToSet(fromBack[s]) \cup M

\* Delivering a message to s adds at most that message, and to s alone.
LEMMA Delivered ==
  ASSUME NEW to \in [Session -> Seq(FromBackend)], NEW s, NEW m \in FromBackend, NEW t \in Session
  PROVE  ToSet(Deliver(to, s, m)[t]) \subseteq ToSet(to[t]) \cup (IF t = s THEN {m} ELSE {})
<1>1. to[t] \in Seq(FromBackend)
  OBVIOUS
<1>2. ToSet(Append(to[t], m)) = ToSet(to[t]) \cup {m}
  BY <1>1, Queues
<1> QED
  BY <1>2 DEF Deliver

LoginHandled(s, m) ==
  /\ m.type = "login"
  /\ \/ /\ entity'[s] = entity[s]
        /\ Received(s, {Reply("login", m.req, NoAccount, FALSE)})
     \/ \E ok \in BOOLEAN :
          /\ entity'[s] = [entity[s] EXCEPT !.account = m.what]
          /\ Received(s, {KillMsg, Reply("login", m.req, IF ok THEN m.what ELSE NoAccount, ok)})

KiHandled(s, m) ==
  /\ m.type = "ki"
  /\ \/ /\ Holder[m.what] = m.by /\ entity'[s] = [entity[s] EXCEPT !.kinum = m.what]
        /\ Received(s, {Reply("ki", 0, m.what, TRUE)})
     \/ /\ Holder[m.what] # m.by \/ failures' # 0
        /\ entity'[s] = entity[s]
        /\ \/ Received(s, {Reply("ki", 0, m.what, FALSE)})
           \/ Received(s, {Stranger(Reply("ki", 0, m.what, FALSE))})

OtherHandled(s, m) ==
  /\ m.type \in {"logout", "create", "delete", "age"}
  /\ entity'[s] = entity[s]
  /\ \/ Received(s, {KillMsg})
     \/ m.type \in {"create", "delete"} /\ Received(s, {Reply(m.type, m.req, NoKi, TRUE)})

CloseHandled(s, m) ==
  /\ m.type = "close"
  /\ entity'[s] = [account |-> NoAccount, kinum |-> NoKi] /\ Received(s, {})

\* The backend takes one message of one session, and only kills another.
LEMMA BackendEffects ==
  ASSUME TypeOK, NEW s \in Session, BackendStep(s), NEW m, m = Head(toBack[s])
  PROVE  /\ toBack[s] # <<>> /\ m \in ToBackend /\ toBack'[s] = Tail(toBack[s])
         /\ auth'[s] = auth[s] /\ requests'[s] = requests[s]
         /\ failures = 0 \/ failures' # 0
         /\ Others(s)
         /\ LoginHandled(s, m) \/ KiHandled(s, m) \/ OtherHandled(s, m) \/ CloseHandled(s, m)
<1>1. toBack[s] # <<>> /\ Handled(s) /\ UNCHANGED <<auth, requests>>
  BY DEF BackendStep, AcctLogin, KiValidate, PlayerLogout, ChangePlayers, FindGame, SessionEnds, Asked
<1>2. m \in ToBackend /\ toBack'[s] = Tail(toBack[s])
  BY <1>1 DEF Handled, TypeOK
<1>3. \A t \in Session \ {s} : toBack'[t] = toBack[t]
  BY <1>1 DEF Handled, TypeOK
<1>4. failures = 0 \/ failures' # 0
  <2>1. AcctLogin(s) => NoFailure \/ Fails \/ UNCHANGED failures
    BY DEF AcctLogin
  <2>2. KiValidate(s) => NoFailure \/ Fails
    BY DEF KiValidate
  <2>3. PlayerLogout(s) \/ ChangePlayers(s) \/ FindGame(s) \/ SessionEnds(s) =>
          NoFailure \/ Fails \/ UNCHANGED failures
    BY DEF PlayerLogout, ChangePlayers, FindGame, SessionEnds
  <2>4. NoFailure \/ Fails \/ UNCHANGED failures
    BY <2>1, <2>2, <2>3 DEF BackendStep
  <2> QED
    BY <2>4 DEF NoFailure, Fails, TypeOK
<1>5. \A t \in Session \ {s} : entity'[t] = entity[t]
  BY DEF BackendStep, AcctLogin, KiValidate, PlayerLogout, ChangePlayers, FindGame, SessionEnds, TypeOK
<1>6. /\ fromBack \in [Session -> Seq(FromBackend)] /\ KillMsg \in FromBackend
      /\ entity[s] \in Entity /\ \A a : [entity EXCEPT ![s].account = a][s] = [entity[s] EXCEPT !.account = a]
      /\ \A k : [entity EXCEPT ![s].kinum = k][s] = [entity[s] EXCEPT !.kinum = k]
  BY DEF TypeOK, KillMsg, Reply, FromBackend
<1>7. CASE AcctLogin(s)
  <2> DEFINE punted == LoggedIn(m.what)
             killed == IF punted = {} THEN fromBack ELSE Deliver(fromBack, Lowest(punted), KillMsg)
             refusal == Reply("login", m.req, NoAccount, FALSE)
             answer(ok) == Reply("login", m.req, IF ok THEN m.what ELSE NoAccount, ok)
  <2>1. m.type = "login" /\ m.what \in Account
    BY <1>2, <1>7 DEF AcctLogin, Asked, ToBackend
  <2>2. refusal \in FromBackend /\ \A ok \in BOOLEAN : answer(ok) \in FromBackend
    BY <1>2, <2>1 DEF Reply, ToBackend, FromBackend
  <2>3. /\ killed \in [Session -> Seq(FromBackend)]
        /\ \A t \in Session : ToSet(killed[t]) \subseteq ToSet(fromBack[t]) \cup {KillMsg}
    <3>1. CASE punted = {}
      BY <1>6, <3>1
    <3>2. CASE punted # {}
      <4> DEFINE first == Lowest(punted)
      <4>1. killed = Deliver(fromBack, first, KillMsg)
        BY <3>2
      <4> HIDE DEF first, killed, punted
      <4>2. killed \in [Session -> Seq(FromBackend)]
        BY <1>6, <4>1, DeliverTypes
      <4>3. \A t \in Session : ToSet(killed[t]) \subseteq
              ToSet(fromBack[t]) \cup (IF t = first THEN {KillMsg} ELSE {})
        BY <1>6, <4>1, Delivered
      <4> QED
        BY <4>2, <4>3
    <3> QED
      BY <3>1, <3>2
  <2>4. \/ /\ fromBack' = Deliver(fromBack, s, refusal)
           /\ entity' = entity
        \/ \E ok \in BOOLEAN :
             /\ fromBack' = Deliver(killed, s, answer(ok))
             /\ entity' = [entity EXCEPT ![s].account = m.what]
    BY <1>7 DEF AcctLogin
  <2> HIDE DEF killed, refusal, answer
  <2>5. \A t \in Session : ToSet(Deliver(fromBack, s, refusal)[t]) \subseteq
                             ToSet(fromBack[t]) \cup (IF t = s THEN {refusal} ELSE {})
    BY <1>6, <2>2, Delivered
  <2>6. \A ok \in BOOLEAN, t \in Session :
          ToSet(Deliver(killed, s, answer(ok))[t]) \subseteq
            ToSet(fromBack[t]) \cup {KillMsg} \cup (IF t = s THEN {answer(ok)} ELSE {})
    <3>1. ASSUME NEW ok \in BOOLEAN, NEW t \in Session
          PROVE  ToSet(Deliver(killed, s, answer(ok))[t]) \subseteq
                   ToSet(killed[t]) \cup (IF t = s THEN {answer(ok)} ELSE {})
      BY <2>2, <2>3, Delivered
    <3> QED
      BY <2>3, <3>1
  <2>7. Others(s)
    BY <1>1, <1>3, <1>5, <2>4, <2>5, <2>6 DEF Others
  <2>8. LoginHandled(s, m)
    <3>1. CASE fromBack' = Deliver(fromBack, s, refusal) /\ entity' = entity
      BY <2>1, <2>5, <3>1 DEF LoginHandled, Received, refusal
    <3>2. ASSUME NEW ok \in BOOLEAN, fromBack' = Deliver(killed, s, answer(ok)),
                 entity' = [entity EXCEPT ![s].account = m.what]
          PROVE  LoginHandled(s, m)
      <4>1. Received(s, {KillMsg, answer(ok)})
        BY <2>6, <3>2 DEF Received
      <4> QED
        BY <1>6, <2>1, <3>2, <4>1 DEF LoginHandled, answer
    <3> QED
      BY <2>4, <3>1, <3>2
  <2> QED
    BY <1>1, <1>2, <1>4, <2>7, <2>8
<1>8. ASSUME NEW x \in FromBackend, fromBack' = fromBack \/ fromBack' = Deliver(fromBack, s, x)
      PROVE  Received(s, {x}) /\ \A t \in Session \ {s} : ToSet(fromBack'[t]) \subseteq ToSet(fromBack[t])
  <2>1. \A t \in Session : ToSet(Deliver(fromBack, s, x)[t]) \subseteq
                             ToSet(fromBack[t]) \cup (IF t = s THEN {x} ELSE {})
    BY <1>6, Delivered
  <2> QED
    BY <1>8, <2>1 DEF Received
<1>9. CASE KiValidate(s)
  <2> DEFINE yes == Reply("ki", 0, m.what, TRUE)
             no == Reply("ki", 0, m.what, FALSE)
  <2>1. m.type = "ki" /\ m.what \in Ki
    BY <1>2, <1>9 DEF KiValidate, Asked, ToBackend
  <2>2. yes \in FromBackend /\ no \in FromBackend /\ Stranger(no) \in FromBackend
    BY <2>1 DEF Reply, Stranger, FromBackend
  <2>3. \/ /\ Holder[m.what] = m.by /\ fromBack' = Deliver(fromBack, s, yes)
           /\ entity' = [entity EXCEPT ![s].kinum = m.what]
        \/ /\ Holder[m.what] # m.by /\ fromBack' = Deliver(fromBack, s, Stranger(no))
           /\ entity' = entity
        \/ Fails /\ fromBack' = Deliver(fromBack, s, no) /\ entity' = entity
    BY <1>9 DEF KiValidate
  <2>4. Fails => failures' # 0
    BY DEF Fails, TypeOK
  <2> HIDE DEF yes, no
  <2>5. CASE /\ Holder[m.what] = m.by /\ fromBack' = Deliver(fromBack, s, yes)
             /\ entity' = [entity EXCEPT ![s].kinum = m.what]
    <3>1. Received(s, {yes}) /\ \A t \in Session \ {s} : ToSet(fromBack'[t]) \subseteq ToSet(fromBack[t])
      BY <1>8, <2>2, <2>5
    <3>2. KiHandled(s, m)
      BY <1>6, <2>1, <2>5, <3>1 DEF KiHandled, yes
    <3> QED
      BY <1>1, <1>2, <1>3, <1>4, <1>5, <3>1, <3>2 DEF Others
  <2>6. CASE /\ Holder[m.what] # m.by /\ fromBack' = Deliver(fromBack, s, Stranger(no))
             /\ entity' = entity
    <3>1. Received(s, {Stranger(no)}) /\ \A t \in Session \ {s} : ToSet(fromBack'[t]) \subseteq ToSet(fromBack[t])
      BY <1>8, <2>2, <2>6
    <3>2. KiHandled(s, m)
      BY <2>1, <2>6, <3>1 DEF KiHandled, no
    <3> QED
      BY <1>1, <1>2, <1>3, <1>4, <1>5, <3>1, <3>2 DEF Others
  <2>7. CASE Fails /\ fromBack' = Deliver(fromBack, s, no) /\ entity' = entity
    <3>1. Received(s, {no}) /\ \A t \in Session \ {s} : ToSet(fromBack'[t]) \subseteq ToSet(fromBack[t])
      BY <1>8, <2>2, <2>7
    <3>2. KiHandled(s, m)
      BY <2>1, <2>4, <2>7, <3>1 DEF KiHandled, no
    <3> QED
      BY <1>1, <1>2, <1>3, <1>4, <1>5, <3>1, <3>2 DEF Others
  <2> QED
    BY <2>3, <2>5, <2>6, <2>7
<1>10. CASE PlayerLogout(s) \/ FindGame(s)
  <2>1. /\ fromBack' = fromBack \/ fromBack' = Deliver(fromBack, s, KillMsg)
        /\ entity' = entity /\ m.type \in {"logout", "age"}
    BY <1>10 DEF PlayerLogout, FindGame, Asked
  <2>2. Received(s, {KillMsg}) /\ \A t \in Session \ {s} : ToSet(fromBack'[t]) \subseteq ToSet(fromBack[t])
    BY <1>6, <1>8, <2>1
  <2>3. OtherHandled(s, m)
    BY <2>1, <2>2 DEF OtherHandled
  <2> QED
    BY <1>1, <1>2, <1>3, <1>4, <1>5, <2>2, <2>3 DEF Others
<1>11. CASE ChangePlayers(s)
  <2> DEFINE done == Reply(m.type, m.req, NoKi, TRUE)
  <2>1. /\ fromBack' = Deliver(fromBack, s, done) \/ fromBack' = Deliver(fromBack, s, KillMsg)
        /\ entity' = entity /\ m.type \in {"create", "delete"}
    BY <1>11 DEF ChangePlayers, Asked
  <2>2. done \in FromBackend
    BY <1>2, <2>1 DEF Reply, ToBackend, FromBackend
  <2> HIDE DEF done
  <2>3. /\ Received(s, {KillMsg}) \/ Received(s, {done})
        /\ \A t \in Session \ {s} : ToSet(fromBack'[t]) \subseteq ToSet(fromBack[t])
    BY <1>6, <1>8, <2>1, <2>2
  <2>4. OtherHandled(s, m)
    BY <2>1, <2>3 DEF OtherHandled, done
  <2> QED
    BY <1>1, <1>2, <1>3, <1>4, <1>5, <2>3, <2>4 DEF Others
<1>12. CASE SessionEnds(s)
  <2>1. CloseHandled(s, m)
    BY <1>12 DEF SessionEnds, Asked, CloseHandled, Received, TypeOK
  <2> QED
    BY <1>1, <1>2, <1>3, <1>4, <1>5, <1>12, <2>1 DEF Others, SessionEnds
<1> QED
  BY <1>7, <1>9, <1>10, <1>11, <1>12 DEF BackendStep

\* An answer of tracking is one message to the session that asked.
LEMMA AgeFoundEffects ==
  ASSUME TypeOK, NEW s \in Session, NEW r \in 1..MaxRequests[s], NEW ok \in BOOLEAN,
         AgeFound(s, r, ok)
  PROVE  /\ auth'[s] = auth[s] /\ requests'[s] = requests[s] /\ toBack'[s] = toBack[s]
         /\ entity'[s] = entity[s] /\ failures' = failures /\ Others(s)
         /\ Received(s, {Reply("age", r, NoKi, ok)})
<1>1. r \in Nat /\ fromBack \in [Session -> Seq(FromBackend)]
  BY BoundAssumption DEF TypeOK
<1> DEFINE reply == Reply("age", r, NoKi, ok)
<1>2. reply \in FromBackend
  BY <1>1 DEF Reply, FromBackend
<1>3. fromBack' = Deliver(fromBack, s, reply)
  BY DEF AgeFound
<1> HIDE DEF reply
<1>4. \A t \in Session :
        ToSet(fromBack'[t]) \subseteq ToSet(fromBack[t]) \cup (IF t = s THEN {reply} ELSE {})
  BY <1>1, <1>2, <1>3, Delivered
<1> QED
  BY <1>4 DEF AgeFound, Others, Received, reply

Message(type, req, what, by) == [type |-> type, req |-> req, what |-> what, by |-> by]

Ended(s) ==
  /\ auth'[s] = [Fresh EXCEPT !.open = FALSE] /\ requests'[s] = requests[s]
  /\ fromBack'[s] = <<>>
  /\ \E written \in 0..Len(toBack[s]) :
       toBack'[s] = Append(SubSeq(toBack[s], 1, written), Message("close", 0, NoKi, NoKi))

\* the server goes on, in this state, with this request and for these
After(s, state, reqid, account, kinum) ==
  /\ auth'[s].open /\ auth'[s].state = state /\ auth'[s].reqid = reqid
  /\ auth'[s].account = account /\ auth'[s].kinum = kinum

\* a request of the client, and what is sent to the backend for it
Takes(s, kind, state, reqid, kinum, q) ==
  /\ After(s, state, reqid, auth[s].account, kinum)
  /\ \E n \in Nat : requests'[s] = Append(requests[s], [kind |-> kind, answers |-> n])
  /\ toBack'[s] = q /\ fromBack'[s] = fromBack[s]

Moves(s) ==
  /\ UNCHANGED <<requests, toBack>> /\ fromBack'[s] = fromBack[s]
  /\ \E state \in Nat :
       /\ After(s, state, auth[s].reqid, auth[s].account, auth[s].kinum)
       /\ \/ state = State(s)
          \/ State(s) < REGISTER /\ state <= REGISTER
          \/ auth[s].account # NoAccount /\ State(s) <= DOWNLOAD /\ state = DOWNLOAD

TakesLogin(s) ==
  /\ State(s) \in {REGISTER, LOGIN}
  /\ \E a \in Account : Takes(s, "login", LOGIN, NewReq(s), auth[s].kinum,
                              Append(toBack[s], Message("login", NewReq(s), a, NoKi)))
TakesPlayer(s) ==
  /\ State(s) \in {LOGIN_DONE, DOWNLOAD, IN_STARTUP}
  /\ \E k \in Ki : Takes(s, "player", IN_STARTUP, NewReq(s), k,
                         Append(toBack[s], Message("ki", 0, k, auth[s].account)))
TakesLogout(s) ==
  /\ State(s) \in {LOGIN_DONE, DOWNLOAD, IN_STARTUP, IN_GAME}
  /\ \/ Takes(s, "player", IN_STARTUP, 0, NoKi, toBack[s])
     \/ Takes(s, "player", IN_STARTUP, 0, NoKi,
              Append(toBack[s], Message("logout", 0, auth[s].kinum, NoKi)))
TakesChange(s) ==
  \E kind \in {"create", "delete"} :
    \/ Takes(s, kind, State(s), 0, auth[s].kinum, toBack[s])
    \/ Takes(s, kind, State(s), auth[s].reqid, auth[s].kinum, toBack[s]) /\ State(s) # AGE_REQ
    \/ /\ State(s) = IN_STARTUP
       /\ Takes(s, kind, IN_STARTUP, NewReq(s), auth[s].kinum,
                Append(toBack[s], Message(kind, NewReq(s), NoKi, NoKi)))
TakesAge(s) ==
  /\ State(s) >= VAULT_DOWNLOAD
  /\ Takes(s, "age", AGE_REQ, NewReq(s), auth[s].kinum,
           Append(toBack[s], Message("age", NewReq(s), NoKi, auth[s].kinum)))

\* However a server ends, its session is Ended.
LEMMA EndEffects ==
  ASSUME TypeOK, NEW s \in Session, End(s), UNCHANGED requests, NEW ms, Waiting(s, ms)
  PROVE  Ended(s)
<1>1. auth'[s] = [Fresh EXCEPT !.open = FALSE]
  BY DEF End, Update, TypeOK
<1>2. auth'[s].open = FALSE
  BY <1>1 DEF Fresh
<1>3. fromBack'[s] = <<>>
  BY <1>2 DEF Waiting, TypeOK
<1>4. \E written \in 0..Len(toBack[s]) :
        toBack'[s] = Append(SubSeq(toBack[s], 1, written), Message("close", 0, NoKi, NoKi))
  BY DEF End, Message, TypeOK
<1> QED
  BY <1>1, <1>3, <1>4 DEF Ended

\* What the parts of a step assign, for the session itself.
LEMMA Effects ==
  ASSUME TypeOK, NEW s \in Session
  PROVE  /\ \A a : Update(s, a) => auth'[s] = a
         /\ \A type, req, what, by : Query(s, type, req, what, by) =>
              toBack'[s] = Append(toBack[s], Message(type, req, what, by))
         /\ \A kind, n : Requests(s, kind, n) =>
              requests'[s] = Append(requests[s], [kind |-> kind, answers |-> n])
         /\ UNCHANGED auth => auth'[s] = auth[s]
         /\ UNCHANGED requests => requests'[s] = requests[s]
         /\ UNCHANGED toBack => toBack'[s] = toBack[s]
  BY DEF Update, Query, Requests, Message, TypeOK

\* Whoever is still open after a step of the server has its messages still.
LEMMA StaysOpen ==
  ASSUME TypeOK, NEW s \in Session, NEW ms, Waiting(s, ms), auth'[s].open
  PROVE  fromBack'[s] = ms
  BY DEF Waiting, TypeOK

\* A message of the client ends the session, moves it, or is a request.
LEMMA ClientEffects ==
  ASSUME TypeOK, NEW s \in Session, ClientStep(s), Waiting(s, fromBack[s])
  PROVE  /\ Open(s)
         /\ \/ Ended(s) \/ Moves(s) \/ TakesLogin(s) \/ TakesPlayer(s) \/ TakesLogout(s)
            \/ TakesChange(s) \/ TakesAge(s)
<1>1. auth[s] \in AuthServer
  BY DEF TypeOK
<1>2. Open(s)
  BY DEF ClientStep, Negotiate, SetUpKey, ClientRegister, LastChunkAck, PlayerCreate,
     PlayerDelete, AgeReq, LoginReq, SetPlayer, FileRequest, Kick
<1>3. Kick(s) => Ended(s)
  BY EndEffects DEF Kick
<1>4. ASSUME Negotiate(s) \/ SetUpKey(s) \/ ClientRegister(s) PROVE Moves(s)
  <2>1. PICK n \in {NEGOTIATION_DONE, NONCE_DONE, REGISTER} :
          auth'[s] = [auth[s] EXCEPT !.state = n] /\ UNCHANGED <<requests, toBack>> /\ State(s) < REGISTER
    BY <1>1, <1>4, Effects DEF Negotiate, SetUpKey, ClientRegister, AuthServer, State
  <2>2. After(s, n, auth[s].reqid, auth[s].account, auth[s].kinum)
    BY <1>1, <1>2, <2>1 DEF After, AuthServer, Open
  <2>3. fromBack'[s] = fromBack[s]
    BY <2>2, StaysOpen DEF After
  <2> QED
    BY <1>2, <2>1, <2>2, <2>3 DEF Moves
<1>5. ASSUME LastChunkAck(s) PROVE Moves(s)
  <2>1. auth'[s] = [auth[s] EXCEPT !.download = FALSE] /\ UNCHANGED <<requests, toBack>>
    BY <1>5, Effects DEF LastChunkAck
  <2>2. After(s, State(s), auth[s].reqid, auth[s].account, auth[s].kinum) /\ State(s) \in Nat
    BY <1>1, <1>2, <2>1 DEF After, AuthServer, Open, State
  <2>3. fromBack'[s] = fromBack[s]
    BY <2>2, StaysOpen DEF After
  <2> QED
    BY <1>2, <2>1, <2>2, <2>3 DEF Moves
<1>6. ASSUME NEW x \in BOOLEAN, FileRequest(s, x) PROVE Ended(s) \/ Moves(s)
  <2>1. CASE Kick(s)
    BY <1>3, <2>1
  <2>2. CASE ~Kick(s)
    <3>1. /\ auth'[s] = [auth[s] EXCEPT !.state = DOWNLOAD, !.download = ~x]
          /\ UNCHANGED <<requests, toBack>> /\ State(s) <= DOWNLOAD /\ auth[s].account # NoAccount
      BY <1>1, <1>6, <2>2, Effects DEF FileRequest, State, AuthServer
    <3>2. After(s, DOWNLOAD, auth[s].reqid, auth[s].account, auth[s].kinum)
      BY <1>1, <1>2, <3>1 DEF After, AuthServer, Open
    <3>3. fromBack'[s] = fromBack[s]
      BY <3>2, StaysOpen DEF After
    <3> QED
      BY <3>1, <3>2, <3>3 DEF Moves
  <2> QED
    BY <2>1, <2>2
<1>7. ASSUME NEW a \in Account, LoginReq(s, a) PROVE TakesLogin(s)
  <2>1. /\ auth'[s] = [auth[s] EXCEPT !.state = LOGIN, !.reqid = NewReq(s)]
        /\ requests'[s] = Append(requests[s], [kind |-> "login", answers |-> 0])
        /\ toBack'[s] = Append(toBack[s], Message("login", NewReq(s), a, NoKi))
        /\ State(s) \in {REGISTER, LOGIN}
    BY <1>7, Effects DEF LoginReq
  <2>2. After(s, LOGIN, NewReq(s), auth[s].account, auth[s].kinum)
    BY <1>1, <1>2, <2>1 DEF After, AuthServer, Open
  <2>3. fromBack'[s] = fromBack[s]
    BY <2>2, StaysOpen DEF After
  <2> QED
    BY <2>1, <2>2, <2>3 DEF TakesLogin, Takes
<1>8. ASSUME NEW k \in Ki \cup {NoKi}, SetPlayer(s, k) PROVE TakesPlayer(s) \/ TakesLogout(s)
  <2> DEFINE reqid == IF k = NoKi THEN 0 ELSE NewReq(s)
             answers == IF k = NoKi THEN 1 ELSE 0
             loading == IF State(s) = DOWNLOAD THEN FALSE ELSE auth[s].download
  <2>1. /\ (State(s) \in {LOGIN_DONE, DOWNLOAD, IN_STARTUP}) \/ (State(s) = IN_GAME /\ k = NoKi)
        /\ auth'[s] = [auth[s] EXCEPT !.state = IN_STARTUP, !.kinum = k, !.reqid = reqid,
                                      !.download = loading]
        /\ requests'[s] = Append(requests[s], [kind |-> "player", answers |-> answers])
    BY <1>8, Effects DEF SetPlayer
  <2>2. /\ k # NoKi => toBack'[s] = Append(toBack[s], Message("ki", 0, k, auth[s].account))
        /\ k = NoKi => \/ toBack'[s] = toBack[s]
                       \/ toBack'[s] = Append(toBack[s], Message("logout", 0, auth[s].kinum, NoKi))
    BY <1>8, Effects DEF SetPlayer
  <2>3. answers \in Nat
    OBVIOUS
  <2> HIDE DEF reqid, answers, loading
  <2>4. After(s, IN_STARTUP, reqid, auth[s].account, k)
    BY <1>1, <1>2, <2>1 DEF After, AuthServer, Open
  <2>5. fromBack'[s] = fromBack[s]
    BY <2>4, StaysOpen DEF After
  <2>6. CASE k = NoKi
    <3>1. reqid = 0
      BY <2>6 DEF reqid
    <3>2. \E q \in {toBack[s], Append(toBack[s], Message("logout", 0, auth[s].kinum, NoKi))} :
            Takes(s, "player", IN_STARTUP, 0, NoKi, q)
      BY <2>1, <2>2, <2>3, <2>4, <2>5, <2>6, <3>1 DEF Takes
    <3> QED
      BY <2>1, <3>2 DEF TakesLogout
  <2>7. CASE k # NoKi
    <3>1. reqid = NewReq(s)
      BY <2>7 DEF reqid
    <3>2. Takes(s, "player", IN_STARTUP, NewReq(s), k,
                Append(toBack[s], Message("ki", 0, k, auth[s].account)))
      BY <2>1, <2>2, <2>3, <2>4, <2>5, <2>7, <3>1 DEF Takes
    <3> QED
      BY <2>1, <2>7, <3>2 DEF TakesPlayer
  <2> QED
    BY <2>6, <2>7
<1>9. ASSUME PlayerCreate(s) PROVE Ended(s) \/ TakesChange(s)
  <2>1. CASE Kick(s)
    BY <1>3, <2>1
  <2>2. CASE /\ Requests(s, "create", 1) /\ UNCHANGED <<auth, toBack>> /\ State(s) = IN_STARTUP
    <3>1. /\ requests'[s] = Append(requests[s], [kind |-> "create", answers |-> 1])
          /\ auth'[s] = auth[s] /\ toBack'[s] = toBack[s]
      BY <2>2, Effects
    <3>2. After(s, State(s), auth[s].reqid, auth[s].account, auth[s].kinum)
      BY <1>2, <3>1 DEF After, Open, State
    <3>3. fromBack'[s] = fromBack[s]
      BY <3>2, StaysOpen DEF After
    <3>4. Takes(s, "create", State(s), auth[s].reqid, auth[s].kinum, toBack[s])
      BY <3>1, <3>2, <3>3 DEF Takes
    <3> QED
      BY <1>2, <2>2, <3>4 DEF TakesChange
  <2>3. CASE /\ State(s) = IN_STARTUP /\ Requests(s, "create", 0)
             /\ Update(s, [auth[s] EXCEPT !.reqid = NewReq(s)])
             /\ Query(s, "create", NewReq(s), NoKi, NoKi)
    <3>1. /\ requests'[s] = Append(requests[s], [kind |-> "create", answers |-> 0])
          /\ auth'[s] = [auth[s] EXCEPT !.reqid = NewReq(s)]
          /\ toBack'[s] = Append(toBack[s], Message("create", NewReq(s), NoKi, NoKi))
      BY <2>3, Effects
    <3>2. After(s, IN_STARTUP, NewReq(s), auth[s].account, auth[s].kinum)
      BY <1>1, <1>2, <2>3, <3>1 DEF After, AuthServer, Open, State
    <3>3. fromBack'[s] = fromBack[s]
      BY <3>2, StaysOpen DEF After
    <3>4. Takes(s, "create", IN_STARTUP, NewReq(s), auth[s].kinum,
                Append(toBack[s], Message("create", NewReq(s), NoKi, NoKi)))
      BY <3>1, <3>2, <3>3 DEF Takes
    <3> QED
      BY <2>3, <3>4 DEF TakesChange
  <2> QED
    BY <1>9, <2>1, <2>2, <2>3 DEF PlayerCreate
<1>10. ASSUME PlayerDelete(s) PROVE TakesChange(s)
  <2>1. CASE /\ Requests(s, "delete", 1) /\ Update(s, [auth[s] EXCEPT !.reqid = 0])
             /\ UNCHANGED toBack
    <3>1. /\ requests'[s] = Append(requests[s], [kind |-> "delete", answers |-> 1])
          /\ auth'[s] = [auth[s] EXCEPT !.reqid = 0] /\ toBack'[s] = toBack[s]
      BY <2>1, Effects
    <3>2. After(s, State(s), 0, auth[s].account, auth[s].kinum)
      BY <1>1, <1>2, <3>1 DEF After, AuthServer, Open, State
    <3>3. fromBack'[s] = fromBack[s]
      BY <3>2, StaysOpen DEF After
    <3>4. Takes(s, "delete", State(s), 0, auth[s].kinum, toBack[s])
      BY <3>1, <3>2, <3>3 DEF Takes
    <3> QED
      BY <3>4 DEF TakesChange
  <2>2. CASE /\ State(s) = IN_STARTUP /\ Requests(s, "delete", 0)
             /\ Update(s, [auth[s] EXCEPT !.reqid = NewReq(s)])
             /\ Query(s, "delete", NewReq(s), NoKi, NoKi)
    <3>1. /\ requests'[s] = Append(requests[s], [kind |-> "delete", answers |-> 0])
          /\ auth'[s] = [auth[s] EXCEPT !.reqid = NewReq(s)]
          /\ toBack'[s] = Append(toBack[s], Message("delete", NewReq(s), NoKi, NoKi))
      BY <2>2, Effects
    <3>2. After(s, IN_STARTUP, NewReq(s), auth[s].account, auth[s].kinum)
      BY <1>1, <1>2, <2>2, <3>1 DEF After, AuthServer, Open, State
    <3>3. fromBack'[s] = fromBack[s]
      BY <3>2, StaysOpen DEF After
    <3>4. Takes(s, "delete", IN_STARTUP, NewReq(s), auth[s].kinum,
                Append(toBack[s], Message("delete", NewReq(s), NoKi, NoKi)))
      BY <3>1, <3>2, <3>3 DEF Takes
    <3> QED
      BY <2>2, <3>4 DEF TakesChange
  <2> QED
    BY <1>10, <2>1, <2>2 DEF PlayerDelete
<1>11. ASSUME AgeReq(s) PROVE Ended(s) \/ TakesAge(s)
  <2>1. CASE Kick(s)
    BY <1>3, <2>1
  <2>2. CASE ~Kick(s)
    <3>1. /\ ~(State(s) < VAULT_DOWNLOAD) /\ Requests(s, "age", 0)
          /\ Update(s, [auth[s] EXCEPT !.state = AGE_REQ, !.reqid = NewReq(s)])
          /\ Query(s, "age", NewReq(s), NoKi, auth[s].kinum)
      BY <1>11, <2>2 DEF AgeReq
    <3>2. /\ requests'[s] = Append(requests[s], [kind |-> "age", answers |-> 0])
          /\ auth'[s] = [auth[s] EXCEPT !.state = AGE_REQ, !.reqid = NewReq(s)]
          /\ toBack'[s] = Append(toBack[s], Message("age", NewReq(s), NoKi, auth[s].kinum))
          /\ State(s) >= VAULT_DOWNLOAD
      BY <1>1, <3>1, Effects DEF State, AuthServer
    <3>3. After(s, AGE_REQ, NewReq(s), auth[s].account, auth[s].kinum)
      BY <1>1, <1>2, <3>2 DEF After, AuthServer, Open
    <3>4. fromBack'[s] = fromBack[s]
      BY <3>3, StaysOpen DEF After
    <3> QED
      BY <3>2, <3>3, <3>4 DEF Takes, TakesAge
  <2> QED
    BY <2>1, <2>2
<1> QED
  BY <1>2, <1>3, <1>4, <1>5, <1>6, <1>7, <1>8, <1>9, <1>10, <1>11 DEF ClientStep

\* Of the requests of s, at most those in R are answered.
OnlyAnswers(s, R) ==
  /\ Len(requests'[s]) = Len(requests[s])
  /\ \A r \in 1..Len(requests[s]) :
       /\ requests'[s][r].kind = requests[s][r].kind
       /\ r \notin R => requests'[s][r] = requests[s][r]

\* an answer of the backend that is not wanted, and each that is
Ignores(s) ==
  /\ OnlyAnswers(s, {})
  /\ After(s, State(s), auth[s].reqid, auth[s].account, auth[s].kinum)
LoginAnswered(s, m) ==
  /\ m.type = "login" /\ State(s) = LOGIN /\ auth[s].reqid = m.req /\ OnlyAnswers(s, {m.req})
  /\ IF m.ok THEN After(s, LOGIN_DONE, 0, m.what, auth[s].kinum)
     ELSE After(s, LOGIN, 0, auth[s].account, auth[s].kinum)
KiAnswered(s, m) ==
  /\ m.type = "ki" /\ State(s) = IN_STARTUP /\ auth[s].kinum = m.what /\ ~m.stranger
  /\ OnlyAnswers(s, {auth[s].reqid})
  /\ IF m.ok THEN After(s, VAULT_DOWNLOAD, auth[s].reqid, auth[s].account, auth[s].kinum)
     ELSE After(s, IN_STARTUP, auth[s].reqid, auth[s].account, auth[s].kinum)
PlayerAnswered(s, m) ==
  /\ m.type \in {"create", "delete"} /\ OnlyAnswers(s, {m.req})
  /\ \/ After(s, State(s), auth[s].reqid, auth[s].account, auth[s].kinum)
     \/ State(s) = IN_STARTUP /\ After(s, IN_STARTUP, 0, auth[s].account, auth[s].kinum)
AgeAnswered(s, m) ==
  /\ m.type = "age" /\ State(s) = AGE_REQ /\ auth[s].reqid = m.req /\ OnlyAnswers(s, {m.req})
  /\ \E state \in {AGE_REQ, IN_GAME} : After(s, state, 0, auth[s].account, auth[s].kinum)

\* Answering a request counts for that request and for no other.
LEMMA Answers ==
  ASSUME TypeOK, NEW s \in Session
  PROVE  /\ \A r : Answer(s, r) => OnlyAnswers(s, {r})
         /\ UNCHANGED requests => \A R : OnlyAnswers(s, R)
<1>1. requests \in [Session -> Seq(Request)] /\ requests[s] \in Seq(Request)
  BY DEF TypeOK
<1>2. ASSUME NEW r, Answer(s, r) PROVE OnlyAnswers(s, {r})
  <2> DEFINE rs == [requests[s] EXCEPT ![r].answers = @ + 1]
  <2>1. requests'[s] = rs
    BY <1>1, <1>2 DEF Answer
  <2>2. DOMAIN rs = DOMAIN requests[s] /\ DOMAIN requests[s] = 1..Len(requests[s])
    BY <1>1
  <2>3. Len(rs) = Len(requests[s])
    BY <1>1, <2>2
  <2>4. ASSUME NEW i \in 1..Len(requests[s])
        PROVE  rs[i].kind = requests[s][i].kind /\ (i # r => rs[i] = requests[s][i])
    <3>1. requests[s][i] \in Request
      BY <1>1
    <3>2. [requests[s][i] EXCEPT !.answers = @ + 1].kind = requests[s][i].kind
      BY <3>1 DEF Request
    <3>3. rs[i] = IF i = r THEN [requests[s][i] EXCEPT !.answers = @ + 1] ELSE requests[s][i]
      BY <2>2
    <3> QED
      BY <3>2, <3>3
  <2> HIDE DEF rs
  <2> QED
    BY <2>1, <2>3, <2>4 DEF OnlyAnswers
<1>3. UNCHANGED requests => \A R : OnlyAnswers(s, R)
  BY DEF OnlyAnswers
<1> QED
  BY <1>2, <1>3

\* An answer of the backend ends the session, is ignored, or was wanted.
LEMMA ReplyEffects ==
  ASSUME TypeOK, NEW s \in Session, ReplyStep(s), NEW m, m = Head(fromBack[s])
  PROVE  /\ Open(s) /\ fromBack[s] # <<>> /\ m \in FromBackend /\ Others(s)
         /\ entity' = entity /\ failures' = failures
         /\ \/ Ended(s)
            \/ /\ toBack'[s] = toBack[s] /\ fromBack'[s] = Tail(fromBack[s])
               /\ \/ Ignores(s) \/ LoginAnswered(s, m) \/ KiAnswered(s, m)
                  \/ PlayerAnswered(s, m) \/ AgeAnswered(s, m)
<1>1. Open(s) /\ fromBack[s] # <<>> /\ UNCHANGED <<entity, failures>>
  BY DEF ReplyStep, Killed, LoginReply, KiReply, PlayerReply, AgeReply, Arrived, backVars
<1>2. auth[s] \in AuthServer /\ m \in FromBackend
  BY <1>1 DEF TypeOK
<1>3. Waiting(s, Tail(fromBack[s]))
  BY DEF ReplyStep
<1>4. Others(s)
  BY <1>1, <1>3, ClientOthers
<1>5. Kick(s) => Ended(s)
  BY <1>3, EndEffects DEF Kick
<1> DEFINE Goes == toBack'[s] = toBack[s] /\ fromBack'[s] = Tail(fromBack[s])
<1>6. ASSUME NEW a, auth'[s] = a, a.open, UNCHANGED toBack PROVE Goes
  BY <1>3, <1>6, StaysOpen
<1> HIDE DEF Goes
<1>7. ASSUME auth' = auth, UNCHANGED toBack
      PROVE  Goes /\ After(s, State(s), auth[s].reqid, auth[s].account, auth[s].kinum)
  BY <1>1, <1>6, <1>7 DEF After, Open, State
<1>8. ASSUME LoginReply(s) PROVE Goes /\ (Ignores(s) \/ LoginAnswered(s, m))
  <2>1. m.type = "login" /\ UNCHANGED toBack
    BY <1>8 DEF LoginReply, Arrived
  <2>2. CASE State(s) # LOGIN \/ auth[s].reqid # m.req
    <3>1. UNCHANGED <<auth, requests>>
      BY <1>8, <2>2 DEF LoginReply
    <3> QED
      BY <1>7, <2>1, <3>1, Answers DEF Ignores
  <2>3. CASE State(s) = LOGIN /\ auth[s].reqid = m.req
    <3>1. /\ Answer(s, m.req)
          /\ m.ok => Update(s, [auth[s] EXCEPT !.state = LOGIN_DONE, !.reqid = 0, !.account = m.what])
          /\ ~m.ok => Update(s, [auth[s] EXCEPT !.reqid = 0])
      BY <1>8, <2>3 DEF LoginReply
    <3>2. OnlyAnswers(s, {m.req})
      BY <3>1, Answers
    <3>3. CASE m.ok
      <4>1. auth'[s] = [auth[s] EXCEPT !.state = LOGIN_DONE, !.reqid = 0, !.account = m.what]
        BY <3>1, <3>3, Effects
      <4>2. After(s, LOGIN_DONE, 0, m.what, auth[s].kinum)
        BY <1>1, <1>2, <4>1 DEF After, AuthServer, Open
      <4> QED
        BY <1>6, <2>1, <2>3, <3>2, <3>3, <4>2 DEF LoginAnswered, After
    <3>4. CASE ~m.ok
      <4>1. auth'[s] = [auth[s] EXCEPT !.reqid = 0]
        BY <3>1, <3>4, Effects
      <4>2. After(s, LOGIN, 0, auth[s].account, auth[s].kinum)
        BY <1>1, <1>2, <2>3, <4>1 DEF After, AuthServer, Open, State
      <4> QED
        BY <1>6, <2>1, <2>3, <3>2, <3>4, <4>2 DEF LoginAnswered, After
    <3> QED
      BY <3>3, <3>4
  <2> QED
    BY <2>2, <2>3
<1>9. ASSUME KiReply(s) PROVE Ended(s) \/ (Goes /\ (Ignores(s) \/ KiAnswered(s, m)))
  <2>1. m.type = "ki"
    BY <1>9 DEF KiReply, Arrived
  <2>2. CASE State(s) # IN_STARTUP \/ auth[s].kinum # m.what
    <3>1. UNCHANGED <<auth, requests, toBack>>
      BY <1>9, <2>2 DEF KiReply
    <3> QED
      BY <1>7, <3>1, Answers DEF Ignores
  <2>3. CASE State(s) = IN_STARTUP /\ auth[s].kinum = m.what /\ m.stranger
    <3>1. Kick(s)
      BY <1>9, <2>3 DEF KiReply
    <3> QED
      BY <1>5, <3>1
  <2>4. CASE State(s) = IN_STARTUP /\ auth[s].kinum = m.what /\ ~m.stranger
    <3>1. /\ (UNCHANGED requests) \/ Answer(s, auth[s].reqid)
          /\ UNCHANGED toBack
          /\ m.ok => Update(s, [auth[s] EXCEPT !.state = VAULT_DOWNLOAD])
          /\ ~m.ok => UNCHANGED auth
      BY <1>9, <2>4 DEF KiReply
    <3>2. OnlyAnswers(s, {auth[s].reqid})
      BY <3>1, Answers
    <3>3. CASE m.ok
      <4>1. auth'[s] = [auth[s] EXCEPT !.state = VAULT_DOWNLOAD]
        BY <3>1, <3>3, Effects
      <4>2. After(s, VAULT_DOWNLOAD, auth[s].reqid, auth[s].account, auth[s].kinum)
        BY <1>1, <1>2, <4>1 DEF After, AuthServer, Open
      <4> QED
        BY <1>6, <2>1, <2>4, <3>1, <3>2, <3>3, <4>2 DEF KiAnswered, After
    <3>4. CASE ~m.ok
      BY <1>7, <2>1, <2>4, <3>1, <3>2, <3>4 DEF KiAnswered, State
    <3> QED
      BY <3>3, <3>4
  <2> QED
    BY <2>2, <2>3, <2>4
<1>10. ASSUME PlayerReply(s) PROVE Goes /\ PlayerAnswered(s, m)
  <2>1. m.type \in {"create", "delete"} /\ UNCHANGED toBack /\ Answer(s, m.req)
    BY <1>10 DEF PlayerReply, Arrived
  <2>2. OnlyAnswers(s, {m.req})
    BY <2>1, Answers
  <2>3. CASE State(s) # IN_STARTUP \/ auth[s].reqid # m.req
    <3>1. Update(s, auth[s])
      BY <1>10, <2>3 DEF PlayerReply
    <3>2. auth'[s] = auth[s]
      BY <3>1, Effects
    <3>3. After(s, State(s), auth[s].reqid, auth[s].account, auth[s].kinum)
      BY <1>1, <3>2 DEF After, Open, State
    <3> QED
      BY <1>6, <2>1, <2>2, <3>3 DEF PlayerAnswered, After
  <2>4. CASE State(s) = IN_STARTUP /\ auth[s].reqid = m.req
    <3>1. Update(s, [auth[s] EXCEPT !.reqid = 0])
      BY <1>10, <2>4 DEF PlayerReply
    <3>2. auth'[s] = [auth[s] EXCEPT !.reqid = 0]
      BY <3>1, Effects
    <3>3. After(s, IN_STARTUP, 0, auth[s].account, auth[s].kinum)
      BY <1>1, <1>2, <2>4, <3>2 DEF After, AuthServer, Open, State
    <3> QED
      BY <1>6, <2>1, <2>2, <2>4, <3>3 DEF PlayerAnswered, After
  <2> QED
    BY <2>3, <2>4
<1>11. ASSUME AgeReply(s) PROVE Goes /\ (Ignores(s) \/ AgeAnswered(s, m))
  <2>1. m.type = "age" /\ UNCHANGED toBack
    BY <1>11 DEF AgeReply, Arrived
  <2>2. CASE State(s) # AGE_REQ \/ auth[s].reqid # m.req
    <3>1. UNCHANGED <<auth, requests>>
      BY <1>11, <2>2 DEF AgeReply
    <3> QED
      BY <1>7, <2>1, <3>1, Answers DEF Ignores
  <2>3. CASE State(s) = AGE_REQ /\ auth[s].reqid = m.req
    <3> DEFINE state == IF m.ok THEN IN_GAME ELSE State(s)
    <3>1. Answer(s, m.req) /\ Update(s, [auth[s] EXCEPT !.reqid = 0, !.state = state])
      BY <1>11, <2>3 DEF AgeReply, State
    <3>2. OnlyAnswers(s, {m.req}) /\ state \in {AGE_REQ, IN_GAME}
      BY <2>3, <3>1, Answers
    <3> HIDE DEF state
    <3>3. auth'[s] = [auth[s] EXCEPT !.reqid = 0, !.state = state]
      BY <3>1, Effects
    <3>4. After(s, state, 0, auth[s].account, auth[s].kinum)
      BY <1>1, <1>2, <3>3 DEF After, AuthServer, Open
    <3> QED
      BY <1>6, <2>1, <2>3, <3>2, <3>4 DEF AgeAnswered, After
  <2> QED
    BY <2>2, <2>3
<1>12. \/ Ended(s)
       \/ Goes /\ (Ignores(s) \/ LoginAnswered(s, m) \/ KiAnswered(s, m)
                   \/ PlayerAnswered(s, m) \/ AgeAnswered(s, m))
  BY <1>5, <1>8, <1>9, <1>10, <1>11 DEF ReplyStep, Killed
<1> QED
  BY <1>1, <1>2, <1>4, <1>12 DEF Goes

-----------------------------------------------------------------------------
(* What any step is to a session.                                          *)

\* it is another's, or an answer to an age request arrives
Quiet(s) ==
  /\ auth'[s] = auth[s] /\ requests'[s] = requests[s] /\ toBack'[s] = toBack[s]
  /\ entity'[s] = entity[s]
  /\ \A m \in ToSet(fromBack'[s]) : m \in ToSet(fromBack[s]) \/ m.type \in {"kill", "age"}
Ends(s) == Open(s) /\ entity'[s] = entity[s] /\ Ended(s)
ByClient(s) ==
  /\ Open(s) /\ entity'[s] = entity[s]
  /\ \/ Moves(s) \/ TakesLogin(s) \/ TakesPlayer(s) \/ TakesLogout(s)
     \/ TakesChange(s) \/ TakesAge(s)
ByReply(s) ==
  /\ Open(s) /\ entity'[s] = entity[s]
  /\ fromBack[s] # <<>> /\ toBack'[s] = toBack[s] /\ fromBack'[s] = Tail(fromBack[s])
  /\ \E m \in FromBackend :
       /\ m = Head(fromBack[s])
       /\ \/ Ignores(s) \/ LoginAnswered(s, m) \/ KiAnswered(s, m)
          \/ PlayerAnswered(s, m) \/ AgeAnswered(s, m)
ByBackend(s) ==
  /\ auth'[s] = auth[s] /\ requests'[s] = requests[s]
  /\ toBack[s] # <<>> /\ toBack'[s] = Tail(toBack[s])
  /\ \E m \in ToBackend :
       /\ m = Head(toBack[s])
       /\ \/ LoginHandled(s, m) \/ KiHandled(s, m) \/ OtherHandled(s, m) \/ CloseHandled(s, m)
OneOf(s) == Quiet(s) \/ Ends(s) \/ ByClient(s) \/ ByReply(s) \/ ByBackend(s)

\* Every step is one of these to every session, and failures are not undone.
LEMMA Steps ==
  ASSUME TypeOK, [Next]_vars, NEW s \in Session
  PROVE  OneOf(s) /\ (failures = 0 \/ failures' # 0)
<1>1. ASSUME NEW t \in Session, Others(t), s # t PROVE Quiet(s)
  BY <1>1 DEF Others, Quiet, KillMsg, Reply
<1>2. ASSUME NEW t \in Session, ClientStep(t), Waiting(t, fromBack[t]), UNCHANGED backVars
      PROVE  OneOf(s) /\ (failures = 0 \/ failures' # 0)
  <2>1. Others(t) /\ failures' = failures /\ entity' = entity
    BY <1>2, ClientOthers DEF backVars
  <2>2. t = s => Ends(s) \/ ByClient(s)
    BY <1>2, <2>1, ClientEffects DEF Ends, ByClient
  <2> QED
    BY <1>1, <2>1, <2>2 DEF OneOf
<1>3. ASSUME NEW t \in Session, ReplyStep(t) PROVE OneOf(s) /\ (failures = 0 \/ failures' # 0)
  <2>1. Others(t) /\ failures' = failures
    BY <1>3, ReplyEffects
  <2>2. t = s => Ends(s) \/ ByReply(s)
    BY <1>3, ReplyEffects DEF Ends, ByReply
  <2> QED
    BY <1>1, <2>1, <2>2 DEF OneOf
<1>4. ASSUME NEW t \in Session, BackendStep(t) PROVE OneOf(s) /\ (failures = 0 \/ failures' # 0)
  <2>1. Others(t) /\ (failures = 0 \/ failures' # 0)
    BY <1>4, BackendEffects
  <2>2. t = s => ByBackend(s)
    BY <1>4, BackendEffects DEF ByBackend
  <2> QED
    BY <1>1, <2>1, <2>2 DEF OneOf
<1>5. ASSUME NEW t \in Session, NEW r \in 1..MaxRequests[t], NEW ok \in BOOLEAN, AgeFound(t, r, ok)
      PROVE  OneOf(s) /\ (failures = 0 \/ failures' # 0)
  <2>1. Others(t) /\ failures' = failures
    BY <1>5, AgeFoundEffects
  <2>2. t = s => Quiet(s)
    BY <1>5, AgeFoundEffects DEF Quiet, Received, Reply
  <2> QED
    BY <1>1, <2>1, <2>2 DEF OneOf
<1>6. CASE UNCHANGED vars
  BY <1>6 DEF vars, OneOf, Quiet
<1> QED
  BY <1>2, <1>3, <1>4, <1>5, <1>6 DEF Next

USE DEF START, NEGOTIATION_DONE, NONCE_DONE, REGISTER, LOGIN, LOGIN_DONE, DOWNLOAD,
        IN_STARTUP, VAULT_DOWNLOAD, AGE_REQ, IN_GAME

-----------------------------------------------------------------------------
(* The request a session remembers.                                        *)

\* m_reqid is 0 or a request the client made: in AGE_REQ the last, otherwise no
\* age request; and what is asked or answered about players is another request.
LastAge(s) ==
  /\ auth[s].reqid <= Len(requests[s])
  /\ auth[s].reqid # 0 =>
       IF State(s) = AGE_REQ THEN auth[s].reqid = Len(requests[s])
       ELSE requests[s][auth[s].reqid].kind # "age"
  /\ \A m \in ToSet(toBack[s]) \cup ToSet(fromBack[s]) :
       m.type \in {"create", "delete"} =>
         m.req \in 1..Len(requests[s]) /\ requests[s][m.req].kind # "age"
LastAges == \A s \in Session : LastAge(s)

\* Nothing has been requested.
LEMMA LastAgesInit == Init => LastAges
<1> SUFFICES ASSUME Init, NEW s \in Session PROVE LastAge(s)
  BY DEF LastAges
<1>1. auth[s].reqid = 0 /\ requests[s] = <<>> /\ toBack[s] = <<>> /\ fromBack[s] = <<>>
  BY DEF Init, Fresh
<1> QED
  BY <1>1 DEF LastAge, ToSet

\* A request is taken: its number is one that was not given yet.
LEMMA TakenRequest ==
  ASSUME TypeOK, NEW s \in Session, NEW kind, NEW state, NEW reqid, NEW kinum, NEW q,
         Takes(s, kind, state, reqid, kinum, q)
  PROVE  /\ Len(requests'[s]) = Len(requests[s]) + 1 /\ Len(requests[s]) \in Nat
         /\ NewReq(s) = Len(requests[s]) + 1
         /\ \A r \in 1..Len(requests[s]) : requests'[s][r] = requests[s][r]
         /\ requests'[s][NewReq(s)].kind = kind
<1>1. requests[s] \in Seq(Request)
  BY DEF TypeOK
<1>2. PICK n \in Nat : requests'[s] = Append(requests[s], [kind |-> kind, answers |-> n])
  BY DEF Takes
<1> QED
  BY <1>1, <1>2 DEF NewReq

\* No step of a session makes an age request that is not its last the one m_reqid
\* names: the age reply is taken in AGE_REQ alone, and compared with m_reqid.
LEMMA LastAgeNext ==
  ASSUME TypeOK, NEW s \in Session, LastAge(s), OneOf(s)
  PROVE  LastAge(s)'
<1>1. /\ auth[s] \in AuthServer /\ requests[s] \in Seq(Request) /\ toBack[s] \in Seq(ToBackend)
      /\ fromBack[s] \in Seq(FromBackend) /\ Len(requests[s]) \in Nat /\ State(s) \in Nat
      /\ auth[s].reqid \in Nat
  BY DEF TypeOK, AuthServer, State
<1> DEFINE About(m) == m.type \in {"create", "delete"} =>
                         m.req \in 1..Len(requests[s]) /\ requests[s][m.req].kind # "age"
           Req == /\ auth[s].reqid <= Len(requests[s])
                  /\ auth[s].reqid # 0 =>
                       IF State(s) = AGE_REQ THEN auth[s].reqid = Len(requests[s])
                       ELSE requests[s][auth[s].reqid].kind # "age"
<1>2. Req /\ \A m \in ToSet(toBack[s]) \cup ToSet(fromBack[s]) : About(m)
  BY DEF LastAge
<1>3. ASSUME Req', \A m \in ToSet(toBack'[s]) \cup ToSet(fromBack'[s]) : About(m)'
      PROVE  LastAge(s)'
  BY <1>3 DEF LastAge
<1>4. CASE Quiet(s)
  <2>1. Req'
    BY <1>2, <1>4 DEF Quiet, State
  <2>2. \A m \in ToSet(toBack'[s]) \cup ToSet(fromBack'[s]) : About(m)'
    BY <1>2, <1>4 DEF Quiet
  <2> QED
    BY <1>3, <2>1, <2>2
<1>5. CASE Ends(s)
  <2>1. Req'
    BY <1>1, <1>5 DEF Ends, Ended, Fresh, State
  <2>2. PICK n \in 0..Len(toBack[s]) :
          toBack'[s] = Append(SubSeq(toBack[s], 1, n), Message("close", 0, NoKi, NoKi))
    BY <1>5 DEF Ends, Ended
  <2>3. Message("close", 0, NoKi, NoKi) \in ToBackend
    BY DEF Message, ToBackend
  <2>4. ToSet(toBack'[s]) \subseteq ToSet(toBack[s]) \cup {Message("close", 0, NoKi, NoKi)}
    BY <1>1, <2>2, <2>3, CutQueue
  <2>5. ToSet(fromBack'[s]) = {}
    BY <1>5 DEF Ends, Ended, ToSet
  <2>6. \A m \in ToSet(toBack'[s]) \cup ToSet(fromBack'[s]) : About(m)'
    BY <1>2, <1>5, <2>4, <2>5 DEF Ends, Ended, Message
  <2> QED
    BY <1>3, <2>1, <2>6
<1>6. CASE ByReply(s)
  <2>1. PICK m \in FromBackend :
          /\ m = Head(fromBack[s])
          /\ \/ Ignores(s) \/ LoginAnswered(s, m) \/ KiAnswered(s, m)
             \/ PlayerAnswered(s, m) \/ AgeAnswered(s, m)
    BY <1>6 DEF ByReply
  <2>2. \E R : OnlyAnswers(s, R)
    BY <2>1 DEF Ignores, LoginAnswered, KiAnswered, PlayerAnswered, AgeAnswered
  <2>3. /\ Len(requests'[s]) = Len(requests[s])
        /\ \A r \in 1..Len(requests[s]) : requests'[s][r].kind = requests[s][r].kind
    BY <2>2 DEF OnlyAnswers
  <2>4. \/ auth'[s].reqid = 0
        \/ auth'[s].reqid = auth[s].reqid /\ auth'[s].state = State(s)
        \/ auth'[s].reqid = auth[s].reqid /\ State(s) = IN_STARTUP /\ auth'[s].state \in {IN_STARTUP, VAULT_DOWNLOAD}
    BY <2>1 DEF Ignores, LoginAnswered, KiAnswered, PlayerAnswered, AgeAnswered, After
  <2>5. Req'
    BY <1>1, <1>2, <2>3, <2>4, SMTT(30) DEF State
  <2>6. ToSet(fromBack'[s]) \subseteq ToSet(fromBack[s]) /\ toBack'[s] = toBack[s]
    BY <1>1, <1>6, Queues DEF ByReply
  <2>7. \A x \in ToSet(toBack'[s]) \cup ToSet(fromBack'[s]) : About(x)'
    BY <1>2, <2>3, <2>6
  <2> QED
    BY <1>3, <2>5, <2>7
<1>7. CASE ByBackend(s)
  <2>1. PICK m \in ToBackend :
          /\ m = Head(toBack[s])
          /\ \/ LoginHandled(s, m) \/ KiHandled(s, m) \/ OtherHandled(s, m) \/ CloseHandled(s, m)
    BY <1>7 DEF ByBackend
  <2>2. m \in ToSet(toBack[s]) /\ ToSet(toBack'[s]) \subseteq ToSet(toBack[s])
    BY <1>1, <1>7, <2>1, Queues DEF ByBackend
  <2>3. \A x \in ToSet(fromBack'[s]) :
          \/ x \in ToSet(fromBack[s]) \/ x.type \in {"kill", "login", "ki"}
          \/ x.req = m.req /\ m.type \in {"create", "delete"}
    BY <2>1 DEF LoginHandled, KiHandled, OtherHandled, CloseHandled, Received, KillMsg, Reply, Stranger
  <2>4. Req'
    BY <1>2, <1>7 DEF ByBackend, State
  <2>5. \A x \in ToSet(toBack'[s]) \cup ToSet(fromBack'[s]) : About(x)'
    BY <1>2, <1>7, <2>2, <2>3 DEF ByBackend
  <2> QED
    BY <1>3, <2>4, <2>5
<1>8. CASE ByClient(s)
  <2>1. CASE Moves(s)
    <3>1. Req'
      BY <1>1, <1>2, <2>1 DEF Moves, After, State
    <3>2. \A x \in ToSet(toBack'[s]) \cup ToSet(fromBack'[s]) : About(x)'
      BY <1>2, <2>1 DEF Moves
    <3> QED
      BY <1>3, <3>1, <3>2
  <2>2. ASSUME NEW kind, NEW state \in Nat, NEW reqid, NEW kinum, NEW q,
               Takes(s, kind, state, reqid, kinum, q),
               reqid = 0 \/ (reqid = NewReq(s) /\ (state = AGE_REQ <=> kind = "age"))
                 \/ (reqid = auth[s].reqid /\ state = State(s) /\ state # AGE_REQ),
               \A x \in ToSet(q) : \/ x \in ToSet(toBack[s]) \/ x.type \notin {"create", "delete"}
                                   \/ x.req = NewReq(s) /\ kind # "age"
        PROVE  LastAge(s)'
    <3>1. /\ Len(requests'[s]) = Len(requests[s]) + 1
          /\ NewReq(s) = Len(requests[s]) + 1
          /\ \A r \in 1..Len(requests[s]) : requests'[s][r] = requests[s][r]
          /\ requests'[s][NewReq(s)].kind = kind
      BY <2>2, TakenRequest
    <3>2. auth'[s].reqid = reqid /\ auth'[s].state = state /\ toBack'[s] = q /\ fromBack'[s] = fromBack[s]
      BY <2>2 DEF Takes, After
    <3>3. Req'
      <4>1. CASE reqid = 0
        BY <1>1, <3>1, <3>2, <4>1
      <4>2. CASE reqid = NewReq(s) /\ (state = AGE_REQ <=> kind = "age")
        <5>1. auth'[s].reqid = Len(requests'[s]) /\ requests'[s][auth'[s].reqid].kind = kind
          BY <3>1, <3>2, <4>2
        <5> QED
          BY <1>1, <3>1, <3>2, <4>2, <5>1 DEF State
      <4>3. CASE reqid = auth[s].reqid /\ reqid # 0 /\ state = State(s) /\ state # AGE_REQ
        <5>1. reqid \in 1..Len(requests[s]) /\ requests[s][reqid].kind # "age"
          BY <1>1, <1>2, <4>3
        <5>2. auth'[s].reqid <= Len(requests'[s]) /\ requests'[s][auth'[s].reqid].kind # "age"
          BY <1>1, <3>1, <3>2, <5>1
        <5> QED
          BY <3>2, <4>3, <5>2 DEF State
      <4> QED
        BY <2>2, <4>1, <4>2, <4>3
    <3>4. ASSUME NEW x \in ToSet(toBack'[s]) \cup ToSet(fromBack'[s]) PROVE About(x)'
      <4>1. CASE x \in ToSet(toBack[s]) \cup ToSet(fromBack[s])
        <5>1. About(x)
          BY <1>2, <4>1
        <5> QED
          BY <1>1, <3>1, <5>1
      <4>2. CASE x.req = NewReq(s) /\ kind # "age"
        BY <1>1, <3>1, <4>2
      <4>3. CASE x.type \notin {"create", "delete"}
        BY <4>3
      <4> QED
        BY <2>2, <3>2, <4>1, <4>2, <4>3
    <3> QED
      BY <1>3, <3>3, <3>4
  <2>3. ASSUME NEW m \in ToBackend PROVE ToSet(Append(toBack[s], m)) = ToSet(toBack[s]) \cup {m}
    BY <1>1, Queues
  <2>4. CASE TakesLogin(s)
    <3>1. PICK a \in Account : Takes(s, "login", LOGIN, NewReq(s), auth[s].kinum,
                                     Append(toBack[s], Message("login", NewReq(s), a, NoKi)))
      BY <2>4 DEF TakesLogin
    <3>2. Message("login", NewReq(s), a, NoKi) \in ToBackend
      BY <1>1 DEF Message, ToBackend, NewReq
    <3>3. \A x \in ToSet(Append(toBack[s], Message("login", NewReq(s), a, NoKi))) :
            x \in ToSet(toBack[s]) \/ x.type \notin {"create", "delete"}
      BY <2>3, <3>2 DEF Message
    <3> QED
      BY <2>2, <3>1, <3>3
  <2>5. CASE TakesPlayer(s)
    <3>1. PICK k \in Ki : Takes(s, "player", IN_STARTUP, NewReq(s), k,
                                Append(toBack[s], Message("ki", 0, k, auth[s].account)))
      BY <2>5 DEF TakesPlayer
    <3>2. Message("ki", 0, k, auth[s].account) \in ToBackend
      BY <1>1, NobodyAssumption DEF Message, ToBackend, AuthServer
    <3>3. \A x \in ToSet(Append(toBack[s], Message("ki", 0, k, auth[s].account))) :
            x \in ToSet(toBack[s]) \/ x.type \notin {"create", "delete"}
      BY <2>3, <3>2 DEF Message
    <3> QED
      BY <2>2, <3>1, <3>3
  <2>6. CASE TakesLogout(s)
    <3>1. Message("logout", 0, auth[s].kinum, NoKi) \in ToBackend
      BY <1>1 DEF Message, ToBackend, AuthServer
    <3>2. \A x \in ToSet(Append(toBack[s], Message("logout", 0, auth[s].kinum, NoKi))) :
            x \in ToSet(toBack[s]) \/ x.type \notin {"create", "delete"}
      BY <2>3, <3>1 DEF Message
    <3> QED
      BY <2>2, <2>6, <3>2 DEF TakesLogout
  <2>7. CASE TakesChange(s)
    <3>1. PICK kind \in {"create", "delete"} :
            \/ Takes(s, kind, State(s), 0, auth[s].kinum, toBack[s])
            \/ Takes(s, kind, State(s), auth[s].reqid, auth[s].kinum, toBack[s]) /\ State(s) # AGE_REQ
            \/ /\ State(s) = IN_STARTUP
               /\ Takes(s, kind, IN_STARTUP, NewReq(s), auth[s].kinum,
                        Append(toBack[s], Message(kind, NewReq(s), NoKi, NoKi)))
      BY <2>7 DEF TakesChange
    <3>2. Message(kind, NewReq(s), NoKi, NoKi) \in ToBackend
      BY <1>1 DEF Message, ToBackend, NewReq
    <3>3. \A x \in ToSet(Append(toBack[s], Message(kind, NewReq(s), NoKi, NoKi))) :
            x \in ToSet(toBack[s]) \/ x.req = NewReq(s)
      BY <2>3, <3>2 DEF Message
    <3> QED
      BY <1>1, <2>2, <3>1, <3>3
  <2>8. CASE TakesAge(s)
    <3>1. Message("age", NewReq(s), NoKi, auth[s].kinum) \in ToBackend
      BY <1>1 DEF Message, ToBackend, NewReq, AuthServer
    <3>2. \A x \in ToSet(Append(toBack[s], Message("age", NewReq(s), NoKi, auth[s].kinum))) :
            x \in ToSet(toBack[s]) \/ x.type \notin {"create", "delete"}
      BY <2>3, <3>1 DEF Message
    <3> QED
      BY <2>2, <2>8, <3>2 DEF TakesAge
  <2> QED
    BY <1>8, <2>1, <2>4, <2>5, <2>6, <2>7, <2>8 DEF ByClient
<1> QED
  BY <1>4, <1>5, <1>6, <1>7, <1>8 DEF OneOf

\* Whatever is answered is the request m_reqid names, or about players.
LEMMA AnswersNext ==
  ASSUME TypeOK, NEW s \in Session, LastAge(s), OneOf(s)
  PROVE  AnswersTheLast(s)
<1> SUFFICES ASSUME NEW r \in DOMAIN requests[s], requests[s][r].kind = "age",
                    requests'[s][r].answers > requests[s][r].answers
             PROVE  \A l \in DOMAIN requests[s] : l > r => requests[s][l].kind # "age"
  BY DEF AnswersTheLast
<1>1. /\ requests[s] \in Seq(Request) /\ DOMAIN requests[s] = 1..Len(requests[s])
      /\ requests[s][r].answers \in Nat /\ fromBack[s] \in Seq(FromBackend)
      /\ auth[s].reqid \in Nat
  <2>1. /\ requests[s] \in Seq(Request) /\ fromBack[s] \in Seq(FromBackend)
        /\ auth[s] \in AuthServer
    BY DEF TypeOK
  <2>2. requests[s][r] \in Request
    BY <2>1
  <2> QED
    BY <2>1, <2>2 DEF Request, AuthServer
<1>2. requests'[s][r] # requests[s][r]
  BY <1>1
<1>3. ~Quiet(s) /\ ~Ends(s) /\ ~ByBackend(s)
  BY <1>2 DEF Quiet, Ends, Ended, ByBackend
<1>4. ~ByClient(s)
  <2>1. ASSUME NEW kind, NEW n, requests'[s] = Append(requests[s], [kind |-> kind, answers |-> n])
        PROVE  FALSE
    BY <1>1, <1>2, <2>1
  <2>2. ASSUME NEW kind, NEW state, NEW reqid, NEW kinum, NEW q, Takes(s, kind, state, reqid, kinum, q)
        PROVE  FALSE
    BY <2>1, <2>2 DEF Takes
  <2>3. ~TakesLogin(s) /\ ~TakesPlayer(s) /\ ~TakesLogout(s) /\ ~TakesChange(s) /\ ~TakesAge(s)
    BY <2>2 DEF TakesLogin, TakesPlayer, TakesLogout, TakesChange, TakesAge
  <2> QED
    BY <1>2, <2>3 DEF ByClient, Moves
<1>5. PICK m \in FromBackend :
        /\ m = Head(fromBack[s])
        /\ \/ Ignores(s) \/ LoginAnswered(s, m) \/ KiAnswered(s, m)
           \/ PlayerAnswered(s, m) \/ AgeAnswered(s, m)
  BY <1>3, <1>4 DEF OneOf, ByReply
<1>6. m \in ToSet(fromBack[s])
  BY <1>1, <1>3, <1>4, <1>5, Queues DEF OneOf, ByReply
<1>7. ASSUME NEW R, OnlyAnswers(s, R) PROVE r \in R
  BY <1>1, <1>2, <1>7 DEF OnlyAnswers
<1>8. CASE AgeAnswered(s, m)
  <2>1. r = auth[s].reqid /\ State(s) = AGE_REQ
    BY <1>7, <1>8 DEF AgeAnswered
  <2>2. r = Len(requests[s])
    BY <1>1, <2>1 DEF LastAge
  <2> QED
    BY <1>1, <2>2
<1>9. CASE PlayerAnswered(s, m)
  <2>1. r = m.req /\ m.type \in {"create", "delete"}
    BY <1>7, <1>9 DEF PlayerAnswered
  <2> QED
    BY <1>6, <2>1 DEF LastAge
<1>10. CASE Ignores(s) \/ LoginAnswered(s, m) \/ KiAnswered(s, m)
  <2>1. r = auth[s].reqid /\ State(s) # AGE_REQ
    BY <1>7, <1>10 DEF Ignores, LoginAnswered, KiAnswered
  <2> QED
    BY <1>1, <2>1 DEF LastAge
<1> QED
  BY <1>5, <1>8, <1>9, <1>10

\* The client is sent to an age, or told that it cannot, only for the last age
\* request it made: an answer to TRACK_FIND_GAME that m_reqid does not name is dropped.
THEOREM AgesAreTheLast == Spec => OnlyTheLastAge
<1>1. Init => TypeOK /\ LastAges
  BY TypeOKInit, LastAgesInit
<1>2. TypeOK /\ LastAges /\ [Next]_vars => TypeOK' /\ LastAges'
  BY TypeOKNext, Steps, LastAgeNext DEF LastAges
<1>3. TypeOK /\ LastAges /\ [Next]_vars => [\A s \in Session : AnswersTheLast(s)]_vars
  BY Steps, AnswersNext DEF LastAges
<1> QED
  BY <1>1, <1>2, <1>3, PTL DEF Spec, OnlyTheLastAge

-----------------------------------------------------------------------------
(* Logins.                                                                 *)

Logins(q) == {m \in ToSet(q) : m.type = "login"}
Closes(q) == \E m \in ToSet(q) : m.type = "close"

\* Logins are in the order they were made, and a close is the last message.
InOrder(q) ==
  \A i, j \in 1..Len(q) :
    i < j => /\ q[i].type # "close"
             /\ q[i].type = "login" /\ q[j].type = "login" => q[i].req < q[j].req

\* The first part is about the queue, the second about the server, and the third
\* says what the two sides know of the account: an answer that is still wanted
\* is to the login that was handled last, and is the last there will be.
LoginQueue(s) ==
  /\ InOrder(toBack[s])
  /\ \A m \in Logins(toBack[s]) \cup Logins(fromBack[s]) : m.req \in 1..Len(requests[s])
  /\ Open(s) => ~Closes(toBack[s])
LoginServer(s) ==
  /\ State(s) >= REGISTER => Open(s)
  /\ State(s) < LOGIN_DONE => auth[s].account = NoAccount
  /\ State(s) < IN_STARTUP => auth[s].kinum = NoKi
LoginAccount(s) ==
  /\ State(s) = LOGIN /\ auth[s].reqid # 0 => \A m \in Logins(toBack[s]) : m.req <= auth[s].reqid
  /\ State(s) = LOGIN =>
       \A m \in Logins(fromBack[s]) : m.req = auth[s].reqid =>
         Logins(toBack[s]) = {} /\ (m.ok => entity[s].account = m.what)
  /\ State(s) >= LOGIN_DONE => Logins(toBack[s]) = {} /\ entity[s].account = auth[s].account
LoginAgrees(s) == LoginQueue(s) /\ LoginServer(s) /\ LoginAccount(s)
LoginsAgree == \A s \in Session : LoginAgrees(s)

\* Nobody is logged in.
LEMMA LoginsAgreeInit == Init => LoginsAgree
<1> SUFFICES ASSUME Init, NEW s \in Session PROVE LoginAgrees(s)
  BY DEF LoginsAgree
<1>1. /\ State(s) = 0 /\ Open(s) /\ auth[s].account = NoAccount /\ auth[s].kinum = NoKi
      /\ toBack[s] = <<>> /\ fromBack[s] = <<>>
  BY DEF Init, Fresh, State, Open
<1> QED
  BY <1>1 DEF LoginAgrees, LoginQueue, LoginServer, LoginAccount, InOrder, Logins, Closes, ToSet

\* The order of a queue when a message is taken, sent, or when it is closed.
LEMMA TakenInOrder ==
  ASSUME NEW q \in Seq(ToBackend), q # <<>>, InOrder(q)
  PROVE  /\ InOrder(Tail(q)) /\ Logins(Tail(q)) \subseteq Logins(q)
         /\ Head(q).type = "login" => /\ Head(q) \in Logins(q)
                                      /\ \A m \in Logins(Tail(q)) : Head(q).req < m.req
<1>1. /\ Head(q) = q[1] /\ 1 \in 1..Len(q) /\ Len(Tail(q)) = Len(q) - 1 /\ Len(q) \in Nat
      /\ \A i \in 1..Len(Tail(q)) : Tail(q)[i] = q[i + 1] /\ i + 1 \in 1..Len(q)
  OBVIOUS
<1>2. InOrder(Tail(q))
  BY <1>1 DEF InOrder
<1>3. Head(q) \in ToSet(q) /\ ToSet(Tail(q)) \subseteq ToSet(q)
  BY Queues
<1>4. ASSUME Head(q).type = "login", NEW m \in Logins(Tail(q)) PROVE Head(q).req < m.req
  <2>1. PICK i \in 1..Len(Tail(q)) : m = Tail(q)[i]
    BY <1>4 DEF Logins, ToSet
  <2>2. m = q[i + 1] /\ i + 1 \in 1..Len(q) /\ 1 < i + 1 /\ m.type = "login"
    BY <1>1, <1>4, <2>1 DEF Logins
  <2> QED
    BY <1>1, <1>4, <2>2 DEF InOrder
<1> QED
  BY <1>2, <1>3, <1>4 DEF Logins

\* A login that is sent is the latest.
LEMMA SentInOrder ==
  ASSUME NEW q \in Seq(ToBackend), NEW m \in ToBackend, InOrder(q), ~Closes(q),
         m.type = "login" => \A l \in Logins(q) : l.req < m.req
  PROVE  InOrder(Append(q, m))
<1> DEFINE r == Append(q, m)
<1>1. /\ Len(r) = Len(q) + 1 /\ Len(q) \in Nat /\ r[Len(q) + 1] = m
      /\ \A i \in 1..Len(q) : r[i] = q[i] /\ q[i] \in ToSet(q)
  BY DEF ToSet
<1> HIDE DEF r
<1> SUFFICES ASSUME NEW i \in 1..Len(r), NEW j \in 1..Len(r), i < j
             PROVE  /\ r[i].type # "close"
                    /\ r[i].type = "login" /\ r[j].type = "login" => r[i].req < r[j].req
  BY DEF InOrder, r
<1>2. i \in 1..Len(q) /\ r[i] = q[i] /\ q[i] \in ToSet(q)
  BY <1>1
<1>3. CASE j \in 1..Len(q)
  BY <1>1, <1>2, <1>3 DEF InOrder
<1>4. CASE j = Len(q) + 1
  BY <1>1, <1>2, <1>4 DEF Closes, Logins
<1> QED
  BY <1>1, <1>3, <1>4

\* A server that ends leaves its messages in order, with the close behind them.
LEMMA CutInOrder ==
  ASSUME NEW q \in Seq(ToBackend), NEW n \in 0..Len(q), NEW m \in ToBackend, InOrder(q),
         ~Closes(q), m.type = "close"
  PROVE  /\ InOrder(Append(SubSeq(q, 1, n), m))
         /\ Logins(Append(SubSeq(q, 1, n), m)) \subseteq Logins(q)
<1> DEFINE kept == SubSeq(q, 1, n)
<1>1. kept \in Seq(ToBackend) /\ ToSet(kept) \subseteq ToSet(q)
  BY Queues
<1>2. InOrder(kept)
  <2>1. Len(kept) = n /\ \A i \in 1..n : kept[i] = q[i] /\ i \in 1..Len(q)
    OBVIOUS
  <2> HIDE DEF kept
  <2> QED
    BY <2>1 DEF InOrder
<1>3. ~Closes(kept)
  BY <1>1 DEF Closes
<1> HIDE DEF kept
<1>4. InOrder(Append(kept, m)) /\ ToSet(Append(kept, m)) = ToSet(kept) \cup {m}
  BY <1>1, <1>2, <1>3, SentInOrder, Queues
<1>5. Logins(Append(kept, m)) \subseteq Logins(q)
  BY <1>1, <1>4 DEF Logins
<1> QED
  BY <1>4, <1>5 DEF kept

\* A server that goes on, logged in or not as it was before.
LoginSame(s) ==
  LET a == auth'[s]
  IN /\ a.open /\ a.account = auth[s].account /\ a.state \in Nat
     /\ State(s) < LOGIN_DONE <=> a.state < LOGIN_DONE
     /\ a.state = LOGIN => State(s) = LOGIN /\ a.reqid \in {0, auth[s].reqid}
     /\ a.state < IN_STARTUP => a.kinum = NoKi

\* Such a step breaks nothing that is known of the logins.
LEMMA LoginKept ==
  ASSUME TypeOK, NEW s \in Session, LoginAgrees(s), Open(s),
         LoginSame(s),
         Len(requests'[s]) >= Len(requests[s]), Len(requests'[s]) \in Nat,
         InOrder(toBack'[s]), ~Closes(toBack'[s]),
         Logins(toBack'[s]) \subseteq Logins(toBack[s]),
         Logins(fromBack'[s]) \subseteq Logins(fromBack[s]),
         entity'[s] = entity[s]
  PROVE  LoginAgrees(s)'
<1> DEFINE state == auth'[s].state
           reqid == auth'[s].reqid
<1>1. Len(requests[s]) \in Nat /\ State(s) \in Nat
  BY DEF TypeOK, AuthServer, State
<1>2. LoginQueue(s)'
  <2>1. \A m \in Logins(toBack'[s]) \cup Logins(fromBack'[s]) : m.req \in 1..Len(requests'[s])
    BY <1>1 DEF LoginAgrees, LoginQueue
  <2> QED
    BY <2>1 DEF LoginQueue, Logins, Closes
<1>3. LoginServer(s)'
  BY <1>1 DEF LoginAgrees, LoginServer, LoginSame, State, Open
<1>4. LoginAccount(s)'
  <2>1. /\ auth'[s].account = auth[s].account
        /\ State(s) < LOGIN_DONE <=> state < LOGIN_DONE
        /\ state = LOGIN => State(s) = LOGIN /\ reqid \in {0, auth[s].reqid}
        /\ state \in Nat
    BY DEF LoginSame
  <2> HIDE DEF state, reqid
  <2>2. ASSUME state = LOGIN, NEW m \in Logins(toBack'[s]), reqid # 0 PROVE m.req <= reqid
    BY <2>1, <2>2 DEF LoginAgrees, LoginAccount
  <2>3. ASSUME state = LOGIN, NEW m \in Logins(fromBack'[s]), m.req = reqid
        PROVE  Logins(toBack'[s]) = {} /\ (m.ok => entity'[s].account = m.what)
    <3>1. m.req # 0
      BY <1>1, <2>3 DEF LoginAgrees, LoginQueue
    <3> QED
      BY <2>1, <2>3, <3>1 DEF LoginAgrees, LoginAccount
  <2>4. ASSUME state >= LOGIN_DONE
        PROVE  Logins(toBack'[s]) = {} /\ entity'[s].account = auth'[s].account
    BY <1>1, <2>1, <2>4 DEF LoginAgrees, LoginAccount
  <2> QED
    BY <2>1, <2>2, <2>3, <2>4 DEF LoginAccount, State, Logins, state, reqid
<1> QED
  BY <1>2, <1>3, <1>4 DEF LoginAgrees

\* What is sent, if it is not a login, and what the server and the queue then are.
LEMMA SentNoLogin ==
  ASSUME TypeOK, NEW s \in Session, LoginAgrees(s), Open(s), NEW m \in ToBackend,
         m.type \notin {"login", "close"}
  PROVE  LET q == Append(toBack[s], m)
         IN InOrder(q) /\ ~Closes(q) /\ Logins(q) = Logins(toBack[s])
<1>1. toBack[s] \in Seq(ToBackend)
  BY DEF TypeOK
<1>2. InOrder(toBack[s]) /\ ~Closes(toBack[s])
  BY DEF LoginAgrees, LoginQueue
<1>3. InOrder(Append(toBack[s], m))
  BY <1>1, <1>2, SentInOrder
<1>4. ToSet(Append(toBack[s], m)) = ToSet(toBack[s]) \cup {m}
  BY <1>1, Queues
<1> QED
  BY <1>2, <1>3, <1>4 DEF Closes, Logins

\* Nor does a message of the client: a login it repeats makes the earlier ones stale.
LEMMA LoginAgreesClient ==
  ASSUME TypeOK, NEW s \in Session, LoginAgrees(s), ByClient(s)
  PROVE  LoginAgrees(s)'
<1>1. /\ auth[s] \in AuthServer /\ toBack[s] \in Seq(ToBackend) /\ State(s) \in Nat
      /\ Len(requests[s]) \in Nat /\ Open(s) /\ entity'[s] = entity[s]
  BY DEF TypeOK, AuthServer, State, ByClient
<1>2. /\ InOrder(toBack[s]) /\ ~Closes(toBack[s])
      /\ State(s) < LOGIN_DONE => auth[s].account = NoAccount
      /\ State(s) < IN_STARTUP => auth[s].kinum = NoKi
  BY <1>1 DEF LoginAgrees, LoginQueue, LoginServer
<1>3. CASE Moves(s)
  <2>1. PICK state \in Nat :
          /\ After(s, state, auth[s].reqid, auth[s].account, auth[s].kinum)
          /\ \/ state = State(s)
             \/ State(s) < REGISTER /\ state <= REGISTER
             \/ auth[s].account # NoAccount /\ State(s) <= DOWNLOAD /\ state = DOWNLOAD
    BY <1>3 DEF Moves
  <2>2. /\ State(s) < LOGIN_DONE <=> state < LOGIN_DONE
        /\ state = LOGIN => State(s) = LOGIN
        /\ state < IN_STARTUP => auth[s].kinum = NoKi
    BY <1>1, <1>2, <2>1
  <2>3. requests'[s] = requests[s] /\ toBack'[s] = toBack[s] /\ fromBack'[s] = fromBack[s]
    BY <1>3 DEF Moves
  <2>4. LoginSame(s)
    BY <2>1, <2>2 DEF LoginSame, After
  <2> QED
    BY <1>1, <1>2, <2>3, <2>4, LoginKept
<1>4. ASSUME NEW kind, NEW state \in Nat, NEW reqid, NEW kinum, NEW q,
             Takes(s, kind, state, reqid, kinum, q),
             State(s) < LOGIN_DONE <=> state < LOGIN_DONE,
             state = LOGIN => State(s) = LOGIN /\ reqid \in {0, auth[s].reqid},
             state < IN_STARTUP => kinum = NoKi,
             InOrder(q), ~Closes(q), Logins(q) = Logins(toBack[s])
      PROVE  LoginAgrees(s)'
  <2>1. Len(requests'[s]) = Len(requests[s]) + 1
    BY <1>4, TakenRequest
  <2>2. /\ After(s, state, reqid, auth[s].account, kinum) /\ toBack'[s] = q
        /\ fromBack'[s] = fromBack[s]
    BY <1>4 DEF Takes
  <2>3. LoginSame(s)
    BY <1>4, <2>2 DEF LoginSame, After
  <2> QED
    BY <1>1, <1>4, <2>1, <2>2, <2>3, LoginKept
<1>5. CASE TakesLogin(s)
  <2>1. PICK a \in Account : Takes(s, "login", LOGIN, NewReq(s), auth[s].kinum,
                                   Append(toBack[s], Message("login", NewReq(s), a, NoKi)))
    BY <1>5 DEF TakesLogin
  <2> DEFINE m == Message("login", NewReq(s), a, NoKi)
             n == Len(requests[s])
  <2>2. m \in ToBackend /\ m.type = "login" /\ m.req = n + 1
    BY <1>1 DEF Message, ToBackend, NewReq
  <2> HIDE DEF m
  <2>3. /\ Len(requests'[s]) = n + 1 /\ toBack'[s] = Append(toBack[s], m)
        /\ fromBack'[s] = fromBack[s] /\ State(s) \in {REGISTER, LOGIN} /\ NewReq(s) = n + 1
        /\ After(s, LOGIN, NewReq(s), auth[s].account, auth[s].kinum)
    BY <1>5, <2>1, TakenRequest DEF Takes, TakesLogin, m
  <2>4. Logins(toBack'[s]) = Logins(toBack[s]) \cup {m} /\ ~Closes(toBack'[s])
    <3>1. ToSet(toBack'[s]) = ToSet(toBack[s]) \cup {m}
      BY <1>1, <2>2, <2>3, Queues
    <3> QED
      BY <1>2, <2>2, <3>1 DEF Logins, Closes
  <2>5. \A l \in Logins(toBack[s]) \cup Logins(fromBack[s]) : l.req \in 1..n
    BY DEF LoginAgrees, LoginQueue
  <2>6. LoginQueue(s)'
    <3>1. InOrder(toBack'[s])
      BY <1>1, <1>2, <2>2, <2>3, <2>5, SentInOrder
    <3>2. \A l \in Logins(toBack'[s]) \cup Logins(fromBack'[s]) : l.req \in 1..Len(requests'[s])
      BY <1>1, <2>2, <2>3, <2>4, <2>5
    <3> QED
      BY <2>4, <3>1, <3>2 DEF LoginQueue, Logins, Closes
  <2>7. LoginServer(s)'
    BY <1>1, <1>2, <2>3 DEF LoginServer, After, State, Open
  <2>8. LoginAccount(s)'
    <3>1. auth'[s].state = LOGIN /\ auth'[s].reqid = n + 1
      BY <2>3 DEF After
    <3>2. \A l \in Logins(toBack'[s]) : l.req <= n + 1
      BY <1>1, <2>2, <2>4, <2>5
    <3>3. \A l \in Logins(fromBack'[s]) : l.req # n + 1
      BY <1>1, <2>3, <2>5
    <3> QED
      BY <3>1, <3>2, <3>3 DEF LoginAccount, State, Logins
  <2> QED
    BY <2>6, <2>7, <2>8 DEF LoginAgrees
<1>6. CASE TakesPlayer(s)
  <2>1. PICK k \in Ki : Takes(s, "player", IN_STARTUP, NewReq(s), k,
                              Append(toBack[s], Message("ki", 0, k, auth[s].account)))
    BY <1>6 DEF TakesPlayer
  <2> DEFINE m == Message("ki", 0, k, auth[s].account)
  <2>2. m \in ToBackend /\ m.type = "ki"
    BY <1>1, NobodyAssumption DEF Message, ToBackend, AuthServer
  <2> HIDE DEF m
  <2>3. State(s) >= LOGIN_DONE
    BY <1>6 DEF TakesPlayer
  <2> QED
    BY <1>1, <1>4, <2>1, <2>2, <2>3, SentNoLogin DEF m
<1>7. CASE TakesLogout(s)
  <2> DEFINE m == Message("logout", 0, auth[s].kinum, NoKi)
  <2>1. m \in ToBackend /\ m.type = "logout"
    BY <1>1 DEF Message, ToBackend, AuthServer
  <2>2. \/ Takes(s, "player", IN_STARTUP, 0, NoKi, toBack[s])
        \/ Takes(s, "player", IN_STARTUP, 0, NoKi, Append(toBack[s], m))
    BY <1>7 DEF TakesLogout
  <2> HIDE DEF m
  <2>3. State(s) >= LOGIN_DONE
    BY <1>7 DEF TakesLogout
  <2> QED
    BY <1>1, <1>2, <1>4, <2>1, <2>2, <2>3, SentNoLogin
<1>8. CASE TakesChange(s)
  <2>1. PICK kind \in {"create", "delete"} :
          \/ Takes(s, kind, State(s), 0, auth[s].kinum, toBack[s])
          \/ Takes(s, kind, State(s), auth[s].reqid, auth[s].kinum, toBack[s]) /\ State(s) # AGE_REQ
          \/ /\ State(s) = IN_STARTUP
             /\ Takes(s, kind, IN_STARTUP, NewReq(s), auth[s].kinum,
                      Append(toBack[s], Message(kind, NewReq(s), NoKi, NoKi)))
    BY <1>8 DEF TakesChange
  <2> DEFINE m == Message(kind, NewReq(s), NoKi, NoKi)
  <2>2. m \in ToBackend /\ m.type \in {"create", "delete"}
    BY <1>1 DEF Message, ToBackend, NewReq
  <2>3. CASE \/ Takes(s, kind, State(s), 0, auth[s].kinum, toBack[s])
             \/ Takes(s, kind, State(s), auth[s].reqid, auth[s].kinum, toBack[s])
    BY <1>1, <1>2, <1>4, <2>3
  <2>4. CASE /\ State(s) = IN_STARTUP
             /\ Takes(s, kind, IN_STARTUP, NewReq(s), auth[s].kinum, Append(toBack[s], m))
    <3> HIDE DEF m
    <3> QED
      BY <1>1, <1>4, <2>2, <2>4, SentNoLogin
  <2> QED
    BY <2>1, <2>3, <2>4
<1>9. CASE TakesAge(s)
  <2> DEFINE m == Message("age", NewReq(s), NoKi, auth[s].kinum)
  <2>1. m \in ToBackend /\ m.type = "age"
    BY <1>1 DEF Message, ToBackend, NewReq, AuthServer
  <2>2. /\ Takes(s, "age", AGE_REQ, NewReq(s), auth[s].kinum, Append(toBack[s], m))
        /\ State(s) >= VAULT_DOWNLOAD
    BY <1>9 DEF TakesAge
  <2> HIDE DEF m
  <2> QED
    BY <1>1, <1>4, <2>1, <2>2, SentNoLogin
<1> QED
  BY <1>3, <1>5, <1>6, <1>7, <1>8, <1>9 DEF ByClient

\* Nor an answer: the login reply that is taken is to the login handled last.
LEMMA LoginAgreesReply ==
  ASSUME TypeOK, NEW s \in Session, LoginAgrees(s), ByReply(s)
  PROVE  LoginAgrees(s)'
<1>1. /\ auth[s] \in AuthServer /\ fromBack[s] \in Seq(FromBackend) /\ State(s) \in Nat
      /\ Len(requests[s]) \in Nat /\ Open(s) /\ entity'[s] = entity[s] /\ toBack'[s] = toBack[s]
  BY DEF TypeOK, AuthServer, State, ByReply
<1>2. /\ InOrder(toBack[s]) /\ ~Closes(toBack[s])
      /\ State(s) < IN_STARTUP => auth[s].kinum = NoKi
  BY <1>1 DEF LoginAgrees, LoginQueue, LoginServer
<1>3. PICK m \in FromBackend :
        /\ m = Head(fromBack[s])
        /\ \/ Ignores(s) \/ LoginAnswered(s, m) \/ KiAnswered(s, m)
           \/ PlayerAnswered(s, m) \/ AgeAnswered(s, m)
  BY DEF ByReply
<1>4. m \in ToSet(fromBack[s]) /\ Logins(fromBack'[s]) \subseteq Logins(fromBack[s])
  BY <1>1, <1>3, Queues DEF ByReply, Logins
<1>5. Len(requests'[s]) = Len(requests[s])
  BY <1>3 DEF Ignores, LoginAnswered, KiAnswered, PlayerAnswered, AgeAnswered, OnlyAnswers
<1>6. ASSUME NEW state \in Nat, NEW reqid, After(s, state, reqid, auth[s].account, auth[s].kinum),
             State(s) < LOGIN_DONE <=> state < LOGIN_DONE,
             state = LOGIN => State(s) = LOGIN /\ reqid \in {0, auth[s].reqid},
             state < IN_STARTUP => State(s) < IN_STARTUP
      PROVE  LoginAgrees(s)'
  <2>1. LoginSame(s)
    BY <1>2, <1>6 DEF LoginSame, After
  <2> QED
    BY <1>1, <1>2, <1>4, <1>5, <2>1, LoginKept
<1>7. CASE LoginAnswered(s, m) /\ m.ok
  <2>1. /\ m.type = "login" /\ State(s) = LOGIN /\ auth[s].reqid = m.req
        /\ After(s, LOGIN_DONE, 0, m.what, auth[s].kinum)
    BY <1>7 DEF LoginAnswered
  <2>2. m \in Logins(fromBack[s])
    BY <1>4, <2>1 DEF Logins
  <2>3. Logins(toBack[s]) = {} /\ entity[s].account = m.what
    BY <1>7, <2>1, <2>2 DEF LoginAgrees, LoginAccount
  <2>4. LoginQueue(s)'
    <3>1. \A l \in Logins(toBack'[s]) \cup Logins(fromBack'[s]) : l.req \in 1..Len(requests'[s])
      BY <1>1, <1>4, <1>5 DEF LoginAgrees, LoginQueue
    <3> QED
      BY <1>1, <1>2, <3>1 DEF LoginQueue, Logins, Closes
  <2>5. LoginServer(s)'
    BY <1>1, <1>2, <2>1 DEF LoginServer, After, State, Open
  <2>6. LoginAccount(s)'
    BY <1>1, <2>1, <2>3 DEF LoginAccount, After, State, Logins
  <2> QED
    BY <2>4, <2>5, <2>6 DEF LoginAgrees
<1>8. CASE LoginAnswered(s, m) /\ ~m.ok
  BY <1>6, <1>8 DEF LoginAnswered
<1>9. CASE Ignores(s)
  BY <1>1, <1>6, <1>9 DEF Ignores
<1>10. CASE KiAnswered(s, m)
  <2>1. PICK state \in {IN_STARTUP, VAULT_DOWNLOAD} :
          After(s, state, auth[s].reqid, auth[s].account, auth[s].kinum)
    BY <1>10 DEF KiAnswered
  <2> QED
    BY <1>6, <1>10, <2>1 DEF KiAnswered
<1>11. CASE PlayerAnswered(s, m)
  BY <1>1, <1>6, <1>11 DEF PlayerAnswered
<1>12. CASE AgeAnswered(s, m)
  <2>1. PICK state \in {AGE_REQ, IN_GAME} : After(s, state, 0, auth[s].account, auth[s].kinum)
    BY <1>12 DEF AgeAnswered
  <2> QED
    BY <1>6, <1>12, <2>1 DEF AgeAnswered
<1> QED
  BY <1>3, <1>7, <1>8, <1>9, <1>10, <1>11, <1>12

\* Nor the backend: whoever logs in again waits for a later reply.
LEMMA LoginAgreesBackend ==
  ASSUME TypeOK, NEW s \in Session, LoginAgrees(s), ByBackend(s)
  PROVE  LoginAgrees(s)'
<1>1. /\ toBack[s] \in Seq(ToBackend) /\ State(s) \in Nat /\ entity[s] \in Entity
      /\ auth'[s] = auth[s] /\ requests'[s] = requests[s]
      /\ toBack[s] # <<>> /\ toBack'[s] = Tail(toBack[s])
  BY DEF TypeOK, AuthServer, State, ByBackend
<1>2. PICK m \in ToBackend :
        /\ m = Head(toBack[s])
        /\ \/ LoginHandled(s, m) \/ KiHandled(s, m) \/ OtherHandled(s, m) \/ CloseHandled(s, m)
  BY DEF ByBackend
<1>3. /\ InOrder(toBack'[s]) /\ Logins(toBack'[s]) \subseteq Logins(toBack[s])
      /\ m.type = "login" => m \in Logins(toBack[s]) /\ \A l \in Logins(toBack'[s]) : m.req < l.req
  BY <1>1, <1>2, TakenInOrder DEF LoginAgrees, LoginQueue
<1>4. m \in ToSet(toBack[s]) /\ ToSet(toBack'[s]) \subseteq ToSet(toBack[s])
  BY <1>1, <1>2, Queues
<1>5. Open(s) => ~Closes(toBack'[s])
  BY <1>4 DEF LoginAgrees, LoginQueue, Closes
<1>6. LoginServer(s)'
  BY <1>1 DEF LoginAgrees, LoginServer, State, Open
<1>7. ASSUME \A l \in Logins(fromBack'[s]) : l \in Logins(fromBack[s]) \/ (m.type = "login" /\ l.req = m.req)
      PROVE  LoginQueue(s)'
  <2>1. \A l \in Logins(toBack'[s]) \cup Logins(fromBack'[s]) : l.req \in 1..Len(requests'[s])
    BY <1>1, <1>3, <1>7 DEF LoginAgrees, LoginQueue
  <2> QED
    BY <1>1, <1>3, <1>5, <2>1 DEF LoginQueue, Logins, Closes, Open
<1>8. CASE LoginHandled(s, m)
  <2>1. m.type = "login" /\ m \in Logins(toBack[s])
    BY <1>3, <1>8 DEF LoginHandled
  <2>2. State(s) < LOGIN_DONE
    BY <1>1, <2>1 DEF LoginAgrees, LoginAccount
  <2>3. \A l \in Logins(fromBack'[s]) :
          \/ l \in Logins(fromBack[s])
          \/ l.req = m.req /\ (l.ok => l.what = m.what /\ entity'[s].account = m.what)
    BY <1>1, <1>8 DEF LoginHandled, Received, Logins, Reply, KillMsg, Entity
  <2>4. LoginQueue(s)'
    BY <1>7, <2>1, <2>3
  <2>5. LoginAccount(s)'
    <3>1. ASSUME State(s) = LOGIN, auth[s].reqid # 0, NEW l \in Logins(toBack'[s])
          PROVE  l.req <= auth[s].reqid
      BY <1>3, <3>1 DEF LoginAgrees, LoginAccount
    <3>2. ASSUME State(s) = LOGIN, NEW l \in Logins(fromBack'[s]), l.req = auth[s].reqid
          PROVE  Logins(toBack'[s]) = {} /\ (l.ok => entity'[s].account = l.what)
      <4>1. l \notin Logins(fromBack[s])
        BY <2>1, <3>2 DEF LoginAgrees, LoginAccount
      <4>2. m.req = auth[s].reqid /\ (l.ok => entity'[s].account = l.what)
        BY <2>3, <3>2, <4>1
      <4>3. m.req \in 1..Len(requests[s]) /\ Len(requests[s]) \in Nat
        BY <2>1 DEF LoginAgrees, LoginQueue, TypeOK
      <4>4. \A x \in Logins(toBack'[s]) : x.req <= m.req /\ m.req < x.req /\ x.req \in Nat
        <5>1. \A x \in Logins(toBack'[s]) : x.req \in 1..Len(requests[s])
          BY <1>3 DEF LoginAgrees, LoginQueue
        <5> QED
          BY <1>3, <2>1, <3>1, <3>2, <4>2, <4>3, <5>1
      <4> QED
        BY <4>2, <4>3, <4>4
    <3> QED
      BY <1>1, <2>2, <3>1, <3>2 DEF LoginAccount, State, Logins
  <2> QED
    BY <1>6, <2>4, <2>5 DEF LoginAgrees
<1>9. ASSUME m.type # "login", Logins(fromBack'[s]) \subseteq Logins(fromBack[s]),
             State(s) >= LOGIN => entity'[s].account = entity[s].account
      PROVE  LoginAgrees(s)'
  <2>1. LoginQueue(s)'
    BY <1>7, <1>9
  <2>2. ASSUME State(s) = LOGIN, NEW l \in Logins(fromBack'[s]), l.req = auth[s].reqid
        PROVE  Logins(toBack'[s]) = {} /\ (l.ok => entity'[s].account = l.what)
    BY <1>3, <1>9, <2>2 DEF LoginAgrees, LoginAccount
  <2>3. ASSUME State(s) = LOGIN, auth[s].reqid # 0, NEW l \in Logins(toBack'[s])
        PROVE  l.req <= auth[s].reqid
    BY <1>3, <2>3 DEF LoginAgrees, LoginAccount
  <2>4. State(s) >= LOGIN_DONE => Logins(toBack'[s]) = {} /\ entity'[s].account = auth[s].account
    BY <1>1, <1>3, <1>9 DEF LoginAgrees, LoginAccount
  <2>5. LoginAccount(s)'
    BY <1>1, <2>2, <2>3, <2>4 DEF LoginAccount, State, Logins
  <2> QED
    BY <1>6, <2>1, <2>5 DEF LoginAgrees
<1>10. CASE KiHandled(s, m)
  BY <1>1, <1>9, <1>10 DEF KiHandled, Received, Logins, Reply, Stranger, Entity
<1>11. CASE OtherHandled(s, m)
  BY <1>9, <1>11 DEF OtherHandled, Received, Logins, Reply, KillMsg
<1>12. CASE CloseHandled(s, m)
  <2>1. ~Open(s)
    BY <1>4, <1>12 DEF CloseHandled, LoginAgrees, LoginQueue, Closes
  <2>2. State(s) < LOGIN
    BY <1>1, <2>1 DEF LoginAgrees, LoginServer
  <2> QED
    BY <1>1, <1>9, <1>12, <2>2 DEF CloseHandled, Received, Logins
<1> QED
  BY <1>2, <1>8, <1>10, <1>11, <1>12

\* Nor any step.
LEMMA LoginAgreesNext ==
  ASSUME TypeOK, NEW s \in Session, LoginAgrees(s), OneOf(s)
  PROVE  LoginAgrees(s)'
<1>1. toBack[s] \in Seq(ToBackend)
  BY DEF TypeOK
<1>2. CASE Quiet(s)
  <2>1. Logins(fromBack'[s]) \subseteq Logins(fromBack[s]) /\ Logins(toBack'[s]) = Logins(toBack[s])
    BY <1>2 DEF Quiet, Logins
  <2>2. LoginQueue(s)' /\ LoginServer(s)'
    BY <1>2, <2>1 DEF Quiet, LoginAgrees, LoginQueue, LoginServer, State, Open, Closes, Logins
  <2>3. LoginAccount(s)'
    BY <1>2, <2>1 DEF Quiet, LoginAgrees, LoginAccount, State, Logins
  <2> QED
    BY <2>2, <2>3 DEF LoginAgrees
<1>3. CASE Ends(s)
  <2>1. /\ auth'[s].state = 0 /\ ~auth'[s].open /\ auth'[s].account = NoAccount
        /\ auth'[s].kinum = NoKi /\ requests'[s] = requests[s] /\ fromBack'[s] = <<>>
    BY <1>3 DEF Ends, Ended, Fresh
  <2>2. PICK n \in 0..Len(toBack[s]) :
          toBack'[s] = Append(SubSeq(toBack[s], 1, n), Message("close", 0, NoKi, NoKi))
    BY <1>3 DEF Ends, Ended
  <2>3. /\ Message("close", 0, NoKi, NoKi) \in ToBackend
        /\ Message("close", 0, NoKi, NoKi).type = "close"
    BY DEF Message, ToBackend
  <2>4. InOrder(toBack[s]) /\ ~Closes(toBack[s])
    BY <1>3 DEF Ends, LoginAgrees, LoginQueue
  <2>5. InOrder(toBack'[s]) /\ Logins(toBack'[s]) \subseteq Logins(toBack[s])
    BY <1>1, <2>2, <2>3, <2>4, CutInOrder
  <2>6. LoginQueue(s)'
    BY <2>1, <2>5 DEF LoginAgrees, LoginQueue, Logins, ToSet, Open
  <2> QED
    BY <2>1, <2>6 DEF LoginAgrees, LoginServer, LoginAccount, State
<1> QED
  BY <1>2, <1>3, LoginAgreesClient, LoginAgreesReply, LoginAgreesBackend DEF OneOf

-----------------------------------------------------------------------------
(* Players.                                                                *)

\* Players are asked for, and found to be the account's, only on behalf of the
\* account that is logged in.
KiAgrees(s) ==
  /\ Open(s) =>
       /\ \A m \in ToSet(toBack[s]) :
            m.type = "ki" => State(s) >= LOGIN_DONE /\ m.by = auth[s].account
       /\ \A m \in ToSet(fromBack[s]) :
            m.type = "ki" /\ m.ok => State(s) >= LOGIN_DONE /\ Holder[m.what] = auth[s].account
  /\ State(s) >= VAULT_DOWNLOAD =>
       auth[s].kinum # NoKi /\ Holder[auth[s].kinum] = auth[s].account
KisAgree == \A s \in Session : KiAgrees(s)

\* Nobody plays.
LEMMA KisAgreeInit == Init => KisAgree
<1> SUFFICES ASSUME Init, NEW s \in Session PROVE KiAgrees(s)
  BY DEF KisAgree
<1>1. State(s) = 0 /\ toBack[s] = <<>> /\ fromBack[s] = <<>>
  BY DEF Init, Fresh, State
<1> QED
  BY <1>1 DEF KiAgrees, ToSet

\* A server that goes on for the same account, if it had one, and whose player,
\* if it plays, is the same.
KiSame(s) ==
  LET a == auth'[s]
  IN /\ a.open /\ a.state \in Nat
     /\ State(s) >= LOGIN_DONE => a.state >= LOGIN_DONE /\ a.account = auth[s].account
     /\ a.state >= VAULT_DOWNLOAD => State(s) >= VAULT_DOWNLOAD /\ a.kinum = auth[s].kinum

\* Such a step breaks nothing that is known of the players.
LEMMA KiKept ==
  ASSUME TypeOK, NEW s \in Session, KiAgrees(s), Open(s), KiSame(s),
         \A m \in ToSet(toBack'[s]) :
           \/ m \in ToSet(toBack[s]) \/ m.type # "ki"
           \/ State(s) >= LOGIN_DONE /\ m.by = auth[s].account,
         ToSet(fromBack'[s]) \subseteq ToSet(fromBack[s])
  PROVE  KiAgrees(s)'
<1>1. State(s) \in Nat
  BY DEF TypeOK, AuthServer, State
<1>2. \A m \in ToSet(toBack'[s]) :
        m.type = "ki" => State(s)' >= LOGIN_DONE /\ m.by = auth'[s].account
  BY DEF KiAgrees, KiSame, State
<1>3. \A m \in ToSet(fromBack'[s]) :
        m.type = "ki" /\ m.ok => State(s)' >= LOGIN_DONE /\ Holder[m.what] = auth'[s].account
  BY DEF KiAgrees, KiSame, State
<1>4. State(s)' >= VAULT_DOWNLOAD =>
        auth'[s].kinum # NoKi /\ Holder[auth'[s].kinum] = auth'[s].account
  BY <1>1 DEF KiAgrees, KiSame, State
<1> QED
  BY <1>2, <1>3, <1>4 DEF KiAgrees

\* Nor does a message of the client.
LEMMA KiAgreesClient ==
  ASSUME TypeOK, NEW s \in Session, LoginAgrees(s), KiAgrees(s), ByClient(s)
  PROVE  KiAgrees(s)'
<1>1. /\ auth[s] \in AuthServer /\ toBack[s] \in Seq(ToBackend) /\ State(s) \in Nat
      /\ Len(requests[s]) \in Nat /\ Open(s) /\ fromBack'[s] = fromBack[s]
  BY DEF TypeOK, AuthServer, State, ByClient, Moves, TakesLogin, TakesPlayer, TakesLogout,
     TakesChange, TakesAge, Takes
<1>2. State(s) < LOGIN_DONE => auth[s].account = NoAccount
  BY DEF LoginAgrees, LoginServer
<1>3. CASE Moves(s)
  <2>1. toBack'[s] = toBack[s]
    BY <1>3 DEF Moves
  <2>2. KiSame(s)
    BY <1>1, <1>2, <1>3 DEF Moves, After, KiSame
  <2> QED
    BY <1>1, <2>1, <2>2, KiKept
<1>4. ASSUME NEW kind, NEW state \in Nat, NEW reqid, NEW kinum, NEW m \in ToBackend,
             \/ Takes(s, kind, state, reqid, kinum, toBack[s])
             \/ Takes(s, kind, state, reqid, kinum, Append(toBack[s], m)),
             m.type = "ki" => State(s) >= LOGIN_DONE /\ m.by = auth[s].account,
             State(s) >= LOGIN_DONE => state >= LOGIN_DONE,
             state >= VAULT_DOWNLOAD => State(s) >= VAULT_DOWNLOAD /\ kinum = auth[s].kinum
      PROVE  KiAgrees(s)'
  <2>1. After(s, state, reqid, auth[s].account, kinum)
    BY <1>4 DEF Takes
  <2>2. KiSame(s)
    BY <1>4, <2>1 DEF After, KiSame
  <2>3. toBack'[s] = toBack[s] \/ toBack'[s] = Append(toBack[s], m)
    BY <1>4 DEF Takes
  <2>4. ToSet(Append(toBack[s], m)) = ToSet(toBack[s]) \cup {m}
    BY <1>1, Queues
  <2>5. ToSet(toBack'[s]) \subseteq ToSet(toBack[s]) \cup {m}
    BY <2>3, <2>4
  <2> QED
    BY <1>1, <1>4, <2>2, <2>5, KiKept
<1>5. CASE TakesLogin(s)
  <2>1. PICK a \in Account : Takes(s, "login", LOGIN, NewReq(s), auth[s].kinum,
                                   Append(toBack[s], Message("login", NewReq(s), a, NoKi)))
    BY <1>5 DEF TakesLogin
  <2>2. Message("login", NewReq(s), a, NoKi) \in ToBackend
    BY <1>1 DEF Message, ToBackend, NewReq
  <2> QED
    BY <1>4, <1>5, <2>1, <2>2 DEF TakesLogin, Message
<1>6. CASE TakesPlayer(s)
  <2>1. PICK k \in Ki : Takes(s, "player", IN_STARTUP, NewReq(s), k,
                              Append(toBack[s], Message("ki", 0, k, auth[s].account)))
    BY <1>6 DEF TakesPlayer
  <2>2. Message("ki", 0, k, auth[s].account) \in ToBackend
    BY <1>1, NobodyAssumption DEF Message, ToBackend, AuthServer
  <2> QED
    BY <1>4, <1>6, <2>1, <2>2 DEF TakesPlayer, Message
<1>7. CASE TakesLogout(s)
  <2>1. Message("logout", 0, auth[s].kinum, NoKi) \in ToBackend
    BY <1>1 DEF Message, ToBackend, AuthServer
  <2> QED
    BY <1>4, <1>7, <2>1 DEF TakesLogout, Message
<1>8. CASE TakesChange(s)
  <2>1. PICK kind \in {"create", "delete"} :
          \/ Takes(s, kind, State(s), 0, auth[s].kinum, toBack[s])
          \/ Takes(s, kind, State(s), auth[s].reqid, auth[s].kinum, toBack[s]) /\ State(s) # AGE_REQ
          \/ /\ State(s) = IN_STARTUP
             /\ Takes(s, kind, IN_STARTUP, NewReq(s), auth[s].kinum,
                      Append(toBack[s], Message(kind, NewReq(s), NoKi, NoKi)))
    BY <1>8 DEF TakesChange
  <2>2. Message(kind, NewReq(s), NoKi, NoKi) \in ToBackend
    BY <1>1 DEF Message, ToBackend, NewReq
  <2> QED
    BY <1>1, <1>4, <2>1, <2>2 DEF Message
<1>9. CASE TakesAge(s)
  <2>1. Message("age", NewReq(s), NoKi, auth[s].kinum) \in ToBackend
    BY <1>1 DEF Message, ToBackend, NewReq, AuthServer
  <2> QED
    BY <1>4, <1>9, <2>1 DEF TakesAge, Message
<1> QED
  BY <1>3, <1>5, <1>6, <1>7, <1>8, <1>9 DEF ByClient

\* Nor an answer: the KI number validated is compared with m_kinum.
LEMMA KiAgreesReply ==
  ASSUME TypeOK, NEW s \in Session, KiAgrees(s), ByReply(s)
  PROVE  KiAgrees(s)'
<1>1. /\ auth[s] \in AuthServer /\ fromBack[s] \in Seq(FromBackend) /\ State(s) \in Nat
      /\ Open(s) /\ toBack'[s] = toBack[s]
  BY DEF TypeOK, AuthServer, State, ByReply
<1>2. PICK m \in FromBackend :
        /\ m = Head(fromBack[s])
        /\ \/ Ignores(s) \/ LoginAnswered(s, m) \/ KiAnswered(s, m)
           \/ PlayerAnswered(s, m) \/ AgeAnswered(s, m)
  BY DEF ByReply
<1>3. m \in ToSet(fromBack[s]) /\ ToSet(fromBack'[s]) \subseteq ToSet(fromBack[s])
  BY <1>1, <1>2, Queues DEF ByReply
<1>4. CASE KiAnswered(s, m) /\ m.ok
  <2>1. /\ m.type = "ki" /\ auth[s].kinum = m.what
        /\ After(s, VAULT_DOWNLOAD, auth[s].reqid, auth[s].account, auth[s].kinum)
    BY <1>4 DEF KiAnswered
  <2>2. Holder[auth[s].kinum] = auth[s].account /\ auth[s].kinum # NoKi
    BY <1>1, <1>3, <1>4, <2>1, NobodyAssumption DEF KiAgrees, FromBackend
  <2>3. /\ \A x \in ToSet(toBack'[s]) :
             x.type = "ki" => State(s)' >= LOGIN_DONE /\ x.by = auth'[s].account
        /\ \A x \in ToSet(fromBack'[s]) :
             x.type = "ki" /\ x.ok => State(s)' >= LOGIN_DONE /\ Holder[x.what] = auth'[s].account
    BY <1>1, <1>3, <2>1 DEF KiAgrees, After, State
  <2> QED
    BY <2>1, <2>2, <2>3 DEF KiAgrees, After
<1>5. CASE KiAnswered(s, m) /\ ~m.ok
  <2>1. KiSame(s)
    BY <1>1, <1>5 DEF KiAnswered, After, KiSame
  <2> QED
    BY <1>1, <1>3, <2>1, KiKept
<1>6. CASE LoginAnswered(s, m)
  <2>1. KiSame(s)
    BY <1>1, <1>6 DEF LoginAnswered, After, KiSame
  <2> QED
    BY <1>1, <1>3, <2>1, KiKept
<1>7. CASE Ignores(s) \/ PlayerAnswered(s, m) \/ AgeAnswered(s, m)
  <2>1. KiSame(s)
    BY <1>1, <1>7 DEF Ignores, PlayerAnswered, AgeAnswered, After, KiSame
  <2> QED
    BY <1>1, <1>3, <2>1, KiKept
<1> QED
  BY <1>2, <1>4, <1>5, <1>6, <1>7

\* Nor any step: the backend finds a player to be that of the account that asks.
LEMMA KiAgreesNext ==
  ASSUME TypeOK, NEW s \in Session, LoginAgrees(s), KiAgrees(s), OneOf(s)
  PROVE  KiAgrees(s)'
<1>1. toBack[s] \in Seq(ToBackend)
  BY DEF TypeOK
<1>2. CASE Quiet(s)
  BY <1>2 DEF Quiet, KiAgrees, Open, State
<1>3. CASE Ends(s)
  BY <1>3 DEF Ends, Ended, Fresh, KiAgrees, Open, State
<1>4. CASE ByBackend(s)
  <2>1. PICK m \in ToBackend :
          /\ m = Head(toBack[s])
          /\ \/ LoginHandled(s, m) \/ KiHandled(s, m) \/ OtherHandled(s, m) \/ CloseHandled(s, m)
    BY <1>4 DEF ByBackend
  <2>2. m \in ToSet(toBack[s]) /\ ToSet(toBack'[s]) \subseteq ToSet(toBack[s])
    BY <1>1, <1>4, <2>1, Queues DEF ByBackend
  <2>3. \A x \in ToSet(fromBack'[s]) :
          \/ x \in ToSet(fromBack[s]) \/ x.type # "ki" \/ ~x.ok
          \/ m.type = "ki" /\ x.what = m.what /\ Holder[m.what] = m.by
    <3>1. CASE LoginHandled(s, m)
      BY <3>1 DEF LoginHandled, Received, Reply, KillMsg
    <3>2. CASE KiHandled(s, m)
      BY <3>2 DEF KiHandled, Received, Reply, Stranger
    <3>3. CASE OtherHandled(s, m) \/ CloseHandled(s, m)
      BY <3>3 DEF OtherHandled, CloseHandled, Received, Reply, KillMsg
    <3> QED
      BY <2>1, <3>1, <3>2, <3>3
  <2>4. auth'[s] = auth[s]
    BY <1>4 DEF ByBackend
  <2> QED
    BY <2>2, <2>3, <2>4 DEF KiAgrees, Open, State
<1> QED
  BY <1>2, <1>3, <1>4, KiAgreesClient, KiAgreesReply DEF OneOf

-----------------------------------------------------------------------------
(* Which player the backend takes a session to play.                       *)

Validates(m) == m.type = "ki" /\ Holder[m.what] = m.by

\* e is the player now; it is k when the message at i of the queue is handled.
AgreedAt(q, e, i, k) ==
  \/ \E j \in 1..(i - 1) : /\ Validates(q[j]) /\ q[j].what = k
                           /\ \A l \in (j + 1)..(i - 1) : ~Validates(q[l])
  \/ e = k /\ \A l \in 1..(i - 1) : ~Validates(q[l])

\* What the server believes whenever it asks for an age, and believes now, the
\* backend believes by then: every player the server went on to was validated.
AgeAgrees(s) ==
  failures = 0 =>
    /\ \A i \in 1..Len(toBack[s]) :
         toBack[s][i].type = "age" => AgreedAt(toBack[s], entity[s].kinum, i, toBack[s][i].by)
    /\ auth[s].kinum # NoKi /\ Holder[auth[s].kinum] = auth[s].account =>
         AgreedAt(toBack[s], entity[s].kinum, Len(toBack[s]) + 1, auth[s].kinum)
AgesAgree == \A s \in Session : AgeAgrees(s)

\* No age has been asked for.
LEMMA AgesAgreeInit == Init => AgesAgree
<1> SUFFICES ASSUME Init, NEW s \in Session PROVE AgeAgrees(s)
  BY DEF AgesAgree
<1>1. auth[s].kinum = NoKi /\ toBack[s] = <<>>
  BY DEF Init, Fresh
<1> QED
  BY <1>1 DEF AgeAgrees

\* Only what is in front counts.
LEMMA AgreedInFront ==
  ASSUME NEW q, NEW r, NEW e, NEW i \in Nat, NEW k, \A j \in 1..(i - 1) : r[j] = q[j],
         AgreedAt(q, e, i, k)
  PROVE  AgreedAt(r, e, i, k)
<1>1. CASE \E j \in 1..(i - 1) : /\ Validates(q[j]) /\ q[j].what = k
                                 /\ \A l \in (j + 1)..(i - 1) : ~Validates(q[l])
  <2>1. PICK j \in 1..(i - 1) : /\ Validates(q[j]) /\ q[j].what = k
                                /\ \A l \in (j + 1)..(i - 1) : ~Validates(q[l])
    BY <1>1
  <2>2. \A l \in (j + 1)..(i - 1) : l \in 1..(i - 1)
    OBVIOUS
  <2>3. Validates(r[j]) /\ r[j].what = k /\ \A l \in (j + 1)..(i - 1) : ~Validates(r[l])
    BY <2>1, <2>2
  <2> QED
    BY <2>3 DEF AgreedAt
<1>2. CASE e = k /\ \A l \in 1..(i - 1) : ~Validates(q[l])
  BY <1>2 DEF AgreedAt
<1> QED
  BY <1>1, <1>2 DEF AgreedAt

\* A message behind the queue changes nothing in front of it; one that validates
\* a player decides who it is from then on.
LEMMA AgreedSent ==
  ASSUME NEW q \in Seq(ToBackend), NEW m \in ToBackend, NEW e, NEW k
  PROVE  LET r == Append(q, m)
         IN /\ \A i \in 1..(Len(q) + 1) : AgreedAt(q, e, i, k) => AgreedAt(r, e, i, k)
            /\ Validates(m) /\ m.what = k => AgreedAt(r, e, Len(q) + 2, k)
            /\ ~Validates(m) /\ AgreedAt(q, e, Len(q) + 1, k) => AgreedAt(r, e, Len(q) + 2, k)
<1> DEFINE r == Append(q, m)
           n == Len(q)
<1>1. n \in Nat /\ r[n + 1] = m /\ \A j \in 1..n : r[j] = q[j]
  OBVIOUS
<1> HIDE DEF r, n
<1>2. ASSUME NEW i \in 1..(n + 1), AgreedAt(q, e, i, k) PROVE AgreedAt(r, e, i, k)
  <2>1. i \in Nat /\ \A j \in 1..(i - 1) : r[j] = q[j]
    BY <1>1
  <2> QED
    BY <1>2, <2>1, AgreedInFront
<1>3. ASSUME Validates(m), m.what = k PROVE AgreedAt(r, e, n + 2, k)
  <2>1. n + 1 \in 1..((n + 2) - 1) /\ \A l \in ((n + 1) + 1)..((n + 2) - 1) : FALSE
    BY <1>1
  <2> QED
    BY <1>1, <1>3, <2>1 DEF AgreedAt
<1>4. ASSUME ~Validates(m), AgreedAt(q, e, n + 1, k) PROVE AgreedAt(r, e, n + 2, k)
  <2>1. AgreedAt(r, e, n + 1, k)
    BY <1>1, <1>2, <1>4
  <2>2. \A l \in Nat : l <= (n + 2) - 1 => l <= (n + 1) - 1 \/ l = n + 1
    BY <1>1
  <2>3. CASE \E j \in 1..((n + 1) - 1) : /\ Validates(r[j]) /\ r[j].what = k
                                         /\ \A l \in (j + 1)..((n + 1) - 1) : ~Validates(r[l])
    <3>1. PICK j \in 1..((n + 1) - 1) : /\ Validates(r[j]) /\ r[j].what = k
                                        /\ \A l \in (j + 1)..((n + 1) - 1) : ~Validates(r[l])
      BY <2>3
    <3>2. j \in 1..((n + 2) - 1) /\ \A l \in (j + 1)..((n + 2) - 1) : ~Validates(r[l])
      BY <1>1, <1>4, <2>2, <3>1
    <3> QED
      BY <3>1, <3>2 DEF AgreedAt
  <2>4. CASE e = k /\ \A l \in 1..((n + 1) - 1) : ~Validates(r[l])
    <3>1. \A l \in 1..((n + 2) - 1) : ~Validates(r[l])
      BY <1>1, <1>4, <2>2, <2>4
    <3> QED
      BY <2>4, <3>1 DEF AgreedAt
  <2> QED
    BY <2>1, <2>3, <2>4 DEF AgreedAt
<1> QED
  BY <1>2, <1>3, <1>4 DEF r, n

\* A message is handled: if it validates a player, that is now the player.
LEMMA AgreedHandled ==
  ASSUME NEW q \in Seq(ToBackend), q # <<>>, NEW e, NEW f, NEW k, NEW i \in 1..Len(q),
         f = (IF Validates(Head(q)) THEN Head(q).what ELSE e), AgreedAt(q, e, i + 1, k)
  PROVE  AgreedAt(Tail(q), f, i, k)
<1> DEFINE r == Tail(q)
<1>1. i \in Nat /\ Head(q) = q[1] /\ \A j \in 1..(i - 1) : r[j] = q[j + 1]
  OBVIOUS
<1> HIDE DEF r
<1>2. (i + 1) - 1 = i
  BY <1>1
<1>3. CASE \E j \in 1..i : /\ Validates(q[j]) /\ q[j].what = k
                           /\ \A l \in (j + 1)..i : ~Validates(q[l])
  <2>1. PICK j \in 1..i : /\ Validates(q[j]) /\ q[j].what = k
                          /\ \A l \in (j + 1)..i : ~Validates(q[l])
    BY <1>3
  <2>2. CASE j = 1
    <3>1. f = k
      BY <1>1, <2>1, <2>2
    <3>2. ASSUME NEW l \in 1..(i - 1) PROVE ~Validates(r[l])
      <4>1. l + 1 \in (j + 1)..i
        BY <1>1, <2>2
      <4> QED
        BY <1>1, <2>1, <4>1
    <3> QED
      BY <3>1, <3>2 DEF AgreedAt, r
  <2>3. CASE j # 1
    <3>1. j - 1 \in 1..(i - 1) /\ r[j - 1] = q[j]
      <4>1. j - 1 \in 1..(i - 1) /\ (j - 1) + 1 = j
        BY <1>1, <2>3
      <4> QED
        BY <1>1, <4>1
    <3>2. ASSUME NEW l \in ((j - 1) + 1)..(i - 1) PROVE ~Validates(r[l])
      <4>1. l \in 1..(i - 1) /\ l + 1 \in (j + 1)..i
        BY <1>1
      <4> QED
        BY <1>1, <2>1, <4>1
    <3> QED
      BY <2>1, <3>1, <3>2 DEF AgreedAt, r
  <2> QED
    BY <2>2, <2>3
<1>4. CASE e = k /\ \A l \in 1..i : ~Validates(q[l])
  <2>1. f = k
    BY <1>1, <1>4
  <2>2. ASSUME NEW l \in 1..(i - 1) PROVE ~Validates(r[l])
    <3>1. l + 1 \in 1..i
      BY <1>1
    <3> QED
      BY <1>1, <1>4, <3>1
  <2> QED
    BY <2>1, <2>2 DEF AgreedAt, r
<1> QED
  BY <1>2, <1>3, <1>4 DEF AgreedAt

\* The queue is the same, or has one message more that validates no other player.
LEMMA AgeKept ==
  ASSUME TypeOK, NEW s \in Session, AgeAgrees(s), failures' # 0 \/ failures = 0,
         entity'[s] = entity[s],
         auth'[s].account = auth[s].account, auth'[s].kinum \in {NoKi, auth[s].kinum},
         NEW m \in ToBackend, ~Validates(m),
         m.type = "age" => /\ m.by = auth[s].kinum
                           /\ auth[s].kinum # NoKi /\ Holder[auth[s].kinum] = auth[s].account,
         toBack'[s] = toBack[s] \/ toBack'[s] = Append(toBack[s], m)
  PROVE  AgeAgrees(s)'
<1> SUFFICES ASSUME failures' = 0 PROVE AgeAgrees(s)'
  BY DEF AgeAgrees
<1> DEFINE q == toBack[s]
           e == entity[s].kinum
           k == auth[s].kinum
<1>1. q \in Seq(ToBackend) /\ Len(q) \in Nat
  BY DEF TypeOK
<1>2. /\ \A i \in 1..Len(q) : q[i].type = "age" => AgreedAt(q, e, i, q[i].by)
      /\ k # NoKi /\ Holder[k] = auth[s].account => AgreedAt(q, e, Len(q) + 1, k)
  BY DEF AgeAgrees
<1>3. CASE toBack'[s] = q
  BY <1>2, <1>3 DEF AgeAgrees
<1>4. CASE toBack'[s] = Append(q, m)
  <2> DEFINE r == Append(q, m)
  <2>1. Len(r) = Len(q) + 1 /\ r[Len(q) + 1] = m /\ \A i \in 1..Len(q) : r[i] = q[i]
    BY <1>1
  <2> HIDE DEF r
  <2>2. ASSUME NEW x, NEW i \in 1..(Len(q) + 1), AgreedAt(q, e, i, x) PROVE AgreedAt(r, e, i, x)
    BY <1>1, <2>2, AgreedSent DEF r
  <2>3. ASSUME NEW i \in 1..Len(r), r[i].type = "age" PROVE AgreedAt(r, e, i, r[i].by)
    <3>1. CASE i \in 1..Len(q)
      <4>1. AgreedAt(q, e, i, r[i].by) /\ i \in 1..(Len(q) + 1)
        BY <1>1, <1>2, <2>1, <2>3, <3>1
      <4> QED
        BY <2>2, <4>1
    <3>2. CASE i = Len(q) + 1
      <4>1. AgreedAt(q, e, i, r[i].by) /\ i \in 1..(Len(q) + 1)
        BY <1>1, <1>2, <2>1, <2>3, <3>2
      <4> QED
        BY <2>2, <4>1
    <3> QED
      BY <1>1, <2>1, <3>1, <3>2
  <2>4. k # NoKi /\ Holder[k] = auth[s].account => AgreedAt(r, e, Len(r) + 1, k)
    <3>1. AgreedAt(q, e, Len(q) + 1, k) => AgreedAt(r, e, Len(q) + 2, k)
      BY <1>1, AgreedSent DEF r
    <3>2. Len(r) + 1 = Len(q) + 2
      BY <1>1, <2>1
    <3> QED
      BY <1>2, <3>1, <3>2
  <2> HIDE DEF q, e, k
  <2>5. toBack'[s] = r /\ entity'[s].kinum = e /\ auth'[s].account = auth[s].account
        /\ (auth'[s].kinum = NoKi \/ auth'[s].kinum = k)
    BY <1>4 DEF r, q, e, k
  <2> QED
    BY <2>3, <2>4, <2>5 DEF AgeAgrees
<1> QED
  BY <1>3, <1>4

\* A message of the client: a player that is asked for will have been validated by
\* the time what is sent after it is handled.
LEMMA AgeAgreesClient ==
  ASSUME TypeOK, NEW s \in Session, LoginAgrees(s), KiAgrees(s), AgeAgrees(s), ByClient(s),
         failures' # 0 \/ failures = 0
  PROVE  AgeAgrees(s)'
<1>1. /\ auth[s] \in AuthServer /\ toBack[s] \in Seq(ToBackend) /\ State(s) \in Nat
      /\ Len(requests[s]) \in Nat /\ Open(s) /\ entity'[s] = entity[s]
  BY DEF TypeOK, AuthServer, State, ByClient
<1> DEFINE none == Message("close", 0, NoKi, NoKi)
<1>2. none \in ToBackend /\ none.type = "close"
  BY DEF Message, ToBackend
<1>3. CASE Moves(s)
  <2>1. /\ toBack'[s] = toBack[s] /\ auth'[s].account = auth[s].account
        /\ auth'[s].kinum = auth[s].kinum
    BY <1>3 DEF Moves, After
  <2> HIDE DEF none
  <2> QED
    BY <1>1, <1>2, <2>1, AgeKept DEF Validates
<1>4. ASSUME NEW kind, NEW state, NEW reqid, NEW kinum \in {NoKi, auth[s].kinum}, NEW m \in ToBackend,
             m.type # "ki",
             m.type = "age" => m.by = auth[s].kinum /\ State(s) >= VAULT_DOWNLOAD,
             \/ Takes(s, kind, state, reqid, kinum, toBack[s])
             \/ Takes(s, kind, state, reqid, kinum, Append(toBack[s], m))
      PROVE  AgeAgrees(s)'
  <2>1. /\ toBack'[s] = toBack[s] \/ toBack'[s] = Append(toBack[s], m)
        /\ auth'[s].account = auth[s].account /\ auth'[s].kinum = kinum
    BY <1>4 DEF Takes, After
  <2>2. m.type = "age" => /\ m.by = auth[s].kinum
                          /\ auth[s].kinum # NoKi /\ Holder[auth[s].kinum] = auth[s].account
    BY <1>4 DEF KiAgrees
  <2> QED
    BY <1>1, <1>4, <2>1, <2>2, AgeKept DEF Validates
<1>5. CASE TakesLogin(s)
  <2>1. PICK a \in Account : Takes(s, "login", LOGIN, NewReq(s), auth[s].kinum,
                                   Append(toBack[s], Message("login", NewReq(s), a, NoKi)))
    BY <1>5 DEF TakesLogin
  <2> DEFINE m == Message("login", NewReq(s), a, NoKi)
  <2>2. m \in ToBackend /\ m.type = "login"
    BY <1>1 DEF Message, ToBackend, NewReq
  <2> HIDE DEF m
  <2> QED
    BY <1>4, <2>1, <2>2 DEF m
<1>6. CASE TakesPlayer(s)
  <2>1. PICK k \in Ki : Takes(s, "player", IN_STARTUP, NewReq(s), k,
                              Append(toBack[s], Message("ki", 0, k, auth[s].account)))
    BY <1>6 DEF TakesPlayer
  <2> DEFINE m == Message("ki", 0, k, auth[s].account)
             q == toBack[s]
             r == Append(q, m)
             e == entity[s].kinum
  <2>2. m \in ToBackend /\ m.type = "ki" /\ m.what = k /\ m.by = auth[s].account
    BY <1>1, NobodyAssumption DEF Message, ToBackend, AuthServer
  <2> HIDE DEF m
  <2>3. /\ toBack'[s] = r /\ auth'[s].account = auth[s].account /\ auth'[s].kinum = k
        /\ entity'[s].kinum = e
    BY <1>1, <2>1 DEF Takes, After, m
  <2>4. /\ q \in Seq(ToBackend) /\ Len(q) \in Nat
        /\ Len(r) = Len(q) + 1 /\ r[Len(q) + 1] = m /\ \A i \in 1..Len(q) : r[i] = q[i]
    BY <1>1
  <2>5. ASSUME failures' = 0, NEW i \in 1..Len(r), r[i].type = "age"
        PROVE  AgreedAt(r, e, i, r[i].by)
    <3>1. i \in 1..Len(q) /\ r[i] = q[i] /\ i \in 1..(Len(q) + 1)
      BY <2>2, <2>4, <2>5
    <3>2. AgreedAt(q, e, i, r[i].by)
      BY <2>5, <3>1 DEF AgeAgrees
    <3> QED
      BY <2>2, <2>4, <3>1, <3>2, AgreedSent
  <2>6. Holder[k] = auth[s].account => AgreedAt(r, e, Len(r) + 1, k)
    <3>1. Len(r) + 1 = Len(q) + 2
      BY <2>4
    <3>2. Holder[k] = auth[s].account => AgreedAt(r, e, Len(q) + 2, k)
      BY <2>2, <2>4, AgreedSent DEF Validates
    <3> QED
      BY <3>1, <3>2
  <2> HIDE DEF q, r, e
  <2> QED
    BY <2>3, <2>5, <2>6 DEF AgeAgrees
<1>7. CASE TakesLogout(s)
  <2> DEFINE m == Message("logout", 0, auth[s].kinum, NoKi)
  <2>1. m \in ToBackend /\ m.type = "logout"
    BY <1>1 DEF Message, ToBackend, AuthServer
  <2>2. \/ Takes(s, "player", IN_STARTUP, 0, NoKi, toBack[s])
        \/ Takes(s, "player", IN_STARTUP, 0, NoKi, Append(toBack[s], m))
    BY <1>7 DEF TakesLogout
  <2> HIDE DEF m
  <2> QED
    BY <1>4, <2>1, <2>2
<1>8. CASE TakesChange(s)
  <2>1. PICK kind \in {"create", "delete"} :
          \/ Takes(s, kind, State(s), 0, auth[s].kinum, toBack[s])
          \/ Takes(s, kind, State(s), auth[s].reqid, auth[s].kinum, toBack[s]) /\ State(s) # AGE_REQ
          \/ /\ State(s) = IN_STARTUP
             /\ Takes(s, kind, IN_STARTUP, NewReq(s), auth[s].kinum,
                      Append(toBack[s], Message(kind, NewReq(s), NoKi, NoKi)))
    BY <1>8 DEF TakesChange
  <2> DEFINE m == Message(kind, NewReq(s), NoKi, NoKi)
  <2>2. m \in ToBackend /\ m.type \in {"create", "delete"}
    BY <1>1 DEF Message, ToBackend, NewReq
  <2>3. \E state, reqid : \/ Takes(s, kind, state, reqid, auth[s].kinum, toBack[s])
                          \/ Takes(s, kind, state, reqid, auth[s].kinum, Append(toBack[s], m))
    BY <2>1
  <2> HIDE DEF m
  <2> QED
    BY <1>4, <2>2, <2>3
<1>9. CASE TakesAge(s)
  <2> DEFINE m == Message("age", NewReq(s), NoKi, auth[s].kinum)
  <2>1. m \in ToBackend /\ m.type = "age" /\ m.by = auth[s].kinum
    BY <1>1 DEF Message, ToBackend, NewReq, AuthServer
  <2>2. /\ Takes(s, "age", AGE_REQ, NewReq(s), auth[s].kinum, Append(toBack[s], m))
        /\ State(s) >= VAULT_DOWNLOAD
    BY <1>9 DEF TakesAge
  <2> HIDE DEF m
  <2> QED
    BY <1>4, <2>1, <2>2
<1> QED
  BY <1>3, <1>5, <1>6, <1>7, <1>8, <1>9 DEF ByClient

\* A message is handled, without a failure, as what follows it expects.
LEMMA AgeAgreesBackend ==
  ASSUME TypeOK, NEW s \in Session, LoginAgrees(s), AgeAgrees(s), ByBackend(s),
         failures' # 0 \/ failures = 0
  PROVE  AgeAgrees(s)'
<1> SUFFICES ASSUME failures' = 0 PROVE AgeAgrees(s)'
  BY DEF AgeAgrees
<1> DEFINE q == toBack[s]
           r == Tail(q)
           e == entity[s].kinum
<1>1. /\ q \in Seq(ToBackend) /\ q # <<>> /\ toBack'[s] = r /\ auth'[s] = auth[s]
      /\ entity[s] \in Entity
  BY DEF TypeOK, ByBackend
<1>2. PICK m \in ToBackend :
        /\ m = Head(q)
        /\ \/ LoginHandled(s, m) \/ KiHandled(s, m) \/ OtherHandled(s, m) \/ CloseHandled(s, m)
  BY DEF ByBackend
<1>3. /\ Len(q) \in Nat /\ Len(r) = Len(q) - 1 /\ r \in Seq(ToBackend)
      /\ \A i \in 1..Len(r) : r[i] = q[i + 1] /\ i + 1 \in 1..Len(q) /\ i \in 1..Len(q)
      /\ Len(q) \in 1..Len(q) /\ Len(r) + 1 = Len(q) /\ Head(q) = q[1]
  BY <1>1
<1>4. CASE CloseHandled(s, m)
  <2>1. m \in ToSet(q) /\ m.type = "close"
    BY <1>1, <1>2, <1>4, Queues DEF CloseHandled
  <2>2. ~Open(s)
    BY <2>1 DEF LoginAgrees, LoginQueue, Closes
  <2>3. auth[s].kinum = NoKi
    BY <2>2 DEF LoginAgrees, LoginServer, TypeOK, AuthServer, State
  <2>4. Len(r) = 0
    <3>1. q[1].type = "close"
      BY <1>2, <1>3, <2>1
    <3>2. ~(1 < Len(q))
      BY <1>3, <3>1 DEF LoginAgrees, LoginQueue, InOrder
    <3> HIDE DEF q, r
    <3> QED
      BY <1>3, <3>2
  <2> QED
    BY <1>1, <2>3, <2>4 DEF AgeAgrees
<1>5. CASE ~CloseHandled(s, m)
  <2> DEFINE f == entity'[s].kinum
  <2>1. f = (IF Validates(Head(q)) THEN Head(q).what ELSE e)
    <3>1. CASE LoginHandled(s, m)
      BY <1>1, <1>2, <3>1 DEF LoginHandled, Validates, Entity
    <3>2. CASE KiHandled(s, m)
      BY <1>1, <1>2, <3>2 DEF KiHandled, Validates, Entity
    <3>3. CASE OtherHandled(s, m)
      BY <1>2, <3>3 DEF OtherHandled, Validates
    <3> QED
      BY <1>2, <1>5, <3>1, <3>2, <3>3
  <2>2. /\ \A i \in 1..Len(q) : q[i].type = "age" => AgreedAt(q, e, i, q[i].by)
        /\ auth[s].kinum # NoKi /\ Holder[auth[s].kinum] = auth[s].account =>
             AgreedAt(q, e, Len(q) + 1, auth[s].kinum)
    BY DEF AgeAgrees
  <2> HIDE DEF q, e, f
  <2>3. ASSUME NEW i \in 1..Len(q), NEW k, AgreedAt(q, e, i + 1, k) PROVE AgreedAt(r, f, i, k)
    BY <1>1, <2>1, <2>3, AgreedHandled
  <2> HIDE DEF r
  <2>4. ASSUME NEW i \in 1..Len(r), r[i].type = "age" PROVE AgreedAt(r, f, i, r[i].by)
    BY <1>3, <2>2, <2>3, <2>4
  <2>5. auth[s].kinum # NoKi /\ Holder[auth[s].kinum] = auth[s].account =>
          AgreedAt(r, f, Len(r) + 1, auth[s].kinum)
    BY <1>3, <2>2, <2>3
  <2> QED
    BY <1>1, <2>4, <2>5 DEF AgeAgrees, f
<1> QED
  BY <1>4, <1>5

\* Any step.
LEMMA AgeAgreesNext ==
  ASSUME TypeOK, NEW s \in Session, LoginAgrees(s), KiAgrees(s), AgeAgrees(s), OneOf(s),
         failures' # 0 \/ failures = 0
  PROVE  AgeAgrees(s)'
<1>1. toBack[s] \in Seq(ToBackend)
  BY DEF TypeOK
<1>2. CASE Quiet(s)
  BY <1>2 DEF Quiet, AgeAgrees
<1>3. CASE Ends(s)
  <2> DEFINE q == toBack[s]
             close == Message("close", 0, NoKi, NoKi)
  <2>1. auth'[s].kinum = NoKi /\ entity'[s] = entity[s]
    BY <1>3 DEF Ends, Ended, Fresh
  <2>2. PICK n \in 0..Len(q) : toBack'[s] = Append(SubSeq(q, 1, n), close)
    BY <1>3 DEF Ends, Ended
  <2> DEFINE r == Append(SubSeq(q, 1, n), close)
  <2>3. close \in ToBackend /\ close.type = "close"
    BY DEF Message, ToBackend
  <2> HIDE DEF close
  <2>4. Len(r) = n + 1 /\ r[n + 1] = close /\ \A i \in 1..n : r[i] = q[i] /\ i \in 1..Len(q)
    BY <1>1, <2>3
  <2> HIDE DEF r
  <2>5. ASSUME failures' = 0, NEW i \in 1..Len(r), r[i].type = "age"
        PROVE  AgreedAt(r, entity[s].kinum, i, r[i].by)
    <3>1. i \in 1..n
      BY <2>3, <2>4, <2>5
    <3>2. AgreedAt(q, entity[s].kinum, i, r[i].by)
      BY <2>4, <2>5, <3>1 DEF AgeAgrees
    <3>3. i \in Nat /\ \A j \in 1..(i - 1) : r[j] = q[j]
      BY <2>4, <3>1
    <3> QED
      BY <3>2, <3>3, AgreedInFront
  <2> QED
    BY <2>1, <2>2, <2>5 DEF AgeAgrees, r
<1>4. CASE ByReply(s)
  <2>1. /\ entity'[s] = entity[s] /\ toBack'[s] = toBack[s] /\ auth'[s].kinum = auth[s].kinum
        /\ auth'[s].account = auth[s].account \/ State(s) = LOGIN
    BY <1>4 DEF ByReply, Ignores, LoginAnswered, KiAnswered, PlayerAnswered, AgeAnswered, After
  <2>2. State(s) = LOGIN => auth[s].kinum = NoKi
    BY DEF LoginAgrees, LoginServer
  <2> QED
    BY <2>1, <2>2 DEF AgeAgrees
<1> QED
  BY <1>2, <1>3, <1>4, AgeAgreesClient, AgeAgreesBackend DEF OneOf

-----------------------------------------------------------------------------
\* The inductive invariant: what the two sides agree on, and what is under way.
AuthInv == TypeOK /\ LoginsAgree /\ KisAgree /\ AgesAgree

\* A session that downloads the vault or plays does so as a player of its account,
\* which is the account the backend has for it, and unless the database fails the
\* backend sends to an age the player that the auth server believes to be playing.
THEOREM SidesAlwaysAgree == Spec => []SidesAgree
<1>1. Init => AuthInv
  BY TypeOKInit, LoginsAgreeInit, KisAgreeInit, AgesAgreeInit DEF AuthInv
<1>2. AuthInv /\ [Next]_vars => AuthInv'
  <2> SUFFICES ASSUME AuthInv, [Next]_vars PROVE AuthInv'
    OBVIOUS
  <2>1. TypeOK'
    BY TypeOKNext DEF AuthInv
  <2>2. ASSUME NEW s \in Session PROVE (LoginAgrees(s) /\ KiAgrees(s) /\ AgeAgrees(s))'
    <3>1. OneOf(s) /\ (failures' # 0 \/ failures = 0) /\ TypeOK
      BY Steps DEF AuthInv
    <3>2. LoginAgrees(s) /\ KiAgrees(s) /\ AgeAgrees(s)
      BY DEF AuthInv, LoginsAgree, KisAgree, AgesAgree
    <3> QED
      BY <3>1, <3>2, LoginAgreesNext, KiAgreesNext, AgeAgreesNext
  <2> QED
    BY <2>1, <2>2 DEF AuthInv, LoginsAgree, KisAgree, AgesAgree
<1>3. AuthInv => SidesAgree
  <2> SUFFICES ASSUME AuthInv PROVE SidesAgree
    OBVIOUS
  <2>1. PlaysItsOwn
    BY DEF AuthInv, KisAgree, KiAgrees, PlaysItsOwn
  <2>2. SameAccount
    BY DEF AuthInv, LoginsAgree, LoginAgrees, LoginAccount, SameAccount
  <2>3. ASSUME NEW s \in Session, Asked(s, "age"), failures = 0
        PROVE  entity[s].kinum = Head(toBack[s]).by
    <3>1. toBack[s] \in Seq(ToBackend) /\ toBack[s] # <<>> /\ Head(toBack[s]).type = "age"
      BY <2>3 DEF Asked, AuthInv, TypeOK
    <3>2. 1 \in 1..Len(toBack[s]) /\ Head(toBack[s]) = toBack[s][1] /\ \A j \in 1..(1 - 1) : FALSE
      BY <3>1
    <3>3. AgreedAt(toBack[s], entity[s].kinum, 1, Head(toBack[s]).by)
      BY <2>3, <3>1, <3>2 DEF AuthInv, AgesAgree, AgeAgrees
    <3> QED
      BY <3>2, <3>3 DEF AgreedAt
  <2> QED
    BY <2>1, <2>2, <2>3 DEF SidesAgree, RightPlayerIsSent
<1> QED
  BY <1>1, <1>2, <1>3, PTL DEF Spec
==============================================================================
