----------------------------- MODULE AuthSession -----------------------------
(***************************************************************************)
(* The sessions of the MOSS auth servers (AuthServer.cc) and what the      *)
(* backend keeps of them (backend_all.cc, handle_auth).                    *)
(*                                                                         *)
(* An auth server is a thread for one client, with one connection to the   *)
(* client and one to the backend.  It remembers one request, m_reqid, and  *)
(* tells by it and by its state whether an answer from the backend is      *)
(* still wanted.  The backend remembers each session's account and KI      *)
(* number in a ConnectionEntity, and which players are online in the       *)
(* table `connected`.  Both connections are TCP: first in, first out; what *)
(* was queued but not written when the server ends is lost.                *)
(*                                                                         *)
(* The client may send anything at any time.  A request it sends is        *)
(* numbered (the client never uses 0), and is left out here when the       *)
(* server ignores it.  The database may fail at any query.                 *)
(***************************************************************************)
EXTENDS Integers, SequencesExt

CONSTANTS
  Account, NoAccount,
  Ki, NoKi,     \* players, and m_kinum = 0
  Holder,       \* whose each player is
  Session,      \* numbered as the backend's hash table sorts them
  MaxRequests,  \* bound: requests of each session
  MaxFailures   \* bound: database failures

ASSUME NobodyAssumption == NoAccount \notin Account /\ NoKi \notin Ki
ASSUME HolderAssumption == Holder \in [Ki -> Account]
ASSUME SessionAssumption == Session \subseteq Nat
ASSUME BoundAssumption == MaxRequests \in [Session -> Nat] /\ MaxFailures \in Nat

\* AuthServer::state_t
START            == 0
NEGOTIATION_DONE == 1
NONCE_DONE       == 2
REGISTER         == 3
LOGIN            == 4
LOGIN_DONE       == 5
DOWNLOAD         == 6
IN_STARTUP       == 7
VAULT_DOWNLOAD   == 8
AGE_REQ          == 9
IN_GAME          == 10

VARIABLES
  auth,       \* the AuthServer of each session
  requests,   \* what the client has asked for, by number, and how often it
              \* was answered
  toBack,     \* messages on the way to the backend
  fromBack,   \* and back
  entity,     \* ConnectionEntity of each session
  ages,       \* age requests tracking has not answered
  connected,  \* the table of players online
  failures    \* database failures so far

vars == <<auth, requests, toBack, fromBack, entity, ages, connected, failures>>
backVars == <<entity, ages, connected, failures>>

-----------------------------------------------------------------------------
(* The auth server and its client.                                         *)

Open(s) == auth[s].open
State(s) == auth[s].state
Update(s, a) == auth' = [auth EXCEPT ![s] = a]
Query(s, type, req, what, by) ==
  toBack' = [toBack EXCEPT ![s] =
               Append(@, [type |-> type, req |-> req, what |-> what, by |-> by])]

\* a request is numbered; `answers` is what the server says to it at once
Requests(s, kind, answers) ==
  /\ Len(requests[s]) < MaxRequests[s]
  /\ requests' = [requests EXCEPT ![s] = Append(@, [kind |-> kind, answers |-> answers])]
NewReq(s) == Len(requests[s]) + 1
Answer(s, r) == requests' = [requests EXCEPT ![s][r].answers = @ + 1]

\* an AuthServer as it is made; nothing is left of it when it ends
Fresh == [open |-> TRUE, state |-> START, reqid |-> 0, account |-> NoAccount,
          kinum |-> NoKi, download |-> FALSE]

\* what the backend sent and the server has not read: lost when it ends
Waiting(s, ms) ==
  fromBack' = [fromBack EXCEPT ![s] = IF auth'[s].open THEN ms ELSE <<>>]

\* The server ends, the client kicked or gone; shutdown() clears the backend
\* connection's queue, and what was written before arrives, then the close.
End(s) ==
  /\ Update(s, [Fresh EXCEPT !.open = FALSE])
  /\ \E written \in 0..Len(toBack[s]) :
       toBack' = [toBack EXCEPT ![s] = Append(SubSeq(@, 1, written),
                    [type |-> "close", req |-> 0, what |-> NoKi, by |-> NoKi])]

Kick(s) == Open(s) /\ End(s) /\ UNCHANGED requests

Negotiate(s) ==
  /\ Open(s) /\ State(s) < NEGOTIATION_DONE
  /\ Update(s, [auth[s] EXCEPT !.state = NEGOTIATION_DONE])
  /\ UNCHANGED <<requests, toBack>>

SetUpKey(s) ==
  /\ Open(s) /\ State(s) = NEGOTIATION_DONE
  /\ Update(s, [auth[s] EXCEPT !.state = NONCE_DONE])
  /\ UNCHANGED <<requests, toBack>>

ClientRegister(s) ==
  /\ Open(s) /\ State(s) = NONCE_DONE
  /\ Update(s, [auth[s] EXCEPT !.state = REGISTER])
  /\ UNCHANGED <<requests, toBack>>

\* a client may log in again while it waits, or when it was refused
LoginReq(s, a) ==
  /\ Open(s) /\ State(s) \in {REGISTER, LOGIN}
  /\ Requests(s, "login", 0)
  /\ Update(s, [auth[s] EXCEPT !.state = LOGIN, !.reqid = NewReq(s)])
  /\ Query(s, "login", NewReq(s), a, NoKi)

\* a list of files is sent whole; a file in chunks, each to be acknowledged
FileRequest(s, whole) ==
  /\ Open(s) /\ State(s) >= NONCE_DONE
  /\ IF State(s) > DOWNLOAD \/ auth[s].account = NoAccount \/ auth[s].download
       THEN Kick(s)
       ELSE /\ Update(s, [auth[s] EXCEPT !.state = DOWNLOAD, !.download = ~whole])
            /\ UNCHANGED <<requests, toBack>>

LastChunkAck(s) ==
  /\ Open(s) /\ State(s) \in NONCE_DONE..DOWNLOAD /\ auth[s].download
  /\ Update(s, [auth[s] EXCEPT !.download = FALSE])
  /\ UNCHANGED <<requests, toBack>>

MutSetPlayer(s, k) ==                   \* a slip: m_kinum is left as it is
  /\ Open(s)
  /\ \/ State(s) \in {LOGIN_DONE, DOWNLOAD, IN_STARTUP}
     \/ State(s) = IN_GAME /\ k = NoKi
  /\ LET answers == IF k = NoKi THEN 1 ELSE 0
         reqid   == IF k = NoKi THEN 0 ELSE NewReq(s)
     IN /\ Requests(s, "player", answers)
        /\ Update(s, [auth[s] EXCEPT !.state = IN_STARTUP, !.reqid = reqid,
                        !.download = IF State(s) = DOWNLOAD THEN FALSE ELSE @])
  /\ IF k # NoKi THEN Query(s, "ki", 0, k, auth[s].account)
     ELSE IF auth[s].kinum # NoKi THEN Query(s, "logout", 0, auth[s].kinum, NoKi)
     ELSE UNCHANGED toBack

\* AcctSetPlayerRequest; with KI number 0 it is "log out", or no player yet
SetPlayer(s, k) ==
  /\ Open(s)
  /\ \/ State(s) \in {LOGIN_DONE, DOWNLOAD, IN_STARTUP}
     \/ State(s) = IN_GAME /\ k = NoKi
  /\ LET answers == IF k = NoKi THEN 1 ELSE 0
         reqid   == IF k = NoKi THEN 0 ELSE NewReq(s)
     IN /\ Requests(s, "player", answers)
        /\ Update(s, [auth[s] EXCEPT !.state = IN_STARTUP, !.kinum = k, !.reqid = reqid,
                        !.download = IF State(s) = DOWNLOAD THEN FALSE ELSE @])
  /\ IF k # NoKi THEN Query(s, "ki", 0, k, auth[s].account)
     ELSE IF auth[s].kinum # NoKi THEN Query(s, "logout", 0, auth[s].kinum, NoKi)
     ELSE UNCHANGED toBack

\* refused while another request is not completed, or for an invalid name
PlayerCreate(s) ==
  /\ Open(s) /\ State(s) >= NONCE_DONE
  /\ IF State(s) # IN_STARTUP THEN Kick(s)
     ELSE \/ Requests(s, "create", 1) /\ UNCHANGED <<auth, toBack>>
          \/ /\ auth[s].reqid = 0
             /\ Requests(s, "create", 0)
             /\ Update(s, [auth[s] EXCEPT !.reqid = NewReq(s)])
             /\ Query(s, "create", NewReq(s), NoKi, NoKi)

\* PlayerDeleteRequest takes m_reqid over, whoever it belonged to
PlayerDelete(s) ==
  /\ Open(s) /\ State(s) >= NONCE_DONE
  /\ IF State(s) # IN_STARTUP
       THEN /\ Requests(s, "delete", 1)
            /\ Update(s, [auth[s] EXCEPT !.reqid = 0])
            /\ UNCHANGED toBack
       ELSE /\ Requests(s, "delete", 0)
            /\ Update(s, [auth[s] EXCEPT !.reqid = NewReq(s)])
            /\ Query(s, "delete", NewReq(s), NoKi, NoKi)

\* `by` is not in this message: it says whom the server believes to be playing
AgeReq(s) ==
  /\ Open(s) /\ State(s) >= NONCE_DONE
  /\ IF State(s) < VAULT_DOWNLOAD THEN Kick(s)
     ELSE /\ Requests(s, "age", 0)
          /\ Update(s, [auth[s] EXCEPT !.state = AGE_REQ, !.reqid = NewReq(s)])
          /\ Query(s, "age", NewReq(s), NoKi, auth[s].kinum)

ClientStep(s) ==
  \/ Negotiate(s) \/ SetUpKey(s) \/ ClientRegister(s) \/ LastChunkAck(s)
  \/ PlayerCreate(s) \/ PlayerDelete(s) \/ AgeReq(s)
  \/ \E a \in Account : LoginReq(s, a)
  \/ \E k \in Ki \cup {NoKi} : SetPlayer(s, k)
  \/ \E whole \in BOOLEAN : FileRequest(s, whole)
  \/ Kick(s)    \* the client closes, is silent, or sends no message

-----------------------------------------------------------------------------
(* The auth server and the backend's answers.                              *)

Arrived(s, type) == Open(s) /\ fromBack[s] # <<>> /\ Head(fromBack[s]).type = type

Killed(s) == Arrived(s, "kill") /\ Kick(s) /\ UNCHANGED backVars

LoginReply(s) ==
  /\ Arrived(s, "login")
  /\ LET m == Head(fromBack[s])
     IN IF State(s) # LOGIN \/ auth[s].reqid # m.req THEN UNCHANGED <<auth, requests>>
        ELSE /\ Answer(s, m.req)
             /\ Update(s, IF m.ok THEN [auth[s] EXCEPT !.state = LOGIN_DONE, !.reqid = 0,
                                                       !.account = m.what]
                          ELSE [auth[s] EXCEPT !.reqid = 0])
  /\ UNCHANGED <<toBack, backVars>>

MutKiReply(s) ==                        \* a slip: no look at the KI number
  /\ Arrived(s, "ki")
  /\ LET m == Head(fromBack[s])
     IN IF State(s) # IN_STARTUP THEN UNCHANGED <<auth, requests, toBack>>
        ELSE IF m.stranger THEN Kick(s)
        ELSE /\ IF auth[s].reqid = 0 THEN UNCHANGED requests ELSE Answer(s, auth[s].reqid)
             /\ IF m.ok THEN Update(s, [auth[s] EXCEPT !.state = VAULT_DOWNLOAD])
                ELSE UNCHANGED auth
             /\ UNCHANGED toBack
  /\ UNCHANGED backVars

\* the answer goes to the request m_reqid names, which a PlayerDelete may have
\* taken over or, answered itself, have left 0
KiReply(s) ==
  /\ Arrived(s, "ki")
  /\ LET m == Head(fromBack[s])
     IN IF State(s) # IN_STARTUP \/ auth[s].kinum # m.what
          THEN UNCHANGED <<auth, requests, toBack>>
        ELSE IF m.stranger THEN Kick(s)
        ELSE /\ IF auth[s].reqid = 0 THEN UNCHANGED requests ELSE Answer(s, auth[s].reqid)
             /\ IF m.ok THEN Update(s, [auth[s] EXCEPT !.state = VAULT_DOWNLOAD])
                ELSE UNCHANGED auth
             /\ UNCHANGED toBack
  /\ UNCHANGED backVars

\* VAULT_PLAYER_CREATE, VAULT_PLAYER_DELETE: the client hears of them, stale or not
PlayerReply(s) ==
  /\ Arrived(s, "create") \/ Arrived(s, "delete")
 
  /\ LET m == Head(fromBack[s])
     IN /\ Answer(s, m.req)
        /\ Update(s, IF State(s) # IN_STARTUP \/ auth[s].reqid # m.req THEN auth[s]
                     ELSE [auth[s] EXCEPT !.reqid = 0])
  /\ UNCHANGED <<toBack, backVars>>

MutAgeReply(s) ==                       \* a slip: no look at m_reqid
  /\ Arrived(s, "age")
  /\ LET m == Head(fromBack[s])
     IN IF State(s) # AGE_REQ THEN UNCHANGED <<auth, requests>>
        ELSE /\ Answer(s, m.req)
             /\ Update(s, [auth[s] EXCEPT !.reqid = 0, !.state = IF m.ok THEN IN_GAME ELSE @])
  /\ UNCHANGED <<toBack, backVars>>

AgeReply(s) ==
  /\ Arrived(s, "age")
  /\ LET m == Head(fromBack[s])
     IN IF State(s) # AGE_REQ \/ auth[s].reqid # m.req THEN UNCHANGED <<auth, requests>>
        ELSE /\ Answer(s, m.req)
             /\ Update(s, [auth[s] EXCEPT !.reqid = 0, !.state = IF m.ok THEN IN_GAME ELSE @])
  /\ UNCHANGED <<toBack, backVars>>

ReplyStep(s) ==
  /\ Killed(s) \/ LoginReply(s) \/ KiReply(s) \/ PlayerReply(s) \/ AgeReply(s)
  /\ Waiting(s, Tail(fromBack[s]))

-----------------------------------------------------------------------------
(* The backend.                                                            *)

Asked(s, type) == toBack[s] # <<>> /\ Head(toBack[s]).type = type
Handled(s) == toBack' = [toBack EXCEPT ![s] = Tail(@)]

Reply(type, req, what, ok) ==
  [type |-> type, req |-> req, what |-> what, ok |-> ok, stranger |-> FALSE]
Stranger(m) == [m EXCEPT !.stranger = TRUE]
KillMsg == Reply("kill", 0, NoKi, FALSE)
\* what is sent to a server that has ended is lost
Deliver(to, s, m) == IF Open(s) THEN [to EXCEPT ![s] = Append(@, m)] ELSE to

Fails == failures < MaxFailures /\ failures' = failures + 1
NoFailure == UNCHANGED failures

\* find_by_uuid: the first in the hash table
LoggedIn(a) == {t \in Session : entity[t].account = a}
Lowest(S) == CHOOSE t \in S : \A u \in S : t <= u

\* AUTH_ACCT_LOGIN.  A session of the account is punted before the last query,
\* for the players of the account, which may fail.
AcctLogin(s) ==
  /\ Asked(s, "login") /\ Handled(s)
  /\ LET m == Head(toBack[s])
         a == m.what
         punted == LoggedIn(a)
         killed == IF punted = {} THEN fromBack ELSE Deliver(fromBack, Lowest(punted), KillMsg)
     IN \/ /\ fromBack' = Deliver(fromBack, s, Reply("login", m.req, NoAccount, FALSE))
           /\ UNCHANGED <<entity, connected, failures>>
        \/ \E ok \in BOOLEAN :
             /\ IF ok THEN NoFailure ELSE Fails
             /\ fromBack' = Deliver(killed, s,
                              Reply("login", m.req, IF ok THEN a ELSE NoAccount, ok))
             /\ entity' = [entity EXCEPT ![s].account = a]
             /\ connected' = IF punted = {} THEN connected
                             ELSE connected \ {entity[Lowest(punted)].kinum}
  /\ UNCHANGED <<auth, requests, ages>>

\* AUTH_KI_VALIDATE
KiValidate(s) ==
  /\ Asked(s, "ki") /\ Handled(s)
  /\ LET m == Head(toBack[s])
         k == m.what
         reply(ok) == Reply("ki", 0, k, ok)
     IN \/ /\ Holder[k] = m.by /\ NoFailure
           /\ fromBack' = Deliver(fromBack, s, reply(TRUE))
           /\ entity' = [entity EXCEPT ![s].kinum = k]
           /\ connected' = connected \cup {k}
        \/ /\ Holder[k] # m.by /\ NoFailure
           /\ fromBack' = Deliver(fromBack, s, Stranger(reply(FALSE)))
           /\ UNCHANGED <<entity, connected>>
        \/ /\ Fails
           /\ fromBack' = Deliver(fromBack, s, reply(FALSE))
           /\ UNCHANGED <<entity, connected>>
  /\ UNCHANGED <<auth, requests, ages>>

\* AUTH_PLAYER_LOGOUT: the entity keeps its KI number
PlayerLogout(s) ==
  /\ Asked(s, "logout") /\ Handled(s)
  /\ connected' = connected \ {Head(toBack[s]).what}
  /\ UNCHANGED <<auth, requests, fromBack, entity, ages, failures>>

\* VAULT_PLAYER_CREATE, VAULT_PLAYER_DELETE; a creation that is in doubt twice
\* has the client killed
ChangePlayers(s) ==
  /\ Asked(s, "create") \/ Asked(s, "delete")
  /\ Handled(s)
  /\ LET m == Head(toBack[s])
     IN \/ fromBack' = Deliver(fromBack, s, Reply(m.type, m.req, NoKi, TRUE)) /\ NoFailure
        \/ /\ m.type = "create" /\ Fails
           /\ fromBack' = Deliver(fromBack, s, KillMsg)
  /\ UNCHANGED <<auth, requests, entity, ages, connected>>

\* TRACK_FIND_GAME; Tracker.tla has what becomes of it
FindGame(s) ==
  /\ Asked(s, "age") /\ Handled(s)
  /\ \/ /\ ages' = [ages EXCEPT ![s] = @ \cup {Head(toBack[s]).req}]
        /\ UNCHANGED <<fromBack, failures>>
     \/ Fails /\ fromBack' = Deliver(fromBack, s, KillMsg) /\ UNCHANGED ages
  /\ UNCHANGED <<auth, requests, entity, connected>>

AgeFound(s, r, ok) ==
  /\ r \in ages[s]
  /\ ages' = [ages EXCEPT ![s] = @ \ {r}]
  /\ fromBack' = Deliver(fromBack, s, Reply("age", r, NoKi, ok))
  /\ UNCHANGED <<auth, requests, toBack, entity, connected, failures>>

\* conn_shutdown
SessionEnds(s) ==
  /\ Asked(s, "close") /\ Handled(s)
  /\ entity' = [entity EXCEPT ![s] = [account |-> NoAccount, kinum |-> NoKi]]
  /\ ages' = [ages EXCEPT ![s] = {}]
  /\ connected' = connected \ {entity[s].kinum}
  /\ UNCHANGED <<auth, requests, fromBack, failures>>

BackendStep(s) ==
  \/ AcctLogin(s) \/ KiValidate(s) \/ PlayerLogout(s) \/ ChangePlayers(s)
  \/ FindGame(s) \/ SessionEnds(s)

-----------------------------------------------------------------------------
Init ==
  /\ auth = [s \in Session |-> Fresh]
  /\ requests = [s \in Session |-> <<>>]
  /\ toBack = [s \in Session |-> <<>>] /\ fromBack = [s \in Session |-> <<>>]
  /\ entity = [s \in Session |-> [account |-> NoAccount, kinum |-> NoKi]]
  /\ ages = [s \in Session |-> {}]
  /\ connected = {} /\ failures = 0

Next ==
  \E s \in Session :
    \/ ClientStep(s) /\ Waiting(s, fromBack[s]) /\ UNCHANGED backVars
    \/ ReplyStep(s)
    \/ BackendStep(s)
    \/ \E r \in 1..MaxRequests[s], ok \in BOOLEAN : AgeFound(s, r, ok)

Spec == Init /\ [][Next]_vars

(* Messages arrive and are handled, and tracking answers an age request    *)
(* (RequestIsAnswered of MCTracker.tla); a client need not do anything.    *)
FairSpec ==
  /\ Spec
  /\ \A s \in Session :
       /\ WF_vars(ReplyStep(s)) /\ WF_vars(BackendStep(s))
       /\ \A r \in 1..MaxRequests[s] : WF_vars(\E ok \in BOOLEAN : AgeFound(s, r, ok))
=============================================================================
