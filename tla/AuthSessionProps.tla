--------------------------- MODULE AuthSessionProps ---------------------------
(***************************************************************************)
(* What the auth servers and the backend promise of a session.             *)
(***************************************************************************)
EXTENDS AuthSession

\* A session that downloads the vault or plays does so as a player of its own
\* account, whichever players it asked for before the backend's answers came.
PlaysItsOwn ==
  \A s \in Session :
    Open(s) /\ State(s) >= VAULT_DOWNLOAD =>
      auth[s].kinum # NoKi /\ Holder[auth[s].kinum] = auth[s].account

\* Whoever is logged in is, to the backend, logged in to the same account: a
\* login that was superceded by another does not count on one side only.
SameAccount ==
  \A s \in Session :
    Open(s) /\ State(s) >= LOGIN_DONE => auth[s].account = entity[s].account

\* Unless the database fails, an age request is made for the player the session
\* plays (the backend takes the player from its own record of the session).
RightPlayerIsSent ==
  \A s \in Session :
    Asked(s, "age") /\ failures = 0 => entity[s].kinum = Head(toBack[s]).by

\* What the server and the backend each believe of a session is the same
\* account and the same player, and it is one of the account's players.
SidesAgree == PlaysItsOwn /\ SameAccount /\ RightPlayerIsSent

\* The client is sent to an age, or told that it cannot, only for the last age
\* request it made, however late the answers to those before it come.
AnswersTheLast(s) ==
  \A r \in DOMAIN requests[s] :
    requests[s][r].kind = "age" /\ requests'[s][r].answers > requests[s][r].answers =>
      \A l \in DOMAIN requests[s] : l > r => requests[s][l].kind # "age"
OnlyTheLastAge == [][\A s \in Session : AnswersTheLast(s)]_vars

\* The request a client made last is answered, unless the session ends or the
\* client makes another.
LastRequestIsAnswered ==
  \A s \in Session :
    []<>(~Open(s) \/ requests[s] = <<>> \/ Last(requests[s]).answers > 0)

-----------------------------------------------------------------------------
\* "if there were any errors, the player will miss out on certain vault update
\* messages" (AUTH_KI_VALIDATE): if there were none, the player of a session is
\* in the table of those who are to get them.
PlayerIsConnected ==
  \A s \in Session :
    Open(s) /\ State(s) >= VAULT_DOWNLOAD /\ failures = 0 /\ fromBack[s] = <<>> /\ toBack[s] = <<>>
      => auth[s].kinum \in connected
===============================================================================
