------------------------------ MODULE MCLinks ------------------------------
(***************************************************************************)
(* Every class of message, in both its forms and with 0, 1 and 2           *)
(* characters, bytes or entries in what varies.                            *)
(***************************************************************************)
EXTENDS Links

CONSTANT Lengths

\* Classes with a long form and a short one.
TwoForms ==
  {"KillClient", "AuthAcctLogin_To", "AuthAcctLogin_From",
   "VaultPlayerCreate_From", "TrackServiceTypes", "TrackFindService_From",
   "TrackMsgForward", "TrackNextGameID", "VaultNode_To", "VaultRefChange_To",
   "VaultNodeFetch_From", "VaultScoreGet_From", "AuthClientFile",
   "AuthServerLogin", "AuthServerPlayerCreate", "PlNetMsgMembers",
   "PlNetMsgSDLState"}

All(classes) ==
  {m \in [class : classes, long : BOOLEAN, n : Lengths, owner : {FALSE}] :
     m.long => m.class \in TwoForms}

\* Requests the receiver may have to own the buffer of.  A node, a new score and
\* every answer are then read from the wrong place: they are not owned here.
Owned == [class : {"VaultInitAge_To", "VaultAgeList_To", "VaultScoreGet_To"},
          long : {FALSE}, n : {2}, owner : {TRUE}]

\* The length of an invite code is read before it has come.
Unframed == {"AuthClientPlayerCreate"}

EveryMessage ==
  All((BackendClasses \union VaultClasses \union AnswerClasses
         \union HeardClasses \union CodedClasses \union ToldClasses)
        \ Unframed)
    \union Owned

\* The answers of the backend that are relayed to a client.
Answers == All(AnswerClasses)
=============================================================================
