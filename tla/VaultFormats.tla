---------------------------- MODULE VaultFormats ----------------------------
(***************************************************************************)
(* Vault messages cross the auth server unread.  It frames what a client   *)
(* sends (AuthMessage.cc), puts it behind a backend header as it is, and   *)
(* the backend reads it (BackendMessage.cc); what the backend answers goes *)
(* back to the client without that header.                                 *)
(* The client's own layout of a message is external: it is modelled as the *)
(* fields in the order the backend takes them from the message.            *)
(***************************************************************************)
EXTENDS MarkerFormats

\* A string of a client: a count of wide characters, without a null.
ClientStr(m, name) == Str(m, name, WIDE, 0)

\* What the client sends, behind the two bytes of its message type.
Client(fields) == Fixed(VaultPassthroughMembers, <<"msgtype">>) \o fields

\* AuthClientVaultMessage::make_if_enough: the length a whole message has.
VaultLength(m) ==
  CASE m.class \in {"VaultNodeFetch_To", "VaultFetchRefs_To", "VaultNodeSend"} -> 10
    [] m.class \in {"VaultNode_To"} /\ ~m.long -> 10 + m.n
    [] m.class \in {"VaultNode_To"} /\ m.long  -> 30 + m.n
    [] m.class = "VaultRefChange_To" /\ m.long  -> 18
    [] m.class = "VaultRefChange_To" /\ ~m.long -> 14
    [] m.class = "VaultScoreXferPoints" -> 18
    [] m.class = "VaultScoreAddPoints"  -> 14
    [] m.class = "VaultInitAge_To"      -> 38 + 4 * (2 + 2 * m.n) + 8
    [] m.class = "VaultAgeList_To"      -> 8 + 2 * m.n
    [] m.class = "VaultScoreCreate"     -> 20 + 2 * m.n
    [] m.class = "VaultScoreGet_To"     -> 12 + 2 * m.n
    [] m.class = "VaultSetAgePublic"    -> 7

(***************************************************************************)
(* The receiving constructors.  They keep either a copy of what follows    *)
(* the header, or, when they own it, the buffer from the header on: then   *)
(* m_vault_offset is the header's length.  Some own it in any case.        *)
(***************************************************************************)
MutVaultOffset(owner) == 0
VaultOffset(owner) == IF owner THEN HEADER ELSE 0
BufStart(owner) == IF owner THEN 0 ELSE HEADER
At(owner, off) == BufStart(owner) + VaultOffset(owner) + off

Vault(m, fields, reads) == Layout(Client(fields), VaultLength(m), reads)

VaultFetchRefs_To(m) ==
  LET M == VaultFetchRefs_ToMembers
  IN  Vault(m, Fixed(M, <<"reqid", "node">>),
            From(At(TRUE, 2), Fixed(M, <<"reqid">>))
              \o From(At(TRUE, 6), Fixed(M, <<"node">>)))

\* A search, a new node, or (m.long) a node to save.  The node itself is
\* taken from the start of the buffer, without the vault offset.
VaultNode_To(m) ==
  LET M == VaultNode_ToMembers
      off == IF m.long THEN 26 ELSE 6
  IN  Vault(m, Fixed(M, <<"reqid">>) \o Opt(m.long, Fixed(M, <<"id", "uuid">>))
                 \o Buf("nodelen", 4) \o Buf("node", m.n),
            From(At(m.owner, 2), Fixed(M, <<"reqid">>))
              \o Opt(m.long, From(At(m.owner, 6), Fixed(M, <<"id", "uuid">>)))
              \o <<<<"nodelen", BufStart(m.owner) + off, 4>>,
                   <<"node", BufStart(m.owner) + off + 4, m.n>>>>)

VaultNodeFetch_To(m) ==
  LET M == VaultNodeFetch_ToMembers
  IN  Vault(m, Fixed(M, <<"reqid", "node">>),
            From(At(TRUE, 2), Fixed(M, <<"reqid">>))
              \o From(At(TRUE, 6), Fixed(M, <<"node">>)))

\* A reference to add names its owner too (m.long).
VaultRefChange_To(m) ==
  LET M == VaultRefChange_ToMembers
      fields == Fixed(M, <<"reqid", "parent", "child">>)
                  \o Opt(m.long, Fixed(M, <<"owner">>))
  IN  Vault(m, fields, From(At(TRUE, 2), fields))

VaultInitAge_To(m) ==
  LET M == VaultInitAge_ToMembers
      fields == Fixed(M, <<"reqid", "createuuid", "parentuuid">>)
                  \o ClientStr(m, "filename") \o ClientStr(m, "instance")
                  \o ClientStr(m, "username") \o ClientStr(m, "dispname")
                  \o Fixed(M, <<"unk", "id">>)
  IN  Vault(m, fields, From(At(m.owner, 2), fields))

VaultAgeList_To(m) ==
  LET fields == Fixed(VaultAgeList_ToMembers, <<"reqid">>)
                  \o ClientStr(m, "filename")
  IN  Vault(m, fields, From(At(m.owner, 2), fields))

VaultNodeSend(m) ==
  LET M == VaultNodeSendMembers
  IN  Vault(m, Fixed(M, <<"nodeid", "player">>),
            From(At(TRUE, 2), Fixed(M, <<"nodeid">>))
              \o From(At(TRUE, 6), Fixed(M, <<"player">>)))

VaultSetAgePublic(m) ==
  LET M == VaultSetAgePublicMembers
  IN  Vault(m, Fixed(M, <<"nodeid", "public">>),
            From(At(TRUE, 2), Fixed(M, <<"nodeid">>))
              \o From(At(TRUE, 6), Fixed(M, <<"public">>)))

VaultScoreGet_To(m) ==
  LET M == VaultScoreGet_ToMembers
      name == ClientStr(m, "name")
  IN  Vault(m, Fixed(M, <<"reqid", "holder">>) \o name,
            From(At(m.owner, 2), Fixed(M, <<"reqid">>))
              \o From(At(m.owner, 6), Fixed(M, <<"holder">>))
              \o From(At(m.owner, 10), name))

\* What is behind the name is looked for from m_vault_offset twice over.
VaultScoreCreate(m) ==
  LET M == VaultScoreCreateMembers
      name == ClientStr(m, "name")
      score == Fixed(M, <<"type", "value">>)
      off == VaultOffset(m.owner) + 10 + Width(name)
  IN  Vault(m, Fixed(M, <<"reqid", "holder">>) \o (name \o score),
            From(At(m.owner, 2), Fixed(M, <<"reqid">>))
              \o From(At(m.owner, 6), Fixed(M, <<"holder">>))
              \o From(At(m.owner, 10), name)
              \o From(At(m.owner, off), score))

VaultScoreAddPoints(m) ==
  LET fields == Fixed(VaultScoreAddPointsMembers, <<"reqid", "scoreid", "delta">>)
  IN  Vault(m, fields, From(At(TRUE, 2), fields))

VaultScoreXferPoints(m) ==
  LET fields == Fixed(VaultScoreXferPointsMembers,
                      <<"reqid", "scoreid", "destid", "delta">>)
  IN  Vault(m, fields, From(At(TRUE, 2), fields))

-----------------------------------------------------------------------------
(***************************************************************************)
(* Answers of the backend.  The auth server reads every one of them as a   *)
(* plain VaultPassthrough: the whole of what is behind the header, and the *)
(* message type from the start of the buffer, without the vault offset.    *)
(***************************************************************************)
Body(claim, owner) ==
  <<<<"msgtype", BufStart(owner), 2>>, <<"whole", At(owner, 0), claim>>>>

VaultPassthrough(m) ==
  Layout(Client(Buf("contents", m.n)), 2 + m.n, Body(2 + m.n, m.owner))

\* An answer with a node, or an error and a node of no length.
NodeLen(m) == 4 + m.n
VaultNodeFetch_From(m) ==
  LET M == VaultNodeFetch_FromMembers
      claim == IF m.long THEN 10 + NodeLen(m) ELSE 14
  IN  Layout(Client(Fixed(M, <<"reqid", "result">>)
                      \o Buf("node", IF m.long THEN NodeLen(m) ELSE 4)),
             claim, Body(claim, m.owner))

\* A score, or (short) none.
VaultScoreGet_From(m) ==
  LET M == VaultScoreGet_FromMembers
      score == 24 + 2 * (m.n + 1)
      claim == IF m.long THEN 18 + score ELSE 18
  IN  Layout(Client(Fixed(M, <<"reqid", "result", "code", "msglen">>)
                      \o Opt(m.long, Buf("score", score))),
             claim, Body(claim, m.owner))
=============================================================================
