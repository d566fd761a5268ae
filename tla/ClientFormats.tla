--------------------------- MODULE ClientFormats ----------------------------
(***************************************************************************)
(* The messages of clients and the server's own to them (AuthMessage.cc,   *)
(* GameMessage.cc, GatekeeperMessage.cc).                                  *)
(*                                                                         *)
(* A client's message has no common header.  Each make_if_enough works out *)
(* the length from the bytes that have come so far, and says -1 as long as *)
(* it cannot.  Heard(fields, total, known, needs) is that:                 *)
(*   fields  what the client sends (external: in the order the code takes);*)
(*   total   the length the code comes to;                                 *)
(*   known   how many bytes it waits for before it names that length;      *)
(*   needs   how many bytes hold the counts that it reads for that.        *)
(*                                                                         *)
(* Told(fields, len, framed): the fields put in a message to the client,   *)
(* the length the server's queue goes by, and the length the message       *)
(* itself tells the client.                                                *)
(***************************************************************************)
EXTENDS VaultFormats

Heard(fields, total, known, needs) ==
  [writes |-> fields, total |-> total, known |-> known, needs |-> needs]
Told(fields, len, framed) ==
  [writes |-> fields, len |-> len, framed |-> framed]

Type == <<<<"type", 2>>>>
Reqid == <<<<"reqid", 4>>>>
Blank(width) == <<<<"blank", width>>>>

\* A string of a client of the auth server: its count and its characters.
Counted(m) == 2 + 2 * m.n

-----------------------------------------------------------------------------
(***************************************************************************)
(* From the client to the auth server.                                     *)
(***************************************************************************)
AuthPing(m) == Heard(Type \o Buf("ping", 12), 14, 2, 2)
ClientRegister(m) == Heard(Type \o Buf("build", 4), 6, 2, 2)
AcctSetPlayer(m) == Heard(Type \o Reqid \o Buf("kinum", 4), 10, 2, 2)

\* The name, the hash of the password, then two more strings.
MutAuthClientLogin(m) ==
  LET rest == 10 + Counted(m) + 20
  IN  Heard(Type \o Buf("head", 8) \o ClientStr(m, "name") \o Buf("hash", 20)
              \o ClientStr(m, "token") \o ClientStr(m, "os"),
            rest + 2 * Counted(m), rest + 2, rest + Counted(m) + 2)
AuthClientLogin(m) ==
  LET hash == 10 + Counted(m)
      rest == hash + 20
  IN  Heard(Type \o Buf("head", 8) \o ClientStr(m, "name") \o Buf("hash", 20)
              \o ClientStr(m, "token") \o ClientStr(m, "os"),
            rest + 2 * Counted(m), rest + Counted(m) + 2,
            rest + Counted(m) + 2)

\* At least 28 bytes are awaited before the name's length is looked at.
AuthClientChangePass(m) ==
  Heard(Type \o Reqid \o ClientStr(m, "name") \o Buf("hash", 20),
        6 + Counted(m) + 20, 28, 8)

\* An acknowledgement, a list of two strings, or (m.long) a download.
FileChunkAck(m) == Heard(Type \o Reqid, 6, 2, 2)
AuthClientFile(m) ==
  IF m.long
  THEN Heard(Type \o Reqid \o ClientStr(m, "filename"), 6 + Counted(m), 8, 8)
  ELSE Heard(Type \o Reqid \o ClientStr(m, "dir") \o ClientStr(m, "ext"),
             6 + 2 * Counted(m), 6 + Counted(m) + 2, 6 + Counted(m) + 2)

\* The gender's count and the invite code's are read once the gender's count
\* is there: by then the invite code's need not be.
AuthClientPlayerCreate(m) ==
  LET gender == 6 + Counted(m)
  IN  Heard(Type \o Reqid \o ClientStr(m, "name") \o ClientStr(m, "gender")
              \o ClientStr(m, "invite"),
            6 + 3 * Counted(m), gender + 2, gender + Counted(m) + 2)

AuthClientAgeRequest(m) ==
  Heard(Type \o Reqid \o ClientStr(m, "name") \o Buf("uuid", UUID),
        6 + Counted(m) + 16, 8, 8)
AuthClientLog(m) == Heard(Type \o ClientStr(m, "text"), 2 + Counted(m), 4, 4)

SendFriendInvite(m) ==
  Heard(Type \o Buf("head", 20) \o ClientStr(m, "mail") \o ClientStr(m, "to"),
        22 + 2 * Counted(m), 22 + Counted(m) + 2, 22 + Counted(m) + 2)

\* AuthClientVaultMessage: the length is that of VaultFormats, and known with
\* the count of the node's bytes, of the last of four strings, or of the one.
VaultKnown(m) ==
  CASE m.class = "VaultNode_To"   -> IF m.long THEN 30 ELSE 10
    [] m.class = "VaultInitAge_To" -> 38 + 3 * Counted(m) + 2
    [] m.class = "VaultAgeList_To" -> 8
    [] m.class \in {"VaultScoreCreate", "VaultScoreGet_To"} -> 12
    [] OTHER -> 2
-----------------------------------------------------------------------------
(***************************************************************************)
(* From the client to a game server or a gatekeeper.                       *)
(***************************************************************************)
GamePing(m) == Heard(Type \o Buf("ping", 4), 6, 2, 2)
GameJoinRequest(m) ==
  Heard(Type \o Reqid \o Buf("serverid", 4) \o Buf("uuid", UUID)
          \o Buf("kinum", 4), 30, 2, 2)
PropagateBuffer(m) ==
  Heard(Type \o Buf("subtype", 4) \o Buf("len", 4) \o Buf("body", m.n),
        m.n + 10, 10, 10)
GameMgr(m) == Heard(Type \o Buf("len", 4) \o Buf("body", m.n), m.n + 6, 6, 6)

\* No want_len at all: the gatekeeper's messages are 7 or 14 bytes.
GatekeeperClient(m) == Heard(Type \o Reqid \o Buf("ispatcher", 1), 7, 7, 2)
GatekeeperPing(m) == Heard(Type \o Buf("ping", 12), 14, 14, 2)

-----------------------------------------------------------------------------
(***************************************************************************)
(* From the auth server: the type, then a buffer of m_buflen bytes.        *)
(***************************************************************************)
AuthReply(fields, m_buflen) ==
  Told(Type \o fields, m_buflen + 2, 2 + Width(fields))

AuthServerLogin(m) ==
  AuthReply(Reqid \o Buf("status", 4)
              \o (IF m.long
                  THEN Buf("uuid", UUID) \o Buf("unk", 4)
                         \o Buf("customer_type", 4) \o Buf("key", 16)
                  ELSE Blank(40)), 48)
AuthServerChangePass(m) == AuthReply(Reqid \o Buf("status", 4), 8)
AuthServerPlayerCreate(m) ==
  IF m.long
  THEN AuthReply(Reqid \o Buf("status", 4) \o Buf("kinum", 4)
                   \o Buf("acct_type", 4) \o Str(m, "name", WIDE, 0)
                   \o Str(m, "gender", WIDE, 0),
                 16 + 2 * send_len(m, WIDE, 0))
  ELSE AuthReply(Reqid \o Buf("status", 4) \o Blank(12), 20)
AuthServerKick(m) == AuthReply(Buf("reason", 4), 4)

\* Ten bytes of m_topbuf, the type among them, and the body as it came.
AuthServerAgeReply(m) ==
  Told(Type \o Reqid \o Buf("result", 4) \o Buf("body", 28), 28 + 10, 38)

-----------------------------------------------------------------------------
(***************************************************************************)
(* From a game server.  A PropagateBuffer says its length less ten, a      *)
(* GameMgr message its length less six (format_header); either is one      *)
(* buffer of m_buflen bytes.                                               *)
(***************************************************************************)
GameJoinReply(m) == Told(Type \o Reqid \o Buf("result", 4), 10, 10)

\* Sixteen bytes, then the time and the player if the flags name them.
body_offset(time, player) == 16 + (IF time THEN 8 ELSE 0)
                                + (IF player THEN 4 ELSE 0)
Propagated(time, player, m_buflen, fields) ==
  Told(Type \o Buf("subtype", 4) \o Buf("len", 4) \o Buf("again", 2)
         \o Buf("flags", 4) \o Opt(time, Buf("time", 8))
         \o Opt(player, Buf("ki", 4)) \o fields,
       m_buflen, 10 + (m_buflen - 10))

\* Members of an age: each a fixed part, a name when it pages in (m.long: a
\* list of m.n members; else an update about one), and a key without a name.
KEY == 1
PlNetMsgGroupOwner(m) ==
  Propagated(TRUE, FALSE, body_offset(TRUE, FALSE) + 12,
             Buf("mask", 4) \o Buf("group", 6) \o Buf("unk", 1)
               \o Buf("is_owner", 1))
PlNetMsgInitialAgeStateSent(m) ==
  Propagated(TRUE, FALSE, body_offset(TRUE, FALSE) + 4, Buf("howmany", 4))
MemberOf(m) ==
  Buf("unk", 4) \o Buf("contents", 2) \o Buf("ki", 4)
    \o Str(m, "name", NARROW, 0) \o Buf("ccr", 1)
    \o Buf("key", KEY)
finalize(m, howmany) ==
  body_offset(TRUE, TRUE)
    + howmany * (10 + send_len(m, NARROW, 0) + 1 + KEY)
    + (IF m.long THEN 2 ELSE 1)
PlNetMsgMembers(m) ==
  IF m.long
  THEN Propagated(TRUE, TRUE, finalize(m, m.n),
                  Buf("listlen", 2)
                    \o FlattenSeq([i \in 1..m.n |-> MemberOf(m)]))
  ELSE Propagated(TRUE, TRUE, finalize(m, 1), MemberOf(m) \o Buf("pagein", 1))

\* State of the age: the length is set by what write_msg wrote.
PlNetMsgSDLState(m) ==
  Propagated(m.long, FALSE, body_offset(m.long, FALSE) + m.n + 3,
             Buf("sdl", m.n) \o Buf("initial", 2) \o Buf("end", 1))

\* build_msg, for the answer to a request for a lock: one subobject, no object.
PlServerReply(m) ==
  Propagated(TRUE, FALSE, body_offset(TRUE, FALSE) + 4 + 11 + 5 + 12 + 1 + 1 + KEY,
             Buf("wrapper", 9) \o Buf("msg_type", 2) \o Buf("object", 1)
               \o Buf("subobject_count", 4) \o Buf("subobject", 1 + KEY)
               \o Buf("unk", 8) \o Buf("msg_flags", 4) \o Buf("result", 4)
               \o Buf("end", 1))
PlNetMsgLoadClone(m) ==
  Propagated(TRUE, TRUE, body_offset(TRUE, TRUE) + m.n + KEY + 3,
             Buf("clone", m.n) \o Buf("object", KEY) \o Buf("player", 1)
               \o Buf("is_load", 2))

header_len == 22
format_header(body_len) == header_len - 6 + body_len
Managed(m_buflen, body_len, fields) ==
  Told(Type \o Buf("len", 4) \o Buf("msgtype", 4) \o Reqid \o Buf("gameid", 4)
         \o Buf("len2", 4) \o fields,
       m_buflen, 6 + format_header(body_len))

\* A string in a field of fixed size, filled up with nulls.
InField(m, name, size) ==
  LET len == WIDE * (m.n + 1)
  IN  <<<<name, len>>, <<"nulls", size - len>>>>

GameMgr_Setup_Reply(m) ==
  Managed(header_len + 12 + UUID, header_len + 12 + UUID - header_len,
          Blank(4) \o Buf("clientid", 4) \o Buf("uuid", UUID)
            \o Buf("new_gameid", 4))
GameMgr_Simple(m) == Managed(header_len, 0, <<>>)
GameMgr_OneByte(m) == Managed(header_len + 1, 1, Buf("data", 1))
GameMgr_FourByte(m) == Managed(header_len + 4, 4, Buf("data", 4))
GameMgr_VarSync_VarCreated(m) ==
  Managed(header_len + 524, 524,
          InField(m, "name", 512) \o Buf("idx", 4) \o Buf("value", 8))
UUID_STR_LEN == 37
GameMgr_Marker_GameCreated(m) ==
  Managed(header_len + 160, 160,
          Buf("uuid", UUID_STR_LEN * 2) \o Blank(160 - UUID_STR_LEN * 2))
GameMgr_Marker_GameNameChanged(m) ==
  Managed(header_len + 512, 512, InField(m, "name", 512))
\* Its own fill_iovecs and length, from the header, the data of the backend's
\* message and two strings with their nulls.
GameMgr_Marker_MarkerAdded(m) ==
  Managed(header_len + 28 + 512 + 160, 28 + 512 + 160,
          Buf("data", 28) \o InField(m, "name", 512) \o InField(m, "age", 160))
GameMgr_Marker_MarkerCaptured(m) ==
  Managed(header_len + 5, 5, Buf("marker", 4) \o Buf("value", 1))
GameMgr_Marker_MarkerNameChanged(m) ==
  Managed(header_len + 4 + 512, 516,
          Buf("marker", 4) \o InField(m, "name", 512))
GameMgr_BlueSpiral_ClothOrder(m) == Managed(header_len + 7, 7, Buf("order", 7))
GameMgr_Heek_PlayGame(m) ==
  Managed(header_len + 3, 3,
          Buf("playing", 1) \o Buf("single", 1) \o Buf("enable", 1))
GameMgr_Heek_Welcome(m) ==
  Managed(header_len + 8 + 512, 8 + 512,
          Buf("score", 4) \o Buf("rank", 4) \o InField(m, "name", 512))
GameMgr_Heek_PointUpdate(m) ==
  Managed(header_len + 9, 9,
          Buf("send_message", 1) \o Buf("score", 4) \o Buf("rank", 4))
GameMgr_Heek_WinLose(m) ==
  Managed(header_len + 2, 2, Buf("win", 1) \o Buf("choice", 1))
GameMgr_Heek_Lights(m) ==
  Managed(header_len + 2, 2, Buf("light", 1) \o Buf("type", 1))

\* The address of a file or auth server.
GatekeeperServer(m) ==
  Told(Type \o Reqid \o Str(m, "addr", WIDE, 0), 6 + send_len(m, WIDE, 0),
       6 + send_len(m, WIDE, 0))
=============================================================================
