--------------------------- MODULE BackendFormats ---------------------------
(***************************************************************************)
(* The backend messages on the wire (BackendMessage.cc).  Every class says *)
(* the same thing three times, in code kept apart: the constructor that    *)
(* makes a message claims its length (setup_header), fill_type writes its  *)
(* fields, and the constructor that receives it reads them at offsets of   *)
(* its own.  The layout of a class is those three, side by side:           *)
(*   writes  the fields fill_type writes behind the header, in order;      *)
(*   claims  the content length given to setup_header;                     *)
(*   reads   where the receiving constructor looks for each field, from    *)
(*           the first byte of the header.                                 *)
(* A message m has a class, the long form or the short one (m.long: the    *)
(* case its class distinguishes), a length for what varies in it (m.n:     *)
(* characters of each string, bytes of a buffer, entries of a list) and,   *)
(* when it was too long for the read buffer, its own buffer (m.owner).     *)
(***************************************************************************)
EXTENDS BackendMembers, Integers, Sequences, SequencesExt

HEADER == 16

\* Fields: pairs of a name and a width.  Fixed(M, names): members of M.
Fixed(M, names) == [i \in DOMAIN names |-> <<names[i], M[names[i]]>>]
Opt(present, fs) == IF present THEN fs ELSE <<>>
Width(fs) ==
  LET upto[i \in 0..Len(fs)] == IF i = 0 THEN 0 ELSE upto[i - 1] + fs[i][2]
  IN  upto[Len(fs)]

\* A string as UruString sends it: a length, the characters, a null if asked.
NARROW == 1
WIDE   == 2
send_len(m, wide, nulls) == 2 + wide * (m.n + nulls)
Str(m, name, wide, nulls) == <<<<name, send_len(m, wide, nulls)>>>>
Buf(name, width) == <<<<name, width>>>>

\* Reading: each field at the end of the one before it, from offset at.
From(at, fs) ==
  [i \in DOMAIN fs |-> <<fs[i][1], at + Width(SubSeq(fs, 1, i - 1)), fs[i][2]>>]

Layout(writes, claims, reads) ==
  [writes |-> writes, claims |-> claims, reads |-> reads]

-----------------------------------------------------------------------------
(***************************************************************************)
(* Administration and accounts.                                            *)
(***************************************************************************)
Hello(m) ==
  LET peer == Fixed(HelloMembers, <<"peer_info">>)
  IN  Layout(peer, 4, From(16, peer))

\* A game server is told which player: only then is the reason not the end.
KillClient(m) ==
  LET M == KillClientMembers
  IN  Layout(Fixed(M, <<"reason">>) \o Opt(m.long, Fixed(M, <<"ki">>)),
             IF m.long THEN 8 ELSE 4,
             From(16, Fixed(M, <<"reason">>))
               \o Opt(m.long, From(20, Fixed(M, <<"ki">>))))

AuthAcctLogin_To(m) ==
  LET M == AuthAcctLogin_ToMembers
      fields == Fixed(M, <<"reqid", "authtype">>) \o Str(m, "name", WIDE, 1)
                  \o Fixed(M, <<"pwhash">>)
                  \o Opt(m.long, Fixed(M, <<"server", "client">>))
  IN  Layout(fields, 28 + send_len(m, WIDE, 1) + (IF m.long THEN 8 ELSE 0),
             From(16, fields))

\* A failed login has no account behind its result; a good one ends in the
\* list of players, which may be empty.
AuthAcctLogin_From(m) ==
  LET M == AuthAcctLogin_FromMembers
      rest == Fixed(M, <<"uuid", "acct_type">>) \o Str(m, "dirname", NARROW, 1)
      at == 24 + UUID + 4 + send_len(m, NARROW, 1)
  IN  Layout(Fixed(M, <<"reqid", "result">>)
               \o Opt(m.long, rest \o Buf("players", m.n)),
             IF m.long THEN 28 + send_len(m, NARROW, 1) + m.n ELSE 8,
             From(16, Fixed(M, <<"reqid", "result">>))
               \o Opt(m.long, From(24, rest)
                                \o <<<<"players", at, HEADER + 28
                                     + send_len(m, NARROW, 1) + m.n - at>>>>))

AuthKIValidate_To(m) ==
  LET M == AuthKIValidate_ToMembers
  IN  Layout(Fixed(M, <<"uuid", "kinum">>), UUID + 4,
             From(16, Fixed(M, <<"uuid">>)) \o From(32, Fixed(M, <<"kinum">>)))

AuthKIValidate_From(m) ==
  LET fields == Fixed(AuthKIValidate_FromMembers, <<"kinum", "result">>)
  IN  Layout(fields, 8, From(16, fields))

AuthPlayerLogout(m) ==
  LET fields == Fixed(AuthPlayerLogoutMembers, <<"kinum">>)
  IN  Layout(fields, 4, From(16, fields))

AuthChangePassword_To(m) ==
  LET M == AuthChangePassword_ToMembers
      fields == Fixed(M, <<"uuid", "reqid">>) \o Str(m, "name", NARROW, 1)
                  \o Fixed(M, <<"pwhash">>)
  IN  Layout(fields, 24 + UUID + send_len(m, NARROW, 1), From(16, fields))

AuthChangePassword_From(m) ==
  LET fields == Fixed(AuthChangePassword_FromMembers, <<"reqid", "result">>)
  IN  Layout(fields, 8, From(16, fields))

-----------------------------------------------------------------------------
(***************************************************************************)
(* Players.                                                                *)
(***************************************************************************)
VaultPlayerCreate_To(m) ==
  LET M == VaultPlayerCreate_ToMembers
      fields == Fixed(M, <<"reqid", "uuid">>) \o Str(m, "name", NARROW, 1)
                  \o Str(m, "gender", NARROW, 1)
  IN  Layout(fields, 20 + send_len(m, NARROW, 1) + send_len(m, NARROW, 1),
             From(16, fields))

VaultPlayerCreate_From(m) ==
  LET M == VaultPlayerCreate_FromMembers
      names == Str(m, "name", NARROW, 1) \o Str(m, "gender", NARROW, 1)
  IN  Layout(Fixed(M, <<"reqid", "result">>)
               \o Opt(m.long, Fixed(M, <<"kinum", "acct_type">>) \o names),
             IF m.long THEN 16 + Width(names) ELSE 8,
             From(16, Fixed(M, <<"reqid", "result">>))
               \o Opt(m.long, From(24, Fixed(M, <<"kinum", "acct_type">>))
                                \o From(32, names)))

VaultPlayerDelete_To(m) ==
  LET fields == Fixed(VaultPlayerDelete_ToMembers, <<"reqid", "kinum">>)
  IN  Layout(fields, 8, From(16, fields))

VaultPlayerDelete_From(m) ==
  LET fields == Fixed(VaultPlayerDelete_FromMembers, <<"reqid", "result">>)
  IN  Layout(fields, 8, From(16, fields))

-----------------------------------------------------------------------------
(***************************************************************************)
(* Trackers, dispatchers and game servers.                                 *)
(***************************************************************************)
TrackPing(m) == Layout(<<>>, 0, <<>>)

TrackServiceTypes(m) ==
  LET M == TrackServiceTypesMembers
      kinds == Fixed(M, <<"auth", "file", "game", "addrtype">>)
      host == IF m.long THEN Str(m, "hostname", NARROW, 1)
              ELSE Fixed(M, <<"address">>)
      rest == Fixed(M, <<"port", "request_pushes", "restrict_type">>)
  IN  Layout(kinds \o host \o rest,
             4 + (IF m.long THEN send_len(m, NARROW, 1) ELSE 4) + 10,
             From(16, kinds) \o From(20, host) \o From(20 + Width(host), rest))

TrackFindService_To(m) ==
  LET M == TrackFindService_ToMembers
  IN  Layout(Fixed(M, <<"reqid", "reqid2", "want_file">>), 9,
             From(16, Fixed(M, <<"reqid", "reqid2">>))
               \o From(24, Fixed(M, <<"want_file">>)))

\* Two bytes of zero stand between the kind of service and of address.
TrackFindService_From(m) ==
  LET M == TrackFindService_FromMembers
      host == IF m.long THEN Str(m, "hostname", NARROW, 1)
              ELSE Fixed(M, <<"address">>)
  IN  Layout(Fixed(M, <<"reqid", "reqid2", "is_file">>) \o Buf("zero", 2)
               \o Fixed(M, <<"addrtype">>) \o host \o Fixed(M, <<"port">>),
             12 + Width(host) + 2,
             From(16, Fixed(M, <<"reqid", "reqid2">>))
               \o From(24, Fixed(M, <<"is_file">>))
               \o From(27, Fixed(M, <<"addrtype">>))
               \o From(28, host)
               \o From(IF m.long THEN send_len(m, NARROW, 1) + 28 ELSE 32,
                       Fixed(M, <<"port">>)))

TrackGameHello(m) ==
  LET M == TrackGameHelloMembers
  IN  Layout(Fixed(M, <<"uuid", "id", "ipaddr">>), UUID + 8,
             From(16, Fixed(M, <<"uuid">>))
               \o From(16 + UUID, Fixed(M, <<"id">>))
               \o From(20 + UUID, Fixed(M, <<"ipaddr">>)))

TrackGameBye_To(m) ==
  LET fields == Fixed(TrackGameBye_ToMembers, <<"final">>)
  IN  Layout(fields, 4, From(16, fields))

TrackGameBye_From(m) == Layout(<<>>, 0, <<>>)

TrackGamePlayerInfo(m) ==
  LET M == TrackGamePlayerInfoMembers
  IN  Layout(Fixed(M, <<"kinum", "present">>), 5,
             From(16, Fixed(M, <<"kinum">>))
               \o From(20, Fixed(M, <<"present">>)))

\* The game server forwards a message of a client; the tracker one it got
\* in this very form, whose header and first field it leaves out: fill_iovecs
\* of the message forwarded starts at m_msg_offset (m.long: forwarded on).
MsgOffset(m) == IF m.long THEN 20 ELSE 0
TrackMsgForward(m) ==
  LET M == TrackMsgForwardMembers
      inner == m.n + MsgOffset(m)
  IN  Layout(Fixed(M, <<"recip_offset">>) \o Buf("msg", inner - MsgOffset(m)),
             4 + inner - MsgOffset(m),
             From(16, Fixed(M, <<"recip_offset">>)) \o <<<<"msg", 20, m.n>>>>)

TrackSDLUpdate(m) ==
  LET M == TrackSDLUpdateMembers
      head == Fixed(M, <<"kinum", "from_id1", "from_id2", "sdl_type", "datalen">>)
  IN  Layout(head \o Buf("sdl", m.n), 20 + m.n,
             From(16, head) \o <<<<"sdl", 36, m.n>>>>)

TrackNextGameID(m) ==
  LET M == TrackNextGameIDMembers
  IN  Layout(Fixed(M, <<"number">>) \o Opt(m.long, Fixed(M, <<"start">>)),
             IF m.long THEN 8 ELSE 4,
             From(16, Fixed(M, <<"number">>))
               \o Opt(m.long, From(20, Fixed(M, <<"start">>))))

TrackAgeRequest_To(m) ==
  LET M == TrackAgeRequest_ToMembers
      name == Str(m, "filename", NARROW, 1)
  IN  Layout(Fixed(M, <<"reqid", "uuid">>) \o name, 4 + UUID + Width(name),
             From(16, Fixed(M, <<"reqid">>)) \o From(20, Fixed(M, <<"uuid">>))
               \o From(20 + UUID, name))

TrackAgeRequest_From(m) ==
  LET M == TrackAgeRequest_FromMembers
  IN  Layout(Fixed(M, <<"reqid", "result", "body">>), 20 + UUID,
             From(16, Fixed(M, <<"reqid">>)) \o From(20, Fixed(M, <<"result">>))
               \o From(24, Fixed(M, <<"body">>)))

TrackStartAge_From(m) ==
  LET M == TrackStartAge_FromMembers
      name == Str(m, "filename", NARROW, 1)
  IN  Layout(Fixed(M, <<"ageuuid">>) \o name, UUID + Width(name),
             From(16, Fixed(M, <<"ageuuid">>)) \o From(16 + UUID, name))

TrackStartAge_To(m) ==
  LET M == TrackStartAge_ToMembers
  IN  Layout(Fixed(M, <<"problem", "ageuuid">>), 4 + UUID,
             From(16, Fixed(M, <<"problem">>)) \o From(20, Fixed(M, <<"ageuuid">>)))

TrackAddPlayer_From(m) ==
  LET M == TrackAddPlayer_FromMembers
      name == Str(m, "name", NARROW, 1)
  IN  Layout(Fixed(M, <<"kinum", "uuid">>) \o name, 4 + UUID + Width(name),
             From(16, Fixed(M, <<"kinum">>)) \o From(20, Fixed(M, <<"uuid">>))
               \o From(20 + UUID, name))

TrackAddPlayer_To(m) ==
  LET fields == Fixed(TrackAddPlayer_ToMembers, <<"kinum", "result">>)
  IN  Layout(fields, 8, From(16, fields))
=============================================================================
