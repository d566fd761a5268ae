--------------------------- MODULE MarkerFormats ----------------------------
(***************************************************************************)
(* The messages of marker games between a game server and the backend      *)
(* (BackendMessage.cc, from Marker_BackendMessage on): each starts with    *)
(* the player who asked and that player's own number of the game.          *)
(***************************************************************************)
EXTENDS BackendFormats

\* Both are read by the base class (BackendMessage.h).
Marker == Fixed(MarkerMembers, <<"requester", "localid">>)
MarkerRead == From(16, Fixed(MarkerMembers, <<"requester">>))
                \o From(20, Fixed(MarkerMembers, <<"localid">>))

MarkerGetGame(m) ==
  LET M == MarkerGetGameMembers
      name == Str(m, "name", NARROW, 1)
  IN  Layout(Marker \o Fixed(M, <<"game_exists", "game_type", "template">>)
               \o name,
             10 + UUID + Width(name),
             MarkerRead \o From(24, Fixed(M, <<"game_exists">>))
               \o From(25, Fixed(M, <<"game_type">>))
               \o From(26, Fixed(M, <<"template">>)) \o From(26 + UUID, name))

\* The data of the marker is written field by field and read as one piece.
MarkerAdd(m) ==
  LET M == MarkerAddMembers
      data == Fixed(M, <<"x", "y", "z", "number">>)
      names == Str(m, "name", NARROW, 1) \o Str(m, "agename", NARROW, 1)
  IN  Layout(Marker \o data \o names,
             8 + marker_data_len + Width(names),
             MarkerRead \o From(24, data) \o From(24 + marker_data_len, names))

\* A list: how many, then each with its data and two strings.  Only here are
\* the strings sent without their nulls.
InfoOf(m) ==
  Buf("data", marker_data_len) \o Str(m, "name", NARROW, 0)
    \o Str(m, "agename", NARROW, 0)
info_size(m) ==
  marker_data_len + send_len(m, NARROW, 0) + send_len(m, NARROW, 0)

\* finalize() claims the length of the list only if there is something in it.
MutMarkersAllClaim(m) ==
  IF m.n > 0 THEN 12 + m.n * (info_size(m) + 2) ELSE 12
MarkersAllClaim(m) == IF m.n > 0 THEN 12 + m.n * info_size(m) ELSE 12

\* The receiver goes along the list one entry at a time (advance_index).
MarkersAllRead(m) ==
  [i \in 1..m.n |-> From(28 + (i - 1) * info_size(m), InfoOf(m))]

MarkersAll(m) ==
  Layout(Marker \o Fixed(MarkersAllMembers, <<"listlen">>)
           \o FlattenSeq([i \in 1..m.n |-> InfoOf(m)]),
         MarkersAllClaim(m),
         MarkerRead \o From(24, Fixed(MarkersAllMembers, <<"listlen">>))
           \o FlattenSeq(MarkersAllRead(m)))

\* Eight bytes for each marker captured.
MarkersCapturedClaim(m) == IF m.n > 0 THEN 12 + m.n * 8 ELSE 12

MarkersCaptured(m) ==
  LET listlen == Fixed(MarkersCapturedMembers, <<"listlen">>)
  IN  Layout(Marker \o listlen \o Opt(m.n > 0, Buf("list", m.n * 8)),
             MarkersCapturedClaim(m),
             MarkerRead \o From(24, listlen)
               \o Opt(m.n > 0, <<<<"list", 28, m.n * 8>>>>))

MarkerGameRename(m) ==
  LET name == Str(m, "name", NARROW, 1)
  IN  Layout(Marker \o name, 8 + Width(name), MarkerRead \o From(24, name))

MarkerGameDelete(m) == Layout(Marker, 8, MarkerRead)

MarkerGameRenameMarker(m) ==
  LET number == Fixed(MarkerGameRenameMarkerMembers, <<"number">>)
      name == Str(m, "name", NARROW, 1)
  IN  Layout(Marker \o number \o name, 12 + Width(name),
             MarkerRead \o From(24, number) \o From(28, name))

MarkerGameDeleteMarker(m) ==
  LET number == Fixed(MarkerGameDeleteMarkerMembers, <<"number">>)
  IN  Layout(Marker \o number, 12, MarkerRead \o From(24, number))

MarkerGameCaptureMarker(m) ==
  LET M == MarkerGameCaptureMarkerMembers
  IN  Layout(Marker \o Fixed(M, <<"player", "number", "value">>), 20,
             MarkerRead \o From(24, Fixed(M, <<"player">>))
               \o From(28, Fixed(M, <<"number">>))
               \o From(32, Fixed(M, <<"value">>)))

MarkerGameStop(m) ==
  LET player == Fixed(MarkerGameStopMembers, <<"player">>)
  IN  Layout(Marker \o player, 12, MarkerRead \o From(24, player))
=============================================================================
