--------------------------- MODULE BackendMembers ---------------------------
(***************************************************************************)
(* The members of the backend message classes, as BackendMessage.h         *)
(* declares them: for every member of a fixed size, how many bytes it has  *)
(* on the wire.  A member that is a string, a list, a node or a buffer has *)
(* its size where it is written (BackendFormats).                          *)
(***************************************************************************)
UUID == 16                              \* UUID_RAW_LEN

HeaderMembers == [len |-> 4, type |-> 4, id1 |-> 4, id2 |-> 4]

HelloMembers      == [peer_info |-> 4]
KillClientMembers == [reason |-> 4, ki |-> 4]

AuthAcctLogin_ToMembers ==
  [reqid |-> 4, pwhash |-> 20, authtype |-> 4, server |-> 4, client |-> 4]
AuthAcctLogin_FromMembers ==
  [reqid |-> 4, result |-> 4, uuid |-> UUID, acct_type |-> 4]
AuthKIValidate_ToMembers        == [kinum |-> 4, uuid |-> UUID]
AuthKIValidate_FromMembers      == [kinum |-> 4, result |-> 4]
AuthPlayerLogoutMembers         == [kinum |-> 4]
AuthChangePassword_ToMembers    == [uuid |-> UUID, reqid |-> 4, pwhash |-> 20]
AuthChangePassword_FromMembers  == [reqid |-> 4, result |-> 4]

VaultPlayerCreate_ToMembers   == [reqid |-> 4, uuid |-> UUID]
VaultPlayerCreate_FromMembers ==
  [reqid |-> 4, result |-> 4, kinum |-> 4, acct_type |-> 4]
VaultPlayerDelete_ToMembers   == [reqid |-> 4, kinum |-> 4]
VaultPlayerDelete_FromMembers == [reqid |-> 4, result |-> 4]

VaultPassthroughMembers     == [msgtype |-> 2]
VaultFetchRefs_ToMembers    == [reqid |-> 4, node |-> 4]
VaultNode_ToMembers         == [reqid |-> 4, id |-> 4, uuid |-> UUID]
VaultNodeFetch_ToMembers    == [reqid |-> 4, node |-> 4]
VaultNodeFetch_FromMembers  == [reqid |-> 4, result |-> 4]
VaultRefChange_ToMembers    ==
  [reqid |-> 4, parent |-> 4, child |-> 4, owner |-> 4]
VaultInitAge_ToMembers      ==
  [reqid |-> 4, createuuid |-> UUID, parentuuid |-> UUID, unk |-> 4, id |-> 4]
VaultAgeList_ToMembers      == [reqid |-> 4]
VaultNodeSendMembers        == [player |-> 4, nodeid |-> 4]
VaultSetAgePublicMembers    == [nodeid |-> 4, public |-> 1]
VaultScoreGet_ToMembers     == [reqid |-> 4, holder |-> 4]
VaultScoreGet_FromMembers   ==
  [reqid |-> 4, result |-> 4, code |-> 4, msglen |-> 4]
VaultScoreCreateMembers     ==
  [reqid |-> 4, holder |-> 4, type |-> 4, value |-> 4]
VaultScoreAddPointsMembers  == [reqid |-> 4, scoreid |-> 4, delta |-> 4]
VaultScoreXferPointsMembers ==
  [reqid |-> 4, scoreid |-> 4, destid |-> 4, delta |-> 4]

TrackServiceTypesMembers ==
  [auth |-> 1, file |-> 1, game |-> 1, addrtype |-> 1, address |-> 4,
   port |-> 2, request_pushes |-> 4, restrict_type |-> 4]
TrackFindService_ToMembers   == [reqid |-> 4, reqid2 |-> 4, want_file |-> 1]
TrackFindService_FromMembers ==
  [reqid |-> 4, reqid2 |-> 4, is_file |-> 1, addrtype |-> 1, address |-> 4,
   port |-> 2]
TrackGameHelloMembers        == [uuid |-> UUID, id |-> 4, ipaddr |-> 4]
TrackGameBye_ToMembers       == [final |-> 4]
TrackGamePlayerInfoMembers   == [kinum |-> 4, present |-> 1]
TrackMsgForwardMembers       == [recip_offset |-> 4]
TrackSDLUpdateMembers        ==
  [kinum |-> 4, from_id1 |-> 4, from_id2 |-> 4, sdl_type |-> 4, datalen |-> 4]
TrackNextGameIDMembers       == [number |-> 4, start |-> 4]
TrackAgeRequest_ToMembers    == [reqid |-> 4, uuid |-> UUID]
TrackAgeRequest_FromMembers  == [reqid |-> 4, result |-> 4, body |-> 28]
TrackStartAge_FromMembers    == [ageuuid |-> UUID]
TrackStartAge_ToMembers      == [ageuuid |-> UUID, problem |-> 4]
TrackAddPlayer_FromMembers   == [kinum |-> 4, uuid |-> UUID]
TrackAddPlayer_ToMembers     == [kinum |-> 4, result |-> 4]

\* What every marker message starts with, then what each has besides; the data
\* of one marker: three doubles and a number, marker_data_len bytes of the
\* structure's 32.
MarkerMembers      == [requester |-> 4, localid |-> 4]
marker_data_len    == 28
MarkerGetGameMembers ==
  [game_exists |-> 1, game_type |-> 1, template |-> UUID]
MarkerAddMembers   ==
  [x |-> 8, y |-> 8, z |-> 8, number |-> 4]
MarkersAllMembers  == [listlen |-> 4]
MarkersCapturedMembers         == [listlen |-> 4]
MarkerGameRenameMembers        == MarkerMembers
MarkerGameDeleteMembers        == MarkerMembers
MarkerGameRenameMarkerMembers  == [number |-> 4]
MarkerGameDeleteMarkerMembers  == [number |-> 4]
MarkerGameCaptureMarkerMembers ==
  [player |-> 4, number |-> 4, value |-> 4]
MarkerGameStopMembers          == [player |-> 4]
=============================================================================
