------------------------------ MODULE Formats ------------------------------
(***************************************************************************)
(* Every class of message by its name: the switches of the make_if_enough  *)
(* functions, which go from the type in a message to its class.            *)
(***************************************************************************)
EXTENDS ClientFormats

\* Between servers and the backend.
BackendClasses ==
  {"Hello", "KillClient", "AuthAcctLogin_To", "AuthAcctLogin_From",
    "AuthKIValidate_To", "AuthKIValidate_From", "AuthPlayerLogout",
    "AuthChangePassword_To", "AuthChangePassword_From",
    "VaultPlayerCreate_To", "VaultPlayerCreate_From", "VaultPlayerDelete_To",
    "VaultPlayerDelete_From", "TrackPing", "TrackServiceTypes",
    "TrackFindService_To", "TrackFindService_From", "TrackGameHello",
    "TrackGameBye_To", "TrackGameBye_From", "TrackGamePlayerInfo",
    "TrackMsgForward", "TrackSDLUpdate", "TrackNextGameID",
    "TrackAgeRequest_To", "TrackAgeRequest_From", "TrackStartAge_From",
    "TrackStartAge_To", "TrackAddPlayer_From", "TrackAddPlayer_To",
    "MarkerGetGame", "MarkerAdd", "MarkersAll", "MarkersCaptured",
    "MarkerGameRename", "MarkerGameDelete", "MarkerGameRenameMarker",
    "MarkerGameDeleteMarker", "MarkerGameCaptureMarker", "MarkerGameStop"}

\* From a client through the auth server to the backend.
VaultClasses ==
  {"VaultFetchRefs_To", "VaultNode_To", "VaultNodeFetch_To",
    "VaultRefChange_To", "VaultInitAge_To", "VaultAgeList_To",
    "VaultNodeSend", "VaultSetAgePublic", "VaultScoreGet_To",
    "VaultScoreCreate", "VaultScoreAddPoints", "VaultScoreXferPoints"}

\* From the backend through the auth server to a client.
AnswerClasses ==
  {"VaultPassthrough", "VaultNodeFetch_From", "VaultScoreGet_From"}

\* From a client to a server of each kind.
AuthClasses ==
  {"AuthPing", "ClientRegister", "AcctSetPlayer", "AuthClientLogin",
    "AuthClientChangePass", "FileChunkAck", "AuthClientFile",
    "AuthClientPlayerCreate", "AuthClientAgeRequest", "AuthClientLog",
    "SendFriendInvite"}
GameClasses ==
  {"GamePing", "GameJoinRequest", "PropagateBuffer", "GameMgr"}
GateClasses ==
  {"GatekeeperClient", "GatekeeperPing"}
HeardClasses == AuthClasses \union GameClasses \union GateClasses

\* From a server to a client, encrypted and not.
CodedClasses ==
  {"AuthServerLogin", "AuthServerChangePass", "AuthServerPlayerCreate",
    "AuthServerKick", "AuthServerAgeReply"}
ToldClasses ==
  {"GameJoinReply", "PlNetMsgGroupOwner", "PlNetMsgInitialAgeStateSent",
    "PlNetMsgMembers", "PlNetMsgSDLState", "PlServerReply",
    "PlNetMsgLoadClone", "GameMgr_Setup_Reply", "GameMgr_Simple",
    "GameMgr_OneByte", "GameMgr_FourByte", "GameMgr_VarSync_VarCreated",
    "GameMgr_Marker_GameCreated", "GameMgr_Marker_GameNameChanged",
    "GameMgr_Marker_MarkerAdded", "GameMgr_Marker_MarkerCaptured",
    "GameMgr_Marker_MarkerNameChanged", "GameMgr_BlueSpiral_ClothOrder",
    "GameMgr_Heek_PlayGame", "GameMgr_Heek_Welcome",
    "GameMgr_Heek_PointUpdate", "GameMgr_Heek_WinLose", "GameMgr_Heek_Lights",
    "GatekeeperServer"}

\* BackendMessage::make_if_enough.
BackendLayout(m) ==
  CASE m.class = "Hello"                   -> Hello(m)
    [] m.class = "KillClient"              -> KillClient(m)
    [] m.class = "AuthAcctLogin_To"        -> AuthAcctLogin_To(m)
    [] m.class = "AuthAcctLogin_From"      -> AuthAcctLogin_From(m)
    [] m.class = "AuthKIValidate_To"       -> AuthKIValidate_To(m)
    [] m.class = "AuthKIValidate_From"     -> AuthKIValidate_From(m)
    [] m.class = "AuthPlayerLogout"        -> AuthPlayerLogout(m)
    [] m.class = "AuthChangePassword_To"   -> AuthChangePassword_To(m)
    [] m.class = "AuthChangePassword_From" -> AuthChangePassword_From(m)
    [] m.class = "VaultPlayerCreate_To"    -> VaultPlayerCreate_To(m)
    [] m.class = "VaultPlayerCreate_From"  -> VaultPlayerCreate_From(m)
    [] m.class = "VaultPlayerDelete_To"    -> VaultPlayerDelete_To(m)
    [] m.class = "VaultPlayerDelete_From"  -> VaultPlayerDelete_From(m)
    [] m.class = "TrackPing"               -> TrackPing(m)
    [] m.class = "TrackServiceTypes"       -> TrackServiceTypes(m)
    [] m.class = "TrackFindService_To"     -> TrackFindService_To(m)
    [] m.class = "TrackFindService_From"   -> TrackFindService_From(m)
    [] m.class = "TrackGameHello"          -> TrackGameHello(m)
    [] m.class = "TrackGameBye_To"         -> TrackGameBye_To(m)
    [] m.class = "TrackGameBye_From"       -> TrackGameBye_From(m)
    [] m.class = "TrackGamePlayerInfo"     -> TrackGamePlayerInfo(m)
    [] m.class = "TrackMsgForward"         -> TrackMsgForward(m)
    [] m.class = "TrackSDLUpdate"          -> TrackSDLUpdate(m)
    [] m.class = "TrackNextGameID"         -> TrackNextGameID(m)
    [] m.class = "TrackAgeRequest_To"      -> TrackAgeRequest_To(m)
    [] m.class = "TrackAgeRequest_From"    -> TrackAgeRequest_From(m)
    [] m.class = "TrackStartAge_From"      -> TrackStartAge_From(m)
    [] m.class = "TrackStartAge_To"        -> TrackStartAge_To(m)
    [] m.class = "TrackAddPlayer_From"     -> TrackAddPlayer_From(m)
    [] m.class = "TrackAddPlayer_To"       -> TrackAddPlayer_To(m)
    [] m.class = "MarkerGetGame"           -> MarkerGetGame(m)
    [] m.class = "MarkerAdd"               -> MarkerAdd(m)
    [] m.class = "MarkersAll"              -> MarkersAll(m)
    [] m.class = "MarkersCaptured"         -> MarkersCaptured(m)
    [] m.class = "MarkerGameRename"        -> MarkerGameRename(m)
    [] m.class = "MarkerGameDelete"        -> MarkerGameDelete(m)
    [] m.class = "MarkerGameRenameMarker"  -> MarkerGameRenameMarker(m)
    [] m.class = "MarkerGameDeleteMarker"  -> MarkerGameDeleteMarker(m)
    [] m.class = "MarkerGameCaptureMarker" -> MarkerGameCaptureMarker(m)
    [] m.class = "MarkerGameStop"          -> MarkerGameStop(m)
    [] m.class = "VaultPassthrough"        -> VaultPassthrough(m)
    [] m.class = "VaultNodeFetch_From"     -> VaultNodeFetch_From(m)
    [] m.class = "VaultScoreGet_From"      -> VaultScoreGet_From(m)

\* VaultPassthrough_BackendMessage::make_if_enough.
VaultLayout(m) ==
  CASE m.class = "VaultFetchRefs_To"    -> VaultFetchRefs_To(m)
    [] m.class = "VaultNode_To"         -> VaultNode_To(m)
    [] m.class = "VaultNodeFetch_To"    -> VaultNodeFetch_To(m)
    [] m.class = "VaultRefChange_To"    -> VaultRefChange_To(m)
    [] m.class = "VaultInitAge_To"      -> VaultInitAge_To(m)
    [] m.class = "VaultAgeList_To"      -> VaultAgeList_To(m)
    [] m.class = "VaultNodeSend"        -> VaultNodeSend(m)
    [] m.class = "VaultSetAgePublic"    -> VaultSetAgePublic(m)
    [] m.class = "VaultScoreGet_To"     -> VaultScoreGet_To(m)
    [] m.class = "VaultScoreCreate"     -> VaultScoreCreate(m)
    [] m.class = "VaultScoreAddPoints"  -> VaultScoreAddPoints(m)
    [] m.class = "VaultScoreXferPoints" -> VaultScoreXferPoints(m)

\* AuthClientMessage::make_if_enough, but for the vault's.
AuthHeard(m) ==
  CASE m.class = "AuthPing"               -> AuthPing(m)
    [] m.class = "ClientRegister"         -> ClientRegister(m)
    [] m.class = "AcctSetPlayer"          -> AcctSetPlayer(m)
    [] m.class = "AuthClientLogin"        -> AuthClientLogin(m)
    [] m.class = "AuthClientChangePass"   -> AuthClientChangePass(m)
    [] m.class = "FileChunkAck"           -> FileChunkAck(m)
    [] m.class = "AuthClientFile"         -> AuthClientFile(m)
    [] m.class = "AuthClientPlayerCreate" -> AuthClientPlayerCreate(m)
    [] m.class = "AuthClientAgeRequest"   -> AuthClientAgeRequest(m)
    [] m.class = "AuthClientLog"          -> AuthClientLog(m)
    [] m.class = "SendFriendInvite"       -> SendFriendInvite(m)

\* GameMessage::make_if_enough.
GameHeard(m) ==
  CASE m.class = "GamePing"        -> GamePing(m)
    [] m.class = "GameJoinRequest" -> GameJoinRequest(m)
    [] m.class = "PropagateBuffer" -> PropagateBuffer(m)
    [] m.class = "GameMgr"         -> GameMgr(m)

\* GatekeeperClientMessage::make_if_enough.
GateHeard(m) ==
  CASE m.class = "GatekeeperClient" -> GatekeeperClient(m)
    [] m.class = "GatekeeperPing"   -> GatekeeperPing(m)

\* What the servers make for clients.
ToldFormat(m) ==
  CASE m.class = "AuthServerLogin"                  -> AuthServerLogin(m)
    [] m.class = "AuthServerChangePass"             -> AuthServerChangePass(m)
    [] m.class = "AuthServerPlayerCreate"           -> AuthServerPlayerCreate(m)
    [] m.class = "AuthServerKick"                   -> AuthServerKick(m)
    [] m.class = "AuthServerAgeReply"               -> AuthServerAgeReply(m)
    [] m.class = "GameJoinReply"                    -> GameJoinReply(m)
    [] m.class = "PlNetMsgGroupOwner"               -> PlNetMsgGroupOwner(m)
    [] m.class = "PlNetMsgInitialAgeStateSent"      -> PlNetMsgInitialAgeStateSent(m)
    [] m.class = "PlNetMsgMembers"                  -> PlNetMsgMembers(m)
    [] m.class = "PlNetMsgSDLState"                 -> PlNetMsgSDLState(m)
    [] m.class = "PlServerReply"                    -> PlServerReply(m)
    [] m.class = "PlNetMsgLoadClone"                -> PlNetMsgLoadClone(m)
    [] m.class = "GameMgr_Setup_Reply"              -> GameMgr_Setup_Reply(m)
    [] m.class = "GameMgr_Simple"                   -> GameMgr_Simple(m)
    [] m.class = "GameMgr_OneByte"                  -> GameMgr_OneByte(m)
    [] m.class = "GameMgr_FourByte"                 -> GameMgr_FourByte(m)
    [] m.class = "GameMgr_VarSync_VarCreated"       -> GameMgr_VarSync_VarCreated(m)
    [] m.class = "GameMgr_Marker_GameCreated"       -> GameMgr_Marker_GameCreated(m)
    [] m.class = "GameMgr_Marker_GameNameChanged"   -> GameMgr_Marker_GameNameChanged(m)
    [] m.class = "GameMgr_Marker_MarkerAdded"       -> GameMgr_Marker_MarkerAdded(m)
    [] m.class = "GameMgr_Marker_MarkerCaptured"    -> GameMgr_Marker_MarkerCaptured(m)
    [] m.class = "GameMgr_Marker_MarkerNameChanged" -> GameMgr_Marker_MarkerNameChanged(m)
    [] m.class = "GameMgr_BlueSpiral_ClothOrder"    -> GameMgr_BlueSpiral_ClothOrder(m)
    [] m.class = "GameMgr_Heek_PlayGame"            -> GameMgr_Heek_PlayGame(m)
    [] m.class = "GameMgr_Heek_Welcome"             -> GameMgr_Heek_Welcome(m)
    [] m.class = "GameMgr_Heek_PointUpdate"         -> GameMgr_Heek_PointUpdate(m)
    [] m.class = "GameMgr_Heek_WinLose"             -> GameMgr_Heek_WinLose(m)
    [] m.class = "GameMgr_Heek_Lights"              -> GameMgr_Heek_Lights(m)
    [] m.class = "GatekeeperServer"                 -> GatekeeperServer(m)
HeardOf(m) ==
  CASE m.class \in AuthClasses -> AuthHeard(m)
    [] m.class \in GameClasses -> GameHeard(m)
    [] m.class \in GateClasses -> GateHeard(m)

=============================================================================
