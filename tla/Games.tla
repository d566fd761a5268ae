-------------------------------- MODULE Games --------------------------------
(* The games of an age, each kind with what it does when a player arrives,   *)
(* joins, or leaves the age.  A behaviour is about one kind of game: they    *)
(* share nothing but the player's departure, which each hears of.            *)
EXTENDS VarSync, DoorGame, Heek, MarkerGame

vars_ == <<mgrVars, varSyncVars, doorVars, heekVars, markerVars>>

Init ==
  /\ kind \in Kinds
  /\ MgrInit /\ VarSyncInit /\ DoorInit /\ HeekInit /\ MarkerInit

OthersThan(k) ==
  /\ IF k = "varsync" THEN TRUE ELSE UNCHANGED varSyncVars
  /\ IF k = "door" THEN TRUE ELSE UNCHANGED doorVars
  /\ IF k = "heek" THEN TRUE ELSE UNCHANGED heekVars
  /\ IF k = "marker" THEN TRUE ELSE UNCHANGED markerVars

Come(p) == Arrive(p) /\ OthersThan("none")

(* initialize_game of the kind at hand                                       *)
Initialized(ps) ==
  /\ OthersThan(kind)
  /\ CASE kind = "varsync" -> VarSyncInitialized(ps)
       [] kind = "heek" -> IF ps = {} THEN UNCHANGED heekVars ELSE HeekInitialized(ps)
       [] kind = "door" -> UNCHANGED doorVars
       [] kind = "marker" -> MarkerInitialized

SetupGame(p) ==
  IF kind = "marker"
  THEN \E template \in 0..Len(db), cgz \in BOOLEAN, form \in Forms :
         /\ IF template = 0 THEN cgz \in NewKinds ELSE cgz = db[template].cgz
         /\ form # "right" => template = 0
         /\ Openable(template)
         /\ Setup(p, template) /\ MarkerSetup(p, template, cgz, form) /\ OthersThan(kind)
  ELSE Setup(p, 0) /\ Initialized(InitializedNow(p))

GameGetsID ==
  /\ GotNextID
  /\ kind = "marker" \/ UNCHANGED toVault
  /\ Initialized({s.who : s \in ToSet(SavedSetups)})

Depart(p) ==
  /\ Leave(p)
  /\ OthersThan(kind)
  /\ CASE kind = "varsync" -> VarSyncLeft(p)
       [] kind = "door" -> DoorLeft(p)
       [] kind = "heek" -> HeekLeft(p)
       [] kind = "marker" -> MarkerLeft

NextID == VaultNextID /\ OthersThan("none")

VarSyncNext ==
  /\ \E p \in Players :
       \/ \E name \in VarNames, val \in VarValues : CreateNumericVar(p, name, val)
       \/ \E i \in 1..MaxVars, val \in VarValues : SetNumericVar(p, i, val)
  /\ OthersThan("varsync")

DoorTimer == DoorTimeouts /\ OthersThan("door")
DoorNext ==
  /\ \E p \in Players : StartGame(p) \/ HitRight(p) \/ HitWrong(p)
  /\ OthersThan("door")

HeekClock == HeekTimer /\ OthersThan("heek")
HeekNext ==
  /\ \E p \in Players :
       \/ PlayGame(p) \/ LeaveTable(p) \/ LateChoice(p)
       \/ \E c \in Hands : Choose(p, c)
       \/ \E seq \in {"Countdown", "ChoiceAnim", "GameWinAnim"} : SeqFinished(p, seq)
  /\ OthersThan("heek")

MarkerNext ==
  /\ \E n \in DOMAIN mark :
       \/ StartMarkers(n) \/ PauseMarkers(n) \/ ResetMarkers(n) \/ DeleteGame(n)
       \/ \E name \in GameNames : AddMarker(n, name) \/ RenameGame(n, name)
       \/ \E i \in DOMAIN view[n].markers :
            \/ DeleteMarker(n, i) \/ CaptureMarker(n, i)
            \/ \E name \in GameNames : RenameMarker(n, i, name)
  /\ OthersThan("marker")

VaultMarkers ==
  /\ \/ \E try \in Tries : VaultChanges(try)
     \/ \E found, listed, states \in BOOLEAN : VaultOpens(found, listed, states)
  /\ OthersThan("marker")
MarkerAnswer == GotMarkerAnswer /\ OthersThan("marker")

Next ==
  \/ \E p \in Players : Come(p) \/ SetupGame(p) \/ Depart(p)
  \/ NextID \/ GameGetsID
  \/ VarSyncNext
  \/ DoorNext \/ DoorTimer
  \/ HeekNext \/ HeekClock
  \/ MarkerNext \/ VaultMarkers \/ MarkerAnswer

Spec == Init /\ [][Next]_vars_

(* The backend answers, the server reads its answers, and timers fire.  That *)
(* of Heek is weak fairness of HeekClock with its guard written out.         *)
HeekTimerFires == []<>~HeekTimerSet \/ []<><<HeekClock>>_vars_
FairSpec ==
  /\ Spec
  /\ WF_vars_(NextID) /\ WF_vars_(GameGetsID)
  /\ WF_vars_(DoorTimer) /\ HeekTimerFires
  /\ WF_vars_(VaultMarkers) /\ WF_vars_(MarkerAnswer)

(* Every ID on its way, or asked for, has a manager that waits for it: none  *)
(* is forgotten between the request and the answer, so that the server never *)
(* takes the front of an empty list.                                         *)
IdsFindTheirManagers ==
  Cardinality(IdMessages(toVault)) + Cardinality(IdMessages(fromVault)) = Len(waiting)
=============================================================================
