---------------------------- MODULE GameManagers ----------------------------
(* The games of an age (GameState.cc, GameHandler.h, GameServer.cc).  A      *)
(* player asks for a game with a setup message.  VarSync, BlueSpiral and     *)
(* Heek have one manager for the whole age, a marker game has one for each   *)
(* setup.  A new manager has no ID: the server asks the backend for one, and *)
(* keeps the setup messages until it comes.  Replies come in the order of    *)
(* the requests on the one connection to the backend, and each is given to   *)
(* the first manager that waits.                                             *)
(*                                                                           *)
(* This is what the four games have in common.  An action here takes the     *)
(* operator that says how the kind of game at hand follows a departure; what *)
(* else the game does in the same step is in the modules that extend this    *)
(* one.  A message to a client that is here counts as read when it is sent:  *)
(* the connection neither loses nor reorders.                                *)
EXTENDS Integers, Sequences, SequencesExt, FiniteSets

CONSTANTS
  Players,   \* KI numbers, all greater than Unowned
  MaxMgrs,   \* bound: managers ever made
  MaxVisits  \* bound: times each player comes to the age, by kind of game

Nobody == 0    \* m_owner of a game that nobody owns
Unowned == 1   \* not a KI number: a VarSync game whose owner may not be replaced

ASSUME PlayersAssumption ==
  /\ Players \subseteq Nat
  /\ \A p \in Players : p > Unowned

VARIABLES
  kind,      \* the kind of game this behaviour is about; never changes
  here,      \* the players in the age
  visits,    \* how often each player came
  joined,    \* the players that sent a setup message on this visit
  mgrs,      \* m_age_games and m_marker_games: the managers, by order of creation
  made,      \* the managers made so far
  waiting,   \* m_waiting_games: those with no ID yet
  next_id,   \* m_next_gameid of the backend
  toVault,   \* requests on their way to the backend
  fromVault  \* and its answers on their way back

mgrVars == <<kind, here, visits, joined, mgrs, made, waiting, next_id,
             toVault, fromVault>>

Kinds == {"varsync", "door", "heek", "marker"}

(* A GameMgr as it is made: no ID, no owner.  A setup is a player and the    *)
(* game it wants to open, which only a marker game looks at.                 *)
NewMgr(setup) == [id |-> 0, owner |-> Nobody, players |-> <<>>, setups |-> <<setup>>]

(* GameMgr::add_player and remove_player                                     *)
AddPlayer(players, p) == IF p \in ToSet(players) THEN players ELSE Append(players, p)
RemovePlayer(players, p) == RemoveFirst(players, p)

(* Each initialize_game begins so; only the owner of a marker game is        *)
(* replaced.                                                                 *)
InitializeGame(g, p) ==
  [g EXCEPT !.owner = IF kind = "marker" \/ g.owner = Nobody THEN p ELSE g.owner,
            !.players = AddPlayer(g.players, p)]

(* GameMgr::player_left and find_new_owner                                   *)
MgrLeft(g, p) ==
  LET rest == RemovePlayer(g.players, p) IN
  [g EXCEPT !.players = rest,
            !.owner = CASE p # g.owner -> g.owner
                        [] p = g.owner /\ rest = <<>> -> Nobody
                        [] OTHER -> Head(rest)]

(* VarSyncGameMgr::player_left                                               *)
VarSyncMgrLeft(g, p) ==
  LET h == MgrLeft([g EXCEPT !.owner = Unowned], p) IN
  IF h.players = <<>> THEN [h EXCEPT !.owner = Nobody] ELSE h

AgeMgrLeft(g, p) == IF kind = "varsync" THEN VarSyncMgrLeft(g, p) ELSE MgrLeft(g, p)

(* The manager of the age, once it is made                                   *)
AgeMgr == mgrs[1]
AgeOwner == IF mgrs = <<>> THEN Nobody ELSE AgeMgr.owner
(* send_to_all reaches the members that are in the age                       *)
Members == IF mgrs = <<>> THEN {} ELSE here \cap ToSet(AgeMgr.players)

(* A client speaks to the game of the age once the setup reply told its ID.  *)
MayPlay(p) == p \in joined /\ p \in Members /\ AgeMgr.id # 0

MgrInit ==
  /\ here = {} /\ joined = {} /\ mgrs = <<>> /\ made = 0 /\ waiting = <<>>
  /\ visits = [p \in Players |-> 0]
  /\ next_id = 1 /\ toVault = <<>> /\ fromVault = <<>>

-----------------------------------------------------------------------------
(* Players are alike: they come, and ask for the game of the age, in the      *)
(* order of their numbers at first.                                          *)
InTurn(p) == \A q \in Players : q < p /\ MaxVisits[kind][q] > 0 => visits[q] > 0
AsksInTurn(p) == \A q \in here : q < p /\ visits[q] = 1 => q \in joined

Arrive(p) ==
  /\ InTurn(p)
  /\ p \notin here /\ visits[p] < MaxVisits[kind][p]
  /\ here' = here \cup {p}
  /\ visits' = [visits EXCEPT ![p] = @ + 1]
  /\ UNCHANGED <<kind, joined, mgrs, made, waiting, next_id, toVault, fromVault>>

(* A spoiled form: it forgets a marker game that waits for its ID as well.   *)
MutOwnedBy(g, p) == kind = "marker" /\ (g.owner = p \/ \E s \in ToSet(g.setups) : s.who = p)
(* The marker games of a player.  A manager that waits has no owner yet.     *)
OwnedBy(g, p) == kind = "marker" /\ g.owner = p

(* m_waiting_games, without the managers that are not kept                   *)
StillWaiting(kept) ==
  FoldLeft(LAMBDA q, n : IF n \in kept THEN Append(q, n) ELSE q, <<>>, waiting)

(* setup_manager_for where a new manager is made: what the player owned is   *)
(* forgotten first, and an ID is asked for.                                  *)
NewGame(p, template) ==
  LET kept == {n \in DOMAIN mgrs : ~OwnedBy(mgrs[n], p)}
      new == made + 1
      setup == [who |-> p, template |-> template] IN
  /\ kind = "marker" \/ mgrs = <<>>
  /\ made < MaxMgrs
  /\ made' = new
  /\ mgrs' = [n \in kept \cup {new} |-> IF n = new THEN NewMgr(setup) ELSE mgrs[n]]
  /\ waiting' = Append(StillWaiting(kept), new)
  /\ toVault' = Append(toVault, [op |-> "nextid"])

(* GameMgr::save_setup_msg, for the manager of the age                       *)
SaveSetup(g, p) == [g EXCEPT !.setups = Append(@, [who |-> p, template |-> 0])]

(* A setup for the manager of the age: saved while it waits for its ID.      *)
JoinGame(p) ==
  /\ kind # "marker" /\ mgrs # <<>>
  /\ mgrs' = [mgrs EXCEPT ![1] = IF @.id = 0 THEN SaveSetup(@, p) ELSE InitializeGame(@, p)]
  /\ UNCHANGED <<made, waiting, toVault>>

(* GameMgrMsg with a setup.  A client asks once for the game of the age.     *)
Setup(p, template) ==
  /\ p \in here
  /\ kind # "marker" => p \notin joined /\ AsksInTurn(p)
  /\ joined' = joined \cup {p}
  /\ NewGame(p, template) \/ JoinGame(p)
  /\ UNCHANGED <<kind, here, visits, next_id, fromVault>>

(* The players this step's setup replies go to.                              *)
InitializedNow(p) == IF mgrs # <<>> /\ AgeMgr.id # 0 THEN {p} ELSE {}

(* The backend: the next ID, no matter who asks.                             *)
VaultNextID ==
  /\ toVault # <<>> /\ Head(toVault).op = "nextid"
  /\ toVault' = Tail(toVault)
  /\ fromVault' = Append(fromVault, [op |-> "nextid", id |-> next_id])
  /\ next_id' = next_id + 1
  /\ UNCHANGED <<kind, here, visits, joined, mgrs, made, waiting>>

(* GameMgr::assign_id: every setup that was saved, from the first to the last *)
InitializeAll(g, setups) == FoldLeft(LAMBDA h, s : InitializeGame(h, s.who), g, setups)

(* TRACK_NEXT_GAMEID: the first that waits gets the ID and answers every     *)
(* setup it saved.  front() of an empty list is not defined: see             *)
(* IdsFindTheirManagers.                                                     *)
GotNextID ==
  /\ fromVault # <<>> /\ Head(fromVault).op = "nextid" /\ waiting # <<>>
  /\ LET n == Head(waiting)
         g == [mgrs[n] EXCEPT !.id = Head(fromVault).id, !.setups = <<>>] IN
     mgrs' = [mgrs EXCEPT ![n] = InitializeAll(g, mgrs[n].setups)]
  /\ waiting' = Tail(waiting)
  /\ fromVault' = Tail(fromVault)
  /\ UNCHANGED <<kind, here, visits, joined, made, next_id>>

SavedSetups == mgrs[Head(waiting)].setups

(* conn_shutdown: every game of the age hears that the player left, and the  *)
(* marker games of the player go.                                            *)
Leave(p) ==
  /\ p \in here
  /\ here' = here \ {p}
  /\ joined' = joined \ {p}
  /\ LET kept == {n \in DOMAIN mgrs : ~OwnedBy(mgrs[n], p)} IN
     /\ mgrs' = [n \in kept |-> IF kind = "marker" THEN mgrs[n] ELSE AgeMgrLeft(mgrs[n], p)]
     /\ waiting' = StillWaiting(kept)
  /\ UNCHANGED <<kind, visits, made, next_id, toVault, fromVault>>

(* The requests for an ID, or their answers, in a queue                      *)
IdMessages(q) == {i \in DOMAIN q : q[i].op = "nextid"}
=============================================================================
