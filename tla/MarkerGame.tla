----------------------------- MODULE MarkerGame -----------------------------
(* MarkerGameMgr, the backend's handle_marker with the statements it runs    *)
(* (backend_all.cc, db_requests.h, postgresql/moss.sql), and what the client *)
(* of each game is told.  A manager sends the backend a request for nearly   *)
(* all its client asks and keeps no copy of the game; the answer carries the *)
(* ID of the manager, which may be gone when it comes.  A statement may fail,*)
(* or leave the backend in doubt whether it was committed: most are tried    *)
(* once more, and then take "was done already" for success.                  *)
EXTENDS GameManagers

CONSTANTS
  GameNames,   \* names of games and of markers
  NewKinds,    \* whether games that players make are CGZ games
  MaxAsked,    \* bound: requests of clients, by the number of managers made
  MaxFaults    \* bound: statements that fail or are in doubt, likewise

VARIABLES
  mark,     \* the marker part of each manager: state, game, kind of game
  db,       \* markertemplates, markers and markersinplay: the games, by internal ID
  view,     \* what the client of each manager was told of the game
  asked,    \* requests of clients so far
  faults,   \* statements that failed so far
  apart     \* games of which an answer was lost, or that two managers had at once

markerVars == <<mark, db, view, asked, faults, apart>>

(* A row of markertemplates with its markers: number -> name, and            *)
(* markersinplay: number -> player, whose key has no place for a second.     *)
NewRow(cgz) == [exists |-> TRUE, cgz |-> cgz, referred |-> FALSE, name |-> "first",
                next |-> 0, markers |-> <<>>, inplay |-> <<>>]
(* f with v at i; what g lists with what f had besides.                      *)
Put(f, i, v) == [j \in DOMAIN f \cup {i} |-> IF j = i THEN v ELSE f[j]]
Over(g, f) == [j \in DOMAIN g \cup DOMAIN f |-> IF j \in DOMAIN g THEN g[j] ELSE f[j]]

Unseen == [name |-> "none", markers |-> <<>>, captured |-> {}]

MarkerInit ==
  /\ mark = <<>> /\ view = <<>> /\ asked = 0 /\ faults = 0 /\ apart = {}
  /\ db = <<[NewRow(TRUE) EXCEPT !.referred = TRUE, !.next = 1, !.markers = [i \in {0} |-> "first"]]>>

Ready(n) == mark[n].state \in {"READY", "PLAYING"}
AfterStart(n) == mark[n].state \in {"LIST_WAIT", "READY", "PLAYING"}

-----------------------------------------------------------------------------
(* The manager: setup and the client's messages                              *)

(* Games a client may ask for: those whose creator has heard of them.        *)
Openable(t) ==
  \A m \in ToSet(fromVault) : m.op = "newgame" => m.local # t

(* The form of a setup: with no template or one that is a UUID; with one     *)
(* that is none; or longer than it should be.  The last two open no game.    *)
Forms == {"right", "no uuid", "too long"}

(* A setup makes the marker part of the manager; the constructor's INIT.     *)
(* The manager keeps the setup until it has an ID.                           *)
MarkerSetup(p, template, cgz, form) ==
  LET has(n) == template # 0 /\ template \in {mark[n].template, mark[n].local} IN
  /\ mark' = [n \in DOMAIN mgrs' |-> IF n \in DOMAIN mark THEN mark[n]
               ELSE [state |-> "INIT", template |-> template, local |-> 0, cgz |-> cgz,
                     name |-> "first", visit |-> visits[p], form |-> form]]
  /\ view' = [n \in DOMAIN mgrs' |-> IF n \in DOMAIN view THEN view[n] ELSE Unseen]
  /\ apart' = IF \E n \in DOMAIN mark \cap DOMAIN mgrs' : has(n) THEN apart \cup {template}
              ELSE apart
  /\ UNCHANGED <<db, asked, faults>>

Request(n, op, num, name) ==
  [op |-> op, id |-> mgrs[n].id, local |-> mark[n].local, who |-> mgrs[n].owner,
   num |-> num, name |-> name, cgz |-> mark[n].cgz]

(* MarkerGameMgr::initialize_game, for the setup that waited for the ID: the *)
(* game is created or fetched.  A setup that is too long gets no reply and   *)
(* leaves the manager in INIT, with an owner and an ID; for a template that  *)
(* is no UUID the state is START, but the backend is asked for nothing.      *)
(* GotNextID adds the player in each case: m_players of a marker game is     *)
(* read by nobody.                                                           *)
MarkerInitialized ==
  LET n == Head(waiting) IN
  /\ mark' = IF mark[n].form = "too long" THEN mark ELSE [mark EXCEPT ![n].state = "START"]
  /\ toVault' = IF mark[n].form # "right" THEN toVault ELSE Append(toVault,
       [op |-> "newgame", id |-> mgrs'[n].id, local |-> mark[n].template,
        who |-> mgrs'[n].owner, num |-> 0, name |-> "first", cgz |-> mark[n].cgz])
  /\ UNCHANGED <<db, view, asked, faults, apart>>

(* The client was there when the setup reply told it of manager n.           *)
Known(n) ==
  mgrs[n].id # 0 /\ mark[n].state # "INIT" /\ mgrs[n].owner \in here /\ visits[mgrs[n].owner] = mark[n].visit

(* A message of the owner to its manager n.                                  *)
MayAsk(n) ==
  /\ kind = "marker" /\ Known(n) /\ mark[n].state # "DEAD"
  /\ asked < MaxAsked[made]
  /\ asked' = asked + 1

Ask(n, op, num, name) ==
  /\ MayAsk(n)
  /\ toVault' = Append(toVault, Request(n, op, num, name))
  /\ UNCHANGED <<kind, here, visits, joined, mgrs, made, waiting, next_id, fromVault,
                 db, faults, apart>>

AddMarker(n, name) ==
  Ready(n) /\ Ask(n, "add", 0, name) /\ UNCHANGED <<mark, view>>
RenameMarker(n, i, name) ==
  Ready(n) /\ i \in DOMAIN view[n].markers /\ Ask(n, "rename", i, name) /\ UNCHANGED <<mark, view>>
DeleteMarker(n, i) ==
  Ready(n) /\ i \in DOMAIN view[n].markers /\ Ask(n, "delete", i, "none") /\ UNCHANGED <<mark, view>>
CaptureMarker(n, i) ==
  Ready(n) /\ i \in DOMAIN view[n].markers /\ Ask(n, "capture", i, "none") /\ UNCHANGED <<mark, view>>
RenameGame(n, name) ==
  AfterStart(n) /\ Ask(n, "renamegame", 0, name) /\ UNCHANGED <<mark, view>>

(* DeleteGame: the backend deletes a CGZ game; for another, which the vault  *)
(* deletes, the client is told at once that it is gone.                      *)
DeleteGame(n) ==
  AfterStart(n) /\ mark[n].cgz /\ Ask(n, "deletegame", 0, "none") /\ UNCHANGED <<mark, view>>

(* StartGame and PauseGame stay in the server.                               *)
StartMarkers(n) ==
  /\ MayAsk(n) /\ mark[n].state = "READY"
  /\ mark' = [mark EXCEPT ![n].state = "PLAYING"]
  /\ UNCHANGED <<db, view, faults, apart, mgrVars>>
PauseMarkers(n) ==
  /\ MayAsk(n) /\ mark[n].state = "PLAYING"
  /\ mark' = [mark EXCEPT ![n].state = "READY"]
  /\ UNCHANGED <<db, view, faults, apart, mgrVars>>

(* A spoiled form: the client hears of the reset, the database does not.     *)
MutResetMarkers(n) ==
  /\ Ready(n) /\ MayAsk(n)
  /\ mark' = [mark EXCEPT ![n].state = "READY"]
  /\ view' = [view EXCEPT ![n].captured = {}]
  /\ UNCHANGED <<db, faults, apart, mgrVars>>
(* ResetGame: the captures are to go, the client hears that they did.        *)
ResetMarkers(n) ==
  /\ Ready(n) /\ Ask(n, "stop", 0, "none")
  /\ mark' = [mark EXCEPT ![n].state = "READY"]
  /\ view' = [view EXCEPT ![n].captured = {}]

(* The games of a player that left went with their managers.                 *)
MarkerLeft ==
  /\ mark' = [n \in DOMAIN mgrs' |-> mark[n]]
  /\ view' = [n \in DOMAIN mgrs' |-> view[n]]
  /\ UNCHANGED <<db, asked, faults, apart>>

-----------------------------------------------------------------------------
(* The database: what a request m does to its row, and what it returns       *)

Row(m) == db[m.local]
Fits(m) == m.num \in DOMAIN Row(m).markers
Drop(f, i) == [j \in DOMAIN f \ {i} |-> f[j]]

(* deletemarkergame, addmarker, renamemarker, deletemarker, setmarkerto,     *)
(* stopmarkergame, renamemarkergame.                                         *)
Result(m) ==
  CASE m.op = "deletegame" -> IF ~Row(m).exists THEN "NOT_FOUND"
                              ELSE IF Row(m).referred THEN "INVALID" ELSE "OK"
    [] m.op \in {"renamegame", "add"} -> IF Row(m).exists THEN "OK" ELSE "NOT_FOUND"
    [] m.op \in {"rename", "delete"} -> IF Fits(m) THEN "OK" ELSE "NOT_FOUND"
    [] m.op = "stop" -> "OK"
    [] m.op = "capture" ->
         CASE ~Fits(m) -> "NOT_FOUND"
           [] Fits(m) /\ m.num \notin DOMAIN Row(m).inplay -> "OK"
           [] Fits(m) /\ m.num \in DOMAIN Row(m).inplay /\ Row(m).inplay[m.num] = m.who -> "EXISTS"
           [] OTHER -> "ERROR"   \* the key of markersinplay is taken

Updated(m) ==
  LET r == Row(m) IN
  CASE m.op = "deletegame" -> [r EXCEPT !.exists = FALSE, !.markers = <<>>, !.inplay = <<>>]
    [] m.op = "renamegame" -> [r EXCEPT !.name = m.name]
    [] m.op = "add" -> [r EXCEPT !.markers = Put(@, r.next, m.name), !.next = @ + 1]
    [] m.op = "rename" -> [r EXCEPT !.markers[m.num] = m.name]
    [] m.op = "delete" -> [r EXCEPT !.markers = Drop(@, m.num), !.inplay = Drop(@, m.num)]
    [] m.op = "capture" -> [r EXCEPT !.inplay = Put(@, m.num, m.who)]
    [] m.op = "stop" -> [r EXCEPT !.inplay = [i \in {j \in DOMAIN @ : @[j] # m.who} |-> @[i]]]
Committed(m) == IF Result(m) = "OK" THEN [db EXCEPT ![m.local] = Updated(m)] ELSE db

Captured(r, p) == {i \in DOMAIN r.inplay : r.inplay[i] = p}

(* How a statement may go: done; failed; in doubt, kept or lost.  With what  *)
(* is tried again after a doubt.                                             *)
Tries == {<<"done">>, <<"failed">>, <<"kept", "done">>, <<"lost", "done">>,
          <<"kept", "failed">>, <<"lost", "failed">>}
TriedAgain == {"deletegame", "renamegame", "rename", "delete", "capture", "stop"}

(* The result the handler acts on: on a second try "not there" and "captured *)
(* already" are taken for the success of the first.                          *)
Outcome(m, try) ==
  LET again == Len(try) > 1
      was == \/ m.op \in {"delete", "deletegame"} /\ Result(m) = "NOT_FOUND"
             \/ m.op = "capture" /\ Result(m) = "EXISTS" IN
  IF try[Len(try)] # "done" THEN "ERROR" ELSE IF again /\ was THEN "OK" ELSE Result(m)

(* What the server is sent: nothing, unless it went well; but the deletion   *)
(* of a game is always answered.                                             *)
Reply(m, out) ==
  CASE m.op = "deletegame" -> <<[m EXCEPT !.num = IF out \in {"OK", "INVALID"} THEN 1 ELSE 0]>>
    [] m.op # "deletegame" /\ m.op # "stop" /\ out = "OK" ->
         <<IF m.op = "add" THEN [m EXCEPT !.num = Row(m).next] ELSE m>>
    [] OTHER -> <<>>

Applied(try) == "done" \in ToSet(try) \/ "kept" \in ToSet(try)

(* handle_marker for a request that changes a game.                          *)
VaultChanges(try) ==
  LET m == Head(toVault)
      out == Outcome(m, try) IN
  /\ toVault # <<>> /\ m.op \notin {"nextid", "newgame"}
  /\ Len(try) > 1 => m.op \in TriedAgain \/ (m.op = "add" /\ try[2] = "failed")
  /\ try # <<"done">> => faults < MaxFaults[made]
  /\ faults' = IF try = <<"done">> THEN faults ELSE faults + 1
  /\ db' = IF Applied(try) THEN Committed(m) ELSE db
  /\ fromVault' = fromVault \o Reply(m, out)
  /\ apart' = IF out = "ERROR" THEN apart \cup {m.local} ELSE apart
  /\ toVault' = Tail(toVault)
  /\ UNCHANGED <<mark, view, asked, kind, here, visits, joined, mgrs, made, waiting, next_id>>

(* handle_marker for MARKER_NEWGAME: the game is created or found; for one   *)
(* that is found its markers follow, none if they cannot be read, and if     *)
(* there are any, those the player has captured.                             *)
VaultOpens(found, listed, states) ==
  LET m == Head(toVault)
      new == m.local = 0
      local == IF new THEN Len(db) + 1 ELSE m.local
      row == IF new THEN NewRow(m.cgz) ELSE Row(m)
      markers == IF listed THEN row.markers ELSE <<>>
      game == [op |-> "newgame", id |-> m.id, exists |-> row.exists, local |-> local,
               name |-> row.name, cgz |-> row.cgz]
      dump == [op |-> "dump", id |-> m.id, markers |-> markers]
      state == [op |-> "state", id |-> m.id,
                captured |-> IF states THEN Captured(row, m.who) ELSE {}] IN
  /\ toVault # <<>> /\ m.op = "newgame"
  /\ ~(found /\ listed /\ states) => faults < MaxFaults[made]
  /\ faults' = IF found /\ listed /\ states THEN faults ELSE faults + 1
  /\ db' = IF new /\ found THEN Append(db, row) ELSE db
  /\ fromVault' = fromVault \o
       (CASE ~found -> <<>>
          [] found /\ (new \/ ~row.exists) -> <<game>>
          [] found /\ ~new /\ row.exists /\ markers = <<>> -> <<game, dump>>
          [] OTHER -> <<game, dump, state>>)
  /\ apart' = IF found /\ listed /\ states THEN apart ELSE apart \cup {m.local}
  /\ toVault' = Tail(toVault)
  /\ UNCHANGED <<mark, view, asked, kind, here, visits, joined, mgrs, made, waiting, next_id>>

-----------------------------------------------------------------------------
(* The manager: the answers of the backend                                   *)

(* process_backend_message, for the manager the answer names.                *)
GotNewGame(n, m) ==
  LET new == mark[n].template = 0 IN
  IF mark[n].state # "START" THEN UNCHANGED <<mark, view>>
  ELSE IF ~m.exists THEN mark' = [mark EXCEPT ![n].state = "DEAD"] /\ UNCHANGED view
  ELSE /\ mark' = [mark EXCEPT ![n].state = IF new THEN "READY" ELSE "LIST_WAIT",
                               ![n].local = m.local, ![n].cgz = m.cgz, ![n].name = m.name]
       /\ view' = IF new THEN [view EXCEPT ![n].name = m.name] ELSE view

(* A spoiled form: a game without markers is not ready.                      *)
MutGotDump(n, m) ==
  IF mark[n].state # "LIST_WAIT" \/ m.markers = <<>> THEN UNCHANGED <<mark, view>>
  ELSE /\ mark' = [mark EXCEPT ![n].state = "READY"]
       /\ view' = [view EXCEPT ![n].markers = Over(m.markers, @), ![n].name = mark[n].name]
GotDump(n, m) ==
  IF mark[n].state # "LIST_WAIT" THEN UNCHANGED <<mark, view>>
  ELSE /\ mark' = [mark EXCEPT ![n].state = "READY"]
       /\ view' = [view EXCEPT ![n].markers = Over(m.markers, @), ![n].name = mark[n].name]

GotState(n, m) ==
  /\ view' = IF Ready(n) THEN [view EXCEPT ![n].captured = @ \cup m.captured] ELSE view
  /\ UNCHANGED mark

(* ADD, RENAME, DELETE, GAME_RENAME, CAPTURE and GAME_DELETE                 *)
GotChange(n, m) ==
  LET v == view[n] IN
  /\ view' = IF ~AfterStart(n) \/ (m.op = "capture" /\ ~Ready(n)) THEN view
             ELSE [view EXCEPT ![n] =
               CASE m.op = "add" -> [v EXCEPT !.markers = Put(@, m.num, m.name)]
                 [] m.op = "rename" -> [v EXCEPT !.markers = Put(@, m.num, m.name)]
                 [] m.op = "delete" -> [v EXCEPT !.markers = Drop(@, m.num), !.captured = @ \ {m.num}]
                 [] m.op = "renamegame" -> [v EXCEPT !.name = m.name]
                 [] m.op = "capture" -> [v EXCEPT !.captured = @ \cup {m.num}]
                 [] m.op = "deletegame" -> v]
  /\ mark' = IF AfterStart(n) /\ m.op = "deletegame" /\ m.num = 1
               THEN [mark EXCEPT ![n].state = "DEAD"] ELSE mark

GotMarkerAnswer ==
  /\ fromVault # <<>> /\ Head(fromVault).op # "nextid"
  /\ LET m == Head(fromVault)
         who == {n \in DOMAIN mgrs : mgrs[n].id = m.id} IN
     IF who = {} THEN UNCHANGED <<mark, view>>
     ELSE \E n \in who :
       CASE m.op = "newgame" -> GotNewGame(n, m)
         [] m.op = "dump" -> GotDump(n, m)
         [] m.op = "state" -> GotState(n, m)
         [] OTHER -> GotChange(n, m)
  /\ fromVault' = Tail(fromVault)
  /\ UNCHANGED <<db, asked, faults, apart, kind, here, visits, joined, mgrs, made,
                 waiting, next_id, toVault>>

-----------------------------------------------------------------------------
Quiet == toVault = <<>> /\ fromVault = <<>>
(* When nothing is on its way, a client that has a game to itself was told   *)
(* the name and the markers the database has, and of every capture of its    *)
(* player that the database keeps: answers that overtake a reset, come for a *)
(* manager that is gone, or were sent after a second try do no harm.  A game *)
(* of which an answer was lost with its statement is left out.               *)
ClientSeesTheGame ==
  \A n \in DOMAIN mark :
    Quiet /\ Ready(n) /\ Known(n) /\ mark[n].local \notin apart =>
      LET r == db[mark[n].local] IN
      r.exists => /\ view[n].name = r.name
                  /\ view[n].markers = r.markers
                  /\ Captured(r, mgrs[n].owner) \subseteq view[n].captured

(* A game that a player asks for is opened, or the player is told nothing    *)
(* because there is no such game, or left; unless a statement failed.  Of a  *)
(* setup that is not as it should be nothing comes: initialize_game drops it *)
(* without a word, and the player waits for the game until it leaves.        *)
OpenedGameIsReady ==
  \A n \in 1..MaxMgrs :
    (n \in DOMAIN mark /\ faults = 0 /\ mark[n].form = "right")
      ~> (n \in DOMAIN mark => Ready(n) \/ mark[n].state = "DEAD" \/ faults > 0)

(* setmarkerto "Returns 1 if the marker already had that value, -1 if the    *)
(* marker doesn't exist, 0 otherwise": a capture of a marker that exists is  *)
(* recorded for its player.                                                  *)
CaptureIsRecorded ==
  [][toVault # <<>> /\ toVault' = Tail(toVault) /\ faults' = faults /\ Head(toVault).op = "capture"
       => LET m == Head(toVault) IN Fits(m) => m.num \in Captured(db'[m.local], m.who)]_<<db, toVault>>
=============================================================================
