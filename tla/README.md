# A TLA+ specification of MOSS

MOSS is a server for Myst Online (C++, source in `src/`).  This directory holds
TLA+ models of its parts, the TLC configurations that check them on small
instances, and TLAPS proofs of the properties that matter most for instances of
any size.  Every definition is written from the source; `PROJECT.json` gives the
lines each one stands for.

1. [The system](#1-the-system)
2. [The modules](#2-the-modules)
3. [The runs](#3-the-runs): what they show, bounds, fairness
4. [The proofs](#4-the-proofs)
5. [What the models keep that the properties do not forbid](#5-what-the-models-keep-that-the-properties-do-not-forbid)
6. [Where code and comments disagree](#6-where-code-and-comments-disagree)
7. [The plan](#7-the-plan)
8. [What is not modelled](#8-what-is-not-modelled)

## 1. The system

A `moss` process has a *dispatcher* thread that accepts clients.  A client that
wants an auth server gets a thread of its own (`AuthServer`, one object per
client); game servers (`GameServer`, one per age instance) are threads started by
the dispatcher; file and gatekeeper servers serve several clients each.  All of
them are `Server` objects run by one select loop, `serv_main` (`moss_serv.cc`),
and all of them have a TCP connection to the *backend*, a process of its own with
one thread (`backend_all.cc`), which runs the same loop.  The backend holds the
accounts, the vault and the marker games (in PostgreSQL), and *tracking*: who is
logged in, which game server runs which age.  The build described here is the
default one: game servers are threads (neither `FORK_GAME_TOO` nor
`STANDALONE`), one login per account (no `MULTI_LOGIN`), libpqxx.

How a player gets into an age crosses most of it:

    client          auth server        backend (tracking)     dispatcher    game server
      | login, set player |  AUTH_ACCT_LOGIN, |                    |             |
      |------------------>|  AUTH_KI_VALIDATE |                    |             |
      | age request       |------------------>|                    |             |
      |------------------>|  TRACK_FIND_GAME  |  TRACK_START_GAME  |  new thread |
      |                   |------------------>|------------------->|------------>|
      |                   |                   |<---------------- TRACK_GAME_HELLO|
      |                   |                   |--- TRACK_ADD_PLAYER ------------>|
      |                   |                   |<-- TRACK_ADD_PLAYER (ack) -------|
      |<------------------|<------------------|                    |             |
      | connects, JoinAgeRequest ------------------------------- > | hand-off -->|
      |                   |                   |<-- TRACK_GAME_PLAYERINFO --------|
      | game messages <------------------------------------------------------->  |
      |                   |                   |<-- TRACK_NEXT_GAMEID, MARKER_* ->|

### Components

| Component | State | Operations | Talks to | Hard behaviour | What makes it correct |
|---|---|---|---|---|---|
| **Game server**: connections, joins, shutdown (`GameServer.cc/.h`) | `m_conns`, the `JoinTimer`s in `m_timers`, `m_joiners`, `m_shutdown_timer`, `m_timed_shutdown`, `m_group_owner`, the queue shared with the dispatcher | hand-over, `handle_join_request`, member list, `conn_shutdown`, `conn_timeout`, `TRACK_ADD_PLAYER`, `TRACK_GAME_BYE`, `ADMIN_KILL_CLIENT`, `shutdown` | tracking by messages, the dispatcher by a mutex-protected queue and a signal, `ThreadManager` | two threads; registrations that expire while a player is on the way; a client that returns before its old connection is noticed to be dead; joins during the drain | nobody is shut out or shut down upon; one connection per player; tracking, the owner and the member lists right; the server ends when it is not needed |
| **Timer queue** (`moss_serv.cc/.h`) | `m_queue` (a heap), `m_timeout`, the timers' `m_when` and `m_cancelled` | `insert`, `cancel`, `handle_timeout`, `set_timeout` | every server; callbacks into their owners | callbacks that set timers while the heap is being popped; cancelled timers in the heap | each timer called once, on time, soonest first; the loop wakes for the soonest |
| **Tracking** (`backend_all.cc`, `moss_backend.h`) | the hash table of `ConnectionEntity`, the `Waiter`s in `m_timers` | `TRACK_FIND_GAME`, `TRACK_START_GAME`, `TRACK_GAME_HELLO`, `TRACK_ADD_PLAYER`, `TRACK_GAME_BYE`, `TRACK_GAME_PLAYERINFO`, `conn_shutdown`, `Waiter::callback` | auth and game servers, dispatchers | several waiters for one age; servers that stop, crash or refuse while someone is on the way; time-outs | every request waited for once, answered once, and answered at all |
| **Auth sessions** (`AuthServer.cc/.h`, `handle_auth`) | server: `m_state`, `m_reqid`, `m_kinum`, the account, downloads; backend: entity, table of connected players | login, set player, player create and delete, age request, file download; the backend's answers | client, backend | one `m_reqid` for all kinds of requests; answers to requests that were superceded; punted sessions; database failures | plays a player of its own account; both sides agree; late answers never taken for current ones |
| **Object locks** (`GameState.cc/.h`) | `m_locks`, the `ClearLockTimer`s | `try_lock`, `clear_lock`, the timer | clients, timer queue | timers of earlier grants go off during later ones | mutual exclusion for `MAX_LOCK_TIME`; no lock kept for ever |
| **Select loop** (`moss_serv.cc`) | accepted descriptors and their time-outs, read and write buffers, the sets for `select` | one turn of `serv_main` | all servers | reads that end anywhere; connections that drain; peers that do not read; timeouts only on quiet turns | messages framed right, everyone served, a drain complete |
| **Message queues** (`MessageQueue.cc`, `NetworkMessage.cc`) | a deque, a position, reference counts | `enqueue`, `reset_head`, `fill_iovecs`, `fill_buffer`, `clear_queue` | all | partial writes; one message in many queues; two threads | first in first out, each message whole; freed once |
| **File server** (`FileServer.cc`, `FileTransaction.cc`, `FileMessage.cc`) | `m_pending_transactions`, the queue of replies | manifest, download, acknowledgements, ping | clients | replies refer to transactions that acknowledgements move and delete; writes cut anywhere | each file whole, in order, to its end |
| **Game managers** (VarSync, BlueSpiral, Heek, Marker: `GameState.cc`, `GameHandler.h`, `GameServer.cc`) | `m_age_games`, `m_marker_games`, `m_waiting_games`; members and owner; variables, the door, sitters, the pool, rounds and timers | setup, leave, the messages of each game, their timers, `TRACK_NEXT_GAMEID` | clients, tracking (game ids), timer queue | players leave in mid-round and in the middle of a setup; timers of an earlier round | IDs go to those that asked; views agree; points and counts right; what begins ends |
| **Marker games in the vault** (`handle_marker`, `db_requests.h`, `postgresql/moss.sql`) | `markertemplates`, `markers`, `markersinplay` | create, open, add, rename, delete, capture, reset | game servers | statements that fail, or are in doubt and tried once more; answers that cross | the client sees the game the database has |
| **Message formats** (`BackendMessage.cc/.h`, `AuthMessage.cc`, `GameMessage.cc`, `GatekeeperMessage.cc`) | the bytes of a message | constructors, `fill_iovecs`, `fill_buffer`, `make_if_enough` | all | a layout is written down two or three times; messages come in pieces and are relayed | read where written; the length never misjudged |
| **Dispatcher** (`dispatcher.cc`, `ThreadManager.h`) | its clients, the list of threads, its connection to tracking | negotiate, hand over, start a game server, reap, reload | all | hand-over races the end of the thread; reconnection to tracking | no connection lost or stuck |
| **Age state** (`SDL.cc`, `GameState.cc`) | SDL states, clones, physicals | SDL messages, load clone, the kickable filter | game server, vault | versions of state descriptions, interrupted loads | the last state wins |
| **Gatekeeper server** (`GatekeeperServer.cc`) | one pending request | address look-up | clients, tracking | — | answered once |
| **Vault nodes** (`backend_all.cc`, `db_requests.h`, `postgresql/`) | the database | node operations, each a SQL function | auth and game servers | commits in doubt, retried once | at most once |
| **Cryptography, configuration, logging, tools** | — | — | — | pure functions and I/O | — |

The behaviours that are hard to test are listed, each at its line, under
`hazards` in `PROJECT.json`, with the properties that cover them.

## 2. The modules

    GameServer <- GameServerProps <- GameServerProofs
    TimerHeap  <- TimerQueue  <- MCTimerQueue <- TimerQueueProofs (with SequenceFacts; implements Timers)
               <- Tracker     <- MCTracker    <- TrackerProofs    (with SequenceFacts)
    AuthSession <- AuthSessionProps <- MCAuthSession
                                    <- AuthSessionProofs
    MessageQueue <- Serving <- MCServing
                            <- ServingProofs (with SequenceFacts)
    FileServer <- MCFileServer
               <- ServingProofs
    GameManagers <- VarSync, DoorGame, Heek, MarkerGame <- Games <- MCGames
                                                              <- GamesProofs (with SequenceFacts)
    ObjectLocks                                               <- GamesProofs
    BackendMembers <- BackendFormats <- MarkerFormats <- VaultFormats
                   <- ClientFormats <- Formats <- Links <- MCLinks
                                                        <- LinksProofs (with SequenceFacts)

An operator whose name begins with `Mut` is not part of the model: it is a slip
the code could have had, kept beside the definition it spoils.  Each property has
one under which TLC finds the property violated (`mutants` in `PROJECT.json`), so
that no property holds for want of anything that could break it.

### GameServer

One game server, with the dispatcher's thread and tracking as its environment.
`conns` maps the order of arrival to a `Connection` (KI number, `state_t`,
`in_shutdown`, and what its client was told: the answer to the join, its last
`PlNetMsgGroupOwner`, the members).  `joinTimers` are the `JoinTimer`s of
`m_timers`, `shutdownTimer` is `m_shutdown_timer` together with
`m_timed_shutdown`, `told` what tracking was told by `TrackGamePlayerInfo`.

* Dispatcher's thread: `HandOff`, `RequestShutdown`, `Reap` (`thread_join`,
  `~GameServer`).
* Joins: `TakeQueue` swaps the shared queue under its mutex, `JoinQueued` works
  through it, `LateJoin` is a second JoinAgeRequest of a connection that is there.
  All of them are `JoinRegistered`, `JoinRepeated` or `JoinUnknown`, the three
  ways out of the scan in `handle_join_request`, with the eviction of a stale
  connection of the same player.  A registered join of a connection that had the
  member list takes it back to `JOINED` (`GameServer.cc:1590`): its client keeps
  the list, and is sent no more updates until it asks again (`asked`).
* Clients: `MembersListReq`, `ClientProgress`, `DropClient` (`conn_shutdown`),
  `KillBroken`.
* Tracking: `AddPlayer`, `KillClient`, `GameBye`.
* Time: `TimersTimeout` is one `handle_timeout` and the server's reaction to it.
* The end: `Shutdown`, and `JoinAfterShutdown`, `Quit`.

`phase = "undefined"` is the use of freed memory: nothing is promised after it.

Abstracted: SDL, clones and game managers, messages that are only forwarded; time
(a timer may expire at any step, equal delays in the order they were set); where
in the heap of timers a registration is found (any match may be the first).  Each
connection's requests carry the KI number of one player `who`, and the account
UUID that the scan also compares goes with it.

### TimerHeap, TimerQueue, Timers

`TimerHeap` has the C++ library's `push_heap` and `pop_heap` as operators
(marked external) in the order libstdc++ moves elements, and `IsHeap` from
`timer_compare`.  `TimerQueue` is the code: `Insert`, `Cancel`, `WakeUp`, and
`handle_timeout` taken apart into `Fire` (a callback, which may set a timer),
`Discard` and `Done`, since a callback sees the queue in the middle of the loop.
No callback of the program cancels another timer, so `Fire` does not either.
`Timers` is what the comment on `Timer` in `moss_serv.h` promises: a set of timers
with times, each called once, in time, soonest first, unless cancelled.  The wall
clock is assumed not to be set back.

### Tracker

Tracking, with auth servers, game servers and the dispatcher reduced to the
messages they exchange with it.  One age: every scan compares age UUIDs first, so
waiters and servers of another age are not looked at.  `waiters` holds every
`Waiter` ever made; `queue` is the array `m_timers` they are deleted from, with
the heap operators of `TimerHeap`, since the handlers scan the *array* and take
the first that matches.  Hash tables are scanned in the order of their (numbered)
entries.

* Auth connections: `Login`, `KiValidate`, `FindGame`, `AuthLeaves`
  (`conn_shutdown`).
* Game connections: `Hello`, `Ack`, `PlayerInfo`, `GameAsks`, `GameLeaves`
  (`conn_shutdown`, which may start a server for those that wait).
* `StartFailed` (the dispatcher's answer), `WaitersTimeOut`.
* The environment: `StartServer`, `RefuseStart`, `StartLost`; `Register`, `Drop`,
  `Arrive`, `Leave`, `Forget`, `AskToStop`, `Stop` of each game server.  `Stop` is
  also a crash: it may come at any time, and what was sent to the server is lost.
  `StartLost` is a server whose thread ends before its hello, as when
  `GameServer::init` fails (`GameServer.cc:240`), of which tracking is told nothing.
  The ghost variable `starved` says that this happened, or that
  `handle_age_request` failed in place of a server that left, and nobody asked
  since: those who wait then have only their time-outs.

Abstracted: equal waiting times, so those due at one instant are taken in the
order they were made; the saved vault SDL, Bahro caves, the online flag in the
vault.  Not modelled: inter-age messages, service look-up, the loss of the
dispatcher's connection, and error codes in a game server's acknowledgement that
no game server sends.

### AuthSession

Several sessions, each an `AuthServer` and its entity in the backend, joined by
two first-in-first-out connections.  `auth` is the server (`m_state`, `m_reqid`,
`m_kinum`, the account, whether a download waits for acknowledgements); `requests`
numbers the client's requests and counts the answers to each.  The client may send
anything at any time; `Kick` is the server ending the session for it, after which
nothing of it is left and what is still on its way to it is lost.  The backend is
`AcctLogin` (with the punt of an earlier session), `KiValidate`, `PlayerLogout`,
`ChangePlayers`, `FindGame`, `AgeFound` and `SessionEnds`; a database failure may
strike a login, a validation, the creation of a player or an age request.

Abstracted: the HELLO exchange (part of `Init`); tracking's answer to an age
request (`AgeFound`, at any later step); `Holder`, who owns which player, does not
change.  Not modelled: password changes, vault requests that are passed through,
pings, file contents, messages that are ignored, failures of the two queries whose
result is not looked at (`set_player_offline` and `SetPlayerConnected`), and the end
of the backend.  A client is assumed not to use request id 0.

### ObjectLocks

`try_lock`, `clear_lock` and `ClearLockTimer` behind `plNetMsgTestAndSet`.  `lease`
is the clients' side: when each was granted what it has not given back.
`lockseq` is unbounded here: it is 32 bits wide and a timer lives five seconds, so
a timer never meets its own number again.

### MessageQueue, Serving

`Serving` is `serv_main` as the backend runs it: it listens, the first byte of a
connection is the first of its first message, and a message it reads may be
answered on every connection at once.  A turn of the loop goes from `Select`
(which drops the connections that are drained and decides what `select` looks at)
over `Accept` or `NothingToAccept`, `ReadTypes`, `Serve` (`Read`, `ReadEnd`,
`WritePlain`, `WriteEncrypted`, `WriteFails`) to `EndOfTurn`, or to `TimeOut` when
nothing was ready; clients act while the loop waits in `select`.  A peer takes
what is written to it at once, but those in `Deaf` never read: their sockets take
`SOCKBUF` cells and are not writable after that (`Takes`, `Writable`).  `slot`, `due`,
`used` are `accepted_fds`, `fd_timeouts`, `fds_used`; `buf` and `big` are
`m_readbuf` and `m_bigbuf`; `wbuf` is `m_writebuf`.

Data is counted in cells, numbered through, so that every cut and every
misplacement shows.  A message says its length in its first cell.  `MessageQueue`
has the queue as a sequence of the cells it has still to write, which is the deque
with `Entry::so_far` of its head, and `refs` counts the queues a message is in.

Abstracted: `select` counts down the descriptors it found, which lets the loop
leave some for the next turn; the model serves all that is ready.  Left out:
servers that do not listen (their signals are in `GameServer` and `Tracker`), `MultiWriterMessageQueue` (its lock is held over each
operation, and the signal that follows is in `GameServer`).  The array of slots does
not grow in the code either: `fds_size` is `max_accepted_fds` from the start, so what
would make it larger (`moss_serv.cc:889`) is never reached.

### FileServer

One client with several requests.  `pending` is `m_pending_transactions`, an
`offset` in each; a queued reply holds its header's length and *refers* to its
transaction for the data, as `FileServerMessage` does, so it is written from
wherever the transaction stands by then.  `Fill` is `fill_iovecs`, `Written` is
`iovecs_written_bytes`.  Positions are cells of the file; a header is one cell, so
is the length in front of a manifest entry; the two null bytes behind a chunk of a
manifest are two.  The client acknowledges each chunk it has whole (external).

### GameManagers, VarSync, DoorGame, Heek, MarkerGame, Games

`GameManagers` is what all games of an age share: setups, IDs asked for and given
to the first manager that waits, the setups that wait with it, members, the owner
and who follows him.  The four modules on top say what each kind does; `Games`
puts them together.  A behaviour is about one kind (`kind`), as they share nothing
but the departure of a player, which each hears of.

* `VarSync`: `CreateNumericVar`, `SetNumericVar`, and what each client was told.
* `DoorGame` (BlueSpiral): the door, the cloths, and the timers in the queue, with
  those that nobody names any more.
* `Heek`: the manager as one record, `heek`, and the C++ functions as operators on
  it; the owner's client may or may not say that an animation is over.  Points
  live at the table, in the pool, or with the client.
* `MarkerGame`: the manager's state, the backend's handlers with their second
  tries, and the rows in the database with the foreign keys and primary keys of
  `moss.sql`.  A statement may succeed, fail, or leave the backend in doubt.
  The setup of a marker game may be as it should be, or name a template that is
  no UUID, or be too long (`form`): `initialize_game` drops the last two, each in
  its own way (section 5).

What is assumed of the clients: each asks once, on each visit, for the game of the
age; the setups of the other three kinds, and all messages after the setup, have the
length they should have; in Heek a client does not sit at two chairs (`PlayGame`; the code
at `GameState.cc:2129` looks at the chair, not at the player); in VarSync
it sets variables it was told of (`SetNumericVar`; for an index that is unknown
`GameState.cc:1261` changes nothing, but the message is passed on to all); a marker game
is spoken to once the setup reply gave its ID.

Abstracted: a message to a client that is here counts as read when it is sent;
players are alike and arrive in the order of their numbers at first; in `Heek`,
what nothing reads any more is forgotten where it dies.

### The formats and Links

The layout of every class of message is written down two or three times, in code
kept apart: the length a constructor claims, the fields as written, and the places
they are read from.  `BackendMembers` has the widths of the members;
`BackendFormats` (with `MarkerFormats`, `VaultFormats`) has those three for every
backend message, `ClientFormats` those of the clients' and the servers' messages
to them, where `Heard` says what `make_if_enough` names the length from.
`Formats` goes from a class to its layout.

`Links` sends one message over the link it is made for: `Write` is `writev()`
with any number of iovecs and bytes, `FillAndWrite` is `fill_buffer` into the write
buffer of an encrypted connection behind what others left in it, `Send` is a
client.  `Receive` is `make_if_enough` on what has come; `Relay` is the auth
server, which passes vault messages on in both directions unread.

Abstracted: the content of vault nodes and of keys is a number of bytes.

## 3. The runs

Every run takes less than five minutes with two workers, most less than two.

| Run | Result | Distinct states | What it shows |
|---|---|---|---|
| `GameServer` | holds | 779,058 | `NobodyAbandoned`: from the moment the shutdown timer is armed until the Bye is answered nobody is in the age or promised a place. `OneConnectionPerPlayer`, `TrackingIsRight`, `OwnerIsRight`, `MemberListsAreCurrent`: evictions, repeated joins and departures leave players, tracking, the group owner and the lists right. `HandOffIsServed`, `EmptyServerEnds`: a connection handed over does not stay in the queue, and a server nobody is at or on the way to goes. |
| `TimerQueue` | holds | 549,860 | The queue implements `Timers`; nothing that is due is left behind (`AllDueAreCalled`); every timer ends. |
| `Tracker_safety` | holds | 1,345,502 | A request of a client that stays is waited for until it is answered, and once (`OneWaiterPerRequest`), answered once (`SentOnce`), and while anybody waits a server runs, comes or is asked for, or tracking will hear of its end (`UnderWay`), unless a start was lost without a word. |
| `Tracker_live` | holds | 132,737 | `RequestIsAnswered`: every request is answered, with dispatchers that refuse, servers that die before their hello, and age requests that the database defeats. |
| `AuthSession` | holds | 753,292 | `SidesAgree`: server and backend mean the same account and the same player, and it is one of the account's. `OnlyTheLastAge`: late answers to age requests are not taken for the current one. `LastRequestIsAnswered`. |
| `ObjectLocks` | holds | 108,362 | Two players are never entitled to one object (`OneEntitled`); whatever is locked is timed (`HeldIsTimed`); grants end. |
| `Serving` | holds | 252,828 | `MessagesAreFramed`, `RepliesAreWhole`: wherever reads and writes are cut. `RefsCounted`: a message in several queues is freed with the last. `DrainedInFull`, `SlotIsFreed`. `ShutdownEnds`: unless somebody does not read what is queued for him. |
| `FileServer` | holds | 58,158 | `FilesArriveWhole`: whole messages, and the data of each file in order, though replies refer to transactions that move. `DownloadEnds`. |
| `Links` | holds | 22,712 | `ArrivesAsSent`: every field is read where it was written, in every class and however the message was cut. `LengthIsKnownOrNot`: no beginning of a message is taken for one of another length. `EveryMessageArrives`. |
| `Games` | holds | about 424,000 | `IdsFindTheirManagers`; `ViewsAgree` (VarSync); `PointsAreConserved`, `CountsAreRight`, `RoundEnds` (Heek); `EveryoneHearsTheEnd` (BlueSpiral); `ClientSeesTheGame`, `OpenedGameIsReady` (marker games). |
| `Links_stuck` | violated | | `EmptyFillIsDone`, see 6. |
| `Games_forgotten` | violated | | `OnlyTheLeaverIsForgotten`, see 6. |

Six more configurations are violated on purpose; section 6 has what they show and
how to run them.

### Bounds

* `GameServer`: two players, three registrations, three connections.  Two
  connections of one player and one of another is what an eviction with a
  bystander takes; a third registration lets an expired, a used and a live one
  meet.
* `TimerQueue`: four timers (a heap with two levels below its root, so `pop_heap`
  chooses between children), times 0 to 3.
* `Tracker`: two players at one client each, two game servers (one that quits and
  its replacement; one in `Tracker_live`), two requests.  Sessions and servers are
  numbered, and taken in that order.  `MaxRefusals` counts requests defeated by
  the database or for want of a dispatcher: one in both runs.  When that strikes the
  request of `conn_shutdown` of a game server for a replacement, the first waiter is told
  and stays in the queue with the others, so he is told twice that there is no server,
  which `SentOnce` does not forbid.  `RefuseStart` and `StartLost` are allowed in both.
* `AuthSession`: two accounts with a player each, one session with four requests
  and one with one, one database failure.  Four requests are what an age request
  takes that follows another one: login, player, age, age.
* `ObjectLocks`: a lock and a footstep, two players and a connection without a KI
  number, three grants, so that timers of two earlier grants can be in the queue.
* `Serving`: two slots, three clients: one sends a short message and one that is
  longer than the read buffer (2 cells), one a short message and closes, one says
  nothing.  Replies of two cells, a write buffer of three, one connection
  encrypted; the one who sends one message reads nothing (`Deaf`), and its socket takes three
  cells, a reply and a half; the clock runs to 3 with a timeout of 1.  So a read ends inside a
  length, inside a message, at its end and in the next; a reply is spread over two
  write buffers.
* `FileServer`: two files of three cells in chunks of two, a manifest of three
  entries that does not fit in one chunk, a file that is missing, a ping, a name
  that ends the connection.  `Alone` keeps a manifest from having other replies
  behind it and `Split` keeps its two null bytes together; section 6 has why.
* `Links`: one message in each behaviour; strings, lists and buffers of length 0,
  1 and 2; 1 or 3 iovecs; cuts after 7 bytes or none; a write buffer of 20 bytes
  with 0 or 5 of others in it.  Every class is sent in its long and its short
  form.  `Unframed` names the class that is left out; `Owned` names the classes that
  are also sent as a relayed message that owns its buffer: those that are read in the
  right place then (section 6 has the others).
* `Games`: three players at the table, in VarSync and at the door, of whom one
  comes back in the latter two; two players with marker games; two managers.  Two
  variables, two cloths (the code has seven), two rounds of the door, one point
  each, one win to the game (the code has three), rock and scissors, one timer
  that nobody holds; two requests of a marker client while there is one manager,
  one with two; one failed statement with one manager; setups of every form.

`CHECK_DEADLOCK FALSE` in all: a server ends, clients stop, and bounded counters
run out.

### Fairness

Weak fairness only, and only of what the program or the clock does by itself:

* Game server: the loop handles its signal and its queue, timers expire, the
  pending Bye is answered, a thread that has ended is reaped.  It includes that a
  quiet moment comes, for `serv_main` looks at timers only when `select` returns 0
  (`moss_serv.cc:755`): a server that never falls quiet calls no timer.  Clients
  and the dispatcher's hand-overs are not fair.
* Timer queue: the clock moves and the loop turns (with the same proviso).
* Tracking: the waiters' time-outs.  Nothing else is needed for a request to be
  answered: game servers and dispatchers may be silent for ever.
* Auth sessions: messages between server and backend arrive and are handled, and
  tracking answers, which is what `Tracker_live` shows.  Clients are not fair.
* Locks: the clock moves and the loop calls `handle_timeout`.
* Select loop: the thread runs and the clock moves.  Clients are not fair: one that
  is silent loses its slot; one that reads nothing keeps its connection from being
  drained, and the loop waits for it without a time-out, in a shutdown too
  (`moss_serv.cc:693`).  `ShutdownEnds` therefore assumes that from some moment on
  every connection with something queued is writable.
* File server: the loop reads and writes what is ready, and the client reads and
  acknowledges; which request it makes, and whether, is open.
* Links: what can be written is written and what has come is read.
* Games: the backend answers, the server reads its answers, and timers fire.  For
  Heek's timer the fairness is written out with its guard (`HeekTimerFires`), as
  `ENABLED` of that action is costly.  No player is fair.

## 4. The proofs

`GameServerProofs` proves, for any number of players, registrations and
connections and from the two assumptions of `GameServer` on its constants:

* `TypeCorrect`: `Spec => []TypeOK`.  The types matter to the rest, for
  `First` chooses a least element of a set of numbers and `Cardinality` needs finite
  sets.
* `NobodyIsAbandoned`: `Spec => [](NobodyAbandoned /\ JoinersCounted)`.
  `NobodyAbandoned` is not inductive: the code decides by the counter `m_joiners`
  and by `m_shutdown_timer`, so the invariant `Safe` adds that the counter is the
  number of live registrations, and that a Bye is only out once the timer has fired
  (after which no registration is accepted and none is left to use).  The lemmas
  say what losing a connection, an eviction and a join do to the connections and to
  `Players`; then one lemma per group of actions.

Its second half proves the other four safety properties of the run: `PlayersAreApart` (`OneConnectionPerPlayer`), `TrackingAgrees`
(`TrackingIsRight`), `OwnerAgrees` (`OwnerIsRight`) and `MemberListsAgree`
(`MemberListsAreCurrent`).  They stand or fall together, in the invariant
`Membership`:

* `handle_join_request` evicts *one* connection of the player that arrives.  That
  is enough only as long as there was at most one, and then it takes the player
  out of `Players` for the moment, which is what makes the message to tracking,
  the removal from the lists and the announcement that follows come out even.
* A connection claims its own player or none (`kinum \in {NoKi, who}`), and has
  joined if it claims one.  Without the latter the list that `MembersListReq` makes
  of those who have joined would leave players out; without the former a repeated
  join could make a second connection of a player.
* A client in a list has asked for it since its last registered join (`asked`), and is
  in a state in which updates are sent to it; a connection being killed keeps the
  highest state, so it is sent them too.  The list of one who joined anew and did not
  ask again is stale (section 5), and the property leaves it out.
* The owner is among the players and no other was told to be, so the owner's
  departure leaves nobody who believes to be the owner when the next is told.
* `Fresh`: no connection is handed over twice, so the one taken from the queue is
  not in `m_conns`.

The last part of `GamesProofs` proves, of the object locks, for any players, objects, lock time and any bounds,
`LocksTyped`, `LocksExclude` (`OneEntitled`) and `LocksAreTimed` (`HeldIsTimed`).
The inductive invariant `LocksInv` adds `TimersAreOfThePast`, that no timer has a
sequence number above its lock's, and `EntitledHolds`, that whoever is entitled
is recorded as the holder and the only timer with the current sequence number is
the one of that grant.  That is why the timer of an earlier grant does no harm.

`AuthSessionProofs` proves the two safety properties of the auth sessions for any
accounts, players and sessions.  What a step does comes first: the
types are kept and that to any one session every step is one of five things, an end,
a message of the client, a wanted or unwanted answer, a message handled by the
backend, or somebody else's step (`Steps`).  The invariants are then about one
session at a time:

* `AgesAreTheLast` (`OnlyTheLastAge`): `LastAge` says that in `AGE_REQ` `m_reqid`,
  unless 0, is the last request of all, and in any other state no age request; what
  is under way about players names no age request either.
* `SidesAlwaysAgree` (`SidesAgree`) rests on `LoginAgrees`, `KiAgrees` and
  `AgeAgrees`.  A client may log in again before it is answered.  The queue holds the
  logins in the order of their request numbers, so an answer that `m_reqid` still
  names is to the login handled last, with none behind it, and what it says is what
  the backend has recorded.  KI numbers are only validated on behalf of the account
  that is logged in.  `AgeAgrees` walks along the queue: by the time a message is
  handled, the backend takes the session to play the player of the last validation
  in front of it, which is the one the server had gone on to when it sent the
  message.  With a database failure this last part is false, and the property does
  not claim it.

`SequenceFacts` has what the next four need of sequences: `UpTo`, induction over the
numbers up to a bound, which comes from the well-foundedness of `<`; what cutting,
appending and removing do to elements and lengths; `FoldLeft` and `FlattenSeq` of a
sequence one longer; and the heap, for an array of any length.  `ChainIs` and
`WayDownIs` say which places a push may climb through and a pop may move up (recursive
functions of `TimerHeap`, followed by an induction over the places).  `PushIs` and
`PopIs`: both move the timers that are there, each to one place (`Shuffles`,
`Advances`), and leave a heap; a push changes the first timer only for one that is due
before it.  `FirstIsSoonest`: in a heap the first is due no later than any other.

`GamesProofs` is about the list of managers that wait for an ID and about VarSync.

* `GamesWaitInOrder`: the invariant.  The backend's answers name no manager
  (`m_games_waiting.front()` is the one meant), so the order has to be right: the
  managers in the list are, place by place, those of the requests and answers under
  way, none twice, and none of them has an ID.  That holds because a manager that waits
  has no owner, and so is never among those that are deleted when a player leaves or
  asks for another game (`WaitersAreKept`).  `IdsAlwaysFindTheirManagers`
  (`IdsFindTheirManagers`) and `TheFrontIsThere` (an answer never meets an empty list,
  which the code does not look for) follow.
* `MembersAreTold`: a member's client knows the manager's variables, or the setup it
  sent is still saved with the manager and is answered when the ID comes.  The first
  is only kept because a variable is created and set by one who is told of it with all
  the others.  `MembersSeeTheVariables` (`ViewsAgree`) follows.

The second part of `GamesProofs` is about the table of the Heek game, for any players, chairs, stakes and
wins needed, from `HeekAssumption` (there are finitely many players and each brings a
number of points).

* `HeekCountsAreRight` (`CountsAreRight`): `m_choice_ct`, `m_pending_winner_ct` and
  `m_timer` are right.  A round is over when the count of choices says so and sudden
  death when the other does, so both have to follow whoever gets up or leaves the age.
  The invariant `Right` adds what the code relies on without saying: that pending
  winners are players of this game (`Chosen` clears `m_pending_winner` of one who is
  new in it and does not touch the count), that a game that is over or not begun has
  none, and that who does not sit has neither a choice nor a claim.
  `WonRoundIs`, `OnlyTheBestIs` and `HandleRoundIs` follow `handle_round` through its
  four ways out.
* `HeekPointsAreConserved` (`PointsAreConserved`).  What the property says is not
  inductive: a player who got up in the middle of a game and sits down again is
  believed by the table's `m_all`, not by his client.  `Held` therefore gives a player
  what the table has of him as long as it would take it up again (`Counted`), and
  `Total` adds that up with the pool.  `Solid` says that no client claims more than the
  table knows, and that the pool is empty where it has been paid out; `Even` that they
  agree, which is so until somebody leaves the age.  Each step is shown to keep `Total`
  as it is, or when somebody leaves to make it no greater; the sum is that of any
  finite number of players (`SumLess`, `SumOfOne`, by an induction over finite sets).

The third part of `GamesProofs` is about the marker games, for any number of players, games, requests
and statements that fail.

* `ClientsSeeTheirGames` (`ClientSeesTheGame`) speaks of the moment when nothing is on
  its way, which says nothing about a step.  The invariant `MarkersAreFollowed`
  (`GameInv`, of which `MarkInv` is the part about markers) says what holds on the way
  there.  `Ends` follows what the client was told through all the answers that are on
  their way to it (`Heard` is what one of them makes of it); `WillSee` says that what
  comes out is the row of the game in the database as it now is.  The requests still in
  the queue keep this up one by one, each with its answer; but a client forgets its captures
  when it asks for a reset, so there they differ until the "stop" is done.  A manager is in one of three
  stages (`Staged`): it has no ID, it waits for its game and nothing else of it is
  under way, or it is `Open`, or its setup was dropped and nothing will come of it.
* `Sole` is why nobody else changes the row under it: two managers, or a manager and an
  answer on its way to another, have one game only if it is `apart`.  With a game
  that two have, the code shows neither what the other does, and the property leaves
  it out.
* IDs are what tells answers apart, as the backend's queue goes to all managers of the
  age: `MarkIds` (no two managers have one ID, and one that arrives is nobody's) rests on
  `GamesWaitInOrder`.  An answer for a manager that is gone is nobody's as well.
* The second try of a statement (`Committed`, `TriedAgain`, `Outcome`) is where a
  mistake would hide: `SeesChange` and `OwnChanged` have a case for each change of the game: it is
  done, and then the client is answered as if it had been done at the first try, or it is
  refused; if neither try says which, the game is `apart`.

`ServingProofs` first proves the four safety properties of the select loop, for any clients,
slots, streams of messages and buffer sizes, from `ServingAssumption` (a message has at
least a cell, a buffer has room for one).  Its invariant has three parts:

* `LifeInv`: which connections are in a slot, draining or gone, and that a place in the
  loop (`todo`) only names connections that are there.  `DrainingEndsInFull`
  (`DrainedInFull`) needs it and the next.
* `FrameInv`: what was handed to `message_read`, followed by what is in the buffers, is
  what has been read of the stream.  The difficulty is in `m_bigbuf`: the buffer a long
  message is completed in is as long as the message says, and the bytes behind it must
  be left for the next one.  The proof goes by what `ReadOff` cuts from the front: whole
  messages, as many as there are.  `StreamsAreFramed` (`MessagesAreFramed`) follows.
* `QueueInv`: each queue, with what is in the write buffer and what was written, is a
  sequence of whole messages, of which only the first may have been begun
  (`RepliesComeWhole`, `RepliesAreWhole`); no message is in a queue twice, and each
  message's count is the number of queues it is in (`ReferencesAreCounted`,
  `RefsCounted`).  A message that answers is new, so it is in no queue yet; queueing it
  on each connection counts up by one for each; a write takes whole messages off the
  front and counts each down once; a connection that goes counts down all it held.
  That a queue holds nothing twice is what makes the last two come out even.

The second half of `ServingProofs` is about the file server, whose replies the loop
writes: `FilesArrive` (`FilesArriveWhole`) for any requests, file sizes, entries, chunk
size and cuts of the writes, from `FilesAssumption` (a manifest has entries, and each
fits in a chunk).

* It is proved under `Apart`: no file is a manifest, or each manifest is asked for alone
  and written with its two null bytes together.  Otherwise it is false, as
  `iovecs_written_bytes` counts what is left over wrongly for a manifest
  (`FileServer_ping` in section 6).  Nothing is asked of downloads, pings and missing
  files, which interleave as they like.
* `FileInv`, the inductive invariant (`RepliesStandInLine`), puts a line of replies behind
  the inbox and the queue: the cells in the inbox are the first of the line (`Begun`), and
  the queue holds the last of it, but for the cells of its head that are out (`Queued`).
  A reply in the line names the place in the file its chunk starts at; its transaction
  stands there, and the client has just what lies before it (`ReplyInv`).  Each request is in
  one place, asked for, in the line, acknowledged, or nowhere, so an acknowledgement never
  moves a transaction that a reply in the line refers to.  `AloneInv` says that a manifest
  under way is the only thing under way.
* `ChunksGive`: a chunk is what comes next of the file, also when it is as many
  entries of a manifest as fit.  `FillIs` (`fill_iovecs`) and `WrittenIs`
  (`iovecs_written_bytes`) go along the queue, reply by reply: what is written is the next
  cells of the line, and what is kept stands where the write ended.

`TimerQueueProofs` proves `NothingDueIsLeft` (`AllDueAreCalled`) and
`QueueImplementsTimers` (`ImplementsTimers`), for any timers and any times.

* `TimersInv`, the inductive invariant: the array is a heap without doubles, and none of
  its timers was called or deleted.
* `FireIs` is where a callback sets a timer while the one that called it is still first
  in the heap: the new one is due later than now and the old one before now, so the pop
  takes off the one that was called.  `StepRefines` then has one step of `Timers`, or
  none, for each step of the queue.

`TrackerProofs` proves the three safety properties of tracking, for any players, sessions
and game servers.  Of the array of waiters it needs only that pushing and popping lose
nobody and double nobody, whatever the order.

* `WaitersAreForRequests` is the inductive invariant `TrackInv`: the array has each
  waiter once, and those in it that are not cancelled are for requests that no server
  was named for, one for each request at most (`OneEach`); a waiter has the session and
  the player of its request.  `Ack` gives an answer to a waiter its server may know
  nothing of; that the waiter is in the array and not cancelled is what makes the answer
  the only one.  `NobodyIsSentTwice` (`SentOnce`) and `NoRequestIsWaitedForTwice`
  follow.  `StepIs` is the one lemma about a step: it may cancel, answer, and replace a
  waiter by one that stands for the same.  The handlers' loops are folds, followed
  by induction over the array: `AllRenewed` (`Hello` replaces every waiter),
  `LeftIs` (`handle_timeout` takes off those due and those cancelled, and whoever it
  takes off without being cancelled is told).
* `RequestsAreWaitedFor` (`OneWaiterPerRequest`) adds `Covered`: a request of a client
  that is there and that was not answered has its waiter, unless another client of the
  same player quit (`TwinQuit`, section 5; without the exception TLC finds a request that
  is forgotten).  `OnlyTwinsForget` says of the exception that it is the only one and
  when it bites: no step leaves a request without a waiter but the one in which
  another client of its player quits.
* `SomethingIsUnderWay` (`UnderWay`) is about what tracking knows of the game servers,
  which is made of messages that may be late.  `ThereInv`: whoever waits is online, which
  is what makes `GameLeaves` find somebody to start a server for.  `LinesOk`: what a
  server has sent is a hello at most, at the front, and when it is gone an end, behind
  all else; tracking knows it from its hello to its end.  `HopeInv` is the property with
  what each message changes.  It has no condition on the constants: requests may be
  defeated and starts may be lost, and `starved` names the two cases in which those who
  wait are left with their time-outs.

`LinksProofs` proves the two safety properties of the links, for any messages, any
number of characters, bytes and entries in them, any cuts and iovecs, and a write buffer
of any size with anything of others in it (`LinksAssumption`: they are numbers).

* They are theorems about messages that are `Sound`: of every class but
  `AuthClientPlayerCreate`, whose length is read before it has come, and not a
  `VaultNode_To`, a `VaultScoreCreate_To` or an answer that a vault request is passed
  through to (`AnswerClasses`) that owns its buffer, all of which are read from the wrong
  place (section 6 has them; without these exceptions TLC finds the properties
  violated); and with strings
  that fit the fields of 512 and 160 bytes they have in five of the messages of the game
  managers (`GameMessage.cc:809` subtracts without asking).  What the runs leave out is
  the same, but they only go to two characters.
* The formats come first.  `Laid` says of a format that its fields lie one behind the
  other from the first byte to the last (`Framed`), that the sender's length and the
  receiver's are both where the last one ends, and that what is read lies where a field
  of that name was written (`Found`).  There is a lemma for each class, and for each of
  its two forms where it has two.  A lemma does not compute the width of a list of
  fields: it goes along it, field by field, with the place each one ends at, so that what
  is left for the prover are sums with `n` in them.  Lists of entries that vary are a
  lemma of their own, since every entry has its place.
* `Carried` is the inductive invariant: what is on the wire, and behind it in the write
  buffer, is the beginning of the message up to `so_far`, in order and without a gap
  (`Underway`); the message is in the queue exactly as long as something is left of it;
  and `make_if_enough` has named no length but the right one.  Neither property is
  inductive, for they say nothing of a message of which a part has come.
  `IovecsIs` is why `fill_iovecs` can be asked from any byte on: the fields that have
  been sent are the first ones, as none lies ahead of one before it.
* With these, `MessagesArrive` (`ArrivesAsSent`) and `LengthsAreKnown`
  (`LengthIsKnownOrNot`) are a matter of looking at the end: as many bytes as the message
  has, which are the first of it.

All of these hold of the models without the bounds: the proofs use that bounds
are numbers, never how large they are.

Only model-checked: everything about liveness, for the prover has no rule for
fairness (`RequestIsAnswered` of tracking, `EveryMessageArrives` of the links and
`DownloadEnds` of the file server among it).  Every invariant and action property of a
passing run has its theorem, under the conditions named above.

## 5. What the models keep that the properties do not forbid

Met on the way, in the models as in the code, and not stated as properties:

* Game server: a second JoinAgeRequest whose registration is used up is answered
  without an error and skips the join (`JoinRepeated`), though the connection may
  never have joined.
* Game server: a registered join of a connection that had asked for the member list
  takes its state back to `JOINED` (`GameServer.cc:1590`), and updates go only to those
  at `MEMBERS_REQUESTED` or beyond (`GameServer.cc:1641`).  Until the client asks again its
  list is that of the past.
* Tracking: a game server that dies before its hello, as when `GameServer::init` fails
  (`GameServer.cc:240`), is never reported.  Those who wait for it have nothing but their
  time-outs until somebody asks anew (`starved`).
* Tracking: `Ack` answers the *first* waiter for the age, not the one whose player
  was acknowledged; with two on the way one is sent before he is registered.
* Two servers for one age (section 6, `Tracker_twins`): those who wait are told of to the
  first in the hash table, and when it goes, only the first of them is told of to the
  other (`break`, `backend_all.cc:2757`).  The rest wait out their 30 seconds, though
  a server runs.  `UnderWay` therefore speaks of a server, not of each who waits.
* A player at two clients: the end of the older session cancels the waiters of
  the newer, for they are found by KI number (`backend_all.cc:2795`), and the request is
  never answered.  `OneWaiterPerRequest` excepts the requests of a player of whom another
  client quit (`TwinQuit`); the runs have each player at one.
* The session punted by a login is the first of its account in the hash table,
  even if it was punted before, or is the one logging in; two live sessions of
  one account are reachable.
* A validated player who chooses another stays in the table of connected players.
* A KI validation that failed leaves `m_reqid` set, and `PlayerCreate` is refused
  from then on.
* A lock granted to a connection whose KI number is 0 is held by nobody.  A client
  that goes away keeps its locks until their timers clear them.
* Select loop: descriptors that were accepted stay in the set `select` reads while
  the server drains (`moss_serv.cc:655`), so it may turn without doing anything.
  A connection that is to be closed, or a server that shuts down, waits until all that
  is queued has been written, for as long as that takes (`moss_serv.cc:693`, 702): a peer
  that does not read holds it up for ever.
  The scan for timeouts (`moss_serv.cc:754`) does not advance when slot 0 is free
  and a later one is taken: it takes for ever (`pc = "spin"` in `Serving`, which
  `ShutdownEnds` and `SlotIsFreed` except; `ScanEnds` says that it does not
  happen, and does not hold).
* VarSync: whoever leaves, `m_owner` becomes 1, so that nobody creates or sets a
  variable until the last has gone; the comment says so (`GameState.cc:1278`).  A
  player who left before the game had its ID is made its owner and member when
  the ID comes, and is never taken off.
* Marker games: a manager that waits for its ID has no owner yet, so a second setup
  of the same player does not "clear out any previous games for this player":
  two setups before the first ID make two games.
* Marker games: `initialize_game` drops a setup that is too long (`GameState.cc:1304`; one
  that is too short is not noticed) without an answer and leaves the manager in `INIT`
  with an owner and an ID; for a template that is no UUID it answers the setup, asks the
  backend for nothing and waits in `START` (`GameState.cc:1330`).  Either way the game is
  never ready nor dead, until its player leaves or asks for another.
* BlueSpiral: the timer of a game that was won is not cancelled, tells those that
  were not told, and ends a newer game early.
* Heek: the place to be cleaned up is one field, and a second departure before the
  next owner comes overwrites it.
* Marker games that are no CGZ games: the client is told that a deletion succeeded
  before the backend is asked.  What a client was told of captures is at least
  what the database has, and may be more after a reset.

## 6. Where code and comments disagree

Two of the runs are violated:

* `Games_forgotten`, `OnlyTheLeaverIsForgotten` (`GameState.cc:2436`): "since the
  player is leaving the whole age, remove them from m_all".  The loop erases the
  first sitter of `m_all` and breaks, whoever he is.
* `Links_stuck`, `EmptyFillIsDone` (`MessageQueue.cc:160`): "We called fill_buffer
  on a message which was already fully written!", and a debug build throws.
  `BackendMessage::fill_buffer` (`BackendMessage.cc:549`) compares an offset in the
  message with the room in the write buffer, and fills nothing when they are equal.
  An answer of the backend that is relayed to a client behind sixteen bytes of
  others, and is longer than the write buffer, is begun and never gone on with.

Six more have a configuration of their own, to be run by hand in this directory;
each ends in a counterexample:

| Command | Property | What the code says and does |
|---|---|---|
| `tlc -config GameServer_owner.cfg GameServerProps.tla` | `OwnerlessMeansEmpty` | The age is left without an owner only when "no other player found" (`GameServer.cc:1109`). A refused connection, waiting for its queue to drain, counts as a player, and its KI number 0 becomes the owner while a player is passed over. |
| `tlc -config GameServer_drain.cfg GameServerProps.tla` | `TimersOutliveJoins` | `GameServer.h:240` warns of dangling timers. A connection handed over during the drain is looked up in the timers `shutdown()` deleted (`moss_serv.cc:626`). |
| `tlc -config Tracker_twins.cfg MCTracker.tla` | `NoneOfThatTypeIsLeft` | "this should never happen" (`backend_all.cc:2983`). If the waiter a server was started for is gone before the server's hello, a second server is started for the age, and the end of one asks for a third while the other is up. |
| `tlc -config AuthSession_online.cfg MCAuthSession.tla` | `PlayerIsConnected` | A player misses vault updates "if there were any errors" (`backend_all.cc:349`). Without any, a player who logs in again is marked as gone by the end of the session that was punted. |
| `tlc -config FileServer_ping.cfg MCFileServer.tla` | `MessagesAreWhole` | `iovecs_written_bytes` "returns the number of excess bytes in byte_ct" (`NetworkMessage.h:125`). For a manifest (`FileMessage.cc:196`) it does not when something is queued behind: the bytes of the next message are not counted as written. With `Split`, a write that ends between the two null bytes leaves the reply in the queue for ever. |
| `tlc -config Games_capture.cfg MCGames.tla` | `CaptureIsRecorded` | `setmarkerto` "Returns 1 if the marker already had that value, -1 if the marker doesn't exist, 0 otherwise" (`moss.sql:4331`). The primary key of `markersinplay` (`moss.sql:4885`) has no place for the player, so a marker two players capture in one game is captured once. |

Read in the code, and left out of the runs by name:

* `AuthClientPlayerCreateMessage::make_if_enough` (`AuthMessage.cc:820`) reads the
  length of the invite code before it is known to have come (`Unframed` in
  `MCLinks`).
* A vault message that was too long for the read buffer, so that the message owns its
  buffer, begins at `m_vault_offset` of it.  The node of a `VaultNode_To` is read without
  that offset (`BackendMessage.cc:1362`), as are the type and the content of a
  `VaultPassthrough` (`BackendMessage.cc:1243`); type and value of a
  `VaultScoreCreate_To` are read with the offset added twice (`BackendMessage.cc:1752`).
  `Owned` in `MCLinks` has none of them.
* `conn_shutdown` of the dispatcher (`dispatcher.cc:1748`) rewinds the message it
  was writing to tracking but keeps what it had read.

## 7. The plan

Done, most important first: the game server and its proofs, timers, tracking,
auth sessions, locks and their proofs, the select loop with its queues, the file
server, the games with the vault's marker part, the message formats.  To come, in
this order:

1. `AgeEntry`, the composition of `AuthSession`, `Tracker` and `GameServer` over
   their messages, shown to implement an abstract specification of its own: a
   player is offline, waiting, on the way or in one age, and is let into an age
   only if sent there.  It needs a coarser `Tracker`: the product of the three as
   they stand is out of TLC's reach.
2. The dispatcher: the loss of tracking, its one retry, the half-written message,
   `ThreadManager`.  `ResetHead` of `MessageQueue` is there for it.
3. `MultiWriterMessageQueue` with two threads, and `clear_queue` against a writer.
4. SDL: the merge of versions, the kickable filter, interrupted loads.
5. The gatekeeper's single request; commits in doubt of vault nodes.

## 8. What is not modelled

* SDL, clones and physicals: parsing and merging of state descriptions is a
  function of the bytes received, without a protocol of its own.
* Vault nodes, scores and public ages: each operation is a SQL function over the
  tree of nodes, outside the C++ code.
* The gatekeeper: one request, one answer, no state beyond it.
* The dispatcher's negotiation, its connection to tracking and its reload of the
  configuration; `FORK_GAME_TOO` and `STANDALONE` builds.
* Cryptography, configuration, logging and the support tools: pure functions and
  I/O that no protocol property tells apart.
* Of the parts that are modelled, what each section of 2 names as left out.
