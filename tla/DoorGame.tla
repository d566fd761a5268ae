------------------------------ MODULE DoorGame ------------------------------
(* BlueSpiralGameMgr: the owner touches the door, the members hit the seven  *)
(* cloths in the order they were told, and the door turns until they have    *)
(* done so or a minute is over.  Two timers, one after the other: the first  *)
(* turns the door, the second ends the game.                                 *)
EXTENDS GameManagers

CONSTANTS
  Cloths,    \* cloths to hit: 7
  MaxRounds  \* bound: games of the door

VARIABLES
  started,   \* m_started
  next,      \* m_next: cloths hit so far
  m_timer,   \* the timer the manager holds, 0 for none
  pending,   \* the timers in the queue, each with what it is for
  rounds,    \* games so far; numbers the timers too
  running    \* the players that were told of a game and not yet of its end

doorVars == <<started, next, m_timer, pending, rounds, running>>

DoorInit ==
  /\ started = FALSE /\ next = 0 /\ m_timer = 0 /\ pending = {} /\ rounds = 0
  /\ running = {}

SetTimer(left, number, action) ==
  /\ m_timer' = number
  /\ pending' = left \cup {[n |-> number, action |-> action]}

Without(number) == {t \in pending : t.n # number}

(* StartGame and start_game: a game that goes on is stopped first.  A timer  *)
(* that a finished game left behind is not.                                  *)
StartGame(p) ==
  /\ kind = "door" /\ MayPlay(p) /\ AgeOwner = p
  /\ rounds < MaxRounds
  /\ started' = TRUE /\ next' = 0
  /\ rounds' = rounds + 1
  /\ SetTimer(IF started THEN Without(m_timer) ELSE pending, 2 * rounds + 1, "TurnDoor")
  /\ running' = running \cup Members
  /\ UNCHANGED mgrVars

(* A spoiled form: whoever wins stops the clock.                             *)
MutHitRight(p) ==
  /\ kind = "door" /\ MayPlay(p) /\ started
  /\ next' = next + 1
  /\ started' = (next' <= Cloths - 1)
  /\ running' = IF started' THEN running ELSE running \ {AgeOwner}
  /\ pending' = IF started' THEN pending ELSE Without(m_timer)
  /\ UNCHANGED <<m_timer, rounds, mgrVars>>

(* HitCloth, the right one: after the last the game is won, which the owner  *)
(* alone is told; the timer goes on, and tells the others.                   *)
HitRight(p) ==
  /\ kind = "door" /\ MayPlay(p) /\ started
  /\ next' = next + 1
  /\ started' = (next' <= Cloths - 1)
  /\ running' = IF started' THEN running ELSE running \ {AgeOwner}
  /\ UNCHANGED <<m_timer, pending, rounds, mgrVars>>

(* HitCloth, a wrong one: the game is over.                                  *)
HitWrong(p) ==
  /\ kind = "door" /\ MayPlay(p) /\ started
  /\ started' = FALSE
  /\ pending' = Without(m_timer) /\ m_timer' = 0
  /\ running' = running \ Members
  /\ UNCHANGED <<next, rounds, mgrVars>>

(* handle_timeout                                                            *)
DoorTimeout(t) ==
  /\ t \in pending
  /\ \/ /\ t.action = "TurnDoor"
        /\ SetTimer(pending \ {t}, t.n + 1, "GameDone")
        /\ UNCHANGED <<started, running>>
     \/ /\ t.action = "GameDone"
        /\ started' = FALSE
        /\ m_timer' = 0 /\ pending' = pending \ {t}
        /\ running' = running \ Members
  /\ UNCHANGED <<next, rounds, mgrVars>>

(* player_left: with the last member the game ends, its timer goes on.       *)
DoorLeft(p) ==
  /\ started' = (started /\ mgrs'[1].owner # Nobody)
  /\ running' = running \ {p}
  /\ UNCHANGED <<next, m_timer, pending, rounds>>

DoorTimeouts == \E t \in pending : DoorTimeout(t)

(* Whoever is told that a game of the door began, and stays, is told that it *)
(* is over: also those who are not told that it was won.                     *)
EveryoneHearsTheEnd ==
  \A p \in Players : (p \in running) ~> (p \notin running)
=============================================================================
