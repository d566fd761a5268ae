-------------------------------- MODULE Heek --------------------------------
(* HeekGameMgr (Ahyoheek): those who sit at the table choose stone, paper or *)
(* scissors, round after round, until one has won often enough.  Whoever     *)
(* first chooses in a game pays a point into the pool, which the winner      *)
(* gets.  Between the rounds the server waits for the owner's client to say  *)
(* that an animation is over, with a timer in case it does not.              *)
(*                                                                           *)
(* The state of the manager is one record, `heek`; an operator is a function *)
(* of the C++ that takes it and returns what becomes of it.                  *)
EXTENDS GameManagers, Functions

CONSTANTS
  Chair,          \* the place at the table each player takes
  Hands,          \* what a player may choose, of HeekChoices
  Stakes,         \* points each player brings
  WinsNeeded,     \* a win of one kind beyond this many wins the game: 2
  MaxWins,        \* bound: wins after which a player chooses no more
  MaxStray,       \* bound: timers that nobody holds any more
  Least           \* bound: a player with so few points neither sits down nor pays

HeekChoices == {"rock", "paper", "scissors"}

ASSUME HeekAssumption ==
  /\ IsFiniteSet(Players) /\ Hands \subseteq HeekChoices
  /\ Stakes \in Nat /\ WinsNeeded \in Nat

None == "none"                \* m_choice of -1
Beats(c) == CASE c = "rock" -> "scissors" [] c = "paper" -> "rock" [] c = "scissors" -> "paper"
Loses(c) == CASE c = "rock" -> "paper" [] c = "paper" -> "scissors" [] c = "scissors" -> "rock"

VARIABLES
  heek,   \* the manager
  told    \* the score each client was told, and claims when it sits down

heekVars == <<heek, told>>

(* class Sitter: what the table knows of a player.                           *)
NoWins == [c \in HeekChoices |-> 0]
NewSitter(points) ==
  [score |-> points, choice |-> None, wins |-> NoWins,
   plays |-> FALSE,   \* m_current_game is that of the table
   pending |-> FALSE]

HeekInit ==
  /\ told = [p \in Players |-> Stakes]
  /\ heek = [state |-> "IDLE",
             pool |-> 0,          \* m_point_pool
             sitting |-> {},      \* m_sitting, each at its Chair
             all |-> <<>>,        \* m_all: those the table remembers
             sitter |-> [p \in Players |-> NewSitter(0)],
             choices |-> 0,       \* m_choice_ct
             pending |-> 0,       \* m_pending_winner_ct
             cleanup |-> FALSE,   \* m_cleanup: a place to clear
             timer |-> "none",    \* m_timer: none, live, or gone though held
             stray |-> 0]         \* timers in the queue that m_timer does not name

(* States of the enumeration in which a timer is to come.                    *)
Waits == {"COUNTDOWN", "STOP_WAIT", "ANIM_WAIT", "WINNER", "WIN_WAIT"}

-----------------------------------------------------------------------------
(* A new timer: the one m_timer held before stays in the queue.              *)
Timed(h, state) ==
  [h EXCEPT !.state = state, !.timer = "live",
            !.stray = IF h.timer = "live" THEN @ + 1 ELSE @]
Cancelled(h) == [h EXCEPT !.timer = "none"]

(* What nothing reads any more is forgotten where it dies: the wins of a game *)
(* that is over, which the first choice of the next resets; the choices of a *)
(* round that is over, which Began resets; and all there was of a player that *)
(* neither sits nor is in m_all.                                             *)
WinsForgotten(h) == [h EXCEPT !.sitter = [p \in Players |-> [@[p] EXCEPT !.wins = NoWins]]]
ResetChoices(h) ==
  [h EXCEPT !.choices = 0,
            !.sitter = [p \in Players |-> [@[p] EXCEPT !.choice = None]]]
StrangersForgotten(h) ==
  [h EXCEPT !.sitter = [p \in Players |->
     IF p \in h.sitting \cup ToSet(h.all) THEN @[p] ELSE NewSitter(0)]]

(* The table's m_current_game goes up.                                       *)
NobodyPlays(h) ==
  [h EXCEPT !.sitter = [p \in Players |-> [@[p] EXCEPT !.wins = NoWins, !.plays = FALSE]]]
(* A spoiled form: a new game keeps the points of the one before.            *)
MutResetGame(h) == NobodyPlays(h)
ResetGame(h) == NobodyPlays([h EXCEPT !.pool = 0])

(* A spoiled form: no timer for an owner that does not answer.               *)
MutCountdownDone(h) == [h EXCEPT !.state = "STOP_WAIT"]
CountdownDone(h) == Timed(h, "STOP_WAIT")
CountdownIdle(h) == [ResetChoices(h) EXCEPT !.state = "IN_GAME"]

(* handle_round: how each who chose did against the others                   *)
Chose(h) == {p \in h.sitting : h.sitter[p].choice # None}
Number(h, c) == Cardinality({p \in Chose(h) : h.sitter[p].choice = c})
RoundTotal(h, p) ==
  Number(h, Beats(h.sitter[p].choice)) - Number(h, Loses(h.sitter[p].choice))
RoundWinners(h) ==
  {p \in Chose(h) : RoundTotal(h, p) > 0 /\ \A q \in Chose(h) : RoundTotal(h, q) <= RoundTotal(h, p)}

WinsOf(h, p) == h.sitter[p].wins["rock"] + h.sitter[p].wins["paper"] + h.sitter[p].wins["scissors"]

(* The round's winners get their wins; outside of sudden death, whoever has  *)
(* enough of one kind is a pending winner.                                   *)
Enough(h, p) == h.sitter[p].wins[h.sitter[p].choice] >= WinsNeeded
WonRound(h) ==
  [h EXCEPT !.sitter = [p \in Players |->
     IF p \in RoundWinners(h)
       THEN [h.sitter[p] EXCEPT !.wins[h.sitter[p].choice] = @ + 1,
                         !.pending = @ \/ (Enough(h, p) /\ h.pending = 0)]
       ELSE h.sitter[p]]]

Pending(h) == {p \in h.sitting : h.sitter[p].pending}

(* A spoiled form: in sudden death those who fall behind stay in the count.  *)
MutOnlyTheBest(h, best) ==
  [h EXCEPT !.sitter = [p \in Players |->
              [h.sitter[p] EXCEPT !.pending = @ /\ (p \in best \/ p \notin h.sitting)]]]
(* Of the pending winners only those with the most wins remain.              *)
OnlyTheBest(h, best) ==
  [h EXCEPT !.sitter = [p \in Players |->
              [h.sitter[p] EXCEPT !.pending = @ /\ (p \in best \/ p \notin h.sitting)]],
            !.pending = IF @ = 0 THEN 0 ELSE @ - Cardinality(Pending(h) \ best)]

(* The one winner gets the pool.                                             *)
GameWon(h, p) ==
  Timed(WinsForgotten([h EXCEPT !.pending = 0, !.pool = 0, !.sitter[p].score = @ + h.pool]),
        "WINNER")

HandleRound(h) ==
  LET g == WonRound(h)
      got == {p \in RoundWinners(h) : Enough(h, p)}   \* game_winners
      most == {p \in Pending(g) : \A q \in Pending(g) : WinsOf(g, q) <= WinsOf(g, p)}
      alone == Cardinality(got) = 1 /\ h.pending = 0
      any == got # {} \/ h.pending > 0
      k == IF any /\ ~alone THEN OnlyTheBest(g, most) ELSE g
      left == IF any /\ ~alone THEN most ELSE got IN
  CASE Cardinality(Chose(h)) <= 1 -> CountdownIdle(h)
    [] Cardinality(Chose(h)) > 1 /\ k.pending = 0 /\ Cardinality(left) > 1 ->
         Timed(ResetChoices([k EXCEPT !.pending = Cardinality(left)]), "ANIM_WAIT")
    [] Cardinality(Chose(h)) > 1 /\ k.pending <= 1 /\ Cardinality(left) = 1 ->
         ResetChoices(GameWon(k, CHOOSE p \in Pending(k) : TRUE))
    [] OTHER -> Timed(ResetChoices(k), "ANIM_WAIT")

(* handle_winner: those who played hear their score.                         *)
HandleWinner(h) ==
  Timed([h EXCEPT !.sitter = [p \in Players |->
           IF p \in h.sitting THEN [@[p] EXCEPT !.pending = FALSE] ELSE @[p]]],
        "WIN_WAIT")
Played(h) == {p \in h.sitting : h.sitter[p].plays}

(* handle_departure                                                          *)
HandleDeparture(h, p) ==
  LET last == h.sitting = {p}
      g == IF ~last THEN h
           ELSE IF h.state = "COUNTDOWN" THEN CountdownDone(ResetGame(h))
           ELSE [ResetGame(h) EXCEPT !.state = "IDLE"]
      chose == h.sitter[p].choice # None
      pends == h.sitter[p].pending IN
  StrangersForgotten(
  [g EXCEPT !.choices = IF chose /\ g.state \in Waits /\ @ > 0 THEN @ - 1 ELSE @,
            !.pending = IF pends /\ @ > 0 THEN @ - 1 ELSE @,
            !.sitter[p].choice = None,
            !.sitter[p].pending = FALSE,
            !.sitting = @ \ {p}])

-----------------------------------------------------------------------------
HeekStep == kind = "heek"

(* Heek_PlayGame: one more sits down, with the score its client claims, not  *)
(* believed for a player who has played in this game.  The client is assumed *)
(* not to sit at two chairs: the code looks at the chair, not at the player. *)
PlayGame(p) ==
  LET h == heek
      known == p \in ToSet(h.all)
      again == known /\ h.sitter[p].plays
      old == h.sitter[p] IN
  /\ HeekStep /\ MayPlay(p) /\ p \notin h.sitting
  /\ told[p] > Least
  /\ \A q \in h.sitting : Chair[q] # Chair[p]
  /\ heek' = [h EXCEPT
       !.sitting = @ \cup {p},
       !.all = IF known THEN @ ELSE Append(@, p),
       !.sitter[p] =
         CASE ~known -> NewSitter(told[p])
           [] known /\ again -> [old EXCEPT !.choice = None]
           [] OTHER -> [old EXCEPT !.score = told[p], !.wins = NoWins,
                                   !.pending = FALSE, !.choice = None]]
  /\ UNCHANGED <<told, mgrVars>>

(* Heek_Choose: the first choice of a game begins it, the first of a round   *)
(* starts the clock, and the last of a round stops it.                       *)
Began(h) ==
  LET g == IF h.state = "IDLE" THEN ResetGame(h) ELSE h IN
  IF h.state \in {"IDLE", "IN_GAME"} THEN Timed(ResetChoices(g), "COUNTDOWN") ELSE h

Chosen(h, p, c) ==
  LET first == ~h.sitter[p].plays
      paid == IF first THEN [h.sitter[p] EXCEPT !.score = @ - 1, !.plays = TRUE,
                                                !.wins = NoWins, !.pending = FALSE]
                       ELSE h.sitter[p]
      g == [h EXCEPT !.pool = IF first THEN @ + 1 ELSE @,
                     !.choices = IF h.sitter[p].choice = None THEN @ + 1 ELSE @,
                     !.sitter[p] = [paid EXCEPT !.choice = c]] IN
  IF g.choices >= Cardinality(g.sitting) THEN CountdownDone(Cancelled(g)) ELSE g

Choose(p, c) ==
  LET h == Began(heek) IN
  /\ HeekStep /\ MayPlay(p) /\ p \in heek.sitting
  /\ Cardinality(heek.sitting) >= 2
  /\ h.state = "COUNTDOWN"
  /\ h.sitter[p].plays \/ h.sitter[p].score > Least
  /\ WinsOf(h, p) < MaxWins
  /\ heek' \in {Chosen(h, p, c)}
  /\ told' = IF h.sitter[p].plays THEN told
             ELSE [told EXCEPT ![p] = heek'.sitter[p].score]
  /\ UNCHANGED mgrVars

(* A choice that was sent before its player got up: it starts the clock, but *)
(* is not counted.                                                           *)
LateChoice(p) ==
  /\ HeekStep /\ MayPlay(p) /\ p \in ToSet(heek.all) \ heek.sitting
  /\ Cardinality(heek.sitting) >= 2
  /\ heek' = Began(heek)
  /\ UNCHANGED <<told, mgrVars>>

(* handle_timeout, whichever timer it is                                     *)
HeekTimeout(h) ==
  CASE h.state = "COUNTDOWN" -> IF h.choices > 1 THEN CountdownDone(h) ELSE CountdownIdle(h)
    [] h.state = "STOP_WAIT" -> HandleRound(Cancelled(h))
    [] h.state = "ANIM_WAIT" -> CountdownIdle(Cancelled(h))
    [] h.state = "WINNER" -> HandleWinner(h)
    [] h.state = "WIN_WAIT" -> [CountdownIdle(Cancelled(h)) EXCEPT !.state = "IDLE"]
    [] OTHER -> h

TellWinner(h, h1) ==
  told' = [p \in Players |-> IF h.state = "WINNER" /\ h1.state = "WIN_WAIT" /\ p \in Played(h)
                             THEN h.sitter[p].score ELSE told[p]]

(* Which pointer survives: setting m_timer to NULL hides a timer that is     *)
(* still to come, and a timer that came leaves m_timer pointing at it.       *)
Fired(h) == [h EXCEPT !.timer = "gone"]
StrayFired(h) ==
  LET g == [h EXCEPT !.stray = @ - 1] IN
  IF h.state \in {"STOP_WAIT", "ANIM_WAIT", "WIN_WAIT"} /\ h.timer = "live"
    THEN [g EXCEPT !.timer = "none", !.stray = @ + 1] ELSE g

HeekTimerSet == heek.timer = "live" \/ heek.stray > 0
HeekTimer ==
  /\ HeekStep
  /\ \/ heek.timer = "live" /\ heek' \in {HeekTimeout(Fired(heek))}
     \/ heek.stray > 0 /\ heek' \in {HeekTimeout(StrayFired(heek))}
  /\ TellWinner(heek, heek')
  /\ UNCHANGED mgrVars

(* Heek_SeqFinished from the owner: the animation it waits for is over.      *)
SeqFinished(p, seq) ==
  LET h == Cancelled(heek) IN
  /\ HeekStep /\ MayPlay(p) /\ AgeOwner = p
  /\ heek' = CASE seq = "Countdown" /\ heek.state = "STOP_WAIT" -> HandleRound(h)
               [] seq = "ChoiceAnim" /\ heek.state = "ANIM_WAIT" -> CountdownIdle(h)
               [] seq = "ChoiceAnim" /\ heek.state = "WINNER" -> HandleWinner(h)
               [] seq = "GameWinAnim" /\ heek.state = "WIN_WAIT" ->
                    [CountdownIdle(h) EXCEPT !.state = "IDLE"]
               [] OTHER -> heek
  /\ TellWinner(heek, heek')
  /\ UNCHANGED mgrVars

(* A bound: the last to leave a round leaves its timer behind.               *)
MayLeaveTimer(p) ==
  heek.sitting = {p} /\ heek.timer = "live" => heek.stray < MaxStray

(* Heek_LeaveGame: the last to get up takes the pool.                        *)
LeaveTable(p) ==
  LET all == heek.sitting = {p}
      h == [heek EXCEPT !.sitter[p].score = IF all THEN @ + heek.pool ELSE @] IN
  /\ HeekStep /\ MayPlay(p) /\ p \in heek.sitting
  /\ MayLeaveTimer(p)
  /\ told' = [told EXCEPT ![p] = h.sitter[p].score]
  /\ heek' = HandleDeparture(h, p)
  /\ UNCHANGED mgrVars

(* player_left of a player in the age, after the base class did its part:    *)
(* the loop over m_all erases its first, whoever that is.                    *)
Forgotten(h) ==
  StrangersForgotten([h EXCEPT !.all = IF @ = <<>> THEN @ ELSE Tail(@)])
HeekLeft(p) ==
  LET sat == p \in heek.sitting
      h == Forgotten(IF sat THEN HandleDeparture(heek, p) ELSE heek)
      asked == heek.cleanup \/ sat IN
  /\ MayLeaveTimer(p)
  /\ heek' = IF mgrs = <<>> THEN heek
             ELSE [h EXCEPT !.cleanup = asked /\ mgrs'[1].owner = Nobody]
  /\ UNCHANGED told

(* initialize_game: a new owner is asked to clear the place.                 *)
HeekInitialized(ps) ==
  /\ heek' = [heek EXCEPT !.cleanup = @ /\ mgrs'[1].owner \notin ps]
  /\ UNCHANGED told

-----------------------------------------------------------------------------
(* The points of all players and those in the pool.  A player that sits has  *)
(* what its Sitter says, another what its client was told.                   *)
Worth == [p \in Players |-> IF p \in heek.sitting THEN heek.sitter[p].score ELSE told[p]]
Points == heek.pool + SumFunction(Worth)

(* No point is made from nothing: a pool is paid out once.  While nobody has *)
(* left the age none is lost either.                                         *)
PointsAreConserved ==
  /\ Points <= Stakes * Cardinality(Players)
  /\ (\A p \in Players : visits[p] = 1 => p \in here) /\ (\A p \in Players : visits[p] <= 1)
       => Points = Stakes * Cardinality(Players)

(* The counts that end a round and decide sudden death are those of the      *)
(* players at the table, whoever got up meanwhile, and each state that waits *)
(* has its timer: the one m_timer names, which no cancel() finds gone.       *)
CountsAreRight ==
  /\ heek.state \in {"COUNTDOWN", "STOP_WAIT"} => heek.choices = Cardinality(Chose(heek))
  /\ heek.state # "WINNER" => heek.pending = Cardinality(Pending(heek))
  /\ heek.state \in Waits => heek.timer = "live"

(* A round that begins comes to its end, though players get up, leave the    *)
(* age, or own the game and never say that the animation is over.            *)
RoundEnds == heek.state \in Waits ~> heek.state \notin Waits

(* A player that leaves the age is forgotten, and no other is: "since the    *)
(* player is leaving the whole age, remove them from m_all".                 *)
OnlyTheLeaverIsForgotten ==
  [][\A p \in ToSet(heek.all) : p \notin ToSet(heek'.all) => p \in here /\ p \notin here']_<<heek, here>>
=============================================================================
