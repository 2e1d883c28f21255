------------------------------- MODULE GameCore -------------------------------
(***************************************************************************)
(* The ROM-less game of src/game/GameCore.cpp: players, ball flow, kicks,  *)
(* tilt, scoring, replays and match.                                       *)
(*                                                                         *)
(* The class is driven by one thread: OnSwitch records edges, Update does  *)
(* the work, and the rules (Lua) call mutators between two Updates.        *)
(* One Update is a sequence of steps here, so that every pass of its       *)
(* state-machine loop is an action:                                        *)
(*    "idle"         between two Updates: switches change, rules run       *)
(*    "edges"        ProcessSwitchEdges, no start press seen this tick     *)
(*    "edgesStarted" the same, m_startHandledThisTick = true               *)
(*    "run"          the RunStateMachine loop                              *)
(* Time is counted in ticks: `deadline` is the time left until m_deadlineMs*)
(* and the two ages are the time since m_stateSinceMs and                  *)
(* m_troughStableSinceMs, saturating where the code stops telling apart.   *)
(*                                                                         *)
(* Abstracted: the events and the lamps that no decision reads, rule       *)
(* variables, display pages, and the order of queued switch edges (any     *)
(* sequence of presses may be processed by one Update). The tilt inhibit   *)
(* switch, the game-on coil and the start and coin switches are fitted.    *)
(* A definition X_bug next to X is X with a plausible mistake: replacing X *)
(* by it breaks the property it is paired with in PROJECT.json.            *)
(***************************************************************************)
EXTENDS Integers, Sequences, FiniteSets

CONSTANTS
  BallsPerGame, MaxPlayers, BallCount, AddPlayerThroughBall,  \* GameConfig
  TroughSwitches,      \* number of trough switches
  FreePlay, CreditsPerCoin, MaxCredits,
  HasLane,             \* shooterLane.laneSwitch # 0
  GiOff, EndsBallOnly, SkipBonus, ExtraBallSurvivesTilt,      \* TiltConfig
  Settle, KickRetry, ServeSettle, LaunchTimeout,              \* durations, in ticks
  RecoverTimeout, BonusTimeout, GameOverHold,
  KickRetries,
  KickMod,             \* m_kickAttempts is a uint8_t: 256, smaller for TLC
  ScoreCeiling,        \* 10 ^ scoreDigits
  Thresholds,          \* replay.thresholds
  ReplayCredit, ReplayExtraBall,                              \* ReplayConfig
  MatchEnabled, MatchCredit,                                  \* MatchConfig
  Commands,            \* the ppuc.game.* calls the machine's rules make
  Points,              \* the points its rules award
  MaxExtraBalls        \* bound: extra balls a player may hold (uint8_t)

MaxTransitionsPerUpdate == 16
NoDeadline == -1

Players == 1 .. MaxPlayers

InGameStates == {"GameStarting", "BallStarting", "BallInLane", "BallInPlay",
                 "BallDraining", "BallEnding", "BonusCount", "GameEnding"}
GameStates == InGameStates \cup {"Attract", "GameOver"}

CommandNames == {"startGame", "addPlayer", "tilt", "slamTilt", "endBall", "endGame",
                 "serveBall", "bonusDone", "addScore", "setScore", "awardExtraBall",
                 "addCredits"}

ASSUME ConfigAssumption ==
  /\ BallsPerGame \in Nat \ {0}
  /\ MaxPlayers \in Nat \ {0}
  /\ BallCount \in Nat \ {0}
  /\ TroughSwitches \in Nat
  /\ AddPlayerThroughBall \in Nat
  /\ FreePlay \in BOOLEAN /\ HasLane \in BOOLEAN
  /\ CreditsPerCoin \in Nat /\ MaxCredits \in Nat
  /\ GiOff \in BOOLEAN /\ EndsBallOnly \in BOOLEAN /\ SkipBonus \in BOOLEAN
  /\ ExtraBallSurvivesTilt \in BOOLEAN
  /\ Commands \subseteq CommandNames

ASSUME TimingAssumption ==
  /\ Settle \in Nat /\ KickRetry \in Nat /\ ServeSettle \in Nat
  /\ LaunchTimeout \in Nat /\ RecoverTimeout \in Nat /\ BonusTimeout \in Nat
  /\ GameOverHold \in Nat
  /\ KickRetries \in Nat /\ KickMod \in Nat \ {0}

ASSUME ScoreAssumption ==
  /\ ScoreCeiling \in Nat \ {0}
  /\ Points \subseteq Int
  /\ Thresholds \in Seq(Nat)
  /\ ReplayCredit \in BOOLEAN /\ ReplayExtraBall \in BOOLEAN
  /\ MatchEnabled \in BOOLEAN /\ MatchCredit \in BOOLEAN
  /\ MaxExtraBalls \in Nat

VARIABLES
  pc, passes,                          \* where Update is; loop passes made
  closed, laneClosed,                  \* m_switchStates: trough and lane switches
  stable, stableAge, believed,         \* the debounced trough count
  state, stateAge, deadline,
  playerCount, currentPlayer,
  ball, extraBalls, tilted, tiltedThroughGame, finished, score, replaysAwarded,
  credits, kickAttempts, bonusDone,
  tiltInhibit,                         \* m_tiltInhibitAsserted
  gi, gameOn,                          \* GI strings lit, game-on coil asserted
  cutShort                             \* history: what cut this game short, if anything

loop     == <<pc, passes>>
switches == <<closed, laneClosed>>
trough   == <<stable, stableAge, believed>>
phase    == <<state, stateAge, deadline>>
roster   == <<playerCount, currentPlayer>>
records  == <<ball, extraBalls, tilted, tiltedThroughGame, finished, score, replaysAwarded>>
outputs  == <<tiltInhibit, gi, gameOn>>
serving  == <<kickAttempts, bonusDone>>
vars == <<loop, switches, trough, phase, roster, records, credits, serving, outputs, cutShort>>

-----------------------------------------------------------------------------
(* Queries                                                                 *)

IsInGame == state \in InGameStates

\* A trough count is believed once it held for settleMs.
TroughSettled_bug == TRUE               \* believes the first steady reading
TroughSettled == stableAge >= Settle

\* Derived from the believed trough count, never accumulated.
BallsOut == IF believed >= BallCount THEN 0 ELSE BallCount - believed

DeadlinePassed == deadline = 0

ScoringAllowed ==
  /\ state \in {"BallInPlay", "BallInLane", "BallEnding", "BonusCount"}
  /\ currentPlayer # 0 /\ ~tilted[currentPlayer]

\* AddCredits: the sum is clamped to 0 .. maxCredits.
Credited_bug(delta) == credits + delta  \* no clamp
Credited(delta) ==
  LET updated == credits + delta
  IN  IF updated < 0 THEN 0 ELSE IF updated > MaxCredits THEN MaxCredits ELSE updated

ActivePlayers == 1 .. playerCount
At(f, p, v) == [f EXCEPT ![p] = v]

-----------------------------------------------------------------------------
(* Pieces of the transitions                                               *)

\* EnterState followed by the caller's assignment of m_deadlineMs, if it makes one.
EnterState_bug(s, timeout) ==           \* assigns the deadline first, then enters
  state' = s /\ stateAge' = 0 /\ deadline' = NoDeadline

EnterState(s, timeout) ==
  /\ state' = s
  /\ stateAge' = 0
  /\ deadline' = timeout

\* ServeKick counts the attempt; its caller arms the retry.
KickAttempt_bug(sofar) == 1             \* restarts the count at every kick
KickAttempt(sofar) == (sofar + 1) % KickMod

\* ClearTilt releases the flippers.
ClearTilt_bug == UNCHANGED tiltInhibit  \* only forgets the assertion, sends nothing
ClearTilt == tiltInhibit' = FALSE

SetGameOn_bug(on) == gameOn' = (gameOn \/ on)   \* never drops the coil
SetGameOn(on) == gameOn' = on

FinishBall == EnterState("BallEnding", NoDeadline)

BeginGame ==
  /\ playerCount' = 1
  /\ currentPlayer' = 1
  /\ ball' = [p \in Players |-> 0]
  /\ extraBalls' = [p \in Players |-> 0]
  /\ tilted' = [p \in Players |-> FALSE]
  /\ tiltedThroughGame' = [p \in Players |-> FALSE]
  /\ finished' = [p \in Players |-> FALSE]
  /\ score' = [p \in Players |-> 0]
  /\ replaysAwarded' = [p \in Players |-> 0]
  /\ SetGameOn(TRUE)
  /\ gi' = TRUE
  /\ cutShort' = "no"
  /\ EnterState("GameStarting", NoDeadline)
  /\ UNCHANGED <<serving, tiltInhibit>>

\* The new ball of player p. `t` is the tilt state it is decided on: a tilt for
\* this ball only is cleared; flippers and GI come back and a first kick is made.
BeginBall(p, t) ==
  /\ tilted' = [t EXCEPT ![p] = @ /\ tiltedThroughGame[p]]
  /\ kickAttempts' = KickAttempt(0)
  /\ bonusDone' = FALSE
  /\ ClearTilt
  /\ gi' = TRUE
  /\ EnterState("BallStarting", KickRetry)

LastBallPlayed_late(p) == ball[p] > BallsPerGame
LastBallPlayed(p) == ball[p] >= BallsPerGame

\* The player `step` turns after the current one.
Turn_bug(step) == ((currentPlayer + step) % playerCount) + 1   \* skips a player
Turn(step) == ((currentPlayer - 1 + step) % playerCount) + 1

\* The first player after the current one who is not done starts the next
\* ball; when all are done the game ends.
AdvancePlayer(done, t, inhibited, lit) ==
  \/ \E step \in 1 .. playerCount :
       /\ ~done[Turn(step)]
       /\ \A earlier \in 1 .. (step - 1) : done[Turn(earlier)]
       /\ currentPlayer' = Turn(step)
       /\ ball' = [ball EXCEPT ![Turn(step)] = @ + 1]
       /\ BeginBall(Turn(step), t)
  \/ /\ \A p \in ActivePlayers : done[p]
     /\ EnterState("GameEnding", NoDeadline)
     /\ tilted' = t /\ tiltInhibit' = inhibited /\ gi' = lit
     /\ UNCHANGED <<currentPlayer, ball, serving>>

\* CheckReplay awards, in order and once each, the thresholds the score reaches:
\* those up to the n-th have been awarded when it returns.
AwardsUpTo_bug(p, total, n) ==          \* one threshold per call
  n = IF replaysAwarded[p] < Len(Thresholds) /\ total >= Thresholds[replaysAwarded[p] + 1]
      THEN replaysAwarded[p] + 1 ELSE replaysAwarded[p]

AwardsUpTo(p, total, n) ==
  /\ \A k \in (replaysAwarded[p] + 1) .. n : total >= Thresholds[k]
  /\ n < Len(Thresholds) => total < Thresholds[n + 1]

-----------------------------------------------------------------------------
(* Start presses, coins and the calls the rules make                       *)

StartGame ==
  /\ ~IsInGame
  /\ FreePlay \/ credits > 0
  /\ believed >= 1
  /\ credits' = IF FreePlay THEN credits ELSE Credited(-1)
  /\ BeginGame

AddPlayer ==
  /\ IsInGame
  /\ currentPlayer # 0 => ball[currentPlayer] <= AddPlayerThroughBall
  /\ playerCount < MaxPlayers
  /\ \A p \in ActivePlayers : ~tilted[p]
  /\ FreePlay \/ credits > 0
  /\ credits' = IF FreePlay THEN credits ELSE Credited(-1)
  /\ LET added == playerCount + 1
     IN  /\ playerCount' = added
         /\ ball' = At(ball, added, 0)
         /\ extraBalls' = At(extraBalls, added, 0)
         /\ tilted' = At(tilted, added, FALSE)
         /\ tiltedThroughGame' = At(tiltedThroughGame, added, FALSE)
         /\ finished' = At(finished, added, FALSE)
         /\ score' = At(score, added, 0)
         /\ replaysAwarded' = At(replaysAwarded, added, 0)
  /\ UNCHANGED <<currentPlayer, phase, serving, outputs, cutShort>>

\* Both StartGame() and AddPlayer() forward to the other one as IsInGame demands.
StartOrAdd == StartGame \/ AddPlayer

\* A press is refused by a failed condition or by the script's veto.
Refused == UNCHANGED <<phase, roster, records, credits, serving, outputs, cutShort>>

HandleStartPressed ==
  /\ \/ pc = "edges" /\ (StartOrAdd \/ Refused)
     \/ pc = "edgesStarted" /\ Refused
  /\ pc' = "edgesStarted"
  /\ UNCHANGED <<passes, switches, trough>>

AddCredits(delta) ==
  /\ credits' = Credited(delta)
  /\ UNCHANGED <<switches, trough, phase, roster, records, serving, outputs, cutShort>>

HandleCoin ==
  /\ pc \in {"edges", "edgesStarted"}
  /\ \E delta \in {1, CreditsPerCoin} : AddCredits(delta)   \* service credit, coin
  /\ UNCHANGED loop

\* What a call of the rules leaves alone; they are made between two Updates.
Rules(command) ==
  /\ pc = "idle"
  /\ command \in Commands
  /\ UNCHANGED <<loop, switches, trough>>

RulesStart ==
  /\ Rules("startGame") \/ Rules("addPlayer")
  /\ StartOrAdd

RulesAddCredits ==
  /\ Rules("addCredits")
  /\ \E delta \in {-1, 1} : AddCredits(delta)

Tilt ==
  /\ Rules("tilt")
  /\ state \in {"BallInPlay", "BallInLane"}
  /\ ~tilted[currentPlayer]
  /\ tilted' = At(tilted, currentPlayer, TRUE)
  /\ tiltedThroughGame' = At(tiltedThroughGame, currentPlayer, ~EndsBallOnly)
  /\ tiltInhibit' = TRUE
  /\ gi' = (gi /\ ~GiOff)
  /\ deadline' = RecoverTimeout
  /\ UNCHANGED <<state, stateAge, roster, ball, extraBalls, finished, score, replaysAwarded,
                 credits, serving, gameOn, cutShort>>

SlamTilt ==
  /\ Rules("slamTilt")
  /\ IsInGame
  /\ tilted' = [p \in Players |-> tilted[p] \/ p \in ActivePlayers]
  /\ finished' = [p \in Players |-> finished[p] \/ p \in ActivePlayers]
  /\ tiltedThroughGame' = At(tiltedThroughGame, currentPlayer, TRUE)
  /\ tiltInhibit' = TRUE
  /\ gi' = (gi /\ ~GiOff)
  /\ SetGameOn(FALSE)
  /\ cutShort' = "slamTilt"
  /\ EnterState("GameEnding", NoDeadline)
  /\ UNCHANGED <<roster, ball, extraBalls, score, replaysAwarded, credits, serving>>

EndBall ==
  /\ Rules("endBall")
  /\ state \in {"BallInPlay", "BallInLane", "BallDraining"}
  /\ FinishBall
  /\ UNCHANGED <<roster, records, credits, serving, outputs, cutShort>>

EndGame ==
  /\ Rules("endGame")
  /\ IsInGame
  /\ finished' = [p \in Players |-> finished[p] \/ p \in ActivePlayers]
  /\ cutShort' = IF cutShort = "no" THEN "endGame" ELSE cutShort
  /\ EnterState("GameEnding", NoDeadline)
  /\ UNCHANGED <<roster, ball, extraBalls, tilted, tiltedThroughGame, score, replaysAwarded,
                 credits, serving, outputs>>

ServeBall ==
  /\ Rules("serveBall")
  /\ state = "BallStarting"
  /\ kickAttempts' = KickAttempt(kickAttempts)
  /\ deadline' = KickRetry
  /\ UNCHANGED <<state, stateAge, roster, records, credits, bonusDone, outputs, cutShort>>

BonusDone ==
  /\ Rules("bonusDone")
  /\ bonusDone' = TRUE
  /\ UNCHANGED <<phase, roster, records, credits, kickAttempts, outputs, cutShort>>

AddScore(points, p) ==
  /\ Rules("addScore")
  /\ points # 0 /\ ScoringAllowed
  /\ LET sum   == score[p] + points
         total == (IF sum < 0 THEN 0 ELSE sum) % ScoreCeiling
     IN  /\ score' = At(score, p, total)
         /\ \E n \in replaysAwarded[p] .. Len(Thresholds) :
              LET won == n - replaysAwarded[p]
              IN  /\ AwardsUpTo(p, total, n)
                  /\ replaysAwarded' = At(replaysAwarded, p, n)
                  /\ credits' = IF ReplayCredit THEN Credited(won) ELSE credits
                  /\ extraBalls' = IF ReplayExtraBall
                                   THEN At(extraBalls, p, extraBalls[p] + won)
                                   ELSE extraBalls
  /\ UNCHANGED <<phase, roster, ball, tilted, tiltedThroughGame, finished, serving, outputs,
                 cutShort>>

SetScore(points, p) ==
  /\ Rules("setScore")
  /\ points >= 0
  /\ score' = At(score, p, points % ScoreCeiling)
  /\ UNCHANGED <<phase, roster, ball, extraBalls, tilted, tiltedThroughGame, finished,
                 replaysAwarded, credits, serving, outputs, cutShort>>

AwardExtraBall(p) ==
  /\ Rules("awardExtraBall")
  /\ ScoringAllowed
  /\ extraBalls[p] < MaxExtraBalls
  /\ extraBalls' = At(extraBalls, p, extraBalls[p] + 1)
  /\ UNCHANGED <<phase, roster, ball, tilted, tiltedThroughGame, finished, score,
                 replaysAwarded, credits, serving, outputs, cutShort>>

-----------------------------------------------------------------------------
(* Update                                                                  *)

UpdateTroughCount ==
  /\ pc = "idle"
  /\ IF closed # stable
     THEN stable' = closed /\ stableAge' = 0 /\ UNCHANGED believed
     ELSE /\ believed' = IF TroughSettled THEN stable ELSE believed
          /\ UNCHANGED <<stable, stableAge>>
  /\ pc' = "edges"
  /\ UNCHANGED <<passes, switches, phase, roster, records, credits, serving, outputs, cutShort>>

EdgesDone ==
  /\ pc \in {"edges", "edgesStarted"}
  /\ pc' = "run"
  /\ UNCHANGED <<passes, switches, trough, phase, roster, records, credits, serving, outputs,
                 cutShort>>

\* RunStateMachine, one action per case of its switch.
Running(s) ==
  /\ pc = "run" /\ state = s
  /\ UNCHANGED <<switches, trough>>

RunAttract ==
  /\ Running("Attract")
  /\ UNCHANGED <<phase, roster, records, credits, serving, outputs, cutShort>>

RunGameStarting ==
  /\ Running("GameStarting")
  /\ currentPlayer' = 1
  /\ ball' = At(ball, 1, 1)
  /\ BeginBall(1, tilted)
  /\ UNCHANGED <<playerCount, extraBalls, tiltedThroughGame, finished, score, replaysAwarded,
                 credits, gameOn, cutShort>>

RunBallStarting ==
  /\ Running("BallStarting")
  /\ \/ /\ BallsOut > 0
        /\ IF HasLane THEN EnterState("BallInLane", LaunchTimeout)
                      ELSE EnterState("BallInPlay", NoDeadline)
        /\ UNCHANGED kickAttempts
     \/ /\ BallsOut = 0 /\ DeadlinePassed
        /\ kickAttempts' = IF kickAttempts <= KickRetries
                           THEN KickAttempt(kickAttempts)
                           ELSE 0                       \* serve failed: ball search
        /\ deadline' = KickRetry
        /\ UNCHANGED <<state, stateAge>>
     \/ /\ BallsOut = 0 /\ ~DeadlinePassed
        /\ UNCHANGED <<phase, kickAttempts>>
  /\ UNCHANGED <<roster, records, credits, bonusDone, outputs, cutShort>>

RunBallInLane ==
  LET launched == ~laneClosed /\ stateAge >= ServeSettle
  IN  /\ Running("BallInLane")
      /\ \/ BallsOut = 0 /\ EnterState("BallDraining", Settle)
         \/ BallsOut > 0 /\ launched /\ EnterState("BallInPlay", NoDeadline)
         \/ /\ BallsOut > 0 /\ ~launched
            /\ deadline' = IF DeadlinePassed THEN LaunchTimeout ELSE deadline  \* ball stuck
            /\ UNCHANGED <<state, stateAge>>
      /\ UNCHANGED <<roster, records, credits, serving, outputs, cutShort>>

RunBallInPlay ==
  LET giveUp == tilted[currentPlayer] /\ DeadlinePassed
  IN  /\ Running("BallInPlay")
      /\ \/ /\ BallsOut = 0
            /\ EnterState("BallDraining", Settle)
            /\ UNCHANGED outputs
         \/ /\ BallsOut > 0 /\ giveUp
            /\ ClearTilt /\ gi' = TRUE
            /\ FinishBall
            /\ UNCHANGED gameOn
         \/ /\ BallsOut > 0 /\ ~giveUp
            /\ UNCHANGED <<phase, outputs>>
      /\ UNCHANGED <<roster, records, credits, serving, cutShort>>

\* The count fell back while a drain was settling: chatter, not a drain.
Chatter == BallsOut > 0

RunBallDraining ==
  /\ Running("BallDraining")
  /\ \/ Chatter /\ EnterState("BallInPlay", NoDeadline)
     \/ ~Chatter /\ DeadlinePassed /\ FinishBall
     \/ ~Chatter /\ ~DeadlinePassed /\ UNCHANGED phase
  /\ UNCHANGED <<roster, records, credits, serving, outputs, cutShort>>

RunBallEnding ==
  LET skipped == tilted[currentPlayer] /\ SkipBonus
  IN  /\ Running("BallEnding")
      /\ bonusDone' = skipped
      /\ EnterState("BonusCount", IF skipped THEN NoDeadline ELSE BonusTimeout)
      /\ UNCHANGED <<roster, records, credits, kickAttempts, outputs, cutShort>>

RunBonusCount ==
  LET p         == currentPlayer
      over      == bonusDone \/ DeadlinePassed
      \* the tilt of the ball that just ended, read before it is cleared
      forfeits  == tilted[p] /\ ~ExtraBallSurvivesTilt
      clears    == tilted[p] /\ ~tiltedThroughGame[p] /\ BallsOut = 0
      cleared   == [tilted EXCEPT ![p] = @ /\ ~clears]
      inhibited == tiltInhibit /\ ~clears
      lit       == gi \/ clears
      done      == [finished EXCEPT ![p] = @ \/ LastBallPlayed(p)]
      again     == extraBalls[p] > 0 /\ ~forfeits
  IN  /\ Running("BonusCount")
      /\ \/ /\ ~over
            /\ UNCHANGED <<phase, currentPlayer, ball, extraBalls, tilted, finished, serving,
                           tiltInhibit, gi>>
         \/ /\ over /\ again                    \* shoot again: same player, same ball
            /\ extraBalls' = At(extraBalls, p, extraBalls[p] - 1)
            /\ tilted' = cleared /\ tiltInhibit' = inhibited /\ gi' = lit
            /\ kickAttempts' = KickAttempt(0)
            /\ bonusDone' = FALSE
            /\ EnterState("BallStarting", KickRetry)
            /\ UNCHANGED <<currentPlayer, ball, finished>>
         \/ /\ over /\ ~again
            /\ finished' = done
            /\ AdvancePlayer(done, cleared, inhibited, lit)
            /\ UNCHANGED extraBalls
      /\ UNCHANGED <<playerCount, tiltedThroughGame, score, replaysAwarded, credits, gameOn,
                     cutShort>>

\* DrawMatch: the digits are a multiple of ten; each matching player wins a credit.
RunGameEnding ==
  /\ Running("GameEnding")
  /\ ClearTilt /\ gi' = TRUE /\ SetGameOn(FALSE)
  /\ \E digits \in {10 * d : d \in 0 .. 9} :
       LET matched == {p \in ActivePlayers : score[p] % 100 = digits}
       IN  credits' = IF MatchEnabled /\ MatchCredit
                      THEN Credited(Cardinality(matched)) ELSE credits
  /\ EnterState("GameOver", GameOverHold)
  /\ UNCHANGED <<roster, records, serving, cutShort>>

\* EnterAttract
RunGameOver ==
  /\ Running("GameOver")
  /\ \/ /\ DeadlinePassed
        /\ playerCount' = 0 /\ currentPlayer' = 0
        /\ SetGameOn(FALSE) /\ ClearTilt /\ gi' = TRUE
        /\ EnterState("Attract", NoDeadline)
     \/ ~DeadlinePassed /\ UNCHANGED <<phase, roster, outputs>>
  /\ UNCHANGED <<records, credits, serving, cutShort>>

RunStateMachine ==
  \/ RunAttract      \/ RunGameStarting \/ RunBallStarting \/ RunBallInLane \/ RunBallInPlay
  \/ RunBallDraining \/ RunBallEnding   \/ RunBonusCount   \/ RunGameEnding \/ RunGameOver

\* One pass of Update's loop: it runs again while passes change the state.
Pass ==
  /\ RunStateMachine
  /\ IF state' = state \/ passes + 1 = MaxTransitionsPerUpdate
     THEN pc' = "idle" /\ passes' = 0
     ELSE pc' = "run" /\ passes' = passes + 1

Update == UpdateTroughCount \/ EdgesDone \/ Pass

-----------------------------------------------------------------------------
(* The world around it                                                     *)

\* OnSwitch: any number of trough switches may be closed, chatter included.
OnSwitch ==
  /\ pc = "idle"
  /\ \/ closed' \in 0 .. TroughSwitches /\ UNCHANGED laneClosed
     \/ HasLane /\ laneClosed' \in BOOLEAN /\ UNCHANGED closed
  /\ UNCHANGED <<loop, trough, phase, roster, records, credits, serving, outputs, cutShort>>

\* The clock. m_stateSinceMs is read only in the shooter lane.
Tick ==
  /\ deadline' = IF deadline > 0 THEN deadline - 1 ELSE deadline
  /\ stateAge' = IF state = "BallInLane" /\ stateAge < ServeSettle THEN stateAge + 1
                                                                    ELSE stateAge
  /\ stableAge' = IF stableAge < Settle THEN stableAge + 1 ELSE stableAge
  /\ UNCHANGED <<loop, switches, stable, believed, state, roster, records, credits, serving,
                 outputs, cutShort>>

RulesCall ==
  \/ RulesStart \/ RulesAddCredits
  \/ Tilt \/ SlamTilt \/ EndBall \/ EndGame \/ ServeBall \/ BonusDone
  \/ \E p \in ActivePlayers :
       \/ AwardExtraBall(p)
       \/ \E points \in Points : AddScore(points, p) \/ SetScore(points, p)

\* Start(): no switch has been reported yet, so the trough reads empty.
Init ==
  /\ pc = "idle" /\ passes = 0
  /\ closed = 0 /\ laneClosed = FALSE
  /\ stable = 0 /\ stableAge = 0 /\ believed = 0
  /\ state = "Attract" /\ stateAge = 0 /\ deadline = NoDeadline
  /\ playerCount = 0 /\ currentPlayer = 0
  /\ ball = [p \in Players |-> 0]
  /\ extraBalls = [p \in Players |-> 0]
  /\ tilted = [p \in Players |-> FALSE]
  /\ tiltedThroughGame = [p \in Players |-> FALSE]
  /\ finished = [p \in Players |-> FALSE]
  /\ score = [p \in Players |-> 0]
  /\ replaysAwarded = [p \in Players |-> 0]
  /\ credits = 0 /\ kickAttempts = 0 /\ bonusDone = FALSE
  /\ tiltInhibit = FALSE /\ gi = TRUE /\ gameOn = FALSE
  /\ cutShort = "no"

Next == Update \/ HandleStartPressed \/ HandleCoin \/ RulesCall \/ OnSwitch \/ Tick

Spec == Init /\ [][Next]_vars

\* The main loop calls Update for as long as the program runs, and time passes.
Fairness == WF_vars(Update) /\ WF_vars(Tick)
FairSpec == Spec /\ Fairness

-----------------------------------------------------------------------------
(* Properties                                                              *)

LoopOK ==
  /\ pc \in {"idle", "edges", "edgesStarted", "run"}
  /\ passes \in 0 .. MaxTransitionsPerUpdate - 1

TroughOK ==
  /\ closed \in Nat
  /\ stable \in Nat /\ stableAge \in Nat /\ believed \in Nat

PhaseOK ==
  /\ state \in GameStates
  /\ stateAge \in Nat
  /\ deadline \in Nat \cup {NoDeadline}

RosterOK ==
  /\ playerCount \in 0 .. MaxPlayers
  /\ currentPlayer \in 0 .. playerCount
  /\ IsInGame => currentPlayer # 0

RecordsOK ==
  /\ ball \in [Players -> Nat]
  /\ extraBalls \in [Players -> Nat]
  /\ tilted \in [Players -> BOOLEAN]
  /\ tiltedThroughGame \in [Players -> BOOLEAN]
  /\ finished \in [Players -> BOOLEAN]
  /\ score \in [Players -> Nat]
  /\ replaysAwarded \in [Players -> 0 .. Len(Thresholds)]

CountersOK ==
  /\ credits \in 0 .. MaxCredits
  /\ kickAttempts \in Nat
  /\ cutShort \in {"no", "endGame", "slamTilt"}

FlagsOK ==
  /\ laneClosed \in BOOLEAN /\ bonusDone \in BOOLEAN
  /\ tiltInhibit \in BOOLEAN /\ gi \in BOOLEAN /\ gameOn \in BOOLEAN

TypeOK == LoopOK /\ TroughOK /\ PhaseOK /\ RosterOK /\ RecordsOK /\ CountersOK /\ FlagsOK

\* No player ever starts more balls than the game has, however extra balls,
\* tilts, rule calls and late players interleave (AdvancePlayer, BonusCount).
BallsBounded == \A p \in Players : ball[p] <= BallsPerGame

\* Players alternate: when players may join during ball one only, an earlier
\* player is at most one ball ahead of a later one and never behind.
TurnOrder ==
  AddPlayerThroughBall <= 1 =>
    \A i, j \in ActivePlayers : i < j => ball[i] \in {ball[j], ball[j] + 1}

\* A game that nothing cut short ends only when every player, those who joined
\* late included, has played the full complement of balls.
AllPlayedOut ==
  state \in {"GameEnding", "GameOver"} /\ cutShort = "no" =>
    \A p \in ActivePlayers : finished[p] /\ ball[p] = BallsPerGame

\* The flippers are inhibited and the GI is dark only while the player at the
\* machine is tilted: no path hands the next player a dead machine.
FlippersDeadOnlyOnTilt ==
  tiltInhibit \/ ~gi => currentPlayer # 0 /\ tilted[currentPlayer]

\* High power (gameOnCoil) is on exactly while a game runs; a slam tilt drops
\* it at once.
GameOnDuringGame == gameOn <=> IsInGame /\ cutShort # "slamTilt"

\* Every state that waits for a ball or for the rules carries a deadline, so
\* that a missing ball or a forgotten bonusDone() cannot stop the machine.
WaitsAreBounded ==
  /\ state \in {"BallStarting", "BallInLane", "BallDraining", "GameOver"} =>
       deadline # NoDeadline
  /\ state = "BonusCount" => bonusDone \/ deadline # NoDeadline

\* The transition budget of Update is for runaway rules only: the built-in
\* states settle before its last pass.
BudgetSuffices == passes < MaxTransitionsPerUpdate - 1

\* However players join, win extra balls, tilt and drain: they take turns, each
\* plays all its balls, and no Update runs out of transitions on the way.
TurnsInOrder == TurnOrder /\ AllPlayedOut /\ BudgetSuffices

\* A score never stands above a replay threshold that was not awarded, however
\* it got there (several at once, a rollover, a reset to zero), unless the rules
\* wrote it with setScore, which awards nothing.
ReplaysAwarded ==
  "setScore" \notin Commands =>
    \A p \in ActivePlayers : \A n \in 1 .. Len(Thresholds) :
      (\A k \in 1 .. n : score[p] >= Thresholds[k]) => replaysAwarded[p] >= n

\* A ball in play or in the lane is taken for drained only when the trough has
\* read full for the whole settle time: shorter closures never end a ball.
DrainNeedsSettledTrough ==
  [][(state \in {"BallInPlay", "BallInLane"} /\ state' = "BallDraining") =>
       stable >= BallCount /\ stableAge >= Settle]_vars

\* A bonus count always ends, whether or not the rules call bonusDone().
BonusAlwaysEnds == state = "BonusCount" ~> state # "BonusCount"

\* The game-over display always gives way to attract or to a new game.
GameOverEnds == state = "GameOver" ~> state # "GameOver"

\* No display and no count holds the machine for good, whatever the rules do.
GamesProgress == BonusAlwaysEnds /\ GameOverEnds

\* A serve ends, or the kicks are used up and a ball search is requested (which
\* restarts the attempts): a ball that does not leave the trough is not ignored.
ServeIsPursued ==
  state = "BallStarting" /\ kickAttempts > 0 ~> state # "BallStarting" \/ kickAttempts = 0

-----------------------------------------------------------------------------
(* What comments, docs and tests say and the code does not do              *)

\* "Rather than strand the machine, give up after the timeout": a tilted ball
\* does not stay in play for ever.
TiltedBallGivesUp ==
  state = "BallInPlay" /\ tilted[currentPlayer] ~> state # "BallInPlay"

\* "An extra ball earned on the tilted ball is forfeited too": none is left
\* when the tilted ball is over.
TiltForfeitsExtraBall ==
  [][state = "BonusCount" /\ state' \notin {"BonusCount", "GameEnding"} /\
       tilted[currentPlayer] /\ ~ExtraBallSurvivesTilt =>
       extraBalls'[currentPlayer] = 0]_vars

\* "slam tilt ends the game for everyone with no bonus and no match".
SlamTiltDrawsNoMatch ==
  [][state = "GameEnding" /\ state' = "GameOver" /\ cutShort = "slamTilt" =>
       credits' = credits]_vars

\* A player who paid to join gets balls to play: at the end no player is left
\* who never had a turn and was not there when the game was ended.
AddedPlayersPlay == state = "GameOver" => \A p \in ActivePlayers : finished[p]

=============================================================================
