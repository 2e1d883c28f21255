------------------------------- MODULE MCRules -------------------------------
(***************************************************************************)
(* What rules, players and motors count on, in five parts that share no    *)
(* state: the tilt and the ball save (PlayfieldAssist), the calls of the   *)
(* Lua rules (RulesEngine), the memory of their triggers (TriggerHistory), *)
(* the score of a game without a ROM (GameCore) and the speed of a ROM's   *)
(* motor (RomSpeedTracker).  `part` says which of them a behaviour is      *)
(* about; the variables of the others are 0.                               *)
(***************************************************************************)
EXTENDS PlayfieldAssist

CONSTANTS Switches, Delays, OnceMs, MaxCallbacks, MaxPass, RepeatedCloses,
          Triggers, People, Windows, Retention, MaxHistory,
          BallsPerGame, BallCount, AddPlayerThroughBall, TroughSwitches, FreePlay, CreditsPerCoin,
          MaxCredits, HasLane, GiOff, EndsBallOnly, SkipBonus, ExtraBallSurvivesTilt, Settle, KickRetry,
          ServeSettle, LaunchTimeout, RecoverTimeout, BonusTimeout, GameOverHold, KickRetries, KickMod,
          ScoreCeiling, Thresholds, ReplayCredit, ReplayExtraBall, MatchEnabled, MatchCredit, Commands,
          Points, MaxExtraBalls,
          Window, Repeat, Rate, MechRange, Scale, MinChange, Speeds, Rest, MaxLate, MaxLost

VARIABLES part,
          switchStates, suppressedOpen, cpu, fatal, scheduled, updating, updated, due, watch, onceLeft,
          sinceOnce, running,
          history, whoPlays,
          pc, passes, closed, laneClosed, stable, stableAge, believed, state, stateAge, deadline,
          playerCount, currentPlayer, ball, extraBalls, tilted, tiltedThroughGame, finished, score,
          replaysAwarded, credits, kickAttempts, bonusDone, tiltInhibit, gi, gameOn, cutShort,
          motor, rested, moved, age, before, middle, lastSent, sentAge, scale, lost, ran, told

R == INSTANCE RulesEngine
H == INSTANCE TriggerHistory WITH currentPlayer <- whoPlays, Players <- People
G == INSTANCE GameCore
D == INSTANCE RomSpeedTracker

ASSUME MotorAssumption == D!SpeedAssumption
ASSUME CallsAssumption == R!RulesAssumption
ASSUME MemoryAssumption == H!HistoryAssumption
ASSUME ScoresAssumption == G!ConfigAssumption /\ G!TimingAssumption /\ G!ScoreAssumption

ruleVars == <<switchStates, suppressedOpen, cpu, fatal, scheduled, updating, updated, due, watch, onceLeft,
              sinceOnce, running>>
historyVars == <<history, whoPlays>>
gameVars == <<pc, passes, closed, laneClosed, stable, stableAge, believed, state, stateAge, deadline,
              playerCount, currentPlayer, ball, extraBalls, tilted, tiltedThroughGame, finished, score,
              replaysAwarded, credits, kickAttempts, bonusDone, tiltInhibit, gi, gameOn, cutShort>>
motorVars == <<motor, rested, moved, age, before, middle, lastSent, sentAge, scale, lost, ran, told>>

TwoThresholds == <<1, 2>>
SomePoints == {-1, 1, 2}

NoAssist ==
  /\ counted = 0 /\ ballNumber = 0 /\ playActive = 0 /\ tiltSeen = 0 /\ used = 0 /\ sinceHit = 0
  /\ blanked = 0 /\ saveLeft = 0 /\ saves = 0 /\ pending = 0 /\ events = 0
NoRules ==
  /\ switchStates = 0 /\ suppressedOpen = 0 /\ cpu = 0 /\ fatal = 0 /\ scheduled = 0 /\ updating = 0
  /\ updated = 0 /\ due = 0 /\ watch = 0 /\ onceLeft = 0 /\ sinceOnce = 0 /\ running = 0
NoHistory == history = 0 /\ whoPlays = 0
NoGame ==
  /\ pc = 0 /\ passes = 0 /\ closed = 0 /\ laneClosed = 0 /\ stable = 0 /\ stableAge = 0 /\ believed = 0
  /\ state = 0 /\ stateAge = 0 /\ deadline = 0 /\ playerCount = 0 /\ currentPlayer = 0 /\ ball = 0
  /\ extraBalls = 0 /\ tilted = 0 /\ tiltedThroughGame = 0 /\ finished = 0 /\ score = 0
  /\ replaysAwarded = 0 /\ credits = 0 /\ kickAttempts = 0 /\ bonusDone = 0 /\ tiltInhibit = 0
  /\ gi = 0 /\ gameOn = 0 /\ cutShort = 0
NoMotor ==
  /\ motor = 0 /\ rested = 0 /\ moved = 0 /\ age = 0 /\ before = 0 /\ middle = 0 /\ lastSent = 0
  /\ sentAge = 0 /\ scale = 0 /\ lost = 0 /\ ran = 0 /\ told = 0

RulesInit ==
  \/ part = "assist" /\ Init /\ NoRules /\ NoHistory /\ NoGame /\ NoMotor
  \/ part = "rules" /\ R!Init /\ NoAssist /\ NoHistory /\ NoGame /\ NoMotor
  \/ part = "history" /\ H!Init /\ NoAssist /\ NoRules /\ NoGame /\ NoMotor
  \/ part = "score" /\ G!Init /\ NoAssist /\ NoRules /\ NoHistory /\ NoMotor
  \/ part = "motor" /\ D!Init /\ NoAssist /\ NoRules /\ NoHistory /\ NoGame

RulesNext ==
  /\ UNCHANGED part
  /\ \/ part = "assist" /\ Next /\ UNCHANGED <<ruleVars, historyVars, gameVars, motorVars>>
     \/ part = "rules" /\ R!Next /\ UNCHANGED <<assistVars, historyVars, gameVars, motorVars>>
     \/ part = "history" /\ H!Next /\ UNCHANGED <<assistVars, ruleVars, gameVars, motorVars>>
     \/ part = "score" /\ G!Next /\ UNCHANGED <<assistVars, ruleVars, historyVars, motorVars>>
     \/ part = "motor" /\ D!Next /\ UNCHANGED <<assistVars, ruleVars, historyVars, gameVars>>

\* The main loop goes round, as in RulesEngine and RomSpeedTracker.
RulesSpec ==
  /\ RulesInit /\ [][RulesNext]_<<part, assistVars, ruleVars, historyVars, gameVars, motorVars>>
  /\ WF_ruleVars(part = "rules" /\ R!BeginUpdate)
  /\ WF_ruleVars(part = "rules" /\ R!RunCallback)
  /\ WF_ruleVars(part = "rules" /\ R!EndUpdate)
  /\ WF_ruleVars(part = "rules" /\ R!FailedUpdate)
  /\ WF_ruleVars(part = "rules" /\ R!NextPass)
  /\ WF_motorVars(part = "motor" /\ D!Update)
  /\ WF_motorVars(part = "motor" /\ D!Tick)

-----------------------------------------------------------------------------
\* Allowances and limits of the tilt and the save hold, and a trigger starts one
\* save (PlayfieldAssist).
AssistKeepsLimits == part = "assist" => TypeOK /\ TriggerUsedUp

\* A tilted ball is not saved, and a save is only ever extended
\* (PlayfieldAssist!TiltedBallIsLost and SaveNeverShortened).
AssistIsFair == [][part = "assist" => LosesTiltedBall /\ KeepsSave]_assistVars

\* The engine is never left with a switch the boards do not have, delayed work
\* runs in its order and guarded work once per window (RulesEngine); a sequence
\* that is reported happened, and what is too old is forgotten (TriggerHistory).
RulesInOrder ==
  /\ part = "rules" => R!TypeOK /\ R!CpuAgrees /\ R!CallbacksInOrder /\ R!OncePerWindow
  /\ part = "history" => H!SequenceIsReal /\ H!HistoryForgets

\* Work that was asked for is done, and a failure ends the program: the update
\* ends, the delayed work runs, the failure is found (RulesEngine).
DelayedWorkRuns ==
  /\ (part = "rules" /\ updating) ~> (part = "rules" /\ ~updating)
  /\ (part = "rules" /\ watch = "waiting") ~> (part = "rules" /\ (watch = "done" \/ fatal))
  /\ (part = "rules" /\ fatal) ~> (part = "rules" /\ ~running)

\* No threshold that was reached stays without its award (GameCore).
ReplaysAwarded == part = "score" => G!ReplaysAwarded

\* A motor is told no speed that it did not run at, and what it is told arrives
\* although frames get lost (RomSpeedTracker!SpeedIsReal and SpeedArrives).
MotorFollowsRom ==
  /\ [](part = "motor" => D!TypeOK /\ D!SpeedIsReal)
  /\ (<>[][part = "motor" /\ motor' = motor]_motorVars) => <>[](part = "motor" /\ motor > 0 => D!Heard)
=============================================================================
