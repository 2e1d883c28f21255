--------------------------- MODULE GameCoreProofs ---------------------------
(***************************************************************************)
(* Safety of GameCore for every machine configuration: any number of       *)
(* players, balls and trough switches, any durations, any set of calls     *)
(* made by the rules.  The first half is about the state of the machine,   *)
(* the second about turns and replays.                                     *)
(***************************************************************************)
EXTENDS GameCore, FiniteSetTheorems, TLAPS

\* Turn stays among the players of the game.
LEMMA TurnInRange ==
  ASSUME playerCount \in Nat \ {0}, currentPlayer \in Nat, NEW step \in Nat
  PROVE  Turn(step) \in 1 .. playerCount
BY SMT DEF Turn

\* AddCredits clamps whatever it is given.
LEMMA CreditedInRange ==
  ASSUME NEW delta \in Int, credits \in 0 .. MaxCredits, MaxCredits \in Nat
  PROVE  Credited(delta) \in 0 .. MaxCredits
BY DEF Credited

\* The number of players a match pays is a natural number.
LEMMA MatchedIsFinite ==
  ASSUME playerCount \in Nat, NEW S, S \subseteq ActivePlayers
  PROVE  Cardinality(S) \in Nat
<1>1. IsFiniteSet(1 .. playerCount)
  BY FS_Interval
<1>2. IsFiniteSet(S)
  BY <1>1, FS_Subset DEF ActivePlayers
<1>3. QED
  BY <1>2, FS_CardinalityType

-----------------------------------------------------------------------------
(* Type correctness                                                        *)

\* A start press or call that is accepted keeps the types.
LEMMA StartOrAddTypes ==
  ASSUME TypeOK, StartOrAdd
  PROVE  PhaseOK' /\ RosterOK' /\ RecordsOK' /\ CountersOK'
         /\ UNCHANGED <<bonusDone, tiltInhibit>> /\ gi' \in BOOLEAN /\ gameOn' \in BOOLEAN
<1> USE ConfigAssumption, ScoreAssumption DEF TypeOK
<1>0. Credited(-1) \in 0 .. MaxCredits
  BY CreditedInRange DEF CountersOK
<1>1. CASE StartGame
  <2> USE <1>1 DEF StartGame, BeginGame, EnterState, SetGameOn
  <2>1. PhaseOK'
    BY DEF PhaseOK, GameStates, InGameStates, NoDeadline
  <2>2. RosterOK'
    BY DEF RosterOK
  <2>3. RecordsOK'
    <3>1. Len(Thresholds) \in Nat
      OBVIOUS
    <3>2. QED
      BY <3>1 DEF RecordsOK
  <2>4. CountersOK'
    BY <1>0 DEF CountersOK, serving
  <2>5. UNCHANGED <<bonusDone, tiltInhibit>> /\ gi' \in BOOLEAN /\ gameOn' \in BOOLEAN
    BY DEF serving
  <2> QED
    BY <2>1, <2>2, <2>3, <2>4, <2>5
<1>2. CASE AddPlayer
  <2> USE <1>2 DEF AddPlayer
  <2>1. PhaseOK'
    BY DEF PhaseOK, phase
  <2>2. RosterOK'
    BY DEF RosterOK, phase, IsInGame
  <2>3. RecordsOK'
    <3>1. ball' \in [Players -> Nat] /\ extraBalls' \in [Players -> Nat]
          /\ score' \in [Players -> Nat]
      BY DEF RecordsOK, At
    <3>2. tilted' \in [Players -> BOOLEAN] /\ finished' \in [Players -> BOOLEAN]
          /\ tiltedThroughGame' \in [Players -> BOOLEAN]
      BY DEF RecordsOK, At
    <3>3. replaysAwarded' \in [Players -> 0 .. Len(Thresholds)]
      <4>1. Len(Thresholds) \in Nat
        OBVIOUS
      <4>2. 0 \in 0 .. Len(Thresholds)
        BY <4>1
      <4>3. replaysAwarded' = [replaysAwarded EXCEPT ![playerCount + 1] = 0]
        BY DEF At
      <4>4. QED
        BY <4>2, <4>3, Zenon DEF RecordsOK
    <3> QED
      BY <3>1, <3>2, <3>3 DEF RecordsOK
  <2>4. CountersOK'
    BY <1>0 DEF CountersOK, serving
  <2>5. UNCHANGED <<bonusDone, tiltInhibit>> /\ gi' \in BOOLEAN /\ gameOn' \in BOOLEAN
    BY DEF serving, outputs, FlagsOK
  <2> QED
    BY <2>1, <2>2, <2>3, <2>4, <2>5
<1> QED
  BY <1>1, <1>2 DEF StartOrAdd

\* Using up one of a player's extra balls.
LEMMA TakeOne ==
  ASSUME RosterOK, extraBalls \in [Players -> Nat], currentPlayer \in 1 .. playerCount,
         extraBalls[currentPlayer] > 0
  PROVE  At(extraBalls, currentPlayer, extraBalls[currentPlayer] - 1) \in [Players -> Nat]
<1>1. currentPlayer \in Players
  BY ConfigAssumption DEF RosterOK, Players
<1>2. extraBalls[currentPlayer] - 1 \in Nat
  BY <1>1
<1>3. QED
  BY <1>2 DEF At

\* Giving a player any number of extra balls.
LEMMA OneMore ==
  ASSUME NEW p \in Players, NEW won \in Nat, extraBalls \in [Players -> Nat]
  PROVE  At(extraBalls, p, extraBalls[p] + won) \in [Players -> Nat]
BY DEF At

\* A score is clamped at zero and rolls over at the digits of the display.
LEMMA Reduced ==
  ASSUME NEW p \in Players, NEW sum \in Int, score \in [Players -> Nat]
  PROVE  At(score, p, (IF sum < 0 THEN 0 ELSE sum) % ScoreCeiling) \in [Players -> Nat]
<1>1. (IF sum < 0 THEN 0 ELSE sum) % ScoreCeiling \in Nat
  BY ScoreAssumption
<1>2. QED
  BY <1>1 DEF At

\* Handing the machine to any player of the game keeps the roster.
LEMMA HandOver ==
  ASSUME RosterOK, currentPlayer' \in 1 .. playerCount, UNCHANGED playerCount
  PROVE  RosterOK'
BY ConfigAssumption DEF RosterOK

\* The end of the bonus count, the one step that reorders the players.
LEMMA BonusCountTypes ==
  ASSUME TypeOK, RunBonusCount
  PROVE  PhaseOK' /\ RosterOK' /\ RecordsOK' /\ CountersOK' /\ FlagsOK'
<1> USE TimingAssumption DEF TypeOK, RunBonusCount, Running
<1> USE DEF AdvancePlayer, BeginBall, EnterState, KickAttempt, ClearTilt
<1>0. /\ playerCount \in Nat \ {0} /\ currentPlayer \in 1 .. playerCount
      /\ \A step \in Nat : Turn(step) \in 1 .. playerCount
  BY ConfigAssumption, TurnInRange DEF RosterOK, IsInGame, InGameStates
<1>1. PhaseOK'
  BY DEF PhaseOK, GameStates, InGameStates, NoDeadline, phase
<1>2. RosterOK'
  <2>1. currentPlayer' \in 1 .. playerCount
    <3>1. \/ UNCHANGED currentPlayer
          \/ \E step \in 1 .. playerCount : currentPlayer' = Turn(step)
      BY Zenon
    <3>2. QED
      BY <1>0, <3>1, SMT
  <2>2. UNCHANGED playerCount
    OBVIOUS
  <2> QED
    BY <2>1, <2>2, HandOver
<1>3. RecordsOK'
  <2>1. ball' \in [Players -> Nat]
    BY DEF RecordsOK
  <2>2. extraBalls' \in [Players -> Nat]
    <3>1. \/ UNCHANGED extraBalls
          \/ /\ extraBalls[currentPlayer] > 0
             /\ extraBalls' = At(extraBalls, currentPlayer, extraBalls[currentPlayer] - 1)
      OBVIOUS
    <3>2. QED
      BY <1>0, <3>1, TakeOne DEF RecordsOK
  <2>3. tilted' \in [Players -> BOOLEAN] /\ finished' \in [Players -> BOOLEAN]
    BY DEF RecordsOK
  <2>4. UNCHANGED <<tiltedThroughGame, score, replaysAwarded>>
    OBVIOUS
  <2> QED
    BY <2>1, <2>2, <2>3, <2>4 DEF RecordsOK
<1>4. CountersOK'
  BY DEF CountersOK, serving
<1>5. FlagsOK'
  BY DEF FlagsOK, serving, switches
<1> QED
  BY <1>1, <1>2, <1>3, <1>4, <1>5

-----------------------------------------------------------------------------

\* One pass of the state machine keeps the types.
LEMMA PassTypes ==
  ASSUME TypeOK, Pass
  PROVE  TypeOK'
<1> USE ConfigAssumption, TimingAssumption DEF TypeOK
<1>0. LoopOK'
  BY DEF Pass, LoopOK, MaxTransitionsPerUpdate
<1> SUFFICES ASSUME RunStateMachine
             PROVE  TroughOK' /\ PhaseOK' /\ RosterOK' /\ RecordsOK' /\ CountersOK' /\ FlagsOK'
  BY <1>0 DEF Pass
<1>1. CASE RunAttract
  <2> USE <1>1 DEF RunAttract, Running
  <2>1. TroughOK' /\ PhaseOK' /\ RosterOK' /\ RecordsOK' /\ CountersOK' /\ FlagsOK'
    BY DEF TroughOK, trough, switches, PhaseOK, phase, RosterOK, roster, IsInGame, RecordsOK,
       records, CountersOK, serving, FlagsOK, switches, serving, outputs
  <2> QED
    BY <2>1
<1>2. CASE RunGameStarting
  <2> USE <1>2 DEF RunGameStarting, Running, BeginBall, KickAttempt, ClearTilt, EnterState, At
  <2>1. TroughOK'
    BY DEF TroughOK, trough, switches
  <2>2. PhaseOK'
    BY DEF PhaseOK, phase, GameStates, InGameStates, NoDeadline
  <2>3. RosterOK'
    BY DEF RosterOK, roster, IsInGame, InGameStates
  <2>4. RecordsOK'
    BY DEF RecordsOK, records
  <2>5. CountersOK'
    BY DEF CountersOK, serving
  <2>6. FlagsOK'
    BY DEF FlagsOK, switches, serving, outputs
  <2> QED
    BY <2>1, <2>2, <2>3, <2>4, <2>5, <2>6
<1>3. CASE RunBallStarting
  <2> USE <1>3 DEF RunBallStarting, Running, KickAttempt, EnterState
  <2>1. TroughOK' /\ RecordsOK' /\ FlagsOK'
    BY DEF TroughOK, trough, switches, RecordsOK, records, FlagsOK, switches, serving, outputs
  <2>2. PhaseOK'
    BY DEF PhaseOK, phase, GameStates, InGameStates, NoDeadline
  <2>3. RosterOK'
    BY DEF RosterOK, roster, IsInGame, InGameStates
  <2>4. CountersOK'
    BY DEF CountersOK, serving
  <2> QED
    BY <2>1, <2>2, <2>3, <2>4
<1>4. CASE RunBallInLane
  <2> USE <1>4 DEF RunBallInLane, Running, EnterState
  <2>1. TroughOK' /\ RecordsOK' /\ CountersOK' /\ FlagsOK'
    BY DEF TroughOK, trough, switches, RecordsOK, records, CountersOK, serving, FlagsOK, switches,
       serving, outputs
  <2>2. PhaseOK'
    BY DEF PhaseOK, phase, GameStates, InGameStates, NoDeadline
  <2>3. RosterOK'
    BY DEF RosterOK, roster, IsInGame, InGameStates
  <2> QED
    BY <2>1, <2>2, <2>3
<1>5. CASE RunBallInPlay
  <2> USE <1>5 DEF RunBallInPlay, Running, ClearTilt, FinishBall, EnterState
  <2>1. TroughOK' /\ RecordsOK' /\ CountersOK'
    BY DEF TroughOK, trough, switches, RecordsOK, records, CountersOK, serving
  <2>2. PhaseOK'
    BY DEF PhaseOK, phase, GameStates, InGameStates, NoDeadline
  <2>3. RosterOK'
    BY DEF RosterOK, roster, IsInGame, InGameStates
  <2>4. FlagsOK'
    BY DEF FlagsOK, switches, serving, outputs
  <2> QED
    BY <2>1, <2>2, <2>3, <2>4
<1>6. CASE RunBallDraining
  <2> USE <1>6 DEF RunBallDraining, Running, FinishBall, EnterState
  <2>1. TroughOK' /\ RecordsOK' /\ CountersOK' /\ FlagsOK'
    BY DEF TroughOK, trough, switches, RecordsOK, records, CountersOK, serving, FlagsOK, switches,
       serving, outputs
  <2>2. PhaseOK'
    BY DEF PhaseOK, phase, GameStates, InGameStates, NoDeadline
  <2>3. RosterOK'
    BY DEF RosterOK, roster, IsInGame, InGameStates
  <2> QED
    BY <2>1, <2>2, <2>3
<1>7. CASE RunBallEnding
  <2> USE <1>7 DEF RunBallEnding, Running, EnterState
  <2>1. TroughOK' /\ RecordsOK' /\ CountersOK'
    BY DEF TroughOK, trough, switches, RecordsOK, records, CountersOK, serving
  <2>2. PhaseOK'
    BY DEF PhaseOK, phase, GameStates, InGameStates, NoDeadline
  <2>3. RosterOK'
    BY DEF RosterOK, roster, IsInGame, InGameStates
  <2>4. FlagsOK'
    BY DEF FlagsOK, switches, serving, outputs
  <2> QED
    BY <2>1, <2>2, <2>3, <2>4
<1>8. CASE RunBonusCount
  BY <1>8, BonusCountTypes DEF RunBonusCount, Running, TroughOK, trough, switches
<1>9. CASE RunGameEnding
  <2> USE <1>9 DEF RunGameEnding, Running, ClearTilt, SetGameOn, EnterState
  <2>1. TroughOK' /\ RecordsOK'
    BY DEF TroughOK, trough, switches, RecordsOK, records
  <2>2. PhaseOK'
    BY DEF PhaseOK, phase, GameStates, InGameStates, NoDeadline
  <2>3. RosterOK'
    BY DEF RosterOK, roster, IsInGame, InGameStates
  <2>4. CountersOK'
    BY CreditedInRange, MatchedIsFinite DEF CountersOK, serving, RosterOK, IsInGame, InGameStates
  <2>5. FlagsOK'
    BY DEF FlagsOK, switches, serving, outputs
  <2> QED
    BY <2>1, <2>2, <2>3, <2>4, <2>5
<1>10. CASE RunGameOver
  <2> USE <1>10 DEF RunGameOver, Running, ClearTilt, SetGameOn, EnterState
  <2>1. TroughOK' /\ RecordsOK' /\ CountersOK'
    BY DEF TroughOK, trough, switches, RecordsOK, records, CountersOK, serving
  <2>2. PhaseOK'
    BY DEF PhaseOK, phase, GameStates, InGameStates, NoDeadline
  <2>3. RosterOK'
    <3>1. CASE playerCount' = 0 /\ currentPlayer' = 0 /\ state' = "Attract"
      BY <3>1 DEF RosterOK, IsInGame, InGameStates
    <3>2. CASE UNCHANGED <<phase, roster>>
      BY <3>2 DEF RosterOK, roster, phase, IsInGame
    <3> QED
      BY <3>1, <3>2
  <2>4. FlagsOK'
    BY DEF FlagsOK, switches, serving, outputs
  <2> QED
    BY <2>1, <2>2, <2>3, <2>4
<1> QED
  BY <1>1, <1>2, <1>3, <1>4, <1>5, <1>6, <1>7, <1>8, <1>9, <1>10 DEF RunStateMachine

\* A call of the rules keeps the types.
LEMMA RulesCallTypes ==
  ASSUME TypeOK, RulesCall
  PROVE  TypeOK'
<1> USE ConfigAssumption, TimingAssumption DEF TypeOK
<1>1. CASE RulesStart
  <2>1. LoopOK' /\ TroughOK'
    BY <1>1 DEF RulesStart, Rules, LoopOK, loop, TroughOK, trough, switches
  <2>2. PhaseOK' /\ RosterOK' /\ RecordsOK' /\ CountersOK'
    BY <1>1, StartOrAddTypes DEF RulesStart
  <2>3. FlagsOK'
    BY <1>1, StartOrAddTypes DEF RulesStart, Rules, FlagsOK, switches
  <2> QED
    BY <2>1, <2>2, <2>3
<1>2. CASE RulesAddCredits
  <2> USE <1>2 DEF RulesAddCredits, Rules, AddCredits
  <2>1. LoopOK' /\ TroughOK' /\ PhaseOK' /\ RosterOK' /\ RecordsOK' /\ FlagsOK'
    BY DEF LoopOK, loop, TroughOK, trough, switches, PhaseOK, phase, RosterOK, roster, IsInGame,
       RecordsOK, records, FlagsOK, switches, serving, outputs
  <2>2. CountersOK'
    BY CreditedInRange DEF CountersOK, serving
  <2> QED
    BY <2>1, <2>2
<1>3. CASE Tilt
  <2> USE <1>3 DEF Tilt, Rules, At
  <2>1. LoopOK' /\ TroughOK' /\ CountersOK'
    BY DEF LoopOK, loop, TroughOK, trough, switches, CountersOK, serving
  <2>2. PhaseOK'
    BY DEF PhaseOK, phase, GameStates, InGameStates, NoDeadline
  <2>3. RosterOK'
    BY DEF RosterOK, roster, IsInGame, InGameStates
  <2>4. RecordsOK'
    BY DEF RecordsOK, records
  <2>5. FlagsOK'
    BY DEF FlagsOK, switches, serving, outputs
  <2> QED
    BY <2>1, <2>2, <2>3, <2>4, <2>5
<1>4. CASE SlamTilt
  <2> USE <1>4 DEF SlamTilt, Rules, At, SetGameOn, EnterState
  <2>1. LoopOK' /\ TroughOK'
    BY DEF LoopOK, loop, TroughOK, trough, switches
  <2>2. PhaseOK'
    BY DEF PhaseOK, phase, GameStates, InGameStates, NoDeadline
  <2>3. RosterOK'
    BY DEF RosterOK, roster, IsInGame, InGameStates
  <2>4. RecordsOK'
    BY DEF RecordsOK, records
  <2>5. CountersOK'
    BY DEF CountersOK, serving
  <2>6. FlagsOK'
    BY DEF FlagsOK, switches, serving, outputs
  <2> QED
    BY <2>1, <2>2, <2>3, <2>4, <2>5, <2>6
<1>5. CASE EndBall
  <2> USE <1>5 DEF EndBall, Rules, FinishBall, EnterState
  <2>1. LoopOK' /\ TroughOK' /\ RecordsOK' /\ CountersOK' /\ FlagsOK'
    BY DEF LoopOK, loop, TroughOK, trough, switches, RecordsOK, records, CountersOK, serving,
       FlagsOK, switches, serving, outputs
  <2>2. PhaseOK'
    BY DEF PhaseOK, phase, GameStates, InGameStates, NoDeadline
  <2>3. RosterOK'
    BY DEF RosterOK, roster, IsInGame, InGameStates
  <2> QED
    BY <2>1, <2>2, <2>3
<1>6. CASE EndGame
  <2> USE <1>6 DEF EndGame, Rules, EnterState
  <2>1. LoopOK' /\ TroughOK' /\ FlagsOK'
    BY DEF LoopOK, loop, TroughOK, trough, switches, FlagsOK, switches, serving, outputs
  <2>2. PhaseOK'
    BY DEF PhaseOK, phase, GameStates, InGameStates, NoDeadline
  <2>3. RosterOK'
    BY DEF RosterOK, roster, IsInGame, InGameStates
  <2>4. RecordsOK'
    BY DEF RecordsOK, records
  <2>5. CountersOK'
    BY DEF CountersOK, serving
  <2> QED
    BY <2>1, <2>2, <2>3, <2>4, <2>5
<1>7. CASE ServeBall
  <2> USE <1>7 DEF ServeBall, Rules, KickAttempt
  <2>1. LoopOK' /\ TroughOK' /\ RecordsOK' /\ FlagsOK'
    BY DEF LoopOK, loop, TroughOK, trough, switches, RecordsOK, records, FlagsOK, switches,
       serving, outputs
  <2>2. PhaseOK'
    BY DEF PhaseOK, phase, GameStates, InGameStates, NoDeadline
  <2>3. RosterOK'
    BY DEF RosterOK, roster, IsInGame, InGameStates
  <2>4. CountersOK'
    BY DEF CountersOK, serving
  <2> QED
    BY <2>1, <2>2, <2>3, <2>4
<1>8. CASE BonusDone
  <2> USE <1>8 DEF BonusDone, Rules
  <2>1. LoopOK' /\ TroughOK' /\ PhaseOK' /\ RosterOK' /\ RecordsOK' /\ CountersOK'
    BY DEF LoopOK, loop, TroughOK, trough, switches, PhaseOK, phase, RosterOK, roster, IsInGame,
       RecordsOK, records, CountersOK, serving
  <2>2. FlagsOK'
    BY DEF FlagsOK, switches, serving, outputs
  <2> QED
    BY <2>1, <2>2
<1>9. ASSUME NEW p \in ActivePlayers, AwardExtraBall(p) PROVE TypeOK'
  <2> USE <1>9 DEF AwardExtraBall, Rules, At
  <2>1. LoopOK' /\ TroughOK' /\ PhaseOK' /\ RosterOK' /\ CountersOK' /\ FlagsOK'
    BY DEF LoopOK, loop, TroughOK, trough, switches, PhaseOK, phase, RosterOK, roster, IsInGame,
       CountersOK, serving, FlagsOK, switches, serving, outputs
  <2>2. extraBalls' \in [Players -> Nat]
    BY OneMore DEF RecordsOK, RosterOK
  <2>3. RecordsOK'
    BY <2>2 DEF RecordsOK
  <2> QED
    BY <2>1, <2>3
<1>10. ASSUME NEW p \in ActivePlayers, NEW points \in Points, AddScore(points, p) PROVE TypeOK'
  <2> USE <1>10, ScoreAssumption DEF AddScore, Rules
  <2>1. LoopOK' /\ TroughOK' /\ PhaseOK' /\ RosterOK' /\ FlagsOK'
    BY DEF LoopOK, loop, TroughOK, trough, switches, PhaseOK, phase, RosterOK, roster,
           IsInGame, FlagsOK, serving, outputs
  <2>2. p \in Players /\ Len(Thresholds) \in Nat
    BY DEF ActivePlayers, Players, RosterOK
  <2>3. score[p] \in Nat /\ replaysAwarded[p] \in 0 .. Len(Thresholds)
        /\ extraBalls[p] \in Nat /\ points \in Int
    BY <2>2 DEF RecordsOK
  <2>4. PICK n \in replaysAwarded[p] .. Len(Thresholds) :
          /\ replaysAwarded' = At(replaysAwarded, p, n)
          /\ credits' = IF ReplayCredit THEN Credited(n - replaysAwarded[p]) ELSE credits
          /\ extraBalls' = IF ReplayExtraBall
                            THEN At(extraBalls, p, extraBalls[p] + (n - replaysAwarded[p]))
                            ELSE extraBalls
    OBVIOUS
  <2>5. n \in 0 .. Len(Thresholds) /\ n - replaysAwarded[p] \in Nat
    BY <2>2, <2>3
  <2>6. score' \in [Players -> Nat]
    <3> DEFINE sum == score[p] + points
    <3>1. sum \in Int /\ score \in [Players -> Nat]
      BY <2>3 DEF RecordsOK
    <3>2. score' = At(score, p, (IF sum < 0 THEN 0 ELSE sum) % ScoreCeiling)
      BY Zenon
    <3> HIDE <1>10 DEF sum
    <3>3. At(score, p, (IF sum < 0 THEN 0 ELSE sum) % ScoreCeiling) \in [Players -> Nat]
      BY <2>2, <3>1, Reduced
    <3> QED
      BY <3>2, <3>3, Zenon
  <2>7. replaysAwarded' \in [Players -> 0 .. Len(Thresholds)]
    BY <2>4, <2>5, Zenon DEF RecordsOK, At
  <2>8. extraBalls' \in [Players -> Nat]
    BY <2>2, <2>3, <2>4, <2>5, OneMore DEF RecordsOK
  <2>9. RecordsOK'
    BY <2>6, <2>7, <2>8 DEF RecordsOK
  <2>10. CountersOK'
    <3>1. credits \in 0 .. MaxCredits /\ MaxCredits \in Nat /\ n - replaysAwarded[p] \in Int
      BY <2>5 DEF CountersOK
    <3>2. Credited(n - replaysAwarded[p]) \in 0 .. MaxCredits
      BY <3>1, CreditedInRange, Zenon
    <3>3. credits' \in 0 .. MaxCredits
      BY <2>4, <3>1, <3>2, Zenon
    <3>4. UNCHANGED <<kickAttempts, cutShort>>
      BY DEF serving
    <3> QED
      BY <3>3, <3>4 DEF CountersOK
  <2> QED
    BY <2>1, <2>9, <2>10
<1>11. ASSUME NEW p \in ActivePlayers, NEW points \in Points, SetScore(points, p) PROVE TypeOK'
  <2> USE <1>11 DEF SetScore, Rules, At
  <2>1. LoopOK' /\ TroughOK' /\ PhaseOK' /\ RosterOK' /\ CountersOK' /\ FlagsOK'
    BY DEF LoopOK, loop, TroughOK, trough, switches, PhaseOK, phase, RosterOK, roster, IsInGame,
       CountersOK, serving, FlagsOK, switches, serving, outputs
  <2>2. p \in Players /\ points \in Nat
    BY ScoreAssumption DEF ActivePlayers, Players, RosterOK
  <2>3. score' \in [Players -> Nat]
    BY <2>2, ScoreAssumption DEF RecordsOK
  <2>4. RecordsOK'
    BY <2>3 DEF RecordsOK
  <2> QED
    BY <2>1, <2>4
<1> QED
  BY <1>1, <1>2, <1>3, <1>4, <1>5, <1>6, <1>7, <1>8, <1>9, <1>10, <1>11 DEF RulesCall

\* Every reachable state is well typed: no player number outside the game, no
\* credit count beyond its limits, no deadline that is neither unset nor in the future.
THEOREM TypeCorrect == Spec => []TypeOK
<1>1. Init => TypeOK
  <2> USE DEF Init
  <2>1. Init => LoopOK /\ TroughOK
    BY DEF LoopOK, TroughOK, MaxTransitionsPerUpdate
  <2>2. Init => PhaseOK
    BY DEF PhaseOK, GameStates, InGameStates, NoDeadline
  <2>3. Init => RosterOK
    BY ConfigAssumption DEF RosterOK, IsInGame, InGameStates
  <2>4. Init => RecordsOK
    BY ScoreAssumption DEF RecordsOK
  <2>5. Init => CountersOK
    BY ConfigAssumption DEF CountersOK
  <2>6. Init => FlagsOK
    BY DEF FlagsOK
  <2> QED
    BY <2>1, <2>2, <2>3, <2>4, <2>5, <2>6 DEF TypeOK
<1>2. TypeOK /\ [Next]_vars => TypeOK'
  <2> SUFFICES ASSUME TypeOK, [Next]_vars PROVE TypeOK'
    OBVIOUS
  <2> USE ConfigAssumption, TimingAssumption DEF TypeOK
  <2>1. CASE UpdateTroughCount
    <3> USE <2>1 DEF UpdateTroughCount
    <3>1. PhaseOK' /\ RosterOK' /\ RecordsOK' /\ CountersOK' /\ FlagsOK'
      BY DEF PhaseOK, phase, RosterOK, roster, IsInGame, RecordsOK, records, CountersOK, serving,
         FlagsOK, switches, serving, outputs
    <3>2. LoopOK'
      BY DEF LoopOK, loop, MaxTransitionsPerUpdate
    <3>3. TroughOK'
      BY DEF TroughOK, trough, switches
    <3> QED
      BY <3>1, <3>2, <3>3
  <2>2. CASE EdgesDone
    <3> USE <2>2 DEF EdgesDone
    <3>1. TroughOK' /\ PhaseOK' /\ RosterOK' /\ RecordsOK' /\ CountersOK' /\ FlagsOK'
      BY DEF TroughOK, trough, switches, PhaseOK, phase, RosterOK, roster, IsInGame, RecordsOK,
         records, CountersOK, serving, FlagsOK, switches, serving, outputs
    <3>2. LoopOK'
      BY DEF LoopOK, loop, MaxTransitionsPerUpdate
    <3> QED
      BY <3>1, <3>2
  <2>3. CASE Pass
    BY <2>3, PassTypes
  <2>4. CASE HandleStartPressed
    <3>1. LoopOK' /\ TroughOK'
      BY <2>4 DEF HandleStartPressed, LoopOK, TroughOK, trough, switches
    <3>2. CASE StartOrAdd
      <4>1. PhaseOK' /\ RosterOK' /\ RecordsOK' /\ CountersOK'
        BY <3>2, StartOrAddTypes
      <4>2. FlagsOK'
        BY <2>4, <3>2, StartOrAddTypes DEF HandleStartPressed, FlagsOK, switches
      <4> QED
        BY <3>1, <4>1, <4>2
    <3>3. CASE Refused
      <4>1. PhaseOK' /\ RosterOK' /\ RecordsOK' /\ CountersOK' /\ FlagsOK'
        BY <2>4, <3>3 DEF HandleStartPressed, Refused, PhaseOK, phase, RosterOK, roster, IsInGame,
           RecordsOK, records, CountersOK, serving, FlagsOK, switches, outputs
      <4> QED
        BY <3>1, <4>1
    <3> QED
      BY <2>4, <3>2, <3>3 DEF HandleStartPressed
  <2>5. CASE HandleCoin
    <3> USE <2>5 DEF HandleCoin, AddCredits
    <3>1. LoopOK' /\ TroughOK' /\ PhaseOK' /\ RosterOK' /\ RecordsOK' /\ FlagsOK'
      BY DEF LoopOK, loop, TroughOK, trough, switches, PhaseOK, phase, RosterOK, roster, IsInGame,
         RecordsOK, records, FlagsOK, switches, serving, outputs
    <3>2. CountersOK'
      BY CreditedInRange DEF CountersOK, serving
    <3> QED
      BY <3>1, <3>2
  <2>6. CASE RulesCall
    BY <2>6, RulesCallTypes
  <2>7. CASE OnSwitch
    <3> USE <2>7 DEF OnSwitch
    <3>1. LoopOK' /\ PhaseOK' /\ RosterOK' /\ RecordsOK' /\ CountersOK'
      BY DEF LoopOK, loop, PhaseOK, phase, RosterOK, roster, IsInGame, RecordsOK, records,
         CountersOK, serving
    <3>2. TroughOK'
      BY DEF TroughOK, trough, switches
    <3>3. FlagsOK'
      BY DEF FlagsOK, switches, serving, outputs
    <3> QED
      BY <3>1, <3>2, <3>3
  <2>8. CASE Tick
    <3> USE <2>8 DEF Tick
    <3>1. LoopOK' /\ RecordsOK' /\ CountersOK' /\ FlagsOK'
      BY DEF LoopOK, loop, RecordsOK, records, CountersOK, serving, FlagsOK, switches, serving,
         outputs
    <3>2. TroughOK'
      BY DEF TroughOK, trough, switches
    <3>3. PhaseOK'
      BY DEF PhaseOK, phase, GameStates, InGameStates, NoDeadline
    <3>4. RosterOK'
      BY DEF RosterOK, roster, IsInGame, InGameStates
    <3> QED
      BY <3>1, <3>2, <3>3, <3>4
  <2>9. CASE UNCHANGED vars
    BY <2>9 DEF vars, loop, switches, trough, phase, roster, records, outputs, serving, LoopOK,
       TroughOK, PhaseOK, RosterOK, RecordsOK, CountersOK, FlagsOK, IsInGame
  <2> QED
    BY <2>1, <2>2, <2>3, <2>4, <2>5, <2>6, <2>7, <2>8, <2>9 DEF Next, Update
<1>3. QED
  BY <1>1, <1>2, PTL DEF Spec

-----------------------------------------------------------------------------
(* The outputs a tilt switches off                                         *)

\* FlippersDeadOnlyOnTilt is not inductive: a game that starts needs to know that
\* attract and the game-over display left the machine alive.
FlippersInv ==
  /\ FlippersDeadOnlyOnTilt
  /\ ~IsInGame => ~tiltInhibit /\ gi

\* Every pass of the state machine keeps it.
LEMMA PassFlippers ==
  ASSUME TypeOK, FlippersInv, RunStateMachine
  PROVE  FlippersInv'
<1> USE DEF FlippersInv, FlippersDeadOnlyOnTilt, IsInGame, InGameStates, Running
<1>0. currentPlayer # 0 => currentPlayer \in Players
  BY ConfigAssumption DEF TypeOK, RosterOK, Players
<1>1. CASE RunAttract
  BY <1>1 DEF RunAttract, phase, roster, records, outputs
<1>2. CASE RunGameStarting
  BY <1>2 DEF RunGameStarting, BeginBall, ClearTilt, EnterState
<1>3. CASE RunBallStarting
  BY <1>3 DEF RunBallStarting, EnterState, phase, roster, records, outputs
<1>4. CASE RunBallInLane
  BY <1>4 DEF RunBallInLane, EnterState, roster, records, outputs
<1>5. CASE RunBallInPlay
  BY <1>5 DEF RunBallInPlay, FinishBall, ClearTilt, EnterState, phase, roster, records, outputs
<1>6. CASE RunBallDraining
  BY <1>6 DEF RunBallDraining, FinishBall, EnterState, phase, roster, records, outputs
<1>7. CASE RunBallEnding
  BY <1>7 DEF RunBallEnding, EnterState, roster, records, outputs
<1>8. CASE RunBonusCount
  <2> DEFINE p == currentPlayer
             clears == tilted[p] /\ ~tiltedThroughGame[p] /\ BallsOut = 0
             cleared == [tilted EXCEPT ![p] = @ /\ ~clears]
  <2>1. state = "BonusCount" /\ p \in Players /\ p # 0
    BY <1>0, <1>8 DEF RunBonusCount, TypeOK, RosterOK
  <2>2. tilted \in [Players -> BOOLEAN]
    BY DEF TypeOK, RecordsOK
  <2>3. cleared[p] = (tilted[p] /\ ~clears)
    BY <2>1, <2>2, Zenon
  <2>4. tiltInhibit \/ ~gi => tilted[p]
    BY Zenon
  <2>5. state' \in {"BonusCount", "BallStarting", "GameEnding"}
    BY <1>8 DEF RunBonusCount, AdvancePlayer, BeginBall, EnterState, phase
  <2>6. \/ UNCHANGED <<currentPlayer, tilted, tiltInhibit, gi>>
        \/ /\ UNCHANGED currentPlayer
           /\ tilted' = cleared
           /\ tiltInhibit' = (tiltInhibit /\ ~clears)
           /\ gi' = (gi \/ clears)
        \/ tiltInhibit' = FALSE /\ gi' = TRUE
    BY <1>8, Zenon DEF RunBonusCount, AdvancePlayer, BeginBall, ClearTilt
  <2>7. FlippersDeadOnlyOnTilt'
    <3>1. CASE UNCHANGED <<currentPlayer, tilted, tiltInhibit, gi>>
      BY <2>1, <2>4, <3>1
    <3>2. CASE /\ UNCHANGED currentPlayer
               /\ tilted' = cleared
               /\ tiltInhibit' = (tiltInhibit /\ ~clears)
               /\ gi' = (gi \/ clears)
      <4>1. tilted'[p] = (tilted[p] /\ ~clears)
        BY <2>3, <3>2, Zenon
      <4>2. tiltInhibit' \/ ~gi' => tilted'[p]
        BY <2>4, <3>2, <4>1, Zenon
      <4> QED
        BY <2>1, <3>2, <4>2, Zenon
    <3>3. CASE tiltInhibit' = FALSE /\ gi' = TRUE
      BY <3>3
    <3> QED
      BY <2>6, <3>1, <3>2, <3>3
  <2> QED
    BY <2>5, <2>7
<1>9. CASE RunGameEnding
  BY <1>9 DEF RunGameEnding, ClearTilt, EnterState
<1>10. CASE RunGameOver
  <2>1. \/ tiltInhibit' = FALSE /\ gi' = TRUE
        \/ UNCHANGED <<state, outputs>>
    BY <1>10, Zenon DEF RunGameOver, ClearTilt, phase
  <2>2. ~tiltInhibit /\ gi
    BY <1>10 DEF RunGameOver
  <2>3. ~tiltInhibit' /\ gi'
    <3>1. CASE tiltInhibit' = FALSE /\ gi' = TRUE
      BY <3>1
    <3>2. CASE UNCHANGED <<state, outputs>>
      BY <2>2, <3>2 DEF outputs
    <3> QED
      BY <2>1, <3>1, <3>2
  <2> QED
    BY <2>3, Zenon
<1> QED
  BY <1>1, <1>2, <1>3, <1>4, <1>5, <1>6, <1>7, <1>8, <1>9, <1>10 DEF RunStateMachine

\* So does every start press and every call of the rules.
LEMMA CallFlippers ==
  ASSUME TypeOK, FlippersInv, StartOrAdd \/ RulesCall
  PROVE  FlippersInv'
<1> USE DEF FlippersInv, FlippersDeadOnlyOnTilt, IsInGame, InGameStates
<1>0. currentPlayer # 0 => currentPlayer \in Players
  BY ConfigAssumption DEF TypeOK, RosterOK, Players
<1>1. CASE StartGame
  BY <1>1 DEF StartGame, BeginGame, EnterState, serving
<1>2. CASE AddPlayer
  <2>1. currentPlayer # 0 => tilted'[currentPlayer] = tilted[currentPlayer]
    <3>1. currentPlayer # playerCount + 1
      BY ConfigAssumption DEF TypeOK, RosterOK
    <3>2. tilted' = [tilted EXCEPT ![playerCount + 1] = FALSE]
      BY <1>2, Zenon DEF AddPlayer, At
    <3>3. tilted \in [Players -> BOOLEAN]
      BY DEF TypeOK, RecordsOK
    <3> QED
      BY <1>0, <3>1, <3>2, <3>3, Zenon
  <2>2. UNCHANGED <<currentPlayer, phase, outputs>>
    BY <1>2 DEF AddPlayer
  <2> QED
    BY <2>1, <2>2 DEF phase, outputs
<1>3. CASE RulesAddCredits
  BY <1>3 DEF RulesAddCredits, AddCredits, phase, roster, records, outputs
<1>4. CASE Tilt
  <2>1. currentPlayer \in Players /\ currentPlayer # 0 /\ IsInGame
    BY <1>0, <1>4 DEF Tilt, TypeOK, RosterOK
  <2>2. tilted'[currentPlayer] = TRUE
    BY <1>4, <2>1, Zenon DEF Tilt, At, TypeOK, RecordsOK
  <2>3. UNCHANGED <<state, currentPlayer>>
    BY <1>4 DEF Tilt, roster
  <2>4. IsInGame'
    BY <2>1, <2>3
  <2>5. currentPlayer' # 0 /\ tilted'[currentPlayer']
    BY <2>1, <2>2, <2>3
  <2>6. FlippersDeadOnlyOnTilt'
    BY <2>5, Zenon
  <2> HIDE DEF FlippersDeadOnlyOnTilt, IsInGame
  <2> QED
    BY <2>4, <2>6, Zenon
<1>5. CASE SlamTilt
  <2>1. currentPlayer \in Players /\ currentPlayer # 0 /\ currentPlayer \in ActivePlayers
    BY <1>0, <1>5, ConfigAssumption DEF SlamTilt, TypeOK, RosterOK, ActivePlayers
  <2>2. UNCHANGED currentPlayer /\ IsInGame'
    BY <1>5 DEF SlamTilt, roster, EnterState
  <2>3. tilted' = [q \in Players |-> tilted[q] \/ q \in ActivePlayers]
    BY <1>5, Zenon DEF SlamTilt
  <2>4. tilted'[currentPlayer]
    BY <2>1, <2>3, Zenon
  <2>5. FlippersDeadOnlyOnTilt'
    BY <2>1, <2>2, <2>4, Zenon
  <2> HIDE DEF FlippersDeadOnlyOnTilt, IsInGame
  <2> QED
    BY <2>2, <2>5, Zenon
<1>6. CASE EndBall
  BY <1>6 DEF EndBall, FinishBall, EnterState, roster, records, outputs
<1>7. CASE EndGame
  BY <1>7 DEF EndGame, EnterState, roster, outputs
<1>8. CASE ServeBall
  BY <1>8 DEF ServeBall, roster, records, outputs
<1>9. CASE BonusDone
  BY <1>9 DEF BonusDone, phase, roster, records, outputs
<1>10. ASSUME NEW p, AwardExtraBall(p) PROVE FlippersInv'
  BY <1>10 DEF AwardExtraBall, phase, roster, outputs
<1>11. ASSUME NEW p, NEW points, AddScore(points, p) \/ SetScore(points, p) PROVE FlippersInv'
  BY <1>11 DEF AddScore, SetScore, phase, roster, outputs
<1> QED
  BY <1>1, <1>2, <1>3, <1>4, <1>5, <1>6, <1>7, <1>8, <1>9, <1>10, <1>11
     DEF RulesCall, RulesStart, StartOrAdd

\* No path through tilts, slam tilts, extra balls and late players hands a player
\* who did not tilt a machine with dead flippers or dark general illumination.
THEOREM FlippersAlive == Spec => []FlippersDeadOnlyOnTilt
<1>1. Init => FlippersInv
  BY DEF Init, FlippersInv, FlippersDeadOnlyOnTilt
<1>2. TypeOK /\ FlippersInv /\ [Next]_vars => FlippersInv'
  <2> SUFFICES ASSUME TypeOK, FlippersInv, [Next]_vars PROVE FlippersInv'
    OBVIOUS
  <2>1. CASE RunStateMachine \/ StartOrAdd \/ RulesCall
    BY <2>1, PassFlippers, CallFlippers
  <2>2. CASE UNCHANGED <<state, roster, records, outputs>>
    BY <2>2 DEF FlippersInv, FlippersDeadOnlyOnTilt, IsInGame, roster, records, outputs
  <2>3. \/ RunStateMachine \/ StartOrAdd \/ RulesCall
        \/ UNCHANGED <<state, roster, records, outputs>>
    BY DEF Next, Update, Pass, UpdateTroughCount, EdgesDone, HandleStartPressed, Refused,
           HandleCoin, AddCredits, OnSwitch, Tick, vars, phase
  <2> QED
    BY <2>1, <2>2, <2>3
<1>3. FlippersInv => FlippersDeadOnlyOnTilt
  BY DEF FlippersInv
<1>4. QED
  BY <1>1, <1>2, <1>3, TypeCorrect, PTL DEF Spec

-----------------------------------------------------------------------------
(* High power                                                              *)

\* The game-on coil follows the game through every state and every way to end it.
THEOREM GameOnCorrect == Spec => []GameOnDuringGame
<1> USE DEF GameOnDuringGame, IsInGame, InGameStates, SetGameOn, EnterState
<1>1. Init => GameOnDuringGame
  BY DEF Init
<1>2. GameOnDuringGame /\ [Next]_vars => GameOnDuringGame'
  <2> SUFFICES ASSUME GameOnDuringGame, [Next]_vars PROVE GameOnDuringGame'
    OBVIOUS
  <2>1. CASE StartGame
    BY <2>1 DEF StartGame, BeginGame
  <2>2. CASE SlamTilt
    BY <2>2 DEF SlamTilt
  <2>3. CASE EndGame
    BY <2>3 DEF EndGame, outputs
  <2>4. CASE RunGameEnding
    BY <2>4 DEF RunGameEnding
  <2>5. CASE RunGameOver
    BY <2>5 DEF RunGameOver, Running, phase, outputs
  <2> DEFINE Steady == /\ UNCHANGED <<gameOn, cutShort>>
                       /\ (IsInGame /\ IsInGame') \/ UNCHANGED state
  <2>6. CASE Steady
    BY <2>6
  <2>7. CASE RunStateMachine
    <3>1. RunGameStarting \/ RunBallEnding \/ RunBonusCount => Steady
      BY DEF RunGameStarting, RunBallEnding, RunBonusCount, Running, BeginBall, AdvancePlayer,
             phase, outputs
    <3>2. RunBallStarting \/ RunBallInLane \/ RunBallInPlay \/ RunBallDraining => Steady
      BY DEF RunBallStarting, RunBallInLane, RunBallInPlay, RunBallDraining, Running, FinishBall,
             phase, outputs
    <3>3. RunAttract => Steady
      BY DEF RunAttract, phase, outputs
    <3> QED
      BY <2>4, <2>5, <2>6, <2>7, <3>1, <3>2, <3>3 DEF RunStateMachine
  <2>8. CASE RulesCall \/ HandleStartPressed
    <3>1. AddPlayer \/ Refused \/ RulesAddCredits \/ Tilt \/ EndBall => Steady
      BY DEF AddPlayer, Refused, RulesAddCredits, AddCredits, Tilt, EndBall, FinishBall, phase,
             outputs
    <3>2. ServeBall \/ BonusDone => Steady
      BY DEF ServeBall, BonusDone, phase, outputs
    <3>3. ASSUME NEW p, NEW points, AwardExtraBall(p) \/ AddScore(points, p) \/ SetScore(points, p)
          PROVE  Steady
      BY <3>3 DEF AwardExtraBall, AddScore, SetScore, phase, outputs
    <3> QED
      BY <2>1, <2>2, <2>3, <2>6, <2>8, <3>1, <3>2, <3>3
         DEF RulesCall, RulesStart, StartOrAdd, HandleStartPressed
  <2>9. CASE UNCHANGED <<state, gameOn, cutShort>>
    BY <2>9
  <2> QED
    BY <2>7, <2>8, <2>9 DEF Next, Update, Pass, UpdateTroughCount, EdgesDone, HandleCoin, AddCredits,
       OnSwitch, Tick, vars, phase, outputs
<1>3. QED
  BY <1>1, <1>2, PTL DEF Spec

-----------------------------------------------------------------------------
(* Deadlines                                                               *)

\* Every wait for a ball, for the rules or for the end of the game-over display
\* carries a deadline, for every choice of the durations.
THEOREM WaitsBounded == Spec => []WaitsAreBounded
<1> USE TimingAssumption DEF WaitsAreBounded, NoDeadline
<1>1. Init => WaitsAreBounded
  BY DEF Init
<1>2. TypeOK /\ WaitsAreBounded /\ [Next]_vars => WaitsAreBounded'
  <2> SUFFICES ASSUME TypeOK, WaitsAreBounded, [Next]_vars PROVE WaitsAreBounded'
    OBVIOUS
  <2> DEFINE Calm == \/ UNCHANGED <<state, deadline, bonusDone>>
                     \/ state' \in {"Attract", "GameStarting", "BallInPlay", "BallEnding", "GameEnding"}
                     \/ deadline' \in Nat
                     \/ UNCHANGED <<state, deadline>> /\ bonusDone'
  <2>1. CASE Calm
    BY <2>1
  <2>2. CASE RunStateMachine
    <3> USE DEF EnterState
    <3>1. RunAttract => Calm
      BY DEF RunAttract, phase, serving
    <3>2. RunGameStarting => Calm
      BY DEF RunGameStarting, BeginBall
    <3>3. RunBallStarting => Calm
      BY DEF RunBallStarting, phase
    <3>4. RunBallInLane => Calm
      BY DEF RunBallInLane, serving
    <3>5. RunBallInPlay => Calm
      BY DEF RunBallInPlay, FinishBall, phase, serving
    <3>6. RunBallDraining => Calm
      BY DEF RunBallDraining, FinishBall, phase, serving
    <3>7. RunBallEnding => WaitsAreBounded'
      <4> DEFINE skipped == tilted[currentPlayer] /\ SkipBonus
      <4> SUFFICES ASSUME RunBallEnding PROVE WaitsAreBounded'
        OBVIOUS
      <4>1. bonusDone' = skipped /\ state' = "BonusCount"
        BY Zenon DEF RunBallEnding
      <4>2. ~skipped => deadline' \in Nat
        BY DEF RunBallEnding
      <4> HIDE DEF skipped
      <4>3. bonusDone' \/ deadline' \in Nat
        BY <4>1, <4>2, Zenon
      <4> QED
        BY <4>1, <4>3
    <3>8. RunBonusCount => Calm
      BY DEF RunBonusCount, AdvancePlayer, BeginBall, phase, serving
    <3>9. RunGameEnding => Calm
      BY DEF RunGameEnding
    <3>10. RunGameOver => Calm
      BY DEF RunGameOver, phase, serving
    <3> QED
      BY <2>1, <2>2, <3>1, <3>2, <3>3, <3>4, <3>5, <3>6, <3>7, <3>8, <3>9, <3>10 DEF RunStateMachine
  <2>3. CASE RulesCall \/ HandleStartPressed
    <3>1. StartGame \/ AddPlayer \/ Refused => Calm
      BY DEF StartGame, BeginGame, EnterState, AddPlayer, Refused, phase, serving
    <3>2. RulesAddCredits \/ BonusDone \/ ServeBall \/ Tilt => Calm
      BY DEF RulesAddCredits, AddCredits, BonusDone, ServeBall, Tilt, phase, serving
    <3>3. EndBall \/ EndGame \/ SlamTilt => Calm
      BY DEF EndBall, EndGame, SlamTilt, FinishBall, EnterState
    <3>4. ASSUME NEW p, NEW points, AwardExtraBall(p) \/ AddScore(points, p) \/ SetScore(points, p)
          PROVE  Calm
      BY <3>4 DEF AwardExtraBall, AddScore, SetScore, phase, serving
    <3> QED
      BY <2>1, <2>3, <3>1, <3>2, <3>3, <3>4
         DEF RulesCall, RulesStart, StartOrAdd, HandleStartPressed
  <2>4. CASE Tick
    <3>1. deadline \in Nat => deadline' \in Nat
      BY <2>4 DEF Tick
    <3>2. deadline = -1 => deadline' = -1
      BY <2>4 DEF Tick
    <3>3. deadline \in Nat \cup {-1} /\ UNCHANGED <<state, bonusDone>>
      BY <2>4 DEF Tick, serving, TypeOK, PhaseOK
    <3> QED
      BY <3>1, <3>2, <3>3
  <2>5. CASE UNCHANGED <<phase, serving>>
    BY <2>5 DEF phase, serving
  <2> QED
    BY <2>2, <2>3, <2>4, <2>5 DEF Next, Update, Pass, UpdateTroughCount, EdgesDone, HandleCoin,
       AddCredits, OnSwitch, vars
<1>3. QED
  BY <1>1, <1>2, TypeCorrect, PTL DEF Spec

-----------------------------------------------------------------------------
(* The number of balls                                                     *)

\* BallsBounded is not inductive: the player the machine is handed to must still
\* have a ball to play, so every waiting player who is not done has one left.
BallsInv ==
  /\ BallsBounded
  /\ state = "GameStarting" => currentPlayer = 1
  /\ IsInGame => \A p \in ActivePlayers :
       p # currentPlayer /\ ~finished[p] => ball[p] < BallsPerGame

\* A player who is not done when the current ball is over can play another one.
LEMMA NextHasBall ==
  ASSUME TypeOK, BallsInv, IsInGame, NEW p \in ActivePlayers,
         p = currentPlayer => ~LastBallPlayed(p), p # currentPlayer => ~finished[p]
  PROVE  p \in Players /\ ball[p] \in Nat /\ ball[p] < BallsPerGame
<1>1. p \in Players
  BY ConfigAssumption DEF TypeOK, RosterOK, ActivePlayers, Players
<1>2. ball[p] \in Nat
  BY <1>1 DEF TypeOK, RecordsOK
<1>3. CASE p = currentPlayer
  BY <1>1, <1>2, <1>3, ConfigAssumption DEF LastBallPlayed
<1>4. CASE p # currentPlayer
  BY <1>1, <1>2, <1>4 DEF BallsInv
<1> QED
  BY <1>1, <1>2, <1>3, <1>4

\* The end of a bonus count hands the machine to a player with a ball left.
LEMMA BonusCountBalls ==
  ASSUME TypeOK, BallsInv, RunBonusCount
  PROVE  BallsInv'
<1> DEFINE done == [finished EXCEPT ![currentPlayer] = @ \/ LastBallPlayed(currentPlayer)]
           Keeps == /\ UNCHANGED <<currentPlayer, ball, finished>>
                    /\ UNCHANGED state \/ state' = "BallStarting"
           Serves(next) == /\ ~done[next]
                           /\ currentPlayer' = next /\ state' = "BallStarting"
                           /\ ball' = [ball EXCEPT ![next] = @ + 1]
           Ends == /\ \A p \in ActivePlayers : done[p]
                   /\ UNCHANGED ball /\ state' = "GameEnding"
<1>0. /\ state = "BonusCount" /\ IsInGame
      /\ currentPlayer \in Players /\ currentPlayer \in ActivePlayers
      /\ UNCHANGED playerCount
  BY ConfigAssumption
     DEF RunBonusCount, Running, IsInGame, InGameStates, TypeOK, RosterOK, ActivePlayers, Players
<1>1. \A p \in ActivePlayers :
        ~done[p] => (p = currentPlayer => ~LastBallPlayed(p)) /\ (p # currentPlayer => ~finished[p])
  <2>1. finished \in [Players -> BOOLEAN]
    BY DEF TypeOK, RecordsOK
  <2>2. ASSUME NEW p \in ActivePlayers, ~done[p]
        PROVE  (p = currentPlayer => ~LastBallPlayed(p)) /\ (p # currentPlayer => ~finished[p])
    <3>1. p \in Players
      BY ConfigAssumption DEF TypeOK, RosterOK, ActivePlayers, Players
    <3>2. CASE p = currentPlayer
      BY <2>1, <2>2, <3>1, <3>2, Zenon
    <3>3. CASE p # currentPlayer
      BY <2>1, <2>2, <3>1, <3>3, Zenon
    <3> QED
      BY <3>2, <3>3
  <2> QED
    BY <2>2
<1>2. \A p \in ActivePlayers : ~done[p] => p \in Players /\ ball[p] \in Nat /\ ball[p] < BallsPerGame
  BY <1>0, <1>1, NextHasBall, Zenon
<1>3. CASE Keeps
  BY <1>0, <1>3 DEF BallsInv, BallsBounded, IsInGame, InGameStates, ActivePlayers
<1>4. ASSUME finished' = done, NEW step \in 1 .. playerCount, Serves(Turn(step))
      PROVE  BallsInv'
  <2>1. Turn(step) \in ActivePlayers
    BY <1>0, TurnInRange DEF ActivePlayers, Players, TypeOK, RosterOK
  <2>2. /\ Turn(step) \in Players /\ ball[Turn(step)] \in Nat
        /\ ball[Turn(step)] < BallsPerGame
    BY <1>2, <1>4, <2>1
  <2> DEFINE next == Turn(step)
  <2>3. BallsBounded'
    <3> HIDE DEF next
    <3>1. ball' = [ball EXCEPT ![next] = ball[next] + 1] /\ ball \in [Players -> Nat]
      BY <1>4 DEF next, TypeOK, RecordsOK
    <3>2. next \in Players /\ ball[next] + 1 <= BallsPerGame
      BY <2>2, ConfigAssumption DEF next
    <3>3. \A p \in Players : ball'[p] = IF p = next THEN ball[next] + 1 ELSE ball[p]
      BY <3>1, <3>2
    <3> QED
      BY <3>2, <3>3 DEF BallsBounded, BallsInv
  <2>4. \A p \in ActivePlayers' :
          p # currentPlayer' /\ ~finished'[p] => ball'[p] < BallsPerGame
    <3> HIDE DEF next, done
    <3>1. ASSUME NEW p \in ActivePlayers, p # next, ~done[p] PROVE ball'[p] < BallsPerGame
      BY <1>2, <1>4, <3>1 DEF next, TypeOK, RecordsOK
    <3>2. ActivePlayers' = ActivePlayers
      BY <1>0 DEF ActivePlayers
    <3> QED
      BY <1>4, <3>1, <3>2 DEF next
  <2> QED
    BY <1>4, <2>3, <2>4 DEF BallsInv
<1>5. CASE finished' = done /\ Ends
  <2>1. \A p \in ActivePlayers' : finished'[p]
    BY <1>0, <1>5 DEF ActivePlayers
  <2> QED
    BY <1>5, <2>1 DEF BallsInv, BallsBounded
<1>6. \/ Keeps
      \/ finished' = done /\ (Ends \/ \E step \in 1 .. playerCount : Serves(Turn(step)))
  <2>1. ASSUME NEW t, NEW inhibited, NEW lit, AdvancePlayer(done, t, inhibited, lit)
        PROVE  Ends \/ \E step \in 1 .. playerCount : Serves(Turn(step))
    <3> HIDE DEF done
    <3> QED
      BY <2>1, Zenon DEF AdvancePlayer, BeginBall, EnterState
  <2>2. \/ Keeps
        \/ finished' = done /\ \E t, inhibited, lit : AdvancePlayer(done, t, inhibited, lit)
    BY Zenon DEF RunBonusCount, EnterState, phase
  <2> HIDE DEF done, Keeps, Serves, Ends
  <2> QED
    BY <2>1, <2>2, Zenon
<1> HIDE DEF done, Keeps, Serves, Ends
<1> QED
  BY <1>3, <1>4, <1>5, <1>6, Zenon

\* The only other steps that change what BallsInv reads start a game or add players.
LEMMA StartOrAddBalls ==
  ASSUME TypeOK, BallsInv, StartOrAdd
  PROVE  BallsInv'
<1> USE ConfigAssumption DEF BallsInv, BallsBounded, IsInGame, InGameStates, ActivePlayers
<1>1. CASE StartGame
  <2>1. /\ ball' = [p \in Players |-> 0] /\ playerCount' = 1 /\ currentPlayer' = 1
    BY <1>1 DEF StartGame, BeginGame
  <2>2. \A p \in Players : ball'[p] = 0
    BY <2>1
  <2>3. BallsBounded'
    BY <2>2
  <2>4. \A p \in ActivePlayers' : p = currentPlayer'
    BY <2>1
  <2> QED
    BY <2>1, <2>3, <2>4
<1>2. CASE AddPlayer
  <2> DEFINE added == playerCount + 1
  <2>1. /\ added \in Players /\ currentPlayer # added
        /\ ball \in [Players -> Nat] /\ finished \in [Players -> BOOLEAN]
    <3>1. playerCount < MaxPlayers
      BY <1>2, Zenon DEF AddPlayer
    <3>2. playerCount \in 0 .. MaxPlayers /\ currentPlayer \in 0 .. playerCount
      BY DEF TypeOK, RosterOK
    <3>3. ball \in [Players -> Nat] /\ finished \in [Players -> BOOLEAN]
      BY DEF TypeOK, RecordsOK
    <3> QED
      BY <3>1, <3>2, <3>3 DEF Players
  <2>2. \A p \in Players : /\ ball'[p] = IF p = added THEN 0 ELSE ball[p]
                           /\ p # added => finished'[p] = finished[p]
    BY <1>2, <2>1, Zenon DEF AddPlayer, At
  <2>3. UNCHANGED <<state, currentPlayer>> /\ playerCount' = added /\ playerCount \in Nat
    BY <1>2 DEF AddPlayer, phase, TypeOK, RosterOK
  <2> QED
    BY <2>1, <2>2, <2>3 DEF Players
<1> QED
  BY <1>1, <1>2 DEF StartOrAdd

\* BallsInv holds in every state: the strengthening BallsNeverExceeded rests on.
LEMMA BallsKept == Spec => []BallsInv
<1> USE ConfigAssumption DEF IsInGame, InGameStates
<1>1. Init => BallsInv
  BY DEF Init, BallsInv, BallsBounded
<1>2. TypeOK /\ BallsInv /\ [Next]_vars => BallsInv'
  <2> SUFFICES ASSUME TypeOK, BallsInv, [Next]_vars PROVE BallsInv'
    OBVIOUS
  <2> DEFINE SameTurn == /\ UNCHANGED <<roster, ball, finished>>
                         /\ state' # "GameStarting" \/ UNCHANGED state
                         /\ IsInGame' => IsInGame
  <2>1. CASE SameTurn
    BY <2>1 DEF BallsInv, BallsBounded, roster, ActivePlayers
  <2>2. CASE RunStateMachine
    <3> USE DEF EnterState, Running, records
    <3>1. RunAttract \/ RunBallStarting \/ RunBallInLane => SameTurn
      BY DEF RunAttract, RunBallStarting, RunBallInLane, phase
    <3>2. RunBallInPlay \/ RunBallDraining \/ RunBallEnding \/ RunGameEnding => SameTurn
      BY DEF RunBallInPlay, RunBallDraining, RunBallEnding, RunGameEnding, FinishBall, phase
    <3>3. RunGameStarting => BallsInv'
      BY DEF RunGameStarting, BeginBall, At, BallsInv, BallsBounded, ActivePlayers, TypeOK, RecordsOK
    <3>4. RunGameOver => BallsInv'
      BY DEF RunGameOver, BallsInv, BallsBounded, phase, roster
    <3> QED
      BY <2>1, <2>2, <3>1, <3>2, <3>3, <3>4, BonusCountBalls DEF RunStateMachine
  <2>3. CASE RulesCall \/ HandleStartPressed
    <3>1. Refused \/ RulesAddCredits \/ Tilt \/ EndBall => SameTurn
      BY DEF Refused, RulesAddCredits, AddCredits, Tilt, EndBall, FinishBall, EnterState, phase,
             records
    <3>2. ServeBall \/ BonusDone => SameTurn
      BY DEF ServeBall, BonusDone, phase, records
    <3>3. ASSUME NEW p, NEW points, AwardExtraBall(p) \/ AddScore(points, p) \/ SetScore(points, p)
          PROVE  SameTurn
      BY <3>3 DEF AwardExtraBall, AddScore, SetScore, phase
    <3>4. EndGame \/ SlamTilt => BallsInv'
      <4> SUFFICES ASSUME EndGame \/ SlamTilt PROVE BallsInv'
        OBVIOUS
      <4>1. /\ finished' = [p \in Players |-> finished[p] \/ p \in ActivePlayers]
            /\ UNCHANGED <<ball, roster>> /\ state' = "GameEnding"
        BY DEF EndGame, SlamTilt, EnterState
      <4>2. ActivePlayers' = ActivePlayers /\ ActivePlayers \subseteq Players
        BY <4>1 DEF ActivePlayers, Players, roster, TypeOK, RosterOK
      <4>3. \A p \in ActivePlayers' : finished'[p]
        BY <4>1, <4>2, Zenon
      <4> QED
        BY <4>1, <4>3 DEF BallsInv, BallsBounded
    <3> QED
      BY <2>1, <2>3, <3>1, <3>2, <3>3, <3>4, StartOrAddBalls
         DEF RulesCall, RulesStart, HandleStartPressed
  <2>4. CASE UNCHANGED <<state, roster, records>>
    BY <2>1, <2>4 DEF records
  <2> QED
    BY <2>2, <2>3, <2>4 DEF Next, Update, Pass, UpdateTroughCount, EdgesDone, HandleCoin, AddCredits,
       OnSwitch, Tick, vars, phase
<1> QED
  BY <1>1, <1>2, TypeCorrect, PTL DEF Spec

\* However extra balls, tilts, calls of the rules and late players interleave, no
\* player is ever given more balls than the game has.
THEOREM BallsNeverExceeded == Spec => []BallsBounded
<1>1. BallsInv => BallsBounded
  BY DEF BallsInv
<1> QED
  BY <1>1, BallsKept, PTL

-----------------------------------------------------------------------------
(* Drains                                                                  *)

BallIsOut == {"BallInPlay", "BallInLane"}

\* The trough has read full for the whole settle time.
SettledFull == stable >= BallCount /\ stableAge >= Settle

\* A ball in play or in the lane is out of the trough, or this Update has just
\* seen the trough settle full.
DrainInv == state \in BallIsOut => BallsOut > 0 \/ (pc # "idle" /\ SettledFull)

LEMMA DrainStep ==
  ASSUME TypeOK, DrainInv, [Next]_vars
  PROVE  /\ DrainInv'
         /\ state \in BallIsOut /\ state' = "BallDraining" => SettledFull
<1> USE ConfigAssumption DEF DrainInv, BallIsOut
<1>1. believed \in Nat /\ stable \in Nat /\ stableAge \in Nat /\ BallCount \in Nat
  BY DEF TypeOK, TroughOK
<1>2. CASE Pass
  <2>1. UNCHANGED trough /\ pc = "run"
    BY <1>2 DEF Pass, RunStateMachine, Running, RunAttract, RunGameStarting, RunBallStarting, RunBallInLane,
       RunBallInPlay, RunBallDraining, RunBallEnding, RunBonusCount, RunGameEnding, RunGameOver
  <2>2. UNCHANGED BallsOut /\ (BallsOut = 0 <=> believed >= BallCount) /\ BallsOut \in Nat
    BY <1>1, <2>1 DEF BallsOut, trough
  <2>3. state' \in BallIsOut => BallsOut > 0
    <3>1. RunBallStarting \/ RunBallInLane => (state' \in BallIsOut => BallsOut > 0)
      BY <2>2 DEF RunBallStarting, RunBallInLane, Running, EnterState, phase
    <3>2. RunBallInPlay \/ RunBallDraining => (state' \in BallIsOut => BallsOut > 0)
      BY <2>2 DEF RunBallInPlay, RunBallDraining, Running, EnterState, FinishBall, Chatter, phase
    <3>3. RunAttract \/ RunGameStarting \/ RunBallEnding \/ RunGameEnding \/ RunGameOver => state' \notin BallIsOut
      BY DEF RunAttract, RunGameStarting, RunBallEnding, RunGameEnding, RunGameOver, Running, BeginBall, EnterState,
         phase
    <3>4. RunBonusCount => state' \notin BallIsOut
      BY DEF RunBonusCount, Running, AdvancePlayer, BeginBall, EnterState, phase
    <3> QED
      BY <1>2, <3>1, <3>2, <3>3, <3>4 DEF Pass, RunStateMachine
  <2>4. state \in BallIsOut /\ state' = "BallDraining" => BallsOut = 0
    BY <1>2, <2>2 DEF Pass, RunStateMachine, Running, RunAttract, RunGameStarting, RunBallStarting, RunBallInLane,
       RunBallInPlay, RunBallDraining, RunBallEnding, RunBonusCount, RunGameEnding, RunGameOver, EnterState,
       FinishBall, phase
  <2> QED
    BY <2>2, <2>3, <2>4
<1>3. CASE UpdateTroughCount
  <2>1. /\ UNCHANGED state /\ pc = "idle" /\ pc' = "edges"
        /\ \/ UNCHANGED believed
           \/ stableAge >= Settle /\ believed' = stable /\ UNCHANGED <<stable, stableAge>>
    BY <1>3 DEF UpdateTroughCount, TroughSettled, phase
  <2>2. state \in BallIsOut => believed < BallCount
    BY <1>1, <2>1 DEF BallsOut
  <2> QED
    BY <1>1, <2>1, <2>2 DEF BallsOut, SettledFull
<1>4. CASE Tick
  <2>1. UNCHANGED <<state, believed, pc, stable>>
    BY <1>4 DEF Tick, loop
  <2>2. stableAge >= Settle => stableAge' >= Settle
    BY <1>1, <1>4, TimingAssumption DEF Tick
  <2>3. UNCHANGED BallsOut /\ (SettledFull => SettledFull')
    BY <2>1, <2>2 DEF BallsOut, SettledFull
  <2>4. DrainInv'
    BY <2>1, <2>3
  <2> QED
    BY <2>1, <2>4
<1>5. CASE UNCHANGED trough /\ (pc = "idle" \/ pc' # "idle")
           /\ (UNCHANGED state \/ state' \notin BallIsOut \cup {"BallDraining"})
  BY <1>5 DEF trough, BallsOut, SettledFull
<1>6. EdgesDone \/ HandleStartPressed \/ HandleCoin \/ RulesCall \/ OnSwitch \/ UNCHANGED vars
        => UNCHANGED trough /\ (pc = "idle" \/ pc' # "idle")
  BY DEF EdgesDone, HandleStartPressed, HandleCoin, AddCredits, RulesCall, RulesStart, RulesAddCredits, Tilt, SlamTilt,
     EndBall, EndGame, ServeBall, BonusDone, AwardExtraBall, AddScore, SetScore, OnSwitch, Rules, vars, loop
<1>7. StartOrAdd \/ Refused => UNCHANGED state \/ state' = "GameStarting"
  BY DEF StartOrAdd, StartGame, BeginGame, AddPlayer, EnterState, Refused, phase
<1>8. RulesCall => UNCHANGED state \/ state' \in {"GameStarting", "GameEnding", "BallEnding"}
  BY <1>7 DEF RulesCall, RulesStart, RulesAddCredits, AddCredits, Tilt, SlamTilt, EndBall, EndGame, ServeBall,
     BonusDone, AwardExtraBall, AddScore, SetScore, EnterState, FinishBall, phase
<1>9. EdgesDone \/ HandleStartPressed \/ HandleCoin \/ OnSwitch \/ UNCHANGED vars
        => UNCHANGED state \/ state' = "GameStarting"
  BY <1>7 DEF EdgesDone, HandleStartPressed, HandleCoin, AddCredits, OnSwitch, vars, phase
<1> QED
  BY <1>2, <1>3, <1>4, <1>5, <1>6, <1>8, <1>9 DEF Next, Update

\* UpdateTroughCount, RunStateMachine: no closure of the trough that is shorter
\* than the settle time ever ends a ball.
THEOREM DrainsAreSettled == Spec => DrainNeedsSettledTrough
<1>1. Init => DrainInv
  BY DEF Init, DrainInv, BallIsOut
<1>2. TypeOK /\ DrainInv /\ [Next]_vars
        => /\ DrainInv'
           /\ [(state \in {"BallInPlay", "BallInLane"} /\ state' = "BallDraining") =>
                 stable >= BallCount /\ stableAge >= Settle]_vars
  BY DrainStep DEF BallIsOut, SettledFull
<1> QED
  BY <1>1, <1>2, TypeCorrect, PTL DEF Spec, DrainNeedsSettledTrough

-----------------------------------------------------------------------------
(* The transition budget                                                   *)

\* The changes of state one Update can still make: while it runs, the count of
\* balls stands still and a state that was entered without a deadline waits.
Left ==
  CASE state = "Attract"      -> 0
    [] state = "GameOver"     -> 1
    [] state = "GameEnding"   -> 2
    [] state = "BonusCount"   -> 3
    [] state = "GameStarting" -> 3
    [] state = "BallEnding"   -> 4
    [] state = "BallStarting" -> IF BallsOut > 0 THEN 2 ELSE 0
    [] state = "BallInLane"   -> IF BallsOut > 0 THEN 1 ELSE 6
    [] state = "BallDraining" -> IF BallsOut > 0 THEN 1 ELSE 5
    [] state = "BallInPlay"   -> IF BallsOut > 0
                                 THEN IF deadline = NoDeadline THEN 0 ELSE 5
                                 ELSE 6

BudgetInv == IF pc = "run" THEN passes + Left <= 6 ELSE passes = 0

LEMMA LeftIsBounded ==
  ASSUME TypeOK
  PROVE  Left \in 0 .. 6
BY DEF TypeOK, PhaseOK, GameStates, InGameStates, Left

\* Every pass that changes the state uses up one of the changes.
LEMMA PassesCount ==
  ASSUME TypeOK, RunStateMachine, state' # state
  PROVE  Left' + 1 <= Left
<1>1. UNCHANGED believed
  BY DEF RunStateMachine, RunAttract, RunGameStarting, RunBallStarting, RunBallInLane, RunBallInPlay,
     RunBallDraining, RunBallEnding, RunBonusCount, RunGameEnding, RunGameOver, Running, trough
<1>2. BallsOut' = BallsOut /\ BallsOut \in Nat
  BY <1>1, ConfigAssumption DEF BallsOut, TypeOK, TroughOK
<1>3. CASE RunAttract \/ RunGameEnding \/ RunGameOver
  <2>1. \/ state = "GameEnding" /\ state' = "GameOver"
        \/ state = "GameOver" /\ state' = "Attract"
    BY <1>3 DEF RunAttract, RunGameEnding, RunGameOver, Running, EnterState, phase
  <2> QED
    BY <2>1 DEF Left
<1>4. CASE RunGameStarting
  BY <1>2, <1>4 DEF RunGameStarting, BeginBall, Running, EnterState, Left
<1>5. CASE RunBallStarting
  <2>1. BallsOut > 0 /\ state = "BallStarting"
        /\ (state' = "BallInLane" \/ (state' = "BallInPlay" /\ deadline' = NoDeadline))
    BY <1>2, <1>5 DEF RunBallStarting, Running, EnterState, phase
  <2> QED
    BY <1>2, <2>1 DEF Left
<1>6. CASE RunBallInLane
  <2>1. /\ state = "BallInLane"
        /\ \/ BallsOut = 0 /\ state' = "BallDraining"
           \/ BallsOut > 0 /\ state' = "BallInPlay" /\ deadline' = NoDeadline
    BY <1>6 DEF RunBallInLane, Running, EnterState
  <2> QED
    BY <1>2, <2>1 DEF Left
<1>7. CASE RunBallInPlay
  <2>1. /\ state = "BallInPlay"
        /\ \/ BallsOut = 0 /\ state' = "BallDraining"
           \/ BallsOut > 0 /\ state' = "BallEnding" /\ deadline # NoDeadline
    <3>1. DeadlinePassed => deadline # NoDeadline
      BY DEF DeadlinePassed, NoDeadline
    <3> QED
      BY <1>7, <3>1 DEF RunBallInPlay, Running, EnterState, FinishBall, phase
  <2> QED
    BY <1>2, <2>1 DEF Left
<1>8. CASE RunBallDraining
  <2>1. /\ state = "BallDraining"
        /\ \/ BallsOut > 0 /\ state' = "BallInPlay" /\ deadline' = NoDeadline
           \/ ~(BallsOut > 0) /\ state' = "BallEnding"
    BY <1>8 DEF RunBallDraining, Running, EnterState, FinishBall, Chatter, phase
  <2> QED
    BY <1>2, <2>1 DEF Left
<1>9. CASE RunBallEnding
  BY <1>9 DEF RunBallEnding, Running, EnterState, Left
<1>10. CASE RunBonusCount
  <2>1. state = "BonusCount" /\ state' \in {"BallStarting", "GameEnding"}
    BY <1>10 DEF RunBonusCount, AdvancePlayer, BeginBall, Running, EnterState, phase
  <2> QED
    BY <1>2, <2>1 DEF Left
<1> QED
  BY <1>3, <1>4, <1>5, <1>6, <1>7, <1>8, <1>9, <1>10 DEF RunStateMachine

LEMMA BudgetStep ==
  ASSUME TypeOK, TypeOK', BudgetInv, [Next]_vars
  PROVE  BudgetInv'
<1>0. Left \in 0 .. 6 /\ Left' \in 0 .. 6 /\ passes \in Nat /\ passes' \in Nat
  <2>1. (Left \in 0 .. 6)'
    BY LeftIsBounded, PTL
  <2> QED
    BY <2>1, LeftIsBounded DEF TypeOK, LoopOK
<1>1. CASE Pass
  <2>1. pc = "run"
    BY <1>1 DEF Pass, RunStateMachine, RunAttract, RunGameStarting, RunBallStarting, RunBallInLane,
       RunBallInPlay, RunBallDraining, RunBallEnding, RunBonusCount, RunGameEnding, RunGameOver, Running
  <2>2. CASE state' = state
    BY <1>1, <2>2 DEF Pass, BudgetInv
  <2>3. CASE state' # state
    <3>1. Left' + 1 <= Left /\ passes + Left <= 6
      BY <1>1, <2>1, <2>3, PassesCount DEF Pass, BudgetInv
    <3>2. \/ pc' = "run" /\ passes' = passes + 1
          \/ pc' = "idle" /\ passes' = 0
      BY <1>1 DEF Pass
    <3>3. PICK left \in 0 .. 6 : left = Left'
      BY <1>0, Zenon
    <3>4. left + 1 <= Left
      BY <3>1, <3>3, Zenon
    <3>5. pc' = "run" => passes' + left <= 6
      BY <1>0, <3>1, <3>2, <3>4
    <3>6. pc' = "run" => passes' + Left' <= 6
      BY <3>3, <3>5, Zenon
    <3>7. pc' # "run" => passes' = 0
      BY <3>2
    <3> QED
      BY <3>6, <3>7 DEF BudgetInv
  <2> QED
    BY <2>2, <2>3
<1>2. CASE Tick
  <2>1. /\ UNCHANGED <<pc, passes, state, believed>>
        /\ deadline = NoDeadline <=> deadline' = NoDeadline
    BY <1>2 DEF Tick, loop, NoDeadline, TypeOK, PhaseOK
  <2>2. Left' = Left
    BY <2>1 DEF Left, BallsOut
  <2> QED
    BY <2>1, <2>2 DEF BudgetInv
<1>3. CASE EdgesDone
  <2>1. passes' = 0
    BY <1>3 DEF EdgesDone, BudgetInv
  <2>2. PICK left \in 0 .. 6 : left = Left'
    BY <1>0, Zenon
  <2>3. passes' + left <= 6
    BY <2>1
  <2>4. passes' + Left' <= 6
    BY <2>2, <2>3, Zenon
  <2>5. pc' = "run"
    BY <1>3 DEF EdgesDone
  <2> QED
    BY <2>4, <2>5 DEF BudgetInv
<1>4. CASE UpdateTroughCount \/ HandleStartPressed
  BY <1>4 DEF UpdateTroughCount, HandleStartPressed, BudgetInv
<1>5. ASSUME UNCHANGED loop, pc # "run" PROVE BudgetInv'
  BY <1>5 DEF loop, BudgetInv
<1>6. CASE HandleCoin \/ OnSwitch
  BY <1>5, <1>6 DEF HandleCoin, OnSwitch
<1>7. CASE RulesCall
  <2>1. \A command : Rules(command) => UNCHANGED loop /\ pc # "run"
    BY DEF Rules
  <2> QED
    BY <1>5, <1>7, <2>1 DEF RulesCall, RulesStart, RulesAddCredits, Tilt, SlamTilt, EndBall, EndGame,
       ServeBall, BonusDone, AwardExtraBall, AddScore, SetScore
<1>8. CASE UNCHANGED vars
  <2>1. UNCHANGED <<pc, passes, state, believed, deadline>>
    BY <1>8 DEF vars, loop, phase, trough
  <2>2. Left' = Left
    BY <2>1 DEF Left, BallsOut
  <2> QED
    BY <2>1, <2>2 DEF BudgetInv
<1> QED
  BY <1>1, <1>2, <1>3, <1>4, <1>6, <1>7, <1>8 DEF Next, Update

\* GameCore::Update (GameCore.cpp, kMaxTransitionsPerUpdate): the built-in states
\* settle long before the budget for runaway rules is used up.
THEOREM UpdatesSettle == Spec => [](BudgetInv /\ BudgetSuffices)
<1>1. Init => BudgetInv
  BY DEF Init, BudgetInv
<1>2. TypeOK /\ TypeOK' /\ BudgetInv /\ [Next]_vars => BudgetInv'
  BY BudgetStep
<1>3. TypeOK /\ BudgetInv => BudgetSuffices
  BY LeftIsBounded DEF BudgetInv, BudgetSuffices, MaxTransitionsPerUpdate, TypeOK, LoopOK
<1> QED
  BY <1>1, <1>2, <1>3, TypeCorrect, PTL DEF Spec

-----------------------------------------------------------------------------
(* The turns                                                               *)

BallStates == {"BallStarting", "BallInLane", "BallInPlay", "BallDraining", "BallEnding", "BonusCount"}
EndStates == {"GameEnding", "GameOver"}
Uncut == cutShort = "no"

\* What is over is known to be over: a game that is cut short is no longer
\* played, and one that is not is ended within the Update that finds it over.
EndsKnown ==
  /\ ~Uncut => state \in EndStates \cup {"Attract"}
  /\ state = "GameEnding" /\ Uncut => pc = "run"
  /\ currentPlayer = 0 => playerCount = 0

\* A player is done when the last ball is played, and only then.
DoneIsPlayed ==
  Uncut => \A p \in ActivePlayers :
             /\ finished[p] => ball[p] >= BallsPerGame
             /\ IsInGame /\ p # currentPlayer /\ ball[p] >= BallsPerGame => finished[p]
             /\ state \in EndStates => finished[p]

AllAtZero == \A p \in ActivePlayers : ball[p] = 0

\* Up to the player at the machine everybody is at the same ball, the others are
\* one behind.
Alternate ==
  /\ currentPlayer \in ActivePlayers /\ ball[currentPlayer] >= 1
  /\ \A p \in ActivePlayers :
       ball[p] = IF p <= currentPlayer THEN ball[currentPlayer] ELSE ball[currentPlayer] - 1

Turns ==
  /\ state = "GameStarting" => currentPlayer = 1 /\ AllAtZero
  /\ AddPlayerThroughBall <= 1 /\ currentPlayer # 0 =>
       Alternate \/ (AllAtZero /\ state \notin BallStates)

TurnsInv == EndsKnown /\ DoneIsPlayed /\ Turns

\* The facts about players that TypeOK gives.
LEMMA PlayersTyped ==
  ASSUME TypeOK
  PROVE  /\ playerCount \in Nat /\ currentPlayer \in 0 .. playerCount
         /\ ActivePlayers \subseteq Players
         /\ \A p \in ActivePlayers : p \in Nat /\ ball[p] \in Nat
         /\ IsInGame => currentPlayer \in ActivePlayers
<1>1. playerCount \in 0 .. MaxPlayers /\ currentPlayer \in 0 .. playerCount /\ (IsInGame => currentPlayer # 0)
  BY DEF TypeOK, RosterOK
<1>2. ActivePlayers \subseteq Players
  BY <1>1, ConfigAssumption DEF ActivePlayers, Players
<1> QED
  BY <1>1, <1>2, ConfigAssumption DEF ActivePlayers, TypeOK, RecordsOK

\* The player after the current one.
LEMMA NextTurn ==
  ASSUME playerCount \in Nat \ {0}, currentPlayer \in 1 .. playerCount
  PROVE  Turn(1) = IF currentPlayer < playerCount THEN currentPlayer + 1 ELSE 1
<1>1. (currentPlayer - 1 + 1) = currentPlayer
  OBVIOUS
<1>2. CASE currentPlayer < playerCount
  <2>1. currentPlayer % playerCount = currentPlayer
    BY <1>2
  <2> QED
    BY <1>1, <1>2, <2>1 DEF Turn
<1>3. CASE currentPlayer = playerCount
  <2>1. currentPlayer % playerCount = 0
    BY <1>3
  <2> QED
    BY <1>1, <1>3, <2>1 DEF Turn
<1> QED
  BY <1>2, <1>3

\* Steps that leave the players alone.
Steady ==
  /\ UNCHANGED <<playerCount, currentPlayer, ball, finished, cutShort>>
  /\ state' # state => state \in BallStates /\ state' \in BallStates

LEMMA SteadyTurns ==
  ASSUME TurnsInv, Steady, state' = "GameEnding" /\ Uncut => pc' = "run"
  PROVE  TurnsInv'
<1>1. EndsKnown'
  BY DEF TurnsInv, EndsKnown, Steady, Uncut, BallStates, EndStates
<1>2. ActivePlayers' = ActivePlayers /\ (IsInGame' => IsInGame)
  BY DEF Steady, ActivePlayers, IsInGame, InGameStates, BallStates
<1>3. DoneIsPlayed'
  BY <1>2 DEF TurnsInv, DoneIsPlayed, Steady, Uncut, BallStates, EndStates
<1>4. Turns'
  BY <1>2 DEF TurnsInv, Turns, Alternate, AllAtZero, Steady, BallStates
<1> QED
  BY <1>1, <1>3, <1>4 DEF TurnsInv

\* When the bonus count is over the machine goes to the next player, who has a
\* ball to play, or to the end of the game.
LEMMA BonusCountTurns ==
  ASSUME TypeOK, BallsInv, TurnsInv, RunBonusCount, state' = "GameEnding" => pc' = "run"
  PROVE  TurnsInv'
<1> DEFINE p == currentPlayer
           done == [finished EXCEPT ![currentPlayer] = @ \/ LastBallPlayed(currentPlayer)]
           Keeps == /\ UNCHANGED <<currentPlayer, ball, finished>>
                    /\ UNCHANGED state \/ state' = "BallStarting"
           Serves(step) == /\ ~done[Turn(step)]
                           /\ \A earlier \in 1 .. (step - 1) : done[Turn(earlier)]
                           /\ currentPlayer' = Turn(step) /\ state' = "BallStarting"
                           /\ ball' = [ball EXCEPT ![Turn(step)] = @ + 1]
           Ends == /\ \A q \in ActivePlayers : done[q]
                   /\ UNCHANGED <<currentPlayer, ball>> /\ state' = "GameEnding"
<1>1. /\ state = "BonusCount" /\ IsInGame /\ UNCHANGED <<playerCount, cutShort>>
      /\ ActivePlayers' = ActivePlayers
  BY DEF RunBonusCount, Running, IsInGame, InGameStates, ActivePlayers
<1>2. Uncut /\ Uncut' /\ currentPlayer \in ActivePlayers /\ currentPlayer # 0 /\ playerCount \in Nat \ {0}
  <2>1. Uncut
    BY <1>1 DEF TurnsInv, EndsKnown, EndStates
  <2> QED
    BY <1>1, <2>1, PlayersTyped DEF Uncut, ActivePlayers
<1>3. \A q \in ActivePlayers : q \in Players /\ q \in Nat /\ ball[q] \in Nat /\ ball[q] <= BallsPerGame
  BY PlayersTyped DEF BallsInv, BallsBounded
<1>4. \A q \in ActivePlayers : done[q] <=> finished[q] \/ (q = p /\ LastBallPlayed(p))
  <2>1. finished \in [Players -> BOOLEAN]
    BY DEF TypeOK, RecordsOK
  <2>2. ASSUME NEW q \in ActivePlayers
        PROVE  done[q] <=> finished[q] \/ (q = p /\ LastBallPlayed(p))
    <3>1. q \in Players
      BY <1>3
    <3>2. CASE q = p
      BY <2>1, <3>1, <3>2, Zenon
    <3>3. CASE q # p
      BY <2>1, <3>1, <3>3, Zenon
    <3> QED
      BY <3>2, <3>3
  <2> QED
    BY <2>2
<1>5. \A q \in ActivePlayers : done[q] <=> ball[q] >= BallsPerGame
  <2>1. ASSUME NEW q \in ActivePlayers PROVE finished[q] \/ (q = p /\ LastBallPlayed(p)) <=> ball[q] >= BallsPerGame
    <3>1. /\ finished[q] => ball[q] >= BallsPerGame
          /\ q # p /\ ball[q] >= BallsPerGame => finished[q]
      BY <1>1, <1>2 DEF TurnsInv, DoneIsPlayed
    <3> QED
      BY <3>1 DEF LastBallPlayed
  <2> QED
    BY <1>4, <2>1, Zenon
<1>6. CASE Keeps
  BY <1>1, <1>6, SteadyTurns DEF Steady, BallStates
<1>7. CASE finished' = done /\ Ends
  <2>1. EndsKnown'
    BY <1>1, <1>2, <1>7 DEF EndsKnown, Uncut
  <2>2. DoneIsPlayed'
    BY <1>1, <1>5, <1>7, Zenon DEF DoneIsPlayed
  <2>3. Turns'
    <3>1. AddPlayerThroughBall <= 1 => Alternate
      BY <1>1, <1>2 DEF TurnsInv, Turns, BallStates
    <3> QED
      BY <1>1, <1>7, <3>1 DEF Turns, Alternate
  <2> QED
    BY <2>1, <2>2, <2>3 DEF TurnsInv
<1>8. ASSUME finished' = done, NEW step \in 1 .. playerCount, Serves(step) PROVE TurnsInv'
  <2> DEFINE next == Turn(step)
  <2>1. next \in ActivePlayers /\ currentPlayer' = next /\ state' = "BallStarting" /\ next # 0
    BY <1>2, <1>8, TurnInRange DEF ActivePlayers
  <2>2. ball[next] < BallsPerGame
    BY <1>3, <1>5, <1>8, <2>1, ConfigAssumption
  <2>3. \A q \in ActivePlayers : ball'[q] = IF q = next THEN ball[q] + 1 ELSE ball[q]
    <3>1. ball' = [ball EXCEPT ![next] = ball[next] + 1] /\ ball \in [Players -> Nat]
      BY <1>8 DEF TypeOK, RecordsOK
    <3> HIDE DEF next
    <3> QED
      BY <1>3, <2>1, <3>1
  <2>4. EndsKnown'
    BY <1>1, <1>2, <2>1 DEF EndsKnown, Uncut
  <2> HIDE DEF next, done
  <2>5. DoneIsPlayed'
    <3>1. ASSUME NEW q \in ActivePlayers
          PROVE  /\ done[q] => ball'[q] >= BallsPerGame
                 /\ q # next /\ ball'[q] >= BallsPerGame => done[q]
      BY <1>3, <1>5, <2>2, <2>3, <3>1, ConfigAssumption
    <3>2. state' \notin EndStates
      BY <2>1 DEF EndStates
    <3> QED
      BY <1>1, <1>8, <2>1, <3>1, <3>2, Zenon DEF DoneIsPlayed
  <2>6. Turns'
    <3>1. SUFFICES ASSUME AddPlayerThroughBall <= 1 PROVE Alternate'
      BY <2>1 DEF Turns
    <3>2. Alternate
      BY <1>1, <1>2, <3>1 DEF TurnsInv, Turns, BallStates
    <3>3. Turn(1) = IF p < playerCount THEN p + 1 ELSE 1
      BY <1>2, NextTurn DEF ActivePlayers
    <3>4. next = Turn(1)
      <4>1. SUFFICES ASSUME step # 1 PROVE FALSE
        BY DEF next
      <4>2. done[Turn(1)] /\ Turn(1) \in ActivePlayers
        <5>1. 1 \in 1 .. (step - 1)
          BY <4>1
        <5>2. Turn(1) \in ActivePlayers
          BY <1>2, TurnInRange DEF ActivePlayers
        <5> QED
          BY <1>8, <5>1, <5>2
      <4>3. ball[Turn(1)] >= BallsPerGame
        BY <1>5, <4>2
      <4>4. ~(p < playerCount)
        <5>1. SUFFICES ASSUME p < playerCount PROVE FALSE
          OBVIOUS
        <5>2. Turn(1) = p + 1
          BY <3>3, <5>1
        <5>3. ball[p + 1] = ball[p] - 1 /\ ball[p] <= BallsPerGame
          BY <1>2, <1>3, <3>2, <4>2, <5>2 DEF Alternate
        <5> QED
          BY <1>2, <1>3, <4>3, <5>2, <5>3, ConfigAssumption
      <4>5. p = playerCount /\ Turn(1) = 1
        BY <1>2, <3>3, <4>4 DEF ActivePlayers
      <4>6. ball[next] = ball[1]
        BY <1>2, <2>1, <3>2, <4>2, <4>5 DEF Alternate, ActivePlayers
      <4> QED
        BY <2>2, <4>3, <4>5, <4>6, <1>3, <4>2, ConfigAssumption
    <3>5. CASE p < playerCount
      <4>1. next = p + 1 /\ ball[next] = ball[p] - 1
        BY <1>2, <1>3, <2>1, <3>2, <3>3, <3>4, <3>5 DEF Alternate
      <4>2. ball'[next] = ball[p] /\ p \in Nat /\ ball[p] \in Nat
        BY <1>2, <1>3, <2>1, <2>3, <4>1
      <4>3. ASSUME NEW q \in ActivePlayers
            PROVE  ball'[q] = IF q <= next THEN ball[p] ELSE ball[p] - 1
        <5>1. q \in Nat /\ ball[q] = IF q <= p THEN ball[p] ELSE ball[p] - 1
          BY <1>3, <3>2 DEF Alternate
        <5>2. CASE q = next
          BY <4>2, <5>2, <5>1, <4>1
        <5>3. CASE q # next
          <6>1. ball'[q] = ball[q] /\ (q <= next <=> q <= p)
            BY <2>3, <4>1, <4>2, <5>1, <5>3
          <6> QED
            BY <5>1, <6>1
        <5> QED
          BY <5>2, <5>3
      <4>4. ball[p] >= 1
        BY <3>2 DEF Alternate
      <4>5. \A q \in ActivePlayers' :
              ball'[q] = IF q <= currentPlayer' THEN ball'[currentPlayer'] ELSE ball'[currentPlayer'] - 1
        BY <1>1, <2>1, <4>2, <4>3, Zenon
      <4>6. currentPlayer' \in ActivePlayers' /\ ball'[currentPlayer'] >= 1
        BY <1>1, <2>1, <4>2, <4>4, Zenon
      <4> QED
        BY <4>5, <4>6, Zenon DEF Alternate
    <3>6. CASE ~(p < playerCount)
      <4>1. next = 1 /\ p = playerCount
        BY <1>2, <3>3, <3>4, <3>6 DEF ActivePlayers
      <4>2. \A q \in ActivePlayers : q <= p /\ ball[q] = ball[p] /\ (q <= 1 => q = 1)
        BY <1>2, <3>2, <4>1 DEF Alternate, ActivePlayers
      <4>3. ball'[next] = ball[p] + 1 /\ ball[p] \in Nat
        BY <1>2, <1>3, <2>1, <2>3, <4>2
      <4>4. ASSUME NEW q \in ActivePlayers
            PROVE  ball'[q] = IF q <= next THEN ball'[next] ELSE ball'[next] - 1
        <5>1. q \in Nat /\ ball[q] = ball[p] /\ (q <= next => q = next)
          BY <1>3, <4>1, <4>2
        <5>2. CASE q = next
          BY <5>1, <5>2
        <5>3. CASE q # next
          <6>1. ball'[q] = ball[p] /\ ~(q <= next)
            BY <2>3, <5>1, <5>3
          <6>2. PICK n : n = ball'[next]
            OBVIOUS
          <6>3. n - 1 = ball[p]
            BY <4>3, <6>2
          <6> QED
            BY <6>1, <6>2, <6>3, Zenon
        <5> QED
          BY <5>2, <5>3
      <4>5. \A q \in ActivePlayers' :
              ball'[q] = IF q <= currentPlayer' THEN ball'[currentPlayer'] ELSE ball'[currentPlayer'] - 1
        BY <1>1, <2>1, <4>4, Zenon
      <4>6. currentPlayer' \in ActivePlayers' /\ ball'[currentPlayer'] >= 1
        BY <1>1, <2>1, <4>3
      <4> QED
        BY <4>5, <4>6, Zenon DEF Alternate
    <3> QED
      BY <3>5, <3>6
  <2> QED
    BY <2>4, <2>5, <2>6 DEF TurnsInv
<1>9. \/ Keeps
      \/ finished' = done /\ (Ends \/ \E step \in 1 .. playerCount : Serves(step))
  <2>1. ASSUME NEW t, NEW inhibited, NEW lit, AdvancePlayer(done, t, inhibited, lit)
        PROVE  Ends \/ \E step \in 1 .. playerCount : Serves(step)
    <3> HIDE DEF done
    <3> QED
      BY <2>1, Zenon DEF AdvancePlayer, BeginBall, EnterState
  <2>2. \/ Keeps
        \/ finished' = done /\ \E t, inhibited, lit : AdvancePlayer(done, t, inhibited, lit)
    BY Zenon DEF RunBonusCount, EnterState, phase
  <2> HIDE DEF done, Keeps, Serves, Ends
  <2> QED
    BY <2>1, <2>2, Zenon
<1> HIDE DEF done, Keeps, Serves, Ends
<1> QED
  BY <1>6, <1>7, <1>8, <1>9, Zenon

\* The first ball of a game is the first player's.
LEMMA GameStartingTurns ==
  ASSUME TypeOK, TurnsInv, RunGameStarting
  PROVE  TurnsInv'
<1>1. /\ state = "GameStarting" /\ IsInGame /\ state' = "BallStarting" /\ currentPlayer' = 1
      /\ UNCHANGED <<playerCount, finished, cutShort>> /\ ActivePlayers' = ActivePlayers
  BY DEF RunGameStarting, Running, BeginBall, EnterState, IsInGame, InGameStates, ActivePlayers
<1>2. Uncut /\ currentPlayer = 1 /\ AllAtZero /\ 1 \in ActivePlayers
  <2>1. currentPlayer = 1 /\ AllAtZero
    BY <1>1 DEF TurnsInv, Turns
  <2> QED
    BY <1>1, <2>1, PlayersTyped DEF TurnsInv, EndsKnown, EndStates
<1>3. \A p \in ActivePlayers : p \in Nat /\ ball'[p] = IF p = 1 THEN 1 ELSE 0
  <2>1. ball' = [ball EXCEPT ![1] = 1] /\ ball \in [Players -> Nat]
    BY DEF RunGameStarting, At, TypeOK, RecordsOK
  <2> QED
    BY <1>2, <2>1, PlayersTyped DEF AllAtZero
<1>4. EndsKnown'
  BY <1>1, <1>2 DEF EndsKnown, Uncut
<1>5. DoneIsPlayed'
  <2>1. \A p \in ActivePlayers : ~finished[p]
    BY <1>2, ConfigAssumption DEF TurnsInv, DoneIsPlayed, AllAtZero
  <2>2. \A p \in ActivePlayers : p # 1 => ~(ball'[p] >= BallsPerGame)
    BY <1>3, ConfigAssumption
  <2>3. state' \notin EndStates
    BY <1>1 DEF EndStates
  <2> QED
    BY <1>1, <2>1, <2>2, <2>3, Zenon DEF DoneIsPlayed
<1>6. Turns'
  <2>1. ball'[1] = 1
    BY <1>2, <1>3
  <2>2. \A p \in ActivePlayers : ball'[p] = IF p <= 1 THEN 1 ELSE 1 - 1
    BY <1>3 DEF ActivePlayers
  <2>3. Alternate'
    <3>1. \A p \in ActivePlayers' :
            ball'[p] = IF p <= currentPlayer' THEN ball'[currentPlayer'] ELSE ball'[currentPlayer'] - 1
      BY <1>1, <2>1, <2>2, Zenon
    <3>2. currentPlayer' \in ActivePlayers' /\ ball'[currentPlayer'] >= 1
      BY <1>1, <1>2, <2>1
    <3> QED
      BY <3>1, <3>2, Zenon DEF Alternate
  <2> QED
    BY <1>1, <2>3 DEF Turns
<1> QED
  BY <1>4, <1>5, <1>6 DEF TurnsInv

\* The end of a game and the return to attract.
LEMMA GameOverTurns ==
  ASSUME TypeOK, TurnsInv, RunGameEnding \/ RunGameOver
  PROVE  TurnsInv'
<1> DEFINE Over == /\ state = "GameEnding" /\ state' = "GameOver"
                   /\ UNCHANGED <<playerCount, currentPlayer, ball, finished, cutShort>>
           Attracts == /\ state' = "Attract" /\ playerCount' = 0 /\ currentPlayer' = 0
<1>1. Over \/ Attracts \/ (Steady /\ state = "GameOver" /\ state' = "GameOver")
  BY DEF RunGameEnding, RunGameOver, Running, EnterState, phase, roster, records, Steady
<1>2. CASE Over
  <2>1. ActivePlayers' = ActivePlayers
    BY <1>2 DEF ActivePlayers
  <2>2. EndsKnown'
    BY <1>2 DEF TurnsInv, EndsKnown, EndStates, Uncut
  <2>3. DoneIsPlayed'
    BY <1>2, <2>1 DEF TurnsInv, DoneIsPlayed, EndStates, Uncut, IsInGame, InGameStates
  <2>4. Turns'
    BY <1>2, <2>1 DEF TurnsInv, Turns, Alternate, AllAtZero, BallStates
  <2> QED
    BY <2>2, <2>3, <2>4 DEF TurnsInv
<1>3. CASE Attracts
  <2>1. ActivePlayers' = {}
    BY <1>3 DEF ActivePlayers
  <2> QED
    BY <1>3, <2>1 DEF TurnsInv, EndsKnown, DoneIsPlayed, Turns
<1>4. CASE Steady /\ state = "GameOver" /\ state' = "GameOver"
  BY <1>4, SteadyTurns
<1> QED
  BY <1>1, <1>2, <1>3, <1>4

\* A new game starts with nobody having played.
LEMMA StartTurns ==
  ASSUME TypeOK, StartGame
  PROVE  TurnsInv'
<1>1. /\ state' = "GameStarting" /\ playerCount' = 1 /\ currentPlayer' = 1 /\ Uncut'
      /\ ball' = [p \in Players |-> 0] /\ finished' = [p \in Players |-> FALSE]
  BY DEF StartGame, BeginGame, EnterState, Uncut
<1>2. 1 \in Players /\ ActivePlayers' = {1}
  BY <1>1, ConfigAssumption DEF ActivePlayers, Players
<1>3. ball'[1] = 0 /\ ~finished'[1]
  BY <1>1, <1>2
<1>4. EndsKnown'
  BY <1>1 DEF EndsKnown
<1>5. DoneIsPlayed'
  BY <1>1, <1>2, <1>3, ConfigAssumption DEF DoneIsPlayed, EndStates
<1>6. Turns'
  BY <1>1, <1>2, <1>3 DEF Turns, AllAtZero, BallStates
<1> QED
  BY <1>4, <1>5, <1>6 DEF TurnsInv

\* A player who joins has no ball played, as everybody behind the current player
\* while the first ball lasts; nobody joins a game that has ended on its own.
LEMMA AddTurns ==
  ASSUME TypeOK, TurnsInv, AddPlayer, pc # "run"
  PROVE  TurnsInv'
<1> DEFINE added == playerCount + 1
<1>1. /\ added \in Players /\ currentPlayer # added /\ playerCount \in Nat
      /\ ball \in [Players -> Nat] /\ finished \in [Players -> BOOLEAN]
  <2>1. playerCount < MaxPlayers
    BY Zenon DEF AddPlayer
  <2>2. playerCount \in 0 .. MaxPlayers /\ currentPlayer \in 0 .. playerCount
    BY DEF TypeOK, RosterOK
  <2>3. ball \in [Players -> Nat] /\ finished \in [Players -> BOOLEAN]
    BY DEF TypeOK, RecordsOK
  <2> QED
    BY <2>1, <2>2, <2>3, ConfigAssumption DEF Players
<1>2. IsInGame /\ UNCHANGED <<state, currentPlayer, cutShort>> /\ playerCount' = added
      /\ (currentPlayer # 0 => ball[currentPlayer] <= AddPlayerThroughBall)
  BY Zenon DEF AddPlayer, phase
<1>3. currentPlayer \in ActivePlayers /\ currentPlayer # 0 /\ (IsInGame' <=> IsInGame)
  BY <1>2, PlayersTyped DEF ActivePlayers, IsInGame
<1>4. /\ \A p \in ActivePlayers : p \in Players /\ ball'[p] = ball[p] /\ finished'[p] = finished[p]
                                  /\ p < added /\ p \in Nat
      /\ ball'[added] = 0 /\ ~finished'[added]
      /\ \A p \in ActivePlayers' : p \in ActivePlayers \/ p = added
      /\ ActivePlayers \subseteq ActivePlayers'
  <2>1. ball' = [ball EXCEPT ![added] = 0] /\ finished' = [finished EXCEPT ![added] = FALSE]
    BY DEF AddPlayer, At
  <2>2. \A p \in Players : /\ ball'[p] = IF p = added THEN 0 ELSE ball[p]
                           /\ finished'[p] = IF p = added THEN FALSE ELSE finished[p]
    BY <1>1, <2>1, Zenon
  <2>3. \A p \in ActivePlayers : p \in Players /\ p < added /\ p \in Nat /\ p # added
    BY <1>1, PlayersTyped DEF ActivePlayers
  <2>4. \A p \in ActivePlayers' : p \in ActivePlayers \/ p = added
    BY <1>1, <1>2 DEF ActivePlayers
  <2>5. ActivePlayers \subseteq ActivePlayers'
    BY <1>1, <1>2 DEF ActivePlayers
  <2> HIDE DEF added
  <2>6. \A p \in ActivePlayers : ball'[p] = ball[p] /\ finished'[p] = finished[p]
    BY <2>2, <2>3, Zenon
  <2>7. ball'[added] = 0 /\ ~finished'[added]
    BY <1>1, <2>2, Zenon
  <2> QED
    BY <2>3, <2>4, <2>5, <2>6, <2>7, Zenon
<1> HIDE DEF added
<1>5. EndsKnown'
  BY <1>2, <1>3 DEF TurnsInv, EndsKnown, Uncut
<1>6. DoneIsPlayed'
  <2>1. SUFFICES ASSUME Uncut' PROVE DoneIsPlayed'
    BY DEF DoneIsPlayed
  <2>2. Uncut /\ state' = state /\ state \notin EndStates
    BY <1>2, <2>1 DEF TurnsInv, EndsKnown, Uncut, EndStates, IsInGame, InGameStates
  <2>3. ASSUME NEW p \in ActivePlayers'
        PROVE  /\ finished'[p] => ball'[p] >= BallsPerGame
               /\ IsInGame' /\ p # currentPlayer' /\ ball'[p] >= BallsPerGame => finished'[p]
    <3>1. CASE p \in ActivePlayers
      <4>1. ball'[p] = ball[p] /\ finished'[p] = finished[p] /\ currentPlayer' = currentPlayer
        BY <1>2, <1>4, <3>1
      <4>2. /\ finished[p] => ball[p] >= BallsPerGame
            /\ IsInGame /\ p # currentPlayer /\ ball[p] >= BallsPerGame => finished[p]
        BY <2>2, <3>1 DEF TurnsInv, DoneIsPlayed
      <4> QED
        BY <1>3, <4>1, <4>2, Zenon
    <3>2. CASE p = added
      <4>1. ~(ball'[p] >= BallsPerGame)
        BY <1>4, <3>2, ConfigAssumption
      <4> QED
        BY <1>4, <3>2, <4>1, Zenon
    <3> QED
      BY <1>4, <2>3, <3>1, <3>2
  <2> QED
    BY <2>2, <2>3, Zenon DEF DoneIsPlayed
<1>7. Turns'
  <2>1. ASSUME AllAtZero PROVE AllAtZero'
    <3>1. ASSUME NEW p \in ActivePlayers' PROVE ball'[p] = 0
      <4>1. CASE p \in ActivePlayers
        <5>1. ball[p] = 0
          BY <2>1, <4>1 DEF AllAtZero
        <5>2. ball'[p] = ball[p]
          BY <1>4, <4>1
        <5> QED
          BY <5>1, <5>2
      <4>2. CASE p = added
        BY <1>4, <4>2, Zenon
      <4> QED
        BY <1>4, <3>1, <4>1, <4>2, Zenon
    <3> QED
      BY <3>1 DEF AllAtZero
  <2>2. ASSUME AddPlayerThroughBall <= 1, Alternate PROVE Alternate'
    <3>1. ball[currentPlayer] = 1
      BY <1>1, <1>2, <1>3, <1>4, <2>2, ConfigAssumption DEF Alternate
    <3>2. currentPlayer < added /\ currentPlayer \in Nat /\ ball'[currentPlayer] = 1
      BY <1>3, <1>4, <3>1
    <3>3. ASSUME NEW p \in ActivePlayers'
          PROVE  ball'[p] = IF p <= currentPlayer THEN 1 ELSE 1 - 1
      <4>1. CASE p \in ActivePlayers
        <5>1. ball[p] = IF p <= currentPlayer THEN 1 ELSE 1 - 1
          BY <2>2, <3>1, <4>1, Zenon DEF Alternate
        <5> QED
          BY <1>4, <4>1, <5>1, Zenon
      <4>2. CASE p = added
        BY <1>1, <1>4, <3>2, <4>2 DEF added
      <4> QED
        BY <1>4, <3>3, <4>1, <4>2
    <3>4. \A p \in ActivePlayers' :
            ball'[p] = IF p <= currentPlayer' THEN ball'[currentPlayer'] ELSE ball'[currentPlayer'] - 1
      BY <1>2, <3>2, <3>3, Zenon
    <3>5. currentPlayer' \in ActivePlayers' /\ ball'[currentPlayer'] >= 1
      BY <1>2, <1>3, <1>4, <3>2
    <3> QED
      BY <3>4, <3>5, Zenon DEF Alternate
  <2> QED
    BY <1>2, <1>3, <2>1, <2>2 DEF TurnsInv, Turns
<1> QED
  BY <1>5, <1>6, <1>7 DEF TurnsInv

\* A game that is cut short keeps its turns.
LEMMA CutTurns ==
  ASSUME TypeOK, TurnsInv, EndGame \/ SlamTilt
  PROVE  TurnsInv'
<1>1. /\ IsInGame /\ state' = "GameEnding" /\ ~Uncut'
      /\ UNCHANGED <<playerCount, currentPlayer, ball>> /\ ActivePlayers' = ActivePlayers
  BY DEF EndGame, SlamTilt, EnterState, roster, Uncut, ActivePlayers, TypeOK, CountersOK
<1>2. currentPlayer # 0
  BY <1>1 DEF TypeOK, RosterOK
<1>3. EndsKnown'
  BY <1>1, <1>2 DEF EndsKnown, EndStates
<1>4. DoneIsPlayed'
  BY <1>1 DEF DoneIsPlayed
<1>5. Turns'
  BY <1>1 DEF TurnsInv, Turns, Alternate, AllAtZero, BallStates
<1> QED
  BY <1>3, <1>4, <1>5 DEF TurnsInv

LEMMA TurnsStep ==
  ASSUME TypeOK, BallsInv, BudgetInv, TurnsInv, [Next]_vars
  PROVE  TurnsInv'
<1>1. CASE Steady /\ (pc = "run" => pc' = "run" \/ state' # "GameEnding")
  <2>1. state' = "GameEnding" => state = "GameEnding"
    BY <1>1 DEF Steady, BallStates
  <2>2. state' = "GameEnding" /\ Uncut => pc' = "run"
    BY <1>1, <2>1 DEF TurnsInv, EndsKnown
  <2> QED
    BY <1>1, <2>2, SteadyTurns
<1>2. CASE Pass
  <2>1. pc = "run"
    BY <1>2 DEF Pass, RunStateMachine, RunAttract, RunGameStarting, RunBallStarting, RunBallInLane,
       RunBallInPlay, RunBallDraining, RunBallEnding, RunBonusCount, RunGameEnding, RunGameOver, Running
  <2>2. state' # state => pc' = "run"
    <3>1. passes + 1 # 16
      <4>1. PICK left \in 0 .. 6 : left = Left
        BY LeftIsBounded, Zenon
      <4>2. passes + left <= 6 /\ passes \in Nat
        BY <2>1, <4>1 DEF BudgetInv, TypeOK, LoopOK
      <4> QED
        BY <4>2
    <3> QED
      BY <1>2, <3>1 DEF Pass, MaxTransitionsPerUpdate
  <2> USE DEF Running, EnterState, Steady, BallStates
  <2>3. ASSUME Steady, state # "GameEnding" PROVE TurnsInv'
    BY <1>1, <2>3
  <2>4. RunAttract \/ RunBallStarting \/ RunBallInLane => Steady /\ state # "GameEnding"
    BY DEF RunAttract, RunBallStarting, RunBallInLane, phase, roster, records
  <2>5. RunBallInPlay \/ RunBallDraining \/ RunBallEnding => Steady /\ state # "GameEnding"
    BY DEF RunBallInPlay, RunBallDraining, RunBallEnding, FinishBall, phase, roster, records
  <2>6. RunBonusCount => (state' = "GameEnding" => pc' = "run")
    BY <2>2 DEF RunBonusCount
  <2> QED
    BY <1>2, <2>3, <2>4, <2>5, <2>6, GameStartingTurns, GameOverTurns, BonusCountTurns
       DEF Pass, RunStateMachine
<1>3. CASE HandleStartPressed
  <2>1. pc # "run"
    BY <1>3 DEF HandleStartPressed
  <2>2. Refused => Steady
    BY DEF Refused, Steady, phase, roster, records
  <2> QED
    BY <1>1, <1>3, <2>1, <2>2, StartTurns, AddTurns DEF HandleStartPressed, StartOrAdd
<1>4. CASE RulesCall
  <2> USE DEF Steady, Rules
  <2>1. pc # "run"
    BY <1>4 DEF RulesCall, RulesStart, RulesAddCredits, Tilt, SlamTilt, EndBall, EndGame, ServeBall,
       BonusDone, AwardExtraBall, AddScore, SetScore
  <2>2. RulesStart => TurnsInv'
    BY <2>1, StartTurns, AddTurns DEF RulesStart, StartOrAdd
  <2>3. RulesAddCredits \/ Tilt \/ EndBall => Steady
    BY DEF RulesAddCredits, AddCredits, Tilt, EndBall, FinishBall, EnterState, phase, roster, records,
       BallStates
  <2>4. ServeBall \/ BonusDone => Steady
    BY DEF ServeBall, BonusDone, phase, roster, records
  <2>5. ASSUME NEW p, NEW points, AwardExtraBall(p) \/ AddScore(points, p) \/ SetScore(points, p)
        PROVE  Steady
    BY <2>5 DEF AwardExtraBall, AddScore, SetScore, phase, roster
  <2> QED
    BY <1>1, <1>4, <2>1, <2>2, <2>3, <2>4, <2>5, CutTurns DEF RulesCall
<1>5. CASE UpdateTroughCount \/ EdgesDone \/ HandleCoin \/ OnSwitch \/ Tick \/ UNCHANGED vars
  <2>1. Steady
    BY <1>5 DEF Steady, UpdateTroughCount, EdgesDone, HandleCoin, AddCredits, OnSwitch, Tick, vars,
       phase, roster, records
  <2>2. pc = "run" => pc' = "run"
    BY <1>5 DEF UpdateTroughCount, EdgesDone, HandleCoin, OnSwitch, Tick, vars, loop
  <2> QED
    BY <1>1, <2>1, <2>2
<1> QED
  BY <1>2, <1>3, <1>4, <1>5 DEF Next, Update

\* Two players of a game in which nobody joins after ball one are at the same
\* ball, or the one who plays first is one ball ahead.
LEMMA TurnsGiveOrder ==
  ASSUME TypeOK, TurnsInv
  PROVE  TurnOrder
<1> SUFFICES ASSUME AddPlayerThroughBall <= 1, NEW i \in ActivePlayers, NEW j \in ActivePlayers, i < j
             PROVE  ball[i] \in {ball[j], ball[j] + 1}
  BY DEF TurnOrder
<1>1. i \in Nat /\ j \in Nat /\ ball[i] \in Nat /\ ball[j] \in Nat /\ currentPlayer \in Nat
  BY PlayersTyped
<1>2. currentPlayer # 0
  BY <1>1, PlayersTyped DEF TurnsInv, EndsKnown, ActivePlayers
<1>3. CASE AllAtZero
  BY <1>3 DEF AllAtZero
<1>4. CASE Alternate
  <2>1. PICK n \in Nat : n = ball[currentPlayer]
    BY <1>4, PlayersTyped DEF Alternate
  <2>2. /\ ball[i] = IF i <= currentPlayer THEN n ELSE n - 1
        /\ ball[j] = IF j <= currentPlayer THEN n ELSE n - 1
    BY <1>4, <2>1, Zenon DEF Alternate
  <2> QED
    BY <1>1, <2>1, <2>2
<1> QED
  BY <1>2, <1>3, <1>4 DEF TurnsInv, Turns

\* The turns of a game (AdvancePlayer, BonusCount, AddPlayer in GameCore.cpp): for
\* every number of players and balls and whatever the rules do, players alternate,
\* a game nothing cuts short ends when all have played every ball, and no Update
\* runs out of transitions on the way.
THEOREM TurnsAreKept == Spec => []TurnsInOrder
<1>1. Init => TurnsInv
  <2> SUFFICES ASSUME Init PROVE TurnsInv
    OBVIOUS
  <2>1. ActivePlayers = {} /\ state = "Attract" /\ currentPlayer = 0 /\ playerCount = 0 /\ Uncut
    BY DEF Init, ActivePlayers, Uncut
  <2> QED
    BY <2>1 DEF TurnsInv, EndsKnown, DoneIsPlayed, Turns
<1>2. TypeOK /\ BallsInv /\ BudgetInv /\ TurnsInv /\ [Next]_vars => TurnsInv'
  BY TurnsStep
<1>3. TypeOK /\ BallsInv /\ TurnsInv => TurnOrder /\ AllPlayedOut
  <2> SUFFICES ASSUME TypeOK, BallsInv, TurnsInv PROVE AllPlayedOut
    BY TurnsGiveOrder
  <2> SUFFICES ASSUME state \in EndStates, Uncut, NEW p \in ActivePlayers
               PROVE  finished[p] /\ ball[p] = BallsPerGame
    BY DEF AllPlayedOut, EndStates, Uncut
  <2>1. finished[p] /\ ball[p] >= BallsPerGame
    BY DEF TurnsInv, DoneIsPlayed
  <2>2. ball[p] <= BallsPerGame /\ ball[p] \in Nat
    BY PlayersTyped DEF BallsInv, BallsBounded
  <2> QED
    BY <2>1, <2>2, ConfigAssumption
<1>4. TurnOrder /\ AllPlayedOut /\ BudgetSuffices => TurnsInOrder
  BY DEF TurnsInOrder
<1> QED
  BY <1>1, <1>2, <1>3, <1>4, TypeCorrect, BallsKept, UpdatesSettle, PTL DEF Spec

-----------------------------------------------------------------------------
(* Replays                                                                 *)

\* The thresholds that a score has reached from the first one on are awarded;
\* for all players that there may be, since those who join start from nothing.
Awarded(p) ==
  \A n \in 1 .. Len(Thresholds) :
    (\A k \in 1 .. n : score[p] >= Thresholds[k]) => replaysAwarded[p] >= n

ReplayInv == \A p \in Players : Awarded(p)

\* Nobody has reached a threshold with a score of zero.
LEMMA ZeroAwardsNothing ==
  ASSUME \A k \in 1 .. Len(Thresholds) : Thresholds[k] > 0, NEW p, score[p] = 0
  PROVE  Awarded(p)
<1> SUFFICES ASSUME NEW n \in 1 .. Len(Thresholds), \A k \in 1 .. n : score[p] >= Thresholds[k]
             PROVE  FALSE
  BY DEF Awarded
<1>1. Len(Thresholds) \in Nat /\ Thresholds[1] \in Nat
  BY ScoreAssumption
<1>2. 1 \in 1 .. n /\ 1 \in 1 .. Len(Thresholds)
  BY <1>1
<1> QED
  BY <1>1, <1>2

\* Points leave the player who gets them with everything awarded.
LEMMA PointsAward ==
  ASSUME TypeOK, TypeOK', ReplayInv, NEW points \in Points, NEW p \in ActivePlayers, AddScore(points, p)
  PROVE  ReplayInv'
<1>1. p \in Players /\ score \in [Players -> Nat] /\ replaysAwarded \in [Players -> 0 .. Len(Thresholds)]
  BY PlayersTyped DEF TypeOK, RecordsOK
<1> DEFINE total == (IF score[p] + points < 0 THEN 0 ELSE score[p] + points) % ScoreCeiling
<1>2. PICK n \in replaysAwarded[p] .. Len(Thresholds) :
        /\ score' = [score EXCEPT ![p] = total]
        /\ AwardsUpTo(p, total, n)
        /\ replaysAwarded' = [replaysAwarded EXCEPT ![p] = n]
  BY DEF AddScore, At
<1> HIDE DEF total
<1>3. /\ \A q \in Players : q # p => score'[q] = score[q] /\ replaysAwarded'[q] = replaysAwarded[q]
      /\ score'[p] = total /\ replaysAwarded'[p] = n
  BY <1>1, <1>2, Zenon
<1>4. ASSUME NEW q \in Players, NEW m \in 1 .. Len(Thresholds),
             \A k \in 1 .. m : score'[q] >= Thresholds[k]
      PROVE  replaysAwarded'[q] >= m
  <2>1. CASE q # p
    BY <1>3, <1>4, <2>1 DEF ReplayInv, Awarded
  <2>2. CASE q = p
    <3>1. n \in Nat /\ m \in Nat /\ n <= Len(Thresholds) /\ Len(Thresholds) \in Nat
          /\ m <= Len(Thresholds)
      BY <1>1, <1>2, ScoreAssumption
    <3>2. SUFFICES ASSUME ~(n >= m) PROVE FALSE
      BY <1>3, <2>2, Zenon
    <3>3. n + 1 \in 1 .. m /\ n < Len(Thresholds) /\ n + 1 \in 1 .. Len(Thresholds)
      BY <3>1, <3>2
    <3>4. total < Thresholds[n + 1]
      BY <1>2, <3>3 DEF AwardsUpTo
    <3>5. total >= Thresholds[n + 1]
      BY <1>3, <1>4, <2>2, <3>3, Zenon
    <3>6. total \in Nat /\ Thresholds[n + 1] \in Nat
      <4>1. score' \in [Players -> Nat] /\ score'[p] = total
        BY <1>3, Zenon DEF TypeOK, RecordsOK
      <4>2. total \in Nat
        BY <1>1, <4>1, Zenon
      <4> QED
        BY <3>3, <4>2, ScoreAssumption
    <3> QED
      BY <3>4, <3>5, <3>6
  <2> QED
    BY <2>1, <2>2
<1> QED
  BY <1>4 DEF ReplayInv, Awarded

LEMMA ReplayStep ==
  ASSUME \A k \in 1 .. Len(Thresholds) : Thresholds[k] > 0, "setScore" \notin Commands,
         TypeOK, TypeOK', ReplayInv, [Next]_vars
  PROVE  ReplayInv'
<1> DEFINE Same == UNCHANGED <<score, replaysAwarded>>
<1>1. CASE Same
  BY <1>1 DEF ReplayInv, Awarded
<1>2. CASE StartOrAdd
  <2>1. score \in [Players -> Nat] /\ replaysAwarded \in [Players -> 0 .. Len(Thresholds)]
    BY DEF TypeOK, RecordsOK
  <2>2. ASSUME NEW p \in Players PROVE score'[p] = 0 \/ (score'[p] = score[p] /\ replaysAwarded'[p] = replaysAwarded[p])
    <3>1. CASE StartGame
      <4>1. score' = [q \in Players |-> 0]
        BY <3>1, Zenon DEF StartGame, BeginGame
      <4> QED
        BY <4>1
    <3>2. CASE AddPlayer
      <4>1. /\ score' = [score EXCEPT ![playerCount + 1] = 0]
            /\ replaysAwarded' = [replaysAwarded EXCEPT ![playerCount + 1] = 0]
        BY <3>2, Zenon DEF AddPlayer, At
      <4>2. CASE p = playerCount + 1
        BY <2>1, <4>1, <4>2, Zenon
      <4>3. CASE p # playerCount + 1
        BY <2>1, <4>1, <4>3, Zenon
      <4> QED
        BY <4>2, <4>3
    <3> QED
      BY <1>2, <3>1, <3>2 DEF StartOrAdd
  <2>3. ASSUME NEW p \in Players PROVE Awarded(p)'
    <3>1. CASE score'[p] = score[p] /\ replaysAwarded'[p] = replaysAwarded[p]
      BY <3>1 DEF ReplayInv, Awarded
    <3>2. CASE score'[p] = 0
      <4> SUFFICES ASSUME NEW n \in 1 .. Len(Thresholds), \A k \in 1 .. n : score'[p] >= Thresholds[k]
                   PROVE  FALSE
        BY DEF Awarded
      <4>1. Len(Thresholds) \in Nat /\ 1 \in 1 .. n /\ 1 \in 1 .. Len(Thresholds)
        BY ScoreAssumption
      <4>2. Thresholds[1] \in Nat /\ Thresholds[1] > 0 /\ score'[p] >= Thresholds[1]
        BY <4>1, ScoreAssumption
      <4> QED
        BY <3>2, <4>2
    <3> QED
      BY <2>2, <3>1, <3>2
  <2> QED
    BY <2>3 DEF ReplayInv
<1>3. CASE RulesCall
  <2>1. RulesAddCredits \/ Tilt \/ SlamTilt \/ EndBall \/ EndGame => Same
    BY DEF RulesAddCredits, AddCredits, Tilt, SlamTilt, EndBall, EndGame, records
  <2>2. ServeBall \/ BonusDone => Same
    BY DEF ServeBall, BonusDone, records
  <2>3. ASSUME NEW p \in ActivePlayers, AwardExtraBall(p) PROVE Same
    BY <2>3 DEF AwardExtraBall
  <2>4. ASSUME NEW p \in ActivePlayers, NEW points \in Points, SetScore(points, p) PROVE FALSE
    BY <2>4 DEF SetScore, Rules
  <2> QED
    BY <1>1, <1>2, <1>3, <2>1, <2>2, <2>3, <2>4, PointsAward DEF RulesCall, RulesStart
<1>4. CASE HandleStartPressed
  <2>1. Refused => Same
    BY DEF Refused, records
  <2> QED
    BY <1>1, <1>2, <1>4, <2>1 DEF HandleStartPressed
<1>5. CASE Pass
  <2>1. RunAttract \/ RunBallStarting \/ RunBallInLane \/ RunBallInPlay \/ RunBallDraining => Same
    BY DEF RunAttract, RunBallStarting, RunBallInLane, RunBallInPlay, RunBallDraining, records
  <2>2. RunBallEnding \/ RunGameEnding \/ RunGameOver \/ RunGameStarting \/ RunBonusCount => Same
    BY DEF RunBallEnding, RunGameEnding, RunGameOver, RunGameStarting, RunBonusCount, records
  <2> QED
    BY <1>1, <1>5, <2>1, <2>2 DEF Pass, RunStateMachine
<1>6. CASE UNCHANGED records
  BY <1>1, <1>6 DEF records
<1> QED
  BY <1>3, <1>4, <1>5, <1>6 DEF Next, Update, UpdateTroughCount, EdgesDone, HandleCoin, AddCredits,
     OnSwitch, Tick, vars

\* CheckReplay: whatever points are awarded, with several thresholds at once, a
\* rollover or a fall to zero, every threshold that was reached is awarded, as
\* long as thresholds are worth points and the rules do not write scores.
THEOREM ReplaysAreAwarded ==
  ASSUME \A k \in 1 .. Len(Thresholds) : Thresholds[k] > 0
  PROVE  Spec => []ReplaysAwarded
<1>1. CASE "setScore" \in Commands
  <2>1. ReplaysAwarded
    BY <1>1 DEF ReplaysAwarded
  <2> QED
    BY <2>1, PTL
<1>2. CASE "setScore" \notin Commands
  <2>1. Init => ReplayInv
    BY ZeroAwardsNothing DEF Init, ReplayInv
  <2>2. TypeOK /\ TypeOK' /\ ReplayInv /\ [Next]_vars => ReplayInv'
    BY <1>2, ReplayStep
  <2>3. TypeOK /\ ReplayInv => ReplaysAwarded
    BY PlayersTyped DEF ReplayInv, Awarded, ReplaysAwarded
  <2> QED
    BY <2>1, <2>2, <2>3, TypeCorrect, PTL DEF Spec
<1> QED
  BY <1>1, <1>2
=============================================================================
