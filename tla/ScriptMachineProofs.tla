-------------------------- MODULE ScriptMachineProofs --------------------------
(***************************************************************************)
(* Safety of a whole ROM-less machine: the loop is a host of GameCore and  *)
(* of PlayfieldAssist, so that what is proved of the two holds here too;   *)
(* then the two tilt flags, and what the engine believes of the trough.    *)
(***************************************************************************)
EXTENDS ScriptMachine, GameCoreProofs

-----------------------------------------------------------------------------
(* The machine is a game                                                   *)

\* GameCore works in its own phase of the loop only.
OneThread == step = "engine" \/ pc = "idle"

\* Every step of the loop is a step of the game or leaves it alone.
LEMMA GameStep ==
  ASSUME OneThread, [MachineNext]_machineVars
  PROVE  OneThread' /\ [Next]_vars
<1> USE DEF OneThread
<1>1. CASE UNCHANGED machineVars
  BY <1>1 DEF machineVars, vars, loop
<1>2. CASE SwitchesDone \/ ReportRunning \/ ReportBall \/ ReportPlayer \/ UpdateAssist \/ EventsDone
            \/ HitsMachine
  BY <1>2 DEF SwitchesDone, ReportRunning, ReportBall, ReportBallNumber, ReportPlayer, UpdateAssist,
     EventsDone, HitsMachine, Then, vars, loop
<1>3. CASE BallMoves \/ ServiceBallTroughWatch
  <2>1. step # "engine" /\ UNCHANGED pc
    BY <1>3 DEF BallMoves, ServiceBallTroughWatch, loop
  <2>2. OnSwitch \/ UNCHANGED vars
    BY <1>3, <2>1, MachineAssumption
       DEF BallMoves, ServiceBallTroughWatch, SendTrough, OnSwitch, vars, switches, WatchUpdate
  <2> QED
    BY <2>1, <2>2 DEF Next
<1>4. CASE EngineUpdate \/ Presses
  BY <1>4 DEF EngineUpdate, Presses, EngineFrame, Then, Next
<1>5. CASE TakeEvent
  <2>1. UNCHANGED <<step, pc>>
    BY <1>5 DEF TakeEvent, TellGame, Tilt, SlamTilt, Rules, loop, vars
  <2>2. Tilt \/ SlamTilt \/ UNCHANGED vars
    BY <1>5 DEF TakeEvent, TellGame
  <2> QED
    BY <2>1, <2>2 DEF Next, RulesCall
<1>6. CASE TimePasses
  BY <1>6 DEF TimePasses, Tick, Next, loop
<1> QED
  BY <1>1, <1>2, <1>3, <1>4, <1>5, <1>6 DEF MachineNext, MainLoop

\* ppuc.cpp drives GameCore as its specification allows any host to: what is
\* proved of the game holds in the machine.
THEOREM MachineRunsGame == MachineSpec => Spec
<1>1. MachineInit => Init /\ OneThread
  BY DEF MachineInit, Init, OneThread
<1>2. OneThread /\ [MachineNext]_machineVars => OneThread' /\ [Next]_vars
  BY GameStep
<1> QED
  BY <1>1, <1>2, PTL DEF MachineSpec, Spec

RunningOK == gameRunning \in BOOLEAN

\* Every step of the loop is a call of the assist or leaves it alone: the balls
\* that are reported are balls of the game.
LEMMA AssistCall ==
  ASSUME TypeOK, BallsBounded, RunningOK, [MachineNext]_machineVars
  PROVE  RunningOK' /\ [Assist!Next]_(Assist!assistVars)
<1> USE DEF Assist!Next, RunningOK
<1>1. IsInGame \in BOOLEAN
  BY DEF IsInGame
<1>2. RunningOK'
  BY <1>1 DEF MachineNext, MainLoop, machineVars, reported, SwitchesDone, ServiceBallTroughWatch, EngineUpdate,
     EngineFrame, ReportRunning, ReportBall, ReportBallNumber, ReportPlayer, UpdateAssist, TakeEvent, TellGame,
     EventsDone, BallMoves, HitsMachine, Presses, TimePasses
<1> SUFFICES Assist!Next \/ UNCHANGED assistState
  BY <1>2 DEF assistState, Assist!assistVars, Assist!play, Assist!bob, Assist!save
<1>3. CASE BallMoves
  <2>1. \E on, forward \in BOOLEAN : Assist!ProcessSwitch("drain", on, forward)
    <3>1. PICK forward \in BOOLEAN : Assist!ProcessSwitch("drain", home', forward)
      BY <1>3 DEF BallMoves
    <3>2. home' \in BOOLEAN
      BY <1>3 DEF BallMoves
    <3> QED
      BY <3>1, <3>2
  <2> QED
    BY <2>1 DEF Assist!AnySwitch, Assist!Roles, Assist!Fitted
<1>4. CASE HitsMachine
  <2>1. PICK role \in {"tilt", "slam"}, forward \in BOOLEAN : Assist!ProcessSwitch(role, TRUE, forward)
    BY <1>4, MachineAssumption DEF HitsMachine
  <2> QED
    BY <2>1 DEF Assist!AnySwitch, Assist!Roles, Assist!Fitted
<1>5. CASE ReportRunning
  BY <1>1, <1>5 DEF ReportRunning, Assist!HostCalls
<1>6. CASE ReportBall
  <2>1. CurrentBall \in BallNumbers
    <3>1. CurrentBall \in 0 .. BallsPerGame
      BY ConfigAssumption DEF CurrentBall, TypeOK, RosterOK, RecordsOK, BallsBounded, Players
    <3> QED
      BY <3>1, MachineAssumption
  <2> QED
    BY <1>6, <2>1 DEF ReportBall, ReportBallNumber, Assist!HostCalls
<1>7. CASE ReportPlayer
  <2>1. currentPlayer \in 0 .. MaxPlayers
    BY ConfigAssumption DEF TypeOK, RosterOK
  <2> QED
    BY <1>7, <2>1 DEF ReportPlayer, Assist!HostCalls
<1>8. CASE UpdateAssist \/ TakeEvent \/ TimePasses
  BY <1>8 DEF UpdateAssist, TakeEvent, TimePasses
<1>9. CASE UNCHANGED assistState
  BY <1>9
<1> QED
  BY <1>3, <1>4, <1>5, <1>6, <1>7, <1>8, <1>9
     DEF MachineNext, MainLoop, machineVars, SwitchesDone, ServiceBallTroughWatch, EngineUpdate, EngineFrame,
         EventsDone, Presses

\* The loop also uses PlayfieldAssist as its specification allows any host to, so
\* that allowances, limits and saves are kept in the machine.
THEOREM MachineHostsAssist == MachineSpec => Assist!Spec
<1>1. MachineInit => Assist!Init /\ RunningOK
  BY DEF MachineInit, RunningOK
<1>2. TypeOK /\ BallsBounded /\ RunningOK /\ [MachineNext]_machineVars
        => RunningOK' /\ [Assist!Next]_(Assist!assistVars)
  BY AssistCall
<1> QED
  BY <1>1, <1>2, MachineRunsGame, TypeCorrect, BallsNeverExceeded, PTL DEF MachineSpec, Assist!Spec

-----------------------------------------------------------------------------
(* The two tilt flags                                                      *)

\* The player at the machine is tilted, in a game that nothing cut short.
Tilting == IsInGame /\ cutShort = "no" /\ tilted[currentPlayer]

\* A tilt that lasts for a whole game comes from a slam tilt.
NoLastingTilt == cutShort = "no" => \A p \in Players : ~tiltedThroughGame[p]

\* Whatever Update does, a player who is tilted after it was tilted before it, on
\* the same ball: each ball begins without a tilt.
LEMMA EngineKeepsBall ==
  ASSUME TypeOK, NoLastingTilt, Update \/ HandleStartPressed \/ HandleCoin
  PROVE  /\ NoLastingTilt'
         /\ Tilting' => Tilting /\ CurrentBall' = CurrentBall
<1> USE ConfigAssumption DEF NoLastingTilt
<1> DEFINE Kept == Tilting' => Tilting /\ CurrentBall' = CurrentBall
           Same == /\ UNCHANGED <<ball, tilted, tiltedThroughGame, currentPlayer, cutShort>>
                   /\ IsInGame' => IsInGame
<1>1. Same => NoLastingTilt' /\ Kept
  BY DEF Tilting, CurrentBall
<1>2. currentPlayer \in Nat /\ playerCount \in Nat /\ (IsInGame => currentPlayer \in Players)
  BY DEF TypeOK, RosterOK, Players
<1>3. CASE Pass
  <2> USE <1>3 DEF Pass, Running, EnterState
  <2>1. CASE RunAttract \/ RunBallStarting \/ RunBallInLane \/ RunBallInPlay \/ RunBallDraining
             \/ RunBallEnding
    <3>1. Same
      BY <2>1 DEF RunAttract, RunBallStarting, RunBallInLane, RunBallInPlay, RunBallDraining,
         RunBallEnding, FinishBall, phase, roster, records, IsInGame, InGameStates
    <3> QED
      BY <1>1, <3>1
  <2>2. CASE RunGameStarting
    <3>1. /\ currentPlayer' = 1 /\ UNCHANGED <<tiltedThroughGame, cutShort>>
          /\ tilted' = [tilted EXCEPT ![1] = @ /\ tiltedThroughGame[1]]
      BY <2>2 DEF RunGameStarting, BeginBall
    <3>2. 1 \in Players
      BY DEF Players
    <3>3. cutShort = "no" => ~tilted'[1]
      BY <3>1, <3>2 DEF TypeOK, RecordsOK
    <3> QED
      BY <3>1, <3>3 DEF Tilting
  <2>3. CASE RunBonusCount
    <3>1. UNCHANGED <<playerCount, tiltedThroughGame, cutShort>> /\ state = "BonusCount"
      BY <2>3 DEF RunBonusCount
    <3>2. currentPlayer \in Players /\ IsInGame
      BY <3>1, <1>2 DEF IsInGame, InGameStates
    <3> DEFINE clears == tilted[currentPlayer] /\ ~tiltedThroughGame[currentPlayer] /\ BallsOut = 0
               cleared == [tilted EXCEPT ![currentPlayer] = @ /\ ~clears]
               done == [finished EXCEPT ![currentPlayer] = @ \/ LastBallPlayed(currentPlayer)]
    <3>3. cleared[currentPlayer] => tilted[currentPlayer]
      BY <3>2 DEF TypeOK, RecordsOK
    <3>4. CASE UNCHANGED <<currentPlayer, ball>> /\ (tilted' = cleared \/ UNCHANGED tilted)
      BY <3>1, <3>2, <3>3, <3>4 DEF Tilting, CurrentBall
    <3>5. ASSUME NEW step_ \in 1 .. playerCount, currentPlayer' = Turn(step_), BeginBall(Turn(step_), cleared)
          PROVE  Kept
      <4>1. Turn(step_) \in Players
        <5>1. Turn(step_) \in 1 .. playerCount
          BY <1>2, TurnInRange
        <5> QED
          BY <5>1 DEF TypeOK, RosterOK, Players
      <4>2. tilted' = [cleared EXCEPT ![Turn(step_)] = @ /\ tiltedThroughGame[Turn(step_)]]
        BY <3>5 DEF BeginBall
      <4>3. cleared \in [Players -> BOOLEAN]
        BY <3>2 DEF TypeOK, RecordsOK
      <4>4. cutShort = "no" => ~tilted'[Turn(step_)]
        BY <4>1, <4>2, <4>3
      <4> QED
        BY <3>1, <3>5, <4>4 DEF Tilting
    <3>6. \/ UNCHANGED <<currentPlayer, ball>> /\ (tilted' = cleared \/ UNCHANGED tilted)
          \/ \E step_ \in 1 .. playerCount :
               currentPlayer' = Turn(step_) /\ BeginBall(Turn(step_), cleared)
      BY <2>3 DEF RunBonusCount, AdvancePlayer
    <3> QED
      BY <3>1, <3>4, <3>5, <3>6
  <2>4. CASE RunGameEnding \/ RunGameOver
    BY <2>4 DEF RunGameEnding, RunGameOver, records, roster, phase, Tilting, IsInGame, InGameStates
  <2> QED
    BY <2>1, <2>2, <2>3, <2>4 DEF RunStateMachine
<1>4. CASE StartGame
  BY <1>4, <1>2 DEF StartGame, BeginGame, Tilting, Players
<1>5. CASE AddPlayer
  <2>1. IsInGame /\ currentPlayer # playerCount + 1
    BY <1>5, <1>2 DEF AddPlayer, TypeOK, RosterOK
  <2>2. /\ UNCHANGED <<currentPlayer, cutShort, state>>
        /\ ball' = At(ball, playerCount + 1, 0)
        /\ tilted' = At(tilted, playerCount + 1, FALSE)
        /\ tiltedThroughGame' = At(tiltedThroughGame, playerCount + 1, FALSE)
    BY <1>5 DEF AddPlayer, phase
  <2>3. NoLastingTilt'
    BY <2>2 DEF At, TypeOK, RecordsOK
  <2>4. ball'[currentPlayer] = ball[currentPlayer] /\ tilted'[currentPlayer] = tilted[currentPlayer]
    BY <2>1, <2>2, <1>2 DEF At, TypeOK, RecordsOK
  <2> QED
    BY <2>1, <2>2, <2>3, <2>4 DEF Tilting, CurrentBall
<1>6. CASE Same
  BY <1>6, <1>1
<1>7. UpdateTroughCount \/ EdgesDone \/ HandleCoin \/ Refused => Same
  BY DEF UpdateTroughCount, EdgesDone, HandleCoin, AddCredits, Refused, phase, roster, records, IsInGame
<1> QED
  BY <1>3, <1>4, <1>5, <1>6, <1>7 DEF Update, HandleStartPressed, StartOrAdd

\* What the loop keeps: a tilt in the game is one the assist knows or one that a
\* hit on the ball before has brought, on the ball that was reported last.
TiltInv ==
  /\ NoLastingTilt
  /\ gameRunning \in BOOLEAN
  /\ Tilting => gameRunning /\ lastBall = CurrentBall /\ (tiltSeen \/ late)
  /\ HitsWait => tiltSeen \/ late
  /\ step \in {"ball", "player", "assist", "events"} => gameRunning = IsInGame
  /\ step \in {"player", "assist", "events"} => lastBall = CurrentBall

LEMMA TiltStep ==
  ASSUME EndsBallOnly, TypeOK, OneThread, TiltInv, [MachineNext]_machineVars
  PROVE  TiltInv'
<1> USE DEF TiltInv
<1>1. CASE UNCHANGED <<vars, tiltSeen, events, step, reported>>
  <2>1. UNCHANGED <<state, cutShort, currentPlayer, tilted, ball, tiltedThroughGame>>
    BY <1>1 DEF vars, phase, roster, records
  <2> QED
    BY <1>1, <2>1 DEF reported, NoLastingTilt, Tilting, IsInGame, CurrentBall, HitsWait
<1>2. CASE BallMoves \/ ServiceBallTroughWatch \/ SwitchesDone \/ UpdateAssist
  <2>1. UNCHANGED <<phase, roster, records, cutShort, tiltSeen, events, reported>> /\ step' # "ball"
    BY <1>2 DEF BallMoves, ServiceBallTroughWatch, SwitchesDone, UpdateAssist, vars, assistState, Then,
       Assist!ProcessSwitch, Assist!PlaySwitch, Assist!SaveBall, Assist!AssistUpdate, Assist!bob
  <2>2. UNCHANGED <<state, cutShort, currentPlayer, tilted, ball, tiltedThroughGame>>
    BY <2>1 DEF phase, roster, records
  <2>3. \/ step' \in {"drain", "watch", "engine"}
        \/ step = "assist" /\ step' = "events"
    BY <1>2 DEF BallMoves, ServiceBallTroughWatch, SwitchesDone, UpdateAssist, Then
  <2> QED
    BY <2>1, <2>2, <2>3 DEF reported, NoLastingTilt, Tilting, IsInGame, CurrentBall, HitsWait
<1>3. CASE HitsMachine
  <2>1. /\ UNCHANGED <<vars, step, reported>> /\ step = "drain"
        /\ tiltSeen => tiltSeen'
        /\ UNCHANGED events \/ tiltSeen'
    <3>1. PICK role \in {"tilt", "slam"}, forward \in BOOLEAN : Assist!ProcessSwitch(role, TRUE, forward)
      BY <1>3, MachineAssumption DEF HitsMachine
    <3> QED
      BY <1>3, <3>1 DEF HitsMachine, Assist!ProcessSwitch, Assist!SlamHit, Assist!BobHit,
         Assist!assistVars, Assist!bob
  <2>2. UNCHANGED <<state, cutShort, currentPlayer, tilted, ball, tiltedThroughGame>>
    BY <2>1 DEF vars, phase, roster, records
  <2> QED
    BY <2>1, <2>2 DEF reported, NoLastingTilt, Tilting, IsInGame, CurrentBall, HitsWait
<1>4. CASE EngineUpdate \/ Presses
  <2>1. NoLastingTilt' /\ (Tilting' => Tilting /\ CurrentBall' = CurrentBall)
    BY <1>4, EngineKeepsBall DEF EngineUpdate, Presses
  <2>2. UNCHANGED <<tiltSeen, events, reported>> /\ step' \in {"engine", "running"}
    BY <1>4 DEF EngineUpdate, Presses, EngineFrame, assistState, Then
  <2> QED
    BY <2>1, <2>2 DEF reported, HitsWait
<1>5. CASE ReportRunning \/ ReportBall \/ ReportPlayer
  <2>1. UNCHANGED <<state, cutShort, currentPlayer, tilted, ball, tiltedThroughGame>>
    BY <1>5 DEF ReportRunning, ReportBall, ReportBallNumber, ReportPlayer, vars, phase, roster, records
  <2>2. /\ UNCHANGED Tilting /\ UNCHANGED CurrentBall /\ UNCHANGED IsInGame /\ NoLastingTilt'
        /\ IsInGame \in BOOLEAN
    BY <2>1 DEF Tilting, CurrentBall, IsInGame, NoLastingTilt
  <2>3. CASE ReportRunning
    <3>1. /\ gameRunning' = IsInGame /\ UNCHANGED <<events, lastBall>>
          /\ step' = "ball"
          /\ \/ UNCHANGED <<tiltSeen, late>>
             \/ IsInGame /\ ~gameRunning /\ late' = HitsWait
             \/ ~IsInGame /\ (tiltSeen => tiltSeen') /\ UNCHANGED late
      BY <2>2, <2>3 DEF ReportRunning, Assist!SetPlayActive, Then, assistState
    <3> QED
      BY <2>2, <3>1, <2>1 DEF HitsWait, Tilting
  <2>4. CASE ReportBall
    <3>1. /\ lastBall' = CurrentBall /\ UNCHANGED <<events, gameRunning>>
          /\ step' = "player" /\ step = "ball"
          /\ \/ UNCHANGED <<tiltSeen, late>>
             \/ CurrentBall # lastBall /\ late' = HitsWait
      BY <2>4 DEF ReportBall, ReportBallNumber, Assist!OnBallStart, Assist!OnBallEnd, Assist!bob, Then,
         assistState
    <3> QED
      BY <2>2, <3>1 DEF HitsWait
  <2>5. CASE ReportPlayer
    <3>1. /\ UNCHANGED <<tiltSeen, events, gameRunning, lastBall, late>>
          /\ step' = "assist" /\ step = "player"
      BY <2>5 DEF ReportPlayer, Assist!SetCurrentPlayer, Assist!bob, Then, assistState
    <3> QED
      BY <2>2, <3>1 DEF HitsWait
  <2> QED
    BY <1>5, <2>3, <2>4, <2>5
<1>6. CASE TakeEvent
  <2>1. /\ HitsWait /\ step = "events"
        /\ UNCHANGED <<tiltSeen, step, reported>>
        /\ \/ Tilt \/ SlamTilt \/ UNCHANGED vars
    BY <1>6 DEF TakeEvent, TellGame, Assist!TakeEvent, Assist!bob, HitsWait
  <2>2. CASE UNCHANGED vars
    <3>1. UNCHANGED <<state, cutShort, currentPlayer, tilted, ball, tiltedThroughGame>>
      BY <2>2 DEF vars, phase, roster, records
    <3> QED
      BY <2>1, <3>1 DEF reported, NoLastingTilt, Tilting, IsInGame, CurrentBall, HitsWait
  <2>3. CASE Tilt
    <3>1. /\ tiltedThroughGame' = At(tiltedThroughGame, currentPlayer, FALSE)
          /\ UNCHANGED <<state, currentPlayer, ball, cutShort>>
          /\ IsInGame
      BY <2>3, EndsBallOnly DEF Tilt, roster, IsInGame, InGameStates
    <3>2. NoLastingTilt'
      BY <3>1 DEF At, NoLastingTilt, TypeOK, RecordsOK
    <3> QED
      BY <2>1, <3>1, <3>2 DEF reported, Tilting, IsInGame, CurrentBall, HitsWait
  <2>4. CASE SlamTilt
    BY <2>1, <2>4 DEF SlamTilt, EnterState, roster, reported, NoLastingTilt, Tilting, IsInGame, InGameStates,
       CurrentBall, HitsWait
  <2> QED
    BY <2>1, <2>2, <2>3, <2>4
<1>7. CASE EventsDone
  <2>1. UNCHANGED <<state, cutShort, currentPlayer, tilted, ball, tiltedThroughGame>>
    BY <1>7 DEF EventsDone, vars, phase, roster, records
  <2>2. /\ UNCHANGED <<tiltSeen, gameRunning, lastBall>> /\ events' = <<>> /\ step' = "drain"
        /\ late' = (late /\ currentPlayer # 0 /\ tilted[currentPlayer])
    BY <1>7 DEF EventsDone, Then, assistState
  <2>3. Tilting => currentPlayer # 0 /\ tilted[currentPlayer]
    BY DEF Tilting, TypeOK, RosterOK
  <2> QED
    BY <2>1, <2>2, <2>3 DEF NoLastingTilt, Tilting, IsInGame, CurrentBall, HitsWait
<1>8. CASE TimePasses
  <2>1. UNCHANGED <<state, cutShort, roster, records, step, reported, tiltSeen, events>>
    BY <1>8 DEF TimePasses, Tick, Assist!AssistTick
  <2> QED
    BY <2>1 DEF roster, records, reported, NoLastingTilt, Tilting, IsInGame, CurrentBall, HitsWait
<1> QED
  BY <1>1, <1>2, <1>3, <1>4, <1>5, <1>6, <1>7, <1>8
     DEF MachineNext, MainLoop, machineVars, assistState

\* ppuc.cpp, ScriptEngine.cpp: while the player at the machine is tilted the
\* assist knows, unless a hit on the ball before tilted this one. For tilts that
\* end the ball, as by default: one that lasts for the game is not told again.
THEOREM TiltIsHeld ==
  ASSUME EndsBallOnly
  PROVE  MachineSpec => []TiltHolds
<1>1. MachineInit => TiltInv /\ OneThread
  BY DEF MachineInit, Init, Assist!Init, TiltInv, NoLastingTilt, Tilting, IsInGame, InGameStates, HitsWait,
     OneThread, Players
<1>2. TypeOK /\ OneThread /\ TiltInv /\ [MachineNext]_machineVars => OneThread' /\ TiltInv'
  BY TiltStep, GameStep
<1>3. TiltInv => TiltHolds
  BY DEF TiltInv, TiltHolds, Tilting
<1> QED
  BY <1>1, <1>2, <1>3, MachineRunsGame, TypeCorrect, PTL DEF MachineSpec

-----------------------------------------------------------------------------
(* What the engine believes of the trough                                  *)

\* While the trough is believed full and the ball has not left it, the watch alone
\* may have opened the switch, and not for as long as the settle time.
Presented ==
  /\ representLeft # Never
  /\ stable = 0 =>
       stableAge <= Gap - representLeft \/ (representLeft = 0 /\ step \in {"drain", "watch"})

BelievedBall ==
  /\ home
  /\ IF closed = 1 THEN stable = 1 \/ (step = "engine" /\ pc = "idle") ELSE Presented

TroughInv ==
  /\ closed \in 0 .. 1 /\ stable \in 0 .. 1 /\ believed \in 0 .. 1 /\ stableAge \in Nat
  /\ closedAge \in Int /\ closedAge >= Never /\ representLeft \in Never .. Gap
  /\ home \in BOOLEAN
  /\ closedAge # Never => home
  /\ ~WatchFitted => closedAge = Never
  /\ representLeft # Never => closedAge # Never
  /\ EngineNeverInventsBall
  /\ believed = 1 /\ ~left => BelievedBall

LEMMA TroughInit == MachineInit => TroughInv
<1> SUFFICES ASSUME MachineInit PROVE TroughInv
  OBVIOUS
<1>1. closed = 0 /\ stable = 0 /\ believed = 0 /\ stableAge = 0 /\ home = FALSE
  BY DEF MachineInit, Init
<1>2. closedAge = Never /\ representLeft = Never /\ Never \in Never .. Gap
  BY MachineAssumption DEF MachineInit, WatchInit, Never
<1>3. EngineNeverInventsBall /\ (believed = 1 /\ ~left => BelievedBall)
  BY <1>1 DEF EngineNeverInventsBall
<1>4. closed \in 0 .. 1 /\ stable \in 0 .. 1 /\ believed \in 0 .. 1 /\ stableAge \in Nat
  BY <1>1
<1>5. home \in BOOLEAN
  BY <1>1, Zenon
<1>6. closedAge \in Int /\ closedAge >= Never
  BY <1>2 DEF Never
<1> QED
  BY <1>2, <1>3, <1>4, <1>5, <1>6 DEF TroughInv

LEMMA TroughStep ==
  ASSUME Gap < Settle, OneThread, TroughInv, [MachineNext]_machineVars
  PROVE  /\ TroughInv'
         /\ believed = 1 /\ believed' = 0 => left
<1> USE MachineAssumption, TimingAssumption DEF TroughInv, BelievedBall, Presented, EngineNeverInventsBall, Never
<1>1. CASE /\ UNCHANGED <<closed, trough, watchVars, ballVars>>
           /\ \/ UNCHANGED <<step, pc>>
              \/ step \notin {"drain", "watch", "engine"} /\ step' # "engine"
  BY <1>1 DEF trough, watchVars, ballVars
<1>2. CASE HitsMachine \/ ReportRunning \/ ReportBall \/ ReportPlayer \/ UpdateAssist \/ EventsDone
            \/ UNCHANGED machineVars
  <2>1. /\ UNCHANGED <<closed, trough, watchVars, ballVars>>
        /\ \/ UNCHANGED <<step, pc>>
           \/ step \notin {"drain", "watch", "engine"} /\ step' # "engine"
    BY <1>2 DEF HitsMachine, ReportRunning, ReportBall, ReportBallNumber, ReportPlayer, UpdateAssist,
       EventsDone, Then, machineVars, vars, switches, loop
  <2> QED
    BY <1>1, <2>1
<1>3. CASE SwitchesDone
  BY <1>3 DEF SwitchesDone, Then, vars, switches, trough, watchVars, ballVars
<1>4. CASE TakeEvent
  <2>1. UNCHANGED <<closed, trough, watchVars, ballVars, step, pc>>
    BY <1>4 DEF TakeEvent, TellGame, Tilt, SlamTilt, Rules, vars, loop, switches
  <2> QED
    BY <1>1, <2>1
<1>5. CASE BallMoves
  <2>1. PICK forward \in BOOLEAN :
          /\ IF WatchFitted THEN NoteSwitch(home') ELSE UNCHANGED watchVars
          /\ Assist!ProcessSwitch("drain", home', forward)
          /\ IF forward THEN SendTrough(home') ELSE UNCHANGED closed
    BY <1>5 DEF BallMoves, SeenByWatch
  <2>2. UNCHANGED <<trough, step, pc>> /\ home' = ~home /\ left' = (left \/ home) /\ step = "drain"
    BY <1>5 DEF BallMoves, loop
  <2>3. ~home' => forward
    BY <2>1, <2>2 DEF Assist!ProcessSwitch, Assist!PlaySwitch
  <2>4. closed' \in 0 .. 1 /\ (closed' = 1 => home')
    BY <2>1, <2>2, <2>3 DEF SendTrough
  <2>5. /\ closedAge' \in Int /\ closedAge' >= Never /\ representLeft' \in Never .. Gap
        /\ closedAge' # Never => home'
        /\ ~WatchFitted => closedAge' = Never
        /\ representLeft' # Never => closedAge' # Never
    BY <2>1, <2>2 DEF NoteSwitch, watchVars
  <2>6. ~(believed = 1 /\ ~left')
    BY <2>2
  <2>7. UNCHANGED <<stable, stableAge, believed>> /\ home' \in BOOLEAN
    BY <2>2 DEF trough
  <2>8. (closedAge # Never => home)' /\ (representLeft # Never => closedAge # Never)'
    BY <2>5
  <2>9. (believed = 1 /\ ~left => BelievedBall)' /\ ~(believed = 1 /\ believed' = 0)
    BY <2>6, <2>7
  <2> QED
    BY <2>4, <2>5, <2>7, <2>8, <2>9
<1>6. CASE ServiceBallTroughWatch
  <2>1. UNCHANGED <<trough, ballVars, pc>> /\ step = "watch" /\ step' = "engine" /\ pc = "idle"
    BY <1>6 DEF ServiceBallTroughWatch, OneThread, Then, loop
  <2>2. CASE WatchFitted
    <3>1. PICK action \in {"none", "sendOpen", "sendClose"} :
            /\ WatchUpdate(gameRunning, action)
            /\ IF action = "none" THEN UNCHANGED closed ELSE SendTrough(action = "sendClose")
      BY <1>6, <2>2 DEF ServiceBallTroughWatch
    <3>2. CASE action = "none"
      BY <2>1, <3>1, <3>2 DEF WatchUpdate, watchVars, trough, ballVars, Overdue
    <3>3. CASE action = "sendOpen"
      <4>1. closedAge # Never /\ closedAge' = 0 /\ representLeft' = Gap /\ closed' = 0
        BY <3>1, <3>3 DEF WatchUpdate, Overdue, ClosingDelay, SendTrough
      <4>2. representLeft = Never
        BY <3>1, <3>3 DEF WatchUpdate
      <4> QED
        BY <2>1, <4>1, <4>2 DEF trough, ballVars
    <3>4. CASE action = "sendClose"
      <4>1. representLeft = 0 /\ representLeft' = Never /\ UNCHANGED closedAge /\ closed' = 1
        BY <3>1, <3>4 DEF WatchUpdate, SendTrough
      <4> QED
        BY <2>1, <4>1 DEF trough, ballVars
    <3> QED
      BY <3>2, <3>3, <3>4
  <2>3. CASE ~WatchFitted
    <3>1. UNCHANGED <<watchVars, closed>>
      BY <1>6, <2>3 DEF ServiceBallTroughWatch
    <3>2. representLeft = Never
      BY <2>3
    <3>3. believed = 1 /\ ~left => closed = 1
      BY <3>2
    <3> QED
      BY <2>1, <3>1, <3>3 DEF watchVars, trough, ballVars
  <2> QED
    BY <2>2, <2>3
<1>7. CASE EngineUpdate \/ Presses
  <2>1. /\ UNCHANGED <<watchVars, home, closed>> /\ step = "engine"
        /\ step' = IF pc' = "idle" THEN "running" ELSE "engine"
        /\ left' = IF believed = 0 /\ believed' = 1 THEN ~home ELSE left
    BY <1>7 DEF EngineUpdate, Presses, EngineFrame, Then, Update, UpdateTroughCount, EdgesDone, Pass,
       RunStateMachine, Running, RunAttract, RunGameStarting, RunBallStarting, RunBallInLane, RunBallInPlay,
       RunBallDraining, RunBallEnding, RunBonusCount, RunGameEnding, RunGameOver, HandleStartPressed,
       HandleCoin, AddCredits, switches
  <2>2. CASE UNCHANGED trough /\ pc # "idle"
    BY <2>1, <2>2 DEF trough, watchVars
  <2>3. CASE UpdateTroughCount
    <3>1. /\ pc = "idle" /\ pc' = "edges"
          /\ IF closed # stable
             THEN stable' = closed /\ stableAge' = 0 /\ UNCHANGED believed
             ELSE /\ believed' = IF stableAge >= Settle THEN stable ELSE believed
                  /\ UNCHANGED <<stable, stableAge>>
      BY <2>3 DEF UpdateTroughCount, TroughSettled
    <3> QED
      BY <2>1, <3>1 DEF watchVars
  <2>4. \/ UpdateTroughCount
        \/ UNCHANGED trough /\ pc # "idle"
    BY <1>7 DEF EngineUpdate, Presses, Update, EdgesDone, Pass, RunStateMachine, Running, RunAttract,
       RunGameStarting, RunBallStarting, RunBallInLane, RunBallInPlay, RunBallDraining, RunBallEnding,
       RunBonusCount, RunGameEnding, RunGameOver, HandleStartPressed, HandleCoin, AddCredits
  <2> QED
    BY <2>2, <2>3, <2>4
<1>8. CASE TimePasses
  <2>1. /\ UNCHANGED <<closed, stable, believed, ballVars, step, pc>> /\ step = "drain"
        /\ stableAge' = IF stableAge < Settle THEN stableAge + 1 ELSE stableAge
        /\ closedAge' = IF closedAge \in 0 .. Grace - 1 THEN closedAge + 1 ELSE closedAge
        /\ representLeft' = IF representLeft > 0 THEN representLeft - 1 ELSE representLeft
    BY <1>8 DEF TimePasses, Tick, WatchTick, loop, switches
  <2> QED
    BY <2>1 DEF ballVars
<1> QED
  BY <1>1, <1>2, <1>3, <1>4, <1>5, <1>6, <1>7, <1>8 DEF MachineNext, MainLoop

\* BallTroughWatch.cpp, PlayfieldAssist.cpp: whatever is hidden from the engine
\* and presented to it, it sees no ball that is not there and takes no ball for
\* gone that stayed, as long as the opening that the watch presents is shorter
\* than the settle time.
THEOREM TroughStaysTrue ==
  ASSUME Gap < Settle
  PROVE  MachineSpec => TroughIsTrue
<1>1. MachineInit => TroughInv /\ OneThread
  BY TroughInit DEF MachineInit, Init, OneThread
<1>2. OneThread /\ TroughInv /\ [MachineNext]_machineVars
        => /\ OneThread' /\ TroughInv'
           /\ [believed = 1 /\ believed' = 0 => left]_machineVars
  BY TroughStep, GameStep
<1>3. TroughInv => EngineNeverInventsBall
  BY DEF TroughInv
<1> QED
  BY <1>1, <1>2, <1>3, PTL DEF MachineSpec, TroughIsTrue, NoPhantomServe

=============================================================================
