---------------------------- MODULE ScriptMachine ----------------------------
(***************************************************************************)
(* A machine without a ROM: the main loop of ppuc.cpp around GameCore, with *)
(* the playfield assist and the ball trough watch between the switches and *)
(* the game. The game has one ball, whose trough switch is also the drain  *)
(* switch of the ball save, and no shooter lane.                           *)
(*                                                                         *)
(* One iteration of the loop passes through the values of `step`:          *)
(*   "drain"    the switches that changed are handed on, one by one        *)
(*   "watch"    ServiceBallTroughWatch                                     *)
(*   "engine"   GameCore::Update, one action per pass                      *)
(*   "running", "ball", "player"    what ScriptEngine::Update reports      *)
(*   "assist", "events"             ServicePlayfieldAssist                 *)
(* The loop is one thread, so switches change and time passes only between *)
(* two iterations; the start and coin edges are taken inside the engine's  *)
(* Update. The rules make no calls of their own here: the two commands     *)
(* come from the assist.                                                   *)
(***************************************************************************)
EXTENDS GameCore, BallTroughWatch

CONSTANTS
  Warnings, Debounce, Blanking,
  SaveEnabled, SaveDuration, StartOn, HasLaneSwitch, HasPlayfieldSwitches,
  MaxSaves, OnlyOnBalls, Grants, BallNumbers, MaxEvents,
  WatchFitted,           \* opt_ball_trough_switch # 0
  Hits                   \* which of the tilt and slam switches are fitted

ASSUME MachineAssumption ==
  /\ BallCount = 1 /\ TroughSwitches = 1 /\ ~HasLane
  /\ Commands = {"tilt", "slamTilt"}
  /\ Grace \in Nat /\ Gap \in Nat
  /\ WatchFitted \in BOOLEAN /\ Hits \subseteq {"tilt", "slam"}
  /\ 0 .. BallsPerGame \subseteq BallNumbers

VARIABLES
  counted, ballNumber, playActive, tiltSeen, used, sinceHit, blanked,
  saveLeft, saves, pending, events,
  step,
  home,                            \* the ball rests on the trough switch
  gameRunning, lastBall, lastPlayer,                  \* as last reported
  left,                            \* history: it left since it was believed home
  late                             \* history: a hit on the last ball tilts this one

Assist == INSTANCE PlayfieldAssist

assistState == <<counted, ballNumber, playActive, tiltSeen, used, sinceHit, blanked,
                 saveLeft, saves, pending, events>>
reported == <<gameRunning, lastBall, lastPlayer, late>>
ballVars == <<home, left>>
machineVars == <<vars, watchVars, assistState, step, reported, ballVars>>

Then(next) == step' = next

-----------------------------------------------------------------------------
(* Switches: the watch sees the board, the assist decides, the engine may  *)
(* be told                                                                 *)

\* SendSwitch on the trough switch.
SendTrough(on) == closed' = (IF on THEN 1 ELSE 0)

\* The watch times the ball, not what the assist lets through.
SeenByWatch_bug(forward) == WatchFitted /\ forward
SeenByWatch(forward) == WatchFitted

BallMoves ==
  /\ step = "drain"
  /\ home' = ~home
  /\ left' = (left \/ home)
  /\ \E forward \in BOOLEAN :
       /\ IF SeenByWatch(forward) THEN NoteSwitch(home') ELSE UNCHANGED watchVars
       /\ Assist!ProcessSwitch("drain", home', forward)
       /\ IF forward THEN SendTrough(home') ELSE UNCHANGED closed
  /\ UNCHANGED <<loop, laneClosed, trough, phase, roster, records, credits, serving, outputs,
                 cutShort, step, reported>>

\* The tilt switches: GameCore has no handler for the edge, forwarded or not.
HitsMachine ==
  /\ step = "drain"
  /\ \E role \in Hits, forward \in BOOLEAN : Assist!ProcessSwitch(role, TRUE, forward)
  /\ UNCHANGED <<vars, watchVars, step, reported, ballVars>>

SwitchesDone ==
  /\ step = "drain"
  /\ Then("watch")
  /\ UNCHANGED <<vars, watchVars, assistState, reported, ballVars>>

ServiceBallTroughWatch ==
  /\ step = "watch"
  /\ IF WatchFitted
     THEN \E action \in {"none", "sendOpen", "sendClose"} :
            /\ WatchUpdate(gameRunning, action)
            /\ IF action = "none" THEN UNCHANGED closed ELSE SendTrough(action = "sendClose")
     ELSE UNCHANGED <<watchVars, closed>>
  /\ Then("engine")
  /\ UNCHANGED <<loop, laneClosed, trough, phase, roster, records, credits, serving, outputs,
                 cutShort, assistState, reported, ballVars>>

-----------------------------------------------------------------------------
(* ScriptEngine::Update                                                    *)

EngineFrame ==
  /\ step = "engine"
  /\ Then(IF pc' = "idle" THEN "running" ELSE "engine")
  /\ left' = IF believed = 0 /\ believed' = 1 THEN ~home ELSE left
  /\ UNCHANGED <<watchVars, assistState, reported, home>>

EngineUpdate == Update /\ EngineFrame
Presses == (HandleStartPressed \/ HandleCoin) /\ EngineFrame

CurrentBall == IF currentPlayer = 0 THEN 0 ELSE ball[currentPlayer]

\* The assist has judged a hit of which the game has not been told yet.
HitsWait == events # <<>>

ReportRunning ==
  /\ step = "running"
  /\ gameRunning' = IsInGame
  /\ IF IsInGame # gameRunning
     THEN Assist!SetPlayActive(IsInGame)
     ELSE UNCHANGED assistState
  /\ late' = IF IsInGame /\ ~gameRunning THEN HitsWait ELSE late
  /\ Then("ball")
  /\ UNCHANGED <<vars, watchVars, lastBall, lastPlayer, ballVars>>

ReportBallNumber(remembered) ==
  /\ step = "ball"
  /\ lastBall' = remembered
  /\ IF CurrentBall = lastBall THEN UNCHANGED assistState
     ELSE IF CurrentBall = 0 THEN Assist!OnBallEnd
     ELSE Assist!OnBallStart(CurrentBall)
  /\ late' = IF CurrentBall \notin {0, lastBall} THEN HitsWait ELSE late
  /\ Then("player")
  /\ UNCHANGED <<vars, watchVars, gameRunning, lastPlayer, ballVars>>

ReportBall_bug == ReportBallNumber(lastBall)    \* reports the same ball again
ReportBall == ReportBallNumber(CurrentBall)

ReportPlayer ==
  /\ step = "player"
  /\ lastPlayer' = currentPlayer
  /\ IF currentPlayer # lastPlayer
     THEN Assist!SetCurrentPlayer(currentPlayer)
     ELSE UNCHANGED assistState
  /\ Then("assist")
  /\ UNCHANGED <<vars, watchVars, gameRunning, lastBall, late, ballVars>>

-----------------------------------------------------------------------------
(* ServicePlayfieldAssist                                                  *)

UpdateAssist ==
  /\ step = "assist"
  /\ Assist!AssistUpdate
  /\ Then("events")
  /\ UNCHANGED <<vars, watchVars, reported, ballVars>>

\* Tilt() and SlamTilt() ignore a call that comes at the wrong time.
TiltCounts == state \in {"BallInPlay", "BallInLane"} /\ ~tilted[currentPlayer]

TellGame ==
  /\ step = "events"
  /\ \/ Head(events) = "tilt" /\ TiltCounts /\ Tilt
     \/ Head(events) = "tilt" /\ ~TiltCounts /\ UNCHANGED vars
     \/ Head(events) = "slamTilt" /\ IsInGame /\ SlamTilt
     \/ Head(events) = "slamTilt" /\ ~IsInGame /\ UNCHANGED vars
  /\ UNCHANGED <<watchVars, step, reported, ballVars>>

TakeEvent == Assist!TakeEvent /\ TellGame

EventsDone ==
  /\ step = "events" /\ events = <<>>
  /\ Then("drain")
  /\ late' = (late /\ currentPlayer # 0 /\ tilted[currentPlayer])
  /\ UNCHANGED <<vars, watchVars, assistState, gameRunning, lastBall, lastPlayer, ballVars>>

-----------------------------------------------------------------------------

TimePasses ==
  /\ step = "drain"
  /\ Tick /\ Assist!AssistTick /\ WatchTick
  /\ UNCHANGED <<step, reported, ballVars>>

MachineInit ==
  /\ Init /\ WatchInit /\ Assist!Init
  /\ step = "drain"
  /\ home = FALSE /\ left = TRUE
  /\ gameRunning = FALSE /\ lastBall = 0 /\ lastPlayer = 0 /\ late = FALSE

MainLoop ==
  \/ SwitchesDone \/ ServiceBallTroughWatch \/ EngineUpdate
  \/ ReportRunning \/ ReportBall \/ ReportPlayer
  \/ UpdateAssist \/ TakeEvent \/ EventsDone

MachineNext == MainLoop \/ BallMoves \/ HitsMachine \/ Presses \/ TimePasses

MachineSpec == MachineInit /\ [][MachineNext]_machineVars

\* The loop never stops, and time passes again and again between its iterations.
FairMachineSpec == MachineSpec /\ WF_machineVars(MainLoop) /\ SF_machineVars(TimePasses)

-----------------------------------------------------------------------------
(* Properties                                                              *)

\* Neither the assist nor the watch ever shows the engine a ball that is not
\* there: what the engine sees closed, a ball closes.
EngineNeverInventsBall == closed = 1 => home

\* The opening that the watch presents stays below the settle time: the trough
\* is believed empty only after the ball really left it (kTroughRepresentGapMs
\* against trough.settleMs).
NoPhantomServe == [][believed = 1 /\ believed' = 0 => left]_machineVars

\* What the engine believes of the trough is true, in both directions.
TroughIsTrue == []EngineNeverInventsBall /\ NoPhantomServe

\* While the player at the machine is tilted the assist knows: no further hit
\* is charged and no drain is hidden, until the ball is really over. The one
\* exception is a hit judged before the ball began and told to the game after.
TiltHolds ==
  step = "drain" /\ IsInGame /\ cutShort = "no" /\ tilted[currentPlayer] => tiltSeen \/ late

\* With the watch fitted, a ball that came home unseen (a save whose kick
\* failed) does not stay hidden for the rest of the game.
HiddenBallFound ==
  home /\ closed = 0 /\ gameRunning ~> closed = 1 \/ ~home \/ ~gameRunning

-----------------------------------------------------------------------------
(* What comments and docs say and the code does not do                     *)

\* "The base allowance resets each ball": the next player's ball begins with
\* all the warnings.
FreshAllowance ==
  [][step = "player" /\ currentPlayer \notin {0, lastPlayer} =>
       used'[currentPlayer] = 0]_machineVars

\* "warnings: 2, the third hit tilts", "warnings are counted per player": only a
\* player whose own warnings are spent is tilted by the bob.
TiltOnlyAfterWarnings ==
  step = "drain" /\ IsInGame /\ cutShort = "no" /\ tilted[currentPlayer] =>
    used[currentPlayer] = Warnings

\* "A tilt cancels an active save: a tilted ball is meant to be lost": no save
\* runs for a player who is tilted.
TiltCancelsSave ==
  step = "drain" /\ IsInGame /\ cutShort = "no" /\ tilted[currentPlayer] /\ Assist!SaveActive =>
    tiltSeen

\* "This hit is the tilt", and the game "is told directly": a hit that spent the
\* allowance tilts the player whose ball is in play.
SpentAllowanceTilts ==
  step = "drain" /\ events = <<>> /\ state = "BallInPlay" /\ tiltSeen => tilted[currentPlayer]

=============================================================================
