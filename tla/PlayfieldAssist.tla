---------------------------- MODULE PlayfieldAssist ----------------------------
(***************************************************************************)
(* Tilt warnings and ball save (src/game/PlayfieldAssist.cpp): a filter in *)
(* the switch path that decides which closures an engine gets to see.      *)
(*                                                                         *)
(* A switch is represented by its role; ProcessSwitch carries the decision *)
(* as its last parameter. Times are counted down in ticks: 0 means due.    *)
(* The lamps and the events that only reach the log are left out.          *)
(***************************************************************************)
EXTENDS Integers, Sequences

CONSTANTS
  MaxPlayers,
  Warnings, Debounce, Blanking,          \* TiltAssistConfig
  SaveEnabled, SaveDuration, StartOn, HasLaneSwitch, HasPlayfieldSwitches,
  MaxSaves, OnlyOnBalls,                 \* BallSaveConfig
  Grants,                                \* durations the rules grant (ppuc.ballSave)
  BallNumbers,                           \* the balls an engine reports, 0 for none
  MaxEvents                              \* bound: events queued between two Services

NoSave == -1
Roles == {"slam", "tilt", "lane", "drain", "playfield"}

ASSUME AssistAssumption ==
  /\ MaxPlayers \in Nat /\ Warnings \in Nat /\ Debounce \in Nat /\ Blanking \in Nat
  /\ SaveEnabled \in BOOLEAN /\ HasLaneSwitch \in BOOLEAN /\ HasPlayfieldSwitches \in BOOLEAN
  /\ SaveDuration \in Nat \ {0} /\ Grants \subseteq Nat
  /\ StartOn \in {"TroughExit", "ShooterLane", "FirstPlayfieldSwitch"}
  /\ MaxSaves \in Nat /\ OnlyOnBalls \subseteq Nat /\ BallNumbers \subseteq Nat
  /\ MaxEvents \in Nat

VARIABLES
  counted, ballNumber,       \* m_currentPlayer, m_currentBall
  playActive, tiltSeen,      \* m_playActive, m_tilted
  used,                      \* warnings used, by player (0: nobody)
  sinceHit,                  \* since m_lastTiltHitMs; Debounce: long ago or never
  blanked,                   \* until m_tiltBlankedUntilMs
  saveLeft,                  \* until m_ballSaveUntilMs, or NoSave
  saves, pending,            \* m_savesThisBall, m_ballSavePending
  events                     \* m_events that the host acts on

play  == <<counted, ballNumber, playActive>>
bob   == <<tiltSeen, used, sinceHit, blanked>>
save  == <<saveLeft, saves, pending>>
assistVars == <<play, bob, save, events>>

\* SetBallSaveConfig: a trigger whose switches are not fitted falls back.
Trigger ==
  IF \/ StartOn = "ShooterLane" /\ ~HasLaneSwitch
     \/ StartOn = "FirstPlayfieldSwitch" /\ ~HasPlayfieldSwitches
  THEN "TroughExit" ELSE StartOn

SaveActive == saveLeft # NoSave

BallSaveAllowed(ball) == OnlyOnBalls = {} \/ ball \in OnlyOnBalls

-----------------------------------------------------------------------------
(* What the host tells it                                                  *)

SetCurrentPlayer(player) ==
  /\ counted' = player
  /\ UNCHANGED <<ballNumber, playActive, bob, save, events>>

SetPlayActive(active) ==
  /\ playActive' = active
  /\ tiltSeen' = (tiltSeen /\ ~active)
  /\ saveLeft' = IF active THEN saveLeft ELSE NoSave
  /\ pending' = (pending /\ active)
  /\ UNCHANGED <<counted, ballNumber, used, sinceHit, blanked, saves, events>>

OnBallStart(ball) ==
  /\ ballNumber' = ball
  /\ playActive' = TRUE
  /\ tiltSeen' = FALSE
  /\ used' = [used EXCEPT ![counted] = 0]
  /\ sinceHit' = Debounce /\ blanked' = 0
  /\ saves' = 0 /\ saveLeft' = NoSave
  /\ pending' = (SaveEnabled /\ BallSaveAllowed(ball))
  /\ UNCHANGED <<counted, events>>

OnBallEnd ==
  /\ playActive' = FALSE
  /\ pending' = FALSE
  /\ saveLeft' = NoSave
  /\ UNCHANGED <<counted, ballNumber, bob, saves, events>>

\* ArmBallSave extends a save, it never shortens one.
ArmBallSave_again(duration) ==           \* leaves the trigger waiting
  UNCHANGED pending /\ saveLeft' = IF duration <= saveLeft THEN saveLeft ELSE duration
ArmBallSave(duration) ==
  IF duration <= saveLeft
  THEN UNCHANGED <<saveLeft, pending>>
  ELSE saveLeft' = duration /\ pending' = FALSE

GrantBallSave(duration) ==
  /\ duration # 0
  /\ ArmBallSave(duration)
  /\ UNCHANGED <<play, bob, saves, events>>

-----------------------------------------------------------------------------
(* ProcessSwitch: each case names the decision it takes                    *)

Queue(event) == Len(events) < MaxEvents /\ events' = Append(events, event)

SlamHit(forward) ==
  /\ forward
  /\ tiltSeen' = TRUE
  /\ saveLeft' = NoSave
  /\ Queue("slamTilt")
  /\ UNCHANGED <<play, used, sinceHit, blanked, saves, pending>>

\* Outside play, after the tilt, while blanked, or the same swing of the bob.
HitIgnored == ~playActive \/ tiltSeen \/ blanked > 0 \/ sinceHit < Debounce

AllowanceSpent == used[counted] >= Warnings

BobHit(forward) ==
  \/ /\ ~forward /\ HitIgnored
     /\ UNCHANGED assistVars
  \/ /\ ~forward /\ ~HitIgnored /\ ~AllowanceSpent
     /\ used' = [used EXCEPT ![counted] = @ + 1]
     /\ sinceHit' = 0 /\ blanked' = Blanking
     /\ UNCHANGED <<play, tiltSeen, save, events>>
  \/ /\ forward /\ ~HitIgnored /\ AllowanceSpent
     /\ tiltSeen' = TRUE
     /\ sinceHit' = 0
     /\ saveLeft' = NoSave
     /\ Queue("tilt")
     /\ UNCHANGED <<play, used, blanked, saves, pending>>

\* The edge that starts the configured save.
IsTrigger(role, on) ==
  \/ role = "lane" /\ ~on /\ Trigger = "ShooterLane"
  \/ role = "drain" /\ ~on /\ Trigger = "TroughExit"
  \/ role = "playfield" /\ on /\ Trigger = "FirstPlayfieldSwitch"

Saves_bug == SaveActive /\ (MaxSaves # 0 => saves < MaxSaves)   \* also when tilted
Saves == SaveActive /\ ~tiltSeen /\ (MaxSaves # 0 => saves < MaxSaves)

\* A drain during a save: hidden from the engine, the ball is kicked out again.
SaveBall(forward) ==
  /\ ~forward
  /\ saves' = IF MaxSaves # 0 THEN saves + 1 ELSE saves   \* only compared with a limit
  /\ saveLeft' = IF MaxSaves # 0 /\ saves + 1 >= MaxSaves THEN NoSave ELSE saveLeft
  /\ UNCHANGED <<play, bob, pending, events>>

PlaySwitch(role, on, forward) ==
  IF playActive /\ role = "drain" /\ on /\ Saves
  THEN SaveBall(forward)
  ELSE /\ forward
       /\ IF playActive /\ pending /\ IsTrigger(role, on)
          THEN ArmBallSave(SaveDuration)
          ELSE UNCHANGED <<saveLeft, pending>>
       /\ UNCHANGED <<play, bob, saves, events>>

ProcessSwitch(role, on, forward) ==
  IF role = "slam" /\ on THEN SlamHit(forward)
  ELSE IF role = "tilt" /\ on THEN BobHit(forward)
  ELSE PlaySwitch(role, on, forward)

-----------------------------------------------------------------------------
(* The clock and Update                                                    *)

AssistTick ==
  /\ sinceHit' = IF sinceHit < Debounce THEN sinceHit + 1 ELSE sinceHit
  /\ blanked' = IF blanked > 0 THEN blanked - 1 ELSE 0
  /\ saveLeft' = IF saveLeft > 0 THEN saveLeft - 1 ELSE saveLeft
  /\ UNCHANGED <<play, tiltSeen, used, saves, pending, events>>

\* A save that ran out is over only once Update has noticed.
AssistUpdate ==
  /\ saveLeft' = IF saveLeft = 0 THEN NoSave ELSE saveLeft
  /\ UNCHANGED <<play, bob, saves, pending, events>>

\* TakeEvents, one event at a time.
TakeEvent ==
  /\ events # <<>>
  /\ events' = Tail(events)
  /\ UNCHANGED <<play, bob, save>>

Init ==
  /\ counted = 0 /\ ballNumber = 0
  /\ playActive = FALSE /\ tiltSeen = FALSE
  /\ used = [p \in 0 .. MaxPlayers |-> 0]
  /\ sinceHit = Debounce /\ blanked = 0
  /\ saveLeft = NoSave /\ saves = 0 /\ pending = FALSE
  /\ events = <<>>

-----------------------------------------------------------------------------
(* On its own, under any host: the engines call when and what they like    *)

HostCalls ==
  \/ \E player \in 0 .. MaxPlayers : SetCurrentPlayer(player)
  \/ \E active \in BOOLEAN : SetPlayActive(active)
  \/ \E ball \in BallNumbers \ {0} : OnBallStart(ball)
  \/ 0 \in BallNumbers /\ OnBallEnd
  \/ \E duration \in Grants : GrantBallSave(duration)

Fitted(role) ==
  /\ role = "lane" => HasLaneSwitch
  /\ role = "playfield" => HasPlayfieldSwitches

AnySwitch ==
  \E role \in Roles, on, forward \in BOOLEAN : Fitted(role) /\ ProcessSwitch(role, on, forward)

Next == HostCalls \/ AnySwitch \/ AssistTick \/ AssistUpdate \/ TakeEvent

Spec == Init /\ [][Next]_assistVars

-----------------------------------------------------------------------------
(* Properties                                                              *)

\* No player is charged more warnings than the allowance and no ball is saved
\* more often than its limit (the rest is typing).
TypeOK ==
  /\ counted \in 0 .. MaxPlayers /\ ballNumber \in Nat
  /\ playActive \in BOOLEAN /\ tiltSeen \in BOOLEAN /\ pending \in BOOLEAN
  /\ used \in [0 .. MaxPlayers -> 0 .. Warnings]
  /\ sinceHit \in Nat /\ blanked \in Nat
  /\ saveLeft \in Nat \cup {NoSave}
  /\ saves \in 0 .. MaxSaves
  /\ events \in Seq({"tilt", "slamTilt"})

\* A tilted ball is meant to be lost: until the next ball no drain is hidden,
\* although a waiting trigger or a grant of the rules still arms a save.
LosesTiltedBall == tiltSeen /\ tiltSeen' => saves' = saves
TiltedBallIsLost == [][LosesTiltedBall]_assistVars

\* A grant during a save, or a trigger after a grant, never shortens the save:
\* while it lasts it loses time to the clock alone (ArmBallSave).
KeepsSave == SaveActive /\ saveLeft' # NoSave => saveLeft' >= saveLeft - 1
SaveNeverShortened == [][KeepsSave]_assistVars

\* Once a save has started, by trigger or by grant, the trigger of that ball is
\* used up: a ball that passes the lane again does not start a second one.
TriggerUsedUp == SaveActive => ~pending

=============================================================================
