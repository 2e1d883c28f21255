--------------------------- MODULE BallTroughWatch ---------------------------
(***************************************************************************)
(* Gives an engine the edge it missed on the ball trough switch            *)
(* (src/BallTroughWatch.cpp): a ball that rests there for Grace ticks of a *)
(* game is presented again, as an opening and, Gap ticks later, a closing. *)
(***************************************************************************)
EXTENDS Integers

CONSTANTS
  Grace,               \* opt_ball_trough_grace_ms
  Gap                  \* kTroughRepresentGapMs

Never == -1

VARIABLES
  closedAge,           \* since closedSinceMs; Grace: that long or longer; Never: open
  representLeft        \* until representAtMs; Never: no closing is owed

watchVars == <<closedAge, representLeft>>

NoteSwitch(on) ==
  /\ closedAge' = IF on THEN 0 ELSE Never
  /\ representLeft' = Never

Overdue == closedAge >= Grace

\* The delay from the opening to the closing.
ClosingDelay_bug == Grace               \* the grace period, not the gap
ClosingDelay == Gap

\* Update: the action it returns is its last parameter.
WatchUpdate(gameRunning, action) ==
  \/ /\ representLeft = Never /\ gameRunning /\ Overdue
     /\ action = "sendOpen"
     /\ closedAge' = 0 /\ representLeft' = ClosingDelay
  \/ /\ representLeft = Never /\ ~(gameRunning /\ Overdue)
     /\ action = "none" /\ UNCHANGED watchVars
  \/ /\ representLeft = 0               \* finished even if the game ended in between
     /\ action = "sendClose"
     /\ representLeft' = Never /\ UNCHANGED closedAge
  \/ /\ representLeft > 0
     /\ action = "none" /\ UNCHANGED watchVars

WatchTick ==
  /\ closedAge' = IF closedAge \in 0 .. Grace - 1 THEN closedAge + 1 ELSE closedAge
  /\ representLeft' = IF representLeft > 0 THEN representLeft - 1 ELSE representLeft

WatchInit == closedAge = Never /\ representLeft = Never

=============================================================================
