----------------------------- MODULE ServiceTools -----------------------------
(***************************************************************************)
(* The tools on the backbox screen: menu, monitor, volume, service tests   *)
(* and the two confirmed ways to end the session                           *)
(* (src/src/ppuc.cpp, HandleOverlayKey and what it calls).                 *)
(*                                                                         *)
(* The tools run on the main loop and drive the boards directly, or by a   *)
(* pulse through the interceptor; behind them the engine may be frozen, or *)
(* may not (SetPaused answers false for a script game), and its thread     *)
(* goes on starting games and driving outputs.  The flag of a running game *)
(* and the switch of the music are shared without a lock: the engine's     *)
(* thread stores the one and then sets the other, a test that closes lets  *)
(* the engine go, reads the one and then sets the other.  A pulse ends at  *)
(* any time; so does a phase of the walk.  Drawing, texts and volumes are  *)
(* left out, and the cursor of the two menus may be on any line.           *)
(***************************************************************************)
EXTENDS Integers, Sequences, FiniteSets

CONSTANTS
  Steps,        \* for each kind of test but the switches: the devices it lists
  Momentary,    \* the kinds whose devices fire instead of staying lit
  Freezes       \* the answers of SetPaused: FALSE is a script game, which runs on

Kinds == DOMAIN Steps \cup {"Switches"}
Range1(s) == {s[i] : i \in DOMAIN s}
Devices == UNION {Range1(Steps[k]) : k \in DOMAIN Steps}
Coils == UNION {Range1(Steps[k]) : k \in Momentary}

ASSUME KindsAssumption ==
  /\ Momentary \subseteq DOMAIN Steps
  /\ \A k \in DOMAIN Steps : Steps[k] \in Seq(Devices) \ {<<>>}
  /\ Freezes \subseteq BOOLEAN

VARIABLES
  overlay,      \* g_overlay
  pending,      \* g_pendingAction, with g_pendingTestIndex as the kind
  confirmYes,   \* g_confirmYes
  test,         \* g_serviceTest
  rows,         \* g_serviceTest.rows: which outputs the test believes are on
  out,          \* what the boards were last told of each device
  wanted,       \* what the engine last wanted of it
  pulse,        \* the interceptor's pulse on it has not ended
  gi,           \* GI string 1, which the engine has switched on
  power,        \* the game-on solenoid
  monitor,      \* g_monitorRaisedGameOn and whether its wait is over
  closing,      \* where CloseServiceTest is: "no", "freed", "read"
  seen,         \* the game as it read it, until it has acted on it
  game,         \* ball_search_game_running
  toldMusic,    \* the engine has set the music to it as well
  toldPower,    \* and driven the game-on solenoid
  music,        \* musicEnabled_
  running,      \* the main loop's running
  reflex,       \* ghost: only ENTER has been pressed since the menu
  stale         \* ghost: a test closed on a game that was no longer so

vars == <<overlay, pending, confirmYes, test, rows, out, wanted, pulse, gi, power, monitor,
          closing, seen, game, toldMusic, toldPower, music, running, reflex, stale>>
menuVars == <<pending, confirmYes, running>>
boardVars == <<out, wanted, pulse, gi>>
gameVars == <<game, toldMusic, toldPower>>
closeVars == <<closing, seen, stale>>

NoTest == [kind |-> "Switches", walking |-> FALSE, walkOn |-> FALSE,
           walkIndex |-> 1, selection |-> 1, paused |-> FALSE, raised |-> FALSE]
List(kind) == IF kind = "Switches" THEN <<>> ELSE Steps[kind]

Init ==
  /\ overlay = "None" /\ pending = "None" /\ confirmYes = FALSE
  /\ test = NoTest /\ rows = {}
  /\ out = [d \in Devices |-> FALSE]
  /\ wanted = [d \in Devices |-> FALSE]
  /\ pulse = [d \in Devices |-> FALSE]
  /\ gi = TRUE /\ power = FALSE
  /\ monitor = [raised |-> FALSE, ready |-> FALSE]
  /\ closing = "no" /\ seen = FALSE
  /\ game = FALSE /\ toldMusic = TRUE /\ toldPower = TRUE
  /\ music = FALSE /\ running = TRUE /\ reflex = FALSE /\ stale = FALSE

-----------------------------------------------------------------------------
(* The service test. *)

\* SetTestOutput for the devices at these indices.
Drive(indices, on) ==
  [d \in Devices |->
    IF \E i \in indices : List(test.kind)[i] = d THEN on ELSE out[d]]

AllTestOutputsOff_selected ==
  /\ out' = Drive(rows \cap {test.selection}, FALSE)
  /\ rows' = {}

\* AllTestOutputsOff: rows that are off already are passed over.
AllTestOutputsOff ==
  /\ out' = Drive(rows, FALSE)
  /\ rows' = {}

\* CreateBenchTestRunner darkens the playfield for a lamp test.
OpenServiceTest(kind) ==
  LET raises == kind \in Momentary /\ ~game
  IN  /\ \E frozen \in Freezes :
           test' = [NoTest EXCEPT !.kind = kind, !.paused = frozen, !.raised = raises]
      /\ rows' = {}
      /\ gi' = (gi /\ kind # "Lamps")
      /\ power' = (power \/ raises)
      /\ music' = FALSE
      /\ overlay' = "Test"

\* Up to where the engine runs again, which is before the game is looked at.  What
\* the code clears only after that, nothing looks at in between.
CloseServiceTest ==
  /\ AllTestOutputsOff
  /\ power' = (power /\ ~test.raised)
  /\ test' = NoTest
  /\ closing' = "freed"

ReadGame ==
  /\ closing = "freed"
  /\ closing' = "read"
  /\ seen' = game
  /\ UNCHANGED <<overlay, test, rows, boardVars, power, monitor, music, menuVars, gameVars, reflex, stale>>

\* The music as the game was, and the screen changes.
LeaveServiceTest ==
  /\ closing = "read"
  /\ closing' = "no"
  /\ music' = seen /\ seen' = FALSE
  /\ stale' = (toldMusic /\ seen # game)
  /\ overlay' = "Tests"
  /\ UNCHANGED <<test, rows, boardVars, power, monitor, menuVars, gameVars, reflex>>

\* ServiceTestWalk, when the time of the phase is over.
Turn(i) == (i % Len(Steps[test.kind])) + 1
ServiceTestWalk ==
  /\ overlay = "Test" /\ test.walking
  /\ IF test.walkOn
     THEN /\ out' = Drive({test.walkIndex}, FALSE)
          /\ rows' = rows \ {test.walkIndex}
          /\ test' = [test EXCEPT !.walkOn = FALSE, !.walkIndex = Turn(@)]
     ELSE /\ out' = Drive({test.walkIndex}, TRUE)
          /\ rows' = rows \cup {test.walkIndex}
          /\ test' = [test EXCEPT !.walkOn = TRUE, !.selection = test.walkIndex]
  /\ UNCHANGED <<overlay, wanted, pulse, gi, power, monitor, music, menuVars, gameVars, closeVars, reflex>>

ToggleServiceTestWalk ==
  /\ test.kind # "Switches"
  /\ AllTestOutputsOff
  /\ test' = [test EXCEPT !.walking = ~@,
                          !.walkIndex = IF test.walking THEN @ ELSE test.selection,
                          !.walkOn = IF test.walking THEN @ ELSE FALSE]

\* InterceptorOutputOverrides::PulseCoil.
PulseCoil(d) ==
  /\ out' = [out EXCEPT ![d] = TRUE]
  /\ pulse' = [pulse EXCEPT ![d] = TRUE]

\* A pulse for what fires, a toggle for what lights; either ends the walk.
FireSelectedTestOutput ==
  /\ test.kind # "Switches"
  /\ test' = [test EXCEPT !.walking = FALSE]
  /\ \/ /\ test.kind \in Momentary
        /\ PulseCoil(Steps[test.kind][test.selection])
        /\ UNCHANGED rows
     \/ /\ test.kind \notin Momentary
        /\ out' = Drive({test.selection}, test.selection \notin rows)
        /\ rows' = IF test.selection \in rows THEN rows \ {test.selection}
                   ELSE rows \cup {test.selection}
        /\ UNCHANGED pulse

-----------------------------------------------------------------------------
(* The monitor. *)

MonitorReleaseGameOn ==
  /\ power' = (power /\ ~monitor.raised)
  /\ monitor' = [raised |-> FALSE, ready |-> FALSE]

\* The first press raises the power, the next one after the wait fires.
FireSelectedCoil ==
  \/ /\ ~game /\ ~monitor.raised
     /\ power' = TRUE
     /\ monitor' = [raised |-> TRUE, ready |-> FALSE]
     /\ UNCHANGED <<out, pulse>>
  \/ /\ game \/ (monitor.raised /\ monitor.ready)
     /\ \E d \in Coils : PulseCoil(d)
     /\ UNCHANGED <<power, monitor>>

PowerReady ==
  /\ monitor.raised /\ ~monitor.ready
  /\ monitor' = [monitor EXCEPT !.ready = TRUE]
  /\ UNCHANGED <<overlay, test, rows, boardVars, power, music, menuVars, gameVars, closeVars, reflex>>

-----------------------------------------------------------------------------
(* HandleOverlayKey. *)

Space ==
  /\ overlay = "None"
  /\ overlay' = "Menu"
  /\ reflex' = TRUE
  /\ UNCHANGED <<test, rows, boardVars, power, monitor, music, menuVars>>

\* CloseOverlay; with a window of its own or not it ends the tools.
CloseOverlay ==
  /\ MonitorReleaseGameOn
  /\ overlay' = "None"

Escape ==
  /\ overlay # "None"
  /\ reflex' = FALSE
  /\ \/ /\ overlay = "Menu"
        /\ CloseOverlay
        /\ UNCHANGED <<test, rows, out, closing>>
     \/ /\ overlay = "Test"
        /\ CloseServiceTest
        /\ UNCHANGED <<overlay, monitor>>
     \/ /\ overlay \notin {"Menu", "Test"}
        /\ IF overlay = "Monitor" THEN MonitorReleaseGameOn ELSE UNCHANGED <<power, monitor>>
        /\ overlay' = "Menu"
        /\ UNCHANGED <<test, rows, out, closing>>
  /\ UNCHANGED <<wanted, pulse, gi, music, menuVars>>

\* Up and down, left and right: the cursor of a test, the answer of Confirm.
Cursor ==
  /\ reflex' = FALSE
  /\ \/ /\ overlay = "Test" /\ test.kind # "Switches"
        /\ \E i \in DOMAIN Steps[test.kind] \ {test.selection} :
             test' = [test EXCEPT !.selection = i]
        /\ UNCHANGED confirmYes
     \/ /\ overlay = "Confirm"
        /\ confirmYes' = ~confirmYes
        /\ UNCHANGED test
  /\ UNCHANGED <<overlay, pending, rows, boardVars, power, monitor, music, running>>

Open(screen, action) ==
  /\ overlay' = screen
  /\ pending' = action
  /\ confirmYes' = FALSE

EnterMenu ==
  /\ overlay = "Menu"
  /\ \/ \E screen \in {"Monitor", "Volume", "Tests"} : Open(screen, "None")
     \/ \E action \in {"RestartPpuc", "PowerOff"} : Open("Confirm", action)
  /\ UNCHANGED <<test, rows, boardVars, power, monitor, music, running>>

EnterMonitor ==
  /\ overlay = "Monitor"
  /\ FireSelectedCoil
  /\ UNCHANGED <<overlay, test, rows, wanted, gi, music, menuVars>>

\* RequestServiceTest: a test that throws a ball is asked for twice in a game.
EnterTests ==
  /\ overlay = "Tests"
  /\ \E kind \in Kinds :
       IF kind \in Momentary /\ game
       THEN /\ Open("Confirm", kind)
            /\ UNCHANGED <<test, rows, gi, power, music>>
       ELSE /\ OpenServiceTest(kind)
            /\ UNCHANGED <<pending, confirmYes>>
  /\ UNCHANGED <<out, wanted, pulse, monitor, running>>

EnterTest ==
  /\ overlay = "Test"
  /\ FireSelectedTestOutput
  /\ UNCHANGED <<overlay, wanted, gi, power, monitor, music, menuVars>>

\* PerformPendingAction, or the way back.
EnterConfirm ==
  /\ overlay = "Confirm"
  /\ UNCHANGED <<out, wanted, pulse, monitor, confirmYes>>
  /\ \/ /\ confirmYes /\ pending \in Kinds
        /\ OpenServiceTest(pending)
        /\ pending' = "None"
        /\ UNCHANGED running
     \/ /\ confirmYes /\ pending \notin Kinds
        /\ running' = FALSE
        /\ overlay' = "Menu"
        /\ UNCHANGED <<pending, test, rows, gi, power, music>>
     \/ /\ ~confirmYes
        /\ overlay' = IF pending \in Kinds THEN "Tests" ELSE "Menu"
        /\ pending' = IF pending \in Kinds THEN "None" ELSE pending
        /\ UNCHANGED <<test, rows, gi, power, music, running>>

Enter ==
  /\ \/ EnterMenu \/ EnterMonitor \/ EnterTests \/ EnterTest \/ EnterConfirm
  /\ UNCHANGED reflex

KeyA ==
  /\ overlay = "Test"
  /\ ToggleServiceTestWalk
  /\ reflex' = FALSE
  /\ UNCHANGED <<overlay, wanted, pulse, gi, power, monitor, music, menuVars>>

-----------------------------------------------------------------------------
(* The interceptor's Service, and the engine's thread. *)

PulseEnds(d) ==
  /\ pulse[d]
  /\ pulse' = [pulse EXCEPT ![d] = FALSE]
  /\ out' = [out EXCEPT ![d] = wanted[d]]
  /\ UNCHANGED <<overlay, test, rows, wanted, gi, power, monitor, music, menuVars, gameVars, closeVars, reflex>>

\* OnGameRunningChanged: the flag, then the music; then the solenoid that goes with it.
GameChanges ==
  /\ ~test.paused /\ toldMusic /\ toldPower
  /\ game' = ~game
  /\ toldMusic' = FALSE /\ toldPower' = FALSE
  /\ UNCHANGED <<overlay, test, rows, boardVars, power, monitor, music, menuVars, closeVars, reflex>>

EnableMusic ==
  /\ ~toldMusic
  /\ music' = game
  /\ toldMusic' = TRUE
  /\ stale' = FALSE
  /\ UNCHANGED <<overlay, test, rows, boardVars, power, monitor, closing, seen, game, toldPower, menuVars, reflex>>

EnginePower ==
  /\ toldMusic /\ ~toldPower
  /\ power' = game
  /\ toldPower' = TRUE
  /\ UNCHANGED <<overlay, test, rows, boardVars, monitor, game, toldMusic, music, menuVars, closeVars, reflex>>

\* A pulse hides what the engine says of a coil until it ends.
EngineDrives(d) ==
  /\ ~test.paused
  /\ wanted' = [wanted EXCEPT ![d] = ~@]
  /\ out' = IF pulse[d] THEN out ELSE [out EXCEPT ![d] = ~wanted[d]]
  /\ UNCHANGED <<overlay, test, rows, pulse, gi, power, monitor, music, menuVars, gameVars, closeVars, reflex>>

-----------------------------------------------------------------------------
\* The next key is looked at when the handler of the last one is done.
Key ==
  /\ running /\ closing = "no"
  /\ \/ Escape
     \/ UNCHANGED closing /\ (Space \/ Cursor \/ Enter \/ KeyA)
  /\ UNCHANGED <<gameVars, seen, stale>>

Next ==
  \/ Key
  \/ running /\ ServiceTestWalk
  \/ running /\ PowerReady
  \/ ReadGame
  \/ LeaveServiceTest
  \/ \E d \in Devices : PulseEnds(d) \/ EngineDrives(d)
  \/ GameChanges
  \/ EnableMusic
  \/ EnginePower

Spec == Init /\ [][Next]_vars

-----------------------------------------------------------------------------
(* Properties. *)

TypeOK ==
  /\ overlay \in {"None", "Menu", "Monitor", "Volume", "Tests", "Test", "Confirm"}
  /\ pending \in Kinds \cup {"None", "RestartPpuc", "PowerOff"}
  /\ rows \subseteq DOMAIN List(test.kind)
  /\ test.selection \in DOMAIN List(test.kind) \cup {1}
  /\ test.walkIndex \in DOMAIN List(test.kind) \cup {1}
  /\ test.walking => test.kind # "Switches"
  /\ \A d \in Devices : out[d] \in BOOLEAN /\ wanted[d] \in BOOLEAN /\ pulse[d] \in BOOLEAN
  /\ monitor.ready => monitor.raised
  /\ closing \in {"no", "freed", "read"} /\ seen \in BOOLEAN

\* Where no test is, or one is being left.
NoTestRuns == overlay # "Test" \/ closing # "no"

\* Outside a test a coil is on only because the engine wants it on or a pulse
\* runs: "leaving a test can never leave a coil held", for "everything" is off
\* "before the screen changes" (HandleOverlayKey).
CoilsReleased ==
  NoTestRuns => \A d \in Coils : out[d] => wanted[d] \/ pulse[d]

\* A test holds at most one of the devices that fire at a time, whatever the
\* order of walking, stopping, firing and moving the cursor.
OneCoilAtATime == test.kind \in Momentary => Cardinality(rows) <= 1

\* High power that a tool raised is lowered by the time no tool holds it.
PowerReturned ==
  ~game /\ toldPower /\ ~test.raised /\ ~monitor.raised => ~power

\* Outside a test the engine runs, and the music is "back to whatever the game
\* is doing" (CloseServiceTest), when the engine has set it as well and the test
\* was not closed on a game that had changed since it was looked at.
GamePickedUp ==
  /\ NoTestRuns => ~test.paused
  /\ overlay # "Test" /\ toldMusic /\ ~stale => music = game

\* ENTER alone, however often, never ends the session (g_confirmYes: "a menu
\* that ends the game if ENTER is pressed twice by reflex is a menu nobody
\* should open during a game").
NoReflexEnd == ~running => ~reflex

\* The comment of OpenServiceTest: lowering high power during a game would not
\* be harmless.  Refuted: a game that starts behind the monitor, or behind the
\* test of a script game, loses its power when the tool is left.
GamePowered == game /\ toldPower => power

\* "A coil fires and is done" (TestOutputIsMomentary).  Refuted: ENTER on
\* another coil ends the walk and leaves its coil on until the test is left.
OnlyTheWalkHolds ==
  test.kind \in Momentary /\ ~test.walking =>
    \A i \in rows : LET d == Steps[test.kind][i] IN out[d] => wanted[d] \/ pulse[d]

\* "The game can be picked up again afterwards."  Refuted: a lamp the game had
\* on is off after a test that lit it, and GI string 1 after any lamp test.
LampsPickedUp ==
  overlay # "Test" => gi /\ \A d \in Devices \ Coils : wanted[d] => out[d]
=============================================================================
