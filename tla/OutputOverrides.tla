-------------------------- MODULE OutputOverrides --------------------------
(***************************************************************************)
(* The coils and lamps of the machine and everybody who switches them:     *)
(* the engine, on its own thread; the rules, whose pulses and blinks       *)
(* override the engine for a while (InterceptorOutputOverrides); and the   *)
(* ball search, which drives the boards directly.  The main loop services  *)
(* overrides and search; the engine's thread runs at any moment.           *)
(*                                                                         *)
(* Times are what is left of them, in ticks of the main loop's sleep.      *)
(***************************************************************************)
EXTENDS Integers, Sequences, SequencesExt

CONSTANTS Coils, Lamps,
          SearchSteps,      \* BallSearchRunner::steps: the coils of a round
          PulseTicks,       \* the durations rules ask for
          BlinkTicks,       \* onMs = offMs of a blinking lamp
          SearchDelay, RoundDelay, SearchPulse,
          Suppressible      \* the coil states a rule may keep from the board

ASSUME OutputsAssumption ==
  /\ Coils \subseteq Nat
  /\ SearchSteps \in Seq(Coils)
  /\ PulseTicks \subseteq Nat \ {0}
  /\ {BlinkTicks, SearchDelay, RoundDelay, SearchPulse} \subseteq Nat \ {0}
  /\ Suppressible \subseteq {0, 1}

VARIABLES
  pc,           \* where the main loop is
  engineCoils,  \* what the engine wants, driven or not
  coilPulses,   \* what is left of a rule's pulse; NoPulse without an entry
  coils,        \* what the boards were told
  asked,        \* the engine thread between the rules' answer and the board
  wanted,       \* what the engine asked for last, recorded or not
  refused,      \* the coils whose last state a rule kept from the board
  engineLamps, lampBlinks, lamps,
  search,       \* BallSearchRunner
  buttons,      \* a button is pressed, as currentSwitchStates has it
  held,         \* g_ballSearchHeld
  gameRunning   \* ball_search_game_running

coilVars == <<engineCoils, coilPulses, coils, asked, wanted, refused>>
lampVars == <<engineLamps, lampBlinks, lamps>>
searchVars == <<search, buttons, held, gameRunning>>
vars == <<pc, coilVars, lampVars, searchVars>>

NoPulse == -1
NoAsk == [coil |-> -1]
NoBlink == [left |-> 0, on |-> 2]
State == {0, 1}
(* A round is running exactly while one of its coils is on (runningRound). *)
Idle(ticks) == [idle |-> ticks, phase |-> 0, index |-> 1, active |-> FALSE]

Init ==
  /\ pc = "switches"
  /\ engineCoils = [c \in Coils |-> 0]
  /\ coilPulses = [c \in Coils |-> NoPulse]
  /\ coils = [c \in Coils |-> 0]
  /\ asked = NoAsk
  /\ wanted = [c \in Coils |-> 0]
  /\ refused = {}
  /\ engineLamps = [l \in Lamps |-> 0]
  /\ lampBlinks = [l \in Lamps |-> NoBlink]
  /\ lamps = [l \in Lamps |-> 0]
  /\ search = Idle(SearchDelay)
  /\ buttons = FALSE
  /\ held = FALSE
  /\ gameRunning = FALSE

---------------------------------------------------------------------------
\* The engine's thread.

(* The rules answer before the board is driven, under their own lock. *)
AskRules(c, v) ==
  /\ asked = NoAsk
  /\ \E drive \in {TRUE} \cup {v \notin Suppressible} :
       asked' = [coil |-> c, value |-> v, drive |-> drive]
  /\ wanted' = [wanted EXCEPT ![c] = v]
  /\ UNCHANGED <<pc, engineCoils, coilPulses, coils, refused, lampVars, searchVars>>

Driven_bug(c, v) == v

Driven(c, v) == IF coilPulses[c] > 0 THEN 1 ELSE v

(* The answer is carried out under the interceptor's lock. *)
ApplyEngineCoil ==
  /\ asked # NoAsk
  /\ LET c == asked.coil IN
     /\ engineCoils' = [engineCoils EXCEPT ![c] = asked.value]
     /\ coils' = IF asked.drive
                 THEN [coils EXCEPT ![c] = Driven(c, asked.value)]
                 ELSE coils
     /\ refused' = IF asked.drive THEN refused \ {c} ELSE refused \cup {c}
  /\ asked' = NoAsk
  /\ UNCHANGED <<pc, coilPulses, wanted, lampVars, searchVars>>

(* At a new plan the engine states a coil without asking the rules. *)
OnCoilStateSync(c, v) ==
  /\ asked = NoAsk
  /\ engineCoils' = [engineCoils EXCEPT ![c] = v]
  /\ coils' = [coils EXCEPT ![c] = Driven(c, v)]
  /\ wanted' = [wanted EXCEPT ![c] = v]
  /\ refused' = refused \ {c}
  /\ UNCHANGED <<pc, coilPulses, asked, lampVars, searchVars>>

OnGameRunningChanged ==
  /\ asked = NoAsk
  /\ gameRunning' = ~gameRunning
  /\ UNCHANGED <<pc, coilVars, lampVars, search, buttons, held>>

EngineThread ==
  \/ \E c \in Coils, v \in State : AskRules(c, v) \/ OnCoilStateSync(c, v)
  \/ ApplyEngineCoil
  \/ OnGameRunningChanged

---------------------------------------------------------------------------
\* What a Lua handler may ask for, on whichever thread it runs.

Longer(a, b) == IF a > b THEN a ELSE b

PulseCoil(c, ticks) ==
  /\ coilPulses' = [coilPulses EXCEPT ![c] = Longer(ticks, @)]
  /\ coils' = [coils EXCEPT ![c] = 1]
  /\ UNCHANGED <<pc, engineCoils, asked, wanted, refused, lampVars, searchVars>>

(* A lamp that blinks already only takes the new periods. *)
StartBlinkLamp(l) ==
  /\ lampBlinks[l] = NoBlink
  /\ lampBlinks' = [lampBlinks EXCEPT ![l] = [left |-> BlinkTicks, on |-> 1]]
  /\ lamps' = [lamps EXCEPT ![l] = 1]
  /\ UNCHANGED <<pc, coilVars, engineLamps, searchVars>>

StopBlinkLamp(l) ==
  /\ lampBlinks' = [lampBlinks EXCEPT ![l] = NoBlink]
  /\ lamps' = [lamps EXCEPT ![l] = engineLamps[l]]
  /\ UNCHANGED <<pc, coilVars, engineLamps, searchVars>>

HoldBallSearch(hold) ==
  /\ held' = hold
  /\ UNCHANGED <<pc, coilVars, lampVars, search, buttons, gameRunning>>

HandleAction ==
  \/ \E c \in Coils, t \in PulseTicks : PulseCoil(c, t)
  \/ \E l \in Lamps : StartBlinkLamp(l) \/ StopBlinkLamp(l)
  \/ \E hold \in BOOLEAN : HoldBallSearch(hold)

---------------------------------------------------------------------------
\* The main loop.

Goto(stage) == pc' = stage

SearchCoil == SearchSteps[search.index]

CancelCoil_bug == coils

(* CancelActiveBallSearch: a coil the search switched on is switched off. *)
CancelCoil ==
  IF search.active THEN [coils EXCEPT ![SearchCoil] = 0] ELSE coils

(* NoteBallSearchSwitchUpdate, for a button and for the playfield. *)
Button ==
  /\ pc = "switches"
  /\ buttons' = ~buttons
  /\ UNCHANGED <<pc, coilVars, lampVars, search, held, gameRunning>>

PlayfieldSwitch ==
  /\ pc = "switches"
  /\ coils' = CancelCoil
  /\ search' = Idle(SearchDelay)
  /\ UNCHANGED <<pc, engineCoils, coilPulses, asked, wanted, refused, lampVars, buttons, held,
                 gameRunning>>

SearchBarred == held \/ ~gameRunning \/ buttons

Waits == \/ SearchSteps = <<>>
         \/ IF search.active THEN search.phase > 0 ELSE search.idle > 0

(* The step that is over, if any, and the one that follows it. *)
NextIndex == IF search.active THEN search.index + 1 ELSE search.index

AfterStep == IF search.active THEN [coils EXCEPT ![SearchCoil] = 0] ELSE coils

ServiceBallSearchRunner ==
  /\ pc = "switches"
  /\ Goto("lamps")
  /\ UNCHANGED <<engineCoils, coilPulses, asked, wanted, refused, lampVars, buttons, held, gameRunning>>
  /\ \/ /\ SearchBarred
        /\ coils' = CancelCoil
        /\ search' = Idle(SearchDelay)
     \/ /\ ~SearchBarred
        /\ Waits
        /\ UNCHANGED <<coils, search>>
     \/ /\ ~SearchBarred
        /\ ~Waits
        /\ IF NextIndex > Len(SearchSteps)
           THEN /\ coils' = AfterStep
                /\ search' = Idle(RoundDelay)
           ELSE /\ coils' = [AfterStep EXCEPT ![SearchSteps[NextIndex]] = 1]
                /\ search' = [search EXCEPT !.phase = SearchPulse, !.index = NextIndex,
                                            !.active = TRUE]

(* A lamp of the engine, or of the assist, which uses the same entry. *)
ApplyEngineLamp(l, v) ==
  /\ pc = "lamps"
  /\ engineLamps' = [engineLamps EXCEPT ![l] = v]
  /\ lamps' = IF lampBlinks[l] = NoBlink THEN [lamps EXCEPT ![l] = v] ELSE lamps
  /\ UNCHANGED <<pc, coilVars, lampBlinks, searchVars>>

Expired_never == {c \in Coils : coilPulses[c] < NoPulse}

Expired == {c \in Coils : coilPulses[c] = 0}

Toggling == {l \in Lamps : lampBlinks[l] # NoBlink /\ lampBlinks[l].left = 0}

Flip(l) == 1 - lampBlinks[l].on

Service ==
  /\ pc = "lamps"
  /\ Goto("sleep")
  /\ coilPulses' = [c \in Coils |-> IF c \in Expired THEN NoPulse ELSE coilPulses[c]]
  /\ coils' = [c \in Coils |-> IF c \in Expired THEN engineCoils[c] ELSE coils[c]]
  /\ lampBlinks' = [l \in Lamps |-> IF l \in Toggling
                                    THEN [left |-> BlinkTicks, on |-> Flip(l)]
                                    ELSE lampBlinks[l]]
  /\ lamps' = [l \in Lamps |-> IF l \in Toggling THEN Flip(l) ELSE lamps[l]]
  /\ refused' = refused \ Expired
  /\ UNCHANGED <<engineCoils, asked, wanted, engineLamps, searchVars>>

Less(n) == IF n > 0 THEN n - 1 ELSE n

(* Time passes while the loop sleeps. *)
Sleep ==
  /\ pc = "sleep"
  /\ Goto("switches")
  /\ coilPulses' = [c \in Coils |-> Less(coilPulses[c])]
  /\ lampBlinks' = [l \in Lamps |-> [lampBlinks[l] EXCEPT !.left = Less(@)]]
  /\ search' = [search EXCEPT !.idle = Less(@), !.phase = Less(@)]
  /\ UNCHANGED <<engineCoils, coils, asked, wanted, refused, engineLamps, lamps, buttons, held,
                 gameRunning>>

LoopStep == ServiceBallSearchRunner \/ Service \/ Sleep

MainLoop ==
  \/ LoopStep
  \/ Button
  \/ PlayfieldSwitch
  \/ \E l \in Lamps, v \in State : ApplyEngineLamp(l, v)

Next == EngineThread \/ HandleAction \/ MainLoop

(* The loop goes round, and the engine's thread carries out what it asked. *)
Spec == Init /\ [][Next]_vars /\ WF_vars(LoopStep) /\ WF_vars(ApplyEngineCoil)

---------------------------------------------------------------------------
\* Properties.

SearchCoils == Range(SearchSteps)

TypeOK ==
  /\ pc \in {"switches", "lamps", "sleep"}
  /\ engineCoils \in [Coils -> State]
  /\ coilPulses \in [Coils -> Nat \cup {NoPulse}]
  /\ coils \in [Coils -> State]
  /\ asked \in {NoAsk} \cup [coil : Coils, value : State, drive : BOOLEAN]
  /\ wanted \in [Coils -> State]
  /\ refused \subseteq Coils
  /\ engineLamps \in [Lamps -> State]
  /\ lampBlinks \in [Lamps -> [left : Nat, on : State] \cup {NoBlink}]
  /\ lamps \in [Lamps -> State]
  /\ search \in [idle : Nat, phase : Nat, index : 1..(Len(SearchSteps) + 1), active : BOOLEAN]
  /\ search.active => search.index \in 1..Len(SearchSteps)
  /\ {buttons, held, gameRunning} \subseteq BOOLEAN

(* A pulse holds its coil on to its end, whatever the engine asks for in   *)
(* the meantime and on whichever thread (ApplyEngineCoil against PulseCoil *)
(* and Service).  For the coils the ball search fires this fails: see      *)
(* PulseForcesOn.                                                          *)
PulseHolds ==
  \A c \in Coils \ SearchCoils : coilPulses[c] > 0 => coils[c] = 1

(* No coil burns unattended: one that is on is wanted by the engine, or is *)
(* held by a pulse or by the ball search, both of which will end.          *)
NoCoilLeftOn ==
  \A c \in Coils :
    coils[c] = 1 => \/ wanted[c] = 1 \/ asked.coil = c
                    \/ coilPulses[c] # NoPulse
                    \/ search.active /\ SearchCoil = c

(* Every override gives the output back: without one the boards show what  *)
(* the engine last wanted, even if it changed its mind meanwhile.          *)
IntentRestored ==
  /\ \A c \in Coils \ SearchCoils :
       coilPulses[c] = NoPulse /\ c \notin refused /\ asked.coil # c
         => coils[c] = wanted[c]
  /\ \A l \in Lamps : lampBlinks[l] = NoBlink => lamps[l] = engineLamps[l]

(* Overrides do not outlive their reason, and the engine's wish comes back. *)
CoilsGivenBack == TypeOK /\ NoCoilLeftOn /\ IntentRestored

(* A pulse ends, once the rules stop renewing it: Service restores the     *)
(* coil however busy the other threads are.                                *)
PulseEnds ==
  \A c \in Coils :
    <>[][coilPulses'[c] <= coilPulses[c]]_vars => []<>(coilPulses[c] = NoPulse)

(* A ball that is stuck is searched for: if a game runs, nobody presses a  *)
(* button, no rule holds the search and no switch reports, each coil of    *)
(* the round fires, again and again.                                       *)
LostBallSearched ==
  <>[](~SearchBarred) /\ <>[][~PlayfieldSwitch]_vars
    => \A c \in SearchCoils : []<>(search.active /\ SearchCoil = c)

(* What began for a time ends in time, and what must be tried is tried.     *)
OverridesEnd == PulseEnds /\ LostBallSearched

(* docs/INTERCEPTOR.md:66: a pulse "forces the coil on until the pulse      *)
(* timer expires".  Refuted: the ball search switches the coil off.         *)
PulseForcesOn == \A c \in Coils : coilPulses[c] > 0 => coils[c] = 1
=============================================================================
