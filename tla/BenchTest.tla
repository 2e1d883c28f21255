------------------------------ MODULE BenchTest ------------------------------
(***************************************************************************)
(* The bench tests: ppuc --coil-test, --lamp-test, --flasher-test,         *)
(* --gi-test, --led-string-test and --switch-test (src/src/ppuc.cpp).      *)
(*                                                                         *)
(* A test of outputs builds a list of steps out of the configured devices  *)
(* and works through it, one output on at a time, or waits for somebody to *)
(* name a number.  The switch test first reads how every switch rests      *)
(* (Prime, Forget) and then keeps the general illumination off while any   *)
(* switch is away from there.  Either may be told to stop at any moment,   *)
(* and then cleans up.  libppuc's queue of switch changes, filled by its   *)
(* own thread, and its table of their states are outside.                  *)
(***************************************************************************)
EXTENDS Integers, Sequences, FiniteSets

CONSTANTS
  Devices,     \* the outputs in the configuration's order: [number, type, virtual]
  Switches,    \* those of boards that are there
  Tests,       \* the tests that are run: [mode, number, interactive, wpc]
  OnTime, OffTime,  \* how long a step is on, and the pause after it, in ticks
  Hold,        \* how long a press keeps the lights off at least
  MaxPending,  \* bound: the steps somebody asked for that still wait
  MaxQueue     \* bound: the switch changes nobody has read

VARIABLES
  test,        \* what was asked for
  steps,       \* runner.steps: the numbers, in order
  pending,     \* pendingInteractiveSteps
  index, active, pause, deadline,  \* the rest of the runner: deadline counts down
  outputs,     \* what the boards were told to switch on
  gi,          \* the level of string 1 (or of the string under test)
  power,       \* the game-on coil (and a coin door the configuration may close)
  closed,      \* libppuc's table of the switches
  queue,       \* its queue: pairs of a switch and its new state
  initial, current,  \* what the runner knows: functions on the switches it saw
  feedback,    \* switchFeedbackGiState
  off,         \* the rest of the time the lights stay off for
  running, pc

runner == <<steps, pending, index, active, pause, deadline>>
playfield == <<closed, queue, initial, current, feedback, off>>
vars == <<test, runner, outputs, gi, power, playfield, running, pc>>

Tested == [coils |-> {"solenoid", "flasher", "shaker", "motor"}, lamps |-> {"lamp"},
           flashers |-> {"flasher"}, gi |-> {"gi"}, switches |-> {}, leds |-> {"led"}]

\* A flasher is flashed three times.  Strings and LEDs cannot be chosen.
IsTested(t, d) == d.type \in Tested[t.mode] /\ t.number \in {0, d.number} /\ ~d.virtual
Times(t, d) == IF ~IsTested(t, d) THEN 0 ELSE IF t.mode = "flashers" THEN 3 ELSE 1
StepsOf(t) ==
  LET built[i \in 0..Len(Devices)] ==
        IF i = 0 THEN <<>>
        ELSE built[i - 1] \o [j \in 1..Times(t, Devices[i]) |-> Devices[i].number]
  IN  built[Len(Devices)]
Numbers == {Devices[i].number : i \in 1..Len(Devices)}
Lit == 8

\* A number is that of one output among those of a test.
BenchAssumption ==
  /\ Devices \in Seq([number : Nat, type : STRING, virtual : BOOLEAN])
  /\ Tests \subseteq [mode : DOMAIN Tested, number : Nat, interactive : BOOLEAN, wpc : BOOLEAN]
  /\ OnTime \in Nat /\ OffTime \in Nat /\ Hold \in Nat
  /\ \A m \in DOMAIN Tested : \A i, j \in 1..Len(Devices) :
       {Devices[i].type, Devices[j].type} \subseteq Tested[m] /\ Devices[i].number = Devices[j].number =>
         Devices[i].virtual = Devices[j].virtual

Init ==
  /\ test \in Tests
  /\ steps = StepsOf(test) /\ pending = <<>> /\ index = 1
  /\ active = FALSE /\ pause = FALSE /\ deadline = 0
  /\ outputs = {}
  /\ gi = (IF test.mode = "lamps" THEN 0 ELSE Lit)
  /\ power = (test.mode \in {"coils", "flashers"})
  /\ closed \in SUBSET Switches /\ queue = <<>>
  /\ initial = <<>> /\ current = <<>> /\ feedback = FALSE /\ off = 0
  /\ running = TRUE
  /\ pc = IF test.mode = "switches" THEN "prime" ELSE IF steps = <<>> THEN "close" ELSE "service"

-----------------------------------------------------------------------------
(* Outputs. *)

ApplyBenchOutput(n, on) == outputs' = IF on THEN outputs \cup {n} ELSE outputs \ {n}

\* How a step is begun, and how one ends; what follows is the next of the list
\* or of what was asked for.
Begin(n) ==
  /\ ApplyBenchOutput(n, TRUE)
  /\ active' = TRUE /\ pause' = FALSE /\ deadline' = OnTime

End(n, more) ==
  /\ ApplyBenchOutput(n, FALSE)
  /\ active' = FALSE
  /\ pause' = more /\ deadline' = IF more THEN OffTime ELSE 0

Waiting == (active \/ pause) /\ deadline > 0

ServiceList ==
  /\ ~test.interactive /\ ~Waiting
  /\ IF ~active THEN Begin(steps[index]) /\ UNCHANGED <<index, pc>>
     ELSE LET more == index < Len(steps)
          IN  /\ End(steps[index], more)
              /\ index' = index + 1
              /\ pc' = IF more THEN pc ELSE "cleanup"
  /\ UNCHANGED pending

ServiceAsked ==
  /\ test.interactive /\ ~Waiting
  /\ IF active
     THEN /\ End(Head(pending), Len(pending) > 1)
          /\ pending' = Tail(pending)
     ELSE /\ pending # <<>>
          /\ Begin(Head(pending)) /\ UNCHANGED pending
  /\ UNCHANGED <<index, pc>>

\* ServiceBenchTestRunner; the switches that changed are read and forgotten.
Service ==
  /\ pc = "service" /\ test.mode # "switches" /\ running
  /\ ServiceList \/ ServiceAsked
  /\ UNCHANGED <<test, steps, gi, power, playfield, running>>

\* PollInteractiveBenchInput: all the steps of the number that was typed, or the
\* end of the test in the middle of a step.
PollInput ==
  /\ pc = "service" /\ test.interactive /\ running
  /\ \/ \E n \in {steps[i] : i \in 1..Len(steps)} :
          /\ Len(pending) < MaxPending
          /\ pending' = pending \o [j \in 1..Cardinality({i \in 1..Len(steps) : steps[i] = n}) |-> n]
          /\ UNCHANGED <<running, pc>>
     \/ running' = FALSE /\ pc' = "cleanup" /\ UNCHANGED pending
  /\ UNCHANGED <<test, steps, index, active, pause, deadline, outputs, gi, power, playfield>>

\* A clean-up that trusts the runner to have ended its step.
Cleanup_trusting ==
  /\ pc = "cleanup" \/ (pc = "service" /\ ~running)
  /\ pc' = "close"
  /\ gi' = Lit
  /\ UNCHANGED <<test, runner, outputs, power, playfield, running>>

\* CleanupBenchTestRunner: every step of the list is switched off, whatever ran.
Cleanup ==
  /\ pc = "cleanup" \/ (pc = "service" /\ ~running)
  /\ pc' = "close"
  /\ outputs' = outputs \ {steps[i] : i \in 1..Len(steps)}
  /\ gi' = (IF test.mode \in {"lamps", "switches"} /\ ~test.wpc THEN Lit ELSE gi)
  /\ UNCHANGED <<test, runner, power, playfield, running>>

\* What every test ends with, one that found nothing to test included.
Close ==
  /\ pc = "close"
  /\ pc' = "done"
  /\ power' = FALSE
  /\ UNCHANGED <<test, runner, outputs, gi, playfield, running>>

-----------------------------------------------------------------------------
(* Switches. *)

\* A switch moves: libppuc notes it in its table and in its queue.
SwitchMoves(s) ==
  /\ test.mode = "switches" /\ Len(queue) < MaxQueue
  /\ closed' = (closed \ {s}) \cup ({s} \ closed)
  /\ queue' = Append(queue, <<s, s \notin closed>>)
  /\ UNCHANGED <<test, runner, outputs, gi, power, initial, current, feedback, off, running, pc>>

\* PrimeBenchSwitchStates: the table is read, and then what is queued forgotten.
Prime ==
  /\ pc = "prime"
  /\ initial' = [s \in Switches |-> s \in closed] /\ current' = initial'
  /\ pc' = "forget"
  /\ UNCHANGED <<test, runner, outputs, gi, power, closed, queue, feedback, off, running>>

Forget ==
  /\ pc = "forget"
  /\ queue' = <<>>
  /\ feedback' = TRUE
  /\ gi' = IF test.wpc THEN gi ELSE Lit
  /\ pc' = "service"
  /\ UNCHANGED <<test, runner, outputs, power, closed, initial, current, off, running>>

\* The lights are on when every switch is where it rested and the time is over.
ComputeSwitchFeedbackGiOn(state, left) ==
  (\A s \in DOMAIN state : s \in DOMAIN initial => state[s] = initial[s]) /\ left = 0

\* UpdateSwitchFeedbackGi.
Follow(state, left) ==
  LET on == ComputeSwitchFeedbackGiOn(state, left)
  IN  IF test.wpc \/ on = feedback THEN UNCHANGED <<gi, feedback>>
      ELSE gi' = (IF on THEN Lit ELSE 0) /\ feedback' = on

\* DrainSwitchUpdatesForTest: what is known after the first n of the queue.
After(n) ==
  [s \in DOMAIN current |->
    LET moves == {i \in 1..n : queue[i][1] = s}
    IN  IF moves = {} THEN current[s] ELSE \E i \in moves : queue[i][2] /\ \A j \in moves : j <= i]
Pressed == \E i \in 1..Len(queue) :
  LET s == queue[i][1] IN After(i - 1)[s] = initial[s] /\ queue[i][2] # initial[s]

DrainSwitches ==
  /\ pc = "service" /\ test.mode = "switches" /\ running
  /\ queue' = <<>>
  /\ current' = After(Len(queue))
  /\ off' = IF Pressed THEN Hold ELSE off
  /\ Follow(current', off')
  /\ UNCHANGED <<test, runner, outputs, power, closed, initial, running, pc>>

-----------------------------------------------------------------------------
\* A signal: the loop of the test ends before its next pass.
Interrupt ==
  /\ running /\ pc = "service"
  /\ running' = FALSE
  /\ UNCHANGED <<test, runner, outputs, gi, power, playfield, pc>>

Less(n) == IF n = 0 THEN 0 ELSE n - 1
Tick ==
  /\ pc = "service" /\ (deadline > 0 \/ off > 0)
  /\ deadline' = Less(deadline) /\ off' = Less(off)
  /\ UNCHANGED <<test, steps, pending, index, active, pause, outputs, gi, power, closed, queue, initial, current,
                 feedback, running, pc>>

Pass == Service \/ PollInput \/ Cleanup \/ Close \/ Prime \/ Forget \/ DrainSwitches
Next == Pass \/ Interrupt \/ Tick \/ \E s \in Switches : SwitchMoves(s)

\* The loop goes round, and time passes.
Spec == Init /\ [][Next]_vars /\ WF_vars(Service \/ Cleanup \/ Close) /\ WF_vars(Prime \/ Forget) /\ WF_vars(Tick)

-----------------------------------------------------------------------------
TypeOK ==
  /\ index \in 1..Len(steps) + 1 /\ deadline \in 0..OnTime + OffTime /\ off \in 0..Hold
  /\ outputs \subseteq Numbers
  /\ \A s \in DOMAIN current : current[s] \in BOOLEAN

Absent == {Devices[i].number :
             i \in {j \in 1..Len(Devices) : Devices[j].virtual /\ Devices[j].type \in Tested[test.mode]}}

\* However a test ends, at its last step, at a key or at a signal in the middle
\* of a step, no output is left on; while it runs at most one is, and never one
\* of a board that is not there; the high power is off (ppuc.cpp:6193-6212, 1618-1734).
BenchLeavesDark ==
  /\ pc = "done" => outputs = {} /\ ~power
  /\ Cardinality(outputs) <= 1
  /\ outputs \cap Absent = {}

\* The lights are off while a switch is away from where it rested, as far as the
\* runner's table goes, also when it moved before its first movement was read.
Moved == {s \in Switches : s \in DOMAIN current /\ current[s] # initial[s]}
LightsTell ==
  (pc = "service" /\ running /\ test.mode = "switches" /\ ~test.wpc /\ Moved # {}) =>
    gi = 0

BenchIsSafe == BenchLeavesDark /\ LightsTell

\* A test without somebody at the keyboard comes to an end.
BenchEnds == (~test.interactive /\ test.mode # "switches") ~> pc = "done"

\* Refuted: the table is the truth.  A switch that moves after it was read and
\* before the queue is emptied is lost, and with it the way back.
TableIsTrue ==
  (pc = "service" /\ test.mode = "switches" /\ queue = <<>> /\ current # <<>>) =>
    \A s \in Switches : current[s] = (s \in closed)
=============================================================================
