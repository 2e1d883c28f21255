--------------------------- MODULE RomSpeedTracker ---------------------------
(***************************************************************************)
(* How fast a ROM runs a motor, told from a mech of PinMAME that advances  *)
(* one position for every sample that finds the driver on                  *)
(* (src/src/RomSpeedTracker.cpp, and SetUpRomSpeedMechs and                *)
(* SampleRomSpeeds of src/src/PluginEngine.cpp).  The main loop looks at   *)
(* the position now and then; the board is told the speed in frames that   *)
(* may get lost.                                                           *)
(***************************************************************************)
EXTENDS Integers

CONSTANTS
  Window, Repeat,   \* kWindowMs and kRepeatMs, in ticks
  Rate,             \* how many samples a tick has
  MechRange,        \* kMechRange
  Scale,            \* 255, the full speed
  MinChange,        \* kMinChange
  Speeds,           \* the samples of a tick that find a running motor's driver on
  Rest,             \* how long the ROM lets a motor rest before it runs again
  MaxLate,          \* bound: the longest a window gets when the loop is late
  MaxLost           \* bound: the frames that get lost

\* The mech does not come round within a window (10 s of samples in the code).
SpeedAssumption ==
  /\ Rate \in Nat \ {0} /\ MechRange \in Nat /\ Speeds \subseteq 1..Rate
  /\ Window \in Nat \ {0} /\ MaxLate \in Nat /\ Window <= MaxLate
  /\ Repeat \in Nat /\ Rest \in Nat /\ Scale \in Nat /\ MinChange \in Nat /\ MaxLost \in Nat
  /\ Rate * MaxLate < MechRange

VARIABLES
  motor, rested,    \* what the ROM does: samples per tick, ticks since it stopped
  moved,            \* the mech's position - m_lastPosition, modulo kMechRange
  age,              \* now - m_windowStartMs; NotStarted before the first look
  before, middle,   \* m_before, m_middle
  lastSent,         \* m_lastSent; NotSent while m_sent is false
  sentAge,          \* now - m_lastSentMs
  scale,            \* what the board heard last
  lost,             \* how many frames got lost
  ran,              \* the slowest and the fastest tick of this window and of the last
  told              \* and of the window that was told

vars == <<motor, rested, moved, age, before, middle, lastSent, sentAge, scale, lost, ran, told>>

NotStarted == -1
NotSent == -1
Least(a, b) == IF a < b THEN a ELSE b
Most(a, b) == IF a < b THEN b ELSE a

\* No tick yet.
Nothing == [low |-> Rate, high |-> 0]

\* The board was told to hold the motor off, or did not hear it.
Init ==
  /\ motor = 0 /\ rested = Rest /\ moved = 0
  /\ age = NotStarted /\ before = 0 /\ middle = 0 /\ lastSent = NotSent /\ sentAge = 0
  /\ scale \in {0, Scale} /\ lost = 0
  /\ ran = [now |-> Nothing, last |-> Nothing] /\ told = Nothing

\* The share of the possible samples that found the driver on, rounded.
Duty(positions, elapsed) ==
  LET possible == elapsed * Rate
  IN Least((positions * Scale + possible \div 2) \div Most(possible, 1), Scale)

\* A run starts and ends within a window: only a window between two in which
\* the motor ran is measured.
Measured(duty) == IF before > 0 /\ duty > 0 THEN middle ELSE 0

Differs(value) == lastSent = NotSent \/ value - lastSent >= MinChange \/ lastSent - value >= MinChange

\* A speed that is told once.
Repeats_never(duty) == FALSE

Repeats(duty) == middle > 0 /\ duty > 0 /\ lastSent # NotSent /\ sentAge >= Repeat

\* A frame arrives or gets lost.
Send(value) ==
  /\ lastSent' = value /\ sentAge' = 0
  /\ \/ scale' = value /\ lost' = lost
     \/ lost < MaxLost /\ lost' = lost + 1 /\ scale' = scale

\* SampleRomSpeeds, when it is time for it and PinMAME answers.
Update ==
  \/ /\ age = NotStarted
     /\ age' = 0 /\ moved' = 0 /\ ran' = [ran EXCEPT !.now = Nothing]
     /\ UNCHANGED <<motor, rested, before, middle, lastSent, sentAge, scale, lost, told>>
  \/ /\ age >= Window
     /\ LET duty == Duty(moved, age)
            measured == Measured(duty)
        IN /\ \/ /\ measured > 0 /\ Differs(measured)
                 /\ Send(measured) /\ told' = ran.last
              \/ /\ ~(measured > 0 /\ Differs(measured)) /\ Repeats(duty)
                 /\ Send(lastSent) /\ told' = told
              \/ /\ ~(measured > 0 /\ Differs(measured)) /\ ~Repeats(duty)
                 /\ UNCHANGED <<lastSent, sentAge, scale, lost, told>>
           /\ before' = middle /\ middle' = duty
     /\ moved' = 0 /\ age' = 0
     /\ ran' = [now |-> Nothing, last |-> ran.now]
     /\ UNCHANGED <<motor, rested>>

\* The driver is sampled for a tick.
Tick ==
  /\ age < MaxLate
  /\ moved' = (moved + motor) % MechRange
  /\ age' = IF age = NotStarted THEN age ELSE age + 1
  /\ sentAge' = Least(sentAge + 1, Repeat)
  /\ rested' = IF motor > 0 THEN 0 ELSE Least(rested + 1, Rest)
  /\ ran' = [ran EXCEPT !.now = [low |-> Least(@.low, motor), high |-> Most(@.high, motor)]]
  /\ UNCHANGED <<motor, before, middle, lastSent, scale, lost, told>>

\* The ROM runs the motor, faster or slower, or stops it.
Drive(speed) ==
  /\ speed # motor
  /\ motor = 0 => rested = Rest
  /\ motor' = speed
  /\ UNCHANGED <<rested, moved, age, before, middle, lastSent, sentAge, scale, lost, ran, told>>

Next == Update \/ Tick \/ \E speed \in Speeds \cup {0} : Drive(speed)

\* The main loop goes round and the clock does not stop.
Spec == Init /\ [][Next]_vars /\ WF_vars(Update) /\ WF_vars(Tick)

-----------------------------------------------------------------------------
TypeOK ==
  /\ motor \in Speeds \cup {0} /\ rested \in 0..Rest /\ moved \in 0..MechRange - 1
  /\ age \in NotStarted..MaxLate /\ before \in 0..Scale /\ middle \in 0..Scale
  /\ lastSent \in {NotSent} \cup 1..Scale /\ sentAge \in 0..Repeat
  /\ scale \in 0..Scale /\ lost \in 0..MaxLost

\* RomSpeedTracker.h: a window in which a run began or ended does not count.  For
\* a ROM that does not stop and start a motor within two windows (Rest), every
\* speed that is told is one the motor ran at: not slower than the slowest tick
\* of the window it was measured in, not faster than the fastest, and none of
\* its ticks was at rest.
SpeedIsReal ==
  lastSent # NotSent =>
    /\ told.low > 0
    /\ Duty(told.low, 1) <= lastSent /\ lastSent <= Duty(told.high, 1)

\* RomSpeedTracker.h: a lost frame is not corrected by the next one, so the value
\* is repeated.  The board of a motor that keeps its speed has that speed, or one
\* that differs by less than kMinChange, in the end and for good.
Heard == scale - Duty(motor, 1) < MinChange /\ Duty(motor, 1) - scale < MinChange
SpeedArrives == <>[][motor' = motor]_vars => <>[](motor > 0 => Heard)
=============================================================================
