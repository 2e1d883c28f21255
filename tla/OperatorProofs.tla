--------------------------- MODULE OperatorProofs ---------------------------
(***************************************************************************)
(* Proofs about what stands around the game (MCOperator).  The six parts   *)
(* share no state, so each has its invariant and its step lemma, and the   *)
(* theorem of a part puts them under `part`.                               *)
(***************************************************************************)
EXTENDS MCOperator, FiniteSetTheorems, RecursionLemmas

LEMMA SingleCardinality == ASSUME NEW x, NEW S \in SUBSET {x} PROVE Cardinality(S) <= 1
<1>1. IsFiniteSet({x}) /\ Cardinality({x}) = 1
  BY FS_Singleton
<1> QED
  BY <1>1, FS_Subset

-----------------------------------------------------------------------------
(* The service tests. *)

ToolsTest ==
  [kind : Kinds, walking : BOOLEAN, walkOn : BOOLEAN, walkIndex : Nat, selection : Nat,
   paused : BOOLEAN, raised : BOOLEAN]

ToolsType ==
  /\ overlay \in {"None", "Menu", "Monitor", "Volume", "Tests", "Test", "Confirm"}
  /\ pending \in Kinds \cup {"None", "RestartPpuc", "PowerOff"}
  /\ test \in ToolsTest
  /\ rows \subseteq DOMAIN List(test.kind)
  /\ test.selection \in DOMAIN List(test.kind) \cup {1}
  /\ test.walkIndex \in DOMAIN List(test.kind) \cup {1}
  /\ test.walking => test.kind # "Switches"
  /\ out \in [Devices -> BOOLEAN]
  /\ wanted \in [Devices -> BOOLEAN]
  /\ pulse \in [Devices -> BOOLEAN]
  /\ monitor \in [raised : BOOLEAN, ready : BOOLEAN]
  /\ monitor.ready => monitor.raised
  /\ closing \in {"no", "freed", "read"} /\ seen \in BOOLEAN
  /\ game \in BOOLEAN

\* A coil is on only for the engine, a pulse or a row of the test, and there is
\* no test behind another screen, nor while one is being left.
ToolsCoils ==
  /\ \A d \in Coils : out[d] => wanted[d] \/ pulse[d] \/ \E i \in rows : List(test.kind)[i] = d
  /\ NoTestRuns => test = NoTest /\ rows = {}

\* The row that is on is the walk's, and it is off between two phases.
ToolsWalk ==
  test.kind \in Momentary =>
    /\ rows \subseteq {test.walkIndex}
    /\ test.walking /\ ~test.walkOn => rows = {}

\* A reflex may have opened the question, never answered it.
ToolsReflex == reflex => running /\ (overlay = "Confirm" => ~confirmYes)

ToolsInv ==
  /\ ToolsType
  /\ ToolsCoils
  /\ ToolsWalk
  /\ ToolsReflex
  /\ PowerReturned
  /\ GamePickedUp

LEMMA StepsListed == ASSUME NEW k \in DOMAIN Steps
                     PROVE  /\ Steps[k] \in Seq(Devices) /\ Len(Steps[k]) \in Nat \ {0}
                            /\ DOMAIN Steps[k] = 1 .. Len(Steps[k])
  BY KindsAssumption

LEMMA ToolsStart == Init => ToolsInv
<1> SUFFICES ASSUME Init PROVE ToolsInv
  OBVIOUS
<1>1. ToolsType
  BY DEF Init, ToolsType, ToolsTest, NoTest, Kinds, List
<1>2. ToolsCoils
  BY DEF Init, ToolsCoils, NoTestRuns, Coils, Devices
<1>3. ToolsWalk /\ ToolsReflex /\ PowerReturned /\ GamePickedUp
  BY KindsAssumption DEF Init, ToolsWalk, ToolsReflex, PowerReturned, GamePickedUp, NoTestRuns, NoTest
<1> QED
  BY <1>1, <1>2, <1>3 DEF ToolsInv

\* What a row drives: the other devices keep what they had.
LEMMA DriveType == ASSUME out \in [Devices -> BOOLEAN], NEW I, NEW lit \in BOOLEAN
                   PROVE  /\ Drive(I, lit) \in [Devices -> BOOLEAN]
                          /\ \A d \in Devices :
                               Drive(I, lit)[d] = IF \E i \in I : List(test.kind)[i] = d THEN lit ELSE out[d]
  BY DEF Drive

LEMMA AllOffKeeps == ASSUME ToolsInv, AllTestOutputsOff
                     PROVE  /\ out' \in [Devices -> BOOLEAN] /\ rows' = {}
                            /\ \A d \in Coils : out'[d] => wanted[d] \/ pulse[d]
<1>1. Coils \subseteq Devices
  BY KindsAssumption DEF Coils, Devices
<1>2. out \in [Devices -> BOOLEAN] /\ \A d \in Coils : out[d] => wanted[d] \/ pulse[d] \/ \E i \in rows : List(test.kind)[i] = d
  BY DEF ToolsInv, ToolsType, ToolsCoils
<1>3. out' = Drive(rows, FALSE) /\ rows' = {}
  BY DEF AllTestOutputsOff
<1>4. /\ Drive(rows, FALSE) \in [Devices -> BOOLEAN]
      /\ \A d \in Devices :
           Drive(rows, FALSE)[d] = IF \E i \in rows : List(test.kind)[i] = d THEN FALSE ELSE out[d]
  BY <1>2, DriveType
<1>5. \A d \in Coils : out'[d] => wanted[d] \/ pulse[d]
  BY <1>1, <1>2, <1>3, <1>4
<1> QED
  BY <1>3, <1>4, <1>5

LEMMA DriveOneKeeps ==
  ASSUME ToolsInv, NEW i \in DOMAIN List(test.kind), NEW lit \in BOOLEAN,
         out' = Drive({i}, lit), rows' = IF lit THEN rows \cup {i} ELSE rows \ {i},
         test'.kind = test.kind, UNCHANGED <<wanted, pulse>>
  PROVE  /\ out' \in [Devices -> BOOLEAN]
         /\ rows' \subseteq DOMAIN List(test'.kind)
         /\ \A d \in Coils : out'[d] => wanted'[d] \/ pulse'[d] \/ \E j \in rows' : List(test'.kind)[j] = d
<1>1. Coils \subseteq Devices
  BY KindsAssumption DEF Coils, Devices
<1>2. /\ out \in [Devices -> BOOLEAN] /\ rows \subseteq DOMAIN List(test.kind)
      /\ \A d \in Coils : out[d] => wanted[d] \/ pulse[d] \/ \E j \in rows : List(test.kind)[j] = d
  BY DEF ToolsInv, ToolsType, ToolsCoils
<1>3. /\ out' \in [Devices -> BOOLEAN]
      /\ \A d \in Devices : out'[d] = IF \E j \in {i} : List(test.kind)[j] = d THEN lit ELSE out[d]
  BY <1>2, DriveType
<1>4. ASSUME NEW d \in Coils, out'[d]
      PROVE  wanted'[d] \/ pulse'[d] \/ \E j \in rows' : List(test'.kind)[j] = d
  <2>1. CASE List(test.kind)[i] = d
    BY <1>1, <1>3, <1>4, <2>1
  <2>2. CASE List(test.kind)[i] # d
    BY <1>1, <1>2, <1>3, <1>4, <2>2
  <2> QED
    BY <2>1, <2>2
<1> QED
  BY <1>2, <1>3, <1>4

\* Outside a test nothing is pulsed but the coils of the monitor.
LEMMA PulseKeeps ==
  ASSUME ToolsInv, NEW d \in Devices, PulseCoil(d), UNCHANGED <<wanted, rows>>, test'.kind = test.kind
  PROVE  /\ out' \in [Devices -> BOOLEAN] /\ pulse' \in [Devices -> BOOLEAN]
         /\ \A c \in Coils : out'[c] => wanted'[c] \/ pulse'[c] \/ \E j \in rows' : List(test'.kind)[j] = c
<1>1. Coils \subseteq Devices
  BY KindsAssumption DEF Coils, Devices
<1> QED
  BY <1>1 DEF PulseCoil, ToolsInv, ToolsType, ToolsCoils

LEMMA WalkKeeps == ASSUME ToolsInv, ServiceTestWalk PROVE ToolsInv'
<1> USE DEF ToolsInv
<1> DEFINE i == test.walkIndex
<1>1. /\ test \in ToolsTest /\ test.kind \in DOMAIN Steps /\ List(test.kind) = Steps[test.kind]
      /\ DOMAIN List(test.kind) = 1 .. Len(Steps[test.kind]) /\ Len(Steps[test.kind]) \in Nat \ {0}
      /\ i \in DOMAIN List(test.kind)
  BY StepsListed DEF ServiceTestWalk, ToolsType, ToolsTest, Kinds, List
<1>2. /\ overlay = "Test" /\ test.walking
      /\ UNCHANGED <<overlay, wanted, pulse, gi, power, monitor, music, pending, confirmYes, running, game,
                     toldMusic, toldPower, closing, seen, stale, reflex>>
  BY DEF ServiceTestWalk, menuVars, gameVars, closeVars
<1>0. ~NoTestRuns /\ ~NoTestRuns'
  BY <1>2 DEF ToolsCoils, NoTestRuns, NoTest
<1>3. CASE test.walkOn
  <2>1. /\ out' = Drive({i}, FALSE) /\ rows' = rows \ {i}
        /\ test' = [test EXCEPT !.walkOn = FALSE, !.walkIndex = Turn(i)]
    BY <1>3 DEF ServiceTestWalk
  <2>2. /\ test' \in ToolsTest /\ test'.kind = test.kind /\ test'.walkIndex = Turn(i)
        /\ test'.selection = test.selection /\ test'.walking /\ ~test'.walkOn /\ test'.paused = test.paused
        /\ test'.raised = test.raised /\ Turn(i) \in DOMAIN List(test.kind)
    <3>1. Turn(i) \in 1 .. Len(Steps[test.kind]) /\ Turn(i) \in Nat
      BY <1>1 DEF Turn
    <3>2. test'.kind = test.kind /\ test'.walkIndex = Turn(i) /\ test'.selection = test.selection
      BY <1>1, <2>1 DEF ToolsTest
    <3>3. test' \in ToolsTest
      BY <1>1, <2>1, <3>1 DEF ToolsTest
    <3>4. test'.walking /\ ~test'.walkOn /\ test'.paused = test.paused /\ test'.raised = test.raised
      BY <1>1, <1>2, <2>1 DEF ToolsTest
    <3> QED
      BY <1>1, <3>1, <3>2, <3>3, <3>4
  <2>3. /\ out' \in [Devices -> BOOLEAN]
        /\ rows' \subseteq DOMAIN List(test'.kind)
        /\ \A d \in Coils : out'[d] => wanted'[d] \/ pulse'[d] \/ \E j \in rows' : List(test'.kind)[j] = d
    BY <1>1, <1>2, <2>1, <2>2, DriveOneKeeps
  <2>4. ToolsType'
    BY <1>1, <1>2, <2>2, <2>3 DEF ToolsType
  <2>5. ToolsCoils'
    BY <1>0, <1>2, <2>3 DEF ToolsCoils
  <2>6. ToolsWalk'
    BY <2>1, <2>2 DEF ToolsWalk
  <2> QED
    BY <1>0, <1>2, <2>2, <2>4, <2>5, <2>6 DEF ToolsReflex, PowerReturned, GamePickedUp
<1>4. CASE ~test.walkOn
  <2>1. /\ out' = Drive({i}, TRUE) /\ rows' = rows \cup {i}
        /\ test' = [test EXCEPT !.walkOn = TRUE, !.selection = i]
    BY <1>4 DEF ServiceTestWalk
  <2>2. /\ test' \in ToolsTest /\ test'.kind = test.kind /\ test'.walkIndex = i
        /\ test'.selection = i /\ test'.walking /\ test'.walkOn /\ test'.paused = test.paused
        /\ test'.raised = test.raised
    BY <1>1, <1>2, <2>1 DEF ToolsTest
  <2>3. /\ out' \in [Devices -> BOOLEAN]
        /\ rows' \subseteq DOMAIN List(test'.kind)
        /\ \A d \in Coils : out'[d] => wanted'[d] \/ pulse'[d] \/ \E j \in rows' : List(test'.kind)[j] = d
    BY <1>1, <1>2, <2>1, <2>2, DriveOneKeeps
  <2>4. ToolsType'
    BY <1>1, <1>2, <2>2, <2>3 DEF ToolsType
  <2>5. ToolsCoils'
    BY <1>0, <1>2, <2>3 DEF ToolsCoils
  <2>6. ToolsWalk'
    BY <1>2, <1>4, <2>1, <2>2 DEF ToolsWalk
  <2> QED
    BY <1>0, <1>2, <2>2, <2>4, <2>5, <2>6 DEF ToolsReflex, PowerReturned, GamePickedUp
<1> QED
  BY <1>1, <1>3, <1>4 DEF ToolsTest

\* The parts of ToolsInv that a step disturbs only by what it says of them.
LEMMA TestOpens ==
  ASSUME ToolsInv, NEW kind \in Kinds, OpenServiceTest(kind), overlay # "Test", closing = "no",
         UNCHANGED <<out, wanted, pulse, monitor, game, toldMusic, toldPower, closing, seen, stale, reflex>>,
         pending' \in Kinds \cup {"None", "RestartPpuc", "PowerOff"}, reflex => running'
  PROVE  ToolsInv'
<1> USE DEF ToolsInv
<1>1. test = NoTest /\ rows = {} /\ ~test.paused /\ ~test.raised
  BY DEF ToolsCoils, NoTestRuns, NoTest
<1>2. PICK frozen \in Freezes :
        test' = [NoTest EXCEPT !.kind = kind, !.paused = frozen, !.raised = (kind \in Momentary /\ ~game)]
  BY DEF OpenServiceTest
<1>3. /\ test' \in ToolsTest /\ test'.kind = kind /\ test'.selection = 1 /\ test'.walkIndex = 1
      /\ test'.raised = (kind \in Momentary /\ ~game)
  <2>1. frozen \in BOOLEAN /\ (kind \in Momentary /\ ~game) \in BOOLEAN
    BY KindsAssumption
  <2> QED
    BY <1>2, <2>1 DEF ToolsTest, NoTest
<1>4. ~test'.walking
  BY <1>2 DEF NoTest
<1>5. rows' = {} /\ overlay' = "Test" /\ power' = (power \/ (kind \in Momentary /\ ~game))
  BY DEF OpenServiceTest
<1>6. ToolsType'
  BY <1>3, <1>4, <1>5 DEF ToolsType
<1>7. ToolsCoils'
  BY <1>1, <1>5 DEF ToolsCoils, NoTestRuns
<1>8. ToolsWalk' /\ ToolsReflex' /\ GamePickedUp'
  BY <1>5 DEF ToolsWalk, ToolsReflex, GamePickedUp, NoTestRuns
<1>9. PowerReturned'
  BY <1>1, <1>3, <1>5 DEF PowerReturned
<1> QED
  BY <1>6, <1>7, <1>8, <1>9

\* Steps that leave the tests, the coils and the reflex alone, or forget the reflex.
LEMMA ScreenChanges ==
  ASSUME ToolsInv,
         UNCHANGED <<test, rows, out, wanted, pulse, game, toldMusic, toldPower, music, closing, seen, stale>>,
         overlay # "Test", overlay' \in {"None", "Menu", "Monitor", "Volume", "Tests", "Confirm"},
         pending' \in Kinds \cup {"None", "RestartPpuc", "PowerOff"},
         \/ UNCHANGED <<power, monitor>>
         \/ MonitorReleaseGameOn,
         reflex' => running' /\ (overlay' = "Confirm" => ~confirmYes')
  PROVE  ToolsInv'
<1> USE DEF ToolsInv
<1>1. test = NoTest /\ rows = {} /\ ~test.raised /\ ~test.paused
  BY DEF ToolsCoils, NoTestRuns, NoTest
<1>2. ToolsType'
  <2>1. monitor' \in [raised : BOOLEAN, ready : BOOLEAN] /\ (monitor'.ready => monitor'.raised)
    <3>1. CASE UNCHANGED monitor
      BY <3>1 DEF ToolsType
    <3>2. CASE monitor' = [raised |-> FALSE, ready |-> FALSE]
      BY <3>2
    <3> QED
      BY <3>1, <3>2 DEF MonitorReleaseGameOn
  <2> QED
    BY <2>1 DEF ToolsType
<1>3. ToolsCoils'
  BY <1>1 DEF ToolsCoils
<1>4. ToolsWalk' /\ ToolsReflex' /\ GamePickedUp'
  BY <1>1 DEF ToolsWalk, ToolsReflex, GamePickedUp
<1>5. PowerReturned'
  BY DEF PowerReturned, MonitorReleaseGameOn
<1> QED
  BY <1>2, <1>3, <1>4, <1>5

LEMMA SpaceKeeps ==
  ASSUME ToolsInv, running, closing = "no", Space, UNCHANGED <<gameVars, closeVars>>
  PROVE  ToolsInv'
<1> QED
  BY ScreenChanges DEF ToolsInv, ToolsType, Space, boardVars, menuVars, gameVars, closeVars

LEMMA EscapeKeeps ==
  ASSUME ToolsInv, running, closing = "no", Escape, UNCHANGED <<gameVars, seen, stale>>
  PROVE  ToolsInv'
<1>1. CASE overlay = "Test" /\ CloseServiceTest /\ UNCHANGED <<overlay, monitor>>
  <2> USE DEF ToolsInv
  <2>1. /\ out' \in [Devices -> BOOLEAN] /\ rows' = {}
        /\ \A d \in Coils : out'[d] => wanted[d] \/ pulse[d]
    BY <1>1, AllOffKeeps DEF CloseServiceTest
  <2>2. /\ overlay' = "Test" /\ closing' = "freed" /\ test' = NoTest /\ ~reflex'
        /\ power' = (power /\ ~test.raised)
        /\ UNCHANGED <<wanted, pulse, pending, confirmYes, running, monitor, game, toldMusic, toldPower, music, seen>>
    BY <1>1 DEF Escape, CloseServiceTest, menuVars, gameVars
  <2>3. /\ NoTest \in ToolsTest /\ NoTest.kind = "Switches" /\ NoTest.selection = 1 /\ NoTest.walkIndex = 1
        /\ ~NoTest.walking /\ ~NoTest.paused
    BY DEF NoTest, ToolsTest, Kinds
  <2>4. ToolsType'
    BY <2>1, <2>2, <2>3 DEF ToolsType
  <2>5. ToolsCoils'
    BY <2>1, <2>2 DEF ToolsCoils
  <2>6. ToolsWalk' /\ ToolsReflex' /\ GamePickedUp'
    BY <2>1, <2>2, <2>3 DEF ToolsWalk, ToolsReflex, GamePickedUp, NoTestRuns
  <2>7. PowerReturned'
    BY <2>2 DEF PowerReturned
  <2> QED
    BY <2>4, <2>5, <2>6, <2>7
<1>2. CASE overlay # "Test"
  BY <1>2, ScreenChanges DEF ToolsInv, ToolsType, Escape, CloseOverlay, boardVars, menuVars, gameVars
<1> QED
  BY <1>1, <1>2 DEF Escape

LEMMA CursorKeeps ==
  ASSUME ToolsInv, running, closing = "no", Cursor, UNCHANGED <<gameVars, closeVars>>
  PROVE  ToolsInv'
<1> USE DEF ToolsInv
<1>1. /\ ~reflex'
      /\ UNCHANGED <<overlay, pending, rows, out, wanted, pulse, power, monitor, music, running, game,
                     toldMusic, toldPower, closing, seen, stale>>
      /\ NoTestRuns <=> NoTestRuns'
  BY DEF Cursor, NoTestRuns, boardVars, gameVars, closeVars
<1>2. CASE overlay = "Confirm" /\ UNCHANGED test
  BY <1>1, <1>2 DEF ToolsType, ToolsCoils, ToolsWalk, ToolsReflex, PowerReturned, GamePickedUp, NoTestRuns
<1>3. ASSUME overlay = "Test", test.kind # "Switches", NEW j \in DOMAIN Steps[test.kind] \ {test.selection},
             test' = [test EXCEPT !.selection = j]
      PROVE  ToolsInv'
  <2>1. test.kind \in DOMAIN Steps /\ List(test.kind) = Steps[test.kind] /\ j \in Nat
    BY <1>3, StepsListed DEF ToolsType, ToolsTest, Kinds, List
  <2>2. /\ test' \in ToolsTest /\ test'.kind = test.kind /\ test'.walkIndex = test.walkIndex
        /\ test'.selection = j
    BY <1>3, <2>1 DEF ToolsType, ToolsTest
  <2>3. /\ test'.walking = test.walking /\ test'.walkOn = test.walkOn
        /\ test'.paused = test.paused /\ test'.raised = test.raised
    BY <1>3 DEF ToolsType, ToolsTest
  <2>4. ToolsType'
    BY <1>1, <1>3, <2>1, <2>2, <2>3 DEF ToolsType
  <2>5. ToolsCoils'
    BY <1>1, <1>3, <2>2 DEF ToolsCoils, NoTestRuns
  <2>6. ToolsWalk' /\ ToolsReflex' /\ PowerReturned' /\ GamePickedUp'
    BY <1>1, <1>3, <2>2, <2>3 DEF ToolsWalk, ToolsReflex, PowerReturned, GamePickedUp, NoTestRuns
  <2> QED
    BY <2>4, <2>5, <2>6
<1> QED
  BY <1>2, <1>3 DEF Cursor

LEMMA EnterKeeps ==
  ASSUME ToolsInv, running, closing = "no", Enter, UNCHANGED <<gameVars, closeVars>>
  PROVE  ToolsInv'
<1>1. UNCHANGED <<reflex, game, toldMusic, toldPower, closing, seen, stale>> /\ closing = "no"
  BY DEF Enter, gameVars, closeVars
<1>2. CASE EnterMenu
  <2>1. /\ pending' \in {"None", "RestartPpuc", "PowerOff"} /\ ~confirmYes'
        /\ overlay' \in {"Monitor", "Volume", "Tests", "Confirm"} /\ overlay = "Menu"
    BY <1>2 DEF EnterMenu, Open
  <2>2. UNCHANGED <<test, rows, out, wanted, pulse, power, monitor, music, running>>
    BY <1>2 DEF EnterMenu, boardVars
  <2> QED
    BY <1>1, <2>1, <2>2, ScreenChanges
<1>3. CASE EnterMonitor
  <2> USE DEF ToolsInv
  <2>1. /\ overlay = "Monitor"
        /\ UNCHANGED <<overlay, test, rows, wanted, gi, music, pending, confirmYes, running>>
    BY <1>3 DEF EnterMonitor, menuVars
  <2>2. CASE /\ ~game /\ ~monitor.raised /\ power' = TRUE /\ monitor' = [raised |-> TRUE, ready |-> FALSE]
             /\ UNCHANGED <<out, pulse>>
    <3>1. ToolsType' /\ ToolsCoils'
      BY <1>1, <2>1, <2>2 DEF ToolsType, ToolsCoils, NoTestRuns
    <3> QED
      BY <1>1, <2>1, <2>2, <3>1 DEF ToolsWalk, ToolsReflex, PowerReturned, GamePickedUp, NoTestRuns
  <2>3. ASSUME NEW d \in Coils, PulseCoil(d), UNCHANGED <<power, monitor>>
        PROVE  ToolsInv'
    <3>1. d \in Devices
      BY KindsAssumption DEF Coils, Devices
    <3>2. /\ out' \in [Devices -> BOOLEAN] /\ pulse' \in [Devices -> BOOLEAN]
          /\ \A c \in Coils : out'[c] => wanted'[c] \/ pulse'[c] \/ \E j \in rows' : List(test'.kind)[j] = c
      BY <2>1, <2>3, <3>1, PulseKeeps
    <3>3. ToolsType'
      BY <1>1, <2>1, <2>3, <3>2 DEF ToolsType
    <3>4. ToolsCoils'
      BY <1>1, <2>1, <3>2 DEF ToolsCoils, NoTestRuns
    <3> QED
      BY <1>1, <2>1, <2>3, <3>3, <3>4 DEF ToolsWalk, ToolsReflex, PowerReturned, GamePickedUp, NoTestRuns
  <2> QED
    BY <1>3, <2>2, <2>3 DEF EnterMonitor, FireSelectedCoil
<1>4. CASE EnterTests
  <2>1. overlay = "Tests" /\ UNCHANGED <<out, wanted, pulse, monitor, running>>
    BY <1>4 DEF EnterTests
  <2>2. PICK kind \in Kinds :
          \/ /\ Open("Confirm", kind) /\ UNCHANGED <<test, rows, gi, power, music>>
          \/ /\ OpenServiceTest(kind) /\ UNCHANGED <<pending, confirmYes>>
    BY <1>4 DEF EnterTests
  <2>3. CASE Open("Confirm", kind) /\ UNCHANGED <<test, rows, gi, power, music>>
    <3>1. overlay' = "Confirm" /\ pending' = kind /\ ~confirmYes'
      BY <2>3 DEF Open
    <3>2. reflex' => running' /\ (overlay' = "Confirm" => ~confirmYes')
      BY <1>1, <2>1, <3>1 DEF ToolsInv, ToolsReflex
    <3> QED
      BY <1>1, <2>1, <2>2, <2>3, <3>1, <3>2, ScreenChanges
  <2>4. CASE OpenServiceTest(kind) /\ UNCHANGED <<pending, confirmYes>>
    BY <1>1, <2>1, <2>2, <2>4, TestOpens DEF ToolsInv, ToolsType, ToolsReflex
  <2> QED
    BY <2>2, <2>3, <2>4
<1>5. CASE EnterTest
  <2> USE DEF ToolsInv
  <2> DEFINE i == test.selection
  <2>1. /\ overlay = "Test" /\ test.kind # "Switches" /\ test' = [test EXCEPT !.walking = FALSE]
        /\ UNCHANGED <<overlay, wanted, gi, power, monitor, music, pending, confirmYes, running>>
    BY <1>5 DEF EnterTest, FireSelectedTestOutput, menuVars
  <2>2. /\ test.kind \in DOMAIN Steps /\ List(test.kind) = Steps[test.kind] /\ i \in DOMAIN List(test.kind)
        /\ Steps[test.kind][i] \in Devices
    BY <2>1, StepsListed DEF ToolsType, ToolsTest, Kinds, List
  <2>3. /\ test' \in ToolsTest /\ test'.kind = test.kind /\ test'.walkIndex = test.walkIndex
        /\ test'.selection = i
    BY <2>1 DEF ToolsType, ToolsTest
  <2>4. ~test'.walking /\ test'.paused = test.paused /\ test'.raised = test.raised
    BY <2>1 DEF ToolsType, ToolsTest
  <2>5. CASE test.kind \in Momentary /\ PulseCoil(Steps[test.kind][i]) /\ UNCHANGED rows
    <3>1. /\ out' \in [Devices -> BOOLEAN] /\ pulse' \in [Devices -> BOOLEAN]
          /\ \A c \in Coils : out'[c] => wanted'[c] \/ pulse'[c] \/ \E j \in rows' : List(test'.kind)[j] = c
      BY <2>1, <2>2, <2>3, <2>5, PulseKeeps
    <3>2. ToolsType'
      BY <1>1, <2>1, <2>3, <2>4, <2>5, <3>1 DEF ToolsType
    <3>3. ToolsCoils'
      BY <1>1, <2>1, <3>1 DEF ToolsCoils, NoTestRuns
    <3> QED
      BY <1>1, <2>1, <2>3, <2>4, <2>5, <3>2, <3>3 DEF ToolsWalk, ToolsReflex, PowerReturned, GamePickedUp, NoTestRuns
  <2>6. CASE /\ test.kind \notin Momentary /\ out' = Drive({i}, i \notin rows) /\ UNCHANGED pulse
             /\ rows' = IF i \in rows THEN rows \ {i} ELSE rows \cup {i}
    <3> DEFINE lit == i \notin rows
    <3>1. lit \in BOOLEAN /\ out' = Drive({i}, lit) /\ rows' = IF lit THEN rows \cup {i} ELSE rows \ {i}
      BY <2>6
    <3> HIDE DEF lit
    <3>2. /\ out' \in [Devices -> BOOLEAN]
          /\ rows' \subseteq DOMAIN List(test'.kind)
          /\ \A d \in Coils : out'[d] => wanted'[d] \/ pulse'[d] \/ \E j \in rows' : List(test'.kind)[j] = d
      BY <2>1, <2>2, <2>3, <2>6, <3>1, DriveOneKeeps
    <3>3. ToolsType'
      BY <1>1, <2>1, <2>3, <2>4, <2>6, <3>2 DEF ToolsType
    <3>4. ToolsCoils'
      BY <1>1, <2>1, <3>2 DEF ToolsCoils, NoTestRuns
    <3> QED
      BY <1>1, <2>1, <2>3, <2>4, <2>6, <3>3, <3>4 DEF ToolsWalk, ToolsReflex, PowerReturned, GamePickedUp, NoTestRuns
  <2> QED
    BY <1>5, <2>5, <2>6 DEF EnterTest, FireSelectedTestOutput
<1>6. CASE EnterConfirm
  <2>1. overlay = "Confirm" /\ UNCHANGED <<out, wanted, pulse, monitor, confirmYes>>
    BY <1>6 DEF EnterConfirm
  <2>2. CASE confirmYes /\ pending \in Kinds /\ OpenServiceTest(pending) /\ pending' = "None" /\ UNCHANGED running
    BY <1>1, <2>1, <2>2, TestOpens DEF ToolsInv, ToolsReflex
  <2>3. CASE /\ confirmYes /\ running' = FALSE /\ overlay' = "Menu"
             /\ UNCHANGED <<pending, test, rows, gi, power, music>>
    <3>1. ~reflex'
      BY <1>1, <2>1, <2>3 DEF ToolsInv, ToolsReflex
    <3> QED
      BY <1>1, <2>1, <2>3, <3>1, ScreenChanges DEF ToolsInv, ToolsType
  <2>4. CASE /\ ~confirmYes /\ overlay' = (IF pending \in Kinds THEN "Tests" ELSE "Menu")
             /\ pending' = (IF pending \in Kinds THEN "None" ELSE pending)
             /\ UNCHANGED <<test, rows, gi, power, music, running>>
    <3>1. reflex' => running' /\ (overlay' = "Confirm" => ~confirmYes')
      BY <1>1, <2>1, <2>4 DEF ToolsInv, ToolsReflex
    <3>2. pending' \in Kinds \cup {"None", "RestartPpuc", "PowerOff"} /\ overlay' \in {"Tests", "Menu"}
      BY <2>4 DEF ToolsInv, ToolsType
    <3> QED
      BY <1>1, <2>1, <2>4, <3>1, <3>2, ScreenChanges
  <2> QED
    BY <1>6, <2>2, <2>3, <2>4 DEF EnterConfirm
<1> QED
  BY <1>2, <1>3, <1>4, <1>5, <1>6 DEF Enter

LEMMA KeyAKeeps ==
  ASSUME ToolsInv, running, closing = "no", KeyA, UNCHANGED <<gameVars, closeVars>>
  PROVE  ToolsInv'
<1> USE DEF ToolsInv
<1>1. /\ test.kind # "Switches" /\ overlay = "Test" /\ ~reflex' /\ test \in ToolsTest
      /\ UNCHANGED <<overlay, wanted, pulse, gi, power, monitor, music, pending, confirmYes, running, game, toldMusic,
                     toldPower, closing, seen, stale>>
  BY DEF KeyA, ToggleServiceTestWalk, menuVars, gameVars, closeVars, ToolsType
<1>2. /\ out' \in [Devices -> BOOLEAN] /\ rows' = {}
      /\ \A d \in Coils : out'[d] => wanted[d] \/ pulse[d]
  BY AllOffKeeps DEF KeyA, ToggleServiceTestWalk
<1> DEFINE w == IF test.walking THEN test.walkIndex ELSE test.selection
           o == IF test.walking THEN test.walkOn ELSE FALSE
<1>3. test' = [test EXCEPT !.walking = ~test.walking, !.walkIndex = w, !.walkOn = o]
  BY DEF KeyA, ToggleServiceTestWalk
<1>4. w \in Nat /\ w \in DOMAIN List(test.kind) \cup {1}
  BY <1>1 DEF ToolsTest, ToolsType
<1>5. o \in BOOLEAN
  BY <1>1 DEF ToolsTest
<1> HIDE DEF w, o
<1>6. /\ test' \in ToolsTest /\ test'.kind = test.kind /\ test'.walkIndex = w
      /\ test'.selection = test.selection
  BY <1>1, <1>3, <1>4, <1>5 DEF ToolsTest
<1>7. test'.paused = test.paused /\ test'.raised = test.raised
  BY <1>1, <1>3 DEF ToolsTest
<1>8. ToolsType'
  BY <1>1, <1>2, <1>4, <1>6 DEF ToolsType
<1>9. ToolsCoils'
  BY <1>1, <1>2 DEF ToolsCoils, NoTestRuns
<1> QED
  BY <1>1, <1>2, <1>6, <1>7, <1>8, <1>9 DEF ToolsWalk, ToolsReflex, PowerReturned, GamePickedUp, NoTestRuns

LEMMA BehindKeeps ==
  ASSUME ToolsInv,
         \/ PowerReady \/ ReadGame \/ LeaveServiceTest \/ GameChanges \/ EnableMusic \/ EnginePower
         \/ \E d \in Devices : PulseEnds(d) \/ EngineDrives(d)
  PROVE  ToolsInv'
<1> USE DEF ToolsInv, boardVars, menuVars, gameVars, closeVars
<1>1. CASE PowerReady
  <2>1. ToolsType' /\ ToolsCoils'
    <3>1. /\ UNCHANGED <<overlay, pending, test, rows, out, wanted, pulse, closing, seen, game>>
          /\ monitor' = [monitor EXCEPT !.ready = TRUE] /\ monitor.raised
      BY <1>1 DEF PowerReady
    <3>2. monitor' \in [raised : BOOLEAN, ready : BOOLEAN] /\ monitor'.raised
      BY <3>1 DEF ToolsType
    <3>3. ToolsType'
      BY <3>1, <3>2 DEF ToolsType
    <3>4. ToolsCoils'
      BY <3>1 DEF ToolsCoils, NoTestRuns
    <3> QED
      BY <3>3, <3>4
  <2>2. monitor'.raised = monitor.raised
    BY <1>1 DEF PowerReady, ToolsType
  <2> QED
    BY <1>1, <2>1, <2>2 DEF PowerReady, ToolsWalk, ToolsReflex, PowerReturned, GamePickedUp, NoTestRuns
<1>2. CASE GameChanges \/ EnableMusic \/ EnginePower
  <2>1. ToolsType' /\ ToolsCoils'
    <3>1. /\ UNCHANGED <<overlay, pending, test, rows, out, wanted, pulse, monitor, closing, seen>>
          /\ game' \in BOOLEAN
      BY <1>2 DEF GameChanges, EnableMusic, EnginePower, ToolsType
    <3>2. ToolsType'
      BY <3>1 DEF ToolsType
    <3>3. ToolsCoils'
      BY <3>1 DEF ToolsCoils, NoTestRuns
    <3> QED
      BY <3>2, <3>3
  <2>2. ToolsWalk' /\ ToolsReflex'
    BY <1>2 DEF GameChanges, EnableMusic, EnginePower, ToolsWalk, ToolsReflex
  <2> QED
    BY <1>2, <2>1, <2>2 DEF GameChanges, EnableMusic, EnginePower, PowerReturned, GamePickedUp, NoTestRuns
\* The end of a test sets the music as it read the game: a game that has changed since
\* sets the music itself, or has done so, and then the test was stale.
<1>4. CASE ReadGame \/ LeaveServiceTest
  <2>1. ToolsType' /\ ToolsCoils'
    <3>1. /\ UNCHANGED <<pending, test, rows, out, wanted, pulse, monitor, game>>
          /\ overlay' \in {overlay, "Tests"} /\ closing' \in {"no", "read"} /\ seen' \in BOOLEAN
          /\ NoTestRuns
      BY <1>4 DEF ReadGame, LeaveServiceTest, ToolsType, NoTestRuns
    <3>2. ToolsType'
      BY <3>1 DEF ToolsType
    <3>3. ToolsCoils'
      BY <3>1 DEF ToolsCoils
    <3> QED
      BY <3>2, <3>3
  <2>2. ToolsWalk' /\ ToolsReflex' /\ PowerReturned'
    BY <1>4 DEF ReadGame, LeaveServiceTest, ToolsWalk, ToolsReflex, PowerReturned
  <2>3. GamePickedUp'
    <3>1. CASE ReadGame
      BY <3>1 DEF ReadGame, GamePickedUp, NoTestRuns
    <3>2. CASE LeaveServiceTest
      <4>1. ~test'.paused
        BY <3>2 DEF LeaveServiceTest, GamePickedUp, NoTestRuns
      <4>2. toldMusic' /\ ~stale' => music' = game'
        BY <3>2 DEF LeaveServiceTest
      <4> QED
        BY <4>1, <4>2 DEF GamePickedUp
    <3> QED
      BY <1>4, <3>1, <3>2
  <2> QED
    BY <2>1, <2>2, <2>3
<1>3. ASSUME NEW d \in Devices, PulseEnds(d) \/ EngineDrives(d)
      PROVE  ToolsInv'
  <2>1. UNCHANGED <<overlay, test, rows, power, monitor, music, pending, confirmYes, running, game, toldMusic,
                    toldPower, closing, seen, stale, reflex>>
    BY <1>3 DEF PulseEnds, EngineDrives
  <2>2. /\ out' \in [Devices -> BOOLEAN] /\ wanted' \in [Devices -> BOOLEAN]
        /\ pulse' \in [Devices -> BOOLEAN]
        /\ \A c \in Devices \ {d} : out'[c] = out[c] /\ wanted'[c] = wanted[c] /\ pulse'[c] = pulse[c]
        /\ out'[d] => wanted'[d] \/ pulse'[d]
    <3>1. CASE PulseEnds(d)
      BY <3>1 DEF PulseEnds, ToolsType
    <3>2. CASE EngineDrives(d) /\ pulse[d]
      BY <3>2 DEF EngineDrives, ToolsType
    <3>3. CASE EngineDrives(d) /\ ~pulse[d]
      BY <3>3 DEF EngineDrives, ToolsType
    <3> QED
      BY <1>3, <3>1, <3>2, <3>3
  <2>3. ToolsType'
    BY <2>1, <2>2 DEF ToolsType
  <2>4. ToolsCoils'
    <3>1. Coils \subseteq Devices
      BY KindsAssumption DEF Coils, Devices
    <3> QED
      BY <2>1, <2>2, <3>1 DEF ToolsCoils, NoTestRuns
  <2> QED
    BY <2>1, <2>3, <2>4 DEF ToolsWalk, ToolsReflex, PowerReturned, GamePickedUp, NoTestRuns
<1> QED
  BY <1>1, <1>2, <1>3, <1>4

LEMMA ToolsStep == ToolsInv /\ [Next]_vars => ToolsInv'
<1> SUFFICES ASSUME ToolsInv, [Next]_vars PROVE ToolsInv'
  OBVIOUS
<1>1. CASE UNCHANGED vars
  BY <1>1 DEF vars, ToolsInv, ToolsType, ToolsCoils, ToolsWalk, ToolsReflex, PowerReturned, GamePickedUp, NoTestRuns
<1>2. CASE Key
  BY <1>2, SpaceKeeps, EscapeKeeps, CursorKeeps, EnterKeeps, KeyAKeeps DEF Key, closeVars
<1>3. CASE running /\ ServiceTestWalk
  BY <1>3, WalkKeeps
<1>4. CASE \/ PowerReady \/ ReadGame \/ LeaveServiceTest \/ GameChanges \/ EnableMusic \/ EnginePower
           \/ \E d \in Devices : PulseEnds(d) \/ EngineDrives(d)
  BY <1>4, BehindKeeps
<1> QED
  BY <1>1, <1>2, <1>3, <1>4 DEF Next

\* What the run checks of the service tests follows from the invariant.
LEMMA ToolsMeans == ToolsInv => /\ TypeOK /\ CoilsReleased /\ OneCoilAtATime
                                /\ PowerReturned /\ GamePickedUp /\ NoReflexEnd
<1> SUFFICES ASSUME ToolsInv
             PROVE  /\ TypeOK /\ CoilsReleased /\ OneCoilAtATime
                    /\ PowerReturned /\ GamePickedUp /\ NoReflexEnd
  OBVIOUS
<1> USE DEF ToolsInv
<1>1. TypeOK
  BY DEF ToolsType, TypeOK
<1>2. CoilsReleased
  BY DEF ToolsCoils, CoilsReleased, NoTestRuns
<1>3. OneCoilAtATime
  BY SingleCardinality DEF ToolsWalk, OneCoilAtATime
<1>4. NoReflexEnd
  BY DEF ToolsReflex, NoReflexEnd
<1> QED
  BY <1>1, <1>2, <1>3, <1>4

\* However the service tests are walked, fired and left, no coil stays on, at
\* most one is on at a time, the power and the engine come back, and ENTER alone
\* does not end the session (HandleOverlayKey and what it calls); the music is
\* what the game is, whichever of the two threads set it last, but for a test that
\* closed while the game changed (ReadGame and LeaveServiceTest).
THEOREM ToolsAlwaysGiveBack == OperatorSpec => []ToolsGiveBack
<1> DEFINE Inv == part = "tools" => ToolsInv
<1>1. OperatorInit => Inv
  BY ToolsStart DEF OperatorInit
<1>2. Inv /\ [OperatorNext]_<<part, vars, screenVars, mediaVars, benchVars, startVars, settingsVars>> => Inv'
  BY ToolsStep DEF OperatorNext
<1>3. Inv => ToolsGiveBack
  BY ToolsMeans DEF ToolsGiveBack
<1> QED
  BY <1>1, <1>2, <1>3, PTL DEF OperatorSpec

-----------------------------------------------------------------------------
(* The settings. *)

BeforeScreens == {"folder", "cli", "validate", "configure", "rules", "sound", "monitor"}
AfterScreens == {"plugins", "speech", "screens", "ready"}
AfterLine == {"validate", "configure", "rules", "sound", "monitor"} \cup AfterScreens

\* What the file names beats the folder: before the folder is looked at it is
\* set, and only the screens can take it away.  A file that the command line
\* names has been looked for by then.
FileBeatsFolder ==
  /\ settingsPc = "ini" => ("iniFile" \in input.cli => C!Has("iniFile"))
  /\ settingsPc \in {"folder", "cli"} => ("iniFile" \in input.cli => C!Has("iniFile"))
  /\ settingsPc \in BeforeScreens /\ C!Has("iniFile") =>
       \A v \in C!Values : v \in input.ini => value[v] \in {"ini", "cli"}
  /\ settingsPc \in AfterScreens /\ C!Has("iniFile") =>
       \A v \in C!Values : v \in input.ini => value[v] # "folder"

SettingsInv ==
  /\ C!TypeOK
  /\ FileBeatsFolder
  /\ settingsPc \in AfterLine => \A v \in (input.cli \cap C!Values) \ C!Dropped : value[v] = "cli"
  /\ settingsPc \in AfterScreens \cup {"monitor"} /\ ~audio =>
       on \cap {"speech", "greeting"} = {} /\ ~C!Has("music")
  /\ settingsPc \in AfterScreens /\ "monitor" \in on =>
       on \cap {"b2s", "pup"} = {} /\ ~slides /\ value.translite = "none"
  /\ settingsPc # "ready" => ~backglass
  /\ settingsPc = "ready" /\ "monitor" \in on => ~backglass

LEMMA SettingsStart == C!Init => SettingsInv
  BY DEF C!Init, SettingsInv, C!TypeOK, FileBeatsFolder, AfterLine, AfterScreens, BeforeScreens, C!Values

LEMMA SettingsStep == SettingsInv /\ (C!Next \/ UNCHANGED settingsVars) => SettingsInv'
<1> SUFFICES ASSUME SettingsInv, C!Next \/ UNCHANGED settingsVars PROVE SettingsInv'
  OBVIOUS
<1> USE DEF SettingsInv, C!TypeOK, FileBeatsFolder, AfterLine, AfterScreens, BeforeScreens, C!Values,
            C!Has, C!Go, C!Exit, C!up
<1>1. CASE UNCHANGED settingsVars
  BY <1>1 DEF settingsVars
<1>2. CASE C!Scan
  BY <1>2 DEF C!Scan, C!Over
<1>3. CASE C!LoadIniFile
  BY <1>3 DEF C!LoadIniFile, C!Over
<1>4. CASE C!FolderDefaults
  BY <1>4 DEF C!FolderDefaults, C!Under
<1>5. CASE C!CommandLine
  BY <1>5 DEF C!CommandLine, C!Over
<1>6. CASE C!Validate
  BY <1>6 DEF C!Validate
<1>7. CASE C!LoadConfiguration
  <2>1. /\ value' \in [C!Values -> {"cli", "ini", "folder", "yaml", "none"}]
        /\ \A v \in C!Values : value[v] # "none" \/ v # "rom" => value'[v] = value[v]
        /\ value'["rom"] \in {value["rom"], "yaml"}
    <3>1. value' = value \/ (value["rom"] = "none" /\ value' = [value EXCEPT !.rom = "yaml"])
      BY <1>7 DEF C!LoadConfiguration
    <3> QED
      BY <3>1
  <2>2. /\ settingsPc = "configure" /\ settingsPc' \in {"rules", "over"} /\ settingsExit' \in {settingsExit, "1"}
        /\ UNCHANGED <<input, audio, slides, backglass>>
    BY <1>7 DEF C!LoadConfiguration
  <2> QED
    BY <2>1, <2>2
<1>8. CASE C!FolderRules
  BY <1>8 DEF C!FolderRules, C!Under
<1>9. CASE C!Sound
  BY <1>9 DEF C!Sound, C!SoundConflict
<1>10. CASE C!Monitor
  <2>1. /\ settingsPc = "monitor" /\ settingsPc' = "plugins" /\ UNCHANGED <<settingsExit, input, audio, backglass>>
        /\ on' \subseteq on /\ ("monitor" \in on' => ~slides')
    BY <1>10 DEF C!Monitor
  <2>2. CASE "monitor" \in on /\ (on \cap {"b2s", "pup"} # {} \/ C!Has("translite"))
    <3>1. on' = on \ {"b2s", "pup"} /\ value' = [value EXCEPT !.translite = "none", !.attract = "none"]
      BY <1>10, <2>2 DEF C!Monitor
    <3>2. /\ value' \in [C!Values -> {"cli", "ini", "folder", "yaml", "none"}]
          /\ value'["translite"] = "none" /\ value'["attract"] = "none"
          /\ \A v \in C!Values \ C!Dropped : value'[v] = value[v]
      BY <3>1 DEF C!Dropped
    <3> QED
      BY <2>1, <3>1, <3>2 DEF C!Dropped
  <2>3. CASE ~("monitor" \in on /\ (on \cap {"b2s", "pup"} # {} \/ C!Has("translite")))
    <3>1. UNCHANGED <<on, value>>
      BY <1>10, <2>3 DEF C!Monitor
    <3> QED
      BY <2>1, <2>3, <3>1
  <2> QED
    BY <2>2, <2>3
<1>11. CASE C!Plugins
  BY <1>11 DEF C!Plugins
<1>12. CASE C!Greeting
  BY <1>12 DEF C!Greeting
<1>13. CASE C!Screens
  <2>1. /\ settingsPc = "screens" /\ settingsPc' \in {"ready", "over"} /\ settingsExit' \in {settingsExit, "1"}
        /\ UNCHANGED <<input, on, audio, slides>>
        /\ backglass' \in {backglass, value'["translite"] # "none"} /\ (settingsPc' = "over" => ~backglass')
    BY <1>13 DEF C!Screens
  <2>2. /\ value' \in [C!Values -> {"cli", "ini", "folder", "yaml", "none"}]
        /\ \A v \in C!Values \ C!Dropped : value'[v] = value[v]
        /\ \A v \in C!Dropped : value'[v] \in {value[v], "none"}
    BY <1>13 DEF C!Screens, C!Dropped
  <2>3. C!TypeOK' /\ FileBeatsFolder'
    BY <2>1, <2>2 DEF C!Dropped
  <2>4. CASE settingsPc' = "over"
    BY <2>1, <2>3, <2>4
  <2>5. CASE settingsPc' = "ready"
    <3>1. ~audio' => on' \cap {"speech", "greeting"} = {} /\ ~C!Has("music")'
      BY <2>1, <2>2, <2>5 DEF C!Dropped
    <3>2. \A v \in (input'.cli \cap C!Values) \ C!Dropped : value'[v] = "cli"
      BY <2>1, <2>2, <2>5
    <3>3. "monitor" \in on' => /\ on' \cap {"b2s", "pup"} = {} /\ ~slides' /\ ~backglass'
                               /\ value'["translite"] = "none"
      BY <2>1, <2>2, <2>5 DEF C!Dropped
    <3> QED
      BY <2>3, <2>5, <3>1, <3>2, <3>3
  <2> QED
    BY <2>1, <2>4, <2>5
<1> QED
  BY <1>1, <1>2, <1>3, <1>4, <1>5, <1>6, <1>7, <1>8, <1>9, <1>10, <1>11, <1>12, <1>13 DEF C!Next

-----------------------------------------------------------------------------
(* The start of the program. *)

\* An image is what its name says, or does not tell its build.
ImagesAreTheirNames ==
  \A directory \in Directories : \A i \in DOMAIN directory :
    LET f == directory[i]
    IN  f.reports.version = f.version /\ f.reports.build \in {f.build, 0}

StartStates == {"displays", "connect", "ask"}
AskedStates == {"configure", "again", "prepare", "start", "loop"}

StartInv ==
  /\ U!TypeOK
  /\ options \in Options /\ files \in Directories
  /\ board \in [Boards -> [type : Nat, version : Nat, build : Nat]]
  /\ flashes \in [Boards -> Nat]
  /\ \A b \in Boards : flashes[b] <= 1 /\ (flashes[b] = 1 => ~U!FirmwareUpdatePlanned(b))
  /\ startPc \in StartStates => heard = {}
  /\ startPc \in AskedStates => \A b \in heard : ~U!Mismatch(b)
  /\ machine = "running" => startPc \in {"loop", "emergency", "drop", "_Exit", "stop"}
  /\ options.serial /\ startPc \in {"ask", "emergency", "drop", "stop"} \cup AskedStates => connected
  /\ stray \subseteq {"_Exit"}

\* The newest image is one of the directory's and of the type that was asked for.
LEMMA NewestFits ==
  ASSUME NEW images \in Seq(U!Image), NEW type
  PROVE  \/ U!FindNewestFirmwareImage(images, type) = U!None
         \/ \E i \in DOMAIN images : images[i] = U!FindNewestFirmwareImage(images, type) /\ images[i].type = type
<1> DEFINE L == Len(images)
           T == {U!None} \cup U!Image
           Fits(f, best) == f.type = type /\ (best = U!None \/ U!Better(f, best))
           Eq(f) == f = [i \in 0 .. L |-> IF i = 0 THEN U!None
                                          ELSE IF images[i].type = type /\ (f[i - 1] = U!None \/ U!Better(images[i], f[i - 1]))
                                          THEN images[i] ELSE f[i - 1]]
           found == CHOOSE f : Eq(f)
           g == [x \in Nat \X T |-> IF x[1] < L /\ Fits(images[x[1] + 1], x[2]) THEN images[x[1] + 1] ELSE x[2]]
<1>1. L \in Nat /\ \A i \in 1 .. L : images[i] \in U!Image
  OBVIOUS
<1>2. g \in StepsOn(T)
  <2>1. \A i \in Nat, t \in T : i < L => images[i + 1] \in T
    BY <1>1
  <2>2. \A x \in Nat \X T : (IF x[1] < L /\ Fits(images[x[1] + 1], x[2]) THEN images[x[1] + 1] ELSE x[2]) \in T
    <3> HIDE DEF T, Fits
    <3> QED
      BY <2>1
  <2> HIDE DEF T, Fits
  <2> QED
    BY <2>2 DEF StepsOn
<1>3. \E f : Eq(f)
  <2> HIDE DEF T, g
  <2>1. U!None \in T
    BY DEF T
  <2>2. PICK f \in [0 .. L -> T] : \A i \in 0 .. L : f[i] = IF i = 0 THEN U!None ELSE g[<<i - 1, f[i - 1]>>]
    <3>1. L \in Nat
      BY <1>1
    <3> HIDE DEF L
    <3>2. PICK f \in RecursionUpTo(T, U!None, g, L) : TRUE
      BY <1>2, <2>1, <3>1, RecursionUpToExists
    <3> QED
      BY <3>2 DEF RecursionUpTo
  <2>3. ASSUME NEW i \in 0 .. L, i # 0
        PROVE  g[<<i - 1, f[i - 1]>>] = IF Fits(images[i], f[i - 1]) THEN images[i] ELSE f[i - 1]
    <3>1. i - 1 \in Nat /\ i - 1 \in 0 .. L /\ i - 1 < L /\ (i - 1) + 1 = i
      BY <1>1, <2>3
    <3>2. f[i - 1] \in T
      BY <2>2, <3>1
    <3> HIDE DEF Fits
    <3> QED
      BY <3>1, <3>2 DEF g
  <2>4. Eq(f)
    BY <2>2, <2>3
  <2> QED
    BY <2>4
<1>4. Eq(found)
  BY <1>3
<1> HIDE DEF found
<1> DEFINE Ours(f) == \E i \in DOMAIN images : images[i] = f /\ images[i].type = type
           Good == {n \in Nat : n <= L => found[n] = U!None \/ Ours(found[n])}
<1>5. 0 \in Good
  BY <1>1, <1>4
<1>6. ASSUME NEW n \in Nat, n \in Good PROVE n + 1 \in Good
  <2> SUFFICES ASSUME n + 1 <= L PROVE found[n + 1] = U!None \/ Ours(found[n + 1])
    OBVIOUS
  <2>1. n + 1 \in 0 .. L /\ n + 1 # 0 /\ (n + 1) - 1 = n /\ n + 1 \in DOMAIN images /\ n <= L
    BY <1>1
  <2>2. found[n + 1] = IF Fits(images[n + 1], found[n]) THEN images[n + 1] ELSE found[n]
    BY <1>4, <2>1
  <2>3. found[n] = U!None \/ Ours(found[n])
    BY <1>6, <2>1
  <2> QED
    BY <2>1, <2>2, <2>3
<1>7. L \in Good
  <2> HIDE DEF Good
  <2> QED
    BY <1>1, <1>5, <1>6, Induction
<1>8. U!FindNewestFirmwareImage(images, type) = found[L]
  BY DEF U!FindNewestFirmwareImage, found
<1> QED
  BY <1>7, <1>8

\* A board that was flashed with a true image has no update left to wait for.
LEMMA FlashedIsCurrent ==
  ASSUME ImagesAreTheirNames, StartInv, NEW b \in Boards, U!FirmwareUpdatePlanned(b),
         UNCHANGED <<options, files>>,
         board'[b] = LET fresh == U!FindNewestFirmwareImage(files, board[b].type).reports
                     IN  [board[b] EXCEPT !.version = fresh.version, !.build = fresh.build]
  PROVE  board'[b] \in [type : Nat, version : Nat, build : Nat] /\ ~U!FirmwareUpdatePlanned(b)'
         /\ board'[b].type = board[b].type
<1> DEFINE image == U!FindNewestFirmwareImage(files, board[b].type)
<1>1. files \in Seq(U!Image) /\ board[b] \in [type : Nat, version : Nat, build : Nat]
  BY StartTyped DEF StartInv, U!StartAssumption
<1>2. image # U!None
  BY DEF U!FirmwareUpdatePlanned
<1>3. PICK i \in DOMAIN files : files[i] = image
  BY <1>1, <1>2, NewestFits
<1>4. image \in U!Image /\ image.reports.version = image.version /\ image.reports.build \in {image.build, 0}
  BY <1>1, <1>3 DEF ImagesAreTheirNames, StartInv
<1> HIDE DEF image
<1>5. board'[b] = [board[b] EXCEPT !.version = image.reports.version, !.build = image.reports.build]
  BY DEF image
<1>6. /\ board'[b] \in [type : Nat, version : Nat, build : Nat] /\ board'[b].type = board[b].type
      /\ board'[b].version = image.version /\ board'[b].build \in {image.build, 0}
  BY <1>1, <1>4, <1>5 DEF U!Image
<1>7. U!FindNewestFirmwareImage(files', board'[b].type) = image
  BY <1>6 DEF image
<1>8. ~U!FirmwareUpdatePlanned(b)'
  BY <1>4, <1>6, <1>7 DEF U!FirmwareUpdatePlanned, U!FirmwareIsOutOfDate, U!Image
<1> QED
  BY <1>6, <1>8

LEMMA StartCardinality == ASSUME NEW S PROVE U!Cardinality(S) = Cardinality(S)
  BY DEF U!Cardinality, Cardinality, U!IsFiniteSet, IsFiniteSet

\* What the program hears of its boards, and what it flashes.
LEMMA ReportKeeps ==
  ASSUME ImagesAreTheirNames, StartInv, UNCHANGED <<options, files>>, NEW responded \in SUBSET Boards,
         NEW updated \in SUBSET U!Updatable(responded), U!ReportBoardFirmware(responded, updated)
  PROVE  /\ board' \in [Boards -> [type : Nat, version : Nat, build : Nat]]
         /\ \A b \in Boards : board'[b].type = board[b].type
         /\ flashes' \in [Boards -> Nat]
         /\ \A b \in Boards : flashes'[b] <= 1 /\ (flashes'[b] = 1 => ~U!FirmwareUpdatePlanned(b)')
         /\ heard' = heard \cup responded
<1>1. \A b \in updated : U!FirmwareUpdatePlanned(b) /\ b \in Boards
  BY DEF U!Updatable
<1>2. /\ heard' = heard \cup responded
      /\ board' = [b \in Boards |->
           IF b \notin updated THEN board[b]
           ELSE LET fresh == U!FindNewestFirmwareImage(files, board[b].type).reports
                IN  [board[b] EXCEPT !.version = fresh.version, !.build = fresh.build]]
      /\ flashes' = [b \in Boards |-> IF b \in updated THEN flashes[b] + 1 ELSE flashes[b]]
  BY DEF U!ReportBoardFirmware
<1>3. ASSUME NEW b \in Boards
      PROVE  /\ board'[b] \in [type : Nat, version : Nat, build : Nat] /\ board'[b].type = board[b].type
             /\ flashes'[b] \in Nat /\ flashes'[b] <= 1 /\ (flashes'[b] = 1 => ~U!FirmwareUpdatePlanned(b)')
  <2>1. CASE b \in updated
    <3>1. board'[b] = LET fresh == U!FindNewestFirmwareImage(files, board[b].type).reports
                      IN  [board[b] EXCEPT !.version = fresh.version, !.build = fresh.build]
      BY <1>2, <2>1
    <3>2. board'[b] \in [type : Nat, version : Nat, build : Nat] /\ ~U!FirmwareUpdatePlanned(b)'
          /\ board'[b].type = board[b].type
      BY <1>1, <2>1, <3>1, FlashedIsCurrent
    <3>3. flashes[b] = 0 /\ flashes'[b] = 1
      <4>1. flashes[b] \in Nat /\ flashes[b] <= 1 /\ flashes[b] # 1
        BY <1>1, <2>1 DEF StartInv
      <4>2. flashes'[b] = flashes[b] + 1
        BY <1>2, <2>1
      <4>3. flashes[b] = 0
        BY <4>1
      <4> QED
        BY <4>2, <4>3
    <3> QED
      BY <3>2, <3>3
  <2>2. CASE b \notin updated
    <3>1. board'[b] = board[b] /\ flashes'[b] = flashes[b]
      BY <1>2, <2>2
    <3>2. U!FirmwareUpdatePlanned(b)' <=> U!FirmwareUpdatePlanned(b)
      BY <3>1 DEF U!FirmwareUpdatePlanned, U!FirmwareIsOutOfDate, U!FirmwareUpdateBlocked
    <3> QED
      BY <3>1, <3>2 DEF StartInv
  <2> QED
    BY <2>1, <2>2
<1> QED
  BY <1>2, <1>3

\* A check that finds no board of another type has found that there is none.
LEMMA CheckFinds ==
  ASSUME StartInv, NEW responded \in SUBSET Boards
  PROVE  /\ U!CheckBoardTypes(responded) \in 0 .. Cardinality(Boards)
         /\ U!CheckBoardTypes(responded) = 0 => \A b \in responded : ~U!Mismatch(b)
<1> DEFINE wrong == {b \in responded : U!Mismatch(b)}
<1>1. wrong \subseteq Boards /\ IsFiniteSet(Boards)
  BY StartTyped DEF U!StartAssumption, U!IsFiniteSet, IsFiniteSet
<1>2. IsFiniteSet(wrong) /\ Cardinality(wrong) <= Cardinality(Boards)
  BY <1>1, FS_Subset
<1>3. Cardinality(wrong) \in Nat /\ Cardinality(Boards) \in Nat /\ (Cardinality(wrong) = 0 <=> wrong = {})
  BY <1>1, <1>2, FS_CardinalityType, FS_EmptySet
<1>4. U!CheckBoardTypes(responded) = Cardinality(wrong)
  BY StartCardinality DEF U!CheckBoardTypes
<1> QED
  BY <1>2, <1>3, <1>4

LEMMA StartBegins == U!Init => StartInv
<1> SUFFICES ASSUME U!Init PROVE StartInv
  OBVIOUS
<1>1. Cardinality(Boards) \in Nat /\ U!Cardinality(Boards) = Cardinality(Boards)
  BY StartTyped, StartCardinality, FS_CardinalityType DEF U!StartAssumption, U!IsFiniteSet, IsFiniteSet
<1>2. U!TypeOK
  BY <1>1 DEF U!Init, U!TypeOK
<1> QED
  BY <1>2, StartTyped DEF U!Init, StartInv, StartStates, AskedStates, U!StartAssumption

\* The steps that ask the boards.
LEMMA AskKeeps == ASSUME ImagesAreTheirNames, StartInv, U!AskFirst \/ U!AskAgain PROVE StartInv'
<1>1. UNCHANGED <<options, files, updates, machine, loop, shutdown, restart, restarts, stray>>
  BY DEF U!AskFirst, U!AskAgain, U!session
<1>2. PICK responded \in SUBSET Boards :
        /\ \E updated \in SUBSET U!Updatable(responded) : U!ReportBoardFirmware(responded, updated)
        /\ hooked' \in {hooked, U!Cardinality(responded)}
        /\ mismatches' \in {mismatches, U!CheckBoardTypes(responded)}
        /\ startPc \in {"ask", "again"}
        /\ \/ connected' = FALSE /\ startPc' = "exited" /\ exit' \in {1, U!kExitRestart}
           \/ /\ UNCHANGED <<connected, exit>>
              /\ startPc' \in {"configure", "prepare"}
              /\ ~(U!CheckBoardTypes(responded) > 0)
  <2>1. CASE U!AskFirst
    BY <2>1 DEF U!AskFirst, U!Disconnect, U!Exit, U!Go
  <2>2. CASE U!AskAgain
    BY <2>2 DEF U!AskAgain, U!Disconnect, U!Exit, U!Go
  <2> QED
    BY <2>1, <2>2
<1>3. /\ board' \in [Boards -> [type : Nat, version : Nat, build : Nat]]
      /\ \A b \in Boards : board'[b].type = board[b].type
      /\ flashes' \in [Boards -> Nat]
      /\ \A b \in Boards : flashes'[b] <= 1 /\ (flashes'[b] = 1 => ~U!FirmwareUpdatePlanned(b)')
      /\ heard' = heard \cup responded
  BY <1>1, <1>2, ReportKeeps
<1>4. /\ U!CheckBoardTypes(responded) \in 0 .. Cardinality(Boards)
      /\ U!CheckBoardTypes(responded) = 0 => \A b \in responded : ~U!Mismatch(b)
  BY CheckFinds
<1>5. U!TypeOK'
  <2>1. IsFiniteSet(Boards)
    BY StartTyped DEF U!StartAssumption, U!IsFiniteSet, IsFiniteSet
  <2>2. /\ Cardinality(responded) \in 0 .. Cardinality(Boards)
        /\ U!Cardinality(responded) = Cardinality(responded) /\ U!Cardinality(Boards) = Cardinality(Boards)
    BY <2>1, FS_Subset, FS_CardinalityType, StartCardinality
  <2> QED
    BY <1>1, <1>2, <1>3, <1>4, <2>2 DEF StartInv, U!TypeOK
<1>6. startPc' \in AskedStates => \A b \in heard' : ~U!Mismatch(b)'
  <2> SUFFICES ASSUME startPc' \in AskedStates, NEW b \in heard' PROVE ~U!Mismatch(b)'
    OBVIOUS
  <2>1. \A c \in responded : ~U!Mismatch(c)
    BY <1>2, <1>4 DEF AskedStates
  <2>2. \A c \in heard : ~U!Mismatch(c)
    BY <1>2 DEF StartInv, StartStates, AskedStates
  <2>3. b \in Boards /\ ~U!Mismatch(b)
    BY <1>3, <2>1, <2>2 DEF StartInv, U!TypeOK
  <2> QED
    BY <1>3, <2>3 DEF U!Mismatch
<1> QED
  BY <1>1, <1>2, <1>3, <1>5, <1>6 DEF StartInv, StartStates, AskedStates

\* The other steps leave the boards as they are.
LEMMA StartStep == ASSUME ImagesAreTheirNames PROVE StartInv /\ (U!Next \/ UNCHANGED startVars) => StartInv'
<1> SUFFICES ASSUME StartInv, U!Next \/ UNCHANGED startVars PROVE StartInv'
  OBVIOUS
<1>1. CASE U!AskFirst \/ U!AskAgain
  BY <1>1, AskKeeps
<1>2. ASSUME UNCHANGED <<options, files, board, flashes>>, heard' \in {heard, {}},
             UNCHANGED <<hooked, mismatches>> \/ (hooked' = 0 /\ mismatches' = 0),
             exit' \in {exit, 0, 1, U!kExitRestart}, machine' \in {machine, "none", "running", "stopped"},
             startPc' \in StartStates => heard' = {},
             startPc' \in AskedStates => startPc \in AskedStates \cup {"displays", "connect"},
             machine' = "running" => startPc' \in {"loop", "emergency", "drop", "_Exit", "stop"},
             options.serial /\ startPc' \in {"ask", "emergency", "drop", "stop"} \cup AskedStates => connected',
             stray' \subseteq {"_Exit"}
      PROVE  StartInv'
  <2>1. U!TypeOK'
    <3>1. U!Cardinality(Boards) \in Nat
      BY StartTyped, StartCardinality, FS_CardinalityType DEF U!StartAssumption, U!IsFiniteSet, IsFiniteSet
    <3> QED
      BY <1>2, <3>1 DEF StartInv, U!TypeOK
  <2>2. \A b \in Boards : /\ U!FirmwareUpdatePlanned(b)' <=> U!FirmwareUpdatePlanned(b)
                          /\ U!Mismatch(b)' <=> U!Mismatch(b)
    BY <1>2 DEF U!FirmwareUpdatePlanned, U!FirmwareIsOutOfDate, U!FirmwareUpdateBlocked, U!Mismatch
  <2>3. startPc' \in AskedStates => \A b \in heard' : ~U!Mismatch(b)'
    BY <1>2, <2>2 DEF StartInv, StartStates, AskedStates, U!TypeOK
  <2> QED
    BY <1>2, <2>1, <2>2, <2>3 DEF StartInv
<1> USE DEF StartStates, AskedStates, U!boards, U!session, U!Go, U!Exit, U!Disconnect
<1>3. CASE UNCHANGED startVars
  BY <1>2, <1>3 DEF startVars, StartInv
<1>4. CASE U!OpenDisplays \/ U!OpenPort \/ U!Configure
  BY <1>2, <1>4 DEF U!OpenDisplays, U!OpenPort, U!Configure, StartInv
<1>5. CASE U!Prepare \/ U!Start \/ U!EndLoop
  BY <1>2, <1>5 DEF U!Prepare, U!Start, U!EndLoop, StartInv
<1>6. CASE U!Emergency \/ U!StopEngine \/ U!StopUpdates \/ U!LetGo
  BY <1>2, <1>6 DEF U!Emergency, U!StopEngine, U!StopUpdates, U!LetGo, StartInv
<1>7. CASE U!Teardown \/ U!Relaunch
  BY <1>2, <1>7 DEF U!Teardown, U!Relaunch, StartInv
<1>8. CASE U!EngineSends \/ U!Signal \/ U!Leave
  BY <1>2, <1>8 DEF U!EngineSends, U!Signal, U!Leave, StartInv
<1> QED
  BY <1>1, <1>3, <1>4, <1>5, <1>6, <1>7, <1>8 DEF U!Next, U!Main

\* A board is flashed once, no game starts on a board that told it is another,
\* and no output goes to boards that were let go; before that, the command line
\* wins, a voice has sound and the monitor has the screen (main of ppuc.cpp).
\* The images have to be what their names say.
THEOREM StartIsAlwaysSafe ==
  ASSUME ImagesAreTheirNames PROVE OperatorSpec => []StartIsSafe
<1> DEFINE Inv == (part = "start" => StartInv) /\ (part = "settings" => SettingsInv)
<1>1. OperatorInit => Inv
  BY StartBegins, SettingsStart DEF OperatorInit
<1>2. Inv /\ [OperatorNext]_<<part, vars, screenVars, mediaVars, benchVars, startVars, settingsVars>> => Inv'
  BY StartStep, SettingsStep DEF OperatorNext
<1>3. Inv => StartIsSafe
  <2>1. StartInv => U!TypeOK /\ U!StartIsSafe
    BY DEF StartInv, U!StartIsSafe, U!FlashedOnce, U!NoGameOnWrongBoard, U!SinksReachBus, AskedStates
  <2>2. SettingsInv => C!TypeOK /\ C!SettingsAgree
    BY DEF SettingsInv, FileBeatsFolder, AfterLine, AfterScreens, C!SettingsAgree, C!CommandLineWins,
           C!VoiceHasSound, C!MonitorOwnsScreen
  <2> QED
    BY <2>1, <2>2 DEF StartIsSafe
<1> QED
  BY <1>1, <1>2, <1>3, PTL DEF OperatorSpec

-----------------------------------------------------------------------------
(* The bench tests. *)

\* The numbers of the outputs that are tested.
BenchNumbers(t) == {BenchDevices[i].number : i \in {j \in 1 .. Len(BenchDevices) : B!IsTested(t, BenchDevices[j])}}
BenchSteps == {steps[i] : i \in 1 .. Len(steps)}
BenchNow == IF bench.interactive THEN Head(waiting) ELSE steps[index]

BenchType ==
  /\ B!TypeOK
  /\ bench \in BenchTests
  /\ steps \in Seq(BenchNumbers(bench)) /\ waiting \in Seq(BenchSteps)
  /\ active \in BOOLEAN
  /\ benchPc \in {"prime", "forget", "service", "cleanup", "close", "done"}
  /\ moves \in Seq(Switches \X BOOLEAN) /\ closed \subseteq Switches

\* An output is on while its step is active: the step of the list that is the
\* turn, or the first of those that were asked for.
BenchOutputs ==
  /\ outputs \subseteq BenchSteps
  /\ \E x : outputs \subseteq {x}
  /\ benchPc \in {"prime", "forget", "close", "done"} => outputs = {}
  /\ benchPc = "service" =>
       /\ outputs = IF active THEN {BenchNow} ELSE {}
       /\ active /\ bench.interactive => waiting # <<>>
       /\ ~bench.interactive /\ bench.mode # "switches" => index \in 1 .. Len(steps)
  /\ active => bench.mode # "switches"
  /\ benchPc = "done" => ~coil

\* The lights are on, as far as the feedback goes, when nothing has moved.
BenchLights ==
  /\ benchPc \in {"prime", "forget"} => bench.mode = "switches"
  /\ benchPc = "forget" => current = initial
  /\ benchPc \in {"forget", "service"} /\ bench.mode = "switches" =>
       current \in [Switches -> BOOLEAN] /\ initial \in [Switches -> BOOLEAN]
  /\ benchPc = "service" /\ bench.mode = "switches" /\ ~bench.wpc =>
       /\ feedback \in BOOLEAN
       /\ feedback => current = initial
       /\ string = IF feedback THEN B!Lit ELSE 0

BenchInv == BenchType /\ BenchOutputs /\ BenchLights

LEMMA StepsAreTested == ASSUME NEW t PROVE B!StepsOf(t) \in Seq(BenchNumbers(t))
<1> DEFINE L == Len(BenchDevices)
           T == Seq(BenchNumbers(t))
           Part(i) == [j \in 1 .. B!Times(t, BenchDevices[i]) |-> BenchDevices[i].number]
           Eq(f) == f = [i \in 0 .. L |-> IF i = 0 THEN <<>> ELSE f[i - 1] \o Part(i)]
           built == CHOOSE f : Eq(f)
           g == [x \in Nat \X T |-> IF x[1] < L THEN x[2] \o Part(x[1] + 1) ELSE x[2]]
<1>1. L \in Nat
  BY BenchTyped DEF B!BenchAssumption
<1>2. ASSUME NEW i \in 1 .. L PROVE Part(i) \in T
  <2>1. CASE B!IsTested(t, BenchDevices[i])
    <3>1. BenchDevices[i].number \in BenchNumbers(t)
      BY <2>1 DEF BenchNumbers
    <3>2. B!Times(t, BenchDevices[i]) \in Nat
      BY DEF B!Times
    <3> QED
      BY <3>1, <3>2
  <2>2. CASE ~B!IsTested(t, BenchDevices[i])
    <3>1. B!Times(t, BenchDevices[i]) = 0
      BY <2>2 DEF B!Times
    <3> QED
      BY <3>1
  <2> QED
    BY <2>1, <2>2
<1>3. g \in StepsOn(T)
  <2>1. \A i \in Nat, s \in T : (IF i < L THEN s \o Part(i + 1) ELSE s) \in T
    <3>1. ASSUME NEW i \in Nat, i < L PROVE Part(i + 1) \in T
      BY <1>1, <1>2, <3>1
    <3> HIDE DEF Part
    <3> QED
      BY <3>1
  <2> HIDE DEF T, Part
  <2>2. \A x \in Nat \X T : (IF x[1] < L THEN x[2] \o Part(x[1] + 1) ELSE x[2]) \in T
    BY <2>1
  <2> QED
    BY <2>2 DEF StepsOn
<1>4. <<>> \in T
  OBVIOUS
<1>5. ASSUME NEW f, NEW i \in 0 .. L, i # 0, f[i - 1] \in T
      PROVE  g[<<i - 1, f[i - 1]>>] = f[i - 1] \o Part(i)
  <2>1. i - 1 \in Nat /\ i - 1 < L /\ (i - 1) + 1 = i
    BY <1>1, <1>5
  <2> HIDE DEF Part, T
  <2> QED
    BY <1>5, <2>1
<1>6. \E f : Eq(f)
  <2> HIDE DEF T, g, Part, L
  <2>1. PICK f \in RecursionUpTo(T, <<>>, g, L) : TRUE
    BY <1>1, <1>3, <1>4, RecursionUpToExists
  <2>2. f \in [0 .. L -> T] /\ \A i \in 0 .. L : f[i] = IF i = 0 THEN <<>> ELSE g[<<i - 1, f[i - 1]>>]
    BY <2>1 DEF RecursionUpTo
  <2>3. \A i \in 0 .. L : i # 0 => f[i - 1] \in T
    BY <1>1, <2>2
  <2>4. Eq(f)
    BY <1>5, <2>2, <2>3
  <2> QED
    BY <2>4
<1>7. Eq(built)
  BY <1>6
<1> HIDE DEF built
<1> DEFINE Good == {n \in Nat : n <= L => built[n] \in T}
<1>8. 0 \in Good
  BY <1>1, <1>4, <1>7
<1>9. ASSUME NEW n \in Nat, n \in Good PROVE n + 1 \in Good
  <2> SUFFICES ASSUME n + 1 <= L PROVE built[n + 1] \in T
    OBVIOUS
  <2>1. n + 1 \in 0 .. L /\ n + 1 # 0 /\ (n + 1) - 1 = n /\ n <= L /\ n + 1 \in 1 .. L
    BY <1>1
  <2>2. built[n + 1] = built[n] \o Part(n + 1)
    BY <1>7, <2>1
  <2>3. built[n] \in T /\ Part(n + 1) \in T
    BY <1>2, <1>9, <2>1
  <2> HIDE DEF Part
  <2> QED
    BY <2>2, <2>3
<1>10. L \in Good
  <2> HIDE DEF Good
  <2> QED
    BY <1>1, <1>8, <1>9, Induction
<1>11. B!StepsOf(t) = built[L]
  BY DEF B!StepsOf, built
<1> QED
  BY <1>10, <1>11

\* The list of the switch test is empty.
LEMMA SwitchesHaveNoSteps == ASSUME BenchType, bench.mode = "switches" PROVE steps = <<>> /\ BenchSteps = {}
<1>1. BenchNumbers(bench) = {}
  BY DEF BenchNumbers, B!IsTested, B!Tested
<1> QED
  BY <1>1 DEF BenchType, BenchSteps

\* No output of a test is one of a board that is not there.
LEMMA TestedAreThere ==
  ASSUME NEW t \in BenchTests
  PROVE  /\ BenchNumbers(t) \subseteq B!Numbers
         /\ \A n \in BenchNumbers(t), j \in 1 .. Len(BenchDevices) :
              BenchDevices[j].virtual /\ BenchDevices[j].type \in B!Tested[t.mode] => BenchDevices[j].number # n
<1>1. t.mode \in DOMAIN B!Tested
  BY BenchTyped DEF B!BenchAssumption
<1>2. ASSUME NEW i \in 1 .. Len(BenchDevices), NEW j \in 1 .. Len(BenchDevices), B!IsTested(t, BenchDevices[i]),
             BenchDevices[j].virtual, BenchDevices[j].type \in B!Tested[t.mode],
             BenchDevices[i].number = BenchDevices[j].number
      PROVE  FALSE
  <2>1. {BenchDevices[i].type, BenchDevices[j].type} \subseteq B!Tested[t.mode] /\ ~BenchDevices[i].virtual
    BY <1>2 DEF B!IsTested
  <2>2. BenchDevices[i].virtual = BenchDevices[j].virtual
    BY <1>1, <1>2, <2>1, BenchTyped DEF B!BenchAssumption
  <2> QED
    BY <1>2, <2>1, <2>2
<1> QED
  BY <1>2 DEF BenchNumbers, B!Numbers

LEMMA BenchStart == B!Init => BenchInv
<1> SUFFICES ASSUME B!Init PROVE BenchInv
  OBVIOUS
<1>1. steps \in Seq(BenchNumbers(bench)) /\ bench \in BenchTests
  BY StepsAreTested DEF B!Init
<1>2. B!TypeOK
  BY <1>1, BenchTyped DEF B!Init, B!TypeOK, B!BenchAssumption
<1>3. BenchType
  <2>1. active \in BOOLEAN /\ benchPc \in {"prime", "service", "close"}
    BY DEF B!Init
  <2>2. waiting \in Seq(BenchSteps) /\ moves \in Seq(Switches \X BOOLEAN) /\ closed \subseteq Switches
    BY DEF B!Init
  <2> QED
    BY <1>1, <1>2, <2>1, <2>2 DEF BenchType
<1>4. BenchOutputs
  BY <1>1, <1>3, SwitchesHaveNoSteps DEF B!Init, BenchOutputs
<1>5. BenchLights
  BY DEF B!Init, BenchLights
<1> QED
  BY <1>3, <1>4, <1>5 DEF BenchInv

\* The steps of the runner.
LEMMA ServiceKeeps == ASSUME BenchInv, B!Service PROVE BenchInv'
<1> USE DEF BenchInv
<1>1. /\ benchPc = "service" /\ bench.mode # "switches"
      /\ UNCHANGED <<bench, steps, string, coil, closed, moves, initial, current, feedback, off, goesOn>>
      /\ benchPc' \in {"service", "cleanup"}
  BY DEF B!Service, B!playfield, B!ServiceList, B!ServiceAsked
<1>2. /\ OnTime \in Nat /\ OffTime \in Nat /\ steps \in Seq(BenchNumbers(bench)) /\ waiting \in Seq(BenchSteps)
      /\ BenchNumbers(bench) \subseteq B!Numbers /\ BenchSteps \subseteq BenchNumbers(bench) /\ UNCHANGED BenchSteps
  <2>1. steps \in Seq(BenchNumbers(bench))
    BY DEF BenchType
  <2> QED
    BY <1>1, <2>1, BenchTyped, TestedAreThere DEF BenchType, BenchSteps, B!BenchAssumption
<1>3. BenchLights'
  BY <1>1 DEF BenchLights
<1>4. CASE B!ServiceList
  <2>1. ~bench.interactive /\ index \in 1 .. Len(steps) /\ steps[index] \in BenchSteps /\ UNCHANGED waiting
    BY <1>1, <1>4 DEF B!ServiceList, BenchOutputs, BenchSteps
  <2>2. CASE ~active
    <3>1. /\ outputs' = {steps[index]} /\ active' /\ deadline' = OnTime /\ UNCHANGED <<index, benchPc>>
          /\ active' \in BOOLEAN
      BY <1>1, <1>4, <2>2 DEF B!ServiceList, B!Begin, B!ApplyBenchOutput, BenchOutputs
    <3>2. BenchType'
      BY <1>1, <1>2, <2>1, <3>1 DEF BenchType, B!TypeOK
    <3>3. BenchOutputs'
      BY <1>1, <1>2, <2>1, <3>1 DEF BenchOutputs, BenchNow
    <3> QED
      BY <1>3, <3>2, <3>3
  <2>3. CASE active
    <3>1. /\ outputs' = {} /\ ~active' /\ index' = index + 1 /\ deadline' \in {0, OffTime}
          /\ benchPc' = IF index < Len(steps) THEN benchPc ELSE "cleanup"
      BY <1>1, <1>4, <2>1, <2>3 DEF B!ServiceList, B!End, B!ApplyBenchOutput, BenchOutputs, BenchNow
    <3>2. active' \in BOOLEAN
      BY <1>4, <2>3, Zenon DEF B!ServiceList, B!End
    <3>3. BenchType'
      BY <1>1, <1>2, <2>1, <3>1, <3>2 DEF BenchType, B!TypeOK
    <3>4. BenchOutputs'
      BY <1>1, <1>2, <2>1, <3>1 DEF BenchOutputs, BenchNow
    <3> QED
      BY <1>3, <3>3, <3>4
  <2> QED
    BY <2>2, <2>3
<1>5. CASE B!ServiceAsked
  <2>1. bench.interactive /\ UNCHANGED <<index, benchPc>> /\ waiting # <<>> /\ Head(waiting) \in BenchSteps
        /\ Tail(waiting) \in Seq(BenchSteps)
    BY <1>1, <1>2, <1>5 DEF B!ServiceAsked, BenchOutputs
  <2>2. CASE ~active
    <3>1. outputs' = {Head(waiting)} /\ active' /\ deadline' = OnTime /\ UNCHANGED waiting /\ active' \in BOOLEAN
      BY <1>1, <1>5, <2>2 DEF B!ServiceAsked, B!Begin, B!ApplyBenchOutput, BenchOutputs
    <3>2. BenchType'
      BY <1>1, <1>2, <2>1, <3>1 DEF BenchType, B!TypeOK
    <3>3. BenchOutputs'
      BY <1>1, <1>2, <2>1, <3>1 DEF BenchOutputs, BenchNow
    <3> QED
      BY <1>3, <3>2, <3>3
  <2>3. CASE active
    <3>1. outputs' = {} /\ ~active' /\ deadline' \in {0, OffTime} /\ waiting' = Tail(waiting)
      BY <1>1, <1>5, <2>1, <2>3 DEF B!ServiceAsked, B!End, B!ApplyBenchOutput, BenchOutputs, BenchNow
    <3>2. active' \in BOOLEAN
      BY <1>5, <2>3, Zenon DEF B!ServiceAsked, B!End
    <3>3. BenchType'
      BY <1>1, <1>2, <2>1, <3>1, <3>2 DEF BenchType, B!TypeOK
    <3>4. BenchOutputs'
      BY <1>1, <1>2, <2>1, <3>1 DEF BenchOutputs, BenchNow
    <3> QED
      BY <1>3, <3>3, <3>4
  <2> QED
    BY <2>2, <2>3
<1> QED
  BY <1>4, <1>5 DEF B!Service

LEMMA PollKeeps == ASSUME BenchInv, B!PollInput PROVE BenchInv'
<1> USE DEF BenchInv
<1>1. /\ benchPc = "service" /\ bench.interactive
      /\ UNCHANGED <<bench, steps, index, active, pause, deadline, outputs, string, coil, closed, moves, initial,
                     current, feedback, off>>
      /\ UNCHANGED BenchSteps
  BY DEF B!PollInput, B!playfield, BenchSteps
<1>2. CASE goesOn' = FALSE /\ benchPc' = "cleanup" /\ UNCHANGED waiting
  BY <1>1, <1>2 DEF BenchType, BenchOutputs, BenchLights, B!TypeOK
<1>3. ASSUME NEW n \in {steps[i] : i \in 1 .. Len(steps)}, UNCHANGED <<goesOn, benchPc>>,
             waiting' = waiting \o [j \in 1 .. B!Cardinality({i \in 1 .. Len(steps) : steps[i] = n}) |-> n]
      PROVE  BenchInv'
  <2> DEFINE all == {i \in 1 .. Len(steps) : steps[i] = n}
  <2>1. B!Cardinality(all) \in Nat
    <3>1. Len(steps) \in Nat
      BY DEF BenchType
    <3>2. IsFiniteSet(1 .. Len(steps))
      BY <3>1, FS_Interval
    <3>3. IsFiniteSet(all)
      BY <3>2, FS_Subset
    <3>4. B!Cardinality(all) = Cardinality(all)
      BY DEF B!Cardinality, Cardinality, B!IsFiniteSet, IsFiniteSet
    <3> QED
      BY <3>3, <3>4, FS_CardinalityType
  <2> DEFINE k == B!Cardinality(all)
             more == [j \in 1 .. k |-> n]
  <2> HIDE DEF k
  <2>2. n \in BenchSteps /\ more \in Seq(BenchSteps)
    BY <2>1 DEF BenchSteps, k
  <2>3. waiting' = waiting \o more
    BY <1>3 DEF k
  <2> HIDE DEF more
  <2>4. waiting \in Seq(BenchSteps) /\ waiting' \in Seq(BenchSteps)
    BY <2>2, <2>3 DEF BenchType
  <2>5. waiting # <<>> => waiting' # <<>> /\ Head(waiting') = Head(waiting)
    BY <2>2, <2>3, <2>4
  <2>6. BenchType'
    BY <1>1, <1>3, <2>4 DEF BenchType, B!TypeOK
  <2>7. BenchOutputs'
    BY <1>1, <1>3, <2>5 DEF BenchOutputs, BenchNow
  <2> QED
    BY <1>1, <1>3, <2>6, <2>7 DEF BenchLights
<1> QED
  BY <1>2, <1>3 DEF B!PollInput

LEMMA CleanupKeeps == ASSUME BenchInv, B!Cleanup \/ B!Close PROVE BenchInv'
<1> USE DEF BenchInv
<1>1. CASE B!Cleanup
  <2>1. /\ benchPc' = "close" /\ outputs' = outputs \ BenchSteps
        /\ UNCHANGED <<bench, steps, waiting, index, active, pause, deadline, coil, closed, moves, initial, current,
                       feedback, off, goesOn>>
    BY <1>1 DEF B!Cleanup, B!runner, B!playfield, BenchSteps
  <2>2. outputs' = {} /\ UNCHANGED BenchSteps
    BY <2>1 DEF BenchOutputs, BenchSteps
  <2> QED
    BY <2>1, <2>2 DEF BenchType, BenchOutputs, BenchLights, B!TypeOK
<1>2. CASE B!Close
  <2>1. /\ benchPc = "close" /\ benchPc' = "done" /\ ~coil'
        /\ UNCHANGED <<bench, steps, waiting, index, active, pause, deadline, outputs, closed, moves, initial,
                       current, feedback, off, goesOn>>
        /\ UNCHANGED BenchSteps
    BY <1>2 DEF B!Close, B!runner, B!playfield, BenchSteps
  <2> QED
    BY <2>1 DEF BenchType, BenchOutputs, BenchLights, B!TypeOK
<1> QED
  BY <1>1, <1>2

\* What a pass of the switch test knows is a state of the switches.
LEMMA AfterType ==
  ASSUME current \in [Switches -> BOOLEAN], NEW n \in Nat
  PROVE  B!After(n) \in [Switches -> BOOLEAN]
  BY DEF B!After

LEMMA SwitchesKeep ==
  ASSUME BenchInv, B!Prime \/ B!Forget \/ B!DrainSwitches \/ \E s \in Switches : B!SwitchMoves(s)
  PROVE  BenchInv'
<1> USE DEF BenchInv
<1>1. UNCHANGED <<bench, steps, waiting, index, active, pause, deadline, outputs, coil, goesOn, BenchSteps>>
  BY DEF B!Prime, B!Forget, B!DrainSwitches, B!SwitchMoves, B!runner, BenchSteps
<1>2. Hold \in Nat
  BY BenchTyped DEF B!BenchAssumption
<1>3. CASE B!Prime
  <2>1. /\ benchPc = "prime" /\ benchPc' = "forget" /\ initial' \in [Switches -> BOOLEAN] /\ current' = initial'
        /\ UNCHANGED <<string, closed, moves, feedback, off>>
    BY <1>3 DEF B!Prime
  <2> QED
    BY <1>1, <2>1 DEF BenchType, BenchOutputs, BenchLights, B!TypeOK
<1>4. CASE B!Forget
  <2>1. /\ benchPc = "forget" /\ benchPc' = "service" /\ moves' = <<>> /\ feedback' = TRUE
        /\ (~bench.wpc => string' = B!Lit) /\ UNCHANGED <<closed, initial, current, off>>
    BY <1>4 DEF B!Forget
  <2>2. bench.mode = "switches" /\ current = initial /\ steps = <<>> /\ outputs = {}
    BY <2>1, SwitchesHaveNoSteps DEF BenchLights, BenchOutputs
  <2>3. BenchType'
    BY <1>1, <2>1 DEF BenchType, B!TypeOK
  <2>4. ~active
    BY <1>4, <2>1, <2>2 DEF BenchOutputs
  <2>5. BenchOutputs'
    BY <1>1, <2>1, <2>2, <2>4 DEF BenchOutputs
  <2>6. BenchLights'
    BY <1>1, <2>1, <2>2 DEF BenchLights
  <2> QED
    BY <2>3, <2>5, <2>6
<1>5. CASE B!DrainSwitches
  <2>1. /\ benchPc = "service" /\ bench.mode = "switches" /\ moves' = <<>> /\ off' \in {Hold, off}
        /\ current' = B!After(Len(moves)) /\ B!Follow(current', off') /\ UNCHANGED <<closed, initial, benchPc>>
    BY <1>5 DEF B!DrainSwitches
  <2>2. current \in [Switches -> BOOLEAN] /\ initial \in [Switches -> BOOLEAN] /\ current' \in [Switches -> BOOLEAN]
    <3>1. current \in [Switches -> BOOLEAN] /\ initial \in [Switches -> BOOLEAN] /\ Len(moves) \in Nat
      BY <2>1 DEF BenchLights, BenchType
    <3> QED
      BY <2>1, <3>1, AfterType
  <2>3. BenchType'
    BY <1>1, <1>2, <2>1, <2>2 DEF BenchType, B!TypeOK
  <2>4. BenchOutputs'
    BY <1>1, <2>1 DEF BenchOutputs, BenchNow
  <2> DEFINE lit == B!ComputeSwitchFeedbackGiOn(current', off')
  <2>5. lit \in BOOLEAN /\ (lit => current' = initial)
    BY <2>2 DEF B!ComputeSwitchFeedbackGiOn
  <2>6. bench.wpc \/ lit = feedback => UNCHANGED <<string, feedback>>
    BY <2>1 DEF B!Follow
  <2>7. ~bench.wpc /\ lit # feedback => string' = (IF lit THEN B!Lit ELSE 0) /\ feedback' = lit
    BY <2>1 DEF B!Follow
  <2> HIDE DEF lit
  <2>8. ~bench.wpc => /\ feedback' \in BOOLEAN /\ feedback' = lit
                      /\ string' = IF feedback' THEN B!Lit ELSE 0
    BY <2>1, <2>5, <2>6, <2>7 DEF BenchLights
  <2>9. BenchLights'
    BY <1>1, <2>1, <2>2, <2>5, <2>8 DEF BenchLights
  <2> QED
    BY <2>3, <2>4, <2>9
<1>6. ASSUME NEW s \in Switches, B!SwitchMoves(s) PROVE BenchInv'
  <2>1. /\ moves' = Append(moves, <<s, s \notin closed>>) /\ closed' \subseteq Switches
        /\ UNCHANGED <<string, initial, current, feedback, off, benchPc>>
    BY <1>6 DEF B!SwitchMoves, BenchType
  <2>2. moves' \in Seq(Switches \X BOOLEAN)
    <3> DEFINE b == s \notin closed
    <3>1. b \in BOOLEAN /\ moves' = Append(moves, <<s, b>>)
      BY <2>1
    <3> HIDE DEF b
    <3> QED
      BY <3>1 DEF BenchType
  <2> QED
    BY <1>1, <2>1, <2>2 DEF BenchType, BenchOutputs, BenchLights, B!TypeOK, BenchNow
<1> QED
  BY <1>3, <1>4, <1>5, <1>6

LEMMA BenchStep == BenchInv /\ (B!Next \/ UNCHANGED benchVars) => BenchInv'
<1> SUFFICES ASSUME BenchInv, B!Next \/ UNCHANGED benchVars PROVE BenchInv'
  OBVIOUS
<1>1. CASE UNCHANGED benchVars
  <2>1. UNCHANGED <<bench, steps, waiting, index, active, pause, deadline, off, outputs, string, coil, closed,
                    moves, initial, current, feedback, goesOn, benchPc>>
    BY <1>1 DEF benchVars
  <2>2. UNCHANGED <<BenchSteps, BenchNow>>
    BY <2>1 DEF BenchSteps, BenchNow
  <2>3. BenchType'
    BY <2>1, <2>2 DEF BenchInv, BenchType, B!TypeOK
  <2>4. BenchOutputs'
    BY <2>1, <2>2 DEF BenchInv, BenchOutputs
  <2>5. BenchLights'
    BY <2>1 DEF BenchInv, BenchLights
  <2> QED
    BY <2>3, <2>4, <2>5 DEF BenchInv
<1>2. CASE B!Interrupt
  BY <1>2 DEF B!Interrupt, B!runner, B!playfield, BenchInv, BenchType, BenchOutputs, BenchLights, B!TypeOK,
              BenchNow, BenchSteps
<1>3. CASE B!Tick
  <2>1. /\ deadline \in 0 .. OnTime + OffTime => deadline' \in 0 .. OnTime + OffTime
        /\ off \in 0 .. Hold => off' \in 0 .. Hold
        /\ OnTime + OffTime \in Nat /\ Hold \in Nat
    BY <1>3, BenchTyped DEF B!Tick, B!Less, B!BenchAssumption
  <2>2. UNCHANGED <<bench, steps, waiting, index, active, pause, outputs, string, coil, closed, moves, initial,
                    current, feedback, goesOn, benchPc, BenchSteps, BenchNow>>
    BY <1>3 DEF B!Tick, BenchSteps, BenchNow
  <2> QED
    BY <2>1, <2>2 DEF BenchInv, BenchType, BenchOutputs, BenchLights, B!TypeOK
<1> QED
  BY <1>1, <1>2, <1>3, ServiceKeeps, PollKeeps, CleanupKeeps, SwitchesKeep DEF B!Next, B!Pass

\* A bench test leaves no output on however it ends, never drives one of a board
\* that is not there, and its lights tell of a switch that is away from its rest
\* (ServiceBenchTestRunner and CleanupBenchTestRunner of ppuc.cpp).
THEOREM BenchIsAlwaysSafe == OperatorSpec => []BenchIsSafe
<1> DEFINE Inv == part = "bench" => BenchInv
<1>1. OperatorInit => Inv
  BY BenchStart DEF OperatorInit
<1>2. Inv /\ [OperatorNext]_<<part, vars, screenVars, mediaVars, benchVars, startVars, settingsVars>> => Inv'
  BY BenchStep DEF OperatorNext
<1>3. BenchInv => B!TypeOK /\ B!BenchIsSafe
  <2> SUFFICES ASSUME BenchInv PROVE B!TypeOK /\ B!BenchIsSafe
    OBVIOUS
  <2>1. B!Cardinality(outputs) <= 1
    <3>1. PICK x : outputs \subseteq {x}
      BY DEF BenchInv, BenchOutputs
    <3>2. Cardinality(outputs) <= 1
      BY <3>1, SingleCardinality
    <3>3. B!Cardinality(outputs) = Cardinality(outputs)
      BY DEF B!Cardinality, Cardinality, B!IsFiniteSet, IsFiniteSet
    <3> QED
      BY <3>2, <3>3
  <2>2. outputs \cap B!Absent = {}
    <3>1. outputs \subseteq BenchNumbers(bench) /\ bench \in BenchTests
      BY DEF BenchInv, BenchType, BenchOutputs, BenchSteps
    <3> QED
      BY <3>1, TestedAreThere DEF B!Absent
  <2>3. B!LightsTell
    BY DEF BenchInv, BenchLights, B!LightsTell, B!Moved
  <2> QED
    BY <2>1, <2>2, <2>3 DEF BenchInv, BenchType, BenchOutputs, B!BenchIsSafe, B!BenchLeavesDark
<1> QED
  BY <1>1, <1>2, <1>3, PTL DEF OperatorSpec, BenchIsSafe

-----------------------------------------------------------------------------
(* The screens. *)

TransliteOf(command) ==
  [base |-> IF command = "attract" /\ video.attract THEN "attract" ELSE "game", top |-> "none"]
Pictures == [base : {"blank", "black", "game", "attract"}, top : {"none", "overlay", "picker", "slide"}]
Shows == [visible : BOOLEAN, index : Nat, paused : BOOLEAN, idle : Nat, shown : Nat]
ShowOK(s) == s \in Shows /\ s.index \in 0 .. (IF Slides = 0 THEN 0 ELSE Slides - 1)
Glasses == [base : {"blank", "empty", "B2S", "PUP"}, top : {"none", "overlay", "picker", "slide"}]

\* How many requests of the main loop a pass may have made by a phase, since the
\* queue was emptied.
Requested(phase) ==
  CASE phase = "slides" -> 0 [] phase = "picker" -> 1 [] phase \in {"draw", "events"} -> 2
    [] phase \in {"age", "switches"} -> 3 [] phase \in {"media", "render"} -> 4
One(b) == IF b THEN 1 ELSE 0

ScreensType ==
  /\ screenPc \in {"switches", "media", "render", "slides", "picker", "draw", "events", "age"}
  /\ last \in {"game", "attract"} /\ request \in {"none", "game", "attract"} /\ asking \in {"idle", "asks"}
  /\ requests \in Seq({"game", "attract"})
  /\ picture \in Pictures /\ glass \in Glasses
  /\ window \in [addr : 0 .. 2, owned : BOOLEAN, failed : BOOLEAN]
  /\ frame.addr \in 0 .. V!GlassAddr
  /\ ShowOK(show)

\* The requests that wait, that are about to be made and that the engine is about
\* to make.
ScreensQueue ==
  /\ Len(requests) + One(request # "none") + One(asking = "asks") <= MaxRequests + Requested(screenPc)
  /\ screenPc = "slides" => request = "none"
  /\ requests # <<>> => requests[Len(requests)] = last

\* The translite is on the screen, or its return has been asked for or will be.
ScreensPicture ==
  /\ video.translite => window.addr # 0 /\ ~window.owned
  /\ screenPc \in {"picker", "draw"} => show.visible = showed
  /\ video.translite /\ glass.base = "blank" =>
       \/ picture = TransliteOf(last)
       \/ requests # <<>> \/ request # "none" \/ tool \/ picker \/ showed

ScreensInv == ScreensType /\ ScreensQueue /\ ScreensPicture

-----------------------------------------------------------------------------
(* The plugins. *)

KeyOf(e) == <<e[1], e[2]>>
Among(s, k) == \E i \in DOMAIN s : KeyOf(s[i]) = k
LastIs(s, k, v) ==
  \A i \in DOMAIN s : KeyOf(s[i]) = k /\ (\A j \in DOMAIN s : j > i => KeyOf(s[j]) # k) => s[i][3] = v

\* The last value of a thing is at the end of the line: in the queue, in the batch
\* that was taken from it, or with the plugins.
KeyAgrees(k) ==
  \/ k \in dropped
  \/ Among(events, k) /\ LastIs(events, k, told[k])
  \/ ~Among(events, k) /\ Among(batch, k) /\ LastIs(batch, k, told[k])
  \/ ~Among(events, k) /\ ~Among(batch, k) /\ plugins[k] = told[k]

MediaInv ==
  /\ M!TypeOK
  /\ events \in Seq(EventKinds \X Ids \X Int) /\ batch \in Seq(EventKinds \X Ids \X Int)
  /\ told \in [M!Keys -> Int]
  /\ DOMAIN plugins = M!Keys
  /\ \A k \in M!Keys : KeyAgrees(k)
  /\ games \in Nat /\ ends \in Nat
  /\ IF started THEN games = ends + 1 /\ life = "up" ELSE games = ends /\ ~controller

LEMMA MediaStart == M!Init => MediaInv
<1> SUFFICES ASSUME M!Init PROVE MediaInv
  OBVIOUS
<1>1. \A k \in M!Keys : KeyAgrees(k)
  BY DEF M!Init, KeyAgrees, Among
<1>2. M!TypeOK
  BY MediaTyped DEF M!Init, M!TypeOK, M!MediaAssumption
<1> QED
  BY <1>1, <1>2 DEF M!Init, MediaInv

LEMMA AppendPlaces ==
  ASSUME NEW s \in Seq(EventKinds \X Ids \X Int), NEW e \in EventKinds \X Ids \X Int, NEW k, NEW v
  PROVE  /\ Among(Append(s, e), k) <=> Among(s, k) \/ KeyOf(e) = k
         /\ KeyOf(e) = k => LastIs(Append(s, e), k, e[3])
         /\ KeyOf(e) # k => (LastIs(s, k, v) => LastIs(Append(s, e), k, v))
<1> DEFINE n == Len(s)
           t == Append(s, e)
<1>1. /\ n \in Nat /\ DOMAIN s = 1 .. n /\ DOMAIN t = 1 .. n + 1 /\ t[n + 1] = e
      /\ \A i \in 1 .. n : t[i] = s[i]
  OBVIOUS
<1> HIDE DEF n, t
<1>2. Among(t, k) <=> Among(s, k) \/ KeyOf(e) = k
  <2>1. \A i \in 1 .. n + 1 : i \in 1 .. n \/ i = n + 1
    BY <1>1
  <2>2. 1 .. n \subseteq 1 .. n + 1 /\ n + 1 \in 1 .. n + 1
    BY <1>1
  <2>3. KeyOf(t[n + 1]) = KeyOf(e) /\ \A i \in 1 .. n : KeyOf(t[i]) = KeyOf(s[i])
    BY <1>1
  <2> QED
    BY <1>1, <2>1, <2>2, <2>3, Zenon DEF Among
<1>3. KeyOf(e) = k => LastIs(t, k, e[3])
  BY <1>1 DEF LastIs
<1>4. KeyOf(e) # k => (LastIs(s, k, v) => LastIs(t, k, v))
  BY <1>1 DEF LastIs
<1> QED
  BY <1>2, <1>3, <1>4 DEF t

\* A report goes to the end of the queue, or is known to be lost.
LEMMA ReportAgrees ==
  ASSUME MediaInv, NEW kind \in EventKinds, NEW id \in Ids, NEW v \in Int, M!QueueEvent(kind, id, v),
         UNCHANGED <<batch, plugins>>
  PROVE  /\ events' \in Seq(EventKinds \X Ids \X Int) /\ told' \in [M!Keys -> Int]
         /\ Len(events') <= Limit
         /\ \A k \in M!Keys : KeyAgrees(k)'
<1> USE DEF MediaInv, M!TypeOK
<1>0. <<kind, id>> \in M!Keys /\ Limit \in Nat
  BY MediaTyped DEF M!Keys, M!MediaAssumption
<1>1. CASE life # "up"
  <2>1. UNCHANGED <<events, told, dropped>>
    BY <1>1 DEF M!QueueEvent
  <2> QED
    BY <2>1 DEF KeyAgrees, Among, LastIs
<1>2. CASE life = "up" /\ ~(Len(events) < Limit)
  <2>1. UNCHANGED events /\ dropped' = dropped \cup {<<kind, id>>} /\ told' = [told EXCEPT ![<<kind, id>>] = v]
    BY <1>2 DEF M!QueueEvent
  <2>2. told' \in [M!Keys -> Int]
    BY <2>1
  <2>3. ASSUME NEW k \in M!Keys PROVE KeyAgrees(k)'
    <3>1. CASE k = <<kind, id>>
      BY <2>1, <3>1 DEF KeyAgrees
    <3>2. CASE k # <<kind, id>>
      <4>1. told'[k] = told[k] /\ (k \in dropped' <=> k \in dropped)
        BY <2>1, <3>2
      <4> QED
        BY <2>1, <4>1 DEF KeyAgrees, Among, LastIs
    <3> QED
      BY <3>1, <3>2
  <2> QED
    BY <2>1, <2>2, <2>3
<1>3. CASE life = "up" /\ Len(events) < Limit
  <2> DEFINE e == <<kind, id, v>>
  <2>1. /\ events' = Append(events, e) /\ dropped' = dropped \ {<<kind, id>>}
        /\ told' = [told EXCEPT ![<<kind, id>>] = v]
    BY <1>3 DEF M!QueueEvent
  <2>2. e \in EventKinds \X Ids \X Int /\ KeyOf(e) = <<kind, id>> /\ e[3] = v
    BY DEF KeyOf
  <2> HIDE DEF e
  <2>3. events' \in Seq(EventKinds \X Ids \X Int) /\ Len(events') <= Limit
    BY <1>0, <1>3, <2>1, <2>2
  <2>4. told' \in [M!Keys -> Int]
    BY <2>1
  <2>5. ASSUME NEW k \in M!Keys PROVE KeyAgrees(k)'
    <3>1. CASE k = <<kind, id>>
      <4>1. told'[k] = v
        BY <2>1, <3>1
      <4>2. Among(events', k)
        BY <2>1, <2>2, <3>1, AppendPlaces
      <4>3. LastIs(events', k, v)
        BY <2>1, <2>2, <3>1, AppendPlaces
      <4> QED
        BY <4>1, <4>2, <4>3 DEF KeyAgrees
    <3>2. CASE k # <<kind, id>>
      <4>1. told'[k] = told[k] /\ (k \in dropped' <=> k \in dropped)
        BY <2>1, <3>2
      <4>2. Among(events', k) <=> Among(events, k)
        BY <2>1, <2>2, <3>2, AppendPlaces
      <4>3. LastIs(events, k, told[k]) => LastIs(events', k, told[k])
        BY <2>1, <2>2, <3>2, AppendPlaces
      <4> QED
        BY <2>1, <4>1, <4>2, <4>3 DEF KeyAgrees
    <3> QED
      BY <3>1, <3>2
  <2> QED
    BY <2>3, <2>4, <2>5
<1> QED
  BY <1>1, <1>2, <1>3

\* What is handed out is the last value of each thing in the batch.
LEMMA ToldIsLast ==
  ASSUME NEW state, NEW s \in Seq(EventKinds \X Ids \X Int), NEW k \in M!Keys, NEW v
  PROVE  /\ Among(s, k) /\ LastIs(s, k, v) => M!Told(state, s)[k] = v
         /\ ~Among(s, k) => M!Told(state, s)[k] = state[k]
<1> DEFINE about == {i \in DOMAIN s : <<s[i][1], s[i][2]>> = k}
           i == CHOOSE i \in about : \A j \in about : j <= i
<1>1. M!Told(state, s)[k] = IF about = {} THEN state[k] ELSE s[i][3]
  BY DEF M!Told, M!Last
<1>2. CASE Among(s, k) /\ LastIs(s, k, v)
  <2>1. about # {} /\ about \subseteq 1 .. Len(s) /\ Len(s) \in Nat
    BY <1>2 DEF Among, KeyOf
  <2>2. \E p \in about : \A j \in about : j <= p
    <3> HIDE DEF about
    <3> QED
      BY <2>1, LastPlace
  <2>3. i \in about /\ \A j \in about : j <= i
    BY <2>2
  <2> HIDE DEF i
  <2>4. i \in DOMAIN s /\ KeyOf(s[i]) = k /\ \A j \in DOMAIN s : j > i => KeyOf(s[j]) # k
    BY <2>1, <2>3 DEF KeyOf
  <2>5. s[i][3] = v
    BY <1>2, <2>4 DEF LastIs
  <2> QED
    BY <1>1, <1>2, <2>1, <2>5 DEF i
<1>3. CASE ~Among(s, k)
  BY <1>1, <1>3 DEF Among, KeyOf
<1> QED
  BY <1>2, <1>3

LEMMA MediaStep == MediaInv /\ (M!Next \/ UNCHANGED mediaVars) => MediaInv'
<1> SUFFICES ASSUME MediaInv, M!Next \/ UNCHANGED mediaVars PROVE MediaInv'
  OBVIOUS
<1> USE DEF MediaInv, M!TypeOK
<1>1. CASE UNCHANGED mediaVars
  BY <1>1 DEF mediaVars, KeyAgrees, Among, LastIs
<1>2. CASE M!Initialize
  BY <1>2 DEF M!Initialize, KeyAgrees, Among, LastIs
<1>3. ASSUME NEW kind \in EventKinds, NEW id \in Ids, NEW v \in Int, M!QueueEvent(kind, id, v),
             UNCHANGED <<life, started, controller, batch, plugins, games, ends>>, half' \in Ids \cup {M!None}
      PROVE  MediaInv'
  BY <1>3, ReportAgrees
<1>4. ASSUME NEW id \in Ids, M!QueueDmdTrigger(id) \/ \E kind \in EventKinds : M!Report(kind, id)
      PROVE  MediaInv'
  <2>1. CASE M!QueueDmdTrigger(id)
    BY <1>3, <2>1 DEF M!QueueDmdTrigger
  <2>2. ASSUME NEW kind \in EventKinds, M!Report(kind, id) PROVE MediaInv'
    <3>1. 1 - told[<<kind, id>>] \in Int
      BY DEF M!Keys
    <3> QED
      BY <1>3, <2>2, <3>1 DEF M!Report
  <2> QED
    BY <1>4, <2>1, <2>2
<1>5. CASE M!Take
  <2>1. /\ batch = <<>> /\ batch' = events /\ events' = <<>>
        /\ UNCHANGED <<host, life, started, controller, server, plugins, b2s, half, told, dropped, games, ends>>
    BY <1>5 DEF M!Take
  <2>2. \A k \in M!Keys : KeyAgrees(k)'
    BY <2>1 DEF KeyAgrees, Among
  <2> QED
    BY <2>1, <2>2, MediaTyped DEF M!MediaAssumption
<1>6. CASE M!Dispatch
  <2>1. /\ plugins' = M!Told(plugins, batch) /\ batch' = <<>>
        /\ UNCHANGED <<host, life, started, controller, events, half, told, dropped, games, ends>>
    BY <1>6 DEF M!Dispatch
  <2>2. DOMAIN plugins' = M!Keys
    BY <2>1 DEF M!Told
  <2>3. ASSUME NEW k \in M!Keys PROVE KeyAgrees(k)'
    <3>1. /\ Among(batch, k) /\ LastIs(batch, k, told[k]) => plugins'[k] = told[k]
          /\ ~Among(batch, k) => plugins'[k] = plugins[k]
      BY <2>1, ToldIsLast
    <3>2. ~Among(batch', k)
      BY <2>1 DEF Among
    <3> QED
      BY <2>1, <3>1, <3>2 DEF KeyAgrees
  <2> QED
    BY <2>1, <2>2, <2>3, MediaTyped DEF M!MediaAssumption
<1>7. CASE M!OnGameStart
  BY <1>7 DEF M!OnGameStart, KeyAgrees, Among, LastIs
<1>8. CASE M!Shutdown
  BY <1>8 DEF M!Shutdown, M!OnGameEnd, KeyAgrees, Among, LastIs
<1> QED
  BY <1>1, <1>2, <1>4, <1>5, <1>6, <1>7, <1>8 DEF M!Next

LEMMA MediaMeans == MediaInv => M!TypeOK /\ M!PluginsInStep
<1> SUFFICES ASSUME MediaInv PROVE M!TypeOK /\ M!PluginsInStep
  OBVIOUS
<1> USE DEF MediaInv
<1>1. ASSUME NEW k \in M!Keys, ~M!Waits(k), k \notin dropped PROVE plugins[k] = told[k]
  <2> DEFINE b == Len(batch)
             q == Len(events)
  <2>1. /\ b \in Nat /\ q \in Nat /\ DOMAIN batch = 1 .. b /\ DOMAIN events = 1 .. q
        /\ \A i \in 1 .. b : (batch \o events)[i] = batch[i]
        /\ \A i \in 1 .. q : (batch \o events)[b + i] = events[i]
    OBVIOUS
  <2>2. \A i \in 1 .. q + b : KeyOf((batch \o events)[i]) # k
    BY <1>1 DEF M!Waits, KeyOf
  <2> HIDE DEF b, q
  <2>3. ~Among(batch, k)
    <3>1. \A i \in 1 .. b : i \in 1 .. q + b
      BY <2>1
    <3> QED
      BY <2>1, <2>2, <3>1 DEF Among
  <2>4. ~Among(events, k)
    <3>1. \A i \in 1 .. q : b + i \in 1 .. q + b
      BY <2>1
    <3> QED
      BY <2>1, <2>2, <3>1 DEF Among
  <2> QED
    BY <1>1, <2>3, <2>4 DEF KeyAgrees
<1>2. M!GamesEnd
  BY DEF M!GamesEnd
<1> QED
  BY <1>1, <1>2 DEF M!PluginsInStep, M!PluginsAgree

\* The plugins have the last value of what neither waits nor was lost, and every
\* game they were told of has ended before they go (QueueEvent, Process and
\* OnGameEnd of MediaPluginHost.cpp).
THEOREM PluginsStayInStep == OperatorSpec => []PluginsInStep
<1> DEFINE Inv == part = "media" => MediaInv
<1>1. OperatorInit => Inv
  BY MediaStart DEF OperatorInit
<1>2. Inv /\ [OperatorNext]_<<part, vars, screenVars, mediaVars, benchVars, startVars, settingsVars>> => Inv'
  BY MediaStep DEF OperatorNext
<1>3. Inv => PluginsInStep
  BY MediaMeans DEF PluginsInStep
<1> QED
  BY <1>1, <1>2, <1>3, PTL DEF OperatorSpec

-----------------------------------------------------------------------------
(* The steps of the screens. *)

LEMMA ScreensStart == V!Init => ScreensInv
<1> SUFFICES ASSUME V!Init PROVE ScreensInv
  OBVIOUS
<1>1. window \in [addr : 0 .. 2, owned : BOOLEAN, failed : BOOLEAN] /\ (video.translite => window.addr # 0 /\ ~window.owned)
  <2>1. CASE video.translite
    <3>1. window = [addr |-> 1, owned |-> FALSE, failed |-> FALSE]
      BY <2>1 DEF V!Init, V!NoWindow
    <3> QED
      BY <3>1
  <2>2. CASE ~video.translite
    <3>1. window = [addr |-> 0, owned |-> FALSE, failed |-> FALSE]
      BY <2>2 DEF V!Init, V!NoWindow
    <3> QED
      BY <2>2, <3>1
  <2> QED
    BY <2>1, <2>2
<1>2. /\ picture \in Pictures /\ glass \in Glasses /\ frame.addr \in 0 .. V!GlassAddr
      /\ requests \in Seq({"game", "attract"}) /\ requests[Len(requests)] = last /\ Len(requests) = 1
  BY DEF V!Init, V!Nothing, V!NoFrame, V!GlassAddr, Pictures, Glasses
<1>3. ShowOK(show)
  BY ScreensTyped DEF V!Init, V!Hidden, V!ScreensAssumption, ShowOK, Shows
<1>4. ScreensType
  BY <1>1, <1>2, <1>3 DEF V!Init, ScreensType
<1>5. ScreensQueue
  BY <1>2, ScreensTyped DEF V!Init, ScreensQueue, One, Requested, V!ScreensAssumption
<1>6. ScreensPicture
  BY <1>1, <1>2 DEF V!Init, ScreensPicture
<1> QED
  BY <1>4, <1>5, <1>6 DEF ScreensInv

LEMMA SlidesTurn == ASSUME NEW i \in Nat, Slides # 0
                    PROVE  /\ (i + 1) % Slides \in 0 .. Slides - 1
                           /\ (i + Slides - 1) % Slides \in 0 .. Slides - 1
<1>1. Slides \in Nat \ {0}
  BY ScreensTyped DEF V!ScreensAssumption
<1>2. ASSUME NEW j \in Int PROVE j % Slides \in 0 .. Slides - 1
  BY <1>1
<1>3. i + 1 \in Int /\ i + Slides - 1 \in Int
  BY <1>1
<1> QED
  BY <1>2, <1>3

LEMMA ShowStays ==
  ASSUME ShowOK(show)
  PROVE  /\ ShowOK(V!NoteActivity) /\ ShowOK(V!TogglePause) /\ ShowOK(V!Updated)
         /\ Slides # 0 => ShowOK(V!Next1) /\ ShowOK(V!Previous1)
<1>1. Slides \in Nat
  BY ScreensTyped DEF V!ScreensAssumption
<1>2. ASSUME NEW i \in 0 .. Slides - 1, Slides # 0 PROVE ShowOK(V!ShowAt(i))
  <2>1. i \in Nat /\ show \in Shows
    BY <1>1, <1>2 DEF ShowOK
  <2>2. V!ShowAt(i) \in Shows /\ V!ShowAt(i).index = i
    BY <2>1 DEF V!ShowAt, Shows
  <2> QED
    BY <1>2, <2>2 DEF ShowOK
<1>3. ShowOK(V!Hidden)
  BY <1>1 DEF V!Hidden, ShowOK, Shows
<1>4. ShowOK(V!NoteActivity)
  BY <1>3 DEF V!NoteActivity, ShowOK, Shows
<1>5. ShowOK(V!TogglePause)
  BY DEF V!TogglePause, ShowOK, Shows
<1>6. Slides # 0 => ShowOK(V!Next1) /\ ShowOK(V!Previous1)
  <2> SUFFICES ASSUME Slides # 0 PROVE ShowOK(V!Next1) /\ ShowOK(V!Previous1)
    OBVIOUS
  <2>1. /\ (show.index + 1) % Slides \in 0 .. Slides - 1 /\ (show.index + Slides - 1) % Slides \in 0 .. Slides - 1
        /\ 0 \in 0 .. Slides - 1
    BY <1>1, SlidesTurn DEF ShowOK, Shows
  <2> QED
    BY <1>2, <2>1 DEF V!Next1, V!Previous1
<1>7. ShowOK(V!Updated)
  <2>1. CASE Slides = 0
    BY <1>3, <2>1 DEF V!Updated
  <2>2. CASE Slides # 0
    <3>1. (show.index + 1) % Slides \in 0 .. Slides - 1 /\ 0 \in 0 .. Slides - 1
      BY <1>1, <2>2, SlidesTurn DEF ShowOK, Shows
    <3>2. ShowOK([show EXCEPT !.index = (@ + 1) % Slides, !.shown = 0])
      <4> DEFINE j == (show.index + 1) % Slides
      <4>1. j \in Nat /\ j \in 0 .. Slides - 1 /\ show \in Shows
        BY <1>1, <3>1 DEF ShowOK
      <4> HIDE DEF j
      <4>2. [show EXCEPT !.index = j, !.shown = 0] \in Shows /\ [show EXCEPT !.index = j, !.shown = 0].index = j
        BY <4>1 DEF Shows
      <4> QED
        BY <2>2, <4>1, <4>2 DEF ShowOK, j
    <3> QED
      BY <1>2, <1>3, <2>2, <3>1, <3>2 DEF V!Updated
  <2> QED
    BY <2>1, <2>2
<1> QED
  BY <1>4, <1>5, <1>6, <1>7

\* A phase of the pass that leaves the queue alone makes at most one request.
LEMMA PhaseQueue ==
  ASSUME ScreensInv, request = "none", UNCHANGED <<requests, last, asking>>,
         Requested(screenPc') >= Requested(screenPc) + One(request' # "none"),
         Requested(screenPc) \in Nat, Requested(screenPc') \in Nat, screenPc' # "slides"
  PROVE  ScreensQueue'
<1>1. /\ Len(requests) + One(asking = "asks") <= MaxRequests + Requested(screenPc)
      /\ requests # <<>> => requests[Len(requests)] = last
  BY DEF ScreensInv, ScreensQueue, One
<1>2. Len(requests) \in Nat /\ MaxRequests \in Nat /\ One(asking = "asks") \in {0, 1} /\ One(request' # "none") \in {0, 1}
  BY ScreensTyped DEF ScreensInv, ScreensType, One, V!ScreensAssumption
<1>3. Len(requests) + One(request' # "none") + One(asking = "asks") <= MaxRequests + Requested(screenPc')
  BY <1>1, <1>2
<1> QED
  BY <1>1, <1>3 DEF ScreensQueue

LEMMA PickerCloses == ASSUME V!ClosePicker PROVE ~picker' /\ request' = "game"
  BY DEF V!ClosePicker

LEMMA InputKeeps ==
  ASSUME ScreensInv,
         (\E b \in V!Buttons : V!NavButton(b)) \/ V!OtherSwitch
  PROVE  ScreensInv'
<1> USE DEF ScreensInv
<1>1. /\ screenPc = "switches" /\ screenPc' = "media" /\ request = "none"
      /\ UNCHANGED <<video, asking, requests, last, window, picture, glass, tool, showed, frame>>
  BY DEF V!NavButton, V!OtherSwitch, V!Phase
<1>2. ShowOK(show)
  BY DEF ScreensType
<1>3. ShowOK(show') /\ (UNCHANGED <<picker, request>> \/ (~picker' /\ request' = "game"))
  <2>1. ASSUME NEW b \in V!Buttons, NEW both \in BOOLEAN, V!Steer(b, both)
        PROVE  ShowOK(show') /\ (UNCHANGED <<picker, request>> \/ (~picker' /\ request' = "game"))
    <3>1. V!TurnsSlides => Slides # 0
      BY DEF V!TurnsSlides
    <3> QED
      BY <1>2, <2>1, <3>1, ShowStays, PickerCloses DEF V!Steer
  <2>2. ASSUME NEW b \in V!Buttons, V!NavButton(b)
        PROVE  ShowOK(show') /\ (UNCHANGED <<picker, request>> \/ (~picker' /\ request' = "game"))
    <3>1. CASE UNCHANGED <<picker, request, show>>
      BY <1>2, <3>1
    <3>2. CASE \E both \in BOOLEAN : V!Steer(b, both)
      BY <2>1, <3>2
    <3>3. (ages[CHOOSE o \in V!Buttons : o # b] <= Both) \in BOOLEAN
      OBVIOUS
    <3> QED
      BY <2>2, <3>1, <3>2, <3>3 DEF V!NavButton
  <2>3. CASE V!OtherSwitch
    BY <1>2, <2>3, ShowStays, PickerCloses DEF V!OtherSwitch
  <2> QED
    BY <2>2, <2>3
<1>4. ScreensType'
  BY <1>1, <1>3 DEF ScreensType, Pictures, Glasses
<1>5. ScreensQueue'
  BY <1>1, PhaseQueue DEF Requested, One
<1>6. ScreensPicture'
  BY <1>1, <1>3 DEF ScreensPicture, TransliteOf
<1> QED
  BY <1>4, <1>5, <1>6

LEMMA MediaDraws == ASSUME ScreensInv, V!MediaProcess PROVE ScreensInv'
<1> USE DEF ScreensInv
<1>1. /\ screenPc = "media" /\ screenPc' = "render" /\ request = "none"
      /\ UNCHANGED <<video, asking, requests, last, request, window, picture, tool, picker, show, showed>>
  BY DEF V!MediaProcess, V!Phase
<1>2. /\ glass' \in Glasses /\ (glass'.base = "blank" => glass.base = "blank")
      /\ frame'.addr \in 0 .. V!GlassAddr
  <2>1. V!Top(V!GlassAddr) \in {"none", "overlay", "picker", "slide"}
    BY DEF V!Top
  <2>2. V!FrameFor(V!GlassAddr).addr \in {frame.addr, V!GlassAddr}
    BY DEF V!FrameFor
  <2>3. V!GlassAddr = 3 /\ glass \in Glasses /\ frame.addr \in 0 .. V!GlassAddr
    BY DEF V!GlassAddr, ScreensType
  <2>4. PICK registered \in PluginSets :
          \/ UNCHANGED <<glass, frame>>
          \/ glass' = (IF V!BackglassUp THEN glass ELSE [base |-> "empty", top |-> "none"]) /\ UNCHANGED frame
          \/ /\ \E r \in V!Chosen(registered) : glass' = [base |-> r, top |-> V!Top(V!GlassAddr)]
             /\ frame' = V!FrameFor(V!GlassAddr)
    BY DEF V!MediaProcess
  <2>5. V!Chosen(registered) \subseteq {"B2S", "PUP"}
    BY ScreensTyped DEF V!Chosen, V!ScreensAssumption
  <2> QED
    BY <2>1, <2>2, <2>3, <2>4, <2>5 DEF Glasses, V!BackglassUp
<1>3. ScreensType'
  BY <1>1, <1>2 DEF ScreensType
<1>4. ScreensQueue'
  BY <1>1, PhaseQueue DEF Requested, One
<1>5. ScreensPicture'
  BY <1>1, <1>2 DEF ScreensPicture, TransliteOf
<1> QED
  BY <1>3, <1>4, <1>5

LEMMA QueueIsDrawn == ASSUME ScreensInv, V!RenderQueue PROVE ScreensInv'
<1> USE DEF ScreensInv
<1>1. /\ screenPc = "render" /\ screenPc' = "slides" /\ request = "none" /\ requests' = <<>>
      /\ picture' = IF requests = <<>> \/ window.addr = 0 THEN picture ELSE V!Presented(requests[Len(requests)])
      /\ UNCHANGED <<video, asking, last, request, window, glass, tool, picker, show, showed, frame>>
  BY DEF V!RenderQueue, V!Phase
<1>2. picture' \in Pictures
  BY <1>1 DEF ScreensType, V!Presented, Pictures
<1>3. ScreensType'
  BY <1>1, <1>2 DEF ScreensType
<1>4. ScreensQueue'
  BY <1>1, ScreensTyped DEF ScreensQueue, One, Requested, V!ScreensAssumption
<1>5. ScreensPicture'
  BY <1>1 DEF ScreensPicture, ScreensQueue, TransliteOf, V!Presented
<1> QED
  BY <1>3, <1>4, <1>5

LEMMA SlidesKeep == ASSUME ScreensInv, V!UpdateSlides PROVE ScreensInv'
<1> USE DEF ScreensInv
<1>1. /\ screenPc = "slides" /\ screenPc' = "picker" /\ request = "none"
      /\ show' = V!Updated /\ showed' = show'.visible
      /\ UNCHANGED <<video, asking, requests, last, window, picture, glass, tool, picker>>
  BY DEF V!UpdateSlides, V!Phase
<1>2. IF showed /\ ~show'.visible THEN request' \in {"game", "attract"} /\ frame'.addr = 0
      ELSE UNCHANGED <<request, frame>>
  BY DEF V!UpdateSlides, V!Right, V!NoFrame
<1>3. ShowOK(show')
  BY <1>1, ShowStays DEF ScreensType
<1>4. ScreensType'
  BY <1>1, <1>2, <1>3 DEF ScreensType, V!GlassAddr
<1>5. ScreensQueue'
  BY <1>1, PhaseQueue DEF Requested, One
<1>6. ScreensPicture'
  BY <1>1, <1>2 DEF ScreensPicture, TransliteOf
<1> QED
  BY <1>4, <1>5, <1>6

LEMMA PickerKeeps == ASSUME ScreensInv, V!ServiceSongPicker PROVE ScreensInv'
<1> USE DEF ScreensInv
<1>1. /\ screenPc = "picker" /\ screenPc' = "draw" /\ request = "none"
      /\ UNCHANGED <<video, asking, requests, last, window, picture, glass, tool, show, showed, frame>>
  BY DEF V!ServiceSongPicker, V!Phase
<1>2. (~picker' /\ request' = "game") \/ ((picker => picker') /\ UNCHANGED request)
  BY DEF V!ServiceSongPicker, V!ClosePicker
<1>3. ScreensType'
  BY <1>1, <1>2 DEF ScreensType
<1>4. ScreensQueue'
  BY <1>1, PhaseQueue DEF Requested, One
<1>5. ScreensPicture'
  BY <1>1, <1>2 DEF ScreensPicture, TransliteOf
<1> QED
  BY <1>3, <1>4, <1>5

LEMMA OverlayDraws == ASSUME ScreensInv, V!RenderOverlay PROVE ScreensInv'
<1> USE DEF ScreensInv
<1>1. /\ screenPc = "draw" /\ screenPc' = "events" /\ request = "none"
      /\ UNCHANGED <<video, asking, requests, last, request, glass, tool, picker, show, showed>>
  BY DEF V!RenderOverlay, V!Phase
<1>2. \/ UNCHANGED <<window, picture, frame>>
      \/ /\ V!Wanted
         /\ \E w \in V!Windows :
              /\ window' = w
              /\ \/ UNCHANGED <<picture, frame>>
                 \/ picture' = [base |-> "black", top |-> V!Top(w.addr)] /\ frame' = V!FrameFor(w.addr)
  BY DEF V!RenderOverlay
<1>3. ASSUME NEW w \in V!Windows
      PROVE  /\ w \in [addr : 0 .. 2, owned : BOOLEAN, failed : BOOLEAN]
             /\ video.translite => w = window
  <2>1. CASE w = window
    BY <2>1 DEF ScreensType
  <2>2. CASE window.addr = 0 /\ \E a \in 0 .. 2 : w = [addr |-> a, owned |-> TRUE, failed |-> a = 0]
    <3>1. ~video.translite
      BY <2>2 DEF ScreensPicture
    <3>2. PICK a \in 0 .. 2 : w = [addr |-> a, owned |-> TRUE, failed |-> a = 0]
      BY <2>2
    <3>3. (a = 0) \in BOOLEAN
      OBVIOUS
    <3> QED
      BY <3>1, <3>2, <3>3
  <2> QED
    BY <2>1, <2>2 DEF V!Windows
<1>4. ASSUME NEW w \in V!Windows
      PROVE  [base |-> "black", top |-> V!Top(w.addr)] \in Pictures /\ V!FrameFor(w.addr).addr \in 0 .. V!GlassAddr
  BY <1>3 DEF V!Top, V!FrameFor, V!GlassAddr, Pictures, ScreensType
<1>5. ScreensType'
  BY <1>1, <1>2, <1>3, <1>4 DEF ScreensType
<1>6. ScreensQueue'
  BY <1>1, PhaseQueue DEF Requested, One
<1>7. ScreensPicture'
  BY <1>1, <1>2, <1>3 DEF ScreensPicture, TransliteOf, V!Wanted
<1> QED
  BY <1>5, <1>6, <1>7

LEMMA EventsKeep == ASSUME ScreensInv, V!PollEvents PROVE ScreensInv'
<1> USE DEF ScreensInv
<1>1. /\ screenPc = "events" /\ screenPc' = "age" /\ request = "none" /\ V!Key
      /\ UNCHANGED <<video, asking, requests, last, glass, showed>>
  BY DEF V!PollEvents, V!Phase
<1>2. ASSUME tool, V!CloseOverlay
      PROVE  /\ UNCHANGED <<picker, show>>
             /\ \/ /\ window.owned /\ window' = V!NoWindow /\ picture' = V!Nothing
                   /\ frame'.addr = frame.addr /\ UNCHANGED request
                \/ /\ UNCHANGED <<window, picture, frame>>
                   /\ IF window.addr = 0 THEN UNCHANGED request ELSE request' \in {"game", "attract"}
  <2>1. CASE window.addr # 0 /\ window.owned
    <3>1. frame' = [frame EXCEPT !.dead = @ \/ frame.addr = window.addr]
      BY <1>2, <2>1 DEF V!CloseOverlay
    <3> QED
      BY <1>2, <2>1, <3>1 DEF V!CloseOverlay
  <2>2. CASE ~(window.addr # 0 /\ window.owned)
    BY <1>2, <2>2 DEF V!CloseOverlay, V!Right
  <2> QED
    BY <2>1, <2>2
<1>3. ASSUME V!TurnsSlides, show' \in {V!Next1, V!Previous1, V!TogglePause, V!NoteActivity} PROVE ShowOK(show')
  BY <1>3, ShowStays DEF V!TurnsSlides, ScreensType
<1>4. \/ tool' = TRUE /\ UNCHANGED <<request, window, picture, frame, picker, show>>
      \/ tool /\ V!CloseOverlay
      \/ ~picker' /\ request' = "game" /\ UNCHANGED <<tool, window, picture, frame, show>>
      \/ ShowOK(show') /\ UNCHANGED <<tool, window, picture, frame, picker, request>>
  <2>1. CASE ~tool /\ tool' = TRUE /\ UNCHANGED <<request, window, picture, frame, picker, show>>
    BY <2>1
  <2>2. CASE tool /\ V!CloseOverlay
    BY <2>2
  <2>3. CASE V!Steers /\ V!ClosePicker /\ UNCHANGED <<tool, window, picture, frame, show>>
    BY <2>3, PickerCloses
  <2>4. CASE /\ V!TurnsSlides /\ ~V!Steers
             /\ show' \in {V!Next1, V!Previous1, V!TogglePause, V!NoteActivity}
             /\ UNCHANGED <<tool, window, picture, frame, picker, request>>
    BY <2>4, <1>3
  <2>5. CASE UNCHANGED <<tool, window, picture, frame, picker, request, show>>
    BY <2>5 DEF ScreensType
  <2> QED
    BY <1>1, <2>1, <2>2, <2>3, <2>4, <2>5 DEF V!Key
<1>5. V!NoWindow \in [addr : 0 .. 2, owned : BOOLEAN, failed : BOOLEAN] /\ V!Nothing \in Pictures
  BY DEF V!NoWindow, V!Nothing, Pictures
<1>6. ScreensType'
  <2>1. request' \in {"none", "game", "attract"} /\ ShowOK(show')
    BY <1>1, <1>2, <1>4 DEF ScreensType
  <2>2. /\ picture' \in Pictures /\ window' \in [addr : 0 .. 2, owned : BOOLEAN, failed : BOOLEAN]
        /\ frame'.addr \in 0 .. V!GlassAddr
    BY <1>2, <1>4, <1>5 DEF ScreensType
  <2> QED
    BY <1>1, <2>1, <2>2 DEF ScreensType
<1>7. ScreensQueue'
  BY <1>1, PhaseQueue DEF Requested, One
<1>8. ScreensPicture'
  BY <1>1, <1>2, <1>4 DEF ScreensPicture, TransliteOf
<1> QED
  BY <1>6, <1>7, <1>8

LEMMA AgeKeeps == ASSUME ScreensInv, V!Age PROVE ScreensInv'
<1> USE DEF ScreensInv
<1>1. /\ screenPc = "age" /\ screenPc' = "switches" /\ request = "none"
      /\ UNCHANGED <<video, asking, requests, last, request, window, picture, glass, tool, picker, showed, frame>>
      /\ show' = IF show.visible THEN [show EXCEPT !.shown = V!Older(@, Duration)]
                 ELSE [show EXCEPT !.idle = V!Older(@, Idle)]
  BY DEF V!Age, V!Phase
<1>2. ASSUME NEW a \in Nat, NEW limit PROVE V!Older(a, limit) \in Nat
  BY DEF V!Older
<1>3. ShowOK(show')
  <2>1. show \in Shows /\ show.index \in 0 .. (IF Slides = 0 THEN 0 ELSE Slides - 1)
    BY DEF ScreensType, ShowOK
  <2>2. V!Older(show.shown, Duration) \in Nat /\ V!Older(show.idle, Idle) \in Nat
    BY <1>2, <2>1 DEF Shows
  <2>3. show' \in Shows /\ show'.index = show.index
    BY <1>1, <2>1, <2>2 DEF Shows
  <2> QED
    BY <2>1, <2>3 DEF ShowOK
<1>4. ScreensType'
  BY <1>1, <1>3 DEF ScreensType
<1>5. ScreensQueue'
  BY <1>1, PhaseQueue DEF Requested, One
<1>6. ScreensPicture'
  BY <1>1 DEF ScreensPicture, TransliteOf
<1> QED
  BY <1>4, <1>5, <1>6

\* The engine's thread and the main loop put requests in the queue.
LEMMA RequestsKeep == ASSUME ScreensInv, V!GameChanges \/ V!EngineAsks \/ V!Restore PROVE ScreensInv'
<1> USE DEF ScreensInv
<1>1. /\ MaxRequests \in Nat /\ Len(requests) \in Nat
      /\ Requested(screenPc) \in Nat /\ (screenPc # "slides" => Requested(screenPc) >= 1)
  BY ScreensTyped DEF ScreensType, Requested, V!ScreensAssumption
<1>2. UNCHANGED <<video, window, picture, glass, tool, picker, show, showed, frame, screenPc>>
  BY DEF V!GameChanges, V!EngineAsks, V!Restore, V!main
<1>3. CASE V!GameChanges
  <2>1. /\ Len(requests) < MaxRequests /\ asking = "idle" /\ asking' = "asks"
        /\ UNCHANGED <<requests, last, request>>
    BY <1>3 DEF V!GameChanges, V!main
  <2>2. ScreensType'
    BY <1>2, <2>1 DEF ScreensType
  <2>3. ScreensQueue'
    <3>1. Len(requests) + One(request # "none") + 1 <= MaxRequests + Requested(screenPc)
      <4>1. CASE request = "none"
        BY <1>1, <2>1, <4>1 DEF One
      <4>2. CASE request # "none"
        <5>1. Requested(screenPc) >= 1
          BY <1>1, <4>2 DEF ScreensQueue
        <5> QED
          BY <1>1, <2>1, <4>2, <5>1 DEF One
      <4> QED
        BY <4>1, <4>2
    <3>2. One(asking' = "asks") = 1
      BY <2>1 DEF One
    <3> QED
      BY <1>2, <2>1, <3>1, <3>2 DEF ScreensQueue
  <2>4. ScreensPicture'
    BY <1>2, <2>1 DEF ScreensPicture, TransliteOf
  <2> QED
    BY <2>2, <2>3, <2>4
<1>4. ASSUME NEW command \in {"game", "attract"}, NEW force, V!QueueTransliteRender(command, force)
      PROVE  /\ last' \in {"game", "attract"} /\ requests' \in Seq({"game", "attract"})
             /\ Len(requests') <= Len(requests) + 1 /\ Len(requests') \in Nat
             /\ requests' # <<>> => requests'[Len(requests')] = last'
             /\ requests' # <<>> \/ UNCHANGED <<requests, last>>
             /\ requests' # <<>> \/ ~force
  <2>1. CASE UNCHANGED <<requests, last>> /\ ~force
    BY <1>1, <2>1 DEF ScreensType, ScreensQueue
  <2>2. CASE last' = command /\ requests' = Append(requests, command)
    BY <2>2 DEF ScreensType
  <2> QED
    BY <1>4, <2>1, <2>2 DEF V!QueueTransliteRender
<1>5. CASE V!EngineAsks
  <2>1. asking = "asks" /\ asking' = "idle" /\ UNCHANGED request
    BY <1>5 DEF V!EngineAsks, V!main
  <2>2. /\ last' \in {"game", "attract"} /\ requests' \in Seq({"game", "attract"})
        /\ Len(requests') <= Len(requests) + 1 /\ Len(requests') \in Nat
        /\ requests' # <<>> => requests'[Len(requests')] = last'
        /\ requests' # <<>> \/ UNCHANGED <<requests, last>>
    <3>1. CASE UNCHANGED <<requests, last>>
      BY <1>1, <3>1 DEF ScreensType, ScreensQueue
    <3>2. CASE V!QueueTransliteRender(V!Right, FALSE)
      BY <1>4, <3>2 DEF V!Right
    <3> QED
      BY <1>5, <3>1, <3>2 DEF V!EngineAsks
  <2>3. ScreensType'
    BY <1>2, <2>1, <2>2 DEF ScreensType
  <2>4. ScreensQueue'
    <3>1. One(asking = "asks") = 1 /\ One(asking' = "asks") = 0 /\ One(request # "none") \in Nat
      BY <2>1 DEF One
    <3> QED
      BY <1>1, <1>2, <2>1, <2>2, <3>1 DEF ScreensQueue
  <2>5. ScreensPicture'
    BY <1>2, <2>1, <2>2 DEF ScreensPicture, TransliteOf
  <2> QED
    BY <2>3, <2>4, <2>5
<1>6. CASE V!Restore
  <2>1. /\ request \in {"game", "attract"} /\ request' = "none" /\ V!QueueTransliteRender(request, TRUE)
        /\ UNCHANGED asking
    BY <1>6 DEF V!Restore, ScreensType
  <2>2. /\ last' \in {"game", "attract"} /\ requests' \in Seq({"game", "attract"})
        /\ Len(requests') <= Len(requests) + 1 /\ Len(requests') \in Nat
        /\ requests' # <<>> /\ requests'[Len(requests')] = last'
    BY <1>4, <2>1
  <2>3. ScreensType'
    BY <1>2, <2>1, <2>2 DEF ScreensType
  <2>4. ScreensQueue'
    <3>1. One(request # "none") = 1 /\ One(request' # "none") = 0 /\ One(asking = "asks") \in Nat
      BY <2>1 DEF One
    <3> QED
      BY <1>1, <1>2, <2>1, <2>2, <3>1 DEF ScreensQueue
  <2>5. ScreensPicture'
    BY <1>2, <2>1, <2>2 DEF ScreensPicture
  <2> QED
    BY <2>3, <2>4, <2>5
<1> QED
  BY <1>3, <1>5, <1>6

LEMMA ScreensStep == ScreensInv /\ (V!Next \/ UNCHANGED screenVars) => ScreensInv'
<1> SUFFICES ASSUME ScreensInv, V!Next \/ UNCHANGED screenVars PROVE ScreensInv'
  OBVIOUS
<1>1. CASE V!GameChanges \/ V!EngineAsks \/ V!Restore
  BY <1>1, RequestsKeep
<1>2. CASE V!Pass
  BY <1>2, InputKeeps, MediaDraws, QueueIsDrawn, SlidesKeep, PickerKeeps, OverlayDraws, EventsKeep, AgeKeeps DEF V!Pass
<1>3. CASE UNCHANGED screenVars
  BY <1>3 DEF ScreensInv, ScreensType, ScreensQueue, ScreensPicture, TransliteOf, screenVars
<1> QED
  BY <1>1, <1>2, <1>3 DEF V!Next

LEMMA ScreensMeans == ScreensInv => V!TypeOK /\ V!TransliteComesBack
<1> SUFFICES ASSUME ScreensInv PROVE V!TypeOK /\ V!TransliteComesBack
  OBVIOUS
<1> USE DEF ScreensInv
<1>1. Len(requests) <= MaxRequests + 4
  <2>1. Requested(screenPc) \in 0 .. 4 /\ One(request # "none") \in Nat /\ One(asking = "asks") \in Nat
        /\ Len(requests) \in Nat /\ MaxRequests \in Nat
    BY ScreensTyped DEF ScreensType, Requested, One, V!ScreensAssumption
  <2> QED
    BY <2>1 DEF ScreensQueue
<1>2. V!TypeOK
  BY <1>1 DEF ScreensType, ShowOK, Pictures, Glasses, V!TypeOK
<1>3. V!TransliteComesBack
  BY DEF ScreensPicture, TransliteOf, V!TransliteComesBack, V!Settled, V!Wanted, V!BackglassUp
<1> QED
  BY <1>2, <1>3

\* The translite that was asked for last is on the screen once what covered it
\* has gone, whatever the slides, the picker and the tools drew over it and
\* however often the game changed meanwhile (QueueTransliteRender, RenderOverlay
\* and CloseOverlay of ppuc.cpp).
THEOREM TransliteAlwaysComesBack == OperatorSpec => []TransliteComesBack
<1> DEFINE Inv == part = "screens" => ScreensInv
<1>1. OperatorInit => Inv
  BY ScreensStart DEF OperatorInit
<1>2. Inv /\ [OperatorNext]_<<part, vars, screenVars, mediaVars, benchVars, startVars, settingsVars>> => Inv'
  BY ScreensStep DEF OperatorNext
<1>3. Inv => TransliteComesBack
  BY ScreensMeans DEF TransliteComesBack
<1> QED
  BY <1>1, <1>2, <1>3, PTL DEF OperatorSpec
=============================================================================
