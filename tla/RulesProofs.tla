----------------------------- MODULE RulesProofs -----------------------------
(***************************************************************************)
(* Proofs about the parts of MCRules: the tilt and the ball save, for      *)
(* every allowance, every limit and every order in which a host calls the  *)
(* assist; the calls of the rules and the memory of their triggers; the    *)
(* replays; the speeds that a motor is told.                               *)
(***************************************************************************)
EXTENDS MCRules, RecursionLemmas, FiniteSets, FiniteSetTheorems, TLAPS

-----------------------------------------------------------------------------
(* The tilt and the ball save. *)

\* A save that is extended ends later and uses the trigger up.
LEMMA SaveExtends ==
  ASSUME NEW duration \in Nat, ArmBallSave(duration), TypeOK, TriggerUsedUp
  PROVE  /\ saveLeft' \in Nat \cup {NoSave} /\ pending' \in BOOLEAN /\ TriggerUsedUp'
         /\ KeepsSave
<1>1. saveLeft \in Nat \cup {NoSave} /\ pending \in BOOLEAN
  BY DEF TypeOK
<1>2. CASE duration <= saveLeft
  <2>1. UNCHANGED <<saveLeft, pending>>
    BY <1>2, Zenon DEF ArmBallSave
  <2> QED
    BY <1>1, <2>1 DEF TriggerUsedUp, KeepsSave, SaveActive, NoSave
<1>3. CASE ~(duration <= saveLeft)
  <2>1. saveLeft' = duration /\ pending' = FALSE
    BY <1>3, Zenon DEF ArmBallSave
  <2>2. duration >= saveLeft - 1
    BY <1>1, <1>3 DEF NoSave
  <2> QED
    BY <2>1, <2>2 DEF TriggerUsedUp, KeepsSave
<1> QED
  BY <1>2, <1>3

\* What a switch does, whatever its role, to the allowance, the save and the tilt.
LEMMA SwitchKeeps ==
  ASSUME TypeOK, TriggerUsedUp, NEW role \in Roles, NEW on \in BOOLEAN, NEW forward \in BOOLEAN,
         ProcessSwitch(role, on, forward)
  PROVE  TypeOK' /\ TriggerUsedUp' /\ KeepsSave /\ LosesTiltedBall
<1> USE AssistAssumption
<1>1. CASE SlamHit(forward)
  <2>1. events' \in Seq({"tilt", "slamTilt"})
    BY <1>1 DEF SlamHit, Queue, TypeOK
  <2>2. UNCHANGED <<counted, ballNumber, playActive, used, sinceHit, blanked, saves, pending>>
        /\ tiltSeen' = TRUE /\ saveLeft' = NoSave
    BY <1>1 DEF SlamHit, play
  <2> QED
    BY <2>1, <2>2 DEF TypeOK, TriggerUsedUp, KeepsSave, LosesTiltedBall, SaveActive
<1>2. CASE BobHit(forward)
  <2>1. CASE UNCHANGED assistVars
    BY <2>1 DEF assistVars, play, bob, save, TypeOK, TriggerUsedUp, KeepsSave, LosesTiltedBall,
       SaveActive, NoSave
  <2>2. ASSUME ~AllowanceSpent, used' = [used EXCEPT ![counted] = @ + 1],
               sinceHit' = 0, blanked' = Blanking, UNCHANGED <<play, tiltSeen, save, events>>
        PROVE  TypeOK' /\ TriggerUsedUp' /\ KeepsSave /\ LosesTiltedBall
    <3>1. used' \in [0 .. MaxPlayers -> 0 .. Warnings]
      BY <2>2 DEF TypeOK, AllowanceSpent
    <3>2. UNCHANGED <<counted, ballNumber, playActive, tiltSeen, saveLeft, saves, pending, events>>
      BY <2>2 DEF play, save
    <3> QED
      BY <2>2, <3>1, <3>2 DEF TypeOK, TriggerUsedUp, KeepsSave, LosesTiltedBall, SaveActive, NoSave
  <2>3. ASSUME tiltSeen' = TRUE, sinceHit' = 0, saveLeft' = NoSave, Queue("tilt"),
               UNCHANGED <<play, used, blanked, saves, pending>>
        PROVE  TypeOK' /\ TriggerUsedUp' /\ KeepsSave /\ LosesTiltedBall
    <3>1. events' \in Seq({"tilt", "slamTilt"})
      BY <2>3 DEF Queue, TypeOK
    <3>2. UNCHANGED <<counted, ballNumber, playActive>>
      BY <2>3 DEF play
    <3> QED
      BY <2>3, <3>1, <3>2 DEF TypeOK, TriggerUsedUp, KeepsSave, LosesTiltedBall, SaveActive
  <2> QED
    BY <1>2, <2>1, <2>2, <2>3 DEF BobHit
<1>3. CASE PlaySwitch(role, on, forward)
  <2> USE DEF play, bob
  <2>1. CASE Saves /\ SaveBall(forward)
    <3>1. ~tiltSeen /\ (MaxSaves # 0 => saves < MaxSaves)
      BY <2>1 DEF Saves
    <3>2. saves' \in 0 .. MaxSaves
      BY <2>1, <3>1 DEF SaveBall, TypeOK
    <3>3. saveLeft' = saveLeft \/ saveLeft' = NoSave
      BY <2>1 DEF SaveBall
    <3> QED
      BY <2>1, <3>1, <3>2, <3>3
         DEF SaveBall, TypeOK, TriggerUsedUp, KeepsSave, LosesTiltedBall, SaveActive, NoSave
  <2>2. ASSUME UNCHANGED <<play, bob, saves, events>>,
               ArmBallSave(SaveDuration) \/ UNCHANGED <<saveLeft, pending>>
        PROVE  TypeOK' /\ TriggerUsedUp' /\ KeepsSave /\ LosesTiltedBall
    <3>1. saveLeft' \in Nat \cup {NoSave} /\ pending' \in BOOLEAN /\ TriggerUsedUp' /\ KeepsSave
      <4>1. CASE ArmBallSave(SaveDuration)
        BY <4>1, SaveExtends
      <4>2. CASE UNCHANGED <<saveLeft, pending>>
        BY <4>2 DEF TypeOK, TriggerUsedUp, KeepsSave, SaveActive, NoSave
      <4> QED
        BY <2>2, <4>1, <4>2
    <3> QED
      BY <2>2, <3>1 DEF TypeOK, LosesTiltedBall
  <2> QED
    BY <1>3, <2>1, <2>2 DEF PlaySwitch
<1> QED
  BY <1>1, <1>2, <1>3 DEF ProcessSwitch

\* Every step keeps the limits, a save and the loss of a tilted ball.
LEMMA AssistStep ==
  ASSUME TypeOK, TriggerUsedUp, [Next]_assistVars
  PROVE  TypeOK' /\ TriggerUsedUp' /\ KeepsSave /\ LosesTiltedBall
<1> USE AssistAssumption
<1> DEFINE Good == TypeOK' /\ TriggerUsedUp' /\ KeepsSave /\ LosesTiltedBall
<1>1. CASE HostCalls
  <2> USE DEF bob, save, play
  <2>1. ASSUME NEW player \in 0 .. MaxPlayers, SetCurrentPlayer(player) PROVE Good
    BY <2>1 DEF SetCurrentPlayer, TypeOK, TriggerUsedUp, KeepsSave, LosesTiltedBall, SaveActive, NoSave
  <2>2. ASSUME NEW active \in BOOLEAN, SetPlayActive(active) PROVE Good
    <3>1. pending' \in BOOLEAN /\ tiltSeen' \in BOOLEAN /\ (pending' => pending)
      BY <2>2, Zenon DEF SetPlayActive, TypeOK
    <3>2. saveLeft' \in {saveLeft, NoSave}
      BY <2>2 DEF SetPlayActive
    <3>3. saveLeft' \in Nat \cup {NoSave} /\ KeepsSave
      BY <3>2 DEF TypeOK, KeepsSave, SaveActive, NoSave
    <3>4. TriggerUsedUp'
      BY <3>1, <3>2 DEF TriggerUsedUp, SaveActive
    <3>5. UNCHANGED <<counted, ballNumber, used, sinceHit, blanked, saves, events>> /\ playActive' = active
      BY <2>2 DEF SetPlayActive
    <3> QED
      BY <3>1, <3>3, <3>4, <3>5 DEF TypeOK, LosesTiltedBall
  <2>3. ASSUME NEW number \in BallNumbers, OnBallStart(number) PROVE Good
    <3>1. used' \in [0 .. MaxPlayers -> 0 .. Warnings]
      BY <2>3 DEF OnBallStart, TypeOK
    <3>2. pending' \in BOOLEAN
      BY <2>3, Zenon DEF OnBallStart, BallSaveAllowed
    <3>3. /\ ballNumber' \in Nat /\ playActive' = TRUE /\ tiltSeen' = FALSE /\ UNCHANGED <<counted, events>>
          /\ sinceHit' \in Nat /\ blanked' \in Nat /\ saves' \in 0 .. MaxSaves /\ saveLeft' = NoSave
      <4>1. ballNumber' = number /\ sinceHit' = Debounce /\ blanked' = 0 /\ saves' = 0
        BY <2>3, Zenon DEF OnBallStart
      <4>2. playActive' = TRUE /\ tiltSeen' = FALSE /\ saveLeft' = NoSave /\ UNCHANGED <<counted, events>>
        BY <2>3, Zenon DEF OnBallStart
      <4> QED
        BY <4>1, <4>2
    <3> QED
      BY <3>1, <3>2, <3>3 DEF TypeOK, TriggerUsedUp, KeepsSave, LosesTiltedBall, SaveActive
  <2>4. CASE OnBallEnd
    BY <2>4 DEF OnBallEnd, TypeOK, TriggerUsedUp, KeepsSave, LosesTiltedBall, SaveActive
  <2>5. ASSUME NEW duration \in Grants, GrantBallSave(duration) PROVE Good
    <3>1. saveLeft' \in Nat \cup {NoSave} /\ pending' \in BOOLEAN /\ TriggerUsedUp' /\ KeepsSave
      BY <2>5, SaveExtends DEF GrantBallSave
    <3> QED
      BY <2>5, <3>1 DEF GrantBallSave, TypeOK, LosesTiltedBall
  <2> QED
    BY <1>1, <2>1, <2>2, <2>3, <2>4, <2>5 DEF HostCalls
<1>2. CASE AnySwitch
  BY <1>2, SwitchKeeps DEF AnySwitch
<1>3. CASE AssistTick
  <2>1. saveLeft' = IF saveLeft > 0 THEN saveLeft - 1 ELSE saveLeft
    BY <1>3 DEF AssistTick
  <2>2. saveLeft' \in Nat \cup {NoSave} /\ (saveLeft' = NoSave <=> saveLeft = NoSave) /\ KeepsSave
    BY <2>1 DEF TypeOK, KeepsSave, NoSave
  <2>3. sinceHit' \in Nat /\ blanked' \in Nat
    BY <1>3 DEF AssistTick, TypeOK
  <2> QED
    BY <1>3, <2>2, <2>3 DEF AssistTick, play, TypeOK, TriggerUsedUp, LosesTiltedBall, SaveActive
<1>4. CASE AssistUpdate
  <2>1. saveLeft' \in {saveLeft, NoSave}
    BY <1>4 DEF AssistUpdate
  <2> QED
    BY <1>4, <2>1
       DEF AssistUpdate, play, bob, TypeOK, TriggerUsedUp, KeepsSave, LosesTiltedBall, SaveActive, NoSave
<1>5. CASE TakeEvent
  <2>1. events' \in Seq({"tilt", "slamTilt"})
    BY <1>5 DEF TakeEvent, TypeOK
  <2> QED
    BY <1>5, <2>1
       DEF TakeEvent, play, bob, save, TypeOK, TriggerUsedUp, KeepsSave, LosesTiltedBall, SaveActive, NoSave
<1>6. CASE UNCHANGED assistVars
  BY <1>6 DEF assistVars, play, bob, save, TypeOK, TriggerUsedUp, KeepsSave, LosesTiltedBall, SaveActive,
     NoSave
<1> QED
  BY <1>1, <1>2, <1>3, <1>4, <1>5, <1>6 DEF Next

LEMMA AssistInit == Init => TypeOK /\ TriggerUsedUp
BY AssistAssumption DEF Init, TypeOK, TriggerUsedUp, SaveActive

\* PlayfieldAssist.cpp under any host: no player is charged more warnings than
\* the allowance, no ball is saved more often than its limit, and a save that has
\* started, by trigger or by grant, has used up the trigger of its ball.
THEOREM LimitsKept == Spec => [](TypeOK /\ TriggerUsedUp)
<1>1. TypeOK /\ TriggerUsedUp /\ [Next]_assistVars => TypeOK' /\ TriggerUsedUp'
  BY AssistStep
<1> QED
  BY <1>1, AssistInit, PTL DEF Spec

\* The drain of a tilted ball is never hidden from the engine.
THEOREM TiltedBallStaysLost == Spec => TiltedBallIsLost
<1>1. TypeOK /\ TriggerUsedUp /\ [Next]_assistVars => LosesTiltedBall
  BY AssistStep
<1> QED
  BY <1>1, LimitsKept, PTL DEF Spec, TiltedBallIsLost

\* However triggers and grants follow each other, a save loses time to the clock
\* alone.
THEOREM SavesOnlyGrow == Spec => SaveNeverShortened
<1>1. TypeOK /\ TriggerUsedUp /\ [Next]_assistVars => KeepsSave
  BY AssistStep
<1> QED
  BY <1>1, LimitsKept, PTL DEF Spec, SaveNeverShortened


AssistInv == part = "assist" => TypeOK /\ TriggerUsedUp

LEMMA AssistPart ==
  ASSUME AssistInv, [RulesNext]_<<part, assistVars, ruleVars, historyVars, gameVars, motorVars>>
  PROVE  /\ AssistInv'
         /\ part = "assist" => LosesTiltedBall /\ KeepsSave
<1> SUFFICES ASSUME part = "assist"
             PROVE  TypeOK' /\ TriggerUsedUp' /\ LosesTiltedBall /\ KeepsSave
  <2>1. part' = part
    BY DEF RulesNext
  <2> QED
    BY <2>1 DEF AssistInv
<1>1. [Next]_assistVars
  BY DEF RulesNext
<1> QED
  BY <1>1, AssistStep DEF AssistInv

\* PlayfieldAssist.cpp: whatever a host calls in whatever order, allowances and
\* limits hold, and a save that has started has used up the trigger of its ball.
THEOREM AssistLimitsHold == RulesSpec => []AssistKeepsLimits
<1>1. RulesInit => AssistInv
  BY AssistInit DEF RulesInit, AssistInv
<1>2. AssistInv /\ [RulesNext]_<<part, assistVars, ruleVars, historyVars, gameVars, motorVars>> => AssistInv'
  BY AssistPart
<1>3. AssistInv => AssistKeepsLimits
  BY DEF AssistInv, AssistKeepsLimits
<1> QED
  BY <1>1, <1>2, <1>3, PTL DEF RulesSpec

\* The drain of a tilted ball is never hidden, and a save only loses time to the
\* clock (ProcessSwitch, ArmBallSave).
THEOREM AssistStaysFair == RulesSpec => AssistIsFair
<1>1. RulesInit => AssistInv
  BY AssistInit DEF RulesInit, AssistInv
<1>2. AssistInv /\ [RulesNext]_<<part, assistVars, ruleVars, historyVars, gameVars, motorVars>>
        => AssistInv' /\ [part = "assist" => LosesTiltedBall /\ KeepsSave]_assistVars
  BY AssistPart
<1> QED
  BY <1>1, <1>2, PTL DEF RulesSpec, AssistIsFair

-----------------------------------------------------------------------------
(* The calls of the rules (RulesEngine)                                    *)

Call == [left: Int, watched: BOOLEAN]

\* The batch of an update: what is due, in order, while nothing that waits is
\* overdue; between two updates there is none.
Batch ==
  /\ due # <<>> => updating
  /\ updated => ~updating
  /\ \A i \in DOMAIN due : due[i].left <= 0
  /\ \A i, j \in DOMAIN due : i < j => due[i].left <= due[j].left
  /\ updating => \A i \in DOMAIN scheduled : scheduled[i].left >= 0

\* What is left of the window and what has passed of it make up the window.
OnceWindow == onceLeft + sinceOnce >= OnceMs

CallsInv == R!TypeOK /\ Batch /\ OnceWindow

\* A handler adds at most one call, with its delay still to come.
LEMMA HandlerKeeps ==
  ASSUME R!TypeOK, OnceWindow, R!CallHandler
  PROVE  /\ fatal' \in BOOLEAN
         /\ watch' \in {"none", "waiting", "done"}
         /\ scheduled' \in Seq(Call)
         /\ \/ scheduled' = scheduled
            \/ \E d \in Nat, w \in BOOLEAN : scheduled' = Append(scheduled, [left |-> d, watched |-> w])
         /\ onceLeft' \in 0 .. OnceMs /\ sinceOnce' \in 0 .. OnceMs /\ OnceWindow'
<1>. USE CallsAssumption DEF R!RulesAssumption
<1>1. /\ fatal \in BOOLEAN /\ watch \in {"none", "waiting", "done"} /\ scheduled \in Seq(Call)
      /\ onceLeft \in 0 .. OnceMs /\ sinceOnce \in 0 .. OnceMs
  BY DEF R!TypeOK, Call
<1>2. CASE fatal /\ UNCHANGED <<fatal, watch, scheduled, onceLeft, sinceOnce>>
  BY <1>1, <1>2 DEF OnceWindow
<1>3. CASE ~fatal /\ fatal' \in BOOLEAN /\ R!LuaAfter
  <2>1. PICK d \in Delays, w \in {FALSE} \cup {watch # "waiting"} :
          /\ scheduled' = Append(scheduled, [left |-> d, watched |-> w])
          /\ watch' = IF w THEN "waiting" ELSE R!Seen
    BY <1>3 DEF R!LuaAfter, R!After
  <2>2. d \in Nat /\ w \in BOOLEAN
    OBVIOUS
  <2>3. [left |-> d, watched |-> w] \in Call
    BY <2>2 DEF Call
  <2>4. watch' \in {"none", "waiting", "done"}
    BY <1>1, <2>1 DEF R!Seen
  <2>5. UNCHANGED <<onceLeft, sinceOnce>>
    BY <1>3 DEF R!LuaAfter
  <2>6. scheduled' \in Seq(Call)
    BY <1>1, <2>1, <2>3
  <2>. QED
    BY <1>1, <1>3, <2>1, <2>2, <2>4, <2>5, <2>6 DEF OnceWindow
<1>4. CASE ~fatal /\ fatal' \in BOOLEAN /\ (R!LuaOnlyOnceEvery \/ R!NoEffect)
  <2>1. UNCHANGED scheduled /\ watch' \in {"none", "waiting", "done"}
    BY <1>1, <1>4 DEF R!LuaOnlyOnceEvery, R!NoEffect, R!Seen
  <2>2. onceLeft' \in 0 .. OnceMs /\ sinceOnce' \in 0 .. OnceMs /\ OnceWindow'
    BY <1>1, <1>4 DEF R!LuaOnlyOnceEvery, R!NoEffect, OnceWindow
  <2>. QED
    BY <1>1, <1>4, <2>1, <2>2
<1>. QED
  BY <1>2, <1>3, <1>4 DEF R!CallHandler

\* Where a handler is called outside the batch, the batch stays as it is.
LEMMA EventKeeps ==
  ASSUME CallsInv, R!CallHandler, R!Free, UNCHANGED <<updating, updated, due>>,
         switchStates' \in [Switches -> {0, 1}], suppressedOpen' \subseteq Switches,
         cpu' \in [Switches -> {0, 1}], running' \in BOOLEAN
  PROVE  CallsInv'
<1>1. R!TypeOK /\ Batch /\ OnceWindow
  BY DEF CallsInv
<1>2. /\ fatal' \in BOOLEAN /\ watch' \in {"none", "waiting", "done"} /\ scheduled' \in Seq(Call)
      /\ onceLeft' \in 0 .. OnceMs /\ sinceOnce' \in 0 .. OnceMs /\ OnceWindow'
  BY <1>1, HandlerKeeps
<1>3. /\ updating \in BOOLEAN /\ updated \in BOOLEAN /\ due \in Seq(Call)
  BY <1>1 DEF R!TypeOK, Call
<1>4. R!TypeOK'
  BY <1>2, <1>3 DEF R!TypeOK, Call
<1>5. Batch'
  BY <1>1 DEF Batch, R!Free
<1>. QED
  BY <1>2, <1>4, <1>5 DEF CallsInv

LEMMA StopIsAFlag ==
  ASSUME running \in BOOLEAN, R!StopOnFailure
  PROVE  running' \in BOOLEAN
BY Zenon DEF R!StopOnFailure

LEMMA SwitchKeepsCalls ==
  ASSUME ~RepeatedCloses, CallsInv, R!CpuAgrees,
         NEW s \in Switches, NEW v \in {0, 1}, R!ProcessSwitchState(s, v)
  PROVE  CallsInv' /\ R!CpuAgrees'
<1>1. /\ switchStates \in [Switches -> {0, 1}] /\ cpu \in [Switches -> {0, 1}]
      /\ suppressedOpen \subseteq Switches /\ running \in BOOLEAN
  BY DEF CallsInv, R!TypeOK
<1>2. /\ R!CallHandler /\ R!Free /\ UNCHANGED <<updating, updated, due>> /\ R!StopOnFailure
      /\ switchStates' = [switchStates EXCEPT ![s] = v] /\ switchStates[s] # v
  BY DEF R!ProcessSwitchState
<1>3. PICK hidden \in R!Suppress(s, v) :
        /\ cpu' = IF R!Forward(s, v, hidden) THEN [cpu EXCEPT ![s] = v] ELSE cpu
        /\ suppressedOpen' = IF v = 0 THEN hidden \ {s} ELSE hidden
  BY Zenon DEF R!ProcessSwitchState
<1>4. hidden = suppressedOpen \/ (v = 1 /\ hidden = suppressedOpen \cup {s})
  BY <1>3 DEF R!Suppress
<1>5. CallsInv'
  <2>1. running' \in BOOLEAN
    BY <1>1, <1>2, StopIsAFlag
  <2>2. /\ switchStates' \in [Switches -> {0, 1}] /\ suppressedOpen' \subseteq Switches
        /\ cpu' \in [Switches -> {0, 1}]
    BY <1>1, <1>2, <1>3, <1>4
  <2>. QED
    BY <1>2, <2>1, <2>2, EventKeeps
<1>6. R!CpuAgrees'
  <2>. SUFFICES ASSUME NEW t \in Switches
                PROVE  cpu'[t] = IF t \in suppressedOpen' THEN 0 ELSE switchStates'[t]
    BY DEF R!CpuAgrees
  <2>1. cpu[t] = IF t \in suppressedOpen THEN 0 ELSE switchStates[t]
    BY DEF R!CpuAgrees
  <2>2. CASE t # s
    BY <1>1, <1>2, <1>3, <1>4, <2>1, <2>2
  <2>3. CASE t = s
    <3>1. switchStates'[s] = v /\ switchStates[s] = 1 - v
      BY <1>1, <1>2
    <3>2. cpu' = IF s \notin hidden THEN [cpu EXCEPT ![s] = v] ELSE cpu
      BY <1>3 DEF R!Forward
    <3>. QED
      BY <1>1, <1>3, <1>4, <2>1, <2>3, <3>1, <3>2
  <2>. QED
    BY <2>2, <2>3
<1>. QED
  BY <1>5, <1>6

LEMMA OtherEventsKeepCalls ==
  ASSUME CallsInv, R!CpuAgrees, R!ProcessCoilState \/ R!OnLampState \/ R!CallGameHandler
  PROVE  CallsInv' /\ R!CpuAgrees'
<1>1. /\ R!CallHandler /\ R!Free
      /\ UNCHANGED <<updating, updated, due, switchStates, suppressedOpen, cpu>>
      /\ running' = running \/ R!StopOnFailure
  BY DEF R!ProcessCoilState, R!OnLampState, R!CallGameHandler
<1>2. /\ switchStates \in [Switches -> {0, 1}] /\ cpu \in [Switches -> {0, 1}]
      /\ suppressedOpen \subseteq Switches /\ running \in BOOLEAN
  BY DEF CallsInv, R!TypeOK
<1>3. running' \in BOOLEAN
  BY <1>1, <1>2, StopIsAFlag
<1>4. CallsInv'
  BY <1>1, <1>2, <1>3, EventKeeps
<1>5. R!CpuAgrees'
  BY <1>1 DEF R!CpuAgrees
<1>. QED
  BY <1>4, <1>5

\* What is picked from a queue of calls is a queue of calls.
LEMMA PickedIsAQueue ==
  ASSUME NEW calls \in Seq(Call), NEW places \in SUBSET (DOMAIN calls), NEW list \in R!Listings(places)
  PROVE  /\ R!Picked(calls, list) \in Seq(Call)
         /\ \A i \in DOMAIN R!Picked(calls, list) : /\ i \in DOMAIN list /\ list[i] \in places
                                                    /\ R!Picked(calls, list)[i] = calls[list[i]]
<1>1. IsFiniteSet(places)
  <2>1. DOMAIN calls = 1 .. Len(calls) /\ Len(calls) \in Nat
    OBVIOUS
  <2>2. IsFiniteSet(1 .. Len(calls))
    BY <2>1, FS_Interval
  <2>. QED
    BY <2>1, <2>2, FS_Subset
<1>2. PICK n \in Nat : n = Cardinality(places)
  BY <1>1, FS_CardinalityType
<1>3. list \in [1 .. n -> places]
  <2>1. R!Cardinality(places) = Cardinality(places)
    BY DEF R!Cardinality, Cardinality, R!IsFiniteSet, IsFiniteSet
  <2>. QED
    BY <1>2, <2>1 DEF R!Listings
<1>4. R!Picked(calls, list) = [i \in 1 .. n |-> calls[list[i]]]
  BY <1>3 DEF R!Picked
<1>5. \A i \in 1 .. n : calls[list[i]] \in Call
  BY <1>3
<1>. QED
  BY <1>3, <1>4, <1>5

LEMMA BeginKeepsCalls ==
  ASSUME CallsInv, R!CpuAgrees, R!BeginUpdate
  PROVE  CallsInv' /\ R!CpuAgrees'
<1>1. /\ scheduled \in Seq(Call) /\ fatal \in BOOLEAN /\ updated \in BOOLEAN
      /\ ~updated /\ updating' = TRUE
      /\ UNCHANGED <<switchStates, suppressedOpen, cpu, fatal, updated, watch, onceLeft, sinceOnce, running>>
  BY DEF CallsInv, R!TypeOK, R!BeginUpdate, Call
<1>2. PICK first \in R!Listings(R!DueOnes(scheduled)) :
        /\ \A i, j \in DOMAIN first : i < j => R!Sooner(scheduled, first[i], first[j])
        /\ due' = R!Picked(scheduled, first)
  BY DEF R!BeginUpdate, R!InOrder
<1>3. PICK rest \in R!Listings(DOMAIN scheduled \ R!DueOnes(scheduled)) : scheduled' = R!Picked(scheduled, rest)
  BY DEF R!BeginUpdate, R!Later
<1>4. /\ due' \in Seq(Call)
      /\ \A i \in DOMAIN due' : /\ i \in DOMAIN first /\ first[i] \in R!DueOnes(scheduled)
                                /\ due'[i] = scheduled[first[i]]
  <2>1. R!DueOnes(scheduled) \in SUBSET (DOMAIN scheduled)
    BY DEF R!DueOnes
  <2>. QED
    BY <1>1, <1>2, <2>1, PickedIsAQueue
<1>5. /\ scheduled' \in Seq(Call)
      /\ \A i \in DOMAIN scheduled' : /\ rest[i] \in DOMAIN scheduled \ R!DueOnes(scheduled)
                                      /\ scheduled'[i] = scheduled[rest[i]]
  BY <1>1, <1>3, PickedIsAQueue
<1>6. \A i \in DOMAIN scheduled : scheduled[i].left \in Int
  <2>1. \A i \in DOMAIN scheduled : scheduled[i] \in Call
    BY <1>1
  <2>. QED
    BY <2>1 DEF Call
<1>7. \A i \in DOMAIN due' : due'[i].left <= 0
  BY <1>4 DEF R!DueOnes
<1>8. \A i, j \in DOMAIN due' : i < j => due'[i].left <= due'[j].left
  BY <1>2, <1>4, <1>6 DEF R!DueOnes, R!Sooner
<1>9. \A i \in DOMAIN scheduled' : scheduled'[i].left >= 0
  BY <1>5, <1>6 DEF R!DueOnes
<1>10. R!TypeOK'
  BY <1>1, <1>4, <1>5 DEF CallsInv, R!TypeOK, Call
<1>11. Batch'
  BY <1>1, <1>7, <1>8, <1>9 DEF Batch
<1>12. OnceWindow' /\ R!CpuAgrees'
  BY <1>1 DEF CallsInv, OnceWindow, R!CpuAgrees
<1>. QED
  BY <1>10, <1>11, <1>12 DEF CallsInv

LEMMA CallbackKeepsCalls ==
  ASSUME CallsInv, R!CpuAgrees, R!RunCallback \/ R!EndUpdate
  PROVE  CallsInv' /\ R!CpuAgrees'
<1>0. R!RunCallback \/ R!EndUpdate
  OBVIOUS
<1>1. /\ R!TypeOK /\ Batch /\ OnceWindow /\ R!CallHandler /\ R!StopOnFailure
      /\ UNCHANGED <<switchStates, suppressedOpen, cpu>>
  BY DEF CallsInv, R!RunCallback, R!EndUpdate
<1>2. /\ fatal' \in BOOLEAN /\ watch' \in {"none", "waiting", "done"} /\ scheduled' \in Seq(Call)
      /\ \/ scheduled' = scheduled
         \/ \E d \in Nat, w \in BOOLEAN : scheduled' = Append(scheduled, [left |-> d, watched |-> w])
      /\ onceLeft' \in 0 .. OnceMs /\ sinceOnce' \in 0 .. OnceMs /\ OnceWindow'
  BY <1>1, HandlerKeeps
<1>3. running' \in BOOLEAN
  BY <1>1, StopIsAFlag DEF R!TypeOK
<1>4. due \in Seq(Call) /\ scheduled \in Seq(Call) /\ updating
  BY <1>1 DEF R!TypeOK, Call, Batch, R!RunCallback, R!EndUpdate
<1>5. /\ due' = <<>> \/ (due # <<>> /\ due' = Tail(due) /\ updating')
      /\ updating' \in BOOLEAN /\ updated' \in BOOLEAN
      /\ updated' => ~updating'
  <2>1. CASE R!RunCallback
    <3>1. /\ due # <<>> /\ due' = IF fatal' THEN <<>> ELSE Tail(due)
          /\ updating' = ~fatal' /\ updated' = fatal'
      BY <2>1 DEF R!RunCallback
    <3>. QED
      BY <1>2, <3>1, Zenon
  <2>2. CASE R!EndUpdate
    <3>1. due' = <<>> /\ updating' = FALSE /\ updated' = TRUE
      BY <2>2 DEF R!EndUpdate
    <3>. QED
      BY <3>1, Zenon
  <2>. QED
    BY <1>0, <2>1, <2>2
<1>6. /\ due' \in Seq(Call)
      /\ \A i \in DOMAIN due' : i \in Int /\ i + 1 \in DOMAIN due /\ due'[i] = due[i + 1]
  <2>1. CASE due' = <<>>
    BY <2>1
  <2>2. CASE due # <<>> /\ due' = Tail(due)
    BY <1>4, <2>2
  <2>. QED
    BY <1>5, <2>1, <2>2
<1>7. /\ \A i \in DOMAIN due' : due'[i].left <= 0
      /\ \A i, j \in DOMAIN due' : i < j => due'[i].left <= due'[j].left
  BY <1>1, <1>6 DEF Batch
<1>8. \A i \in DOMAIN scheduled' : scheduled'[i].left >= 0
  <2>1. \A i \in DOMAIN scheduled : scheduled[i].left >= 0
    BY <1>1, <1>4 DEF Batch
  <2>2. ASSUME NEW d \in Nat, NEW w \in BOOLEAN, scheduled' = Append(scheduled, [left |-> d, watched |-> w])
        PROVE  \A i \in DOMAIN scheduled' : scheduled'[i].left >= 0
    BY <1>4, <2>1, <2>2
  <2>. QED
    BY <1>2, <2>1, <2>2
<1>9. R!TypeOK'
  BY <1>1, <1>2, <1>3, <1>5, <1>6 DEF R!TypeOK, Call
<1>10. Batch'
  BY <1>5, <1>7, <1>8 DEF Batch
<1>11. R!CpuAgrees'
  BY <1>1 DEF R!CpuAgrees
<1>. QED
  BY <1>2, <1>9, <1>10, <1>11 DEF CallsInv

LEMMA PassKeepsCalls ==
  ASSUME CallsInv, R!CpuAgrees, R!FailedUpdate \/ R!NextPass
  PROVE  CallsInv' /\ R!CpuAgrees'
<1>1. UNCHANGED <<switchStates, suppressedOpen, cpu, fatal, updating, due, watch>>
  BY DEF R!FailedUpdate, R!NextPass
<1>2. CASE R!FailedUpdate
  <2>1. running' = FALSE /\ UNCHANGED <<scheduled, updated, onceLeft, sinceOnce>>
    BY <1>2 DEF R!FailedUpdate
  <2>2. running' \in BOOLEAN
    BY <2>1, Zenon
  <2>3. R!TypeOK'
    BY <1>1, <2>1, <2>2 DEF CallsInv, R!TypeOK
  <2>. QED
    BY <1>1, <2>1, <2>3 DEF CallsInv, Batch, OnceWindow, R!CpuAgrees
<1>3. CASE R!NextPass
  <2>1. PICK d \in 1 .. MaxPass :
          /\ scheduled' = [i \in DOMAIN scheduled |-> [scheduled[i] EXCEPT !.left = @ - d]]
          /\ onceLeft' = R!Less(onceLeft, d)
          /\ sinceOnce' = IF sinceOnce + d < OnceMs THEN sinceOnce + d ELSE OnceMs
    BY <1>3 DEF R!NextPass
  <2>2. updated /\ updated' = FALSE /\ UNCHANGED running
    BY <1>3 DEF R!NextPass
  <2>3. ~updating /\ due = <<>> /\ scheduled \in Seq(Call)
    BY <2>2 DEF CallsInv, Batch, R!TypeOK, Call
  <2>4. scheduled' \in Seq(Call)
    <3>1. \A i \in DOMAIN scheduled : [scheduled[i] EXCEPT !.left = @ - d] \in Call
      <4>1. \A i \in DOMAIN scheduled : scheduled[i] \in Call
        BY <2>3
      <4>2. \A c \in Call : [c EXCEPT !.left = @ - d] \in Call
        BY DEF Call
      <4>. QED
        BY <4>1, <4>2
    <3>. QED
      BY <2>1, <2>3, <3>1
  <2>5. onceLeft' \in 0 .. OnceMs /\ sinceOnce' \in 0 .. OnceMs /\ OnceWindow'
    BY <2>1, CallsAssumption DEF CallsInv, R!TypeOK, OnceWindow, R!Less, R!RulesAssumption
  <2>6. R!TypeOK'
    BY <1>1, <2>2, <2>4, <2>5 DEF CallsInv, R!TypeOK, Call
  <2>7. Batch'
    BY <1>1, <2>2, <2>3 DEF Batch
  <2>. QED
    BY <1>1, <2>5, <2>6, <2>7 DEF CallsInv, R!CpuAgrees
<1>. QED
  BY <1>2, <1>3

LEMMA CallsStart == R!Init => CallsInv /\ R!CpuAgrees
<1>. SUFFICES ASSUME R!Init PROVE CallsInv /\ R!CpuAgrees
  OBVIOUS
<1>1. R!TypeOK
  <2>1. {fatal, updating, updated, running} \subseteq BOOLEAN
    BY Zenon DEF R!Init
  <2>2. scheduled = <<>> /\ due = <<>>
    BY DEF R!Init
  <2>3. scheduled \in Seq([left: Int, watched: BOOLEAN]) /\ due \in Seq([left: Int, watched: BOOLEAN])
    BY <2>2
  <2>4. onceLeft \in 0 .. OnceMs /\ sinceOnce \in 0 .. OnceMs
    BY CallsAssumption DEF R!Init, R!RulesAssumption
  <2>. QED
    BY <2>1, <2>3, <2>4 DEF R!Init, R!TypeOK
<1>2. Batch /\ OnceWindow
  BY CallsAssumption DEF R!Init, Batch, OnceWindow, R!RulesAssumption
<1>. QED
  BY <1>1, <1>2 DEF R!Init, R!CpuAgrees, CallsInv

LEMMA CallsStep ==
  ASSUME ~RepeatedCloses, CallsInv, R!CpuAgrees, [R!Next]_ruleVars
  PROVE  CallsInv' /\ R!CpuAgrees'
<1>1. CASE UNCHANGED ruleVars
  BY <1>1 DEF ruleVars, CallsInv, R!TypeOK, Batch, OnceWindow, R!CpuAgrees
<1>. QED
  BY <1>1, SwitchKeepsCalls, OtherEventsKeepCalls, BeginKeepsCalls, CallbackKeepsCalls, PassKeepsCalls
     DEF R!Next, R!Update

LEMMA CallsInOrder ==
  ASSUME CallsInv
  PROVE  R!TypeOK /\ R!CallbacksInOrder /\ R!OncePerWindow
<1>1. due \in Seq(Call) /\ scheduled \in Seq(Call)
  BY DEF CallsInv, R!TypeOK, Call
<1>2. R!CallbacksInOrder
  <2>. SUFFICES ASSUME due # <<>>, NEW c \in R!Range(scheduled) \cup R!Range(due) PROVE Head(due).left <= c.left
    BY DEF R!CallbacksInOrder
  <2>0. \A i \in DOMAIN due : due[i] \in Call
    BY <1>1
  <2>1. Head(due) = due[1] /\ 1 \in DOMAIN due /\ due[1].left \in Int /\ due[1].left <= 0
    <3>1. Head(due) = due[1] /\ 1 \in DOMAIN due
      BY <1>1
    <3>. QED
      BY <2>0, <3>1 DEF CallsInv, Batch, Call
  <2>2. CASE \E i \in DOMAIN scheduled : c = scheduled[i]
    <3>1. c \in Call
      BY <1>1, <2>2
    <3>2. c.left >= 0 /\ c.left \in Int
      BY <2>2, <3>1 DEF CallsInv, Batch, Call
    <3>. QED
      BY <2>1, <3>2
  <2>3. CASE \E i \in DOMAIN due : c = due[i]
    <3>1. PICK i \in DOMAIN due : c = due[i]
      BY <2>3
    <3>2. i = 1 \/ 1 < i
      BY <1>1
    <3>. QED
      BY <2>1, <3>1, <3>2 DEF CallsInv, Batch
  <2>. QED
    BY <2>2, <2>3 DEF R!Range
<1>3. R!OncePerWindow
  BY CallsAssumption DEF CallsInv, OnceWindow, R!TypeOK, R!OncePerWindow, R!RulesAssumption
<1>. QED
  BY <1>2, <1>3 DEF CallsInv

-----------------------------------------------------------------------------
(* The memory of the triggers (TriggerHistory)                             *)

Entry == [id: Triggers, player: People, age: Nat]

Aging(h) == \A i, j \in DOMAIN h : i < j => h[i].age >= h[j].age
Young(h) == \A i \in DOMAIN h : h[i].age <= Retention

HistoryInv ==
  /\ history \in Seq(Entry) /\ whoPlays \in People
  /\ Aging(history) /\ Young(history)

\* Of a queue in order of age, what is behind the first young entry is young.
LEMMA PruneKeepsYoung ==
  ASSUME NEW h \in Seq(Entry), Aging(h)
  PROVE  H!Prune(h) \in Seq(Entry) /\ Aging(H!Prune(h)) /\ Young(H!Prune(h))
<1>. DEFINE young == {i \in DOMAIN h : h[i].age <= Retention}
<1>1. CASE young = {}
  <2>1. H!Prune(h) = <<>>
    BY <1>1 DEF H!Prune
  <2>. QED
    BY <2>1 DEF Aging, Young
<1>2. CASE young # {}
  <2>1. young \in SUBSET Nat
    OBVIOUS
  <2>2. \E m \in young : \A n \in young : m <= n
    BY <1>2, <2>1, LeastNumber
  <2>. DEFINE m == H!Min(young)
  <2>3. m \in young /\ \A n \in young : m <= n
    <3>. HIDE DEF young
    <3>. QED
      BY <2>2 DEF H!Min
  <2>4. H!Prune(h) = SubSeq(h, m, Len(h))
    <3>1. H!Prune(h) = IF young = {} THEN <<>> ELSE SubSeq(h, H!Min(young), Len(h))
      BY DEF H!Prune
    <3>. QED
      BY <1>2, <3>1
  <2>5. m \in 1 .. Len(h) /\ h[m].age <= Retention
    BY <2>3
  <2>. HIDE DEF m
  <2>6. \A i \in DOMAIN h : h[i] \in Entry
    OBVIOUS
  <2>7. /\ SubSeq(h, m, Len(h)) \in Seq(Entry)
        /\ \A i \in DOMAIN SubSeq(h, m, Len(h)) :
             i \in Nat /\ i >= 1 /\ m + i - 1 \in DOMAIN h /\ SubSeq(h, m, Len(h))[i] = h[m + i - 1]
    BY <2>5
  <2>8. Aging(SubSeq(h, m, Len(h)))
    <3>. DEFINE t == SubSeq(h, m, Len(h))
    <3>. SUFFICES ASSUME NEW i \in DOMAIN t, NEW j \in DOMAIN t, i < j PROVE t[i].age >= t[j].age
      BY DEF Aging
    <3>1. /\ m + i - 1 \in DOMAIN h /\ m + j - 1 \in DOMAIN h /\ i \in Nat /\ j \in Nat
          /\ t[i] = h[m + i - 1] /\ t[j] = h[m + j - 1]
      BY <2>7
    <3>. HIDE DEF t
    <3>2. m + i - 1 < m + j - 1
      BY <2>5, <3>1
    <3>. QED
      BY <3>1, <3>2 DEF Aging
  <2>9. \A j \in DOMAIN h : m <= j => h[j].age <= Retention
    <3>. SUFFICES ASSUME NEW j \in DOMAIN h, m <= j PROVE h[j].age <= Retention
      OBVIOUS
    <3>1. CASE m = j
      BY <2>5, <3>1
    <3>2. CASE m < j
      <4>1. h[m].age >= h[j].age
        BY <2>5, <3>2 DEF Aging
      <4>2. h[m].age \in Nat /\ h[j].age \in Nat
        BY <2>5, <2>6 DEF Entry
      <4>. QED
        BY <2>5, <4>1, <4>2, MemoryAssumption DEF H!HistoryAssumption
    <3>. QED
      BY <2>5, <3>1, <3>2
  <2>10. Young(SubSeq(h, m, Len(h)))
    BY <2>5, <2>7, <2>9 DEF Young
  <2>. QED
    BY <2>4, <2>7, <2>8, <2>10
<1>. QED
  BY <1>1, <1>2

LEMMA HistoryStep ==
  ASSUME HistoryInv, [H!Next]_historyVars
  PROVE  HistoryInv'
<1>1. history \in Seq(Entry) /\ whoPlays \in People /\ Aging(history)
  BY DEF HistoryInv
<1>2. \A i \in DOMAIN history : i \in Nat /\ history[i] \in Entry
  BY <1>1
<1>3. \A i \in DOMAIN history : history[i].age \in Nat
  BY <1>2 DEF Entry
<1>4. CASE UNCHANGED historyVars
  BY <1>4 DEF historyVars, HistoryInv
<1>5. ASSUME NEW id \in Triggers, H!RecordTrigger(id)
      PROVE  HistoryInv'
  <2>. DEFINE e == [id |-> id, player |-> whoPlays, age |-> 0]
              h == Append(history, e)
  <2>1. history' = H!Prune(h) /\ UNCHANGED whoPlays
    BY <1>5 DEF H!RecordTrigger
  <2>2. e \in Entry
    BY <1>1 DEF Entry
  <2>3. h \in Seq(Entry)
    <3>. HIDE DEF e
    <3>. QED
      BY <1>1, <2>2
  <2>4. Aging(h)
    <3>. SUFFICES ASSUME NEW i \in DOMAIN h, NEW j \in DOMAIN h, i < j PROVE h[i].age >= h[j].age
      BY DEF Aging
    <3>1. i \in DOMAIN history /\ h[i] = history[i]
      BY <1>1
    <3>2. \/ j \in DOMAIN history /\ h[j] = history[j]
          \/ h[j].age = 0
      BY <1>1
    <3>. QED
      BY <1>1, <1>3, <3>1, <3>2 DEF Aging
  <2>. HIDE DEF h
  <2>. QED
    BY <1>1, <2>1, <2>3, <2>4, PruneKeepsYoung DEF HistoryInv
<1>6. CASE H!Update
  <2>1. history' = H!Prune(H!Aged) /\ UNCHANGED whoPlays
    BY <1>6 DEF H!Update
  <2>2. /\ DOMAIN H!Aged = DOMAIN history
        /\ \A i \in DOMAIN history : H!Aged[i] = [history[i] EXCEPT !.age = @ + 1]
    BY DEF H!Aged
  <2>3. \A i \in DOMAIN history : H!Aged[i] \in Entry /\ H!Aged[i].age = history[i].age + 1
    BY <1>2, <2>2 DEF Entry
  <2>4. H!Aged \in Seq(Entry)
    <3>1. \A i \in DOMAIN history : [history[i] EXCEPT !.age = @ + 1] \in Entry
      BY <2>2, <2>3
    <3>3. H!Aged \in [1 .. Len(history) -> Entry]
      BY <1>1, <3>1 DEF H!Aged
    <3>2. Len(history) \in Nat
      BY <1>1
    <3>. QED
      BY <3>2, <3>3
  <2>5. Aging(H!Aged)
    BY <1>1, <1>3, <2>2, <2>3 DEF Aging
  <2>. QED
    BY <1>1, <2>1, <2>4, <2>5, PruneKeepsYoung DEF HistoryInv
<1>7. ASSUME NEW p \in People, H!SetCurrentPlayer(p)
      PROVE  HistoryInv'
  BY <1>7 DEF H!SetCurrentPlayer, HistoryInv
<1>. QED
  BY <1>4, <1>5, <1>6, <1>7 DEF H!Next

LEMMA HistoryStarts == H!Init => HistoryInv
BY DEF H!Init, HistoryInv, Aging, Young

-----------------------------------------------------------------------------
(* The search for a sequence                                               *)

Found == [next: 0 .. 2, newest: Nat, oldest: Nat]

\* Backwards is a recursion on the number of entries that were looked at.
LEMMA BackwardsUnfolds ==
  ASSUME history \in Seq(Entry), NEW ids \in H!Pairs
  PROVE  \E f \in [Nat -> Found] :
           /\ f[0] = [next |-> 2, newest |-> 0, oldest |-> 0]
           /\ \A n \in Nat : n < Len(history) => f[n + 1] = H!Step(ids, history[Len(history) - n], f[n])
           /\ H!Backwards(ids) = f[Len(history)]
<1>. DEFINE L == Len(history)
            a == [next |-> 2, newest |-> 0, oldest |-> 0]
            Eq(f) == f = [n \in 0 .. L |-> IF n = 0 THEN [next |-> Len(ids), newest |-> 0, oldest |-> 0]
                                                   ELSE H!Step(ids, history[L + 1 - n], f[n - 1])]
            found == CHOOSE f : Eq(f)
            g == [x \in Nat \X Found |-> IF x[1] < L THEN H!Step(ids, history[L - x[1]], x[2]) ELSE x[2]]
<1>1. Len(ids) = 2 /\ L \in Nat
  BY DEF H!Pairs
<1>2. \A e \in Entry, r \in Found : H!Step(ids, e, r) \in Found
  BY <1>1 DEF H!Step, Found, Entry
<1>3. g \in [Nat \X Found -> Found]
  <2>1. ASSUME NEW i \in Nat, NEW r \in Found, i < L PROVE H!Step(ids, history[L - i], r) \in Found
    <3>1. history[L - i] \in Entry
      BY <2>1
    <3>. QED
      BY <1>2, <3>1
  <2>. QED
    BY <2>1
<1>4. a \in Found
  BY DEF Found
<1>5. PICK F \in [Nat -> Found] : F[0] = a /\ \A i \in Nat : F[i + 1] = g[<<i, F[i]>>]
  <2>1. g \in StepsOn(Found)
    BY <1>3, Zenon DEF StepsOn
  <2>. HIDE DEF a, g
  <2>2. PICK F \in Recursion(Found, a, g) : TRUE
    BY <1>4, <2>1, RecursionExists
  <2>. QED
    BY <2>2 DEF Recursion
<1>6. \A n \in Nat : n < L => F[n + 1] = H!Step(ids, history[L - n], F[n])
  BY <1>5
<1>. DEFINE walk == [n \in 0 .. L |-> F[n]]
<1>7. Eq(walk)
  <2>1. ASSUME NEW n \in 0 .. L
        PROVE  F[n] = IF n = 0 THEN a ELSE H!Step(ids, history[L + 1 - n], walk[n - 1])
    <3>1. CASE n = 0
      BY <1>5, <3>1
    <3>2. CASE n # 0
      <4>1. n - 1 \in Nat /\ n - 1 < L /\ (n - 1) + 1 = n /\ L - (n - 1) = L + 1 - n /\ walk[n - 1] = F[n - 1]
        BY <3>2
      <4>2. F[n] = H!Step(ids, history[L - (n - 1)], F[n - 1])
        BY <1>6, <4>1
      <4>. QED
        BY <3>2, <4>1, <4>2
    <3>. QED
      BY <3>1, <3>2
  <2>. QED
    BY <1>1, <2>1
<1>8. Eq(found)
  <2>. HIDE DEF walk, Eq
  <2>. QED
    BY <1>7
<1>9. H!Backwards(ids) = found[L]
  BY DEF H!Backwards
<1>10. \A n \in 0 .. L : found[n] = IF n = 0 THEN a ELSE H!Step(ids, history[L + 1 - n], found[n - 1])
  <2>. HIDE DEF found
  <2>. QED
    BY <1>1, <1>8
<1>. HIDE DEF found, Eq
<1>11. \A n \in 0 .. L : found[n] = F[n]
  <2>. DEFINE Good == {n \in Nat : n <= L => found[n] = F[n]}
  <2>1. 0 \in Good
    BY <1>1, <1>5, <1>10
  <2>2. ASSUME NEW n \in Nat, n \in Good PROVE n + 1 \in Good
    <3>. SUFFICES ASSUME n + 1 <= L PROVE found[n + 1] = F[n + 1]
      OBVIOUS
    <3>1. found[n] = F[n] /\ n < L /\ n + 1 \in 0 .. L /\ n + 1 # 0 /\ (n + 1) - 1 = n /\ L + 1 - (n + 1) = L - n
      BY <1>1, <2>2
    <3>2. found[n + 1] = H!Step(ids, history[L + 1 - (n + 1)], found[(n + 1) - 1])
      BY <1>10, <3>1
    <3>. QED
      BY <1>6, <3>1, <3>2
  <2>3. Nat \subseteq Good
    <3>. HIDE DEF Good
    <3>. QED
      BY <2>1, <2>2, Induction
  <2>. QED
    BY <2>3
<1>. QED
  BY <1>1, <1>5, <1>6, <1>9, <1>11

\* What was found of the two triggers among the n newest entries: nothing, the
\* newest of the second kind with none of the first kind before it, or both.
Reached(ids, n, r) ==
  \/ /\ r.next = 2
     /\ \A i \in DOMAIN history : i > Len(history) - n => ~H!Mine(history[i], ids[2])
  \/ /\ r.next = 1
     /\ \E j \in DOMAIN history :
          /\ H!Mine(history[j], ids[2]) /\ r.newest = history[j].age
          /\ \A i \in DOMAIN history : /\ i > j => ~H!Mine(history[i], ids[2])
                                       /\ i > Len(history) - n /\ i < j => ~H!Mine(history[i], ids[1])
          /\ j > Len(history) - n
  \/ /\ r.next = 0
     /\ \E i, j \in DOMAIN history :
          /\ i < j /\ H!Mine(history[i], ids[1]) /\ H!Mine(history[j], ids[2])
          /\ r.newest = history[j].age /\ r.oldest = history[i].age

LEMMA StepReaches ==
  ASSUME history \in Seq(Entry), NEW ids \in H!Pairs, NEW n \in Nat, n < Len(history),
         NEW r \in Found, Reached(ids, n, r)
  PROVE  Reached(ids, n + 1, H!Step(ids, history[Len(history) - n], r))
<1>. DEFINE k == Len(history) - n
            e == history[k]
            R1 == H!Step(ids, e, r)
<1>1. k \in DOMAIN history /\ Len(history) - (n + 1) = k - 1 /\ k \in Nat /\ Len(ids) = 2
  BY DEF H!Pairs
<1>2. DOMAIN history \subseteq Nat
  OBVIOUS
<1>3. \A i \in DOMAIN history : i > k - 1 <=> i > k \/ i = k
  BY <1>1, <1>2
<1>4. CASE r.next = 2
  <2>1. \A i \in DOMAIN history : i > k => ~H!Mine(history[i], ids[2])
    BY <1>4 DEF Reached
  <2>2. CASE H!Mine(e, ids[2])
    <3>1. R1.next = 1 /\ R1.newest = e.age
      BY <1>1, <1>4, <2>2 DEF H!Step
    <3>2. \A i \in DOMAIN history : ~(i > k - 1 /\ i < k)
      BY <1>1, <1>2
    <3>. QED
      BY <1>1, <1>3, <2>1, <2>2, <3>1, <3>2 DEF Reached
  <2>3. CASE ~H!Mine(e, ids[2])
    <3>1. R1 = r
      BY <1>4, <2>3 DEF H!Step
    <3>. QED
      BY <1>1, <1>3, <1>4, <2>1, <2>3, <3>1 DEF Reached
  <2>. QED
    BY <2>2, <2>3
<1>5. CASE r.next = 1
  <2>1. PICK j \in DOMAIN history :
          /\ H!Mine(history[j], ids[2]) /\ r.newest = history[j].age
          /\ \A i \in DOMAIN history : /\ i > j => ~H!Mine(history[i], ids[2])
                                       /\ i > k /\ i < j => ~H!Mine(history[i], ids[1])
          /\ j > k
    BY <1>5 DEF Reached
  <2>2. CASE H!Mine(e, ids[1])
    <3>1. R1.next = 0 /\ R1.newest = r.newest /\ R1.oldest = e.age
      BY <1>1, <1>5, <2>2 DEF H!Step
    <3>2. k < j
      BY <1>1, <1>2, <2>1
    <3>. QED
      BY <1>1, <2>1, <2>2, <3>1, <3>2 DEF Reached
  <2>3. CASE ~H!Mine(e, ids[1])
    <3>1. R1 = r
      BY <1>5, <2>3 DEF H!Step
    <3>2. \A i \in DOMAIN history : i > k - 1 /\ i < j => ~H!Mine(history[i], ids[1])
      BY <1>3, <2>1, <2>3
    <3>3. j > k - 1
      BY <1>3, <2>1
    <3>. QED
      BY <1>1, <1>5, <2>1, <3>1, <3>2, <3>3 DEF Reached
  <2>. QED
    BY <2>2, <2>3
<1>6. CASE r.next = 0
  <2>1. R1 = r
    BY <1>6 DEF H!Step
  <2>. QED
    BY <1>6, <2>1 DEF Reached
<1>7. r.next \in {0, 1, 2}
  BY DEF Found
<1>. QED
  BY <1>4, <1>5, <1>6, <1>7

\* The pass over the whole queue, from the newest entry to the oldest.
LEMMA BackwardsReaches ==
  ASSUME history \in Seq(Entry), NEW ids \in H!Pairs
  PROVE  H!Backwards(ids) \in Found /\ Reached(ids, Len(history), H!Backwards(ids))
<1>1. PICK f \in [Nat -> Found] :
           /\ f[0] = [next |-> 2, newest |-> 0, oldest |-> 0]
           /\ \A n \in Nat : n < Len(history) => f[n + 1] = H!Step(ids, history[Len(history) - n], f[n])
           /\ H!Backwards(ids) = f[Len(history)]
  BY BackwardsUnfolds
<1>. DEFINE Good == {n \in Nat : n <= Len(history) => Reached(ids, n, f[n])}
<1>2. 0 \in Good
  BY <1>1 DEF Reached
<1>3. ASSUME NEW n \in Nat, n \in Good PROVE n + 1 \in Good
  <2>. SUFFICES ASSUME n + 1 <= Len(history) PROVE Reached(ids, n + 1, f[n + 1])
    OBVIOUS
  <2>1. n < Len(history) /\ Reached(ids, n, f[n]) /\ f[n] \in Found
    BY <1>1, <1>3
  <2>2. Reached(ids, n + 1, H!Step(ids, history[Len(history) - n], f[n]))
    BY <2>1, StepReaches
  <2>. QED
    BY <1>1, <2>1, <2>2
<1>4. Nat \subseteq Good
  <2>. HIDE DEF Good
  <2>. QED
    BY <1>2, <1>3, Induction
<1>5. Len(history) \in Nat
  OBVIOUS
<1>. QED
  BY <1>1, <1>4, <1>5

LEMMA SequencesAreReal ==
  ASSUME HistoryInv
  PROVE  H!SequenceIsReal
<1>. SUFFICES ASSUME NEW ids \in H!Pairs, NEW w \in Windows
              PROVE  /\ H!SequenceOccurred(ids, w) => H!Happened(ids, w)
                     /\ H!Happened(ids, 0) => H!SequenceOccurred(ids, 0)
  BY DEF H!SequenceIsReal
<1>. DEFINE r == H!Backwards(ids)
<1>1. history \in Seq(Entry)
  BY DEF HistoryInv
<1>2. r \in Found /\ Reached(ids, Len(history), r)
  BY <1>1, BackwardsReaches
<1>3. ids # <<>>
  BY DEF H!Pairs
<1>4. \A i \in DOMAIN history : i > Len(history) - Len(history)
  BY <1>1
<1>. HIDE DEF r
<1>5. ASSUME H!SequenceOccurred(ids, w)
      PROVE  H!Happened(ids, w)
  <2>1. r.next = 0 /\ (w = 0 \/ (r.newest <= w /\ r.oldest - r.newest <= w))
    BY <1>5 DEF H!SequenceOccurred, r
  <2>2. PICK i \in DOMAIN history, j \in DOMAIN history :
          /\ i < j /\ H!Mine(history[i], ids[1]) /\ H!Mine(history[j], ids[2])
          /\ r.newest = history[j].age /\ r.oldest = history[i].age
    BY <1>2, <2>1 DEF Reached
  <2>. QED
    BY <2>1, <2>2 DEF H!Happened
<1>6. ASSUME H!Happened(ids, 0)
      PROVE  H!SequenceOccurred(ids, 0)
  <2>1. PICK i \in DOMAIN history, j \in DOMAIN history :
          i < j /\ H!Mine(history[i], ids[1]) /\ H!Mine(history[j], ids[2])
    BY <1>6 DEF H!Happened
  <2>2. r.next # 2
    BY <1>2, <1>4, <2>1 DEF Reached
  <2>3. ASSUME r.next = 1 PROVE FALSE
    <3>1. PICK k \in DOMAIN history :
          \A m \in DOMAIN history : /\ m > k => ~H!Mine(history[m], ids[2])
                                    /\ m > Len(history) - Len(history) /\ m < k => ~H!Mine(history[m], ids[1])
      BY <1>2, <2>3 DEF Reached
    <3>2. ~(j > k)
      BY <2>1, <3>1
    <3>3. i < k
      BY <1>1, <2>1, <3>2
    <3>. QED
      BY <1>4, <2>1, <3>1, <3>3
  <2>4. r.next = 0
    BY <1>2, <2>2, <2>3 DEF Found
  <2>. QED
    BY <1>3, <2>4 DEF H!SequenceOccurred, r
<1>. QED
  BY <1>5, <1>6

OrderInv ==
  /\ part = "rules" => CallsInv /\ R!CpuAgrees
  /\ part = "history" => HistoryInv

\* LuaRulesEngine.cpp: for boards that report changes only, whatever the handlers
\* do and whichever of them fails, the engine agrees with the boards about the
\* switches, delayed calls run in their order and guarded work once per window;
\* and a sequence of triggers is reported when it happened and in its time.
THEOREM RulesStayInOrder ==
  ASSUME ~RepeatedCloses
  PROVE  RulesSpec => []RulesInOrder
<1>. DEFINE vars_ == <<part, assistVars, ruleVars, historyVars, gameVars, motorVars>>
<1>1. RulesInit => OrderInv
  BY CallsStart, HistoryStarts DEF RulesInit, OrderInv
<1>2. OrderInv /\ [RulesNext]_vars_ => OrderInv'
  <2>. SUFFICES ASSUME OrderInv, [RulesNext]_vars_ PROVE OrderInv'
    OBVIOUS
  <2>1. part' = part
    BY DEF RulesNext
  <2>2. part = "rules" => [R!Next]_ruleVars
    BY DEF RulesNext
  <2>3. part = "history" => [H!Next]_historyVars
    BY DEF RulesNext
  <2>4. part = "rules" => CallsInv' /\ R!CpuAgrees'
    BY <2>2, CallsStep DEF OrderInv
  <2>5. part = "history" => HistoryInv'
    BY <2>3, HistoryStep DEF OrderInv
  <2>. QED
    BY <2>1, <2>4, <2>5 DEF OrderInv
<1>3. OrderInv => RulesInOrder
  <2>1. HistoryInv => H!HistoryForgets
    BY DEF HistoryInv, Aging, Young, H!HistoryForgets
  <2>. QED
    BY <2>1, CallsInOrder, SequencesAreReal DEF OrderInv, RulesInOrder
<1>. QED
  BY <1>1, <1>2, <1>3, PTL DEF RulesSpec

-----------------------------------------------------------------------------
(* The replays *)

\* What GameCoreProofs proves is about its own instance of GameCore, here P; the
\* two instances have the same constants and variables, so that they are the same
\* game once every definition is expanded.
P == INSTANCE GameCoreProofs

LEMMA SameStart == G!Init <=> P!Init
  BY DEF G!Init, P!Init, G!Players, P!Players, G!NoDeadline, P!NoDeadline

LEMMA SameStep == G!Next <=> P!Next
  BY DEF
     G!Next, P!Next, G!MaxTransitionsPerUpdate, P!MaxTransitionsPerUpdate, G!NoDeadline,
     P!NoDeadline, G!Players, P!Players, G!InGameStates, P!InGameStates, G!loop, P!loop, G!switches,
     P!switches, G!trough, P!trough, G!phase, P!phase, G!roster, P!roster, G!records, P!records,
     G!outputs, P!outputs, G!serving, P!serving, G!IsInGame, P!IsInGame, G!TroughSettled,
     P!TroughSettled, G!BallsOut, P!BallsOut, G!DeadlinePassed, P!DeadlinePassed, G!ScoringAllowed,
     P!ScoringAllowed, G!Credited, P!Credited, G!ActivePlayers, P!ActivePlayers, G!At, P!At,
     G!EnterState, P!EnterState, G!KickAttempt, P!KickAttempt, G!ClearTilt, P!ClearTilt, G!SetGameOn,
     P!SetGameOn, G!FinishBall, P!FinishBall, G!BeginGame, P!BeginGame, G!BeginBall, P!BeginBall,
     G!LastBallPlayed, P!LastBallPlayed, G!Turn, P!Turn, G!AdvancePlayer, P!AdvancePlayer,
     G!AwardsUpTo, P!AwardsUpTo, G!StartGame, P!StartGame, G!AddPlayer, P!AddPlayer, G!StartOrAdd,
     P!StartOrAdd, G!Refused, P!Refused, G!HandleStartPressed, P!HandleStartPressed, G!AddCredits,
     P!AddCredits, G!HandleCoin, P!HandleCoin, G!Rules, P!Rules, G!RulesStart, P!RulesStart,
     G!RulesAddCredits, P!RulesAddCredits, G!Tilt, P!Tilt, G!SlamTilt, P!SlamTilt, G!EndBall,
     P!EndBall, G!EndGame, P!EndGame, G!ServeBall, P!ServeBall, G!BonusDone, P!BonusDone, G!AddScore,
     P!AddScore, G!SetScore, P!SetScore, G!AwardExtraBall, P!AwardExtraBall, G!UpdateTroughCount,
     P!UpdateTroughCount, G!EdgesDone, P!EdgesDone, G!Running, P!Running, G!RunAttract, P!RunAttract,
     G!RunGameStarting, P!RunGameStarting, G!RunBallStarting, P!RunBallStarting, G!RunBallInLane,
     P!RunBallInLane, G!RunBallInPlay, P!RunBallInPlay, G!Chatter, P!Chatter, G!RunBallDraining,
     P!RunBallDraining, G!RunBallEnding, P!RunBallEnding, G!RunBonusCount, P!RunBonusCount,
     G!RunGameEnding, P!RunGameEnding, G!RunGameOver, P!RunGameOver, G!RunStateMachine,
     P!RunStateMachine, G!Pass, P!Pass, G!Update, P!Update, G!OnSwitch, P!OnSwitch, G!Tick, P!Tick,
     G!RulesCall, P!RulesCall, G!Cardinality, P!Cardinality

LEMMA SameReplays ==
  ASSUME \A k \in 1 .. Len(Thresholds) : Thresholds[k] > 0
  PROVE  P!Spec => []G!ReplaysAwarded
<1>1. P!ReplaysAwarded <=> G!ReplaysAwarded
  BY DEF P!ReplaysAwarded, G!ReplaysAwarded, P!ActivePlayers, G!ActivePlayers
<1>2. P!Spec => []P!ReplaysAwarded
  BY ScoresAssumption, P!ReplaysAreAwarded
     DEF G!ConfigAssumption, G!TimingAssumption, G!ScoreAssumption, P!CommandNames, G!CommandNames
<1> QED
  BY <1>1, <1>2, PTL

\* The part of MCRules that is about the score behaves as a game does, so that
\* every threshold that a score reaches is awarded (GameCore.cpp, AddScore and
\* CheckReplay), for every list of positive thresholds.
THEOREM ScoresAreRewarded ==
  ASSUME \A k \in 1 .. Len(Thresholds) : Thresholds[k] > 0
  PROVE  RulesSpec => []ReplaysAwarded
<1>1. RulesInit /\ part = "score" => P!Init
  BY SameStart DEF RulesInit
<1>2. part = "score" /\ [RulesNext]_<<part, assistVars, ruleVars, historyVars, gameVars, motorVars>>
        => (part = "score")' /\ [P!Next]_P!vars
  <2> SUFFICES ASSUME part = "score",
                      [RulesNext]_<<part, assistVars, ruleVars, historyVars, gameVars, motorVars>>
               PROVE  part' = "score" /\ (P!Next \/ UNCHANGED P!vars)
    OBVIOUS
  <2>1. part' = "score" /\ (G!Next \/ UNCHANGED gameVars)
    BY DEF RulesNext
  <2>2. UNCHANGED gameVars => UNCHANGED P!vars
    BY DEF gameVars, P!vars, P!loop, P!switches, P!trough, P!phase, P!roster, P!records, P!serving, P!outputs
  <2> QED
    BY <2>1, <2>2, SameStep
<1>3. ~(part = "score") /\ [RulesNext]_<<part, assistVars, ruleVars, historyVars, gameVars, motorVars>>
        => ~(part = "score")'
  BY DEF RulesNext
<1>4. ReplaysAwarded <=> (part = "score" => G!ReplaysAwarded)
  BY DEF ReplaysAwarded
<1>5. P!Spec => []G!ReplaysAwarded
  BY SameReplays
<1>6. P!Spec <=> P!Init /\ [][P!Next]_P!vars
  BY DEF P!Spec
<1> QED
  BY <1>1, <1>2, <1>3, <1>4, <1>5, <1>6, PTL DEF RulesSpec

-----------------------------------------------------------------------------
(* The speed of a motor *)

\* A ROM does not start a motor again within what two windows may last.
LongRests == Rest >= 2 * MaxLate - 1

Ticks == [low : 0 .. Rate, high : 0 .. Rate]

MotorType ==
  /\ D!TypeOK
  /\ ran \in [now : Ticks, last : Ticks] /\ told \in Ticks

\* A motor that runs has just run or has rested for long enough.
MotorRests == motor > 0 => rested \in {0, Rest}

NotLooked == age = -1 => before = 0 /\ middle = 0 /\ lastSent = -1

\* What the mech counts lies between the slowest and the fastest tick.
WindowCounts ==
  age # -1 =>
    /\ age = 0 => ran.now = D!Nothing
    /\ age > 0 => ran.now.low <= ran.now.high
    /\ ran.now.low * age <= moved /\ moved <= ran.now.high * age

\* A window between two in which the motor ran has no tick at rest: a motor that
\* ran in the last window and came to rest does not start again in this one.
WindowRuns ==
  age # -1 =>
    /\ ran.now.high > 0 => rested <= age - 1
    /\ ran.now.low > 0 /\ age > 0 => rested = 0
    /\ middle > 0 => /\ ran.now.high = 0 => rested <= MaxLate - 1 + age
                     /\ ran.now.low = 0 => rested >= 1
    /\ before > 0 /\ middle > 0 /\ ran.last.low = 0 => ran.now.high = 0 /\ rested >= 1

MiddleIsReal == middle > 0 => D!Duty(ran.last.low, 1) <= middle /\ middle <= D!Duty(ran.last.high, 1)

MotorInv ==
  MotorType /\ MotorRests /\ NotLooked /\ WindowCounts /\ WindowRuns /\ MiddleIsReal /\ D!SpeedIsReal

LEMMA Divided ==
  ASSUME NEW x \in Nat, NEW y \in Nat \ {0}
  PROVE  x \div y \in Nat /\ (x \div y) * y <= x /\ x < (x \div y) * y + y
  OBVIOUS

LEMMA Quotient ==
  ASSUME NEW x \in Nat, NEW y \in Nat \ {0}, NEW q \in Nat, q * y <= x
  PROVE  q <= x \div y
<1> DEFINE d == x \div y
<1>1. d \in Nat /\ d * y <= x /\ x < d * y + y
  BY Divided
<1> HIDE DEF d
<1> SUFFICES ASSUME ~(q <= d) PROVE FALSE
  BY DEF d
<1>2. q >= d + 1
  BY <1>1
<1>3. q * y >= (d + 1) * y
  BY <1>1, <1>2
<1>4. (d + 1) * y = d * y + y
  BY <1>1
<1> QED
  BY <1>1, <1>3, <1>4

\* The share is rounded before it is cut off at the full scale.
Share(m, a) == (m * Scale + (a * Rate) \div 2) \div (a * Rate)

LEMMA DutyShares ==
  ASSUME NEW m \in Nat, NEW a \in Nat \ {0}
  PROVE  /\ Share(m, a) \in Nat
         /\ Share(m, a) * (a * Rate) <= m * Scale + (a * Rate) \div 2
         /\ m * Scale + (a * Rate) \div 2 < Share(m, a) * (a * Rate) + a * Rate
         /\ D!Duty(m, a) = IF Share(m, a) < Scale THEN Share(m, a) ELSE Scale
         /\ D!Duty(m, a) \in 0 .. Scale
<1> DEFINE possible == a * Rate
           x == m * Scale + possible \div 2
<1>1. Rate \in Nat \ {0} /\ Scale \in Nat
  BY MotorAssumption DEF D!SpeedAssumption
<1>2. possible \in Nat \ {0}
  BY <1>1
<1>3. x \in Nat
  <2>1. m * Scale \in Nat
    BY <1>1
  <2> HIDE DEF possible
  <2>2. possible \div 2 \in Nat
    BY <1>2
  <2> QED
    BY <2>1, <2>2
<1>4. D!Duty(m, a) = IF Share(m, a) < Scale THEN Share(m, a) ELSE Scale
  <2>1. (IF possible < 1 THEN 1 ELSE possible) = possible
    BY <1>2
  <2> QED
    BY <2>1 DEF D!Duty, D!Least, D!Most, Share
<1>5. Share(m, a) = x \div possible
  BY DEF Share
<1> HIDE DEF x, possible
<1>6. x \div possible \in Nat /\ (x \div possible) * possible <= x /\ x < (x \div possible) * possible + possible
  BY <1>2, <1>3, Divided
<1>7. D!Duty(m, a) \in 0 .. Scale
  BY <1>1, <1>4, <1>5, <1>6
<1>8. /\ Share(m, a) \in Nat /\ Share(m, a) * possible <= x /\ x < Share(m, a) * possible + possible
  BY <1>5, <1>6
<1> QED
  BY <1>4, <1>7, <1>8 DEF x, possible

LEMMA DutyOfRest == ASSUME NEW a \in Nat \ {0} PROVE D!Duty(0, a) = 0
<1> DEFINE possible == a * Rate
           s == Share(0, a)
<1>1. Rate \in Nat \ {0} /\ Scale \in Nat
  BY MotorAssumption DEF D!SpeedAssumption
<1>2. possible \in Nat \ {0}
  BY <1>1
<1>3. /\ s \in Nat /\ s * possible <= 0 * Scale + possible \div 2
      /\ D!Duty(0, a) = IF s < Scale THEN s ELSE Scale
  BY DutyShares
<1> HIDE DEF s, possible
<1>4. s * possible <= possible \div 2 /\ possible \div 2 < possible
  BY <1>1, <1>2, <1>3
<1>5. s = 0
  <2> SUFFICES ASSUME s >= 1 PROVE FALSE
    BY <1>3
  <2>1. s * possible >= 1 * possible
    BY <1>2, <1>3
  <2> QED
    BY <1>2, <1>3, <1>4, <2>1
<1> QED
  BY <1>1, <1>3, <1>5

\* The speed of a window lies between those of its slowest and its fastest tick.
LEMMA DutyBetween ==
  ASSUME NEW low \in Nat, NEW high \in Nat, NEW m \in Nat, NEW a \in Nat \ {0}, low * a <= m, m <= high * a
  PROVE  D!Duty(low, 1) <= D!Duty(m, a) /\ D!Duty(m, a) <= D!Duty(high, 1)
<1> DEFINE h == Rate \div 2
           hh == (a * Rate) \div 2
<1>1. Rate \in Nat \ {0} /\ Scale \in Nat
  BY MotorAssumption DEF D!SpeedAssumption
<1>2. a * Rate \in Nat \ {0} /\ 1 * Rate = Rate /\ 1 \in Nat \ {0}
  BY <1>1
<1>3. h \in Nat /\ 2 * h <= Rate /\ Rate <= 2 * h + 1
  BY <1>1
<1>4. hh \in Nat /\ 2 * hh <= a * Rate /\ a * Rate <= 2 * hh + 1
  <2> DEFINE r == a * Rate
  <2>1. r \in Nat
    BY <1>2
  <2> HIDE DEF r
  <2>2. r \div 2 \in Nat /\ 2 * (r \div 2) <= r /\ r <= 2 * (r \div 2) + 1
    BY <2>1
  <2> QED
    BY <2>2 DEF r
<1>5. \A k \in Nat : /\ Share(k, 1) \in Nat /\ Share(k, 1) * Rate <= k * Scale + h
                     /\ D!Duty(k, 1) = IF Share(k, 1) < Scale THEN Share(k, 1) ELSE Scale
                     /\ Share(k, 1) = (k * Scale + h) \div Rate
  <2> TAKE k \in Nat
  <2>1. /\ Share(k, 1) \in Nat
        /\ Share(k, 1) * (1 * Rate) <= k * Scale + (1 * Rate) \div 2
        /\ D!Duty(k, 1) = IF Share(k, 1) < Scale THEN Share(k, 1) ELSE Scale
    BY <1>2, DutyShares
  <2>2. Share(k, 1) = (k * Scale + (1 * Rate) \div 2) \div (1 * Rate)
    BY DEF Share
  <2> QED
    BY <1>2, <2>1, <2>2
<1>6. /\ Share(m, a) \in Nat /\ Share(m, a) * (a * Rate) <= m * Scale + hh
      /\ D!Duty(m, a) = IF Share(m, a) < Scale THEN Share(m, a) ELSE Scale
      /\ Share(m, a) = (m * Scale + hh) \div (a * Rate)
  BY DutyShares DEF Share
<1> HIDE DEF h, hh
<1>7. Share(low, 1) <= Share(m, a)
  <2> DEFINE q == Share(low, 1)
  <2>1. q \in Nat /\ q * Rate <= low * Scale + h
    BY <1>5
  <2> HIDE DEF q
  <2>2. a * (q * Rate) <= a * (low * Scale + h)
    <3>1. q * Rate \in Nat /\ low * Scale + h \in Nat
      BY <1>1, <1>3, <2>1
    <3> QED
      BY <2>1, <3>1
  <2>3. a * (low * Scale + h) = (low * a) * Scale + a * h
    BY <1>1, <1>3
  <2>4. (low * a) * Scale <= m * Scale
    BY <1>1
  <2>5. a * h <= hh
    <3>1. a * (2 * h) <= a * Rate
      BY <1>1, <1>3
    <3>2. a * (2 * h) = 2 * (a * h) /\ a * h \in Nat
      BY <1>3
    <3> QED
      BY <1>2, <1>4, <3>1, <3>2
  <2>6. a * (q * Rate) = q * (a * Rate)
    BY <1>1, <2>1
  <2>7. q * (a * Rate) <= m * Scale + hh
    <3>1. a * (q * Rate) \in Nat /\ (low * a) * Scale \in Nat /\ a * h \in Nat /\ m * Scale \in Nat
      BY <1>1, <1>3, <2>1
    <3> QED
      BY <1>4, <2>2, <2>3, <2>4, <2>5, <2>6, <3>1
  <2>8. m * Scale + hh \in Nat
    BY <1>1, <1>4
  <2>9. q <= (m * Scale + hh) \div (a * Rate)
    BY <1>2, <2>1, <2>7, <2>8, Quotient
  <2> QED
    BY <1>6, <2>9 DEF q
<1>8. Share(m, a) <= Share(high, 1)
  <2> DEFINE q == Share(m, a)
  <2>1. q \in Nat /\ q * (a * Rate) <= m * Scale + hh
    BY <1>6
  <2> HIDE DEF q
  <2>2. m * Scale <= (high * a) * Scale
    BY <1>1
  <2>3. a * (q * Rate) = q * (a * Rate) /\ (high * a) * Scale = a * (high * Scale)
    BY <1>1, <2>1
  <2>4. q * Rate \in Nat /\ high * Scale \in Nat /\ m * Scale \in Nat
    BY <1>1, <2>1
  <2>5. q * Rate <= high * Scale + h
    <3> SUFFICES ASSUME q * Rate >= high * Scale + h + 1 PROVE FALSE
      BY <1>3, <2>4
    <3> DEFINE X == q * Rate
               Y == high * Scale
    <3>1. X \in Nat /\ Y \in Nat /\ X >= Y + h + 1
      BY <2>4
    <3>2. a * X <= a * Y + hh
      BY <1>4, <2>1, <2>2, <2>3, <2>4
    <3> HIDE DEF X, Y
    <3>3. a * X >= a * (Y + h + 1)
      BY <1>3, <3>1
    <3>4. a * (Y + h + 1) = a * Y + a * (h + 1) /\ a * Y \in Nat
      BY <1>3, <3>1
    <3>5. a * (h + 1) <= hh
      BY <1>3, <1>4, <3>1, <3>2, <3>3, <3>4
    <3>6. a * (2 * h + 2) = 2 * (a * (h + 1)) /\ a * (h + 1) \in Nat
      BY <1>3
    <3>7. a * (2 * h + 2) <= a * Rate
      BY <1>2, <1>4, <3>5, <3>6
    <3>8. a * (2 * h + 2) >= a * (Rate + 1) /\ a * (Rate + 1) = a * Rate + a
      BY <1>1, <1>3
    <3> QED
      BY <1>1, <1>2, <1>3, <3>7, <3>8
  <2>6. high * Scale + h \in Nat
    BY <1>3, <2>4
  <2>7. q <= (high * Scale + h) \div Rate
    BY <1>1, <2>1, <2>5, <2>6, Quotient
  <2> QED
    BY <1>5, <2>7 DEF q
<1> QED
  BY <1>1, <1>5, <1>6, <1>7, <1>8

LEMMA MotorFacts ==
  ASSUME MotorType
  PROVE  /\ Rate \in Nat \ {0} /\ Window \in Nat \ {0} /\ MaxLate \in Nat /\ Window <= MaxLate /\ Rate * MaxLate < MechRange
         /\ MechRange \in Nat /\ Rest \in Nat /\ Repeat \in Nat /\ Scale \in Nat
         /\ motor \in Speeds \cup {0} /\ motor \in 0 .. Rate /\ rested \in 0 .. Rest /\ moved \in Nat
         /\ age \in -1 .. MaxLate
         /\ ran.now.low \in 0 .. Rate /\ ran.now.high \in 0 .. Rate
         /\ ran.last.low \in 0 .. Rate /\ ran.last.high \in 0 .. Rate
         /\ D!Nothing \in Ticks /\ D!Nothing.low = Rate /\ D!Nothing.high = 0
<1>1. /\ Rate \in Nat \ {0} /\ Window \in Nat \ {0} /\ MaxLate \in Nat /\ Window <= MaxLate /\ Rate * MaxLate < MechRange
      /\ MechRange \in Nat /\ Rest \in Nat /\ Repeat \in Nat /\ Scale \in Nat /\ Speeds \subseteq 1 .. Rate
  BY MotorAssumption DEF D!SpeedAssumption
<1>2. motor \in Speeds \cup {0} /\ motor \in 0 .. Rate /\ rested \in 0 .. Rest /\ moved \in Nat /\ age \in -1 .. MaxLate
  BY <1>1 DEF MotorType, D!TypeOK, D!NotStarted
<1>3. /\ ran.now.low \in 0 .. Rate /\ ran.now.high \in 0 .. Rate
      /\ ran.last.low \in 0 .. Rate /\ ran.last.high \in 0 .. Rate
  BY DEF MotorType, Ticks
<1>4. D!Nothing \in Ticks /\ D!Nothing.low = Rate /\ D!Nothing.high = 0
  BY <1>1 DEF D!Nothing, Ticks
<1> QED
  BY <1>1, <1>2, <1>3, <1>4

LEMMA MotorStart == D!Init => MotorInv
<1> SUFFICES ASSUME D!Init PROVE MotorInv
  OBVIOUS
<1>1. /\ motor = 0 /\ rested = Rest /\ moved = 0 /\ age = -1 /\ before = 0 /\ middle = 0 /\ lastSent = -1 /\ sentAge = 0
      /\ scale \in {0, Scale} /\ lost = 0
      /\ ran = [now |-> D!Nothing, last |-> D!Nothing] /\ told = D!Nothing
  BY DEF D!Init, D!NotStarted, D!NotSent
<1>2. MotorType
  <2>1. /\ Rate \in Nat \ {0} /\ MaxLate \in Nat /\ MechRange \in Nat /\ Rest \in Nat /\ Repeat \in Nat /\ Scale \in Nat
        /\ Rate * MaxLate < MechRange /\ MaxLost \in Nat
    BY MotorAssumption DEF D!SpeedAssumption
  <2>2. 0 < MechRange
    <3>1. Rate * MaxLate \in Nat
      BY <2>1
    <3> QED
      BY <2>1, <3>1
  <2>3. D!TypeOK
    BY <1>1, <2>1, <2>2 DEF D!TypeOK, D!NotStarted, D!NotSent
  <2>4. D!Nothing \in Ticks
    BY <2>1 DEF D!Nothing, Ticks
  <2> QED
    BY <1>1, <2>3, <2>4 DEF MotorType
<1> QED
  BY <1>1, <1>2 DEF MotorInv, MotorRests, NotLooked, WindowCounts, WindowRuns, MiddleIsReal, D!SpeedIsReal, D!NotSent

LEMMA DrivesReal == ASSUME MotorInv, NEW speed \in Speeds \cup {0}, D!Drive(speed) PROVE MotorInv'
<1> USE DEF MotorInv
<1>1. /\ motor' = speed /\ (motor = 0 => rested = Rest) /\ rested' = rested /\ moved' = moved /\ age' = age
      /\ before' = before /\ middle' = middle /\ lastSent' = lastSent /\ sentAge' = sentAge
      /\ scale' = scale /\ lost' = lost /\ ran' = ran /\ told' = told
  BY DEF D!Drive
<1>2. MotorType'
  BY <1>1 DEF MotorType, D!TypeOK
<1>3. MotorRests'
  BY <1>1, MotorFacts DEF MotorRests
<1>4. NotLooked' /\ WindowCounts' /\ WindowRuns' /\ MiddleIsReal'
  BY <1>1 DEF NotLooked, WindowCounts, WindowRuns, MiddleIsReal
<1>5. D!SpeedIsReal'
  BY <1>1 DEF D!SpeedIsReal
<1> QED
  BY <1>2, <1>3, <1>4, <1>5

LEMMA TicksReal == ASSUME LongRests, MotorInv, D!Tick PROVE MotorInv'
<1> USE DEF MotorInv
<1> DEFINE low == ran.now.low
           high == ran.now.high
<1>1. /\ age < MaxLate
      /\ moved' = (moved + motor) % MechRange
      /\ age' = (IF age = -1 THEN age ELSE age + 1)
      /\ sentAge' = (IF sentAge + 1 < Repeat THEN sentAge + 1 ELSE Repeat)
      /\ rested' = (IF motor > 0 THEN 0 ELSE IF rested + 1 < Rest THEN rested + 1 ELSE Rest)
      /\ motor' = motor /\ before' = before /\ middle' = middle /\ lastSent' = lastSent
      /\ scale' = scale /\ lost' = lost /\ told' = told
  BY DEF D!Tick, D!Least, D!NotStarted
<1>2. /\ Rate \in Nat \ {0} /\ MaxLate \in Nat /\ Rate * MaxLate < MechRange /\ MechRange \in Nat /\ Rest \in Nat
      /\ Repeat \in Nat /\ motor \in Speeds \cup {0} /\ motor \in 0 .. Rate /\ rested \in 0 .. Rest /\ moved \in Nat
      /\ age \in -1 .. MaxLate /\ low \in 0 .. Rate /\ high \in 0 .. Rate
      /\ D!Nothing.low = Rate /\ D!Nothing.high = 0
  BY MotorFacts
<1>3. /\ ran'.last = ran.last
      /\ ran'.now = [low |-> IF low < motor THEN low ELSE motor, high |-> IF high < motor THEN motor ELSE high]
      /\ ran' \in [now : Ticks, last : Ticks]
  <2> DEFINE n == [low |-> IF low < motor THEN low ELSE motor, high |-> IF high < motor THEN motor ELSE high]
  <2>1. n \in Ticks
    BY <1>2 DEF Ticks
  <2>2. ran \in [now : Ticks, last : Ticks]
    BY DEF MotorType
  <2>3. ran' = [ran EXCEPT !.now = n]
    <3>1. ran.now \in Ticks
      BY <2>2
    <3> QED
      BY <2>2, <3>1 DEF D!Tick, D!Least, D!Most, Ticks
  <2> HIDE DEF n
  <2>4. ran'.last = ran.last /\ ran'.now = n /\ ran' \in [now : Ticks, last : Ticks]
    BY <2>1, <2>2, <2>3
  <2> QED
    BY <2>4 DEF n
<1>4. /\ ran'.now.low = (IF low < motor THEN low ELSE motor)
      /\ ran'.now.high = (IF high < motor THEN motor ELSE high)
  BY <1>3
<1> HIDE DEF low, high
<1>5. MotorType'
  <2>1. moved' \in 0 .. MechRange - 1
    BY <1>1, <1>2
  <2>2. D!TypeOK'
    BY <1>1, <1>2, <2>1 DEF MotorType, D!TypeOK, D!NotStarted
  <2> QED
    BY <1>1, <1>3, <2>2 DEF MotorType
<1>6. MotorRests' /\ NotLooked' /\ MiddleIsReal'
  BY <1>1, <1>2, <1>3 DEF MotorRests, NotLooked, MiddleIsReal
<1>7. D!SpeedIsReal'
  BY <1>1 DEF D!SpeedIsReal
<1>8. CASE age = -1
  BY <1>1, <1>5, <1>6, <1>7, <1>8 DEF WindowCounts, WindowRuns
<1>9. CASE age # -1
  <2>1. /\ age' = age + 1 /\ age \in 0 .. MaxLate - 1
        /\ (age = 0 => low = Rate /\ high = 0) /\ (age > 0 => low <= high)
        /\ low * age <= moved /\ moved <= high * age
    BY <1>1, <1>2, <1>9 DEF WindowCounts, low, high
  <2>2. moved' = moved + motor
    <3>1. high * age <= Rate * age
      BY <1>2, <2>1
    <3>2. Rate * age + Rate = Rate * (age + 1) /\ Rate * (age + 1) <= Rate * MaxLate
      BY <1>2, <2>1
    <3>3. high * age \in Nat /\ Rate * age \in Nat /\ Rate * MaxLate \in Nat
      BY <1>2, <2>1
    <3>4. moved + motor \in Nat /\ moved + motor < MechRange
      BY <1>2, <2>1, <3>1, <3>2, <3>3
    <3> QED
      BY <1>1, <1>2, <3>4
  <2>3. WindowCounts'
    <3> DEFINE l == ran'.now.low
               g == ran'.now.high
    <3>1. l <= low /\ l <= motor /\ high <= g /\ motor <= g /\ l \in Nat /\ g \in Nat
      BY <1>2, <1>4
    <3> HIDE DEF l, g
    <3>2. l * age <= low * age /\ high * age <= g * age /\ l * age \in Nat /\ g * age \in Nat
          /\ low * age \in Nat /\ high * age \in Nat
      BY <1>2, <2>1, <3>1
    <3>3. l * (age + 1) = l * age + l /\ g * (age + 1) = g * age + g
      BY <2>1, <3>1
    <3>4. l * age' <= moved' /\ moved' <= g * age' /\ l <= g /\ age' # 0
      BY <1>2, <2>1, <2>2, <3>1, <3>2, <3>3
    <3> QED
      BY <3>4 DEF WindowCounts, l, g
  <2>4. /\ high > 0 => rested <= age - 1
        /\ low > 0 /\ age > 0 => rested = 0
        /\ middle > 0 => (high = 0 => rested <= MaxLate - 1 + age) /\ (low = 0 => rested >= 1)
        /\ before > 0 /\ middle > 0 /\ ran.last.low = 0 => high = 0 /\ rested >= 1
    BY <1>9 DEF WindowRuns, low, high
  <2>5. motor > 0 => rested = 0 \/ rested = Rest
    BY DEF MotorRests
  <2>6. Rest >= 2 * MaxLate - 1 /\ middle \in Int
    BY DEF LongRests, MotorType, D!TypeOK
  <2>7. CASE motor > 0
    <3>1. rested' = 0
      BY <1>1, <2>7
    <3>2. ran'.now.high > 0 /\ (ran'.now.low = 0 => low = 0)
      BY <1>2, <1>4, <2>7
    <3>3. middle > 0 => low # 0
      BY <1>2, <2>1, <2>4, <2>5, <2>6, <2>7
    <3>4. ~(before > 0 /\ middle > 0 /\ ran.last.low = 0)
      BY <1>2, <2>1, <2>4, <2>5, <2>6, <2>7
    <3> QED
      BY <1>1, <1>2, <1>3, <1>4, <2>1, <3>1, <3>2, <3>3, <3>4, <1>5, <1>6, <1>7, <2>3 DEF WindowRuns
  <2>8. CASE motor = 0
    <3>1. /\ rested' <= rested + 1 /\ rested' >= 1
          /\ ran'.now.low = 0 /\ ran'.now.high = high
      BY <1>1, <1>2, <1>4, <2>1, <2>6, <2>8
    <3>2. high > 0 => age > 0
      BY <1>2, <2>1
    <3> QED
      BY <1>1, <1>2, <1>3, <1>5, <1>6, <1>7, <2>1, <2>3, <2>4, <2>6, <3>1, <3>2 DEF WindowRuns
  <2> QED
    BY <1>2, <2>7, <2>8
<1> QED
  BY <1>8, <1>9

LEMMA UpdatesReal == ASSUME MotorInv, D!Update PROVE MotorInv'
<1> USE DEF MotorInv
<1> DEFINE duty == D!Duty(moved, age)
           measured == D!Measured(duty)
           told_now == measured > 0 /\ D!Differs(measured)
<1>1. /\ Rate \in Nat \ {0} /\ Window \in Nat \ {0} /\ MaxLate \in Nat /\ Window <= MaxLate /\ Rate * MaxLate < MechRange
      /\ MechRange \in Nat /\ Rest \in Nat /\ Repeat \in Nat /\ Scale \in Nat
      /\ motor \in Speeds \cup {0} /\ motor \in 0 .. Rate /\ rested \in 0 .. Rest /\ moved \in Nat
      /\ age \in -1 .. MaxLate
      /\ ran.now.low \in 0 .. Rate /\ ran.now.high \in 0 .. Rate
      /\ ran.last.low \in 0 .. Rate /\ ran.last.high \in 0 .. Rate
      /\ D!Nothing \in Ticks /\ D!Nothing.low = Rate /\ D!Nothing.high = 0
  BY MotorFacts
<1>2. /\ before \in 0 .. Scale /\ middle \in 0 .. Scale /\ lastSent \in {-1} \cup 1 .. Scale
      /\ sentAge \in 0 .. Repeat /\ scale \in 0 .. Scale /\ lost \in 0 .. MaxLost /\ MaxLost \in Nat
      /\ ran \in [now : Ticks, last : Ticks] /\ told \in Ticks
  BY MotorAssumption DEF MotorType, D!TypeOK, D!NotSent, D!SpeedAssumption
<1>3. 0 \in 0 .. MechRange - 1
  <2>1. Rate * MaxLate \in Nat
    BY <1>1
  <2> QED
    BY <1>1, <2>1
<1>4. CASE age = -1
  <2>1. /\ age' = 0 /\ moved' = 0 /\ ran' = [ran EXCEPT !.now = D!Nothing]
        /\ motor' = motor /\ rested' = rested /\ before' = before /\ middle' = middle /\ lastSent' = lastSent
        /\ sentAge' = sentAge /\ scale' = scale /\ lost' = lost /\ told' = told
    BY <1>1, <1>4 DEF D!Update, D!NotStarted
  <2>2. ran'.now = D!Nothing /\ ran'.last = ran.last /\ ran' \in [now : Ticks, last : Ticks]
    BY <1>1, <1>2, <2>1
  <2>3. MotorType'
    BY <1>1, <1>2, <1>3, <2>1, <2>2 DEF MotorType, D!TypeOK, D!NotStarted, D!NotSent
  <2>4. before = 0 /\ middle = 0 /\ lastSent = -1
    BY <1>4 DEF NotLooked
  <2>5. MotorRests' /\ NotLooked' /\ WindowCounts' /\ WindowRuns' /\ MiddleIsReal'
    BY <1>1, <2>1, <2>2, <2>4 DEF MotorRests, NotLooked, WindowCounts, WindowRuns, MiddleIsReal
  <2>6. D!SpeedIsReal'
    BY <2>1, <2>4 DEF D!SpeedIsReal, D!NotSent
  <2> QED
    BY <2>3, <2>5, <2>6
<1>5. CASE age # -1
  <2>1. /\ age >= Window
        /\ \/ told_now /\ D!Send(measured) /\ told' = ran.last
           \/ ~told_now /\ D!Repeats(duty) /\ D!Send(lastSent) /\ told' = told
           \/ ~told_now /\ ~D!Repeats(duty) /\ UNCHANGED <<lastSent, sentAge, scale, lost, told>>
        /\ before' = middle /\ middle' = duty /\ moved' = 0 /\ age' = 0
        /\ ran' = [now |-> D!Nothing, last |-> ran.now]
        /\ motor' = motor /\ rested' = rested
    BY <1>5 DEF D!Update, D!NotStarted
  <2>2. age \in Nat \ {0}
    BY <1>1, <2>1
  <2>3. duty \in 0 .. Scale
    BY <1>1, <2>2, DutyShares
  <2>4. /\ ran.now.low * age <= moved /\ moved <= ran.now.high * age /\ ran.now.low <= ran.now.high
    BY <1>5, <2>2 DEF WindowCounts
  <2>5. D!Duty(ran.now.low, 1) <= duty /\ duty <= D!Duty(ran.now.high, 1)
    BY <1>1, <2>2, <2>4, DutyBetween
\* A motor that was seen to run has run.
  <2>6. duty > 0 => ran.now.high > 0
    <3> SUFFICES ASSUME ran.now.high = 0 PROVE duty = 0
      BY <1>1, <2>3
    <3>1. moved = 0
      BY <1>1, <2>2, <2>4
    <3> QED
      BY <2>2, <3>1, DutyOfRest
  <2>7. measured = (IF before > 0 /\ duty > 0 THEN middle ELSE 0)
    BY DEF D!Measured
  <2> HIDE DEF duty, measured
  <2>8. /\ ran.now.high > 0 => rested <= age - 1
        /\ middle > 0 => (ran.now.high = 0 => rested <= MaxLate - 1 + age) /\ (ran.now.low = 0 => rested >= 1)
        /\ before > 0 /\ middle > 0 /\ ran.last.low = 0 => ran.now.high = 0 /\ rested >= 1
    BY <1>5 DEF WindowRuns
  <2>9. ran'.now = D!Nothing /\ ran'.last = ran.now /\ ran' \in [now : Ticks, last : Ticks] /\ ran.last \in Ticks
    BY <1>1, <1>2, <2>1
  <2>10. (lastSent' = measured /\ measured > 0) \/ lastSent' = lastSent
    BY <2>1 DEF D!Send
  <2>11. MotorType'
    <3>1. lastSent' \in {-1} \cup 1 .. Scale
      BY <1>1, <1>2, <2>3, <2>7, <2>10
    <3>2. lost' \in 0 .. MaxLost /\ sentAge' \in 0 .. Repeat
      BY <1>1, <1>2, <2>1 DEF D!Send
    <3>3. scale' \in 0 .. Scale
      <4>1. CASE told_now /\ D!Send(measured)
        BY <1>1, <1>2, <2>7, <4>1 DEF D!Send
      <4>2. CASE D!Repeats(duty) /\ D!Send(lastSent)
        BY <1>1, <1>2, <4>2 DEF D!Send, D!Repeats, D!NotSent
      <4>3. CASE UNCHANGED scale
        BY <1>2, <4>3
      <4> QED
        BY <2>1, <4>1, <4>2, <4>3
    <3>4. told' \in Ticks
      BY <1>2, <2>1, <2>9
    <3> QED
      BY <1>1, <1>2, <1>3, <2>1, <2>3, <2>9, <3>1, <3>2, <3>3, <3>4
         DEF MotorType, D!TypeOK, D!NotStarted, D!NotSent
  <2>12. MotorRests' /\ NotLooked' /\ WindowCounts'
    BY <1>1, <2>1, <2>9 DEF MotorRests, NotLooked, WindowCounts
  <2>13. WindowRuns'
    <3>1. middle' > 0 => rested' <= MaxLate - 1 + age'
      BY <1>1, <2>1, <2>2, <2>3, <2>6, <2>8
    <3>2. before' > 0 /\ middle' > 0 /\ ran'.last.low = 0 => rested' >= 1
      BY <2>1, <2>8, <2>9
    <3> QED
      BY <1>1, <2>1, <2>9, <3>1, <3>2 DEF WindowRuns
  <2>14. MiddleIsReal'
    BY <2>1, <2>5, <2>9 DEF MiddleIsReal
  <2>15. D!SpeedIsReal'
    <3>1. CASE told_now /\ D!Send(measured) /\ told' = ran.last
      <4>1. lastSent' = measured /\ measured = middle /\ before > 0 /\ duty > 0 /\ middle > 0
        BY <1>1, <1>2, <2>3, <2>7, <3>1 DEF D!Send
      <4>2. ran.last.low > 0
        BY <1>1, <2>6, <2>8, <4>1
      <4>3. D!Duty(ran.last.low, 1) <= middle /\ middle <= D!Duty(ran.last.high, 1)
        BY <4>1 DEF MiddleIsReal
      <4>4. lastSent' = middle /\ told' = ran.last
        BY <3>1, <4>1
      <4> QED
        BY <4>2, <4>3, <4>4 DEF D!SpeedIsReal
    <3>2. CASE lastSent' = lastSent /\ told' = told
      BY <3>2 DEF D!SpeedIsReal
    <3> QED
      BY <2>1, <3>1, <3>2 DEF D!Send
  <2> QED
    BY <2>11, <2>12, <2>13, <2>14, <2>15
<1> QED
  BY <1>4, <1>5

LEMMA MotorStep ==
  ASSUME LongRests, MotorInv, D!Next \/ UNCHANGED motorVars PROVE MotorInv'
<1>1. CASE UNCHANGED motorVars
  BY <1>1 DEF motorVars, MotorInv, MotorType, MotorRests, NotLooked, WindowCounts, WindowRuns, MiddleIsReal,
     D!TypeOK, D!SpeedIsReal
<1> QED
  BY <1>1, UpdatesReal, TicksReal, DrivesReal DEF D!Next

\* RomSpeedTracker.cpp: whatever the ROM does with a motor that it lets rest for two
\* windows, however late the loop is and whichever frames get lost, no speed is told
\* that the motor did not run at.
THEOREM SpeedsAreReal ==
  ASSUME LongRests
  PROVE  RulesSpec => [](part = "motor" => D!TypeOK /\ D!SpeedIsReal)
<1> DEFINE Inv == part = "motor" => MotorInv
<1>1. RulesInit => Inv
  BY MotorStart DEF RulesInit
<1>2. Inv /\ [RulesNext]_<<part, assistVars, ruleVars, historyVars, gameVars, motorVars>> => Inv'
  BY MotorStep DEF RulesNext
<1>3. Inv => (part = "motor" => D!TypeOK /\ D!SpeedIsReal)
  BY DEF MotorInv, MotorType
<1> QED
  BY <1>1, <1>2, <1>3, PTL DEF RulesSpec
=============================================================================
