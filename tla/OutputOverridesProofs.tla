------------------------ MODULE OutputOverridesProofs ------------------------
(***************************************************************************)
(* What holds of OutputOverrides for every set of coils and lamps, every   *)
(* round of the ball search and every duration: a pulse holds its coil,    *)
(* overrides give the output back, and no coil stays on unattended.        *)
(***************************************************************************)
EXTENDS OutputOverrides, TLAPS

USE OutputsAssumption

(* The engine's thread has at most one answer in hand, and apart from it   *)
(* the interceptor's record of a coil is what the engine asked for last.   *)
AsksAgree ==
  /\ asked # NoAsk => wanted[asked.coil] = asked.value
  /\ \A c \in Coils : asked.coil # c => engineCoils[c] = wanted[c]

(* What the overrides keep whatever a rule refuses.                        *)
Kept == TypeOK /\ AsksAgree /\ IntentRestored /\ PulseHolds

(* A coil the search drives is one of its steps. *)
LEMMA SearchCoilIsAStep ==
  ASSUME TypeOK, search.active
  PROVE  SearchCoil \in SearchCoils /\ SearchCoil \in Coils
  BY DEF TypeOK, SearchCoil, SearchCoils, Range

(* Cancelling a round keeps the coils' type and touches search coils only. *)
LEMMA CancelTouchesSearchCoils ==
  ASSUME TypeOK
  PROVE  /\ CancelCoil \in [Coils -> State]
         /\ AfterStep \in [Coils -> State]
         /\ \A c \in Coils \ SearchCoils : CancelCoil[c] = coils[c] /\ AfterStep[c] = coils[c]
         /\ \A c \in Coils : CancelCoil[c] = 1 => coils[c] = 1 /\ ~(search.active /\ SearchCoil = c)
         /\ \A c \in Coils : AfterStep[c] = 1 => coils[c] = 1 /\ ~(search.active /\ SearchCoil = c)
  <1>1. coils \in [Coils -> State]
    BY DEF TypeOK
  <1>2. CASE search.active
    BY <1>1, <1>2, SearchCoilIsAStep DEF CancelCoil, AfterStep, State
  <1>3. CASE ~search.active
    BY <1>1, <1>3 DEF CancelCoil, AfterStep
  <1> QED BY <1>2, <1>3

(* Without an answer in hand no coil is being asked about. *)
LEMMA NothingAsked == \A c \in Coils : NoAsk.coil # c
  BY DEF NoAsk

(* What a coil shows when the engine's answer reaches it. *)
LEMMA DrivenIsAState ==
  ASSUME TypeOK, NEW c \in Coils, NEW v \in State
  PROVE  /\ Driven(c, v) \in State
         /\ coilPulses[c] > 0 => Driven(c, v) = 1
         /\ coilPulses[c] = NoPulse => Driven(c, v) = v
  BY DEF TypeOK, Driven, State, NoPulse

-----------------------------------------------------------------------------
\* Types.

LEMMA Periods ==
  /\ BlinkTicks \in Nat /\ SearchDelay \in Nat /\ RoundDelay \in Nat /\ SearchPulse \in Nat
  /\ PulseTicks \subseteq Nat /\ Len(SearchSteps) \in Nat
  OBVIOUS

Searches == [idle : Nat, phase : Nat, index : 1..(Len(SearchSteps) + 1), active : BOOLEAN]

LEMMA IdleIsASearch ==
  ASSUME NEW t \in Nat
  PROVE  Idle(t) \in Searches /\ ~Idle(t).active
<1>1. 1 \in 1..(Len(SearchSteps) + 1)
  BY Periods
<1> QED BY <1>1 DEF Idle, Searches

(* Time takes nothing from a lamp that does not blink. *)
LEMMA LessIsKept ==
  ASSUME NEW b \in [left : Nat, on : State] \cup {NoBlink}
  PROVE  [b EXCEPT !.left = Less(@)] \in [left : Nat, on : State] \cup {NoBlink}
<1>1. CASE b = NoBlink
  <2>1. [NoBlink EXCEPT !.left = Less(@)] = NoBlink
    BY DEF NoBlink, Less
  <2> QED BY <1>1, <2>1
<1>2. CASE b \in [left : Nat, on : State]
  <2>1. Less(b.left) \in Nat
    BY <1>2 DEF Less
  <2> QED BY <1>2, <2>1
<1> QED BY <1>1, <1>2

LEMMA InitTypeOK == Init => TypeOK
<1> SUFFICES ASSUME Init PROVE TypeOK
  OBVIOUS
<1>1. search \in Searches /\ ~search.active
  BY IdleIsASearch, Periods DEF Init
<1>2. {buttons, held, gameRunning} \subseteq BOOLEAN
  BY DEF Init
<1>3. /\ pc \in {"switches", "lamps", "sleep"} /\ asked \in {NoAsk} /\ refused \subseteq Coils
      /\ engineCoils \in [Coils -> State] /\ coilPulses \in [Coils -> {NoPulse}]
      /\ coils \in [Coils -> State] /\ wanted \in [Coils -> State]
      /\ engineLamps \in [Lamps -> State] /\ lampBlinks \in [Lamps -> {NoBlink}]
      /\ lamps \in [Lamps -> State]
  BY DEF Init, State
<1> QED BY <1>1, <1>2, <1>3 DEF TypeOK, Searches

LEMMA NextTypeOK == TypeOK /\ [Next]_vars => TypeOK'
<1> SUFFICES ASSUME TypeOK, [Next]_vars PROVE TypeOK'
  OBVIOUS
<1> USE DEF TypeOK
<1>1. ASSUME NEW c \in Coils, NEW v \in State, AskRules(c, v) PROVE TypeOK'
  <2>1. PICK drive \in {TRUE} \cup {v \notin Suppressible} : asked' = [coil |-> c, value |-> v, drive |-> drive]
    BY <1>1 DEF AskRules
  <2>2. drive \in BOOLEAN
    OBVIOUS
  <2>3. asked' \in [coil : Coils, value : State, drive : BOOLEAN]
    BY <2>1, <2>2
  <2>4. wanted' \in [Coils -> State]
    BY <1>1 DEF AskRules
  <2> QED BY <1>1, <2>3, <2>4 DEF AskRules, lampVars, searchVars
<1>2. CASE ApplyEngineCoil
  <2>1. /\ asked \in [coil : Coils, value : State, drive : BOOLEAN]
        /\ asked.coil \in Coils /\ asked.value \in State
    BY <1>2 DEF ApplyEngineCoil
  <2>2. Driven(asked.coil, asked.value) \in State
    BY <2>1, DrivenIsAState
  <2>3. coils' \in [Coils -> State] /\ engineCoils' \in [Coils -> State] /\ refused' \subseteq Coils
    BY <1>2, <2>1, <2>2 DEF ApplyEngineCoil
  <2> QED BY <1>2, <2>3 DEF ApplyEngineCoil, lampVars, searchVars
<1>3. ASSUME NEW c \in Coils, NEW v \in State, OnCoilStateSync(c, v) PROVE TypeOK'
  <2>1. Driven(c, v) \in State
    BY DrivenIsAState
  <2> QED BY <1>3, <2>1 DEF OnCoilStateSync, lampVars, searchVars
<1>4. CASE OnGameRunningChanged
  BY <1>4 DEF OnGameRunningChanged, coilVars, lampVars
<1>5. ASSUME NEW c \in Coils, NEW t \in PulseTicks, PulseCoil(c, t) PROVE TypeOK'
  <2>1. Longer(t, coilPulses[c]) \in Nat
    BY DEF Longer, NoPulse
  <2> QED BY <1>5, <2>1 DEF PulseCoil, lampVars, searchVars, State
<1>6. ASSUME NEW l \in Lamps, StartBlinkLamp(l) PROVE TypeOK'
  BY <1>6 DEF StartBlinkLamp, coilVars, searchVars, State
<1>7. ASSUME NEW l \in Lamps, StopBlinkLamp(l) PROVE TypeOK'
  BY <1>7 DEF StopBlinkLamp, coilVars, searchVars, State
<1>8. ASSUME NEW hold \in BOOLEAN, HoldBallSearch(hold) PROVE TypeOK'
  BY <1>8 DEF HoldBallSearch, coilVars, lampVars
<1>9. CASE Button
  BY <1>9 DEF Button, coilVars, lampVars
<1>10. CASE PlayfieldSwitch
  <2>1. search' \in Searches /\ ~search'.active
    BY <1>10, IdleIsASearch, Periods DEF PlayfieldSwitch
  <2>2. coils' \in [Coils -> State]
    BY <1>10, CancelTouchesSearchCoils DEF PlayfieldSwitch
  <2> QED BY <1>10, <2>1, <2>2 DEF PlayfieldSwitch, lampVars, Searches
<1>11. CASE ServiceBallSearchRunner
  <2>1. ASSUME search' = Idle(SearchDelay) \/ search' = Idle(RoundDelay)
        PROVE  search' \in Searches /\ ~search'.active
    BY <2>1, IdleIsASearch, Periods
  <2>2. ASSUME ~(NextIndex > Len(SearchSteps)) PROVE NextIndex \in 1..Len(SearchSteps)
    BY <2>2 DEF NextIndex
  <2>3. ASSUME ~(NextIndex > Len(SearchSteps)),
               coils' = [AfterStep EXCEPT ![SearchSteps[NextIndex]] = 1],
               search' = [search EXCEPT !.phase = SearchPulse, !.index = NextIndex, !.active = TRUE]
        PROVE  /\ search' \in Searches
               /\ search'.active /\ search'.index \in 1..Len(SearchSteps)
               /\ coils' \in [Coils -> State]
    <3>1. NextIndex \in 1..Len(SearchSteps) /\ NextIndex \in 1..(Len(SearchSteps) + 1)
      BY <2>2, <2>3
    <3>2. coils' \in [Coils -> State]
      BY <2>3, CancelTouchesSearchCoils DEF State
    <3> QED BY <2>3, <3>1, <3>2, Periods DEF Searches
  <2>4. coils' \in [Coils -> State]
    BY <1>11, <2>3, CancelTouchesSearchCoils DEF ServiceBallSearchRunner
  <2>5. /\ search' \in Searches
        /\ search'.active => search'.index \in 1..Len(SearchSteps)
    BY <1>11, <2>1, <2>3 DEF ServiceBallSearchRunner, Searches
  <2> QED BY <1>11, <2>4, <2>5 DEF ServiceBallSearchRunner, lampVars, Goto, Searches
<1>12. CASE Service
  <2>1. \A l \in Toggling : Flip(l) \in State
    BY DEF Toggling, Flip, State, NoBlink
  <2>2. lamps' \in [Lamps -> State] /\ lampBlinks' \in [Lamps -> [left : Nat, on : State] \cup {NoBlink}]
    BY <1>12, <2>1 DEF Service
  <2>3. coils' \in [Coils -> State] /\ coilPulses' \in [Coils -> Nat \cup {NoPulse}]
    BY <1>12 DEF Service
  <2> QED BY <1>12, <2>2, <2>3 DEF Service, searchVars, Goto
<1>13. CASE Sleep
  <2>1. \A n \in Nat \cup {NoPulse} : Less(n) \in Nat \cup {NoPulse} /\ (n \in Nat => Less(n) \in Nat)
    BY DEF Less, NoPulse
  <2>2. coilPulses' \in [Coils -> Nat \cup {NoPulse}]
    BY <1>13, <2>1 DEF Sleep
  <2>3. \A l \in Lamps : [lampBlinks[l] EXCEPT !.left = Less(@)] \in [left : Nat, on : State] \cup {NoBlink}
    BY LessIsKept
  <2>4. lampBlinks' \in [Lamps -> [left : Nat, on : State] \cup {NoBlink}]
    BY <1>13, <2>3 DEF Sleep
  <2>5. /\ search' \in Searches
        /\ search'.active => search'.index \in 1..Len(SearchSteps)
    BY <1>13, <2>1 DEF Sleep, Searches
  <2> QED BY <1>13, <2>2, <2>4, <2>5 DEF Sleep, Goto, Searches
<1>14. ASSUME NEW l \in Lamps, NEW v \in State, ApplyEngineLamp(l, v) PROVE TypeOK'
  BY <1>14 DEF ApplyEngineLamp, coilVars, searchVars
<1>15. CASE UNCHANGED vars
  BY <1>15 DEF vars, coilVars, lampVars, searchVars
<1> QED BY <1>1, <1>2, <1>3, <1>4, <1>5, <1>6, <1>7, <1>8, <1>9, <1>10, <1>11, <1>12, <1>13, <1>14, <1>15
        DEF Next, EngineThread, HandleAction, MainLoop, LoopStep

-----------------------------------------------------------------------------
\* Overrides hold, and give the output back.

LEMMA InitKept == Init => Kept
<1> SUFFICES ASSUME Init PROVE Kept
  OBVIOUS
<1>1. TypeOK
  BY InitTypeOK
<1>2. AsksAgree
  BY DEF Init, AsksAgree
<1>3. IntentRestored
  BY DEF Init, IntentRestored
<1>4. PulseHolds
  BY DEF Init, PulseHolds, NoPulse
<1> QED BY <1>1, <1>2, <1>3, <1>4 DEF Kept

(* The coils: neither lamps nor the search's clocks matter to them. *)
CoilsRestored ==
  \A c \in Coils \ SearchCoils :
    coilPulses[c] = NoPulse /\ c \notin refused /\ asked.coil # c => coils[c] = wanted[c]

LampsRestored == \A l \in Lamps : lampBlinks[l] = NoBlink => lamps[l] = engineLamps[l]

LEMMA IntentSplits == IntentRestored <=> CoilsRestored /\ LampsRestored
  BY DEF IntentRestored, CoilsRestored, LampsRestored

CoilsKept == AsksAgree /\ CoilsRestored /\ PulseHolds

LEMMA CoilsStayKept ==
  ASSUME TypeOK, TypeOK', CoilsKept, [Next]_vars
  PROVE  CoilsKept'
<1> USE DEF CoilsKept
<1>1. ASSUME NEW c \in Coils, NEW v \in State, AskRules(c, v) PROVE CoilsKept'
  <2>1. PICK drive : asked' = [coil |-> c, value |-> v, drive |-> drive]
    BY <1>1 DEF AskRules
  <2>2. asked = NoAsk /\ wanted' = [wanted EXCEPT ![c] = v] /\ wanted \in [Coils -> State]
        /\ UNCHANGED <<engineCoils, coilPulses, coils, refused>>
    BY <1>1 DEF AskRules, TypeOK
  <2>3. asked'.coil = c /\ asked'.value = v
    BY <2>1
  <2> QED BY <2>2, <2>3, NothingAsked DEF AsksAgree, CoilsRestored, PulseHolds
<1>2. CASE ApplyEngineCoil
  <2>1. asked # NoAsk /\ asked.coil \in Coils /\ asked.value \in State
    BY <1>2 DEF ApplyEngineCoil, TypeOK
  <2>2. /\ Driven(asked.coil, asked.value) \in State
        /\ coilPulses[asked.coil] > 0 => Driven(asked.coil, asked.value) = 1
        /\ coilPulses[asked.coil] = NoPulse => Driven(asked.coil, asked.value) = asked.value
    BY <2>1, DrivenIsAState
  <2>3. /\ asked' = NoAsk /\ engineCoils' = [engineCoils EXCEPT ![asked.coil] = asked.value]
        /\ UNCHANGED <<coilPulses, wanted>>
    BY <1>2 DEF ApplyEngineCoil
  <2>4. engineCoils \in [Coils -> State] /\ coils \in [Coils -> State]
    BY DEF TypeOK
  <2>5. AsksAgree'
    BY <2>1, <2>3, <2>4 DEF AsksAgree
  <2>6. CASE asked.drive
    <3>1. coils' = [coils EXCEPT ![asked.coil] = Driven(asked.coil, asked.value)]
          /\ refused' = refused \ {asked.coil}
      BY <1>2, <2>6 DEF ApplyEngineCoil
    <3>2. CoilsRestored' /\ PulseHolds'
      BY <2>1, <2>2, <2>3, <2>4, <3>1 DEF AsksAgree, CoilsRestored, PulseHolds
    <3> QED BY <2>5, <3>2
  <2>7. CASE ~asked.drive
    <3>1. coils' = coils /\ refused' = refused \cup {asked.coil}
      BY <1>2, <2>7 DEF ApplyEngineCoil
    <3>2. CoilsRestored' /\ PulseHolds'
      BY <2>1, <2>3, <3>1 DEF CoilsRestored, PulseHolds
    <3> QED BY <2>5, <3>2
  <2> QED BY <2>6, <2>7
<1>3. ASSUME NEW c \in Coils, NEW v \in State, OnCoilStateSync(c, v) PROVE CoilsKept'
  <2>1. /\ coilPulses[c] > 0 => Driven(c, v) = 1
        /\ coilPulses[c] = NoPulse => Driven(c, v) = v
    BY DrivenIsAState
  <2>2. /\ asked = NoAsk /\ engineCoils' = [engineCoils EXCEPT ![c] = v]
        /\ coils' = [coils EXCEPT ![c] = Driven(c, v)] /\ wanted' = [wanted EXCEPT ![c] = v]
        /\ refused' = refused \ {c} /\ UNCHANGED <<coilPulses, asked>>
    BY <1>3 DEF OnCoilStateSync
  <2>3. engineCoils \in [Coils -> State] /\ coils \in [Coils -> State] /\ wanted \in [Coils -> State]
    BY DEF TypeOK
  <2> QED BY <2>1, <2>2, <2>3, NothingAsked DEF AsksAgree, CoilsRestored, PulseHolds
<1>4. ASSUME UNCHANGED coilVars PROVE CoilsKept'
  BY <1>4 DEF coilVars, AsksAgree, CoilsRestored, PulseHolds
<1>5. ASSUME NEW c \in Coils, NEW t \in PulseTicks, PulseCoil(c, t) PROVE CoilsKept'
  <2>1. Longer(t, coilPulses[c]) # NoPulse
    BY DEF TypeOK, Longer, NoPulse
  <2>2. /\ coilPulses' = [coilPulses EXCEPT ![c] = Longer(t, @)] /\ coils' = [coils EXCEPT ![c] = 1]
        /\ UNCHANGED <<engineCoils, asked, wanted, refused>>
    BY <1>5 DEF PulseCoil
  <2>3. coilPulses \in [Coils -> Nat \cup {NoPulse}] /\ coils \in [Coils -> State]
    BY DEF TypeOK
  <2> QED BY <2>1, <2>2, <2>3 DEF AsksAgree, CoilsRestored, PulseHolds
<1>6. ASSUME \A c \in Coils \ SearchCoils : coils'[c] = coils[c],
             UNCHANGED <<engineCoils, coilPulses, asked, wanted, refused>>
      PROVE  CoilsKept'
  BY <1>6 DEF AsksAgree, CoilsRestored, PulseHolds
<1>7. CASE PlayfieldSwitch
  BY <1>6, <1>7, CancelTouchesSearchCoils DEF PlayfieldSwitch
<1>8. CASE ServiceBallSearchRunner
  <2>1. UNCHANGED <<engineCoils, coilPulses, asked, wanted, refused>>
    BY <1>8 DEF ServiceBallSearchRunner
  <2>2. ASSUME ~(NextIndex > Len(SearchSteps)) PROVE SearchSteps[NextIndex] \in SearchCoils
    <3>1. NextIndex \in DOMAIN SearchSteps
      BY <2>2, Periods DEF NextIndex, TypeOK
    <3> QED BY <3>1 DEF SearchCoils, Range
  <2>3. \A c \in Coils \ SearchCoils : coils'[c] = coils[c]
    BY <1>8, <2>2, CancelTouchesSearchCoils DEF ServiceBallSearchRunner
  <2> QED BY <1>6, <2>1, <2>3
<1>9. CASE Service
  <2>1. /\ coilPulses' = [c \in Coils |-> IF c \in Expired THEN NoPulse ELSE coilPulses[c]]
        /\ coils' = [c \in Coils |-> IF c \in Expired THEN engineCoils[c] ELSE coils[c]]
        /\ refused' = refused \ Expired /\ UNCHANGED <<engineCoils, asked, wanted>>
    BY <1>9 DEF Service
  <2> QED BY <2>1 DEF AsksAgree, CoilsRestored, PulseHolds, NoPulse
<1>10. CASE Sleep
  <2>1. /\ coilPulses' = [c \in Coils |-> Less(coilPulses[c])]
        /\ UNCHANGED <<engineCoils, coils, asked, wanted, refused>>
    BY <1>10 DEF Sleep
  <2>2. \A n \in Nat \cup {NoPulse} : (Less(n) > 0 => n > 0) /\ (Less(n) = NoPulse => n = NoPulse)
    BY DEF Less, NoPulse
  <2>3. coilPulses \in [Coils -> Nat \cup {NoPulse}]
    BY DEF TypeOK
  <2> QED BY <2>1, <2>2, <2>3 DEF AsksAgree, CoilsRestored, PulseHolds
<1>11. CASE UNCHANGED vars
  BY <1>4, <1>11 DEF vars
<1>12. CASE OnGameRunningChanged \/ Button
  BY <1>4, <1>12 DEF OnGameRunningChanged, Button
<1>13. ASSUME NEW l \in Lamps, StartBlinkLamp(l) \/ StopBlinkLamp(l) PROVE CoilsKept'
  BY <1>4, <1>13 DEF StartBlinkLamp, StopBlinkLamp
<1>14. ASSUME NEW hold \in BOOLEAN, HoldBallSearch(hold) PROVE CoilsKept'
  BY <1>4, <1>14 DEF HoldBallSearch
<1>15. ASSUME NEW l \in Lamps, NEW v \in State, ApplyEngineLamp(l, v) PROVE CoilsKept'
  BY <1>4, <1>15 DEF ApplyEngineLamp
<1> QED BY <1>1, <1>2, <1>3, <1>5, <1>7, <1>8, <1>9, <1>10, <1>11, <1>12, <1>13, <1>14, <1>15
        DEF Next, EngineThread, HandleAction, MainLoop, LoopStep

LEMMA LampsStayRestored ==
  ASSUME TypeOK, LampsRestored, [Next]_vars
  PROVE  LampsRestored'
<1>1. ASSUME UNCHANGED lampVars PROVE LampsRestored'
  BY <1>1 DEF lampVars, LampsRestored
<1>2. ASSUME NEW l \in Lamps, StartBlinkLamp(l) PROVE LampsRestored'
  <2>1. [left |-> BlinkTicks, on |-> 1] # NoBlink
    BY DEF NoBlink
  <2> QED BY <1>2, <2>1 DEF StartBlinkLamp, LampsRestored, TypeOK
<1>3. ASSUME NEW l \in Lamps, StopBlinkLamp(l) PROVE LampsRestored'
  BY <1>3 DEF StopBlinkLamp, LampsRestored, TypeOK
<1>4. ASSUME NEW l \in Lamps, NEW v \in State, ApplyEngineLamp(l, v) PROVE LampsRestored'
  BY <1>4 DEF ApplyEngineLamp, LampsRestored, TypeOK
<1>5. CASE Service
  <2>1. \A l \in Toggling : [left |-> BlinkTicks, on |-> Flip(l)] # NoBlink
    BY DEF Toggling, Flip, NoBlink, TypeOK, State
  <2> QED BY <1>5, <2>1 DEF Service, LampsRestored, TypeOK
<1>6. CASE Sleep
  <2>1. ASSUME NEW b \in [left : Nat, on : State] \cup {NoBlink}, [b EXCEPT !.left = Less(@)] = NoBlink
        PROVE  b = NoBlink
    <3>1. CASE b \in [left : Nat, on : State]
      <4>1. [b EXCEPT !.left = Less(@)].on = b.on
        BY <3>1
      <4> QED BY <2>1, <3>1, <4>1 DEF NoBlink, State
    <3> QED BY <3>1
  <2> QED BY <1>6, <2>1 DEF Sleep, LampsRestored, TypeOK
<1>7. CASE UNCHANGED vars
  BY <1>1, <1>7 DEF vars
<1>8. CASE OnGameRunningChanged \/ ApplyEngineCoil \/ Button \/ PlayfieldSwitch
  BY <1>1, <1>8 DEF OnGameRunningChanged, ApplyEngineCoil, Button, PlayfieldSwitch
<1>9. ASSUME NEW c \in Coils, NEW v \in State, AskRules(c, v) \/ OnCoilStateSync(c, v) PROVE LampsRestored'
  BY <1>1, <1>9 DEF AskRules, OnCoilStateSync
<1>10. ASSUME NEW c \in Coils, NEW t \in PulseTicks, PulseCoil(c, t) PROVE LampsRestored'
  BY <1>1, <1>10 DEF PulseCoil
<1>11. ASSUME NEW hold \in BOOLEAN, HoldBallSearch(hold) PROVE LampsRestored'
  BY <1>1, <1>11 DEF HoldBallSearch
<1>12. CASE ServiceBallSearchRunner
  BY <1>1, <1>12 DEF ServiceBallSearchRunner, lampVars
<1> QED BY <1>2, <1>3, <1>4, <1>5, <1>6, <1>7, <1>8, <1>9, <1>10, <1>11, <1>12
        DEF Next, EngineThread, HandleAction, MainLoop, LoopStep

LEMMA NextKept == Kept /\ [Next]_vars => Kept'
<1> SUFFICES ASSUME Kept, [Next]_vars PROVE Kept'
  OBVIOUS
<1>1. TypeOK'
  BY NextTypeOK DEF Kept
<1>2. CoilsRestored /\ LampsRestored
  BY IntentSplits DEF Kept
<1>3. CoilsKept'
  BY <1>1, <1>2, CoilsStayKept DEF Kept, CoilsKept
<1>4. LampsRestored'
  BY <1>2, LampsStayRestored DEF Kept
<1>5. IntentRestored'
  BY <1>3, <1>4 DEF IntentRestored, CoilsKept, CoilsRestored, LampsRestored
<1> QED BY <1>1, <1>3, <1>5 DEF Kept, CoilsKept

(* Types, intents and pulses, for every instance.                          *)
THEOREM OverridesKept == Spec => []Kept
<1>1. Init => Kept
  BY InitKept
<1>2. Kept /\ [Next]_vars => Kept'
  BY NextKept
<1> QED BY <1>1, <1>2, PTL DEF Spec

(* A pulse holds its coil to its end, whatever the engine and the rules do *)
(* meanwhile: ApplyEngineCoil never drives a coil under a pulse off.       *)
THEOREM PulsesHold == Spec => []PulseHolds
<1>1. Kept => PulseHolds
  BY DEF Kept
<1> QED BY <1>1, OverridesKept, PTL

-----------------------------------------------------------------------------
\* No coil burns unattended, if a rule may keep a coil from being switched on
\* but never from being switched off.

RefusesOnOnly == asked # NoAsk => asked.drive \/ asked.value = 1

Attended == Kept /\ RefusesOnOnly /\ NoCoilLeftOn

LEMMA InitAttended == Init => Attended
<1> SUFFICES ASSUME Init PROVE Attended
  OBVIOUS
<1>1. RefusesOnOnly /\ NoCoilLeftOn
  BY DEF Init, RefusesOnOnly, NoCoilLeftOn
<1> QED BY <1>1, InitKept DEF Attended

LEMMA NextAttended ==
  ASSUME 0 \notin Suppressible, Attended, [Next]_vars
  PROVE  Attended'
<1>1. Kept /\ Kept' /\ TypeOK /\ TypeOK' /\ AsksAgree /\ AsksAgree'
  BY NextKept DEF Attended, Kept
<1> USE DEF Attended
<1>2. SUFFICES RefusesOnOnly' /\ NoCoilLeftOn'
  BY <1>1
<1>3. ASSUME UNCHANGED <<coilVars, search>> PROVE RefusesOnOnly' /\ NoCoilLeftOn'
  <2>1. UNCHANGED <<coils, wanted, asked, coilPulses, search>>
    BY <1>3 DEF coilVars
  <2>2. UNCHANGED SearchCoil
    BY <2>1 DEF SearchCoil
  <2> QED BY <2>1, <2>2 DEF RefusesOnOnly, NoCoilLeftOn
<1>4. ASSUME NEW c \in Coils, NEW v \in State, AskRules(c, v) PROVE RefusesOnOnly' /\ NoCoilLeftOn'
  <2>1. PICK drive \in {TRUE} \cup {v \notin Suppressible} : asked' = [coil |-> c, value |-> v, drive |-> drive]
    BY <1>4 DEF AskRules
  <2>2. asked'.coil = c /\ asked'.value = v /\ asked'.drive = drive
    BY <2>1
  <2>3. drive \/ v = 1
    <3>1. CASE v = 0
      <4>1. v \notin Suppressible
        BY <3>1
      <4> QED BY <4>1
    <3> QED BY <3>1 DEF State
  <2>4. asked = NoAsk /\ wanted' = [wanted EXCEPT ![c] = v] /\ wanted \in [Coils -> State]
        /\ UNCHANGED <<coilPulses, coils, search>>
    BY <1>1, <1>4 DEF AskRules, TypeOK, searchVars
  <2>5. UNCHANGED SearchCoil
    BY <2>4 DEF SearchCoil
  <2>6. RefusesOnOnly'
    BY <2>2, <2>3 DEF RefusesOnOnly
  <2>7. NoCoilLeftOn'
    BY <2>2, <2>4, <2>5, NothingAsked DEF NoCoilLeftOn
  <2> QED BY <2>6, <2>7
<1>5. CASE ApplyEngineCoil
  <2>1. asked # NoAsk /\ asked.coil \in Coils /\ asked.value \in State /\ wanted[asked.coil] = asked.value
    BY <1>1, <1>5 DEF ApplyEngineCoil, TypeOK, AsksAgree
  <2>2. asked' = NoAsk /\ UNCHANGED <<coilPulses, wanted, search>>
    BY <1>5 DEF ApplyEngineCoil, searchVars
  <2>3. UNCHANGED SearchCoil
    BY <2>2 DEF SearchCoil
  <2>4. RefusesOnOnly'
    BY <2>2 DEF RefusesOnOnly
  <2>5. \A d \in Coils : d # asked.coil => coils'[d] = coils[d]
    BY <1>1, <1>5, <2>1 DEF ApplyEngineCoil, TypeOK
  <2>6. coils'[asked.coil] = 1 => wanted[asked.coil] = 1 \/ coilPulses[asked.coil] # NoPulse
    <3>1. CASE asked.drive
      <4>1. coils'[asked.coil] = Driven(asked.coil, asked.value)
        BY <1>1, <1>5, <2>1, <3>1 DEF ApplyEngineCoil, TypeOK
      <4>2. coilPulses[asked.coil] = NoPulse => Driven(asked.coil, asked.value) = asked.value
        BY <1>1, <2>1, DrivenIsAState
      <4> QED BY <2>1, <4>1, <4>2
    <3>2. CASE ~asked.drive
      <4>1. asked.value = 1
        BY <2>1, <3>2 DEF RefusesOnOnly
      <4> QED BY <2>1, <4>1
    <3> QED BY <3>1, <3>2
  <2>7. NoCoilLeftOn'
    BY <2>1, <2>2, <2>3, <2>5, <2>6 DEF NoCoilLeftOn
  <2> QED BY <2>4, <2>7
<1>6. ASSUME NEW c \in Coils, NEW v \in State, OnCoilStateSync(c, v) PROVE RefusesOnOnly' /\ NoCoilLeftOn'
  <2>1. coilPulses[c] = NoPulse => Driven(c, v) = v
    BY <1>1, DrivenIsAState
  <2>2. asked = NoAsk /\ asked' = NoAsk /\ UNCHANGED <<coilPulses, search>>
        /\ coils' = [coils EXCEPT ![c] = Driven(c, v)] /\ wanted' = [wanted EXCEPT ![c] = v]
    BY <1>6 DEF OnCoilStateSync, searchVars
  <2>3. coils \in [Coils -> State] /\ wanted \in [Coils -> State]
    BY <1>1 DEF TypeOK
  <2>4. UNCHANGED SearchCoil
    BY <2>2 DEF SearchCoil
  <2>5. RefusesOnOnly'
    BY <2>2 DEF RefusesOnOnly
  <2> QED BY <2>1, <2>2, <2>3, <2>4, <2>5, NothingAsked DEF NoCoilLeftOn
<1>7. ASSUME NEW c \in Coils, NEW t \in PulseTicks, PulseCoil(c, t) PROVE RefusesOnOnly' /\ NoCoilLeftOn'
  <2>1. Longer(t, coilPulses[c]) # NoPulse
    BY <1>1 DEF TypeOK, Longer, NoPulse
  <2>2. /\ coilPulses' = [coilPulses EXCEPT ![c] = Longer(t, @)] /\ coils' = [coils EXCEPT ![c] = 1]
        /\ UNCHANGED <<asked, wanted, search>>
    BY <1>7 DEF PulseCoil, searchVars
  <2>3. coilPulses \in [Coils -> Nat \cup {NoPulse}] /\ coils \in [Coils -> State]
    BY <1>1 DEF TypeOK
  <2>4. UNCHANGED SearchCoil
    BY <2>2 DEF SearchCoil
  <2> QED BY <2>1, <2>2, <2>3, <2>4 DEF RefusesOnOnly, NoCoilLeftOn
<1>8. CASE PlayfieldSwitch
  <2>1. UNCHANGED <<asked, wanted, coilPulses>> /\ coils' = CancelCoil
    BY <1>8 DEF PlayfieldSwitch
  <2>2. \A c \in Coils : CancelCoil[c] = 1 => coils[c] = 1 /\ ~(search.active /\ SearchCoil = c)
    BY <1>1, CancelTouchesSearchCoils
  <2> QED BY <2>1, <2>2 DEF RefusesOnOnly, NoCoilLeftOn
<1>9. CASE ServiceBallSearchRunner
  <2>1. UNCHANGED <<asked, wanted, coilPulses>>
    BY <1>9 DEF ServiceBallSearchRunner
  <2>2. /\ \A c \in Coils : CancelCoil[c] = 1 => coils[c] = 1 /\ ~(search.active /\ SearchCoil = c)
        /\ \A c \in Coils : AfterStep[c] = 1 => coils[c] = 1 /\ ~(search.active /\ SearchCoil = c)
        /\ AfterStep \in [Coils -> State]
    BY <1>1, CancelTouchesSearchCoils
  <2>3. RefusesOnOnly'
    BY <2>1 DEF RefusesOnOnly
  <2>4. ASSUME coils' = CancelCoil \/ coils' = AfterStep PROVE NoCoilLeftOn'
    BY <2>1, <2>2, <2>4 DEF NoCoilLeftOn
  <2>5. ASSUME UNCHANGED <<coils, search>> PROVE NoCoilLeftOn'
    <3>1. UNCHANGED SearchCoil
      BY <2>5 DEF SearchCoil
    <3> QED BY <2>1, <2>5, <3>1 DEF NoCoilLeftOn
  <2>6. ASSUME coils' = [AfterStep EXCEPT ![SearchSteps[NextIndex]] = 1],
               search' = [search EXCEPT !.phase = SearchPulse, !.index = NextIndex, !.active = TRUE]
        PROVE  NoCoilLeftOn'
    <3>1. search'.active /\ search'.index = NextIndex
      BY <1>1, <2>6 DEF TypeOK
    <3>2. SearchCoil' = SearchSteps[NextIndex]
      BY <3>1 DEF SearchCoil
    <3> QED BY <2>1, <2>2, <2>6, <3>1, <3>2 DEF NoCoilLeftOn
  <2> QED BY <1>9, <2>3, <2>4, <2>5, <2>6 DEF ServiceBallSearchRunner
<1>10. CASE Service
  <2>1. /\ coilPulses' = [c \in Coils |-> IF c \in Expired THEN NoPulse ELSE coilPulses[c]]
        /\ coils' = [c \in Coils |-> IF c \in Expired THEN engineCoils[c] ELSE coils[c]]
        /\ UNCHANGED <<asked, wanted, search>>
    BY <1>10 DEF Service, searchVars
  <2>2. UNCHANGED SearchCoil
    BY <2>1 DEF SearchCoil
  <2> QED BY <1>1, <2>1, <2>2 DEF RefusesOnOnly, NoCoilLeftOn, AsksAgree
<1>11. CASE Sleep
  <2>1. /\ coilPulses' = [c \in Coils |-> Less(coilPulses[c])] /\ UNCHANGED <<coils, asked, wanted>>
        /\ search' = [search EXCEPT !.idle = Less(@), !.phase = Less(@)]
    BY <1>11 DEF Sleep
  <2>2. search'.active = search.active /\ search'.index = search.index
    BY <1>1, <2>1 DEF TypeOK
  <2>3. UNCHANGED SearchCoil
    BY <2>2 DEF SearchCoil
  <2>4. \A n \in Nat \cup {NoPulse} : Less(n) = NoPulse => n = NoPulse
    BY DEF Less, NoPulse
  <2>5. coilPulses \in [Coils -> Nat \cup {NoPulse}]
    BY <1>1 DEF TypeOK
  <2> QED BY <2>1, <2>2, <2>3, <2>4, <2>5 DEF RefusesOnOnly, NoCoilLeftOn
<1>12. CASE UNCHANGED vars
  BY <1>3, <1>12 DEF vars, searchVars
<1>13. CASE OnGameRunningChanged \/ Button
  BY <1>3, <1>13 DEF OnGameRunningChanged, Button
<1>14. ASSUME NEW l \in Lamps, StartBlinkLamp(l) \/ StopBlinkLamp(l) PROVE RefusesOnOnly' /\ NoCoilLeftOn'
  BY <1>3, <1>14 DEF StartBlinkLamp, StopBlinkLamp, searchVars
<1>15. ASSUME NEW hold \in BOOLEAN, HoldBallSearch(hold) PROVE RefusesOnOnly' /\ NoCoilLeftOn'
  BY <1>3, <1>15 DEF HoldBallSearch
<1>16. ASSUME NEW l \in Lamps, NEW v \in State, ApplyEngineLamp(l, v) PROVE RefusesOnOnly' /\ NoCoilLeftOn'
  BY <1>3, <1>16 DEF ApplyEngineLamp, searchVars
<1> QED BY <1>4, <1>5, <1>6, <1>7, <1>8, <1>9, <1>10, <1>11, <1>12, <1>13, <1>14, <1>15, <1>16
        DEF Next, EngineThread, HandleAction, MainLoop, LoopStep

(* Overrides do not outlive their reason, the engine's wish comes back and *)
(* no coil stays on that nobody wants, unless a rule refuses a release     *)
(* (LuaRulesEngine::AllowCoil with state 0), which the hypothesis excludes.*)
THEOREM CoilsAreGivenBack == 0 \notin Suppressible => (Spec => []CoilsGivenBack)
<1> SUFFICES ASSUME 0 \notin Suppressible PROVE Spec => []CoilsGivenBack
  OBVIOUS
<1>1. Init => Attended
  BY InitAttended
<1>2. Attended /\ [Next]_vars => Attended'
  BY NextAttended
<1>3. Attended => CoilsGivenBack
  BY DEF Attended, Kept, CoilsGivenBack
<1> QED BY <1>1, <1>2, <1>3, PTL DEF Spec
=============================================================================
