-------------------------- MODULE PluginEngineProofs --------------------------
(***************************************************************************)
(* Proofs about the gate of PluginEngine, for every set of coils, every    *)
(* number of publications and every program of the plugin and the ROM. The *)
(* builds considered are those in which the load of m_gateActive does not  *)
(* overtake the store of m_gateOpen; the run earlyLoad shows that the      *)
(* theorems fail without that assumption.                                  *)
(***************************************************************************)
EXTENDS PluginEngine, TLAPS

Inside == {"check", "closed", "adopt", "fetch"}

\* The types of what the gate argument speaks about.
GateTypes ==
  /\ mpc \in Places.main /\ ppc \in Places.poll
  /\ plan \in [generation: Nat, entries: SUBSET Coils]
  /\ generation \in Nat /\ localGeneration \in Nat
  /\ gateOpen \in BOOLEAN /\ gateActive \in Nat
  /\ late = FALSE

\* The counter says whether the poll thread is inside, the plan goes only with
\* the gate shut or the thread gone.
GateHeld ==
  /\ gateActive = IF ppc \in Inside THEN 1 ELSE 0
  /\ mpc \in {"closing", "quiet"} => ~gateOpen
  /\ mpc = "quiet" => ~Published
  /\ mpc = "stopped" => ppc = "done"
  /\ mpc # "stopped" /\ gateOpen => Published
  /\ Reading => Published

\* A generation names one plan: who knows the generation has its numbers.
GenerationNames ==
  /\ Published => plan.generation = generation /\ generation # 0
  /\ plan.generation # 0 => Published
  /\ localGeneration <= generation
  /\ Published /\ localGeneration = generation => numbers = plan.entries
  /\ ppc = "fetch" => localGeneration = generation

GateInv == GateTypes /\ GateHeld /\ GenerationNames

gateVars == <<mpc, ppc, plan, generation, localGeneration, gateOpen, gateActive, late, numbers>>

\* The invariant speaks of the gate only.
LEMMA GateFrame ==
  ASSUME GateInv, UNCHANGED gateVars
  PROVE  GateInv'
BY DEF GateInv, GateTypes, GateHeld, GenerationNames, gateVars, Published, Reading, Polling

LEMMA GateInit == Init => GateInv
<1>. SUFFICES ASSUME Init PROVE GateInv
  OBVIOUS
<1>1. plan = NoPlan /\ ~gateOpen /\ ppc = "enter" /\ mpc = "loop"
  BY DEF Init
<1>2. gateActive = 0 /\ generation = 0 /\ localGeneration = 0 /\ numbers = {}
  BY DEF Init
<1>3. GateTypes
  <2>1. plan \in [generation: Nat, entries: SUBSET Coils]
    BY <1>1 DEF NoPlan
  <2>2. mpc \in Places.main /\ ppc \in Places.poll
    BY <1>1 DEF Places
  <2>3. gateOpen \in BOOLEAN /\ late = FALSE
    BY DEF Init
  <2>. QED
    BY <1>2, <2>1, <2>2, <2>3 DEF GateTypes
<1>4. GateHeld
  BY <1>1, <1>2 DEF GateHeld, Inside, Reading, Published
<1>5. GenerationNames
  BY <1>1, <1>2 DEF GenerationNames, Published, NoPlan
<1>. QED
  BY <1>3, <1>4, <1>5 DEF GateInv

-----------------------------------------------------------------------------
(* The main thread                                                         *)

LEMMA CloseKeeps ==
  ASSUME ~AcquirePasses, GateInv, OnStateSrcAboutToChange
  PROVE  GateInv'
BY DEF GateInv, GateTypes, GateHeld, GenerationNames, OnStateSrcAboutToChange, At, Published,
       Reading, Places, Inside, source, cycle, poll

LEMMA QuiescedKeeps ==
  ASSUME GateInv, Quiesced
  PROVE  GateInv'
BY EngineAssumption DEF GateInv, GateTypes, GateHeld, GenerationNames, Quiesced, FetchOver, At, Published,
       Reading, Places, Inside, NoPlan, gate, cycle, poll

LEMMA PublishKeeps ==
  ASSUME GateInv, OnStateSrcChanged
  PROVE  GateInv'
<1>1. mpc # "stopped" /\ ~Published /\ mpc' = "loop" /\ gateOpen' /\ gateOpen' \in BOOLEAN
  BY DEF GateInv, GateHeld, OnStateSrcChanged, At
<1>2. ~Reading
  BY <1>1 DEF GateInv, GateHeld
<1>3. /\ generation \in Nat /\ localGeneration \in Nat /\ localGeneration <= generation
      /\ generation' = generation + 1
  BY DEF GateInv, GateTypes, GenerationNames, OnStateSrcChanged, NextGeneration
<1>4. UNCHANGED <<ppc, localGeneration, numbers, gateActive, late>>
  BY DEF OnStateSrcChanged, cycle, poll
<1>5. PICK entries \in Publications : plan' = [generation |-> generation', entries |-> entries]
  BY DEF OnStateSrcChanged
<1>6. plan' \in [generation: Nat, entries: SUBSET Coils] /\ plan'.generation = generation'
  BY EngineAssumption, <1>3, <1>5
<1>7. Published'
  BY <1>3, <1>6 DEF Published, NoPlan
<1>8. GateTypes'
  BY <1>1, <1>3, <1>4, <1>6 DEF GateInv, GateTypes, Places
<1>9. GateHeld'
  BY <1>1, <1>4, <1>7 DEF GateInv, GateHeld, Reading
<1>10. GenerationNames'
  BY <1>2, <1>3, <1>4, <1>6, <1>7 DEF GenerationNames, Reading
<1>. QED
  BY <1>8, <1>9, <1>10 DEF GateInv

LEMMA StoppedKeeps ==
  ASSUME GateInv, Stopped
  PROVE  GateInv'
BY DEF GateInv, GateTypes, GateHeld, GenerationNames, Stopped, Joined, At, Polling,
       Published, Reading, Places, Inside, NoPlan, gate, cycle, poll

LEMMA OtherMainKeeps ==
  ASSUME GateInv, Tracking \/ RequestStop
  PROVE  GateInv'
BY DEF GateInv, GateTypes, GateHeld, GenerationNames, Tracking, TakeReset, Decode, RequestStop,
       At, Published, Reading, Places, Inside, gate, source, cycle, poll

-----------------------------------------------------------------------------
(* The poll thread                                                         *)

LEMMA EnterKeeps ==
  ASSUME GateInv, Enter
  PROVE  GateInv'
BY DEF GateInv, GateTypes, GateHeld, GenerationNames, Enter, Polling, PollGoes, Published,
       Reading, Places, Inside, source, poll

LEMMA CheckKeeps ==
  ASSUME GateInv, CheckGate
  PROVE  GateInv'
BY DEF GateInv, GateTypes, GateHeld, GenerationNames, CheckGate, Polling, PollGoes, Published,
       Reading, Places, Inside, gate, source, poll

LEMMA LeaveClosedKeeps ==
  ASSUME GateInv, LeaveClosed
  PROVE  GateInv'
BY DEF GateInv, GateTypes, GateHeld, GenerationNames, LeaveClosed, LeaveGate, Polling, PollGoes,
       Published, Reading, Places, Inside, source

LEMMA AdoptKeeps ==
  ASSUME GateInv, Adopt
  PROVE  GateInv'
<1>1. Published /\ PlansSeen = {plan} /\ plan.generation = generation
  BY DEF GateInv, GateHeld, GenerationNames, Adopt, Polling, Reading, PlansSeen
<1>2. UNCHANGED <<mpc, plan, generation, gateOpen, gateActive, late>> /\ ppc = "adopt" /\ ppc' = "fetch"
  BY DEF Adopt, Polling, PollGoes, gate, source
<1>3. IF generation # localGeneration
      THEN localGeneration' = generation /\ numbers' = plan.entries
      ELSE UNCHANGED <<localGeneration, numbers>>
  BY <1>1 DEF Adopt, poll
<1>. QED
  BY <1>1, <1>2, <1>3 DEF GateInv, GateTypes, GateHeld, GenerationNames, Published, Reading,
     Places, Inside

LEMMA LeaveFetchKeeps ==
  ASSUME GateInv, LeaveFetch
  PROVE  GateInv'
BY DEF GateInv, GateTypes, GateHeld, GenerationNames, LeaveFetch, LeaveGate, Polling, PollGoes,
       Published, Reading, Places, Inside, source, poll

\* Outside the gate the poll thread leaves the gate alone.
LEMMA DispatchKeeps ==
  ASSUME GateInv,
         GetState \/ OnCoilStateSync \/ SyncDone \/ CoilEdge \/ OnGameRunningChanged
           \/ OnCoilChanged \/ DispatchDone
  PROVE  GateInv'
<1>1. UNCHANGED <<mpc, plan, generation, gateOpen, gateActive, late, localGeneration, numbers>>
  BY DEF GetState, OnCoilStateSync, SyncDone, CoilEdge, OnGameRunningChanged, OnCoilChanged,
     DispatchDone, gate, source, poll
<1>2. \/ ppc' = ppc
      \/ ppc \notin Inside \union {"done"} /\ ppc' \in Places.poll \ Inside
  BY DEF GetState, OnCoilStateSync, SyncDone, CoilEdge, FirstSink, OnGameRunningChanged,
     OnCoilChanged, DispatchDone, Polling, PollGoes, Places, Inside
<1>3. GateTypes'
  BY <1>1, <1>2 DEF GateInv, GateTypes
<1>4. Published' = Published
  BY <1>1 DEF Published
<1>5. GateHeld'
  BY <1>1, <1>2, <1>4 DEF GateInv, GateHeld, Reading, Inside
<1>6. GenerationNames'
  BY <1>1, <1>2, <1>4 DEF GateInv, GenerationNames, Inside
<1>. QED
  BY <1>3, <1>5, <1>6 DEF GateInv

-----------------------------------------------------------------------------

LEMMA GateStep ==
  ASSUME ~AcquirePasses, GateInv, [Next]_vars
  PROVE  GateInv'
<1>1. CASE MainThread
  <2>1. ~GateSeenClosed
    BY DEF GateInv, GateTypes, GateSeenClosed
  <2>. QED
    BY <1>1, <2>1, CloseKeeps, QuiescedKeeps, PublishKeeps, StoppedKeeps, OtherMainKeeps
    DEF MainThread
<1>2. CASE PollThread
  BY <1>2, EnterKeeps, CheckKeeps, LeaveClosedKeeps, AdoptKeeps, LeaveFetchKeeps, DispatchKeeps
  DEF PollThread
<1>3. CASE Emulation \/ UNCHANGED vars
  BY <1>3, GateFrame DEF Emulation, CoilMoves, MemoryChanges, vars, gateVars, gate, source, cycle, poll
<1>. QED
  BY <1>1, <1>2, <1>3 DEF Next

THEOREM GateSafety ==
  ASSUME ~AcquirePasses
  PROVE  Spec => []GateInv
<1>. QED
  BY GateInit, GateStep, PTL DEF Spec

\* OnStateSrcAboutToChange (PluginEngine.cpp:185): whenever the poll thread is
\* in its fetch phase the plan, and what it points to, is there.
THEOREM FetchIsSafe ==
  ASSUME ~AcquirePasses
  PROVE  Spec => []FetchSafe
<1>1. GateInv => FetchSafe
  BY DEF GateInv, GateHeld, FetchSafe
<1>. QED
  BY <1>1, GateSafety, PTL

\* PollThreadMain (PluginEngine.cpp:435): the buffers have been laid out for the
\* plan that is read.
THEOREM FetchIsInBounds ==
  ASSUME ~AcquirePasses
  PROVE  Spec => []FetchInBounds
<1>1. GateInv => FetchInBounds
  BY DEF GateInv, GateHeld, GenerationNames, FetchInBounds, Polling, Reading
<1>. QED
  BY <1>1, GateSafety, PTL

-----------------------------------------------------------------------------
(* Refinement                                                              *)

\* The steps that move the lease, and what all the others leave alone.
LEMMA LeaseFrame ==
  ASSUME UNCHANGED <<plan, ppc>>
  PROVE  UNCHANGED Lease!leaseVars
BY DEF Lease!leaseVars, Reading

LEMMA LeaseStep ==
  ASSUME ~AcquirePasses, GateInv, [Next]_vars
  PROVE  [Lease!Next]_(Lease!leaseVars)
<1>1. CASE OnStateSrcChanged
  <2>1. ~Published /\ ~Reading /\ ~Reading' /\ plan.generation = 0
    BY <1>1 DEF GateInv, GateHeld, GenerationNames, OnStateSrcChanged, At, Reading, cycle
  <2>2. plan'.generation \in Nat \ {0}
    BY <1>1 DEF GateInv, GateTypes, OnStateSrcChanged, NextGeneration
  <2>. QED
    BY <2>1, <2>2 DEF Lease!Next, Lease!Publish
<1>2. CASE Quiesced \/ Stopped
  <2>1. ~Reading /\ ~Reading' /\ plan'.generation = 0
    BY <1>2 DEF GateInv, GateHeld, Quiesced, Stopped, FetchOver, Joined, Polling, Reading, Inside,
       NoPlan, cycle
  <2>. QED
    BY <2>1 DEF Lease!Next, Lease!Retire, Lease!leaseVars
<1>3. CASE CheckGate
  <2>1. CASE gateOpen
    <3>1. mpc # "stopped" /\ Published
      BY <1>3, <2>1 DEF GateInv, GateHeld, CheckGate, Polling
    <3>2. ~Reading /\ Reading' /\ plan' = plan /\ plan.generation # 0
      BY <1>3, <2>1, <3>1 DEF GateInv, GenerationNames, CheckGate, Polling, PollGoes, Reading, source
    <3>. QED
      BY <3>2 DEF Lease!Next, Lease!Acquire
  <2>2. CASE ~gateOpen
    BY <1>3, <2>2 DEF CheckGate, Polling, PollGoes, Reading, source, Lease!leaseVars
  <2>. QED
    BY <2>1, <2>2
<1>4. CASE LeaveFetch
  <2>1. Reading /\ ~Reading' /\ plan' = plan
    BY <1>4 DEF LeaveFetch, Polling, PollGoes, Reading, source
  <2>2. plan.generation # 0
    BY <2>1 DEF GateInv, GateTypes, GateHeld, GenerationNames
  <2>. QED
    BY <2>1, <2>2 DEF Lease!Next, Lease!Release
<1>5. CASE OnStateSrcAboutToChange \/ GateSeenClosed \/ Tracking \/ RequestStop \/ GetState
             \/ Emulation \/ UNCHANGED vars
  <2>1. UNCHANGED <<plan, ppc>>
    BY <1>5 DEF OnStateSrcAboutToChange, GateSeenClosed, Tracking, TakeReset, Decode, RequestStop,
       GetState, Emulation, CoilMoves, MemoryChanges, vars, source, cycle
  <2>. QED
    BY <2>1, LeaseFrame
<1>6. CASE Enter \/ LeaveClosed \/ Adopt \/ OnCoilStateSync \/ SyncDone \/ CoilEdge
             \/ OnGameRunningChanged \/ OnCoilChanged \/ DispatchDone
  <2>1. plan' = plan /\ (Reading <=> Reading')
    BY <1>6 DEF Enter, LeaveClosed, Adopt, OnCoilStateSync, SyncDone, CoilEdge, FirstSink,
       OnGameRunningChanged, OnCoilChanged, DispatchDone, Polling, PollGoes, Reading, source
  <2>. QED
    BY <2>1 DEF Lease!leaseVars
<1>. QED
  BY <1>1, <1>2, <1>3, <1>4, <1>5, <1>6 DEF Next, MainThread, PollThread

\* The engine implements SourceLease: what the plugin publishes is retired only
\* while the poll thread is not reading it.
THEOREM LeaseIsKept ==
  ASSUME ~AcquirePasses
  PROVE  Spec => LeaseKept
<1>1. Init => Lease!Init
  BY DEF Init, Lease!Init, NoPlan, Reading
<1>. QED
  BY <1>1, LeaseStep, GateSafety, PTL DEF Spec, LeaseKept, Lease!Spec

\* Stop joins before it returns: afterwards nobody is left to tell the host
\* anything.
THEOREM StopIsSilent ==
  ASSUME ~AcquirePasses
  PROVE  Spec => SilentAfterStop
<1>1. ASSUME GateInv, [Next]_vars
      PROVE  At("stopped") => UNCHANGED <<hostCoil, hostRunning, hostTracked>>
  <2>. SUFFICES ASSUME At("stopped")
                PROVE  UNCHANGED <<hostCoil, hostRunning, hostTracked>>
    OBVIOUS
  <2>1. ppc = "done" /\ mpc = "stopped"
    BY <1>1 DEF GateInv, GateHeld, At
  <2>2. ~PollThread
    BY <2>1 DEF PollThread, Enter, CheckGate, LeaveClosed, Adopt, GetState, LeaveFetch,
       OnCoilStateSync, SyncDone, CoilEdge, OnGameRunningChanged, OnCoilChanged, DispatchDone, Polling
  <2>3. CASE MainThread
    BY <2>1, <2>3 DEF MainThread, OnStateSrcAboutToChange, GateSeenClosed, Quiesced,
       OnStateSrcChanged, Tracking, TakeReset, Decode, RequestStop, Stopped, At, tracked, board
  <2>4. CASE Emulation \/ UNCHANGED vars
    BY <2>4 DEF Emulation, CoilMoves, MemoryChanges, vars, tracked, board
  <2>. QED
    BY <1>1, <2>2, <2>3, <2>4 DEF Next
<1>. QED
  BY <1>1, GateSafety, PTL DEF Spec, SilentAfterStop

-----------------------------------------------------------------------------
(* The data: types, and the agreement of the cache with the boards         *)

FlagTypes ==
  stopRequested \in BOOLEAN /\ syncAll \in BOOLEAN /\ resetPending \in BOOLEAN /\ hostRunning \in BOOLEAN

CoilTypes ==
  /\ numbers \in SUBSET Coils /\ todo \in SUBSET Coils /\ coil \in Coils
  /\ raw \in Levels /\ last \in Levels /\ coils \in Levels /\ hostCoil \in Levels

TrackedTypes ==
  /\ memory \in [Fields -> Values \union {Unknown}]
  /\ cache \in [Fields -> Values \union {Unknown, 0}]
  /\ hostTracked \in [Fields -> Values \union {0}]

LEMMA FlagsKeepType ==
  ASSUME FlagTypes, [Next]_vars
  PROVE  FlagTypes'
<1>1. CASE Enter \/ CheckGate \/ LeaveClosed \/ GetState \/ LeaveFetch \/ OnCoilStateSync \/ OnCoilChanged
             \/ DispatchDone \/ Emulation \/ UNCHANGED vars \/ Decode \/ GateSeenClosed \/ Quiesced \/ Stopped
             \/ OnStateSrcChanged \/ OnStateSrcAboutToChange
  BY <1>1 DEF FlagTypes, Enter, CheckGate, LeaveClosed, GetState, LeaveFetch, OnCoilStateSync, OnCoilChanged,
     DispatchDone, Emulation, CoilMoves, MemoryChanges, vars, Decode, GateSeenClosed, Quiesced, Stopped,
     OnStateSrcChanged, OnStateSrcAboutToChange, poll, tracked, board
<1>2. CASE Adopt
  <2>1. syncAll' = TRUE \/ syncAll' = syncAll
    BY <1>2 DEF Adopt, RestateAll, poll
  <2>. QED
    BY <1>2, <2>1 DEF FlagTypes, Adopt, tracked, board
<1>3. CASE SyncDone \/ TakeReset \/ RequestStop
  BY <1>3 DEF FlagTypes, SyncDone, TakeReset, RequestStop, poll, tracked, board
<1>4. CASE CoilEdge
  <2>1. PICK c \in todo : resetPending' = (resetPending \/ EndsGame(c))
    BY <1>4 DEF CoilEdge
  <2>2. resetPending' \in BOOLEAN
    BY <2>1
  <2>. QED
    BY <1>4, <2>2 DEF FlagTypes, CoilEdge, board
<1>5. CASE OnGameRunningChanged
  <2>1. hostRunning' \in BOOLEAN
    BY <1>5 DEF OnGameRunningChanged
  <2>. QED
    BY <1>5, <2>1 DEF FlagTypes, OnGameRunningChanged, poll, tracked
<1>. QED
  BY <1>1, <1>2, <1>3, <1>4, <1>5 DEF Next, MainThread, PollThread, Tracking

LEMMA CoilsKeepType ==
  ASSUME GateInv, CoilTypes, [Next]_vars
  PROVE  CoilTypes'
<1>. USE DEF CoilTypes, Levels
<1>1. CASE MainThread \/ MemoryChanges \/ UNCHANGED vars
  BY <1>1 DEF MainThread, Tracking, TakeReset, Decode, GateSeenClosed, Quiesced, Stopped, RequestStop,
     OnStateSrcChanged, OnStateSrcAboutToChange, MemoryChanges, vars, cycle, poll, rom, board
<1>2. CASE Enter \/ CheckGate \/ LeaveClosed \/ SyncDone \/ OnGameRunningChanged \/ DispatchDone
  BY <1>2 DEF Enter, CheckGate, LeaveClosed, SyncDone, OnGameRunningChanged, DispatchDone, poll, rom, board
<1>3. CASE Adopt
  <2>1. Published /\ PlansSeen = {plan} /\ plan.entries \in SUBSET Coils
    BY <1>3 DEF GateInv, GateTypes, GateHeld, Adopt, Polling, Reading, PlansSeen
  <2>2. todo' = plan.entries /\ (numbers' = plan.entries \/ numbers' = numbers)
        /\ (raw' = [c \in Coils |-> 0] \/ raw' = raw) /\ (last' = [c \in Coils |-> 0] \/ last' = last)
    BY <1>3, <2>1 DEF Adopt, poll
  <2>. QED
    BY <1>3, <2>1, <2>2 DEF Adopt, rom, board
<1>4. CASE GetState
  <2>1. Published
    BY <1>4 DEF GateInv, GateHeld, GetState, Polling, Reading
  <2>2. PICK c \in todo : todo' = todo \ {c} /\ raw' = [raw EXCEPT ![c] = coils[c]]
    BY <1>4, <2>1 DEF GetState
  <2>. QED
    BY <1>4, <2>2 DEF GetState, rom, board
<1>5. CASE LeaveFetch
  BY <1>5 DEF LeaveFetch, Changed, poll, rom, board
<1>6. CASE OnCoilStateSync
  BY <1>6 DEF OnCoilStateSync, rom
<1>7. CASE CoilEdge
  BY <1>7 DEF CoilEdge, rom, board
<1>8. CASE OnCoilChanged
  BY <1>8 DEF OnCoilChanged, poll, rom
<1>9. CASE CoilMoves
  BY <1>9 DEF CoilMoves, cycle, poll, board
<1>. QED
  BY <1>1, <1>2, <1>3, <1>4, <1>5, <1>6, <1>7, <1>8, <1>9 DEF Next, PollThread, Emulation

LEMMA TrackedKeepsType ==
  ASSUME TrackedTypes, [Next]_vars
  PROVE  TrackedTypes'
<1>. USE DEF TrackedTypes
<1>1. ASSUME NEW f \in Fields, NEW v \in Values \union {Unknown, 0}
      PROVE  Report(f, v) \in Values \union {Unknown, 0} /\ Told(f, v) \in Values \union {0}
  BY DEF Report, Told
<1>2. CASE TakeReset
  BY <1>1, <1>2 DEF TakeReset, ZeroCache, rom
<1>3. CASE Decode
  BY <1>1, <1>3 DEF Decode, rom
<1>4. CASE MemoryChanges
  BY <1>4 DEF MemoryChanges, tracked
<1>5. CASE PollThread \/ CoilMoves \/ UNCHANGED vars
  BY <1>5 DEF PollThread, Enter, CheckGate, LeaveClosed, Adopt, GetState, LeaveFetch, OnCoilStateSync,
     SyncDone, CoilEdge, OnGameRunningChanged, OnCoilChanged, DispatchDone, CoilMoves, vars, rom, tracked
<1>6. CASE OnStateSrcAboutToChange \/ GateSeenClosed \/ Quiesced \/ OnStateSrcChanged \/ RequestStop \/ Stopped
  BY <1>6 DEF OnStateSrcAboutToChange, GateSeenClosed, Quiesced, OnStateSrcChanged, RequestStop, Stopped,
     rom, tracked
<1>. QED
  BY <1>2, <1>3, <1>4, <1>5, <1>6 DEF Next, MainThread, Tracking, Emulation

\* Where the cache and the boards agree during a poll: but for a plan that is
\* still to be restated, everywhere; but for the coil in hand, in a dispatch.
CacheAgrees ==
  /\ syncAll => ppc \in {"fetch", "sync"}
  /\ ppc = "sync" => syncAll
  /\ ppc = "sync" => \A c \in numbers \ todo : hostCoil[c] = last[c]
  /\ ~syncAll /\ ppc \notin {"running", "coil"} => \A c \in numbers : hostCoil[c] = last[c]
  /\ ppc \in {"running", "coil"} =>
       raw[coil] = last[coil] /\ \A c \in numbers \ {coil} : hostCoil[c] = last[c]

LEMMA CacheStaysAgreed ==
  ASSUME GateInv, CoilTypes, FlagTypes, CacheAgrees, [Next]_vars
  PROVE  CacheAgrees'
<1>. USE DEF CacheAgrees, Polling, PollGoes
<1>1. CASE MainThread \/ Emulation \/ UNCHANGED vars
  BY <1>1 DEF MainThread, Tracking, TakeReset, Decode, GateSeenClosed, Quiesced, Stopped, RequestStop,
     OnStateSrcChanged, OnStateSrcAboutToChange, Emulation, CoilMoves, MemoryChanges, vars, cycle, poll, board
<1>2. CASE Enter \/ CheckGate \/ LeaveClosed \/ DispatchDone \/ OnGameRunningChanged
  BY <1>2 DEF Enter, CheckGate, LeaveClosed, DispatchDone, OnGameRunningChanged, poll, board
<1>3. CASE Adopt
  <2>1. ppc = "adopt" /\ ppc' = "fetch" /\ ~syncAll /\ UNCHANGED hostCoil
    BY <1>3 DEF Adopt, board
  <2>2. syncAll' \/ UNCHANGED <<syncAll, numbers, last>>
    BY <1>3 DEF Adopt, RestateAll, poll
  <2>. QED
    BY <2>1, <2>2
<1>4. CASE GetState
  BY <1>4 DEF GetState, board
<1>5. CASE LeaveFetch
  BY <1>5 DEF LeaveFetch, poll, board
<1>6. CASE OnCoilStateSync
  <2>1. PICK c \in todo : /\ todo' = todo \ {c}
                          /\ last' = [last EXCEPT ![c] = raw[c]]
                          /\ hostCoil' = [hostCoil EXCEPT ![c] = raw[c]]
    BY <1>6 DEF OnCoilStateSync
  <2>2. ppc = "sync" /\ UNCHANGED <<ppc, syncAll, numbers>> /\ c \in Coils
    BY <1>6, <2>1 DEF OnCoilStateSync, CoilTypes
  <2>3. \A d \in numbers \ todo' : hostCoil'[d] = last'[d]
    BY <2>1, <2>2 DEF CoilTypes, Levels
  <2>. QED
    BY <2>2, <2>3
<1>7. CASE SyncDone
  BY <1>7 DEF SyncDone, board
<1>8. CASE CoilEdge
  <2>1. PICK c \in todo : last' = [last EXCEPT ![c] = raw[c]] /\ coil' = c /\ ppc' \in {"running", "coil"}
    BY <1>8 DEF CoilEdge, FirstSink
  <2>2. ppc = "dispatch" /\ ~syncAll /\ UNCHANGED <<syncAll, numbers, raw, hostCoil>> /\ c \in Coils
    BY <1>8, <2>1 DEF CoilEdge, board, CoilTypes
  <2>3. raw'[coil'] = last'[coil'] /\ \A d \in numbers' \ {coil'} : hostCoil'[d] = last'[d]
    BY <2>1, <2>2 DEF CoilTypes, Levels
  <2>. QED
    BY <2>1, <2>2, <2>3
<1>9. CASE OnCoilChanged
  <2>1. \A d \in numbers : hostCoil'[d] = last[d]
    BY <1>9 DEF OnCoilChanged, CoilTypes, Levels
  <2>. QED
    BY <1>9, <2>1 DEF OnCoilChanged, poll
<1>. QED
  BY <1>1, <1>2, <1>3, <1>4, <1>5, <1>6, <1>7, <1>8, <1>9 DEF Next, PollThread

WithinBound == generation \in 0..MaxGeneration

LEMMA BoundKept ==
  ASSUME GateInv, WithinBound, [Next]_vars
  PROVE  WithinBound'
<1>1. CASE OnStateSrcChanged
  BY <1>1, EngineAssumption DEF WithinBound, OnStateSrcChanged, NextGeneration
<1>2. CASE OnStateSrcAboutToChange \/ GateSeenClosed \/ Quiesced \/ Tracking \/ RequestStop \/ Stopped
             \/ PollThread \/ Emulation \/ UNCHANGED vars
  BY <1>2 DEF WithinBound, OnStateSrcAboutToChange, GateSeenClosed, Quiesced, Tracking, TakeReset, Decode,
     RequestStop, Stopped, PollThread, Enter, CheckGate, LeaveClosed, Adopt, GetState, LeaveFetch,
     OnCoilStateSync, SyncDone, CoilEdge, OnGameRunningChanged, OnCoilChanged, DispatchDone, Emulation,
     CoilMoves, MemoryChanges, vars, source
<1>. QED
  BY <1>1, <1>2 DEF Next, MainThread

PollInv == FlagTypes /\ CoilTypes /\ TrackedTypes /\ CacheAgrees /\ WithinBound

LEMMA PollInit == Init => PollInv
<1>. SUFFICES ASSUME Init PROVE PollInv
  OBVIOUS
<1>1. FlagTypes
  BY DEF Init, FlagTypes
<1>2. CoilTypes
  BY EngineAssumption DEF Init, CoilTypes, Levels
<1>3. TrackedTypes
  BY DEF Init, TrackedTypes
<1>4. CacheAgrees
  BY DEF Init, CacheAgrees
<1>5. WithinBound
  BY EngineAssumption DEF Init, WithinBound
<1>. QED
  BY <1>1, <1>2, <1>3, <1>4, <1>5 DEF PollInv

LEMMA PollStep ==
  ASSUME GateInv, PollInv, [Next]_vars
  PROVE  PollInv'
BY FlagsKeepType, CoilsKeepType, TrackedKeepsType, CacheStaysAgreed, BoundKept DEF PollInv

LEMMA TypesFollow ==
  ASSUME GateInv, PollInv
  PROVE  TypeOK
<1>1. plan \in [generation: 0..MaxGeneration, entries: SUBSET Coils]
  <2>1. plan \in [generation: Nat, entries: SUBSET Coils] /\ plan.generation \in 0..MaxGeneration
    <3>1. CASE Published
      BY <3>1 DEF GateInv, GateTypes, GenerationNames, PollInv, WithinBound
    <3>2. CASE ~Published
      BY <3>2, EngineAssumption DEF Published, NoPlan, GateInv, GateTypes
    <3>. QED
      BY <3>1, <3>2
  <2>. QED
    BY <2>1
<1>2. generation \in 0..MaxGeneration /\ localGeneration \in 0..MaxGeneration /\ gateActive \in {0, 1}
  BY EngineAssumption DEF GateInv, GateTypes, GateHeld, GenerationNames, PollInv, WithinBound
<1>3. gateOpen \in BOOLEAN /\ late \in BOOLEAN /\ mpc \in Places.main /\ ppc \in Places.poll
  BY DEF GateInv, GateTypes
<1>. QED
  BY <1>1, <1>2, <1>3 DEF TypeOK, PollInv, FlagTypes, CoilTypes, TrackedTypes

\* PollThreadMain (PluginEngine.cpp:435): a poll reads the plan it laid its
\* buffers out for, and between two polls the boards hold what its cache says,
\* so no change of a coil is taken for no change.
THEOREM PollStaysSound ==
  ASSUME ~AcquirePasses
  PROVE  Spec => []PollIsSound
<1>1. GateInv /\ PollInv => PollIsSound
  <2>. SUFFICES ASSUME GateInv, PollInv PROVE PollIsSound
    OBVIOUS
  <2>1. TypeOK
    BY TypesFollow
  <2>2. FetchInBounds
    BY DEF GateInv, GateHeld, GenerationNames, FetchInBounds, Polling, Reading
  <2>3. CacheMatchesBoards
    BY DEF PollInv, CacheAgrees, CacheMatchesBoards, Polling
  <2>. QED
    BY <2>1, <2>2, <2>3 DEF PollIsSound
<1>2. Init => PollInv
  BY PollInit
<1>3. GateInv /\ PollInv /\ [Next]_vars => PollInv'
  BY PollStep
<1>. QED
  BY <1>1, <1>2, <1>3, GateSafety, PTL DEF Spec

-----------------------------------------------------------------------------
(* The order of the sinks                                                  *)

\* From the edge of the game-on coil to the coil sink: the game is told first.
GameTold ==
  /\ ppc = "running" => coil = GameOn
  /\ ppc = "coil" /\ coil = GameOn => (hostRunning <=> raw[GameOn] # 0)

LEMMA GameToldKept ==
  ASSUME GameTold, [Next]_vars
  PROVE  GameTold'
<1>. USE DEF GameTold, Polling, PollGoes
<1>1. CASE MainThread \/ Emulation \/ UNCHANGED vars
  BY <1>1 DEF MainThread, Tracking, TakeReset, Decode, GateSeenClosed, Quiesced, Stopped, RequestStop,
     OnStateSrcChanged, OnStateSrcAboutToChange, Emulation, CoilMoves, MemoryChanges, vars, cycle, poll, board
<1>2. CASE Enter \/ CheckGate \/ LeaveClosed \/ Adopt \/ LeaveFetch \/ SyncDone \/ OnCoilChanged \/ DispatchDone
  BY <1>2 DEF Enter, CheckGate, LeaveClosed, Adopt, LeaveFetch, SyncDone, OnCoilChanged, DispatchDone
<1>3. CASE GetState \/ OnCoilStateSync
  BY <1>3 DEF GetState, OnCoilStateSync
<1>4. CASE CoilEdge
  BY <1>4 DEF CoilEdge, FirstSink
<1>5. CASE OnGameRunningChanged
  BY <1>5 DEF OnGameRunningChanged, poll
<1>. QED
  BY <1>1, <1>2, <1>3, <1>4, <1>5 DEF Next, PollThread

\* PollThreadMain (PluginEngine.cpp): a rules handler that reacts to the game-on
\* coil already finds the game running, or over.
THEOREM GameIsToldFirst ==
  ASSUME ~AcquirePasses
  PROVE  Spec => RulesSeeGame
<1>1. Init => PollInv /\ GameTold
  BY PollInit DEF Init, GameTold
<1>2. ASSUME GateInv, PollInv, GameTold, [Next]_vars
      PROVE  Polling("coil") /\ ppc' # ppc /\ coil = GameOn => (hostRunning <=> hostCoil'[GameOn] = 1)
  <2>. SUFFICES ASSUME ppc = "coil", ppc' # ppc, coil = GameOn
                PROVE  hostRunning <=> hostCoil'[GameOn] = 1
    BY DEF Polling
  <2>1. OnCoilChanged
    <3>1. CASE MainThread \/ Emulation \/ UNCHANGED vars
      BY <3>1 DEF MainThread, Tracking, TakeReset, Decode, GateSeenClosed, Quiesced, Stopped, RequestStop,
         OnStateSrcChanged, OnStateSrcAboutToChange, Emulation, CoilMoves, MemoryChanges, vars, cycle
    <3>2. CASE PollThread
      BY <3>2 DEF PollThread, Enter, CheckGate, LeaveClosed, Adopt, GetState, LeaveFetch, OnCoilStateSync,
         SyncDone, CoilEdge, OnGameRunningChanged, DispatchDone, Polling
    <3>. QED
      BY <1>2, <3>1, <3>2 DEF Next
  <2>2. raw \in Levels /\ hostCoil \in Levels /\ GameOn \in Coils
    BY <1>2, EngineAssumption DEF PollInv, CoilTypes
  <2>3. hostCoil'[GameOn] = raw[GameOn] /\ raw[GameOn] \in {0, 1}
    BY <2>1, <2>2 DEF OnCoilChanged, Levels
  <2>. QED
    BY <1>2, <2>3 DEF GameTold
<1>3. GateInv /\ PollInv /\ GameTold /\ [Next]_vars => PollInv' /\ GameTold'
  BY PollStep, GameToldKept
<1>. QED
  BY <1>1, <1>2, <1>3, GateSafety, PTL DEF Spec, RulesSeeGame
=============================================================================
