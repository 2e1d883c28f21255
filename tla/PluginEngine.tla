----------------------------- MODULE PluginEngine -----------------------------
(***************************************************************************)
(* The engine that runs a ROM (src/PluginEngine.cpp): a poll thread that   *)
(* reads the coils and tells the host about them, the main thread that     *)
(* replaces the coil plan when the plugin changes its sources and that     *)
(* reports the ball and the player, and the gate between the two.          *)
(*                                                                         *)
(* A step is one access to what the threads share. `mpc` and `ppc` are the *)
(* places of the main thread and of the poll thread. The poll thread may   *)
(* take the coils of its plan in any order.                                *)
(***************************************************************************)
EXTENDS Integers

CONSTANTS
  Coils, GameOn,         \* GameOn: m_options.gameOnSolenoid
  Publications,          \* the sets of coils the plugin may publish
  Fields, Values,        \* what the NVRAM map tracks, and its decoded values
  MaxGeneration,         \* bound: publications
  AcquirePasses          \* an acquire load may overtake an earlier seq_cst store

NoPlan == [generation |-> 0, entries |-> {}]
Unknown == -1            \* never reported, or a byte that does not decode

ASSUME EngineAssumption ==
  /\ GameOn \in Coils
  /\ Publications \subseteq SUBSET Coils
  /\ Values \subseteq Nat
  /\ MaxGeneration \in Nat
  /\ AcquirePasses \in BOOLEAN

VARIABLES
  mpc, plan, generation,            \* m_coilPlan; s_generation
  gateOpen, gateActive,             \* m_gateOpen, m_gateActive
  late,                             \* the store that closes the gate is not yet seen
  stopRequested,
  ppc, localGeneration, syncAll, numbers, raw, last,     \* PollThreadMain
  todo, coil,                       \* the loop over the coils: still to come, current
  coils, memory,                    \* external: what the ROM drives and remembers
  resetPending, cache,              \* m_trackingResetPending; m_lastBall, m_lastPlayer
  hostCoil, hostRunning, hostTracked                     \* what the host was told

gate    == <<gateOpen, gateActive, late>>
source  == <<plan, generation>>
cycle   == <<ppc, todo, coil>>
poll    == <<localGeneration, syncAll, numbers, raw, last>>
rom     == <<coils, memory>>
tracked == <<resetPending, cache, hostTracked>>
board   == <<hostCoil, hostRunning>>
vars == <<mpc, stopRequested, gate, source, cycle, poll, rom, tracked, board>>

At(place) == mpc = place
Polling(place) == ppc = place
PollGoes(place) == ppc' = place
Published == plan # NoPlan

-----------------------------------------------------------------------------
(* Main thread: the sources change                                         *)

\* The store of m_gateOpen and the load of m_gateActive are to two objects, and
\* only the store is seq_cst.
OnStateSrcAboutToChange ==
  /\ At("loop") /\ Published /\ generation < MaxGeneration
  /\ mpc' = "closing"
  /\ \/ gateOpen' = FALSE /\ UNCHANGED <<gateActive, late>>
     \/ AcquirePasses /\ late' = TRUE /\ UNCHANGED <<gateOpen, gateActive>>
  /\ UNCHANGED <<stopRequested, source, cycle, poll, rom, tracked, board>>

GateSeenClosed ==
  /\ late
  /\ late' = FALSE /\ gateOpen' = FALSE
  /\ UNCHANGED <<mpc, stopRequested, gateActive, source, cycle, poll, rom, tracked, board>>

FetchOver_bug == TRUE                   \* closes the gate and does not wait
FetchOver == gateActive = 0

\* The wait is over: the plan goes, and on return the plugin frees its memory.
Quiesced ==
  /\ At("closing") /\ FetchOver
  /\ plan' = NoPlan
  /\ mpc' = "quiet"
  /\ UNCHANGED <<stopRequested, gate, generation, cycle, poll, rom, tracked, board>>

NextGeneration == generation + 1

\* The first publication finds no plan; every later one follows the handshake.
OnStateSrcChanged ==
  /\ \/ At("quiet")
     \/ At("loop") /\ ~Published
  /\ ~late /\ generation < MaxGeneration
  /\ generation' = NextGeneration
  /\ \E entries \in Publications :
       plan' = [generation |-> generation', entries |-> entries]
  /\ gateOpen' = TRUE
  /\ mpc' = "loop"
  /\ UNCHANGED <<stopRequested, gateActive, late, cycle, poll, rom, tracked, board>>

-----------------------------------------------------------------------------
(* Main thread: PollTrackedState, part of Update                           *)

\* What is to be reported and differs from the cache is reported, and only that.
Report(f, value) == IF value = Unknown THEN cache[f] ELSE value
Told(f, value) == IF Report(f, value) = cache[f] THEN hostTracked[f] ELSE value

ZeroCache_bug == cache           \* the host is told behind the cache's back
ZeroCache == [f \in Fields |-> 0]

TakeReset ==
  /\ At("loop")
  /\ resetPending' = FALSE
  /\ IF resetPending
     THEN cache' = ZeroCache /\ hostTracked' = [f \in Fields |-> Told(f, 0)]
     ELSE UNCHANGED <<cache, hostTracked>>
  /\ mpc' = "decode"
  /\ UNCHANGED <<stopRequested, gate, source, cycle, poll, rom, board>>

Decode ==
  /\ At("decode")
  /\ cache' = [f \in Fields |-> Report(f, memory[f])]
  /\ hostTracked' = [f \in Fields |-> Told(f, memory[f])]
  /\ mpc' = "loop"
  /\ UNCHANGED <<stopRequested, gate, source, cycle, poll, rom, resetPending, board>>

-----------------------------------------------------------------------------
(* Main thread: Stop                                                       *)

RequestStop ==
  /\ At("loop")
  /\ stopRequested' = TRUE
  /\ mpc' = "stopping"
  /\ UNCHANGED <<gate, source, cycle, poll, rom, tracked, board>>

Joined_bug == TRUE
Joined == Polling("done")

\* After the join the sources are unsubscribed and the plan goes.
Stopped ==
  /\ At("stopping") /\ Joined
  /\ plan' = NoPlan
  /\ mpc' = "stopped"
  /\ UNCHANGED <<stopRequested, gate, generation, cycle, poll, rom, tracked, board>>

-----------------------------------------------------------------------------
(* Poll thread: the fetch phase                                            *)

Enter ==
  /\ Polling("enter")
  /\ IF stopRequested
     THEN PollGoes("done") /\ UNCHANGED gateActive
     ELSE PollGoes("check") /\ gateActive' = gateActive + 1
  /\ UNCHANGED <<mpc, stopRequested, gateOpen, late, source, todo, coil, poll, rom, tracked, board>>

CheckGate ==
  /\ Polling("check")
  /\ PollGoes(IF gateOpen THEN "adopt" ELSE "closed")
  /\ UNCHANGED <<mpc, stopRequested, gate, source, todo, coil, poll, rom, tracked, board>>

LeaveGate == gateActive' = gateActive - 1

\* Waits inside the gate until it opens.
LeaveClosed_bug ==
  /\ Polling("closed") /\ PollGoes("check")
  /\ UNCHANGED <<mpc, stopRequested, gate, source, todo, coil, poll, rom, tracked, board>>

LeaveClosed ==
  /\ Polling("closed")
  /\ LeaveGate
  /\ localGeneration' = 0
  /\ PollGoes("enter")
  /\ UNCHANGED <<mpc, stopRequested, gateOpen, late, source, todo, coil, syncAll, numbers,
                 raw, last, rom, tracked, board>>

\* What lies behind m_coilPlan: the plan, and anything once it is gone.
PlansSeen ==
  IF Published THEN {plan} ELSE [generation: 1..generation, entries: Publications]

RestateAll_bug == UNCHANGED syncAll
RestateAll == syncAll' = TRUE

Adopt ==
  /\ Polling("adopt")
  /\ \E seen \in PlansSeen :
       /\ todo' = seen.entries
       /\ IF seen.generation # localGeneration
          THEN /\ localGeneration' = seen.generation
               /\ numbers' = seen.entries
               /\ raw' = [c \in Coils |-> 0] /\ last' = [c \in Coils |-> 0]
               /\ RestateAll
          ELSE UNCHANGED poll
  /\ PollGoes("fetch")
  /\ UNCHANGED <<mpc, stopRequested, gate, source, coil, rom, tracked, board>>

GetState ==
  /\ Polling("fetch")
  /\ \E c \in todo :
       /\ todo' = todo \ {c}
       /\ \E value \in IF Published THEN {coils[c]} ELSE {0, 1} : raw' = [raw EXCEPT ![c] = value]
  /\ UNCHANGED <<mpc, stopRequested, gate, source, ppc, coil, localGeneration, syncAll, numbers,
                 last, rom, tracked, board>>

Changed == {c \in numbers : raw[c] # last[c]}

LeaveFetch ==
  /\ Polling("fetch") /\ todo = {}
  /\ LeaveGate
  /\ IF syncAll THEN PollGoes("sync") /\ todo' = numbers
                ELSE PollGoes("dispatch") /\ todo' = Changed
  /\ UNCHANGED <<mpc, stopRequested, gateOpen, late, source, coil, poll, rom, tracked, board>>

-----------------------------------------------------------------------------
(* Poll thread: the dispatch phase                                         *)

OnCoilStateSync ==
  /\ Polling("sync")
  /\ \E c \in todo :
       /\ todo' = todo \ {c}
       /\ last' = [last EXCEPT ![c] = raw[c]]
       /\ hostCoil' = [hostCoil EXCEPT ![c] = raw[c]]
  /\ UNCHANGED <<mpc, stopRequested, gate, source, ppc, coil, localGeneration, syncAll, numbers,
                 raw, rom, tracked, hostRunning>>

\* Nothing is left to dispatch after a sync: every coil was just stated.
SyncDone ==
  /\ Polling("sync") /\ todo = {}
  /\ syncAll' = FALSE
  /\ resetPending' = TRUE
  /\ PollGoes("dispatch")
  /\ UNCHANGED <<mpc, stopRequested, gate, source, todo, coil, localGeneration, numbers, raw,
                 last, rom, cache, hostTracked, board>>

EndsGame_bug(c) == FALSE
EndsGame(c) == c = GameOn /\ raw[c] = 0

\* The first sink of an edge: the game for the game-on coil, else the coil.
FirstSink_bug(c) == "coil"
FirstSink(c) == IF c = GameOn THEN "running" ELSE "coil"

CoilEdge ==
  /\ Polling("dispatch")
  /\ \E c \in todo :
       /\ todo' = todo \ {c} /\ coil' = c
       /\ last' = [last EXCEPT ![c] = raw[c]]
       /\ resetPending' = (resetPending \/ EndsGame(c))
       /\ PollGoes(FirstSink(c))
  /\ UNCHANGED <<mpc, stopRequested, gate, source, localGeneration, syncAll, numbers, raw, rom,
                 cache, hostTracked, board>>

OnGameRunningChanged ==
  /\ Polling("running")
  /\ hostRunning' = (raw[coil] # 0)
  /\ PollGoes("coil")
  /\ UNCHANGED <<mpc, stopRequested, gate, source, todo, coil, poll, rom, tracked, hostCoil>>

OnCoilChanged ==
  /\ Polling("coil")
  /\ hostCoil' = [hostCoil EXCEPT ![coil] = raw[coil]]
  /\ PollGoes("dispatch")
  /\ UNCHANGED <<mpc, stopRequested, gate, source, todo, coil, poll, rom, tracked, hostRunning>>

DispatchDone ==
  /\ Polling("dispatch") /\ todo = {}
  /\ PollGoes("enter")
  /\ UNCHANGED <<mpc, stopRequested, gate, source, todo, coil, poll, rom, tracked, board>>

-----------------------------------------------------------------------------
(* The emulation thread                                                    *)

CoilMoves ==
  /\ \E c \in Coils : coils' = [coils EXCEPT ![c] = 1 - @]
  /\ UNCHANGED <<mpc, stopRequested, gate, source, cycle, poll, memory, tracked, board>>

MemoryChanges ==
  /\ \E f \in Fields, v \in Values \union {Unknown} :
       v # memory[f] /\ memory' = [memory EXCEPT ![f] = v]
  /\ UNCHANGED <<mpc, stopRequested, gate, source, cycle, poll, coils, tracked, board>>

-----------------------------------------------------------------------------

\* Start: the thread is spawned with the gate shut and no plan. The boards may
\* still hold the coils of an earlier session.
Init ==
  /\ mpc = "loop" /\ plan = NoPlan /\ generation = 0
  /\ gateOpen = FALSE /\ gateActive = 0 /\ late = FALSE
  /\ stopRequested = FALSE
  /\ ppc = "enter" /\ todo = {} /\ coil = GameOn
  /\ localGeneration = 0 /\ syncAll = FALSE /\ numbers = {}
  /\ raw = [c \in Coils |-> 0] /\ last = [c \in Coils |-> 0]
  /\ coils = [c \in Coils |-> 0]
  /\ memory \in [Fields -> {Unknown}]
  /\ resetPending = FALSE /\ cache = [f \in Fields |-> Unknown]
  /\ hostTracked = [f \in Fields |-> 0]
  /\ hostCoil \in [Coils -> {0, 1}]
  /\ hostRunning = FALSE

PollThread ==
  \/ Enter \/ CheckGate \/ LeaveClosed \/ Adopt \/ GetState \/ LeaveFetch
  \/ OnCoilStateSync \/ SyncDone
  \/ CoilEdge \/ OnGameRunningChanged \/ OnCoilChanged \/ DispatchDone

\* The steps the main thread does not choose: it goes on with what it began.
Handshake ==
  \/ GateSeenClosed \/ Quiesced \/ Stopped
  \/ At("quiet") /\ OnStateSrcChanged
Tracking == TakeReset \/ Decode

MainThread ==
  \/ OnStateSrcAboutToChange \/ GateSeenClosed \/ Quiesced \/ OnStateSrcChanged
  \/ Tracking \/ RequestStop \/ Stopped

Emulation == CoilMoves \/ MemoryChanges

Next == MainThread \/ PollThread \/ Emulation

Spec == Init /\ [][Next]_vars

\* Both threads are scheduled, and an iteration of the main loop reaches Update.
\* The wait for the fetch is a spin on a counter that goes up again with every
\* poll; the poll thread sleeps outside the gate for most of its period, so a
\* counter that is zero again and again is seen to be zero.
FairSpec ==
  /\ Spec
  /\ WF_vars(PollThread) /\ WF_vars(Handshake) /\ WF_vars(Tracking)
  /\ SF_vars(Quiesced)

-----------------------------------------------------------------------------
(* Properties                                                              *)

Places == [main |-> {"loop", "closing", "quiet", "decode", "stopping", "stopped"},
           poll |-> {"enter", "check", "closed", "adopt", "fetch", "sync", "dispatch",
                     "running", "coil", "done"}]
Levels == [Coils -> {0, 1}]

\* Every variable has its type; two threads never are inside the gate.
TypeOK ==
  /\ mpc \in Places.main /\ ppc \in Places.poll
  /\ plan \in [generation: 0..MaxGeneration, entries: SUBSET Coils]
  /\ generation \in 0..MaxGeneration /\ localGeneration \in 0..MaxGeneration
  /\ gateOpen \in BOOLEAN /\ late \in BOOLEAN /\ gateActive \in {0, 1}
  /\ stopRequested \in BOOLEAN /\ syncAll \in BOOLEAN
  /\ numbers \in SUBSET Coils /\ todo \in SUBSET Coils /\ coil \in Coils
  /\ raw \in Levels /\ last \in Levels /\ coils \in Levels /\ hostCoil \in Levels
  /\ memory \in [Fields -> Values \union {Unknown}]
  /\ cache \in [Fields -> Values \union {Unknown, 0}]
  /\ hostTracked \in [Fields -> Values \union {0}]
  /\ resetPending \in BOOLEAN /\ hostRunning \in BOOLEAN

Reading == ppc \in {"adopt", "fetch"}

\* "Wait for the poll thread to leave its fetch phase": while the thread is in
\* the fetch phase the plan exists, so the plugin has freed nothing of it.
FetchSafe == Reading => Published

\* The buffers fit the plan: the coils that are read are the ones that the
\* numbers and the caches were laid out for.
FetchInBounds ==
  Polling("fetch") => numbers = plan.entries /\ localGeneration = plan.generation

\* The engine keeps the promise of SourceLease.
Lease == INSTANCE SourceLease WITH
  live <- plan.generation,
  held <- IF Reading THEN plan.generation ELSE 0
LeaseKept == Lease!Spec

\* Between two polls the boards hold what the cache says, whatever they held
\* when the plan was replaced: a later change is never taken for no change.
CacheMatchesBoards ==
  Polling("enter") => \A c \in numbers : hostCoil[c] = last[c]

\* A poll works on the plan it fetched, and leaves the cache and the boards agreed.
PollIsSound == TypeOK /\ FetchInBounds /\ CacheMatchesBoards

\* "A rules handler reacting to the coil must already see the new attract state."
RulesSeeGame ==
  [][Polling("coil") /\ ppc' # ppc /\ coil = GameOn => (hostRunning <=> hostCoil'[GameOn] = 1)]_vars

\* "The guarantee that no sink fires during teardown."
SilentAfterStop == [][At("stopped") => UNCHANGED <<hostCoil, hostRunning, hostTracked>>]_vars

\* The plugin that is about to change its sources is not kept waiting.
QuiesceEnds == At("closing") ~> At("quiet")

\* Stop returns: the poll thread sees the request.
StopEnds == At("stopping") ~> At("stopped")

\* Neither of the threads that wait for the poll thread waits for good.
WaitsEnd == QuiesceEnds /\ StopEnds

Listed(c) == c \in plan.entries /\ ~stopRequested

\* A coil that the ROM leaves alone and the plugin publishes reaches the boards,
\* through every change of the sources before that.
CoilReachesBoards ==
  \A c \in Coils, level \in {0, 1} :
    <>[](Listed(c) /\ coils[c] = level) => <>[](hostCoil[c] = level)

\* A value that the ROM keeps is reported in the end, whatever was reported
\* before and however many games have ended since.
TrackedReachesHost ==
  \A f \in Fields, v \in Values :
    <>[](~stopRequested /\ memory[f] = v) => []<>(hostTracked[f] = v)

\* "A game ending is the one moment the ball and the player go to zero, and this
\* engine reports that like any other change."
GameEndIsReported ==
  Polling("dispatch") /\ GameOn \in todo /\ raw[GameOn] = 0
    ~> stopRequested \/ \A f \in Fields : hostTracked[f] = 0

-----------------------------------------------------------------------------
(* What comments say and the code does not do                              *)

\* "A game that has ended has no ball and no player, and this engine says so":
\* when the last game is over the host is not left with a ball for good.
NoBallAfterGame ==
  <>hostRunning /\ <>[](~hostRunning /\ ~stopRequested /\ coils[GameOn] = 0) =>
    []<>(\A f \in Fields : hostTracked[f] = 0)

\* "A restarted game must not inherit the previous run's edge state": when the
\* boards hold the game-on coil off for good, the host has left the game.
RunningFollowsCoil ==
  <>[](Listed(GameOn) /\ coils[GameOn] = 0) => <>[](~hostRunning)

=============================================================================
