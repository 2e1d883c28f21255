# PPUC: a verification development

TLA+ models of the host program of the PPUC pinball controller, model-checked with
TLC and, where it matters most, proved with TLAPS. Paths are relative to the
repository; `ppuc.cpp` is `src/src/ppuc.cpp`, and file names without a directory
are in `src/src/`.

Contents: [1 the system](#1-the-system), [2 the plan](#2-the-plan),
[3 the modules](#3-the-modules-and-the-code), [4 the runs](#4-the-runs),
[5 the proofs](#5-the-proofs), [6 where code and comments disagree](#6-where-the-code-and-its-comments-disagree),
[7 limits](#7-what-is-not-modelled).

## 1. The system

PPUC replaces the electronics of a pinball machine. The host program talks to I/O
boards over a bus (libppuc, external), to an *engine* that decides the game, to a
Lua rules engine, and to sound, displays and light. There are two engines behind
one interface (`GameEngine.h`): `ScriptEngine` runs a game that is written for PPUC
(`game/GameCore`), `PluginEngine` runs the original ROM in the PinMAME plugin.

One iteration of the main loop (`ppuc.cpp:9085-9480`) does, in this order: exit and
lost-board checks; every switch that changed, one by one, through monitor, slides,
song picker, trough watch, ball search, assist and rules to the engine; ball search;
trough watch; NVRAM save; `pEngine->Update()`, which reports game state, ball and
player; changed lamps and GI; rules; assist events; interceptor; bus, media,
rendering. With a ROM there is a second thread, the plugin engine's poll thread,
which calls the host, the rules and the assist directly; emulation and audio run on
threads of their own.

### 1.1 Inventory

| component | state it keeps | operations | talks to | what is hard | modelled in |
|---|---|---|---|---|---|
| `game/GameCore` | state and deadline, player records, trough debounce, tilt, credits, kick counter | `OnSwitch`, `Update`, the `ppuc.game.*` calls | ScriptEngine, rules | order of edges, passes and rule calls; every wait needs a deadline; hand-over between players | `GameCore` |
| `game/PlayfieldAssist` | warnings, tilt flag, save window, event queue | `ProcessSwitch`, `Update`, `OnBallStart`, `SetPlayActive`, grants | main loop, both engines; the poll thread too | keeps its own idea of ball, player and tilt; saves overlap | `PlayfieldAssist` |
| `BallTroughWatch` | age of the trough closure, closing owed | `NoteSwitch`, `Update` | main loop, engine | shows the engine edges that did not happen | `BallTroughWatch` |
| `ScriptEngine` + main loop | last reported game, ball, player | `Update`, `SendSwitch` | GameCore, host | order of the reports; hits decided before and told after the update | `ScriptMachine` |
| `PluginEngine` | gate, coil plan, poll thread's buffers, tracked ball and player | `OnStateSrcAboutToChange`, `OnStateSrcChanged`, `PollThreadMain`, `Update`, `Stop` | PinMAME plugin, host | two threads, atomics, memory that the plugin frees | `PluginEngine` |
| `LuaRulesEngine` | switch states, suppressed openings, scheduled callbacks, trigger history | `ProcessSwitchState`, `ProcessCoilState`, `Update`, the `ppuc.*` calls | main loop, poll thread (one mutex) | callbacks that call back; an opening that follows a suppressed closing; failures on the other thread | `RulesEngine`, `TriggerHistory` |
| `InterceptorOutputOverrides` (`ppuc.cpp:580-746`), ball search (`ppuc.cpp:1241-1401`) | pulses and engine intent per coil, blinking lamps; idle time, step | coil from the engine, pulse from the rules, `Service` | both threads (mutex), bus | a pulse or a search that ends must give the coil back | `OutputOverrides` |
| `AudioLanes`, `AudioMixer`, the sources of `AudioOutput` | override chains, queues | sources change, block delivered, block mixed | plugin bus, SDL threads | audibility under Fallback; queues at their limits | `AudioOutput` |
| playlist, song picker | track, gap, enabled; selection, offer | game begins and ends, test, buttons, track ends | audio thread, main loop | who may switch the music off and on again | `SongPicker` |
| service menu and tests | overlay, test, walk, high power | keys | main loop, bus, engine | every way out must release what is held | `ServiceTools` |
| translite, attract slides, overlays | render queue, slide show, windows | requests, keys, switches, drawing | main loop | three owners of one screen | `Screens` |
| `MediaPluginHost` | event queue, controller, B2S server | reports, `Process`, games | plugins, three threads | a queue at its limit, batches | `MediaHost` |
| bench tests | steps, runner, table of switches | per step, keys, signals | bus | an end in the middle of a step | `BenchTest` |
| start and end of the program | boards, images, hooks | questions, flashing, restart, signals | bus, launcher | boards that answer late or not at all | `Startup` |
| options, `ppuc.ini`, folder | flags, values and their sources | four readings | main | sources that override each other in different orders | `Settings` |
| `RomSpeedTracker` | two windows, last value sent | `Update` | PluginEngine, bus | parts of windows, late loops, lost frames | `RomSpeedTracker` |
| `LedStringWalk`, `SegmentDigitDecode`, `DmdSourceSelect`, DMD drawing, YAML/JSON loaders, speech, `menu.cpp`, `backbox.cpp` | files, surfaces, cursors | parsing, drawing, processes | OS | I/O | not modelled, section 7 |

### 1.2 What makes each part correct

- **GameCore**: nobody plays out of turn, too often or too little; flippers, GI and
  the game-on coil follow the tilt and the game on every path; trough chatter never
  ends a ball; no state waits without a deadline; each replay threshold is awarded.
- **PlayfieldAssist**: allowances and limits hold; a save is never cut short by
  another; a tilted ball is never rescued; a ball has one triggered save.
- **BallTroughWatch**: what it shows the engine is never a ball that is not there
  nor a serve that did not happen, and a hidden ball is found.
- **ScriptEngine and loop**: the two tilt flags (game, assist) agree.
- **PluginEngine**: the plan is read only while it exists; a source change and
  `Stop()` end; the boards and the host end up with what the ROM has.
- **Rules**: a hidden closing hides exactly its opening; delayed work is done, in its
  order; guarded work once per window; a failure ends the program, whichever thread
  it happened on; a reported sequence happened.
- **Interceptor and ball search**: a pulse holds; every override gives the output back
  to the engine's latest wish; no coil stays on unattended; a lost ball is searched for.
- **Sound**: an overridden source is heard over silence only and comes back; queues
  stay bounded; music plays exactly in games.
- **Service tools, bench tests**: nothing that was switched on by hand stays on.
- **Screens**: what was covered comes back.
- **MediaHost**: plugins have the last value of everything that was not lost.
- **Start**: boards are flashed once; no game on the wrong board; nothing is sent to
  boards that were let go. **Settings**: the nearer source wins.
- **RomSpeedTracker**: a motor is told speeds it ran at, and it is told.

The file `PROJECT.json` lists each hazard at its line with the property that covers
it, or says why none does.

## 2. The plan

1. `GameCore`: the game itself. **Done**, with its proofs.
2. `PlayfieldAssist`, `BallTroughWatch`, composed with GameCore in `ScriptMachine`: a
   whole ROM-less machine. **Done**, with proofs.
3. `PluginEngine` against the abstract `SourceLease`: the two threads of a ROM
   machine. **Done** for gate, poll thread, tracking and `Stop`, with proofs.
4. `OutputOverrides` (interceptor and ball search under both threads), and
   `RulesEngine`, `TriggerHistory`. **Done**, with proofs.
5. Sound: `AudioOutput`, `SongPicker`. **Done**, with proofs.
6. Around the game: `ServiceTools`, `Screens`, `MediaHost`, `BenchTest`, `Startup`,
   `Settings`; `RomSpeedTracker`. **Done**, with proofs.
7. Left for later: the switch ledger, output samples (`IsReady`, lamps, GI) and run
   state of `PluginEngine`; a composition of `PluginEngine`, assist, interceptor and
   rules under both threads.

The modules of a component are written so that they can be proved about: constants with
named assumptions, one action per operation, and no RECURSIVE operator anywhere: what the
code computes in a loop is a recursive function, a fold of the community modules, or the
set of results that fit (a sort is the set of the sorted orders of its input, which has one
member when the order is total).

## 3. The modules and the code

| module | stands for | kind |
|---|---|---|
| `GameCore` | `game/GameCore.cpp`, `.h`, `GameConfig.h` | component |
| `PlayfieldAssist` | `game/PlayfieldAssist.cpp` | component, with a host that calls it in any order |
| `BallTroughWatch` | `BallTroughWatch.cpp` | component |
| `ScriptMachine` | `ScriptEngine.cpp`, main loop and services in `ppuc.cpp` | composition: EXTENDS GameCore and BallTroughWatch, INSTANCE of PlayfieldAssist |
| `PluginEngine` | `PluginEngine.cpp` | component, two threads |
| `SourceLease` | the promise of the handshake in `PluginEngine.h` | abstract specification |
| `OutputOverrides` | interceptor and ball search in `ppuc.cpp` | component, two threads |
| `RulesEngine`, `TriggerHistory` | `LuaRulesEngine.cpp` | components, the first with two threads |
| `RomSpeedTracker` | `RomSpeedTracker.cpp` and its use in `PluginEngine.cpp` | component |
| `AudioOutput` | `AudioLanes.cpp`, `AudioMixer.cpp`, `AudioOutput.cpp` | component: producers, publisher, device |
| `SongPicker` | playlist in `AudioOutput.cpp`, picker and tests in `ppuc.cpp` | component, three threads |
| `ServiceTools`, `Screens`, `BenchTest`, `Startup`, `Settings` | parts of `ppuc.cpp` (with `AttractSlides.cpp`, `Uf2Image.cpp`) | components |
| `MediaHost` | `MediaPluginHost.cpp` | component, three threads |
| `MCRules`, `MCSound`, `MCOperator` | several components side by side, see 3.8 | TLC |
| other `MC*` | constants a `.cfg` cannot write | TLC |
| `GameCoreProofs`, `ScriptMachineProofs`, `PluginEngineProofs`, `OutputOverridesProofs` | theorems about one module | TLAPS |
| `RulesProofs`, `SoundProofs`, `OperatorProofs` | theorems about the compositions of 3.8 and their parts | TLAPS |
| `RecursionLemmas` | induction and recursive functions, for the others | TLAPS |

`map` in `PROJECT.json` gives the lines of every definition. Conventions:

- An operator named `X_bug` (or `X_late`, `X_never`, ...) next to `X` is `X` with a
  mistake a programmer could make. No specification uses it; substituted for `X` it
  breaks the property it is listed with, which shows that the property is able to fail.
- **Time** is counted in ticks and only as far as the code tells instants apart. A
  deadline is the time left, an age saturates at the largest value that is compared.
- A formula whose comment says "Refuted" states what a comment, a document or good
  sense says and the code does not do; section 6 has them all.

### 3.1 GameCore

`OnSwitch` only records; `Update` works. One `Update` is a walk of `pc`: `idle`,
then `UpdateTroughCount`, then `edges` (start presses and coins queued since the last
update, `edgesStarted` once a press was handled, because the code handles one per
tick), then `run`: one `Pass` per round of the transition loop, at most 16. Each case
of `RunStateMachine` is one action `Run<State>` with the state's whole body, and each
`ppuc.game.*` call is one action that is possible between two updates.

| TLA+ | C++ |
|---|---|
| `state`, `stateAge`, `deadline` | `m_state`, now - `m_stateSinceMs`, `m_deadlineMs` - now |
| `closed`, `stable`, `stableAge`, `believed` | closed trough switches, `m_stableTrough`, `m_troughStableSinceMs`, `m_believedTrough` |
| `ball`, `extraBalls`, `tilted`, ... | the fields of `PlayerRecord`, as functions over the players |
| `tiltInhibit`, `gi`, `gameOn` | what the engine last sent to the tilt inhibit, the GI strings and the game-on coil |
| `cutShort` | history: whether a slam tilt or `endGame` cut the game short; read by properties only |

`Refused` stands for every refused press, the script's veto included. `EnterState(s, t)`
is `EnterState` with the caller's assignment of `m_deadlineMs` after it, as in the code:
the order matters, since `EnterState` clears the deadline.

### 3.2 PlayfieldAssist, BallTroughWatch, ScriptMachine

A switch is its role (`slam`, `tilt`, `lane`, `drain`, `playfield`); the verdict of
`ProcessSwitch`, whether the engine sees the edge, is the last parameter, so that
`\E forward` picks the one verdict the state allows. `AssistUpdate` notices that a save
ran out, one call after it did, as in the code. `ScriptMachine` gives one iteration of
the loop to `step` (`drain`, `watch`, `engine`, `running`, `ball`, `player`, `assist`,
`events`). The machine has one ball on one trough switch that is also the drain switch
of the ball save and the watched switch. `home` is where the ball is, `closed` what the
engine was told. Whether the saving kick succeeds is left open: the ball may stay home.
`late` is history: the player at the machine was tilted by a hit on the ball before.

### 3.3 PluginEngine and SourceLease

A step is one access to what the threads share. The main thread (`mpc`) closes the gate,
waits, drops the plan, publishes the next one, polls the tracked state, or stops. The poll
thread (`ppc`) enters the gate (`gateActive`), looks at it, adopts the plan, fetches coil
by coil, leaves, and then dispatches: all coils after a new plan, else the edges. If the
plan should be gone while the thread reads it, what it finds is any publication and any
level: a read of freed memory is not given a value of its own.

`AcquirePasses` is the memory model. The main thread stores `m_gateOpen` (sequentially
consistent) and then loads `m_gateActive` with `acquire`. Such a load is not part of the
single order of the sequentially consistent operations, so the language lets it pass the
store; `late` is the store that the other thread does not see yet. x86-64, and AArch64
code that uses LDAR, keep the order (`AcquirePasses = FALSE`).

`SourceLease` says what the handshake is for: a publication is retired only while nobody
reads, and a reader has one publication from first to last access. The refinement is
`live <- plan.generation`, `held <- plan.generation` while the thread is between adopting
and leaving, else 0.

### 3.4 OutputOverrides

`coils` and `lamps` are what the boards were told, `engineCoils` the interceptor's record
of what the engine wants, `wanted` what it really asked for last. The engine's thread
takes two steps per coil, because the code does: the rules are asked (`asked`), and then
`ApplyEngineCoil` runs in a critical section of its own, so a pulse may begin or end
between them. The main loop (`pc`) services overrides, then the ball search. `refused`
remembers the coils whose last answer was no. `Suppressible` is what rules may refuse:
`ProcessCoilState` asks them for releases too (`LuaRulesEngine.cpp:551-570`).

### 3.5 RulesEngine, TriggerHistory, RomSpeedTracker

The rules' mutex makes every entry one step, except `Update`, which runs the due
callbacks one by one while it holds the mutex (`updating`): what a handler may do is free
(suppress, schedule, guard, fail), when it may do it is not. `cpu` is what the engine was
last sent. `InOrder` is what the sort makes of the due callbacks (by time, then by number,
so that there is one such order); after a failure the rest of them is given up.
`TriggerHistory` is the queue of triggers with the two questions asked of it.

In `RomSpeedTracker` the ROM drives one motor faster or slower (`Drive`), the mech counts
(`Tick`), the loop looks (`Update`), late at times, and frames to the board arrive or get
lost. `ran` and `told` record how the motor ran in the windows, for the properties.

### 3.6 AudioOutput and SongPicker

A buffer is how many units are left of it and whether they are audible; a unit is what one
device callback takes. `ChainDepth` is where the walk up the chain of overriders ends,
`ByDepth` the table sorted by it (as the set of the sorted tables, see section 2; the sort
is stable, so there is one), `Active` which lanes play and produce sound in one callback,
where each is decided after those before it in the table. Each lane knows for how long it
was quiet. `quietFor` and `offered` are history. In `SongPicker` each call into the audio
output is one critical section, but `OnGameRunningChanged` (`stage`) and `CloseServiceTest`
(`seen`) are several, and so are interleaved with the device's thread, the loop and each
other.

### 3.7 Around the game

- `ServiceTools`: the overlay's pages and keys; `rows` are the lines that are lit, `out`
  what the boards hold, `wanted` and `pulse` what the game does behind the tool. The flag of
  a running game and the switch of the music are shared without a lock, so each thread
  takes its steps one by one: the engine's stores the flag (`GameChanges`), then sets the
  music (`EnableMusic`), then drives the solenoid (`EnginePower`); a test that closes lets the
  engine go (`CloseServiceTest`), reads the flag (`ReadGame`, into `seen`) and acts on what
  it read (`LeaveServiceTest`); `closing` and `toldMusic` say how far they are. `stale`
  records that it acted on a game that had changed in between.
- `Screens`: one pass of the loop in phases (`pc`), the engine's thread beside it;
  `picture` and `glass` are what is on the two screens, `frame` the textures of the
  slides, which die with their renderer.
- `MediaHost`: `queue` under the mutex, `batch` outside it; `told` is what was reported
  last, `plugins` and `b2s` what arrived, `dropped` what was lost.
- `BenchTest`: the steps of a test, their runner and the switch table against `closed`,
  how the switches are.
- `Startup`: `main` from the boards to the exit code as a sequence of steps (`pc`), any of
  which may fail, over several starts; `board` is what the boards are, `hooked` and `heard`
  who answered early and at all, `stray` outputs that were sent to boards let go.
- `Settings`: `main` from the command line to the boards; a value is known by its source.

### 3.8 Components side by side

`MCRules`, `MCSound` and `MCOperator` check components that share no state in one run
each. The variable `part` says which of them a behaviour is about; it never changes, and
the variables of the others are 0. A property is guarded by its part, so each run checks
its components as if alone, and its state count is the sum of theirs. Fairness is that of
the component, guarded too.

## 4. The runs

States and seconds are those of a two-worker run; each run is exhaustive.

| run | asks | properties | states |
|---|---|---|---|
| `turns` | turns, ball counts, chatter, progress | `TypeOK BallsBounded TurnsInOrder DrainNeedsSettledTrough GamesProgress ServeIsPursued` | 120,548 (22 s) |
| `tilt` | outputs and deadlines under tilts at any moment | `FlippersDeadOnlyOnTilt GameOnDuringGame WaitsAreBounded` | 1,396,660 (31 s) |
| `machine` | game, assist and trough watch on one machine | `TiltHolds TroughIsTrue HiddenBallFound` | 907,289 (74 s) |
| `gate` | the handshake with the poll thread | `FetchSafe PollIsSound LeaseKept RulesSeeGame SilentAfterStop` | 97,144 (4 s) |
| `threads` | what must happen in the end | `WaitsEnd CoilReachesBoards TrackedReachesHost GameEndIsReported` | 38,952 (17 s) |
| `outputs` | engine, rules and ball search on the same coils | `PulseHolds CoilsGivenBack OverridesEnd` | 532,056 (68 s) |
| `rules` | assist, rules, trigger history, scores, motor speeds | `AssistKeepsLimits AssistIsFair RulesInOrder DelayedWorkRuns ReplaysAwarded MotorFollowsRom` | 625,425 (150 s) |
| `sound` | sources that override each other; songs | `SourcesInOrder RomComesBack MusicFollowsGame MusicPlays` | 190,591 (120 s) |
| `operator` | tools, screens, plugins, bench tests, start, settings | `ToolsGiveBack TransliteComesBack PluginsInStep BenchIsSafe StartIsSafe UnattendedEnds` | 1,116,974 (101 s) |
| `strandedTilt`, `earlyLoad`, `ownsBackglass` | comments and documents that the code does not live up to (section 6) | one each, violated | |

Several properties are conjunctions of named parts, each stated with its own comment in
its module: `TurnsInOrder` is `TurnOrder`, `AllPlayedOut` and `BudgetSuffices`;
`GamesProgress` is `BonusAlwaysEnds` and `GameOverEnds`; `TroughIsTrue` is
`EngineNeverInventsBall` and `NoPhantomServe`; `PollIsSound` is `TypeOK`,
`FetchInBounds` and `CacheMatchesBoards`; `WaitsEnd` is `QuiesceEnds` and `StopEnds`;
`CoilsGivenBack` is `TypeOK`, `NoCoilLeftOn` and `IntentRestored`; `OverridesEnd` is
`PulseEnds` and `LostBallSearched`; `PluginsInStep` is `PluginsAgree` and `GamesEnd`;
those of `MCRules`, `MCSound` and `MCOperator` name their parts.

### 4.1 Bounds, and why they are enough

- **Players and balls.** `turns` has three players and two balls each: three is the first
  number with a player between the first and the last, and two balls are the first to have a
  hand-over back to player one. `machine` has two players and two balls, so that a hit on
  one ball may fall into the next of the same player and of another. Joining is limited to
  ball one, as by default. The fitted lane and a second physical ball are in `tilt`, where
  players matter less.
- **Durations** are one or two ticks. What counts is their order, not their size: a
  deadline of one tick lets everything happen before, at and after it. `RecoverTimeout`
  is longer than the others; the two durations with an order (`Gap` and `Settle`) have it,
  and section 6 says what the order rests on.
- **`KickMod`** is 256 in the code (`uint8_t`) and 4 here: with one retry the
  counter takes the values 0, 1, 2 and does not wrap unless the rules kick too, which they
  do in `turns` and `tilt`; with fewer than 255 retries it is the same in the code.
- **Score ceiling 3, thresholds 1 and 2, points -1, 1, 2** (`rules`): one award crosses one
  or two thresholds, wraps around the ceiling, or is clamped at zero.
- **`MaxExtraBalls`** and **`MaxEvents`** bound queues that the code does not bound; with
  one extra ball at a time, and two events in a queue that is emptied in each iteration,
  nothing interesting is cut: a third event needs three hits in one iteration.
- **`MaxGeneration`** is 3 in `gate`: the first publication, a replacement, and a
  replacement of a replacement, each with no coil or with all. `threads` uses 2 and one
  coil, which is the game-on coil.
- **`outputs`**: one coil that rules pulse, one that the search fires too, and a lamp: a
  third coil meets nothing new, since coils meet only in the search's round, which has one
  step per coil. Pulses, search and delays are one or two ticks, so each may end before,
  with or after the others.
- **`rules`**: two switches, to pair closings and openings across each other; three
  callbacks, so that one scheduled by a callback may fall between two others; a pass of up
  to two ticks (`MaxPass`), so that several fall due at once; four triggers remembered
  (`MaxHistory`), two kinds, two players. The motor's window is two ticks and gets three
  when the loop is late (`MaxLate`); one frame is lost (`MaxLost`); it rests five ticks,
  the least for which `SpeedIsReal` holds (section 6).
- **`sound`**: a chain of three sources, the first in which a source has two above it;
  queues of one unit over the target. Three tracks, one of them broken: the first number
  for which "the next track" and "another track than before" differ after a skip. A game
  may be reported twice between two ticks (`Flickers`).
- **`operator`**: two coils and a lamp for the tools; a slide; a queue of two events
  (`Limit`), so that it overflows; a device of each type and a board that is not there for
  the bench tests, two steps waiting (`MaxPending`), three movements unread (`MaxQueue`);
  two boards in every relation of types and versions to the images, one restart asked for
  (`MaxRestarts`) beside those the program asks for itself; three families of settings,
  one for each group of rules in which they meet.
- **`CHECK_DEADLOCK FALSE`** stands in `rules` (rules that failed end the program), in
  `operator` (a program that has ended, plugins that are unloaded, settings that are
  decided) and in the configurations of section 6 for `MCOperator` and `MCSettings`. It stays on
  in the others.

### 4.2 Fairness

- `GameCore`: `WF(Update)` and `WF(Tick)`: the main loop calls `Update` as long as the
  program runs, and the clock does not stop. Nothing is assumed of switches, coins,
  presses or rules.
- `ScriptMachine`: `WF(MainLoop)`, and `SF(TimePasses)`, since time passes only at one
  place of the loop and is not continuously possible there: no iteration is infinitely
  fast for ever.
- `PluginEngine`: `WF` for the poll thread, for what the main thread has begun
  (`Handshake`) and for `PollTrackedState`, which each iteration reaches. `SF(Quiesced)`:
  the wait spins on a counter that the poll thread raises again with every poll; the
  thread sleeps outside the gate for most of its period, so a spinning reader sees a
  zero that comes back again and again. The decision to replace sources or to stop is
  never assumed.
- `OutputOverrides`: `WF` for the loop's next step, and for the second half of what the
  engine's thread has begun. That the engine asks for anything, and that rules pulse, is
  not assumed.
- `RulesEngine`, `RomSpeedTracker`: the loop goes round (`WF` of each of its steps) and,
  for the motor, the clock does not stop. The ROM and the loss of frames are free.
- `AudioOutput`: `WF` of the device's callback and of the clock. Deliveries are free.
- `SongPicker`: `WF` for what the engine's thread and a closing test have begun and for the
  device; `SF` for the clock and for `ServiceSongPicker`, which every pass of the loop
  reaches but which a closing test keeps out for a moment. Games, buttons and tests are free.
- `BenchTest`: `WF` of the runner and the clock; keys and signals are free. `Startup`:
  `WF(Main)`: the program does its next step; which boards answer is free.

### 4.3 What the runs show

`turns` covers what the tests of `src/tests` take one scenario at a time: extra balls,
joins, `endBall` and `endGame` in any order at any moment of the loop. Its liveness
properties say that rules which never answer cannot hang the machine. `tilt` shows that
none of the five places that restore the flippers is missing on a path. `machine` puts
assist and trough watch into the loop: there the two tilt flags can only disagree in the
directions named in section 6, and the synthetic edges of the watch are harmless *because*
a real edge cancels the owed closing and the gap is shorter than the settle time. `gate`
and `threads` cover every interleaving of the poll thread with two source changes and a
stop.

`outputs` shows that a pulse survives everything but the ball search, that the engine's
latest wish comes back however its thread falls between the rules' answer and the board,
and that a search leaves no coil on wherever it is cut. `rules` lets a host call the assist
in any order, which is more than the two engines do, and handlers suppress, schedule and
fail at any moment. `sound` shows that the Fallback mode never plays a source over a
louder claim, whatever the devices and producers do, and that music neither plays in
attract nor dies with a broken track. `operator` takes every order of keys through the
service tests, every end of a bench test, every answer of the boards over restarts, and
every mixture of sources of the settings.

## 5. The proofs

Each theorem holds for every value of the constants that the named assumptions allow. All
21 invariants that the passing runs check, and all their action properties and refinements,
are theorems; what stays with TLC is liveness.

`GameCoreProofs` (every number of players, balls, every timing, every
set of rule calls; `ConfigAssumption`, `TimingAssumption`, `ScoreAssumption`):

| theorem | property | argument |
|---|---|---|
| `TypeCorrect` | `TypeOK` | inductive by itself. The parts that need work: `Turn` stays in the roster (modulo arithmetic), credits stay in bounds, a state in the game has a current player |
| `BallsNeverExceeded` | `BallsBounded` | `BallsInv` adds that every waiting player who is not finished has a ball left; the current one is judged by `LastBallPlayed` before `AdvancePlayer` picks the next |
| `FlippersAlive` | `FlippersDeadOnlyOnTilt` | `FlippersInv` adds that outside a game the machine is alive, which a game that starts relies on |
| `GameOnCorrect` | `GameOnDuringGame` | inductive with the type invariant |
| `WaitsBounded` | `WaitsAreBounded` | inductive with the type invariant; each `EnterState` is followed by its deadline |
| `UpdatesSettle` | | `BudgetInv`: the passes done and those still possible (`Left`, a measure on states) are at most 6 of the 16 the loop allows, since balls do not move during an update and a state entered without a deadline waits |
| `TurnsAreKept` | `TurnsInOrder` | `TurnsInv`: if players join during ball one only, the balls have one of two shapes, all at nought before the first ball, or those up to the current player at the same ball and the others one behind (`Alternate`); a player of an uncut game is done after the last ball, and only then (`DoneIsPlayed`); a game is known as over or cut short only where one can be (`EndsKnown`) |
| `ReplaysAreAwarded` | | `ReplaysAwarded` of GameCore, for positive thresholds and rules that do not write scores. The loop over the thresholds (`AwardsUpTo`) gives every one that the new score has reached |
| `DrainsAreSettled` | `DrainNeedsSettledTrough` | `DrainInv`: in the states with a ball out the trough is believed to lack one, unless the update that has just seen it settled full is still running; so only such an update ends a ball |

`ScriptMachineProofs` (the same, and every allowance, gap and place of the ball;
`MachineAssumption`):

| theorem | property | argument |
|---|---|---|
| `MachineRunsGame` | | the machine implements `GameCore`: each step of the loop is a step of the game or leaves it alone (`OneThread`: rules and switches come between two updates). So every theorem about the game is one about the machine |
| `MachineHostsAssist` | | the machine implements `PlayfieldAssist`: the loop reports balls that are balls of the game |
| `TiltIsHeld` | `TiltHolds` | assumes `EndsBallOnly`, the default. `TiltInv` follows a hit through the iteration: as long as it waits, and from the tilt to the next report of a ball, the assist knows of it (`tiltSeen`) or the hit was one on the ball before (`late`); a tilt that exists is one on the ball that was reported last |
| `TroughStaysTrue` | `TroughIsTrue` | assumes `Gap < Settle`. `TroughInv`: while the game believes in the ball and the ball has not left, it is home, and an open switch is the watch's own opening, which is younger than what is left of the settle time (`Presented`) |

`PluginEngineProofs` (every set of coils, every family of publications, any number of
them; each theorem assumes `~AcquirePasses`, and `earlyLoad` shows why):

| theorem | property |
|---|---|
| `GateSafety` | the invariant the others rest on |
| `FetchIsSafe` | `FetchSafe` |
| `FetchIsInBounds` | `FetchInBounds` |
| `LeaseIsKept` | `LeaseKept`: PluginEngine implements SourceLease |
| `StopIsSilent` | `SilentAfterStop` |
| `PollStaysSound` | `PollIsSound`: types, bounds, and a cache that is what the boards were told |
| `GameIsToldFirst` | `RulesSeeGame`; `GameTold` adds that the thread dispatches the game-on coil when it tells the running state, and that after this the host has the level that the rules are told next |

`FetchSafe` is not inductive: it does not say why the main thread may trust the counter.
`GateInv` is: (`GateHeld`) the counter is 1 exactly while the poll thread is between
entering and leaving, the gate is shut while the main thread waits or has no plan, an
open gate has a plan, so a thread that found it open has one, and the plan goes only at
counter zero; (`GenerationNames`) a generation names one plan, so equal generations mean
equal layouts, which is what makes the thread's buffers fit. The proof has one lemma per
action that touches the gate and one for all the others. `PollInv` says where cache and
boards agree during a poll (`CacheAgrees`): everywhere, but for a plan that is still to be
restated and for the coil that is being dispatched.

`OutputOverridesProofs` (every set of coils and lamps, round of the search, every duration;
`OutputsAssumption`):

| theorem | property | argument |
|---|---|---|
| `OverridesKept` | | `Kept`: besides types, pulses and restored intents, `AsksAgree`, that the interceptor's record of every coil is the engine's last wish except for the one coil whose answer the engine's thread has in hand |
| `PulsesHold` | `PulseHolds` | from `OverridesKept` |
| `CoilsAreGivenBack` | `CoilsGivenBack` | adds `NoCoilLeftOn`; assumes `0 \notin Suppressible`: rules are asked about releases too (`LuaRulesEngine.cpp:551-570`), and one that refuses a release leaves the coil on |

`RulesProofs`, first about `PlayfieldAssist` alone, then about `MCRules` (every allowance,
limit, host, set of switches, number of callbacks, window, score and motor; the assumptions
of its parts). Whatever the other parts of `MCRules` are, each part takes steps of its own
component only, and this is the first step of each proof:

| theorem | property | argument |
|---|---|---|
| `LimitsKept`, `AssistLimitsHold` | `AssistKeepsLimits` | inductive; one lemma for what a switch does in any role, one for the extension of a save |
| `TiltedBallStaysLost`, `SavesOnlyGrow`, `AssistStaysFair` | `AssistIsFair` | action properties from the same invariant |
| `RulesStayInOrder` | `RulesInOrder` | assumes `~RepeatedCloses` (section 6). `CallsInv`: the due callbacks of a pass are in order and none that stayed is older (`Batch`), what is left of a window and what has passed make up the window (`OnceWindow`); `CpuAgrees` is inductive with the types. `HistoryInv`: the triggers are in the order of their age and none is too old, which is what makes the walk backwards through them, a recursive function, find the pair that happened if there is one |
| `ScoresAreRewarded` | `ReplaysAwarded` | assumes positive thresholds. The instance `G` of GameCore takes the same steps as the one that `GameCoreProofs` is about, so `ReplaysAreAwarded` is used as it stands |
| `SpeedsAreReal` | the safety half of `MotorFollowsRom` | assumes `LongRests` (`Rest >= 2 * MaxLate - 1`). `MotorInv`: what a window has counted lies between its slowest and its fastest tick, times its age (`WindowCounts`); a window between two in which the motor ran has no tick at rest (`WindowRuns`), since after a rest the next run is two windows away; so the speed of the middle window, a rounded quotient, lies between the speeds of two of its ticks (`DutyBetween`) |

`SoundProofs`, about `MCSound` (every number of streams, sources and songs, every length;
`LimitsAssumption`, `SongsAssumption`):

| theorem | property | argument |
|---|---|---|
| `SourcesStayInOrder` | `SourcesInOrder` | assumes `ChainsOnly` (section 6). `LanesChain`: in the table an overrider stands before what it overrides, which needs that `ChainDepth` falls along a chain, a walk by recursion; `LanesQuiet`: no lane claims a longer silence than there was; so what lets a lane play is true of everything above it, because the walk up from the lane reaches all of it (`OverIsAbove`) and the loop decides each lane with what those before it have noted (`LanesDecided`). `LatencyBounded`: what a trim drops, and what the cap refuses, keeps every queue within its bound, by sums over the buffers (`SumOfStart`, `SumOfRest`) |
| `MusicStaysWithGame` | `MusicFollowsGame` | assumes `TwoSongs`: two that can be played, as there is no other song to begin with otherwise. `SongsInv`: a song whose start is pending is stopped (`SongWaits`), a test holds the song it interrupted (`SongHeld`), and from the end of a game to the request in the next the playlist is at the song cut off or at its successor (`SongCutOff`) |

`OperatorProofs`, about `MCOperator` (every set of coils, lamps, tests, boards, images,
events and combination of settings; `KindsAssumption` and the assumptions of the parts,
which give the types of the constants):

| theorem | property | argument |
|---|---|---|
| `ToolsAlwaysGiveBack` | `ToolsGiveBack` | `ToolsInv`: a coil is on only for the engine, a pulse or a lit row of the test on the screen (`ToolsCoils`), and in a walk the row that is lit is the walk's (`ToolsWalk`). Once a test is being left nothing of it is lit or frozen (`NoTestRuns`); the music is right after the last of the two threads has set it, or `stale` says that the test acted on a game that had changed |
| `TransliteAlwaysComesBack` | `TransliteComesBack` | `ScreensInv`: the last request is at the end of the queue (`ScreensQueue`), and the translite of the last request is on the screen, or a request waits, or what covers it is still there and will ask for it when it goes (`ScreensPicture`) |
| `PluginsStayInStep` | `PluginsInStep` | `MediaInv`: the last value of each thing is the last one in the queue, or else the last one in the batch, or else with the plugins (`KeyAgrees`), unless it was lost |
| `BenchIsAlwaysSafe` | `BenchIsSafe` | `BenchInv`: an output is on while its step is active, and is that of the step (`BenchOutputs`); the lights are on when nothing has moved (`BenchLights`). That all steps are of devices that are tested and there is an induction over the devices |
| `StartIsAlwaysSafe` | `StartIsSafe` | assumes `ImagesAreTheirNames` (section 6). `StartInv`: a board that was flashed has nothing newer waiting (`FlashedIsCurrent`: the search by recursion finds an image that no other beats, and after the flash the board reports it), so it is flashed once; who answered was compared before a game could start. `SettingsInv` says for each group of rules from which step on it holds |

`RecursionLemmas` is what makes the last three modules possible. The library's induction
theorems take a formula as a parameter, which the installed provers cannot instantiate. So
induction is stated about a set (`Induction`: a set with 0 and with the successor of each
of its members has all numbers), from the theorem that a well-founded relation has minimal
elements (`LeastNumber`), and a recursive definition about functions: the step of a
recursion is a function `g`, and for every start `a` in `T` and `g \in StepsOn(T)` there is
a function that begins with `a` and follows `g` (`RecursionExists`), or does so up to a
number (`RecursionUpToExists`). `f[i \in 0..n] == ...` then is the chosen function, and has
the equation it was defined with.

Only model-checked is liveness, for which the prover has no reach: `GamesProgress`,
`ServeIsPursued`, `HiddenBallFound`, `WaitsEnd`, `CoilReachesBoards`, `TrackedReachesHost`,
`GameEndIsReported`, `OverridesEnd`, `DelayedWorkRuns`, the other half of `MotorFollowsRom`
(that the board is told in the end), `RomComesBack`, `MusicPlays` and `UnattendedEnds`.

## 6. Where the code and its comments disagree

Three runs end in a counterexample; `PROJECT.json` quotes the lines.

- `strandedTilt`: a tilt arms a deadline so that a trapped ball cannot strand the machine.
  Tilted in the shooter lane, or around a drain that was chatter, the ball enters play
  through `EnterState`, which clears that deadline. The ball then stays in play for ever
  with dead flippers.
- `earlyLoad`: the gate's store and load, see 3.3. A build for a processor that reorders
  them may free the plan while it is read; sequentially consistent loads would close it.
- `ownsBackglass`: `src/README.md:258-261` says that the folder's translites are ignored
  with `--b2s`. The pre-scan's flag is cleared by a `ppuc.ini` that says `B2S=false`, the
  folder's translite is taken, and then the command line sets the flag again.

More were met in the same way. Their formulas stand at the end of the modules and their
configurations reproduce them, but no run of this project depends on them:

| formula | configuration | what the code does |
|---|---|---|
| `GameCore!TiltForfeitsExtraBall` | `MCGameCore_keptExtraBall.cfg` | `docs/EM_GAMES.md:238`: an extra ball of a tilted ball "is forfeited too". It is only not played now; the record keeps it and it is played after a later ball (`GameCore.cpp:953-966`) |
| `GameCore!SlamTiltDrawsNoMatch` | `MCGameCore_slamMatch.cfg` | `tests/test_game_tilt.cpp:239`, "no bonus and no match". `GameEnding` draws the match for a slam-tilted game too (`GameCore.cpp:1004`) |
| `GameCore!AddedPlayersPlay` | `MCGameCore_paidPlayer.cfg` | a press that is queued when the rules call `endGame()` still adds and charges a player who never plays (`GameCore.cpp:356`) |
| `ScriptMachine!FreshAllowance` | `MCScriptMachine_freshAllowance.cfg` | the ball is reported before the player, and only when its number changes, so the per-ball reset of the warnings goes to the player before, or to nobody (`ScriptEngine.cpp:166`) |
| `ScriptMachine!TiltOnlyAfterWarnings` | `MCScriptMachine_lateTilt.cfg` | the hit is judged before the engine's update and told after it: it may tilt the next player (`ppuc.cpp:6963`) |
| `ScriptMachine!SpentAllowanceTilts` | `MCScriptMachine_spentAllowance.cfg` | a hit that spends the allowance while the ball is served is ignored by the game and remembered by the assist: that ball cannot be tilted (`GameCore.cpp:720-726`) |
| `PluginEngine!NoBallAfterGame` | `MCPluginEngine_staleBall.cfg` | the poll that reports "no ball" after a game goes on to decode the ROM's memory, which still has the last ball, and reports that again |
| `PluginEngine!RunningFollowsCoil` | `MCPluginEngine_lostEdge.cfg` | a game that ends while the sources are replaced is stated to the boards and never reported as over (`PluginEngine.cpp:458`) |
| `OutputOverrides!PulseForcesOn` | `MCOutputOverrides_pulseForces.cfg` | `docs/INTERCEPTOR.md:66`: a pulse "forces the coil on until the pulse timer expires". The ball search drives the boards past the interceptor and switches it off |
| `ScriptMachine!TiltCancelsSave` | `MCScriptMachine_tiltedSave.cfg` | `docs/EM_GAMES.md:207`: a tilt "cancels an active save". A hit late on one ball may be told to the game when the next ball is already served, of the same player or of another: that player is tilted, the assist was told that a new ball begins and knows of no tilt, and the save of the new ball runs on (`ppuc.cpp:6963`) |
| `ServiceTools!GamePowered` | `MCOperator_refuted.cfg` (`ToolsLoseNothing`) | a game that starts behind the switch monitor, or behind the test of a script game, loses its high power when the tool is left |
| `ServiceTools!OnlyTheWalkHolds` | same | ENTER on another coil ends the walk and leaves the walk's coil on until the test is left |
| `ServiceTools!LampsPickedUp` | same | a lamp the game had on is off after a test that lit it, and so is GI string 1 after any lamp test |
| `Screens!TransliteFollowsGame` | `MCOperator_refuted.cfg` (`ScreensAreRight`) | a picker that the end of a game takes down asks for the game's image; a game that changes between the read and the request does the same (`ppuc.cpp:5131-5142`, `5286-5289`) |
| `Screens!SlideLeaves`, `SlideIsShown` | same | without a translite nothing repaints the window the slides drew into; a tool's own window takes the slides' textures with it when it closes, and a new window at the same address is taken for the old one |
| `Settings!SilenceIsAllowed`, `NothingLeftBehind` | `MCSettings_refuted.cfg` | a machine whose folder has music cannot be started with `--no-sound`; the LED string test's temporary configuration stays on some ways out |

To see these, run the configuration with its module; where a configuration lists several
formulas, or a formula several parts, TLC stops at the first, so leave the others out.
Further formulas marked "Refuted" have no configuration of their own: in `SongPicker`
(`HighlightIsSound`, `OfferedAfterRest`, `MusicAlwaysFollows`), `MediaHost`
(`NothingStaysLost`: nothing sends a lost value again; `ServerAgrees`: the B2S server is
told numbers without their kind) and `BenchTest` (`TableIsTrue`: a switch that moves between
the reading of the table and the emptying of the queue is lost). A configuration of the
module alone, with the constants its part has in `MCSound.cfg` or `MCOperator.cfg`, shows
them.

Some properties hold only under conditions the program does not enforce:

- `NoPhantomServe` needs the 80 ms gap of the watch (`ppuc.cpp:5011`) to be below
  `trough.settleMs`.
- `TiltHolds` excludes games that were slam tilted or ended by the rules, since a slam hit
  that was queued in attract reaches a game that was started in the same iteration; a player
  who was tilted by a hit on the ball before (`late`), which is `TiltCancelsSave` above; and
  machines whose tilts last for the game (`endsBallOnly: false`), where the next ball tells
  the assist to begin afresh while the player stays tilted.
- `CpuAgrees` needs boards that report changes only (`RepeatedCloses = FALSE`): a closing
  that is reported twice and hidden the second time leaves the switch closed for the engine.
- `IntentRestored` and `NoCoilLeftOn` are about coils whose changes the rules do not refuse
  for good, see section 5.
- `FlashedOnce` needs images that are what their names say. One that is not is flashed again
  after every restart (`ppuc.cpp:2086-2088`).
- `NoGameOnWrongBoard` is about boards that answered. Only when no board at all answered
  before the configuration is the question repeated after it; a single silent board of the
  wrong type is configured and played with.
- `SinksReachBus` excludes the emergency exit (a Serum colorisation and a signal), which
  ends the process without stopping the engine. Early returns of `main` after the boards
  were connected end without a disconnect at all.
- `GamePickedUp` and `MusicFollowsGame` exclude a test that closed on an outdated game: it
  reads the flag, the engine's thread stores the other value and sets the music, and then
  the test sets the music as it read the flag (`ppuc.cpp:3302` between `6676` and `6679`).
  The music stays wrong until a game or a test sets it again: `MusicAlwaysFollows`.
- `SpeedIsReal` needs a motor that rests for two windows before it runs again (`LongRests`).
  After a shorter rest (`Rest = 2` shows it) a window with a pause in it counts, and the
  board is told a speed the motor never had. A loop that stalls for more than ten seconds
  has the same effect, because the mech's position wraps (`SpeedAssumption`).
- `OnlyOverSilence` is about chains, in which a source has one overrider. Of two that
  override the same source the walk upwards finds the first only (`FindOverriderOf`), so
  the source is heard while the second is loud. `ChainsOnly` says so, and that no source
  overrides itself by way of others.
- `NextGameNewSong` needs two songs that can be played (`TwoSongs`).

## 7. What is not modelled

- In GameCore: events, lamps, rule variables, display pages and audits, which no decision
  reads; the order of several switch edges of one update (any sequence of presses is
  allowed); optional switches that are not fitted.
- In PlayfieldAssist: lamps, events that reach only the log, `AwardTiltWarnings` (never
  called by the program), switches with more than one role. Its handlers are single steps:
  the poll thread enters `SetPlayActive` without a lock, and what a torn handler may do is
  undefined.
- In ScriptMachine: rules that intercept switches, more than one ball or trough switch,
  ball search, and everything behind the engine in the loop.
- In PluginEngine: the switch ledger and its audit, output samples, run state; the decoding
  of NVRAM and displays (a value or its refusal); locks of libppuc and of the plugin.
- In RulesEngine: loading, registration, queries; what a handler computes.
- In AudioOutput: formats, resampling, volumes, the cross-fade where a trim cuts. In
  SongPicker: decoding, and buttons that bounce.
- In ServiceTools and Screens: texts, drawing, volumes. In MediaHost: decoding, drawing and
  the plugins. In Startup: the transfer of an image, and what a board does with it. In
  Settings: values that are only passed on.
- External, modelled from use: the emulation behind PinMAME's `GetState`, `GetMech` and
  memory reads, the ROM's use of a motor.
- The parts with status `not_modelled` in `PROJECT.json`: `LedStringWalk` is a helper to
  write a configuration, a cursor with one actor; `SegmentDigitDecode`, `DmdSourceSelect` and
  DMD drawing are pure or draw; the YAML, JSON and NVRAM-map loaders are parsing, whose
  results are the constants of the models; `menu.cpp` and `backbox.cpp` are separate
  programs that start processes and forward frames; speech, plugin directory and script
  objects adapt libraries.

To repeat a result, in this directory: `tlc -workers 2 -config MCGameCore_turns.cfg MCGameCore`,
`tlapm GameCoreProofs.tla`.
