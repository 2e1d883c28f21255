----------------------------- MODULE MCOperator -----------------------------
(***************************************************************************)
(* What stands around the game, in six parts that share no state: the      *)
(* service tests (ServiceTools), what is on the screens (Screens), the     *)
(* plugins (MediaHost), the bench tests (BenchTest), the start of the      *)
(* program (Startup) and its settings (Settings).  `part` says which of    *)
(* them a behaviour is about; the variables of the others are 0.           *)
(***************************************************************************)
EXTENDS ServiceTools

CONSTANTS Videos, PluginSets, Slides, Idle, Duration, Debounce, Both, MaxRequests,
          Hosts, EventKinds, Ids, Limit, MaxGames,
          BenchDevices, Switches, BenchTests, OnTime, OffTime, Hold, MaxPending, MaxQueue,
          Boards, Machines, Options, Directories, Validated, Types, MaxRestarts,
          Inputs

VARIABLES part,
          video, shown, asking, offer, requests, last, request, window, picture, glass, tool, picker,
          show, showed, frame, ages, screenPc,
          host, life, started, controller, events, batch, server, plugins, b2s, half, told, dropped,
          games, ends,
          bench, steps, waiting, index, active, pause, deadline, outputs, string, coil, closed, moves,
          initial, current, feedback, off, goesOn, benchPc,
          options, files, board, startPc, hooked, mismatches, connected, updates, machine, loop,
          shutdown, restart, exit, heard, flashes, stray, restarts,
          input, settingsPc, settingsExit, on, value, chosen, audio, bus, media, speech, slides,
          backglass, leftover

V == INSTANCE Screens WITH game <- shown, engine <- asking, queue <- requests, asked <- request,
                           overlay <- tool, pc <- screenPc, MaxQueue <- MaxRequests
M == INSTANCE MediaHost WITH queue <- events, Kinds <- EventKinds
B == INSTANCE BenchTest WITH test <- bench, pending <- waiting, gi <- string, power <- coil,
                             queue <- moves, running <- goesOn, pc <- benchPc,
                             Devices <- BenchDevices, Tests <- BenchTests
U == INSTANCE Startup WITH pc <- startPc, engine <- machine, running <- loop, asked <- restarts
C == INSTANCE Settings WITH pc <- settingsPc, exit <- settingsExit, engine <- chosen,
                            window <- backglass

\* What the instances assume of their constants.
ASSUME StartTyped == U!StartAssumption
ASSUME ScreensTyped == V!ScreensAssumption
ASSUME MediaTyped == M!MediaAssumption
ASSUME BenchTyped == B!BenchAssumption

screenVars == <<video, shown, asking, offer, requests, last, request, window, picture, glass, tool, picker,
                show, showed, frame, ages, screenPc>>
mediaVars == <<host, life, started, controller, events, batch, server, plugins, b2s, half, told, dropped,
               games, ends>>
benchVars == <<bench, steps, waiting, index, active, pause, deadline, outputs, string, coil, closed, moves,
               initial, current, feedback, off, goesOn, benchPc>>
startVars == <<options, files, board, startPc, hooked, mismatches, connected, updates, machine, loop,
               shutdown, restart, exit, heard, flashes, stray, restarts>>
settingsVars == <<input, settingsPc, settingsExit, on, value, chosen, audio, bus, media, speech, slides,
                  backglass, leftover>>

-----------------------------------------------------------------------------
(* The instances. *)

\* Two coils and a lamp to test.
MCSteps == [Coils |-> <<1, 2>>, Lamps |-> <<3>>]

\* A translite without an image of its own for the attract mode, and a complete
\* backbox with a backglass that a plugin draws.
Video(t, a, m, b) == [translite |-> t, attract |-> a, media |-> m, b2s |-> b]
MCVideos == {Video(TRUE, FALSE, FALSE, FALSE), Video(TRUE, TRUE, TRUE, FALSE)}
\* The same, and windows with nothing but the tools (for MCOperator_refuted.cfg).
MCAllVideos == MCVideos \cup {Video(FALSE, FALSE, FALSE, FALSE)}
MCPlugins == {{"PUP"}}

MCHosts == [b2s : BOOLEAN, provide : BOOLEAN]

Device(n, t, v) == [number |-> n, type |-> t, virtual |-> v]
MCDevices == <<Device(1, "lamp", FALSE), Device(2, "solenoid", FALSE), Device(3, "motor", TRUE),
               Device(4, "flasher", FALSE), Device(5, "lamp", FALSE), Device(6, "gi", FALSE),
               Device(7, "led", FALSE)>>
Test(m, n, i, w) == [mode |-> m, number |-> n, interactive |-> i, wpc |-> w]
MCTests == {Test("coils", 0, FALSE, FALSE), Test("coils", 2, FALSE, TRUE), Test("coils", 0, TRUE, FALSE),
            Test("lamps", 0, FALSE, FALSE), Test("lamps", 0, TRUE, TRUE), Test("flashers", 0, TRUE, FALSE),
            Test("flashers", 0, FALSE, FALSE), Test("gi", 0, FALSE, FALSE), Test("coils", 3, FALSE, FALSE),
            Test("leds", 0, FALSE, FALSE), Test("switches", 0, FALSE, FALSE), Test("switches", 0, FALSE, TRUE)}

Board(t, v, b) == [type |-> t, version |-> v, build |-> b]
MCTypes == <<1, 2>>
MCMachines == {<<Board(1, 1, 0), Board(2, 1, 1)>>, <<Board(1, 1, 1), Board(2, 3, 1)>>,
               <<Board(1, 2, 1), Board(1, 1, 2)>>, <<Board(1, 2, 2), Board(0, 1, 0)>>}
Option(s, u, d, g, v, c) ==
  [serial |-> s, update |-> u, dev |-> d, downgrade |-> g, unvalidated |-> v, serum |-> c]
MCOptions == {Option(TRUE, TRUE, FALSE, FALSE, TRUE, FALSE), Option(TRUE, TRUE, TRUE, TRUE, TRUE, TRUE),
              Option(TRUE, TRUE, TRUE, FALSE, FALSE, FALSE), Option(TRUE, FALSE, TRUE, TRUE, TRUE, FALSE),
              Option(FALSE, TRUE, FALSE, FALSE, FALSE, TRUE)}
File(t, v, b, u, f) == [type |-> t, version |-> v, build |-> b, usable |-> u, family |-> f,
                        reports |-> [version |-> v, build |-> b]]
\* Two directories whose images are what their names say, the second with a build
\* that does not record itself, one with an image for another chip and one that is
\* no image at all, and an empty one.
MCDirectories == {<<File(1, 2, 0, TRUE, 1), File(1, 2, 2, TRUE, 1), File(1, 1, 2, TRUE, 1), File(2, 2, 3, TRUE, 0)>>,
                  <<File(1, 2, 1, TRUE, 2), File(2, 2, 1, FALSE, 0)>>,
                  <<File(1, 1, 0, TRUE, 1), File(2, 2, 2, TRUE, 1),
                    [File(1, 2, 3, TRUE, 1) EXCEPT !.reports = [version |-> 2, build |-> 0]]>>, <<>>}

Input(game_, cli, iniOn, iniOff, ini, folder, yaml, engines, number) ==
  [game |-> game_, cli |-> cli, iniOn |-> iniOn, iniOff |-> iniOff, ini |-> ini, folder |-> folder,
   yaml |-> yaml, engine |-> engines, number |-> number]
Default == [cli |-> "none", ini |-> "none"]
Script == [cli |-> "none", ini |-> "script"]
AllFolder == {"iniFile", "music", "translite", "attract", "rules"}
\* What may claim the screen, what needs sound, and what the boards and the
\* bench tests do not allow.
ScreenInputs ==
  {Input(TRUE, cli, iniOn, iniOff, ini, AllFolder, FALSE, Script, FALSE) :
     cli \in SUBSET {"b2s", "monitor", "translite", "config"},
     iniOn \in SUBSET {"pup", "monitor"}, iniOff \in SUBSET {"b2s"}, ini \in SUBSET {"translite"}}
SoundInputs ==
  {Input(TRUE, cli, iniOn, iniOff, ini, {"iniFile", "music", "rules"}, yaml, Default, FALSE) :
     cli \in SUBSET {"noSound", "speech", "music", "rom"}, iniOn \in SUBSET {"greeting", "noSound"},
     iniOff \in {{}, {"slides", "rules"}}, ini \in SUBSET {"music", "rules"}, yaml \in BOOLEAN}
BoardInputs ==
  {Input(FALSE, cli \cup {"config", "iniFile"}, iniOn, {}, {"config"}, {}, FALSE, engines, number) :
     cli \in SUBSET {"noSerial", "closeDoor", "coilTest", "ledTest"} \cup
             {{"unknown"}, {"badNumber"}, {"help"}, {"interactive"}},
     iniOn \in SUBSET {"giTest", "noSerial"},
     engines \in {Default, Script, [cli |-> "pinmame", ini |-> "other"], [cli |-> "other", ini |-> "none"]},
     number \in BOOLEAN}
MCInputs == ScreenInputs \cup SoundInputs \cup BoardInputs

-----------------------------------------------------------------------------
NoTools ==
  /\ overlay = 0 /\ pending = 0 /\ confirmYes = 0 /\ test = 0 /\ rows = 0 /\ out = 0 /\ wanted = 0
  /\ pulse = 0 /\ gi = 0 /\ power = 0 /\ monitor = 0 /\ closing = 0 /\ seen = 0 /\ game = 0
  /\ toldMusic = 0 /\ toldPower = 0 /\ music = 0 /\ running = 0 /\ reflex = 0 /\ stale = 0
NoScreens ==
  /\ video = 0 /\ shown = 0 /\ asking = 0 /\ offer = 0 /\ requests = 0 /\ last = 0 /\ request = 0
  /\ window = 0 /\ picture = 0 /\ glass = 0 /\ tool = 0 /\ picker = 0 /\ show = 0 /\ showed = 0
  /\ frame = 0 /\ ages = 0 /\ screenPc = 0
NoMedia ==
  /\ host = 0 /\ life = 0 /\ started = 0 /\ controller = 0 /\ events = 0 /\ batch = 0 /\ server = 0
  /\ plugins = 0 /\ b2s = 0 /\ half = 0 /\ told = 0 /\ dropped = 0 /\ games = 0 /\ ends = 0
NoBench ==
  /\ bench = 0 /\ steps = 0 /\ waiting = 0 /\ index = 0 /\ active = 0 /\ pause = 0 /\ deadline = 0
  /\ outputs = 0 /\ string = 0 /\ coil = 0 /\ closed = 0 /\ moves = 0 /\ initial = 0 /\ current = 0
  /\ feedback = 0 /\ off = 0 /\ goesOn = 0 /\ benchPc = 0
NoStart ==
  /\ options = 0 /\ files = 0 /\ board = 0 /\ startPc = 0 /\ hooked = 0 /\ mismatches = 0
  /\ connected = 0 /\ updates = 0 /\ machine = 0 /\ loop = 0 /\ shutdown = 0 /\ restart = 0
  /\ exit = 0 /\ heard = 0 /\ flashes = 0 /\ stray = 0 /\ restarts = 0
NoSettings ==
  /\ input = 0 /\ settingsPc = 0 /\ settingsExit = 0 /\ on = 0 /\ value = 0 /\ chosen = 0 /\ audio = 0
  /\ bus = 0 /\ media = 0 /\ speech = 0 /\ slides = 0 /\ backglass = 0 /\ leftover = 0

OperatorInit ==
  \/ part = "tools" /\ Init /\ NoScreens /\ NoMedia /\ NoBench /\ NoStart /\ NoSettings
  \/ part = "screens" /\ V!Init /\ NoTools /\ NoMedia /\ NoBench /\ NoStart /\ NoSettings
  \/ part = "media" /\ M!Init /\ NoTools /\ NoScreens /\ NoBench /\ NoStart /\ NoSettings
  \/ part = "bench" /\ B!Init /\ NoTools /\ NoScreens /\ NoMedia /\ NoStart /\ NoSettings
  \/ part = "start" /\ U!Init /\ NoTools /\ NoScreens /\ NoMedia /\ NoBench /\ NoSettings
  \/ part = "settings" /\ C!Init /\ NoTools /\ NoScreens /\ NoMedia /\ NoBench /\ NoStart

OperatorNext ==
  /\ UNCHANGED part
  /\ \/ part = "tools" /\ Next /\ UNCHANGED <<screenVars, mediaVars, benchVars, startVars, settingsVars>>
     \/ part = "screens" /\ V!Next /\ UNCHANGED <<vars, mediaVars, benchVars, startVars, settingsVars>>
     \/ part = "media" /\ M!Next /\ UNCHANGED <<vars, screenVars, benchVars, startVars, settingsVars>>
     \/ part = "bench" /\ B!Next /\ UNCHANGED <<vars, screenVars, mediaVars, startVars, settingsVars>>
     \/ part = "start" /\ U!Next /\ UNCHANGED <<vars, screenVars, mediaVars, benchVars, settingsVars>>
     \/ part = "settings" /\ C!Next /\ UNCHANGED <<vars, screenVars, mediaVars, benchVars, startVars>>

\* The fairness of the bench tests and of the start is that of their specifications.
OperatorSpec ==
  /\ OperatorInit
  /\ [][OperatorNext]_<<part, vars, screenVars, mediaVars, benchVars, startVars, settingsVars>>
  /\ WF_benchVars(part = "bench" /\ (B!Service \/ B!Cleanup \/ B!Close))
  /\ WF_benchVars(part = "bench" /\ (B!Prime \/ B!Forget))
  /\ WF_benchVars(part = "bench" /\ B!Tick)
  /\ WF_startVars(part = "start" /\ U!Main)

-----------------------------------------------------------------------------
\* However the service tests are walked, fired and left, no coil stays on, at
\* most one is on at a time, the power and the engine come back, and ENTER alone
\* does not end the session; the music is what the game is, unless the test closed
\* while the game changed (ServiceTools).
ToolsGiveBack ==
  part = "tools" => /\ TypeOK /\ CoilsReleased /\ OneCoilAtATime
                    /\ PowerReturned /\ GamePickedUp /\ NoReflexEnd

\* The translite that was asked for last is on the screen once what covered it
\* has gone (Screens).
TransliteComesBack == part = "screens" => V!TypeOK /\ V!TransliteComesBack

\* The plugins have the last value of what neither waits nor was lost, and every
\* game they were told of has ended before they go (MediaHost).
PluginsInStep == part = "media" => M!TypeOK /\ M!PluginsInStep

\* A bench test leaves no output on however it ends, and the lights tell of a
\* switch that is away from its rest (BenchTest).
BenchIsSafe == part = "bench" => B!TypeOK /\ B!BenchIsSafe

\* A board is flashed once, no game starts on a board that told it is another,
\* and no output goes to boards that were let go (Startup); before that, the
\* command line wins, a voice has sound and the monitor has the screen (Settings).
StartIsSafe ==
  /\ part = "start" => U!TypeOK /\ U!StartIsSafe
  /\ part = "settings" => C!TypeOK /\ C!SettingsAgree

\* What nobody attends comes to rest: a program that updates its boards and
\* starts again plays or ends (Startup!RestartsEnd), and a bench test without a
\* keyboard ends (BenchTest!BenchEnds).
UnattendedEnds ==
  /\ part = "start" => (<>[](part = "start" /\ startPc = "loop") \/ <>[](part = "start" /\ startPc = "exited"))
  /\ (part = "bench" /\ ~bench.interactive /\ bench.mode # "switches") ~> (part = "bench" /\ benchPc = "done")

-----------------------------------------------------------------------------
(* What comments say and the code does not do, for a run of its own. *)

\* Refuted: GamePowered, OnlyTheWalkHolds and LampsPickedUp of ServiceTools.
ToolsLoseNothing ==
  part = "tools" => GamePowered /\ OnlyTheWalkHolds /\ LampsPickedUp

\* Refuted: TransliteFollowsGame, SlideLeaves and SlideIsShown of Screens.
ScreensAreRight ==
  part = "screens" => V!TransliteFollowsGame /\ V!SlideLeaves /\ V!SlideIsShown
=============================================================================
