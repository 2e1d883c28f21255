------------------------------- MODULE Startup -------------------------------
(***************************************************************************)
(* From the displays to the end of the program, and over its restarts: the *)
(* boards are asked who they are, flashed when an image is newer,          *)
(* configured when they are what the configuration takes them for, played  *)
(* with and let go (main of src/src/ppuc.cpp, and src/src/Uf2Image.cpp for *)
(* the images).  A launcher starts the program again when it ends with 75. *)
(*                                                                         *)
(* One run is a sequence of steps, any of which may fail, beside the       *)
(* engine's thread, which sends outputs to the boards as long as it lives, *)
(* and the signals and keys that end the main loop.  libppuc, which finds  *)
(* the boards, transfers the images and configures, is outside: which      *)
(* boards answer and which transfers succeed is open.                      *)
(***************************************************************************)
EXTENDS Integers, Sequences, FiniteSets

CONSTANTS
  Boards,       \* the addresses
  Machines,     \* what the boards are: functions of Boards to [type, version, build]
  Options,      \* [serial, update, dev, downgrade, unvalidated, serum]
  Directories,  \* --firmware-path: sequences of files, each a record
                \* [type, version, build] as its name tells, usable, family, and
                \* what a board says with it: reports
  Validated,    \* the board types whose firmware was run on real hardware
  Types,        \* the type the configuration gives a board; 0 when it lists none
  MaxRestarts   \* bound: how often somebody asks for a restart

VARIABLES
  options, files,
  board,        \* the boards
  pc,           \* where main is
  hooked,       \* boardsAnsweredBeforeConfiguration
  mismatches,   \* boardTypeMismatches
  connected, updates,  \* libppuc's port is open; its loop runs
  engine,       \* "none", "running" or "stopped"
  running, shutdown, restart,  \* the flags that end the loop, and how
  exit,         \* the exit code
  heard,        \* ghost: the boards that said in this run what they are
  flashes,      \* ghost: how often each board was flashed
  stray,        \* ghost: where main was when an output went to boards that were let go
  asked         \* ghost: restarts that were asked for

boards == <<board, flashes, heard>>
session == <<running, shutdown, restart, asked>>
vars == <<options, files, board, pc, hooked, mismatches, connected, updates, engine, session, exit,
          heard, flashes, stray>>

kExitRestart == 75
NoType == 0
Rp2040 == 1    \* and 0 is an image that names no family

\* Addresses are few, and versions, builds and types are numbers; 0 is no build.
Image == [type : Nat, version : Nat, build : Nat, usable : BOOLEAN, family : Nat,
          reports : [version : Nat, build : Nat]]
StartAssumption ==
  /\ IsFiniteSet(Boards)
  /\ Machines \subseteq [Boards -> [type : Nat, version : Nat, build : Nat]]
  /\ Options \subseteq [serial : BOOLEAN, update : BOOLEAN, dev : BOOLEAN, downgrade : BOOLEAN,
                       unvalidated : BOOLEAN, serum : BOOLEAN]
  /\ Directories \subseteq Seq(Image)

Init ==
  /\ options \in Options /\ files \in Directories /\ board \in Machines
  /\ pc = "displays"
  /\ hooked = 0 /\ mismatches = 0
  /\ connected = FALSE /\ updates = FALSE /\ engine = "none"
  /\ running = TRUE /\ shutdown = FALSE /\ restart = FALSE
  /\ exit = 0
  /\ heard = {} /\ flashes = [b \in Boards |-> 0] /\ stray = {} /\ asked = 0

Exit(code) == pc' = "exited" /\ exit' = code
Go(next) == pc' = next /\ UNCHANGED exit
Disconnect == connected' = FALSE

-----------------------------------------------------------------------------
(* Which image, and for which board. *)

Better(f, best) ==
  \/ f.version > best.version
  \/ f.version = best.version /\ f.build # 0 /\ best.build = 0

\* FindNewestFirmwareImage: the first of the best in the directory's order.  A
\* name that does not parse, or of another type, is as if it were not there.
None == [version |-> -1]
FindNewestFirmwareImage(directory, type) ==
  LET found[i \in 0..Len(directory)] ==
        IF i = 0 THEN None
        ELSE IF directory[i].type = type /\ (found[i - 1] = None \/ Better(directory[i], found[i - 1]))
        THEN directory[i] ELSE found[i - 1]
  IN  found[Len(directory)]

FirmwareIsOutOfDate(b, image) ==
  \/ b.version < image.version
  \/ options.downgrade /\ b.version > image.version
  \/ /\ options.dev /\ b.version = image.version
     /\ image.build # 0 /\ b.build # 0 /\ b.build # image.build

FirmwareUpdateBlocked(b) == ~options.unvalidated /\ b.type \notin Validated

FirmwareUpdatePlanned(b) ==
  LET image == FindNewestFirmwareImage(files, board[b].type)
  IN  /\ image # None
      /\ FirmwareIsOutOfDate(board[b], image)
      /\ ~FirmwareUpdateBlocked(board[b])

\* A file that is no image, or one for another chip, stops its board and no other.
Usable(b) ==
  LET image == FindNewestFirmwareImage(files, board[b].type)
  IN  image.usable /\ image.family \in {0, Rp2040}

-----------------------------------------------------------------------------
(* Before the game. *)

\* PerformFirmwareUpdates: the boards it may flash.  Any transfer may fail.
Updatable(responded) ==
  IF options.update THEN {b \in responded : FirmwareUpdatePlanned(b) /\ Usable(b)} ELSE {}

\* Every attempt asks for a restart, one that failed as well.
MustRestart_attempted(responded, updated) ==
  options.update /\ \E b \in responded : FirmwareUpdatePlanned(b)

\* The run goes on when every transfer failed.
MustRestart(responded, updated) == updated # {}

\* ReportBoardFirmware: the boards that were flashed run the image.
ReportBoardFirmware(responded, updated) ==
  /\ heard' = heard \cup responded
  /\ board' = [b \in Boards |->
       IF b \notin updated THEN board[b]
       ELSE LET told == FindNewestFirmwareImage(files, board[b].type).reports
            IN  [board[b] EXCEPT !.version = told.version, !.build = told.build]]
  /\ flashes' = [b \in Boards |-> IF b \in updated THEN flashes[b] + 1 ELSE flashes[b]]

Mismatch(b) == Types[b] # NoType /\ board[b].type # NoType /\ board[b].type # Types[b]
CheckBoardTypes(responded) == Cardinality({b \in responded : Mismatch(b)})

\* The displays are created; a virtual one, or the rules' folder, may fail.
OpenDisplays ==
  /\ pc = "displays"
  /\ Exit(1) \/ Go(IF options.serial THEN "connect" ELSE "prepare")
  /\ UNCHANGED <<options, files, boards, hooked, mismatches, connected, updates, engine, session, stray>>

OpenPort ==
  /\ pc = "connect"
  /\ \/ connected' = TRUE /\ Go("ask")
     \/ connected' = FALSE /\ Exit(1)
  /\ UNCHANGED <<options, files, boards, hooked, mismatches, updates, engine, session, stray>>

\* The hook that runs before any board is configured.
AskFirst ==
  /\ pc = "ask"
  /\ \E responded \in SUBSET Boards : \E updated \in SUBSET Updatable(responded) :
       /\ ReportBoardFirmware(responded, updated)
       /\ hooked' = Cardinality(responded)
       /\ IF MustRestart(responded, updated)
          THEN Disconnect /\ Exit(kExitRestart) /\ UNCHANGED mismatches
          ELSE /\ mismatches' = CheckBoardTypes(responded)
               /\ IF mismatches' > 0 THEN Disconnect /\ Exit(1)
                  ELSE Go("configure") /\ UNCHANGED connected
  /\ UNCHANGED <<options, files, updates, engine, session, stray>>

Configure ==
  /\ pc = "configure"
  /\ Exit(1) \/ Go(IF hooked = 0 THEN "again" ELSE "prepare")
  /\ UNCHANGED <<options, files, boards, hooked, mismatches, connected, updates, engine, session, stray>>

\* Asking for firmware only, once the boards are configured.
AskAgain_firmware ==
  /\ pc = "again"
  /\ \E responded \in SUBSET Boards : \E updated \in SUBSET Updatable(responded) :
       /\ ReportBoardFirmware(responded, updated)
       /\ IF MustRestart(responded, updated) THEN Disconnect /\ Exit(kExitRestart)
          ELSE Go("prepare") /\ UNCHANGED connected
  /\ UNCHANGED <<options, files, hooked, mismatches, updates, engine, session, stray>>

\* When nobody answered before, everybody is asked once more.
AskAgain ==
  /\ pc = "again"
  /\ \E responded \in SUBSET Boards : \E updated \in SUBSET Updatable(responded) :
       /\ ReportBoardFirmware(responded, updated)
       /\ IF MustRestart(responded, updated) THEN Disconnect /\ Exit(kExitRestart)
          ELSE IF CheckBoardTypes(responded) > 0 THEN Disconnect /\ Exit(1)
          ELSE Go("prepare") /\ UNCHANGED connected
  /\ UNCHANGED <<options, files, hooked, mismatches, updates, engine, session, stray>>

-----------------------------------------------------------------------------
(* The game. *)

\* The speech, the engine and its plugin, and the rules: each may fail, and the
\* boards are not let go then.
Prepare ==
  /\ pc = "prepare"
  /\ Exit(1) \/ Go("start")
  /\ UNCHANGED <<options, files, boards, hooked, mismatches, connected, updates, engine, session, stray>>

Start ==
  /\ pc = "start"
  /\ \/ engine' = "running" /\ updates' = TRUE /\ Go("loop")
     \/ UNCHANGED <<engine, updates>> /\ Go("letgo")
  /\ UNCHANGED <<options, files, boards, hooked, mismatches, connected, session, stray>>

\* The engine's thread.
EngineSends ==
  /\ engine = "running"
  /\ stray' = IF options.serial /\ ~connected THEN stray \cup {pc} ELSE stray
  /\ UNCHANGED <<options, files, boards, pc, hooked, mismatches, connected, updates, engine, session, exit>>

\* A signal, at any moment, a ROM that ends, a board that lost its configuration.
Signal ==
  /\ pc # "exited" /\ ~shutdown
  /\ running' = FALSE /\ shutdown' = TRUE
  /\ UNCHANGED <<options, files, boards, pc, hooked, mismatches, connected, updates, engine, restart, asked,
                 exit, stray>>

\* The key, the time that is up, a rule that failed; or the tools menu.
Leave ==
  /\ pc = "loop" /\ running
  /\ running' = FALSE
  /\ \/ UNCHANGED <<restart, asked>>
     \/ asked < MaxRestarts /\ restart' = TRUE /\ asked' = asked + 1
  /\ UNCHANGED <<options, files, boards, pc, hooked, mismatches, connected, updates, engine, shutdown, exit, stray>>

EndLoop ==
  /\ pc = "loop" /\ ~running
  /\ Go(IF shutdown /\ options.serum THEN "emergency" ELSE "stop")
  /\ UNCHANGED <<options, files, boards, hooked, mismatches, connected, updates, engine, session, stray>>

\* With Serum, a signal ends the process without stopping the engine.
Emergency ==
  /\ \/ pc = "emergency" /\ updates' = FALSE /\ Go("drop") /\ UNCHANGED <<connected, engine>>
     \/ /\ pc = "drop"
        /\ connected' = FALSE /\ Go("_Exit") /\ UNCHANGED <<updates, engine>>
     \/ pc = "_Exit" /\ Exit(0) /\ engine' = "none" /\ UNCHANGED <<connected, updates>>
  /\ UNCHANGED <<options, files, boards, hooked, mismatches, session, stray>>

StopEngine ==
  /\ pc = "stop"
  /\ engine' = "stopped"
  /\ Go("quiet")
  /\ UNCHANGED <<options, files, boards, hooked, mismatches, connected, updates, session, stray>>

StopUpdates ==
  /\ pc = "quiet"
  /\ updates' = FALSE
  /\ Go("letgo")
  /\ UNCHANGED <<options, files, boards, hooked, mismatches, connected, engine, session, stray>>

LetGo ==
  /\ pc = "letgo"
  /\ Disconnect
  /\ Go("teardown")
  /\ UNCHANGED <<options, files, boards, hooked, mismatches, updates, engine, session, stray>>

\* The media host, the bus, the speech, the sound and the displays.
Teardown ==
  /\ pc = "teardown"
  /\ Exit(IF restart THEN kExitRestart ELSE 0)
  /\ engine' = "none"
  /\ UNCHANGED <<options, files, boards, hooked, mismatches, connected, updates, session, stray>>

\* The launcher: a new process, the same boards.
Relaunch ==
  /\ pc = "exited" /\ exit = kExitRestart
  /\ pc' = "displays" /\ exit' = 0
  /\ hooked' = 0 /\ mismatches' = 0
  /\ connected' = FALSE /\ updates' = FALSE /\ engine' = "none"
  /\ running' = TRUE /\ shutdown' = FALSE /\ restart' = FALSE
  /\ heard' = {}
  /\ UNCHANGED <<options, files, board, flashes, stray, asked>>

Main ==
  \/ OpenDisplays \/ OpenPort \/ AskFirst \/ Configure \/ AskAgain \/ Prepare \/ Start
  \/ EndLoop \/ Emergency \/ StopEngine \/ StopUpdates \/ LetGo \/ Teardown \/ Relaunch
Next == Main \/ EngineSends \/ Signal \/ Leave

\* The program goes on with what it has to do, and the launcher does its part.
Spec == Init /\ [][Next]_vars /\ WF_vars(Main)

-----------------------------------------------------------------------------
TypeOK ==
  /\ exit \in {0, 1, kExitRestart} /\ engine \in {"none", "running", "stopped"}
  /\ mismatches \in 0..Cardinality(Boards) /\ hooked \in 0..Cardinality(Boards)
  /\ heard \subseteq Boards

\* As long as the images are what their names say, no board is flashed twice,
\* over any number of restarts: what was flashed is not out of date any more
\* (ppuc.cpp:2086-2088).
FlashedOnce == \A b \in Boards : flashes[b] <= 1

\* No game starts while a board that said in this run what it is, early or
\* late, is another board than the configuration's (ppuc.cpp:8828-8835).
NoGameOnWrongBoard == pc = "loop" => \A b \in heard : ~Mismatch(b)

\* No output of the engine is sent to boards that were let go, but in the
\* emergency exit, where the engine is never stopped (ppuc.cpp:9654-9659).
SinksReachBus == stray \subseteq {"_Exit"}

StartIsSafe == FlashedOnce /\ NoGameOnWrongBoard /\ SinksReachBus

\* An unattended machine comes to rest: it plays, or it has ended for good.
RestartsEnd == <>[](pc = "loop") \/ <>[](pc = "exited")
=============================================================================
