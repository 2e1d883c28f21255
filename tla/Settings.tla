------------------------------ MODULE Settings -------------------------------
(***************************************************************************)
(* How the program makes up its mind: the command line is scanned for the  *)
(* game's folder, the folder's ppuc.ini is read, the folder fills in what  *)
(* is missing, the command line is read in full, what does not go together *)
(* is refused, and the sound, the plugins, the speech and the screens are  *)
(* set up (main of src/src/ppuc.cpp up to the boards).  A setting is known *)
(* by where it came from; the files and the parsing of numbers are left    *)
(* out.  Anything that is set up may fail.                                 *)
(***************************************************************************)
EXTENDS Naturals, FiniteSets

CONSTANT Inputs
  \* [game: is --game given, cli: what the command line gives, flags and values,
  \*  iniOn, iniOff: the flags that ppuc.ini turns on and off, ini: the values in
  \*  it, folder: what the game's folder has, yaml: is a ROM configured,
  \*  engine: [cli, ini], number: is a test's number given]

VARIABLES
  input,
  pc, exit,   \* where main is, and the exit code; "none" while it goes on
  on,         \* the flags that are set
  value,      \* where each value comes from: "cli", "ini", "folder", "yaml", "none"
  engine,     \* opt_engine
  audio, bus, media, speech, slides,  \* what is up
  window,     \* the translite's window
  leftover    \* the LED string test's configuration is in the temporary folder

up == <<audio, bus, media, speech, slides, window>>
vars == <<input, pc, exit, on, value, engine, up, leftover>>

Values == {"iniFile", "config", "translite", "attract", "music", "rules", "rom", "altsoundFolder"}
Tests == {"switchTest", "coilTest", "lampTest", "giTest", "flasherTest", "ledTest"}
Has(v) == value[v] # "none"

Init ==
  /\ input \in Inputs
  /\ pc = "scan" /\ exit = "none"
  /\ on = {"slides"} /\ value = [v \in Values |-> "none"] /\ engine = "pinmame"
  /\ audio = FALSE /\ bus = FALSE /\ media = FALSE /\ speech = FALSE /\ slides = FALSE /\ window = FALSE
  /\ leftover = FALSE

Go(next) == pc' = next /\ UNCHANGED exit
Exit(code) == pc' = "over" /\ exit' = code

\* The values of a source, over what is there.
Over(source, these) == [v \in Values |-> IF v \in these THEN source ELSE value[v]]
\* Those of the folder, where nothing is there yet.
Under(these) == [v \in Values |-> IF v \in these /\ ~Has(v) THEN "folder" ELSE value[v]]

-----------------------------------------------------------------------------
(* Reading. *)

\* The scan that comes first knows three options only.
Scan ==
  /\ pc = "scan"
  /\ on' = on \cup (input.cli \cap {"b2s"})
  /\ LET given == Over("cli", input.cli \cap {"iniFile"})
     IN  value' = IF ~input.game THEN given
                  ELSE [given EXCEPT !.config = "folder",
                                     !.iniFile = IF @ = "none" /\ "iniFile" \in input.folder THEN "folder" ELSE @]
  /\ Go("ini")
  /\ UNCHANGED <<input, engine, up, leftover>>

\* Naming the rules turns them on; Runtime.Rules = false may come before or after.
IniRules ==
  IF "rules" \notin input.ini THEN {{}}
  ELSE IF "rules" \in input.iniOff THEN SUBSET {"rules"} ELSE {{"rules"}}

IniFlags == (on \cup input.iniOn) \ input.iniOff

\* A file that was named, or found in the folder, has to open.
LoadIniFile ==
  /\ pc = "ini"
  /\ IF ~Has("iniFile") THEN Go("folder") /\ UNCHANGED <<on, value, engine>>
     ELSE \/ /\ Go("folder")
             /\ \E ruled \in IniRules : on' = IniFlags \cup ruled
             /\ value' = Over("ini", input.ini)
             /\ engine' = IF input.engine.ini = "none" THEN engine ELSE input.engine.ini
          \/ Exit("1") /\ UNCHANGED <<on, value, engine>>
  /\ UNCHANGED <<input, up, leftover>>

\* The music and the translites of the folder, the latter unless B2S is on.
FolderDefaults ==
  /\ pc = "folder"
  /\ value' = IF ~input.game THEN value
              ELSE Under(input.folder \cap (IF "b2s" \in on THEN {"music"} ELSE {"music", "translite", "attract"}))
  /\ Go("cli")
  /\ UNCHANGED <<input, on, engine, up, leftover>>

\* An option turns on and never off.
Given == input.cli \ (Values \ {"rules"})

\* "help" and "unknown" end the program.
CommandLine ==
  /\ pc = "cli"
  /\ on' = on \cup Given
  /\ value' = Over("cli", input.cli)
  /\ engine' = (IF input.engine.cli = "none" THEN engine ELSE input.engine.cli)
  /\ IF "help" \in input.cli THEN Exit("0")
     ELSE IF "unknown" \in input.cli THEN Exit("1") ELSE Go("validate")
  /\ UNCHANGED <<input, up, leftover>>

\* What does not go together.
Refused ==
  \/ "badNumber" \in on
  \/ "closeDoor" \in on /\ "noSerial" \in on
  \/ "interactive" \in on /\ on \cap {"coilTest", "lampTest", "flasherTest"} = {}
  \/ "ledTest" \in on /\ input.number
  \/ engine \notin {"pinmame", "script"}

Validate ==
  /\ pc = "validate"
  /\ IF ~Has("config") THEN Exit("-1") ELSE IF Refused THEN Exit("1") ELSE Go("configure")
  /\ UNCHANGED <<input, on, value, engine, up, leftover>>

\* The configuration, or the LED test's copy of it, is read; then the game's part
\* of it, the tilt's and the ball save's.  It may name a ROM and ask for debugging.
LoadConfiguration ==
  /\ pc = "configure"
  /\ \/ /\ value' = (IF input.yaml /\ ~Has("rom") THEN [value EXCEPT !.rom = "yaml"] ELSE value)
        /\ on' \in {on, on \cup {"debug"}}
        /\ Go("rules")
        /\ UNCHANGED leftover
     \/ /\ Exit("1")
        /\ leftover' \in (IF "ledTest" \in on THEN BOOLEAN ELSE {FALSE})
        /\ UNCHANGED <<on, value>>
  /\ UNCHANGED <<input, engine, up>>

\* The folder's rules, when there are any, and its sounds.
FolderRules ==
  /\ pc = "rules"
  /\ value' = IF ~input.game THEN value
              ELSE Under((IF "rules" \in on THEN input.folder \cap {"rules"} ELSE {})
                         \cup (IF Has("rom") THEN {"altsoundFolder"} ELSE {}))
  /\ Go("sound")
  /\ UNCHANGED <<input, on, engine, up, leftover>>

-----------------------------------------------------------------------------
(* Setting up. *)

SoundConflict == "noSound" \in on /\ (on \cap {"speech", "greeting"} # {} \/ Has("music"))

\* Without sound there is nothing to set up; with it, the device or the music may fail.
Sound ==
  /\ pc = "sound"
  /\ \/ Exit("1") /\ UNCHANGED audio
     \/ /\ ~SoundConflict
        /\ audio' = ("noSound" \notin on)
        /\ Go("monitor")
  /\ UNCHANGED <<input, on, value, engine, bus, media, speech, slides, window, leftover>>

\* The monitor takes the screen from B2S and leaves it to the others.
Monitor_b2s ==
  /\ pc = "monitor"
  /\ on' = (IF "monitor" \in on THEN on \ {"b2s"} ELSE on)
  /\ Go("plugins")
  /\ slides' \in BOOLEAN
  /\ UNCHANGED <<input, value, engine, audio, bus, media, speech, window, leftover>>

\* The switch monitor takes the screen outright; without it there may be slides.
Monitor ==
  /\ pc = "monitor"
  /\ IF "monitor" \in on /\ (on \cap {"b2s", "pup"} # {} \/ Has("translite"))
     THEN /\ on' = on \ {"b2s", "pup"}
          /\ value' = [value EXCEPT !.translite = "none", !.attract = "none"]
     ELSE UNCHANGED <<on, value>>
  /\ slides' \in (IF "slides" \in on /\ "monitor" \notin on /\ input.game THEN BOOLEAN ELSE {FALSE})
  /\ Go("plugins")
  /\ UNCHANGED <<input, engine, audio, bus, media, speech, window, leftover>>

\* A bus that fails ends the program; a media host that fails is given up.
Plugins ==
  /\ pc = "plugins"
  /\ IF engine = "script" /\ on \cap {"pup", "altsound", "b2s"} = {}
     THEN Go("speech") /\ UNCHANGED <<bus, media>>
     ELSE \/ bus' = TRUE /\ media' \in BOOLEAN /\ Go("speech")
          \/ Exit("1") /\ UNCHANGED <<bus, media>>
  /\ UNCHANGED <<input, on, value, engine, audio, speech, slides, window, leftover>>

\* The greeting is spoken now; a service for the speech alone comes with the boards.
Greeting ==
  /\ pc = "speech"
  /\ IF "greeting" \notin on THEN Go("screens") /\ UNCHANGED speech
     ELSE \/ speech' = TRUE /\ Go("screens")
          \/ Exit("1") /\ UNCHANGED speech
  /\ UNCHANGED <<input, on, value, engine, audio, bus, media, slides, window, leftover>>

\* A test, or anything that is debugged, does without the translite.
Diagnostic == on \cap (Tests \cup {"debug"}) # {}

Screens ==
  /\ pc = "screens"
  /\ value' = IF Diagnostic THEN [value EXCEPT !.translite = "none", !.attract = "none"] ELSE value
  /\ \/ window' = (value'.translite # "none") /\ Go("ready")
     \/ (value'.translite # "none" \/ "virtualDmd" \in on) /\ Exit("1") /\ UNCHANGED window
  /\ UNCHANGED <<input, on, engine, audio, bus, media, speech, slides, leftover>>

Next ==
  \/ Scan \/ LoadIniFile \/ FolderDefaults \/ CommandLine \/ Validate \/ LoadConfiguration \/ FolderRules
  \/ Sound \/ Monitor \/ Plugins \/ Greeting \/ Screens

Spec == Init /\ [][Next]_vars

-----------------------------------------------------------------------------
TypeOK ==
  /\ value \in [Values -> {"cli", "ini", "folder", "yaml", "none"}]
  /\ exit \in {"none", "0", "1", "-1"}

\* A value on the command line is the one the program works with, whatever the
\* folder, the file and the configuration say, and the file's value beats the
\* folder's (README.md:112, ppuc.cpp:7845).
Dropped == {"translite", "attract"}
CommandLineWins ==
  pc = "ready" => /\ \A v \in (input.cli \cap Values) \ Dropped : value[v] = "cli"
                  /\ \A v \in Values : value[v] = "folder" /\ Has("iniFile") => v \notin input.ini

\* Nothing asks for a voice or for music while there is no sound to come out of
\* (a speech service is made from the sound output's address).
VoiceHasSound == pc = "ready" /\ ~audio => on \cap {"speech", "greeting"} = {} /\ ~Has("music")

\* While the switch monitor is on, nothing else claims the screen: no backglass
\* and no translite was started (ppuc.cpp:8062-8065).
MonitorOwnsScreen == pc = "ready" /\ "monitor" \in on => ~window /\ on \cap {"b2s", "pup"} = {} /\ ~slides

SettingsAgree == CommandLineWins /\ VoiceHasSound /\ MonitorOwnsScreen

\* README.md:258-261: when --b2s or Runtime.B2S=true is used, the translites of
\* the game's folder are ignored, so that the B2S plugin owns the backglass.
B2SOwnsBackglass == pc = "ready" /\ "b2s" \in on => value.translite # "folder"

\* Refuted: a machine whose folder has music can be started without sound.
SilenceIsAllowed ==
  exit = "1" => ~(/\ "noSound" \in on /\ ~bus /\ "music" \notin input.cli \cup input.ini
                  /\ on \cap {"speech", "greeting"} = {} /\ SoundConflict)

\* Refuted: what the LED string test writes is removed.
NothingLeftBehind == exit # "none" => ~leftover
=============================================================================
