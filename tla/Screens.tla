------------------------------- MODULE Screens -------------------------------
(***************************************************************************)
(* What is on the screen (src/src/ppuc.cpp, AttractSlides.cpp and the      *)
(* rendering half of MediaPluginHost.cpp).                                 *)
(*                                                                         *)
(* Three owners share the player's screen: the translite, drawn only when  *)
(* a request for it is in a queue; the backglass of a B2S or PUP plugin,   *)
(* drawn on every pass; and the service tools, the song picker and the     *)
(* slides, which the main loop draws into the backglass's frame or, when   *)
(* there is none, into the translite's window or one of its own.  The      *)
(* engine's thread reports that the game changed and asks for the          *)
(* translite; the main loop does everything else, one phase of its pass    *)
(* after another (pc).  A pass stands for the interval between two         *)
(* drawings, and all times are counted in passes.                          *)
(***************************************************************************)
EXTENDS Integers, Sequences, TLC

CONSTANTS
  Videos,      \* the video configurations: [translite, attract, media, b2s]
  PluginSets,  \* the renderers that plugins may have registered by a pass
  Slides,      \* how many slides there are
  Idle, Duration,       \* when a show starts, how long a slide stays
  Debounce, Both,       \* kSlideNavDebounceMs, kSlideNavBothWindowMs
  MaxQueue     \* bound: the requests in the queue when the game changes

VARIABLES
  video,       \* the configuration
  game,        \* ball_search_game_running
  engine,      \* OnGameRunningChanged: "idle" or "asks"
  offer,       \* g_songPickerRequested
  queue, last, \* renderQueue, currentTransliteCommand
  asked,       \* what the main loop is about to ask for
  window,      \* pTransliteRenderer: its address, and firmwareOwnsWindow
  picture,     \* what was last presented in that window
  glass,       \* what was last presented in the backglass's window
  overlay,     \* is a service tool open
  picker,      \* g_songPicker.active
  show, showed,\* g_attractSlides, slidesWereShowing
  frame,       \* pSlideFrame and what it was made for
  ages,        \* since each of the two buttons was last accepted
  pc           \* where the main loop is in its pass

main == <<asked, window, picture, glass, overlay, picker, show, showed, frame, ages>>
vars == <<video, game, engine, offer, queue, last, main, pc>>

\* The slides can be counted, and the plugins that draw are those two.
ScreensAssumption ==
  /\ Slides \in Nat /\ MaxQueue \in Nat \ {0}
  /\ PluginSets \subseteq SUBSET {"B2S", "PUP"}

Buttons == {"next", "previous"}
Nothing == [base |-> "blank", top |-> "none"]
NoFrame == [addr |-> 0, index |-> 0, dead |-> FALSE]
NoWindow == [addr |-> 0, owned |-> FALSE, failed |-> FALSE]
Hidden == [visible |-> FALSE, index |-> 0, paused |-> FALSE, idle |-> 0, shown |-> 0]
Right == IF game THEN "game" ELSE "attract"

Init ==
  /\ video \in Videos
  /\ game = FALSE /\ engine = "idle" /\ offer = FALSE
  /\ queue = <<"attract">> /\ last = "attract" /\ asked = "none"
  /\ window = IF video.translite THEN [NoWindow EXCEPT !.addr = 1] ELSE NoWindow
  /\ picture = Nothing /\ glass = Nothing
  /\ overlay = FALSE /\ picker = FALSE
  /\ show = Hidden /\ showed = FALSE /\ frame = NoFrame
  /\ ages = [b \in Buttons |-> Both + 1]
  /\ pc = "switches"

-----------------------------------------------------------------------------
(* Requests for the translite. *)

\* A request that is dropped when its image was the last one asked for, forced
\* or not.
QueueTransliteRender_drops(command, force) ==
  IF last = command THEN UNCHANGED <<queue, last>>
  ELSE last' = command /\ queue' = Append(queue, command)

QueueTransliteRender(command, force) ==
  IF ~force /\ last = command THEN UNCHANGED <<queue, last>>
  ELSE last' = command /\ queue' = Append(queue, command)

GameChanges ==
  /\ engine = "idle" /\ Len(queue) < MaxQueue
  /\ game' = ~game
  /\ engine' = "asks"
  /\ UNCHANGED <<video, offer, queue, last, main, pc>>

\* The rest of OnGameRunningChanged.
EngineAsks ==
  /\ engine = "asks"
  /\ engine' = "idle"
  /\ offer' = (offer \/ game)
  /\ IF game \/ video.attract THEN QueueTransliteRender(Right, FALSE) ELSE UNCHANGED <<queue, last>>
  /\ UNCHANGED <<video, game, main, pc>>

\* The main loop has read the game and now puts what it concluded in the queue.
Restore ==
  /\ asked # "none"
  /\ QueueTransliteRender(asked, TRUE)
  /\ asked' = "none"
  /\ UNCHANGED <<video, game, engine, offer, window, picture, glass, overlay, picker, show,
                 showed, frame, ages, pc>>

\* What a step of the main loop at one phase leaves alone.
Phase(from, to) ==
  /\ pc = from /\ asked = "none"
  /\ pc' = to
  /\ UNCHANGED <<video, game, engine>>

-----------------------------------------------------------------------------
(* AttractSlides::Show. *)

ShowAt(i) == [show EXCEPT !.visible = TRUE, !.index = i, !.shown = 0]
Next1 == ShowAt(IF show.visible THEN (show.index + 1) % Slides ELSE 0)
Previous1 == ShowAt(IF show.visible THEN (show.index + Slides - 1) % Slides ELSE 0)
TogglePause == [show EXCEPT !.paused = IF show.visible THEN ~@ ELSE @]
NoteActivity == IF show.visible THEN Hidden ELSE [show EXCEPT !.idle = 0]
Updated ==
  IF game THEN Hidden
  ELSE IF Slides = 0 THEN show
  ELSE IF ~show.visible THEN IF show.idle >= Idle THEN ShowAt(0) ELSE show
  ELSE IF ~show.paused /\ show.shown >= Duration
       THEN [show EXCEPT !.index = (@ + 1) % Slides, !.shown = 0]
  ELSE show

-----------------------------------------------------------------------------
(* The phases of a pass. *)

Steers == picker /\ ~overlay
TurnsSlides == Slides > 0 /\ ~game /\ ~overlay

\* CloseSongPicker.
ClosePicker == picker' = FALSE /\ asked' = "game"

\* A press of one of the two buttons (HandleSongPickerNav, HandleSlideNav).
Steer(b, both) ==
  IF Steers
  THEN IF both THEN ClosePicker /\ UNCHANGED show ELSE UNCHANGED <<picker, asked, show>>
  ELSE /\ show' = IF ~TurnsSlides THEN NoteActivity
                  ELSE IF both THEN TogglePause
                  ELSE IF b = "next" THEN Next1 ELSE Previous1
       /\ UNCHANGED <<picker, asked>>

NavButton(b) ==
  LET other == CHOOSE o \in Buttons : o # b
  IN  /\ Phase("switches", "media")
      /\ IF ages[b] < Debounce THEN UNCHANGED <<ages, picker, asked, show>>
         ELSE /\ ages' = [ages EXCEPT ![b] = 0]
              /\ Steer(b, ages[other] <= Both)
      /\ UNCHANGED <<offer, queue, last, window, picture, glass, overlay, showed, frame>>

\* Start, a coin, the coin door; a switch that is not a button; or nothing.
OtherSwitch ==
  /\ Phase("switches", "media")
  /\ \/ show' = NoteActivity /\ UNCHANGED <<picker, asked>>
     \/ picker /\ ClosePicker /\ UNCHANGED show
     \/ UNCHANGED <<show, picker, asked>>
  /\ UNCHANGED <<offer, queue, last, window, picture, glass, overlay, showed, frame, ages>>

\* What the tools, the picker and the slides draw on top of what is behind.
Wanted == overlay \/ picker \/ show.visible
\* A frame is used again when its renderer's address and its slide are the same.
Reusable(addr) == frame.addr = addr /\ frame.index = show.index
SlideShown(addr) == ~(Reusable(addr) /\ frame.dead)
Top(addr) ==
  IF overlay THEN "overlay" ELSE IF picker THEN "picker"
  ELSE IF show.visible /\ SlideShown(addr) THEN "slide" ELSE "none"
FrameFor(addr) ==
  IF overlay \/ picker \/ ~show.visible \/ Reusable(addr) THEN frame
  ELSE [addr |-> addr, index |-> show.index, dead |-> FALSE]

\* B2S when it is enabled and there, or else the first one that is not PPUC's.
Chosen(registered) ==
  IF video.b2s /\ "B2S" \in registered THEN {"B2S"} ELSE registered

BackglassUp == glass.base # "blank"
\* The address of the backglass's renderer, which is never destroyed in the loop.
GlassAddr == 3

\* MediaPluginHost::Process after the events: without a plugin's renderer
\* nothing is drawn and nothing presented.
MediaProcess ==
  /\ Phase("media", "render")
  /\ \E up \in {BackglassUp, video.media}, registered \in PluginSets :
       IF ~up THEN UNCHANGED <<glass, frame>>
       ELSE IF registered = {}
            THEN glass' = (IF BackglassUp THEN glass ELSE [base |-> "empty", top |-> "none"])
                 /\ UNCHANGED frame
       ELSE /\ \E r \in Chosen(registered) : glass' = [base |-> r, top |-> Top(GlassAddr)]
            /\ frame' = FrameFor(GlassAddr)
  /\ UNCHANGED <<offer, queue, last, asked, window, picture, overlay, picker, show, showed, ages>>

\* The image a request ends in; without a translite there is no texture, the
\* drawing fails and nothing is presented.
Presented(command) ==
  IF ~video.translite THEN picture
  ELSE [base |-> IF command = "attract" /\ video.attract THEN "attract" ELSE "game", top |-> "none"]
RenderQueue ==
  /\ Phase("render", "slides")
  /\ queue' = <<>>
  /\ picture' = IF queue = <<>> \/ window.addr = 0 THEN picture ELSE Presented(queue[Len(queue)])
  /\ UNCHANGED <<offer, last, asked, window, glass, overlay, picker, show, showed, frame, ages>>

UpdateSlides ==
  /\ Phase("slides", "picker")
  /\ show' = Updated
  /\ showed' = show'.visible
  /\ IF showed /\ ~show'.visible THEN asked' = Right /\ frame' = NoFrame
     ELSE UNCHANGED <<asked, frame>>
  /\ UNCHANGED <<offer, queue, last, window, picture, glass, overlay, picker, ages>>

\* Whether an offer is taken up, and when the picker times out, is SongPicker's.
ServiceSongPicker ==
  /\ Phase("picker", "draw")
  /\ offer' = FALSE
  /\ \E opens \in {FALSE, offer}, timeout \in BOOLEAN :
       LET open == picker \/ opens
       IN  IF open /\ (timeout \/ ~game) THEN ClosePicker
           ELSE picker' = open /\ UNCHANGED asked
  /\ UNCHANGED <<queue, last, window, picture, glass, overlay, show, showed, frame, ages>>

\* EnsureFirmwareWindow; a new renderer may get the address of an old one.
Windows ==
  IF window.addr # 0 THEN {window}
  ELSE IF window.owned THEN {window}
  ELSE {[addr |-> a, owned |-> TRUE, failed |-> a = 0] : a \in 0..2}

RenderOverlay ==
  /\ Phase("draw", "events")
  /\ IF Wanted /\ ~BackglassUp
     THEN \E w \in Windows :
            /\ window' = w
            /\ IF w.addr = 0 THEN UNCHANGED <<picture, frame>>
               ELSE /\ picture' = [base |-> "black", top |-> Top(w.addr)]
                    /\ frame' = FrameFor(w.addr)
     ELSE UNCHANGED <<window, picture, frame>>
  /\ UNCHANGED <<offer, queue, last, asked, glass, overlay, picker, show, showed, ages>>

\* CloseOverlay: a window of one's own goes, and the textures made for it die.
CloseOverlay ==
  /\ overlay' = FALSE
  /\ IF window.addr # 0 /\ window.owned
     THEN /\ window' = NoWindow
          /\ picture' = Nothing
          /\ frame' = [frame EXCEPT !.dead = @ \/ frame.addr = window.addr]
          /\ UNCHANGED asked
     ELSE /\ asked' = IF window.addr = 0 THEN asked ELSE Right
          /\ UNCHANGED <<window, picture, frame>>
  /\ UNCHANGED <<picker, show>>

Key ==
  \/ ~overlay /\ overlay' = TRUE /\ UNCHANGED <<asked, window, picture, frame, picker, show>>
  \/ overlay /\ CloseOverlay
  \/ Steers /\ ClosePicker /\ UNCHANGED <<overlay, window, picture, frame, show>>
  \/ /\ TurnsSlides /\ ~Steers
     /\ show' \in {Next1, Previous1, TogglePause, NoteActivity}
     /\ UNCHANGED <<overlay, window, picture, frame, picker, asked>>
  \/ UNCHANGED <<overlay, window, picture, frame, picker, asked, show>>

Older(a, limit) == IF a < limit THEN a + 1 ELSE a
\* The time that passes is counted at the end of the pass, on what its keys left.
PollEvents ==
  /\ Phase("events", "age")
  /\ Key
  /\ UNCHANGED <<offer, queue, last, glass, showed, ages>>
Age ==
  /\ Phase("age", "switches")
  /\ ages' = [b \in Buttons |-> Older(ages[b], Both + 1)]
  /\ show' = IF show.visible THEN [show EXCEPT !.shown = Older(@, Duration)]
             ELSE [show EXCEPT !.idle = Older(@, Idle)]
  /\ UNCHANGED <<offer, queue, last, asked, window, picture, glass, overlay, picker, showed, frame>>

-----------------------------------------------------------------------------
Pass ==
  \/ \E b \in Buttons : NavButton(b)
  \/ OtherSwitch \/ MediaProcess \/ RenderQueue \/ UpdateSlides \/ ServiceSongPicker
  \/ RenderOverlay \/ PollEvents \/ Age

Next == GameChanges \/ EngineAsks \/ Restore \/ Pass

\* The loop goes round and the engine's thread finishes what it began.
Spec == Init /\ [][Next]_vars /\ WF_vars(Pass \/ Restore) /\ WF_vars(EngineAsks)

-----------------------------------------------------------------------------
TypeOK ==
  /\ last \in {"game", "attract"} /\ asked \in {"none", "game", "attract"}
  /\ Len(queue) <= MaxQueue + 4
  /\ picture \in [base : {"blank", "black", "game", "attract"},
                  top : {"none", "overlay", "picker", "slide"}]
  /\ glass \in [base : {"blank", "empty", "B2S", "PUP"}, top : {"none", "overlay", "picker", "slide"}]
  /\ window.addr \in 0..2 /\ frame.addr \in 0..GlassAddr
  /\ show.index \in 0..(IF Slides = 0 THEN 0 ELSE Slides - 1)

\* The translite that was asked for last is on the screen again once whatever
\* covered it has gone: asking for the image that was last asked for is not the
\* same as that image being on the screen (ppuc.cpp:380-391, 9475-9481).
\* The pass has been completed and nothing is waiting.
Settled ==
  pc = "media" /\ queue = <<>> /\ asked = "none" /\ engine = "idle" /\ ~Wanted /\ ~showed
TransliteComesBack ==
  Settled /\ video.translite /\ ~BackglassUp =>
    picture = [base |-> IF last = "attract" /\ video.attract THEN "attract" ELSE "game", top |-> "none"]

\* A service tool that stays open reaches the player's screen again and again,
\* in the backglass's frame or in a window, unless there is no window to be had.
OverlayReachesScreen ==
  (<>[](overlay /\ ~window.failed)) => []<>("overlay" \in {picture.top, glass.top})

\* Refuted: and the translite shows the state the machine is in.  The picker
\* that a game's end takes down asks for the game's image, and a game that
\* changes between the read and the request does the same.
TransliteFollowsGame ==
  Settled /\ video.translite /\ video.attract /\ ~BackglassUp => picture.base = Right

\* Refuted without a translite: what the slides covered comes back.
SlideLeaves == Settled => picture.top # "slide"

\* Refuted with a window of one's own: the slide that is up is on the screen.
SlideIsShown ==
  pc = "events" /\ show.visible /\ ~overlay /\ ~picker /\ ~BackglassUp /\ window.addr # 0
    => picture.top = "slide"
=============================================================================
