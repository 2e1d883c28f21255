----------------------------- MODULE SongPicker -----------------------------
(***************************************************************************)
(* The background music and who steers it: the playlist in the audio       *)
(* output, the engine's thread that switches it with the game, a service   *)
(* test that silences it, and the song picker a player steers with the     *)
(* flipper buttons (src/src/AudioOutput.cpp, src/src/ppuc.cpp).            *)
(*                                                                         *)
(* Every call into the audio output is one critical section; the steps of  *)
(* OnGameRunningChanged and of CloseServiceTest are several.  A track ends *)
(* in the device's callback, and not while a game is just starting.  Time *)
(* passes in ticks; the loop passes at least once between two ticks and    *)
(* after a request, the engine's thread finishes a change within a tick,   *)
(* and two presses are "together" when no tick separates them.  Bounces    *)
(* are dropped before they get here.                                       *)
(***************************************************************************)
EXTENDS Integers

CONSTANTS
  Tracks,     \* how many tracks the playlist has
  Broken,     \* the tracks whose file could not be loaded
  Gap,        \* ticks of silence between two tracks
  Settle,     \* kSongPickerSettleMs
  Timeout,    \* kSongPickerTimeoutMs
  MinAttract, \* kMinAttractBeforePicker
  Flickers    \* bound: reports of the game-on solenoid between two ticks

VARIABLES
  index,      \* musicTrackIndex_
  track,      \* what the mixer does with the track
  enabled,    \* musicEnabled_
  gap,        \* musicTrackStartTickMs_, in ticks from now, when a start is pending
  game,       \* ball_search_game_running
  stage,      \* where the engine's thread is in OnGameRunningChanged
  test,       \* "closed", "open", or "closing" between reading the game and acting
  seen,       \* the game as CloseServiceTest read it
  picker,     \* g_songPicker, with its times as ages
  lastPress,  \* the navigation button closed since the last tick
  offer,      \* g_songPickerRequested, offeredThisGame, wasRunning, age of g_gameOffAtMs
  reports,    \* of the game-on solenoid since the last tick
  passed,     \* the loop has passed since the last tick
  ghost       \* heard: the last song of the last game; resume: the song a test
              \* interrupted; stale: a closing test acted on an outdated game;
              \* rest: ticks without a game, the most since the last offer

SongsAssumption ==
  /\ Tracks \in Nat \ {0} /\ Gap \in Nat /\ Settle \in Nat /\ Timeout \in Nat /\ MinAttract \in Nat

music == <<index, track, enabled, gap>>
engine == <<game, stage, reports>>
tools == <<test, seen>>
player == <<picker, lastPress, offer>>
vars == <<music, engine, tools, player, passed, ghost>>

None == -1
Pending == gap # None
Closed == [active |-> FALSE, index |-> 0, from |-> 0, opened |-> 0, touched |-> 0]
Less(a, b) == IF a < b THEN a ELSE b

Init ==
  /\ index = 0 /\ track = "stopped" /\ enabled = FALSE /\ gap = None
  /\ game = FALSE /\ stage = "idle" /\ reports = 0
  /\ test = "closed" /\ seen = FALSE
  /\ picker = Closed /\ lastPress = "none"
  /\ offer = [requested |-> FALSE, offered |-> FALSE, was |-> FALSE, off |-> 0]
  /\ passed = FALSE
  /\ ghost = [heard |-> None, resume |-> None, stale |-> FALSE, rest |-> MinAttract, off |-> 0]

-----------------------------------------------------------------------------
(* The audio output. *)

Following(i) == (i + 1) % Tracks
\* The first track at or after i that was loaded, when there is one.
Loaded(i) ==
  LET ahead == {k \in 0..Tracks - 1 : (i + k) % Tracks \notin Broken}
  IN  IF ahead = {} THEN i ELSE (i + CHOOSE k \in ahead : \A m \in ahead : k <= m) % Tracks

\* StartCurrentMusicTrackLocked.
StartCurrentMusicTrack(i) ==
  /\ index' = Loaded(i)
  /\ track' = IF index' \in Broken THEN track ELSE "playing"
  /\ gap' = None

SetMusicEnabled(on) ==
  /\ enabled' = on
  /\ IF on /\ (~enabled \/ track = "stopped")
     THEN StartCurrentMusicTrack(index)
     ELSE /\ track' = IF on THEN "playing" ELSE IF track = "playing" THEN "paused" ELSE track
          /\ UNCHANGED <<index, gap>>

SelectMusicTrack(i) ==
  IF i = index THEN UNCHANGED music
  ELSE IF enabled THEN StartCurrentMusicTrack(i) /\ UNCHANGED enabled
  ELSE index' = i /\ UNCHANGED <<track, enabled, gap>>

TrackEnds_noGap ==
  /\ track = "playing" /\ (game => stage = "idle")
  /\ track' = "stopped"
  /\ index' = Following(index)
  /\ UNCHANGED <<gap, enabled, engine, tools, player, passed, ghost>>

\* HandleMusicTrackStoppedLocked, from the device's callback.
TrackEnds ==
  /\ track = "playing" /\ (game => stage = "idle")
  /\ track' = "stopped"
  /\ index' = Following(index)
  /\ gap' = IF enabled THEN Gap ELSE gap
  /\ UNCHANGED <<enabled, engine, tools, player, passed, ghost>>

\* MixMusicLocked, which starts a pending track whether music is on or not.
MixMusic ==
  /\ gap = 0
  /\ StartCurrentMusicTrack(index)
  /\ UNCHANGED <<enabled, engine, tools, player, passed, ghost>>

-----------------------------------------------------------------------------
(* OnGameRunningChanged, on the engine's thread. *)

Report ==
  /\ stage = "idle" /\ reports < Flickers
  /\ stage' = "enable"
  /\ reports' = reports + 1

GameChanges ==
  /\ Report
  /\ game' = ~game
  /\ ghost' = [ghost EXCEPT !.resume = None]
  /\ UNCHANGED <<music, tools, player, passed>>

\* The sources of the plugin are republished: game-on is reported once more.
GameOnAgain ==
  /\ Report /\ game
  /\ ghost' = [ghost EXCEPT !.resume = None]
  /\ UNCHANGED <<music, game, tools, player, passed>>

EnableMusic ==
  /\ stage = "enable"
  /\ SetMusicEnabled(game)
  /\ stage' = IF game THEN "request" ELSE "advance"
  /\ ghost' = [ghost EXCEPT !.stale = FALSE,
                 !.heard = IF game THEN @ ELSE IF track = "playing" THEN index ELSE None]
  /\ UNCHANGED <<game, reports, tools, player, passed>>

AdvanceMusicTrack_none ==
  /\ stage = "advance"
  /\ stage' = "idle"
  /\ UNCHANGED <<music, game, reports, tools, player, passed, ghost>>

AdvanceMusicTrack ==
  /\ stage = "advance"
  /\ index' = Following(index)
  /\ stage' = "idle"
  /\ UNCHANGED <<track, enabled, gap, game, reports, tools, player, passed, ghost>>

RequestSongPicker ==
  /\ stage = "request"
  /\ offer' = [offer EXCEPT !.requested = TRUE]
  /\ stage' = "idle"
  /\ passed' = FALSE
  /\ ghost' = [ghost EXCEPT !.heard = None]
  /\ UNCHANGED <<music, game, reports, tools, picker, lastPress>>

-----------------------------------------------------------------------------
(* The service test, on the main loop; the game may change behind it. *)

OpenServiceTest ==
  /\ test = "closed"
  /\ test' = "open"
  /\ SetMusicEnabled(FALSE)
  /\ ghost' = [ghost EXCEPT !.resume = IF game /\ stage = "idle" /\ track = "playing" THEN index ELSE None]
  /\ UNCHANGED <<engine, seen, player, passed>>

ReadGame ==
  /\ test = "open"
  /\ test' = "closing"
  /\ seen' = game
  /\ UNCHANGED <<music, engine, player, passed, ghost>>

CloseServiceTest ==
  /\ test = "closing"
  /\ test' = "closed"
  /\ SetMusicEnabled(seen)
  /\ ghost' = [ghost EXCEPT !.stale = seen # game /\ stage # "enable",
                             !.heard = IF seen = game THEN @ ELSE None]
  /\ UNCHANGED <<engine, seen, player, passed>>

-----------------------------------------------------------------------------
(* The song picker, on the main loop. *)

\* HandleSongPickerNav; an open tool has the keys.
HandleSongPickerNav(button) ==
  /\ test = "closed"
  /\ lastPress' = button
  /\ IF ~picker.active THEN UNCHANGED <<music, picker, ghost>>
     ELSE IF lastPress \notin {"none", button}
          THEN /\ picker' = Closed
               /\ IF picker.from = picker.index THEN UNCHANGED <<music, ghost>>
                  ELSE /\ SelectMusicTrack(picker.from)
                       /\ ghost' = [ghost EXCEPT !.heard = None]
          ELSE LET to == (picker.index + (IF button = "next" THEN 1 ELSE Tracks - 1)) % Tracks
               IN  /\ SelectMusicTrack(to)
                   /\ picker' = [picker EXCEPT !.from = picker.index, !.index = to, !.touched = 0]
                   /\ ghost' = [ghost EXCEPT !.heard = None]
  /\ UNCHANGED <<engine, tools, offer, passed>>

\* NoteSongPickerSwitch, for a switch that is neither a button nor for steering.
NoteSongPickerSwitch ==
  /\ test = "closed"
  /\ picker.active /\ picker.opened >= Settle
  /\ picker' = Closed
  /\ UNCHANGED <<music, engine, tools, lastPress, offer, passed, ghost>>

OpenSongPicker == [active |-> TRUE, index |-> index, from |-> index, opened |-> 0, touched |-> 0]

Unattended(p) == p.touched >= Timeout

\* ServiceSongPicker.
OffAge == IF ~game /\ offer.was THEN 0 ELSE offer.off
MayOffer == ~(offer.offered /\ game) /\ OffAge >= MinAttract
ServiceSongPicker ==
  LET opens == offer.requested /\ MayOffer
      shown == IF opens THEN OpenSongPicker ELSE picker
  IN  /\ test # "closing"
      /\ picker' = IF shown.active /\ ~Unattended(shown) /\ game THEN shown ELSE Closed
      /\ offer' = [requested |-> FALSE, offered |-> (offer.offered /\ game) \/ opens,
                   was |-> game, off |-> OffAge]
      /\ ghost' = IF opens THEN [ghost EXCEPT !.rest = 0] ELSE ghost
      /\ passed' = TRUE
      /\ UNCHANGED <<music, engine, tools, lastPress>>

Tick ==
  /\ passed /\ gap # 0 /\ stage = "idle"
  /\ passed' = FALSE /\ reports' = 0
  /\ gap' = IF Pending THEN gap - 1 ELSE gap
  /\ lastPress' = "none"
  /\ picker' = IF picker.active
               THEN [picker EXCEPT !.opened = Less(@ + 1, Settle), !.touched = Less(@ + 1, Timeout)]
               ELSE picker
  /\ offer' = [offer EXCEPT !.off = Less(@ + 1, MinAttract)]
  /\ LET off == IF game THEN 0 ELSE Less(ghost.off + 1, MinAttract)
     IN  ghost' = [ghost EXCEPT !.off = off, !.rest = IF off > @ THEN off ELSE @]
  /\ UNCHANGED <<index, track, enabled, game, stage, tools>>

-----------------------------------------------------------------------------
Engine == GameChanges \/ GameOnAgain \/ EnableMusic \/ AdvanceMusicTrack \/ RequestSongPicker
Main ==
  \/ OpenServiceTest \/ ReadGame \/ CloseServiceTest
  \/ \E button \in {"next", "previous"} : HandleSongPickerNav(button)
  \/ NoteSongPickerSwitch \/ ServiceSongPicker

Next == Engine \/ Main \/ TrackEnds \/ MixMusic \/ Tick

\* The engine's thread finishes a change it began, the device and the clock go
\* on, and the loop serves the picker on every pass, whatever keys it handles.
Fairness ==
  /\ WF_vars(EnableMusic \/ AdvanceMusicTrack \/ RequestSongPicker)
  /\ WF_vars(MixMusic)
  /\ SF_vars(Tick)
  /\ WF_vars(CloseServiceTest)
  /\ SF_vars(ServiceSongPicker)

Spec == Init /\ [][Next]_vars /\ Fairness

-----------------------------------------------------------------------------
TypeOK ==
  /\ index \in 0..(Tracks - 1) /\ track \in {"stopped", "playing", "paused"}
  /\ gap \in None..Gap
  /\ picker.index \in 0..(Tracks - 1) /\ picker.from \in 0..(Tracks - 1)
  /\ picker.opened \in 0..Settle /\ picker.touched \in 0..Timeout

\* Music is on exactly when a game runs, once a change has been carried out and
\* no test is open: "playing if a game is running, silent if the machine is in
\* attract" (CloseServiceTest), but for a test that closed on an outdated game.
MusicFollowsGame ==
  stage # "enable" /\ test = "closed" /\ ~ghost.stale => enabled = game

\* A song that a test interrupts is the song it returns to
\* (OnGameRunningChanged: "coming back from one has to return to the track that
\* was playing").
TestReturnsToTrack ==
  test # "closed" /\ ghost.resume # None => index = ghost.resume

\* The next player does not get the song that the end of the last game cut off,
\* unless somebody chose it (OnGameRunningChanged).
NextGameNewSong ==
  ghost.heard # None /\ stage = "request" /\ track = "playing" => index # ghost.heard

\* A picker that nobody touches goes away, whatever the game and the tools do.
PickerLeaves == (<>[](lastPress = "none")) => []<>(~picker.active)

\* In a game that goes on without a test music plays again and again.
MusicPlays ==
  (<>[](game /\ test = "closed" /\ ~ghost.stale)) => []<>(track = "playing")

\* "The highlight and the sound have to be the same thing" (HandleSongPickerNav).
\* Refuted: a song that ends, or cannot be loaded, moves the sound alone.
HighlightIsSound == picker.active => picker.index = index

\* Two offers of the picker are apart by a rest of the machine, so that a game-on
\* reported again never brings it "over a ball in play" (ServiceSongPicker).
\* Refuted: a start within MinAttract of the last game is offered nothing, which
\* leaves the offer open for the game-on that is reported again during the game.
OfferedAfterRest == offer.requested /\ MayOffer => ghost.rest >= MinAttract

\* The same as MusicFollowsGame for every close.  Refuted: the game may change
\* between the two steps of a close, and the change is undone.
MusicAlwaysFollows == stage # "enable" /\ test = "closed" => enabled = game
=============================================================================
