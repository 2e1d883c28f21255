------------------------------- MODULE MCSound -------------------------------
(***************************************************************************)
(* The two halves of the sound, which share a device but no state: who is  *)
(* heard (AudioOutput) and which song plays (SongPicker).  `part` says     *)
(* which of them a behaviour is about; the variables of the other are 0.   *)
(***************************************************************************)
EXTENDS AudioOutput

CONSTANTS Tracks, Broken, Gap, Settle, Timeout, MinAttract, Flickers
VARIABLES part,
          index, track, enabled, gap, game, stage, test, seen, picker, lastPress, offer, reports, passed, ghost

S == INSTANCE SongPicker
\* What the instance assumes of its constants.
ASSUME SongsTyped == S!SongsAssumption

songVars == <<index, track, enabled, gap, game, stage, test, seen, picker, lastPress, offer, reports, passed, ghost>>

\* A ROM, an AltSound pack that overrides it and a source that overrides the
\* pack, each with a stream.  The list grows as plugins load and shrinks when
\* they go; its order is that of the plugins' answers.
MCSourceOf == [romStream |-> "rom", packStream |-> "pack", topStream |-> "top"]
rom == [id |-> "rom", overrideId |-> NoSource]
pack == [id |-> "pack", overrideId |-> "rom"]
top == [id |-> "top", overrideId |-> "pack"]
MCChain == {<<rom>>, <<rom, pack>>, <<rom, pack, top>>}

SoundInit ==
  \/ /\ part = "sources" /\ Init
     /\ index = 0 /\ track = 0 /\ enabled = 0 /\ gap = 0 /\ game = 0 /\ stage = 0 /\ test = 0 /\ seen = 0
     /\ picker = 0 /\ lastPress = 0 /\ offer = 0 /\ reports = 0 /\ passed = 0 /\ ghost = 0
  \/ /\ part = "songs" /\ S!Init
     /\ lanes = 0 /\ queue = 0 /\ speech = 0 /\ gain = 0 /\ heard = 0 /\ offered = 0 /\ published = 0 /\ quietFor = 0

SoundNext ==
  /\ UNCHANGED part
  /\ \/ part = "sources" /\ Next /\ UNCHANGED songVars
     \/ part = "songs" /\ S!Next /\ UNCHANGED vars

\* The fairness of each part is that of its own specification.
SoundSpec ==
  /\ SoundInit /\ [][SoundNext]_<<part, vars, songVars>>
  /\ WF_vars(part = "sources" /\ OnDeviceNeedsAudio)
  /\ WF_vars(part = "sources" /\ Tick)
  /\ WF_songVars(part = "songs" /\ (S!EnableMusic \/ S!AdvanceMusicTrack \/ S!RequestSongPicker))
  /\ WF_songVars(part = "songs" /\ S!MixMusic)
  /\ SF_songVars(part = "songs" /\ S!Tick)
  /\ WF_songVars(part = "songs" /\ S!CloseServiceTest)
  /\ SF_songVars(part = "songs" /\ S!ServiceSongPicker)

-----------------------------------------------------------------------------
\* An overridden source is heard only over silence (AudioOutput!OnlyOverSilence),
\* and no lane falls behind without bound (AudioOutput!LatencyBounded).
SourcesInOrder == part = "sources" => TypeOK /\ OnlyOverSilence /\ LatencyBounded

\* A source whose overriders have fallen silent for good is heard again
\* (AudioOutput!FallsBack).
RomComesBack ==
  ( /\ <>[](part = "sources" /\ ~published /\ NothingFrom(Over(Bottom)))
    /\ []<>(part = "sources" /\ Bottom \in offered)) => []<>(part = "sources" /\ Bottom \in heard)

\* Music is on in a game and off outside, comes back after a test with the song
\* it left, and begins the next game with another one (SongPicker).
MusicFollowsGame ==
  part = "songs" => S!TypeOK /\ S!MusicFollowsGame /\ S!TestReturnsToTrack /\ S!NextGameNewSong

\* In a game that goes on without a test, music plays again and again
\* (SongPicker!MusicPlays), whatever becomes of single tracks.
MusicPlays ==
  (<>[](part = "songs" /\ game /\ test = "closed" /\ ~ghost.stale))
    => []<>(part = "songs" /\ track = "playing")
=============================================================================
