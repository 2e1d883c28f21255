----------------------------- MODULE SoundProofs -----------------------------
(***************************************************************************)
(* Who is heard and which song plays, for every playlist, every number of  *)
(* streams and all lengths of buffers.                                     *)
(***************************************************************************)
EXTENDS MCSound, RecursionLemmas

-----------------------------------------------------------------------------
(* The songs. *)

\* There is another song than the one that was cut off.
TwoSongs == \E i, j \in 0 .. Tracks - 1 : i # j /\ i \notin Broken /\ j \notin Broken

Songs == 0 .. Tracks - 1
Pickers == [active : BOOLEAN, index : Songs, from : Songs, opened : 0 .. Settle, touched : 0 .. Timeout]
Ghosts == [heard : Songs \cup {-1}, resume : Songs \cup {-1}, stale : BOOLEAN, rest : Nat, off : Nat]

SongsType ==
  /\ index \in Songs /\ track \in {"stopped", "playing", "paused"} /\ enabled \in BOOLEAN
  /\ gap \in -1 .. Gap /\ game \in BOOLEAN
  /\ stage \in {"idle", "enable", "advance", "request"} /\ test \in {"closed", "open", "closing"}
  /\ seen \in BOOLEAN
  /\ picker \in Pickers /\ ghost \in Ghosts

\* A song that waits for its start is one that was stopped.
SongWaits == gap # -1 => track = "stopped"

\* A test holds the song it interrupted.
SongHeld ==
  test # "closed" /\ ghost.resume # -1 => index = ghost.resume /\ track = "paused" /\ stage = "idle"

\* The playlist goes from the song that the end of a game cut off to the next
\* one, and from there only to the first that can be played.
SongCutOff ==
  ghost.heard # -1 =>
    /\ gap = -1
    /\ stage = "advance" => ~game /\ ~enabled /\ track = "paused" /\ index = ghost.heard
    /\ stage = "idle" => ~game /\ ~enabled /\ track = "paused" /\ index = S!Following(ghost.heard)
    /\ stage \in {"enable", "request"} =>
         /\ game
         /\ \/ index = S!Loaded(S!Following(ghost.heard))
            \/ ~enabled /\ track = "paused" /\ index = S!Following(ghost.heard)

SongsInv == SongsType /\ SongWaits /\ SongHeld /\ SongCutOff /\ S!MusicFollowsGame

\* The remainders of numbers below twice the divisor.
LEMMA OnceRound ==
  ASSUME NEW n \in Nat \ {0}, NEW a \in Nat
  PROVE  /\ a < n => a % n = a
         /\ n <= a /\ a < n + n => a % n = a - n
         /\ a % n \in 0 .. n - 1
<1>1. a < n => a % n = a
  OBVIOUS
<1>2. n <= a /\ a < n + n => a % n = a - n
  OBVIOUS
<1>3. a % n \in 0 .. n - 1
  OBVIOUS
<1> QED
  BY <1>1, <1>2, <1>3

LEMMA OncePast ==
  ASSUME NEW n \in Nat \ {0}, NEW a \in Nat, NEW b \in Nat, a + b < n + n
  PROVE  (a + b) % n = IF a + b < n THEN a + b ELSE a + b - n
<1>1. PICK c \in Nat : c = a + b
  OBVIOUS
<1>2. c < n + n
  BY <1>1
<1>3. c % n = IF c < n THEN c ELSE c - n
  <2>1. CASE c < n
    BY <2>1, OnceRound
  <2>2. CASE n <= c
    BY <1>2, <2>2, OnceRound
  <2> QED
    BY <2>1, <2>2
<1> QED
  BY <1>1, <1>3

LEMMA FollowingSong == ASSUME NEW i \in Songs PROVE S!Following(i) \in Songs
  BY SongsTyped, OnceRound DEF S!SongsAssumption, S!Following, Songs

\* The first song from i on that can be played, or i itself.
LEMMA LoadedSong ==
  ASSUME NEW i \in Songs
  PROVE  /\ S!Loaded(i) \in Songs
         /\ S!Loaded(S!Loaded(i)) = S!Loaded(i)
<1>1. Tracks \in Nat \ {0}
  BY SongsTyped DEF S!SongsAssumption
<1> DEFINE Ahead(j) == {k \in 0 .. Tracks - 1 : (j + k) % Tracks \notin Broken}
           least == CHOOSE k \in Ahead(i) : \A m \in Ahead(i) : k <= m
<1>2. ASSUME NEW j \in Songs, j \notin Broken PROVE S!Loaded(j) = j
  <2>1. (j + 0) % Tracks = j
    BY <1>1, OnceRound DEF Songs
  <2>2. 0 \in Ahead(j) /\ \A m \in Ahead(j) : 0 <= m
    BY <1>1, <1>2, <2>1
  <2>3. (CHOOSE k \in Ahead(j) : \A m \in Ahead(j) : k <= m) = 0
    BY <2>2
  <2> QED
    BY <2>1, <2>2, <2>3 DEF S!Loaded
<1>3. CASE Ahead(i) = {}
  BY <1>3 DEF S!Loaded
<1>4. CASE Ahead(i) # {}
  <2>1. \E k \in Ahead(i) : \A m \in Ahead(i) : k <= m
    <3>1. Ahead(i) \in SUBSET Nat
      BY <1>1
    <3> HIDE DEF Ahead
    <3> QED
      BY <1>4, <3>1, LeastNumber
  <2>2. least \in Ahead(i) /\ S!Loaded(i) = (i + least) % Tracks
    BY <1>4, <2>1 DEF S!Loaded
  <2>3. S!Loaded(i) \in Songs /\ S!Loaded(i) \notin Broken
    <3>1. least \in Nat /\ (i + least) % Tracks \notin Broken
      <4>1. \A k \in Ahead(i) : k \in Nat /\ (i + k) % Tracks \notin Broken
        BY <1>1
      <4> HIDE DEF Ahead, least
      <4> QED
        BY <2>2, <4>1
    <3>2. i + least \in Nat
      BY <3>1 DEF Songs
    <3> HIDE DEF least
    <3>3. (i + least) % Tracks \in Songs
      BY <1>1, <3>2, OnceRound DEF Songs
    <3> QED
      BY <2>2, <3>1, <3>3
  <2> QED
    BY <1>2, <2>3
<1> QED
  BY <1>3, <1>4

\* After a song comes another one, if there is another one that can be played.
LEMMA AnotherSong ==
  ASSUME TwoSongs, NEW h \in Songs
  PROVE  S!Loaded(S!Following(h)) # h
<1>1. Tracks \in Nat \ {0}
  BY SongsTyped DEF S!SongsAssumption
<1>2. PICK j \in Songs : j \notin Broken /\ j # h
  BY DEF TwoSongs, Songs
<1> DEFINE f == S!Following(h)
           ahead == {k \in 0 .. Tracks - 1 : (f + k) % Tracks \notin Broken}
           least == CHOOSE k \in ahead : \A m \in ahead : k <= m
           d == IF f <= j THEN j - f ELSE j + Tracks - f
<1>3. f = (IF h + 1 < Tracks THEN h + 1 ELSE 0) /\ f \in Songs
  <2>1. h + 1 \in Nat /\ h + 1 < Tracks + Tracks /\ h + 1 <= Tracks
    BY <1>1 DEF Songs
  <2>2. f = IF h + 1 < Tracks THEN h + 1 ELSE h + 1 - Tracks
    <3>1. h \in Nat
      BY <1>1 DEF Songs
    <3> QED
      BY <1>1, <2>1, <3>1, OncePast DEF S!Following
  <2> HIDE DEF f
  <2> QED
    BY <1>1, <2>1, <2>2 DEF Songs
<1>4. d \in 0 .. Tracks - 2 /\ (f + d) % Tracks = j
  <2> HIDE DEF f
  <2>1. d \in 0 .. Tracks - 2
    BY <1>1, <1>2, <1>3 DEF Songs
  <2>2. f + d = (IF f <= j THEN j ELSE j + Tracks) /\ f + d \in Nat
    BY <1>1, <1>2, <1>3 DEF Songs
  <2> HIDE DEF d
  <2>3. f + d < Tracks + Tracks
    BY <1>1, <1>2, <2>2 DEF Songs
  <2>4. (f + d) % Tracks = IF f + d < Tracks THEN f + d ELSE f + d - Tracks
    <3>1. f \in Nat /\ d \in Nat
      BY <1>1, <1>3, <2>1 DEF Songs
    <3> QED
      BY <1>1, <2>2, <2>3, <3>1, OncePast
  <2> QED
    BY <1>1, <1>2, <2>1, <2>2, <2>4 DEF Songs
<1> HIDE DEF f, d
<1>5. d \in ahead
  BY <1>1, <1>2, <1>4
<1>6. \E k \in ahead : \A m \in ahead : k <= m
  <2>1. ahead \in SUBSET Nat
    BY <1>1
  <2> HIDE DEF ahead
  <2> QED
    BY <1>5, <2>1, LeastNumber
<1>7. least \in ahead /\ least <= d
  BY <1>5, <1>6
<1>8. S!Loaded(f) = (f + least) % Tracks
  BY <1>5 DEF S!Loaded
<1>9. (f + least) % Tracks # h
  <2>1. least \in 0 .. Tracks - 2
    <3>1. least \in 0 .. Tracks - 1 /\ least <= d
      BY <1>7
    <3> HIDE DEF least
    <3> QED
      BY <1>1, <1>4, <3>1
  <2> HIDE DEF least
  <2>2. f + least \in Nat /\ f + least < Tracks + Tracks
    BY <1>1, <1>3, <2>1 DEF Songs
  <2>3. (f + least) % Tracks = IF f + least < Tracks THEN f + least ELSE f + least - Tracks
    <3>1. f \in Nat /\ least \in Nat
      BY <1>1, <1>3, <2>1 DEF Songs
    <3> QED
      BY <1>1, <2>2, <3>1, OncePast
  <2> QED
    BY <1>1, <1>3, <2>1, <2>3 DEF Songs
<1> QED
  BY <1>8, <1>9 DEF f

-----------------------------------------------------------------------------
(* The steps of the songs. *)

LEMMA SongsStart == S!Init => SongsInv
<1> SUFFICES ASSUME S!Init PROVE SongsInv
  OBVIOUS
<1>1. Tracks \in Nat \ {0} /\ Gap \in Nat /\ Settle \in Nat /\ Timeout \in Nat /\ MinAttract \in Nat
  BY SongsTyped DEF S!SongsAssumption
<1>2. picker \in Pickers
  BY <1>1 DEF S!Init, S!Closed, Pickers, Songs
<1>3. ghost \in Ghosts /\ ghost.heard = -1 /\ ghost.resume = -1
  BY <1>1 DEF S!Init, S!None, Ghosts, Songs
<1>4. SongsType
  <2>1. enabled \in BOOLEAN /\ game \in BOOLEAN /\ seen \in BOOLEAN
    BY DEF S!Init
  <2>2. index \in Songs /\ gap \in -1 .. Gap
    BY <1>1 DEF S!Init, S!None, Songs
  <2> QED
    BY <1>2, <1>3, <2>1, <2>2 DEF S!Init, SongsType
<1> QED
  BY <1>3, <1>4 DEF SongsInv, SongWaits, SongHeld, SongCutOff, S!MusicFollowsGame, S!Init, S!None

\* Music that is switched off keeps its song and its place in it; switched on it
\* goes on, or begins with the first song that can be played.
LEMMA MusicIsSwitched ==
  ASSUME SongsType, SongWaits, NEW on \in BOOLEAN, S!SetMusicEnabled(on)
  PROVE  /\ enabled' = on /\ index' \in Songs /\ gap' \in -1 .. Gap
         /\ track' \in {"stopped", "playing", "paused"}
         /\ SongWaits'
         /\ index' \in {index, S!Loaded(index)}
         /\ gap = -1 => gap' = -1
         /\ ~on => index' = index /\ gap' = gap /\ track' = IF track = "playing" THEN "paused" ELSE track
         /\ on /\ ~enabled => index' = S!Loaded(index)
<1>1. Gap \in Nat
  BY SongsTyped DEF S!SongsAssumption
<1>2. CASE on /\ (~enabled \/ track = "stopped")
  <2>1. /\ enabled' = on /\ index' = S!Loaded(index) /\ gap' = -1 /\ track' \in {track, "playing"}
    BY <1>2 DEF S!SetMusicEnabled, S!StartCurrentMusicTrack, S!None
  <2> QED
    BY <1>1, <1>2, <2>1, LoadedSong DEF SongsType, SongWaits
<1>3. CASE ~(on /\ (~enabled \/ track = "stopped"))
  <2>1. /\ enabled' = on /\ index' = index /\ gap' = gap
        /\ track' = IF on THEN "playing" ELSE IF track = "playing" THEN "paused" ELSE track
    BY <1>3 DEF S!SetMusicEnabled
  <2> QED
    BY <1>3, <2>1 DEF SongsType, SongWaits
<1> QED
  BY <1>2, <1>3

LEMMA SongIsSelected ==
  ASSUME SongsType, SongWaits, NEW i \in Songs, S!SelectMusicTrack(i)
  PROVE  /\ enabled' = enabled /\ index' \in Songs /\ gap' \in -1 .. Gap
         /\ track' \in {"stopped", "playing", "paused"} /\ SongWaits'
<1>1. Gap \in Nat
  BY SongsTyped DEF S!SongsAssumption
<1>2. CASE i = index
  BY <1>2 DEF S!SelectMusicTrack, S!music, SongsType, SongWaits
<1>3. CASE i # index /\ enabled
  <2>1. enabled' = enabled /\ index' = S!Loaded(i) /\ gap' = -1 /\ track' \in {track, "playing"}
    BY <1>3 DEF S!SelectMusicTrack, S!StartCurrentMusicTrack, S!None
  <2> QED
    BY <1>1, <2>1, LoadedSong DEF SongsType, SongWaits
<1>4. CASE i # index /\ ~enabled
  BY <1>4 DEF S!SelectMusicTrack, SongsType, SongWaits
<1> QED
  BY <1>2, <1>3, <1>4

LEMMA EngineKeeps == ASSUME SongsInv, S!Engine PROVE SongsInv'
<1> USE DEF SongsInv
<1>1. CASE S!GameChanges \/ S!GameOnAgain
  <2>1. /\ stage = "idle" /\ stage' = "enable" /\ game' \in BOOLEAN
        /\ (game' = ~game) \/ (game /\ game' = game)
        /\ ghost' = [ghost EXCEPT !.resume = -1]
        /\ UNCHANGED <<index, track, enabled, gap, test, seen, picker>>
    <3>1. (game' = ~game) \/ (game /\ game' = game)
      BY <1>1 DEF S!GameChanges, S!GameOnAgain
    <3>2. game' \in BOOLEAN
      BY <3>1 DEF SongsType
    <3> QED
      BY <1>1, <3>1, <3>2 DEF S!GameChanges, S!GameOnAgain, S!Report, S!music, S!tools, S!player, S!None, SongsType
  <2>2. /\ ghost' \in Ghosts /\ ghost'.resume = -1 /\ ghost'.heard = ghost.heard /\ ghost'.stale = ghost.stale
    BY <2>1 DEF SongsType, Ghosts
  <2>3. SongsType'
    BY <2>1, <2>2 DEF SongsType
  <2>4. SongWaits' /\ SongHeld' /\ S!MusicFollowsGame'
    BY <2>1, <2>2 DEF SongWaits, SongHeld, S!MusicFollowsGame
  <2>5. SongCutOff'
    BY <2>1, <2>2 DEF SongCutOff, SongsType
  <2> QED
    BY <2>3, <2>4, <2>5
<1>2. CASE S!EnableMusic
  <2> DEFINE heard1 == IF game THEN ghost.heard ELSE IF track = "playing" THEN index ELSE -1
  <2>1. /\ stage = "enable" /\ S!SetMusicEnabled(game) /\ stage' = IF game THEN "request" ELSE "advance"
        /\ ghost' = [ghost EXCEPT !.stale = FALSE, !.heard = heard1]
        /\ UNCHANGED <<game, test, seen, picker>>
    BY <1>2 DEF S!EnableMusic, S!tools, S!player, S!None
  <2>2. heard1 \in Songs \cup {-1}
    BY DEF SongsType, Ghosts
  <2>3. /\ ghost' \in Ghosts /\ ghost'.resume = ghost.resume /\ ghost'.heard = heard1 /\ ghost'.stale = FALSE
    <3> HIDE DEF heard1
    <3> QED
      BY <2>1, <2>2 DEF SongsType, Ghosts
  <2>4. /\ enabled' = game /\ index' \in Songs /\ gap' \in -1 .. Gap
        /\ track' \in {"stopped", "playing", "paused"} /\ SongWaits'
        /\ index' \in {index, S!Loaded(index)} /\ (gap = -1 => gap' = -1)
        /\ ~game => index' = index /\ gap' = gap /\ track' = IF track = "playing" THEN "paused" ELSE track
        /\ game /\ ~enabled => index' = S!Loaded(index)
    BY <2>1, MusicIsSwitched DEF SongsType
  <2>5. SongsType'
    BY <2>1, <2>3, <2>4 DEF SongsType
  <2>6. SongHeld' /\ S!MusicFollowsGame'
    BY <2>1, <2>3, <2>4 DEF SongHeld, S!MusicFollowsGame
  <2>7. SongCutOff'
    <3>1. CASE game
      <4>1. CASE ghost.heard = -1
        BY <2>3, <3>1, <4>1 DEF SongCutOff
      <4>2. CASE ghost.heard # -1
        <5>1. S!Following(ghost.heard) \in Songs
          BY <4>2, FollowingSong DEF SongsType, Ghosts
        <5>2. index' = S!Loaded(S!Following(ghost.heard)) /\ gap' = -1
          <6>1. CASE index = S!Loaded(S!Following(ghost.heard))
            BY <2>1, <2>4, <4>2, <5>1, <6>1, LoadedSong DEF SongCutOff
          <6>2. CASE ~enabled /\ track = "paused" /\ index = S!Following(ghost.heard)
            BY <2>1, <2>4, <3>1, <4>2, <6>2 DEF SongCutOff
          <6> QED
            BY <2>1, <4>2, <6>1, <6>2 DEF SongCutOff
        <5> QED
          BY <2>1, <2>3, <3>1, <5>2 DEF SongCutOff
      <4> QED
        BY <4>1, <4>2
    <3>2. CASE ~game
      BY <2>1, <2>3, <2>4, <3>2 DEF SongCutOff, SongWaits
    <3> QED
      BY <3>1, <3>2 DEF SongsType
  <2> QED
    BY <2>4, <2>5, <2>6, <2>7
<1>3. CASE S!AdvanceMusicTrack
  <2>1. /\ stage = "advance" /\ stage' = "idle" /\ index' = S!Following(index)
        /\ UNCHANGED <<track, enabled, gap, game, test, seen, picker, ghost>>
    BY <1>3 DEF S!AdvanceMusicTrack, S!tools, S!player
  <2>2. index' \in Songs
    BY <2>1, FollowingSong DEF SongsType
  <2>3. SongsType'
    BY <2>1, <2>2 DEF SongsType
  <2>4. SongWaits' /\ SongHeld' /\ S!MusicFollowsGame' /\ SongCutOff'
    BY <2>1 DEF SongWaits, SongHeld, S!MusicFollowsGame, SongCutOff
  <2> QED
    BY <2>3, <2>4
<1>4. CASE S!RequestSongPicker
  <2>1. /\ stage = "request" /\ stage' = "idle" /\ ghost' = [ghost EXCEPT !.heard = -1]
        /\ UNCHANGED <<index, track, enabled, gap, game, test, seen, picker>>
    BY <1>4 DEF S!RequestSongPicker, S!music, S!tools, S!None
  <2>2. /\ ghost' \in Ghosts /\ ghost'.heard = -1 /\ ghost'.resume = ghost.resume /\ ghost'.stale = ghost.stale
    BY <2>1 DEF SongsType, Ghosts
  <2>3. SongsType'
    BY <2>1, <2>2 DEF SongsType
  <2>4. SongWaits' /\ SongHeld' /\ S!MusicFollowsGame' /\ SongCutOff'
    BY <2>1, <2>2 DEF SongWaits, SongHeld, S!MusicFollowsGame, SongCutOff
  <2> QED
    BY <2>3, <2>4
<1> QED
  BY <1>1, <1>2, <1>3, <1>4 DEF S!Engine

LEMMA TestsKeep == ASSUME SongsInv, S!OpenServiceTest \/ S!ReadGame \/ S!CloseServiceTest PROVE SongsInv'
<1> USE DEF SongsInv
<1>1. CASE S!OpenServiceTest
  <2> DEFINE resume1 == IF game /\ stage = "idle" /\ track = "playing" THEN index ELSE -1
  <2>1. /\ test = "closed" /\ test' = "open" /\ S!SetMusicEnabled(FALSE)
        /\ ghost' = [ghost EXCEPT !.resume = resume1]
        /\ UNCHANGED <<game, stage, seen, picker>>
    BY <1>1 DEF S!OpenServiceTest, S!engine, S!player, S!None
  <2>2. resume1 \in Songs \cup {-1}
    BY DEF SongsType
  <2>3. /\ ghost' \in Ghosts /\ ghost'.resume = resume1 /\ ghost'.heard = ghost.heard /\ ghost'.stale = ghost.stale
    <3> HIDE DEF resume1
    <3> QED
      BY <2>1, <2>2 DEF SongsType, Ghosts
  <2>4. /\ enabled' = FALSE /\ gap' = gap /\ index' = index
        /\ track' = IF track = "playing" THEN "paused" ELSE track
        /\ SongWaits'
    BY <2>1, MusicIsSwitched
  <2>5. SongsType'
    BY <2>1, <2>3, <2>4 DEF SongsType
  <2>6. SongHeld' /\ S!MusicFollowsGame' /\ SongCutOff'
    BY <2>1, <2>3, <2>4 DEF SongHeld, S!MusicFollowsGame, SongCutOff
  <2> QED
    BY <2>4, <2>5, <2>6
<1>2. CASE S!ReadGame
  <2>1. /\ test = "open" /\ test' = "closing" /\ seen' = game
        /\ UNCHANGED <<index, track, enabled, gap, game, stage, picker, ghost>>
    BY <1>2 DEF S!ReadGame, S!music, S!engine, S!player
  <2> QED
    BY <2>1 DEF SongsType, SongWaits, SongHeld, SongCutOff, S!MusicFollowsGame
<1>3. CASE S!CloseServiceTest
  <2> DEFINE stale1 == seen # game /\ stage # "enable"
             heard1 == IF seen = game THEN ghost.heard ELSE -1
  <2>1. /\ test = "closing" /\ test' = "closed" /\ S!SetMusicEnabled(seen)
        /\ ghost' = [ghost EXCEPT !.stale = stale1, !.heard = heard1]
        /\ UNCHANGED <<game, stage, seen, picker>>
    BY <1>3 DEF S!CloseServiceTest, S!engine, S!player, S!None
  <2>2. heard1 \in Songs \cup {-1} /\ stale1 \in BOOLEAN
    BY DEF SongsType, Ghosts
  <2>3. /\ ghost' \in Ghosts /\ ghost'.heard = heard1 /\ ghost'.stale = stale1
    <3> HIDE DEF stale1, heard1
    <3> QED
      BY <2>1, <2>2 DEF SongsType, Ghosts
  <2>4. /\ enabled' = seen /\ index' \in Songs /\ gap' \in -1 .. Gap
        /\ track' \in {"stopped", "playing", "paused"} /\ SongWaits'
        /\ index' \in {index, S!Loaded(index)} /\ (gap = -1 => gap' = -1)
        /\ ~seen => index' = index /\ gap' = gap /\ track' = IF track = "playing" THEN "paused" ELSE track
        /\ seen /\ ~enabled => index' = S!Loaded(index)
    BY <2>1, MusicIsSwitched DEF SongsType
  <2>5. SongsType'
    BY <2>1, <2>3, <2>4 DEF SongsType
  <2>6. SongHeld'
    BY <2>1 DEF SongHeld
  <2>7. S!MusicFollowsGame'
    BY <2>1, <2>3, <2>4 DEF S!MusicFollowsGame
  <2>8. SongCutOff'
    <3>1. CASE heard1 = -1
      BY <2>3, <3>1 DEF SongCutOff
    <3>2. CASE heard1 # -1 /\ ~game
      <4>1. seen = game /\ heard1 = ghost.heard
        BY <3>2
      <4> QED
        BY <2>1, <2>3, <2>4, <3>2, <4>1 DEF SongCutOff
    <3>3. CASE heard1 # -1 /\ game
      <4>1. seen = game /\ heard1 = ghost.heard /\ stage \in {"enable", "request"}
        BY <3>3 DEF SongCutOff, SongsType
      <4>2. S!Following(ghost.heard) \in Songs
        BY <3>3, <4>1, FollowingSong DEF SongsType, Ghosts
      <4>3. index' = S!Loaded(S!Following(ghost.heard)) /\ gap' = -1
        <5>1. CASE index = S!Loaded(S!Following(ghost.heard))
          BY <2>4, <3>3, <4>1, <4>2, <5>1, LoadedSong DEF SongCutOff
        <5>2. CASE ~enabled /\ track = "paused" /\ index = S!Following(ghost.heard)
          BY <2>4, <3>3, <4>1, <5>2 DEF SongCutOff
        <5> QED
          BY <3>3, <4>1, <5>1, <5>2 DEF SongCutOff
      <4> QED
        BY <2>1, <2>3, <3>3, <4>1, <4>3 DEF SongCutOff
    <3> QED
      BY <3>1, <3>2, <3>3
  <2> QED
    BY <2>4, <2>5, <2>6, <2>7, <2>8
<1> QED
  BY <1>1, <1>2, <1>3

LEMMA PlayerKeeps ==
  ASSUME SongsInv,
         \/ \E button \in {"next", "previous"} : S!HandleSongPickerNav(button)
         \/ S!NoteSongPickerSwitch \/ S!ServiceSongPicker
  PROVE  SongsInv'
<1> USE DEF SongsInv
<1>1. Tracks \in Nat \ {0} /\ Gap \in Nat /\ Settle \in Nat /\ Timeout \in Nat /\ MinAttract \in Nat
  BY SongsTyped DEF S!SongsAssumption
<1>2. S!Closed \in Pickers
  BY <1>1 DEF S!Closed, Pickers, Songs
<1>3. ASSUME NEW button \in {"next", "previous"}, S!HandleSongPickerNav(button) PROVE SongsInv'
  <2>1. test = "closed" /\ UNCHANGED <<game, stage, test, seen>>
    BY <1>3 DEF S!HandleSongPickerNav, S!engine, S!tools
  <2> DEFINE to == (picker.index + (IF button = "next" THEN 1 ELSE Tracks - 1)) % Tracks
  <2>2. to \in Songs
    <3>1. picker.index + (IF button = "next" THEN 1 ELSE Tracks - 1) \in Nat
      BY <1>1 DEF SongsType, Pickers, Songs
    <3> QED
      BY <1>1, <3>1, OnceRound DEF Songs
  <2>3. \/ UNCHANGED <<index, track, enabled, gap, picker, ghost>>
        \/ picker' = S!Closed /\ UNCHANGED <<index, track, enabled, gap, ghost>>
        \/ S!SelectMusicTrack(picker.from) /\ picker' = S!Closed /\ ghost' = [ghost EXCEPT !.heard = -1]
        \/ /\ S!SelectMusicTrack(to) /\ ghost' = [ghost EXCEPT !.heard = -1]
           /\ picker' = [picker EXCEPT !.from = picker.index, !.index = to, !.touched = 0]
    BY <1>3 DEF S!HandleSongPickerNav, S!music, S!None
  <2> HIDE DEF to
  <2>4. CASE UNCHANGED <<index, track, enabled, gap, picker, ghost>>
    BY <2>1, <2>4 DEF SongsType, SongWaits, SongHeld, SongCutOff, S!MusicFollowsGame
  <2>5. CASE picker' = S!Closed /\ UNCHANGED <<index, track, enabled, gap, ghost>>
    BY <1>2, <2>1, <2>5 DEF SongsType, SongWaits, SongHeld, SongCutOff, S!MusicFollowsGame
  <2>6. ASSUME NEW i \in Songs, S!SelectMusicTrack(i), picker' \in Pickers, ghost' = [ghost EXCEPT !.heard = -1]
        PROVE  SongsInv'
    <3>1. /\ ghost' \in Ghosts /\ ghost'.heard = -1 /\ ghost'.stale = ghost.stale
      BY <2>6 DEF SongsType, Ghosts
    <3>2. /\ enabled' = enabled /\ index' \in Songs /\ gap' \in -1 .. Gap
          /\ track' \in {"stopped", "playing", "paused"} /\ SongWaits'
      BY <2>6, SongIsSelected
    <3>3. SongsType'
      BY <2>1, <2>6, <3>1, <3>2 DEF SongsType
    <3>4. SongHeld' /\ SongCutOff' /\ S!MusicFollowsGame'
      BY <2>1, <3>1, <3>2 DEF SongHeld, SongCutOff, S!MusicFollowsGame
    <3> QED
      BY <3>2, <3>3, <3>4
  <2>7. picker.from \in Songs /\ [picker EXCEPT !.from = picker.index, !.index = to, !.touched = 0] \in Pickers
    <3>1. picker \in Pickers /\ picker.from \in Songs /\ picker.index \in Songs /\ 0 \in 0 .. Timeout
      BY <1>1 DEF SongsType, Pickers
    <3> QED
      BY <2>2, <3>1 DEF Pickers
  <2> QED
    BY <1>2, <2>2, <2>3, <2>4, <2>6, <2>7, <2>5
<1>4. CASE S!NoteSongPickerSwitch
  <2>1. picker' = S!Closed /\ UNCHANGED <<index, track, enabled, gap, game, stage, test, seen, ghost>>
    BY <1>4 DEF S!NoteSongPickerSwitch, S!music, S!engine, S!tools
  <2> QED
    BY <1>2, <2>1 DEF SongsType, SongWaits, SongHeld, SongCutOff, S!MusicFollowsGame
<1>5. CASE S!ServiceSongPicker
  <2>1. /\ picker' \in {picker, S!OpenSongPicker, S!Closed}
        /\ ghost' = [ghost EXCEPT !.rest = 0] \/ ghost' = ghost
        /\ UNCHANGED <<index, track, enabled, gap, game, stage, test, seen>>
    BY <1>5 DEF S!ServiceSongPicker, S!music, S!engine, S!tools
  <2>2. S!OpenSongPicker \in Pickers
    BY <1>1 DEF S!OpenSongPicker, SongsType, Pickers
  <2>3. /\ ghost' \in Ghosts /\ ghost'.heard = ghost.heard /\ ghost'.resume = ghost.resume
        /\ ghost'.stale = ghost.stale
    BY <2>1 DEF SongsType, Ghosts
  <2>4. SongsType'
    BY <1>2, <2>1, <2>2, <2>3 DEF SongsType
  <2> QED
    BY <2>1, <2>3, <2>4 DEF SongWaits, SongHeld, SongCutOff, S!MusicFollowsGame
<1> QED
  BY <1>3, <1>4, <1>5

\* The device ends a song and begins the one that waits; time passes.
LEMMA DeviceKeeps == ASSUME SongsInv, S!TrackEnds \/ S!MixMusic \/ S!Tick PROVE SongsInv'
<1> USE DEF SongsInv
<1>1. Tracks \in Nat \ {0} /\ Gap \in Nat /\ Settle \in Nat /\ Timeout \in Nat /\ MinAttract \in Nat
  BY SongsTyped DEF S!SongsAssumption
<1>2. CASE S!TrackEnds
  <2>1. /\ track = "playing" /\ (game => stage = "idle") /\ track' = "stopped" /\ index' = S!Following(index)
        /\ gap' = IF enabled THEN Gap ELSE gap
        /\ UNCHANGED <<enabled, game, stage, test, seen, picker, ghost>>
    BY <1>2 DEF S!TrackEnds, S!engine, S!tools, S!player
  <2>2. index' \in Songs /\ gap' \in -1 .. Gap
    BY <1>1, <2>1, FollowingSong DEF SongsType
  <2>3. SongsType'
    BY <2>1, <2>2 DEF SongsType
  <2> QED
    BY <2>1, <2>3 DEF SongsType, SongWaits, SongHeld, SongCutOff, S!MusicFollowsGame
<1>3. CASE S!MixMusic
  <2>1. /\ gap = 0 /\ index' = S!Loaded(index) /\ track' \in {track, "playing"} /\ gap' = -1
        /\ UNCHANGED <<enabled, game, stage, test, seen, picker, ghost>>
    BY <1>3 DEF S!MixMusic, S!StartCurrentMusicTrack, S!engine, S!tools, S!player, S!None
  <2>2. index' \in Songs /\ gap' \in -1 .. Gap /\ track = "stopped"
    BY <1>1, <2>1, LoadedSong DEF SongsType, SongWaits
  <2>3. SongsType'
    BY <2>1, <2>2 DEF SongsType
  <2> QED
    BY <2>1, <2>2, <2>3 DEF SongWaits, SongHeld, SongCutOff, S!MusicFollowsGame
<1>4. CASE S!Tick
  <2>1. /\ gap # 0 /\ gap' = IF gap # -1 THEN gap - 1 ELSE gap
        /\ UNCHANGED <<index, track, enabled, game, stage, test, seen>>
    BY <1>4 DEF S!Tick, S!Pending, S!None, S!tools
  <2>2. picker' \in Pickers
    <3>1. picker \in Pickers /\ picker.opened \in 0 .. Settle /\ picker.touched \in 0 .. Timeout
      BY DEF SongsType, Pickers
    <3>2. S!Less(picker.opened + 1, Settle) \in 0 .. Settle /\ S!Less(picker.touched + 1, Timeout) \in 0 .. Timeout
      BY <1>1, <3>1 DEF S!Less
    <3>3. picker' = IF picker.active
                    THEN [picker EXCEPT !.opened = S!Less(@ + 1, Settle), !.touched = S!Less(@ + 1, Timeout)]
                    ELSE picker
      BY <1>4 DEF S!Tick
    <3> QED
      BY <3>1, <3>2, <3>3 DEF Pickers
  <2>3. /\ ghost' \in Ghosts /\ ghost'.heard = ghost.heard /\ ghost'.resume = ghost.resume
        /\ ghost'.stale = ghost.stale
    <3> DEFINE off == IF game THEN 0 ELSE S!Less(ghost.off + 1, MinAttract)
               rest == IF off > ghost.rest THEN off ELSE ghost.rest
    <3>1. ghost' = [ghost EXCEPT !.off = off, !.rest = rest]
      BY <1>4 DEF S!Tick
    <3>2. off \in Nat /\ rest \in Nat
      BY <1>1 DEF SongsType, Ghosts, S!Less
    <3> HIDE DEF off, rest
    <3> QED
      BY <3>1, <3>2 DEF SongsType, Ghosts
  <2>4. gap' \in -1 .. Gap /\ (gap = -1 => gap' = -1) /\ (gap' # -1 => gap # -1)
    BY <1>1, <2>1 DEF SongsType
  <2>5. SongsType'
    BY <2>1, <2>2, <2>3, <2>4 DEF SongsType
  <2> QED
    BY <2>1, <2>3, <2>4, <2>5 DEF SongWaits, SongHeld, SongCutOff, S!MusicFollowsGame
<1> QED
  BY <1>2, <1>3, <1>4

LEMMA SongsStep == SongsInv /\ (S!Next \/ UNCHANGED songVars) => SongsInv'
<1> SUFFICES ASSUME SongsInv, S!Next \/ UNCHANGED songVars PROVE SongsInv'
  OBVIOUS
<1>1. CASE S!Engine
  BY <1>1, EngineKeeps
<1>2. CASE S!Main
  BY <1>2, TestsKeep, PlayerKeeps DEF S!Main
<1>3. CASE S!TrackEnds \/ S!MixMusic \/ S!Tick
  BY <1>3, DeviceKeeps
<1>4. CASE UNCHANGED songVars
  BY <1>4 DEF songVars, SongsInv, SongsType, SongWaits, SongHeld, SongCutOff, S!MusicFollowsGame
<1> QED
  BY <1>1, <1>2, <1>3, <1>4 DEF S!Next

LEMMA SongsMean ==
  ASSUME TwoSongs, SongsInv
  PROVE  S!TypeOK /\ S!MusicFollowsGame /\ S!TestReturnsToTrack /\ S!NextGameNewSong
<1> USE DEF SongsInv
<1>1. S!TypeOK
  BY DEF SongsType, Pickers, Songs, S!TypeOK, S!None
<1>2. S!TestReturnsToTrack
  BY DEF SongHeld, S!TestReturnsToTrack, S!None
<1>3. S!NextGameNewSong
  <2> SUFFICES ASSUME ghost.heard # -1, stage = "request", track = "playing" PROVE index # ghost.heard
    BY DEF S!NextGameNewSong, S!None
  <2>1. ghost.heard \in Songs /\ index = S!Loaded(S!Following(ghost.heard))
    BY DEF SongCutOff, SongsType, Ghosts
  <2> QED
    BY <2>1, AnotherSong
<1> QED
  BY <1>1, <1>2, <1>3

\* Music is on exactly when a game runs, once a change has been carried out and no
\* test is open, a song that a test interrupts is the one it returns to, and the
\* next game begins with another song than the one that the end of the last game
\* cut off, if there is another one that can be played (OnGameRunningChanged,
\* CloseServiceTest and StartCurrentMusicTrackLocked).
THEOREM MusicStaysWithGame == ASSUME TwoSongs PROVE SoundSpec => []MusicFollowsGame
<1> DEFINE Inv == part = "songs" => SongsInv
<1>1. SoundInit => Inv
  BY SongsStart DEF SoundInit
<1>2. Inv /\ [SoundNext]_<<part, vars, songVars>> => Inv'
  BY SongsStep DEF SoundNext
<1>3. Inv => MusicFollowsGame
  BY SongsMean DEF MusicFollowsGame
<1> QED
  BY <1>1, <1>2, <1>3, PTL DEF SoundSpec

-----------------------------------------------------------------------------
(* Who is heard. *)

\* Every source is there once, is overridden by at most one, and no chain of
\* overriders comes back to where it began.
Chain(sources) ==
  /\ \A i, j \in DOMAIN sources :
       /\ sources[i].id = sources[j].id => i = j
       /\ sources[i].overrideId = sources[j].overrideId /\ sources[i].overrideId # NoSource => i = j
  /\ \E rank \in [DOMAIN sources -> 0 .. Len(sources)] :
       \A i, j \in DOMAIN sources : sources[i].overrideId = sources[j].id => rank[i] < rank[j]
ChainsOnly == \A sources \in Topologies : Chain(sources)

Lanes == [id : Sources, overrideId : Sources \cup {NoSource}, overridden : BOOLEAN, depth : Nat, quiet : 0 .. Hold]
Pieces == [n : Nat, loud : BOOLEAN]

LanesType ==
  /\ lanes \in Seq(Lanes)
  /\ \A i \in DOMAIN lanes : lanes[i].depth \in 0 .. Len(lanes) + 1
  /\ gain \in BOOLEAN /\ published \in BOOLEAN
  /\ heard \subseteq offered /\ offered \subseteq Sources
  /\ quietFor \in [Sources -> 0 .. Hold]

\* The lanes are chains, and an overrider is decided before what it overrides.
LanesChain ==
  \A i, j \in DOMAIN lanes :
    /\ lanes[i].id = lanes[j].id => i = j
    /\ lanes[i].overrideId = lanes[j].overrideId /\ lanes[i].overrideId # NoSource => i = j
    /\ lanes[i].overrideId = lanes[j].id => i < j /\ lanes[j].overridden

\* No lane claims a longer silence than there was.
LanesQuiet == \A i \in DOMAIN lanes : lanes[i].quiet <= quietFor[lanes[i].id]

QueuesType == queue \in [Streams -> Seq(Pieces)] /\ speech \in Seq(Pieces)

SourcesInv == LanesType /\ LanesChain /\ LanesQuiet /\ OnlyOverSilence /\ QueuesType /\ LatencyBounded

-----------------------------------------------------------------------------
(* The chains. *)

LEMMA SourcesTyped ==
  ASSUME NEW sources \in Topologies
  PROVE  /\ Len(sources) \in Nat /\ DOMAIN sources = 1 .. Len(sources)
         /\ \A i \in DOMAIN sources : sources[i].id \in Sources /\ sources[i].overrideId \in Sources \cup {NoSource}
         /\ NoSource \notin Sources
<1> DEFINE R == [id : Sources, overrideId : Sources \cup {NoSource}]
<1>1. sources \in Seq(R) /\ NoSource \notin Sources
  BY LimitsAssumption
<1>2. Len(sources) \in Nat /\ DOMAIN sources = 1 .. Len(sources) /\ \A i \in DOMAIN sources : sources[i] \in R
  <2> HIDE DEF R
  <2> QED
    BY <1>1
<1> QED
  BY <1>1, <1>2

\* The first place of a lane that has an id, or none.
LEMMA FindsFirst ==
  ASSUME NEW table, Len(table) \in Nat, DOMAIN table = 1 .. Len(table), NEW x
  PROVE  /\ Find(table, x) \in 0 .. Len(table)
         /\ Find(table, x) # 0 => table[Find(table, x)].id = x
         /\ Find(table, x) = 0 => \A i \in DOMAIN table : table[i].id # x
<1> DEFINE I == {i \in 1 .. Len(table) : table[i].id = x}
<1>1. Find(table, x) = IF I # {} THEN CHOOSE i \in I : \A j \in I : i <= j ELSE 0
  BY DEF Find, SelectInSeq, Min
<1>2. I \in SUBSET Nat
  OBVIOUS
<1>3. I # {} => \E i \in I : \A j \in I : i <= j
  <2> HIDE DEF I
  <2> QED
    BY <1>2, LeastNumber
<1>4. I # {} => Find(table, x) \in I
  BY <1>1, <1>3
<1>5. I = {} => Find(table, x) = 0
  BY <1>1
<1> QED
  BY <1>4, <1>5

LEMMA OverriderThere ==
  ASSUME NEW sources \in Topologies, NEW x
  PROVE  /\ OverriderOf(sources, x) \in Sources \cup {NoSource}
         /\ OverriderOf(sources, x) # NoSource =>
              /\ x # NoSource
              /\ \E i \in DOMAIN sources : sources[i].overrideId = x /\ sources[i].id = OverriderOf(sources, x)
<1> DEFINE by == {i \in DOMAIN sources : sources[i].overrideId = x /\ sources[i].id # x}
           last == CHOOSE i \in by : \A j \in by : j <= i
<1>1. OverriderOf(sources, x) = IF by = {} \/ x = NoSource THEN NoSource ELSE sources[last].id
  BY DEF OverriderOf
<1>2. by # {} => last \in by
  <2>1. by \in SUBSET (1 .. Len(sources)) /\ Len(sources) \in Nat
    BY SourcesTyped
  <2>2. by # {} => \E i \in by : \A j \in by : j <= i
    <3> HIDE DEF by
    <3> QED
      BY <2>1, LastPlace
  <2> HIDE DEF by
  <2> QED
    BY <2>2
<1>3. by # {} => last \in DOMAIN sources /\ sources[last].overrideId = x
  <2> HIDE DEF last
  <2> QED
    BY <1>2
<1> HIDE DEF by, last
<1> QED
  BY <1>1, <1>3, SourcesTyped

\* The walk up from a source, and where it ends.
Walks(sources, x) ==
  {up \in [0 .. Len(sources) + 1 -> Sources \cup {NoSource}] :
     up[0] = x /\ \A d \in 1 .. Len(sources) + 1 : up[d] = OverriderOf(sources, up[d - 1])}

LEMMA DepthOfChain ==
  ASSUME NEW sources \in Topologies, NEW x \in Sources
  PROVE  \E up \in Walks(sources, x) :
           /\ ChainDepth(sources, x) \in 0 .. Len(sources) + 1
           /\ \A d \in 0 .. Len(sources) : d < ChainDepth(sources, x) => up[d + 1] # NoSource
           /\ ChainDepth(sources, x) <= Len(sources) => up[ChainDepth(sources, x) + 1] = NoSource
<1> DEFINE n == Len(sources)
           T == Sources \cup {NoSource}
           Eq(f) == f = [d \in 0 .. n + 1 |-> IF d = 0 THEN x ELSE OverriderOf(sources, f[d - 1])]
           up == CHOOSE f : Eq(f)
           g == [y \in Nat \X T |-> OverriderOf(sources, y[2])]
           ends == {d \in 0 .. n : up[d + 1] = NoSource}
<1>1. n \in Nat /\ n + 1 \in Nat
  BY SourcesTyped
<1>2. x \in T /\ \A y \in T : OverriderOf(sources, y) \in T
  BY OverriderThere
<1> HIDE DEF n, T
<1>3. g \in StepsOn(T)
  BY <1>2 DEF StepsOn
<1>4. \E f \in [0 .. n + 1 -> T] : Eq(f)
  <2> HIDE DEF g
  <2>1. PICK f \in RecursionUpTo(T, x, g, n + 1) : TRUE
    BY <1>1, <1>2, <1>3, RecursionUpToExists
  <2>2. f \in [0 .. n + 1 -> T] /\ \A d \in 0 .. n + 1 : f[d] = IF d = 0 THEN x ELSE g[<<d - 1, f[d - 1]>>]
    BY <2>1 DEF RecursionUpTo
  <2>3. ASSUME NEW d \in 0 .. n + 1, d # 0 PROVE g[<<d - 1, f[d - 1]>>] = OverriderOf(sources, f[d - 1])
    <3>1. d - 1 \in Nat /\ f[d - 1] \in T
      BY <1>1, <2>2, <2>3
    <3> QED
      BY <3>1 DEF g
  <2>4. Eq(f)
    BY <2>2, <2>3
  <2> QED
    BY <2>2, <2>4
<1>5. Eq(up)
  BY <1>4
<1> HIDE DEF up
<1>6. \A d \in 0 .. n + 1 : up[d] = IF d = 0 THEN x ELSE OverriderOf(sources, up[d - 1])
  BY <1>5
<1>7. up \in Walks(sources, x)
  <2>1. \A d \in 0 .. n + 1 : up[d] \in T
    BY <1>2, <1>6, OverriderThere DEF T
  <2>2. up \in [0 .. n + 1 -> T]
    BY <1>5, <2>1
  <2>3. up[0] = x /\ \A d \in 1 .. n + 1 : up[d] = OverriderOf(sources, up[d - 1])
    BY <1>1, <1>6
  <2> QED
    BY <2>2, <2>3 DEF Walks, n, T
<1>8. ChainDepth(sources, x) = IF ends = {} THEN n + 1 ELSE CHOOSE d \in ends : \A e \in ends : d <= e
  BY DEF ChainDepth, up, n
<1>9. ends \in SUBSET Nat /\ (ends # {} => \E d \in ends : \A e \in ends : d <= e)
  <2>1. ends \in SUBSET Nat
    BY <1>1
  <2> HIDE DEF ends
  <2> QED
    BY <2>1, LeastNumber
<1>10. CASE ends = {}
  <2>1. ChainDepth(sources, x) = n + 1 /\ \A d \in 0 .. n : up[d + 1] # NoSource
    BY <1>8, <1>10
  <2> QED
    BY <1>1, <1>7, <2>1 DEF n
<1>11. CASE ends # {}
  <2>1. ChainDepth(sources, x) \in ends /\ \A e \in ends : ChainDepth(sources, x) <= e
    <3> HIDE DEF ends
    <3> QED
      BY <1>8, <1>9, <1>11
  <2>2. ChainDepth(sources, x) \in 0 .. n /\ up[ChainDepth(sources, x) + 1] = NoSource
    BY <2>1
  <2>3. ASSUME NEW d \in 0 .. n, d < ChainDepth(sources, x) PROVE up[d + 1] # NoSource
    <3>1. d \notin ends
      BY <1>1, <2>1, <2>2, <2>3
    <3> QED
      BY <3>1
  <2> QED
    BY <1>1, <1>7, <2>2, <2>3 DEF n
<1> QED
  BY <1>10, <1>11

\* An overrider is nearer to the top than what it overrides.
LEMMA DepthGrows ==
  ASSUME NEW sources \in Topologies, Chain(sources), NEW p \in DOMAIN sources, NEW q \in DOMAIN sources,
         sources[p].overrideId = sources[q].id
  PROVE  /\ ChainDepth(sources, sources[p].id) < ChainDepth(sources, sources[q].id)
         /\ OverriderOf(sources, sources[q].id) # NoSource
<1> DEFINE n == Len(sources)
           x == sources[q].id
           y == sources[p].id
<1>1. /\ n \in Nat /\ DOMAIN sources = 1 .. n /\ x \in Sources /\ y \in Sources
      /\ x # NoSource /\ y # NoSource
  BY SourcesTyped
<1>2. PICK rank \in [DOMAIN sources -> 0 .. n] :
        \A i, j \in DOMAIN sources : sources[i].overrideId = sources[j].id => rank[i] < rank[j]
  BY DEF Chain
<1>3. x # y
  <2>1. rank[p] < rank[q] /\ rank[p] \in Int
    BY <1>1, <1>2
  <2>2. p # q
    BY <2>1
  <2> QED
    BY <2>2 DEF Chain
<1>4. OverriderOf(sources, x) = y
  <2> DEFINE by == {i \in DOMAIN sources : sources[i].overrideId = x /\ sources[i].id # x}
  <2>1. by = {p}
    BY <1>1, <1>3 DEF Chain
  <2>2. (CHOOSE i \in by : \A j \in by : j <= i) = p
    BY <1>1, <2>1
  <2> QED
    BY <1>1, <2>1, <2>2 DEF OverriderOf
<1>5. PICK upX \in Walks(sources, x) :
        /\ ChainDepth(sources, x) \in 0 .. n + 1
        /\ ChainDepth(sources, x) <= n => upX[ChainDepth(sources, x) + 1] = NoSource
  BY <1>1, DepthOfChain
<1>6. PICK upY \in Walks(sources, y) :
        /\ ChainDepth(sources, y) \in 0 .. n + 1
        /\ \A d \in 0 .. n : d < ChainDepth(sources, y) => upY[d + 1] # NoSource
  BY <1>1, DepthOfChain
<1>7. /\ upX[0] = x /\ \A d \in 1 .. n + 1 : upX[d] = OverriderOf(sources, upX[d - 1])
      /\ upY[0] = y /\ \A d \in 1 .. n + 1 : upY[d] = OverriderOf(sources, upY[d - 1])
  BY <1>5, <1>6 DEF Walks
<1> HIDE DEF n, x, y
<1>8. \A d \in Nat : d <= n => upX[d + 1] = upY[d]
  <2> DEFINE Good == {d \in Nat : d <= n => upX[d + 1] = upY[d]}
  <2>1. 0 \in Good
    BY <1>1, <1>4, <1>7
  <2>2. ASSUME NEW d \in Nat, d \in Good PROVE d + 1 \in Good
    <3> SUFFICES ASSUME d + 1 <= n PROVE upX[d + 2] = upY[d + 1]
      OBVIOUS
    <3>1. d + 1 \in 1 .. n + 1 /\ d + 2 \in 1 .. n + 1 /\ (d + 2) - 1 = d + 1 /\ (d + 1) - 1 = d /\ d <= n
      BY <1>1
    <3> QED
      BY <1>7, <2>2, <3>1
  <2> HIDE DEF Good
  <2>3. Nat \subseteq Good
    BY <2>1, <2>2, Induction
  <2> QED
    BY <2>3 DEF Good
<1>9. \A d \in Nat : d <= n + 1 /\ upY[d] # NoSource =>
        \E i \in DOMAIN sources : sources[i].id = upY[d] /\ rank[i] + d <= rank[p]
  <2> DEFINE Rising(d) == \E i \in DOMAIN sources : sources[i].id = upY[d] /\ rank[i] + d <= rank[p]
             Good == {d \in Nat : d <= n + 1 /\ upY[d] # NoSource => Rising(d)}
  <2>1. 0 \in Good
    <3>1. rank[p] + 0 <= rank[p]
      BY <1>2
    <3>2. Rising(0)
      BY <1>7, <3>1 DEF y
    <3> QED
      BY <3>2
  <2>2. ASSUME NEW d \in Nat, d \in Good PROVE d + 1 \in Good
    <3> SUFFICES ASSUME d + 1 <= n + 1, upY[d + 1] # NoSource PROVE Rising(d + 1)
      OBVIOUS
    <3>1. d + 1 \in 1 .. n + 1 /\ (d + 1) - 1 = d /\ d <= n + 1
      BY <1>1
    <3>2. upY[d + 1] = OverriderOf(sources, upY[d])
      BY <1>7, <3>1
    <3>3. PICK j \in DOMAIN sources : sources[j].overrideId = upY[d] /\ sources[j].id = upY[d + 1]
      BY <3>2, OverriderThere
    <3>4. upY[d] # NoSource
      BY <3>2, OverriderThere
    <3>5. PICK i \in DOMAIN sources : sources[i].id = upY[d] /\ rank[i] + d <= rank[p]
      BY <2>2, <3>1, <3>4
    <3>6. rank[j] < rank[i]
      BY <1>2, <3>3, <3>5
    <3>7. rank[j] \in Int /\ rank[i] \in Int /\ rank[p] \in Int
      BY <1>2
    <3>8. rank[j] + (d + 1) <= rank[p]
      BY <3>5, <3>6, <3>7
    <3> QED
      BY <3>3, <3>8
  <2> HIDE DEF Good
  <2>3. Nat \subseteq Good
    BY <2>1, <2>2, Induction
  <2> QED
    BY <2>3 DEF Good
<1>10. upY[n + 1] = NoSource
  <2> SUFFICES ASSUME upY[n + 1] # NoSource PROVE FALSE
    OBVIOUS
  <2>1. PICK i \in DOMAIN sources : rank[i] + (n + 1) <= rank[p]
    BY <1>1, <1>9
  <2>2. rank[i] \in 0 .. n /\ rank[p] \in 0 .. n
    BY <1>2
  <2> QED
    BY <1>1, <2>1, <2>2
<1>11. ChainDepth(sources, y) < ChainDepth(sources, x)
  <2> DEFINE k == ChainDepth(sources, x)
             m == ChainDepth(sources, y)
  <2> HIDE DEF k, m
  <2>1. k \in 0 .. n + 1 /\ m \in 0 .. n + 1 /\ (k <= n => upX[k + 1] = NoSource)
    BY <1>5, <1>6 DEF k, m
  <2>2. \A d \in 0 .. n : d < m => upY[d + 1] # NoSource
    BY <1>6 DEF m
  <2>3. m <= n
    BY <1>1, <1>10, <2>1, <2>2
  <2>4. ASSUME k <= m PROVE FALSE
    <3>1. k <= n /\ k \in Nat /\ upX[k + 1] = upY[k]
      BY <1>1, <1>8, <2>1, <2>3, <2>4
    <3>2. upY[k] = NoSource
      BY <2>1, <3>1
    <3>3. CASE k = 0
      BY <1>1, <1>7, <3>2, <3>3
    <3>4. CASE k # 0
      <4>1. k - 1 \in 0 .. n /\ k - 1 < m /\ (k - 1) + 1 = k
        BY <1>1, <2>1, <2>3, <2>4, <3>1, <3>4
      <4> QED
        BY <2>2, <3>2, <4>1
    <3> QED
      BY <3>3, <3>4
  <2>5. m < k
    BY <1>1, <2>1, <2>4
  <2> QED
    BY <2>5 DEF k, m
<1> QED
  BY <1>1, <1>4, <1>11 DEF x, y

-----------------------------------------------------------------------------
(* The steps of the sources that touch the lanes. *)

LEMMA LanesPlaces ==
  ASSUME LanesType
  PROVE  /\ Len(lanes) \in Nat /\ DOMAIN lanes = 1 .. Len(lanes)
         /\ \A i \in DOMAIN lanes : lanes[i] \in Lanes
<1>1. lanes \in Seq(Lanes)
  BY DEF LanesType
<1> QED
  BY <1>1

\* A table of published sources, in whichever order.
LEMMA SourcesKeep ==
  ASSUME ChainsOnly, SourcesInv, NEW sources \in Topologies, SetAudioSources(sources)
  PROVE  SourcesInv'
<1> USE DEF SourcesInv
<1> DEFINE n == Len(sources)
           D == DOMAIN sources
           table == [i \in D |-> LaneOf(sources, i)]
<1>1. /\ n \in Nat /\ D = 1 .. n /\ NoSource \notin Sources
      /\ \A i \in D : sources[i].id \in Sources /\ sources[i].overrideId \in Sources \cup {NoSource}
  BY SourcesTyped
<1>2. Chain(sources)
  BY DEF ChainsOnly
<1>3. Hold \in Nat
  BY LimitsAssumption
<1>4. ASSUME NEW i \in D
      PROVE  /\ table[i] \in Lanes /\ table[i].depth \in 0 .. n + 1
             /\ table[i].id = sources[i].id /\ table[i].overrideId = sources[i].overrideId
             /\ table[i].depth = ChainDepth(sources, sources[i].id)
             /\ table[i].overridden = (OverriderOf(sources, sources[i].id) # NoSource)
             /\ table[i].quiet = IF Find(lanes, sources[i].id) = 0 THEN 0 ELSE lanes[Find(lanes, sources[i].id)].quiet
  <2> DEFINE old == Find(lanes, sources[i].id)
             quiet == IF old = 0 THEN 0 ELSE lanes[old].quiet
             over == OverriderOf(sources, sources[i].id) # NoSource
             deep == ChainDepth(sources, sources[i].id)
  <2>1. table[i] = [id |-> sources[i].id, overrideId |-> sources[i].overrideId, overridden |-> over,
                    depth |-> deep, quiet |-> quiet]
    BY DEF LaneOf
  <2>2. quiet \in 0 .. Hold
    <3>1. old \in 0 .. Len(lanes) /\ Len(lanes) \in Nat /\ DOMAIN lanes = 1 .. Len(lanes)
      BY LanesPlaces, FindsFirst
    <3>2. old # 0 => lanes[old] \in Lanes
      BY <3>1, LanesPlaces
    <3> HIDE DEF old
    <3> QED
      BY <1>3, <3>2 DEF Lanes
  <2>3. deep \in 0 .. n + 1
    BY <1>1, DepthOfChain
  <2>4. over \in BOOLEAN
    OBVIOUS
  <2> HIDE DEF over, deep, quiet, table
  <2>5. deep \in Nat
    BY <1>1, <2>3
  <2> QED
    BY <1>1, <2>1, <2>2, <2>3, <2>4, <2>5 DEF Lanes, over, deep, quiet
<1>5. DOMAIN table = D
  OBVIOUS
<1> HIDE DEF table
<1>6. PICK list \in [D -> D] : /\ lanes' = [k \in D |-> table[list[k]]]
                               /\ \A i, j \in D : i < j => Before(table, list[i], list[j])
  BY <1>5 DEF SetAudioSources, ByDepth, table
<1>7. UNCHANGED <<queue, speech, gain>> /\ heard' = {} /\ offered' = {} /\ published' = TRUE
  BY DEF SetAudioSources
<1>8. /\ lanes' \in Seq(Lanes) /\ Len(lanes') = n /\ DOMAIN lanes' = D
      /\ \A k \in D : list[k] \in D /\ lanes'[k] = table[list[k]]
  <2>1. \A k \in D : list[k] \in D /\ lanes'[k] = table[list[k]] /\ lanes'[k] \in Lanes
    BY <1>4, <1>6
  <2>2. lanes' \in [1 .. n -> Lanes]
    BY <1>1, <1>6, <2>1
  <2> HIDE DEF n, D
  <2> QED
    BY <1>1, <2>1, <2>2
<1>9. quietFor' = [x \in Sources |-> IF (\E i \in D : sources[i].id = x) /\ Find(lanes, x) = 0 THEN 0 ELSE quietFor[x]]
  BY DEF SetAudioSources
<1> HIDE DEF n, D
<1>10. LanesType'
  <2>1. \A i \in D : lanes'[i].depth \in 0 .. n + 1
    BY <1>4, <1>8
  <2>2. quietFor' \in [Sources -> 0 .. Hold]
    BY <1>3, <1>9 DEF LanesType
  <2> QED
    BY <1>7, <1>8, <2>1, <2>2 DEF LanesType
<1>11. LanesChain'
  <2> SUFFICES ASSUME NEW i \in D, NEW j \in D
               PROVE  /\ lanes'[i].id = lanes'[j].id => i = j
                      /\ lanes'[i].overrideId = lanes'[j].overrideId /\ lanes'[i].overrideId # NoSource => i = j
                      /\ lanes'[i].overrideId = lanes'[j].id => i < j /\ lanes'[j].overridden
    BY <1>8 DEF LanesChain
  <2> DEFINE p == list[i]
             q == list[j]
  <2>1. /\ p \in D /\ q \in D /\ lanes'[i] = table[p] /\ lanes'[j] = table[q] /\ i \in Int /\ j \in Int
        /\ p \in Int /\ q \in Int
    BY <1>1, <1>8
  <2>2. (i < j => Before(table, p, q)) /\ (j < i => Before(table, q, p))
    BY <1>6
  <2> HIDE DEF p, q
  <2>3. table[p].depth \in Int /\ table[q].depth \in Int
    <3>1. table[p] \in Lanes /\ table[q] \in Lanes
      BY <1>4, <2>1
    <3> QED
      BY <3>1 DEF Lanes
  <2>4. p = q => i = j
    BY <2>1, <2>2, <2>3 DEF Before
  <2>5. sources[p].id = sources[q].id => p = q
    BY <1>2, <2>1 DEF Chain, D
  <2>6. sources[p].overrideId = sources[q].overrideId /\ sources[p].overrideId # NoSource => p = q
    BY <1>2, <2>1 DEF Chain, D
  <2>7. sources[p].overrideId = sources[q].id =>
          table[p].depth < table[q].depth /\ table[q].overridden
    BY <1>2, <1>4, <2>1, DepthGrows DEF D
  <2>8. table[p].depth < table[q].depth => i < j
    <3>1. table[p].depth < table[q].depth => i # j
      BY <2>1, <2>3
    <3>2. table[p].depth < table[q].depth => ~(j < i)
      BY <2>2, <2>3 DEF Before
    <3> QED
      BY <2>1, <3>1, <3>2
  <2> QED
    BY <1>4, <2>1, <2>4, <2>5, <2>6, <2>7, <2>8
<1>12. LanesQuiet'
  <2> SUFFICES ASSUME NEW k \in D PROVE lanes'[k].quiet <= quietFor'[lanes'[k].id]
    BY <1>8 DEF LanesQuiet
  <2> DEFINE i == list[k]
             x == sources[i].id
             old == Find(lanes, x)
  <2>1. i \in D /\ lanes'[k].id = x /\ x \in Sources /\ lanes'[k].quiet = IF old = 0 THEN 0 ELSE lanes[old].quiet
    BY <1>1, <1>4, <1>8
  <2>2. old \in 0 .. Len(lanes) /\ Len(lanes) \in Nat /\ DOMAIN lanes = 1 .. Len(lanes)
        /\ (old # 0 => lanes[old].id = x)
    BY LanesPlaces, FindsFirst
  <2> HIDE DEF i, x, old
  <2>3. CASE old = 0
    <3>1. quietFor'[x] = 0
      BY <1>9, <2>1, <2>3 DEF old, x
    <3> QED
      BY <2>1, <2>3, <3>1
  <2>4. CASE old # 0
    <3>1. quietFor'[x] = quietFor[x]
      BY <1>9, <2>1, <2>4 DEF old, x
    <3>2. lanes[old].quiet <= quietFor[x]
      BY <2>2, <2>4 DEF LanesQuiet
    <3> QED
      BY <2>1, <2>4, <3>1, <3>2
  <2> QED
    BY <2>3, <2>4
<1>13. OnlyOverSilence'
  BY <1>7 DEF OnlyOverSilence
<1>14. QueuesType' /\ LatencyBounded'
  BY <1>7 DEF QueuesType, LatencyBounded
<1> QED
  BY <1>10, <1>11, <1>12, <1>13, <1>14

\* What overrides what depends on the names of the lanes alone.
SameNames ==
  /\ Len(lanes') = Len(lanes) /\ DOMAIN lanes' = DOMAIN lanes
  /\ \A i \in DOMAIN lanes :
       /\ lanes'[i].id = lanes[i].id /\ lanes'[i].overrideId = lanes[i].overrideId
       /\ lanes'[i].overridden = lanes[i].overridden

LEMMA OverStays == ASSUME SameNames PROVE \A x : Over(x)' = Over(x)
<1> SUFFICES ASSUME NEW x PROVE Over(x)' = Over(x)
  OBVIOUS
<1>1. ASSUME NEW i \in DOMAIN lanes PROVE Overrides(i, x)' <=> Overrides(i, x)
  <2>1. ASSUME NEW n, NEW path \in [0 .. n -> DOMAIN lanes], NEW k \in 0 .. n PROVE path[k] \in DOMAIN lanes
    BY <2>1
  <2> DEFINE Path(n, path) ==
               /\ path[0] = i /\ lanes[path[n]].id = x
               /\ \A k \in 1 .. n : lanes[path[k - 1]].overrideId = lanes[path[k]].id
             PathPrime(n, path) ==
               /\ path[0] = i /\ lanes'[path[n]].id = x
               /\ \A k \in 1 .. n : lanes'[path[k - 1]].overrideId = lanes'[path[k]].id
  <2>2. ASSUME NEW n \in 1 .. Len(lanes), NEW path \in [0 .. n -> DOMAIN lanes]
        PROVE  Path(n, path) <=> PathPrime(n, path)
    <3>1. \A k \in 0 .. n : path[k] \in DOMAIN lanes
      BY <2>1
    <3>2. n \in 0 .. n /\ \A k \in 1 .. n : k - 1 \in 0 .. n /\ k \in 0 .. n
      OBVIOUS
    <3> QED
      BY <3>1, <3>2 DEF SameNames
  <2>3. Overrides(i, x) <=>
          lanes[i].id # x /\ \E n \in 1 .. Len(lanes) : \E path \in [0 .. n -> DOMAIN lanes] : Path(n, path)
    BY DEF Overrides
  <2>4. Overrides(i, x)' <=>
          lanes'[i].id # x /\ \E n \in 1 .. Len(lanes') : \E path \in [0 .. n -> DOMAIN lanes'] : PathPrime(n, path)
    BY DEF Overrides
  <2> HIDE DEF Path, PathPrime
  <2> QED
    BY <2>2, <2>3, <2>4 DEF SameNames
<1>2. Over(x)' = {lanes'[i].id : i \in {i \in DOMAIN lanes' : Overrides(i, x)'}}
  BY DEF Over
<1>3. Over(x) = {lanes[i].id : i \in {i \in DOMAIN lanes : Overrides(i, x)}}
  BY DEF Over
<1> HIDE DEF Over
<1> QED
  BY <1>1, <1>2, <1>3 DEF SameNames

LEMMA OverriderFound ==
  ASSUME LanesType, NEW x
  PROVE  /\ FindOverriderOf(x) \in 0 .. Len(lanes)
         /\ \A j \in DOMAIN lanes :
              lanes[j].overrideId = x /\ (\A k \in DOMAIN lanes : lanes[k].overrideId = x => k = j)
                => FindOverriderOf(x) = j
<1> DEFINE I == {i \in 1 .. Len(lanes) : lanes[i].overrideId = x}
<1>1. FindOverriderOf(x) = IF I # {} THEN CHOOSE i \in I : \A j \in I : i <= j ELSE 0
  BY DEF FindOverriderOf, SelectInSeq, Min
<1>2. Len(lanes) \in Nat /\ DOMAIN lanes = 1 .. Len(lanes)
  BY LanesPlaces
<1>3. FindOverriderOf(x) \in 0 .. Len(lanes)
  <2>1. I \in SUBSET Nat
    OBVIOUS
  <2>2. I # {} => \E i \in I : \A j \in I : i <= j
    <3> HIDE DEF I
    <3> QED
      BY <2>1, LeastNumber
  <2>3. I # {} => FindOverriderOf(x) \in I
    BY <1>1, <2>2
  <2>4. I = {} => FindOverriderOf(x) = 0
    BY <1>1
  <2> QED
    BY <1>2, <2>3, <2>4
<1>4. ASSUME NEW j \in DOMAIN lanes, lanes[j].overrideId = x, \A k \in DOMAIN lanes : lanes[k].overrideId = x => k = j
      PROVE  FindOverriderOf(x) = j
  <2>1. I = {j} /\ j \in Nat
    BY <1>2, <1>4
  <2>2. (CHOOSE i \in I : \A k \in I : i <= k) = j
    BY <2>1
  <2> QED
    BY <1>1, <2>1, <2>2
<1> QED
  BY <1>3, <1>4

\* The walk of the fallback passes everything that overrides a lane, and all of it
\* is decided before the lane.
LEMMA OverIsAbove ==
  ASSUME LanesType, LanesChain, NEW i \in DOMAIN lanes, NEW k \in DOMAIN lanes, Overrides(k, lanes[i].id)
  PROVE  k < i /\ lanes[i].overridden /\ k \in LanesAbove(i)
<1> DEFINE L == Len(lanes)
           T == 0 .. L
<1>1. L \in Nat /\ DOMAIN lanes = 1 .. L
  BY LanesPlaces
<1>2. PICK n \in 1 .. L : \E path \in [0 .. n -> DOMAIN lanes] :
        /\ path[0] = k /\ lanes[path[n]].id = lanes[i].id
        /\ \A e \in 1 .. n : lanes[path[e - 1]].overrideId = lanes[path[e]].id
  BY DEF Overrides
<1>3. PICK path \in [0 .. n -> DOMAIN lanes] :
        /\ path[0] = k /\ lanes[path[n]].id = lanes[i].id
        /\ \A e \in 1 .. n : lanes[path[e - 1]].overrideId = lanes[path[e]].id
  BY <1>2
<1> HIDE DEF L
<1>4. n \in Nat /\ n # 0 /\ n \in 1 .. n /\ n \in 0 .. n /\ n - 1 \in 0 .. n /\ n <= L
  BY <1>1
<1>5. \A e \in 0 .. n : path[e] \in DOMAIN lanes /\ path[e] \in Nat /\ path[e] # 0 /\ path[e] \in T
  BY <1>1, <1>3
<1>6. path[n] = i
  BY <1>3, <1>4, <1>5 DEF LanesChain
<1>7. ASSUME NEW e \in 1 .. n
      PROVE  /\ path[e - 1] < path[e] /\ lanes[path[e]].overridden
             /\ FindOverriderOf(lanes[path[e]].id) = path[e - 1]
  <2>1. e - 1 \in 0 .. n /\ e \in 0 .. n
    BY <1>4
  <2>2. path[e - 1] \in DOMAIN lanes /\ path[e] \in DOMAIN lanes /\ lanes[path[e - 1]].overrideId = lanes[path[e]].id
    BY <1>3, <1>5, <2>1
  <2>3. lanes[path[e]].id # NoSource
    <3>1. lanes[path[e]] \in Lanes /\ NoSource \notin Sources
      BY <2>2, LanesPlaces, LimitsAssumption
    <3> QED
      BY <3>1 DEF Lanes
  <2>4. \A m \in DOMAIN lanes : lanes[m].overrideId = lanes[path[e]].id => m = path[e - 1]
    BY <2>2, <2>3 DEF LanesChain
  <2> QED
    BY <2>2, <2>4, OverriderFound DEF LanesChain
<1>8. k < i
  <2> DEFINE Good == {e \in Nat : e < n => path[0] < path[e + 1]}
  <2>1. 0 \in Good
    <3>1. 1 \in 1 .. n /\ 1 - 1 = 0
      BY <1>4
    <3>2. path[0] < path[1]
      BY <1>7, <3>1
    <3> QED
      BY <3>2
  <2>2. ASSUME NEW e \in Nat, e \in Good PROVE e + 1 \in Good
    <3> SUFFICES ASSUME e + 1 < n PROVE path[0] < path[e + 2]
      OBVIOUS
    <3>1. e + 2 \in 1 .. n /\ (e + 2) - 1 = e + 1 /\ e < n /\ 0 \in 0 .. n /\ e + 1 \in 0 .. n /\ e + 2 \in 0 .. n
      BY <1>4
    <3>2. path[e + 1] < path[e + 2] /\ path[0] < path[e + 1]
      BY <1>7, <2>2, <3>1
    <3>3. path[0] \in Nat /\ path[e + 1] \in Nat /\ path[e + 2] \in Nat
      BY <1>5, <3>1
    <3> QED
      BY <3>2, <3>3
  <2> HIDE DEF Good
  <2>3. n - 1 \in Good
    <3>1. Nat \subseteq Good
      BY <2>1, <2>2, Induction
    <3> QED
      BY <1>4, <3>1
  <2> QED
    BY <1>3, <1>4, <1>6, <2>3 DEF Good
<1>9. k \in LanesAbove(i)
  <2> DEFINE Eq(f) == f = [d \in 0 .. L |-> IF d = 0 THEN i
                                            ELSE IF f[d - 1] = 0 THEN 0 ELSE FindOverriderOf(lanes[f[d - 1]].id)]
             up == CHOOSE f : Eq(f)
             Up(p) == IF p = 0 THEN 0 ELSE FindOverriderOf(lanes[p].id)
             g == [y \in Nat \X T |-> Up(y[2])]
  <2>1. i \in T /\ \A p \in T : Up(p) \in T
    BY <1>1, OverriderFound DEF L
  <2>2. \E f : Eq(f)
    <3> HIDE DEF T
    <3>1. g \in StepsOn(T)
      <4>1. \A y \in Nat \X T : Up(y[2]) \in T
        BY <2>1
      <4> HIDE DEF Up
      <4> QED
        BY <4>1 DEF StepsOn
    <3>2. PICK f \in RecursionUpTo(T, i, g, L) : TRUE
      <4> HIDE DEF g
      <4> QED
        BY <1>1, <2>1, <3>1, RecursionUpToExists
    <3>3. f \in [0 .. L -> T] /\ \A d \in 0 .. L : f[d] = IF d = 0 THEN i ELSE g[<<d - 1, f[d - 1]>>]
      <4> HIDE DEF g
      <4> QED
        BY <3>2 DEF RecursionUpTo
    <3>4. ASSUME NEW d \in 0 .. L, d # 0 PROVE g[<<d - 1, f[d - 1]>>] = Up(f[d - 1])
      <4>1. d - 1 \in Nat /\ f[d - 1] \in T
        BY <1>1, <3>3, <3>4
      <4> HIDE DEF Up
      <4> QED
        BY <4>1
    <3>5. Eq(f)
      <4> HIDE DEF g
      <4> QED
        BY <3>3, <3>4
    <3> QED
      BY <3>5
  <2>3. Eq(up)
    BY <2>2
  <2> HIDE DEF up
  <2>4. up[0] = i /\ \A d \in 1 .. L : up[d] = Up(up[d - 1])
    <3>1. \A d \in 0 .. L : up[d] = IF d = 0 THEN i ELSE Up(up[d - 1])
      BY <2>3
    <3> HIDE DEF Up
    <3>2. 0 \in 0 .. L /\ \A d \in 1 .. L : d \in 0 .. L /\ d # 0
      BY <1>1
    <3> QED
      BY <3>1, <3>2
  <2> DEFINE Good == {m \in Nat : m <= n => up[m] = path[n - m]}
  <2>5. 0 \in Good
    BY <1>4, <1>6, <2>4
  <2>6. ASSUME NEW m \in Nat, m \in Good PROVE m + 1 \in Good
    <3> SUFFICES ASSUME m + 1 <= n PROVE up[m + 1] = path[n - (m + 1)]
      OBVIOUS
    <3>1. /\ m + 1 \in 1 .. L /\ (m + 1) - 1 = m /\ m <= n
          /\ n - m \in 1 .. n /\ n - m \in 0 .. n /\ (n - m) - 1 = n - (m + 1)
      BY <1>1, <1>4
    <3>2. up[m + 1] = Up(up[m]) /\ up[m] = path[n - m]
      BY <2>4, <2>6, <3>1
    <3>3. path[n - m] # 0 /\ FindOverriderOf(lanes[path[n - m]].id) = path[(n - m) - 1]
      BY <1>5, <1>7, <3>1
    <3> QED
      BY <3>1, <3>2, <3>3
  <2>7. n \in Good
    <3> HIDE DEF Good
    <3> QED
      BY <1>4, <2>5, <2>6, Induction
  <2>8. up[n] = k /\ k # 0 /\ n \in 1 .. L
    BY <1>1, <1>3, <1>4, <2>7
  <2>9. LanesAbove(i) = {up[d] : d \in 1 .. L} \ {0}
    BY DEF LanesAbove, up, L
  <2> QED
    BY <2>8, <2>9
<1> QED
  BY <1>4, <1>6, <1>7, <1>8, <1>9

\* A step that changes only how long the lanes have been quiet.
LEMMA LanesAge ==
  ASSUME LanesType, LanesChain, NEW quiet, lanes' = [i \in DOMAIN lanes |-> [lanes[i] EXCEPT !.quiet = quiet[i]]],
         \A i \in DOMAIN lanes : quiet[i] \in 0 .. Hold
  PROVE  /\ lanes' \in Seq(Lanes) /\ SameNames /\ LanesChain'
         /\ \A i \in DOMAIN lanes : lanes'[i].depth = lanes[i].depth /\ lanes'[i].quiet = quiet[i]
<1>1. Len(lanes) \in Nat /\ DOMAIN lanes = 1 .. Len(lanes) /\ \A i \in DOMAIN lanes : lanes[i] \in Lanes
  BY LanesPlaces
<1>2. ASSUME NEW i \in DOMAIN lanes
      PROVE  /\ lanes'[i] \in Lanes /\ lanes'[i].quiet = quiet[i]
             /\ lanes'[i].id = lanes[i].id /\ lanes'[i].overrideId = lanes[i].overrideId
             /\ lanes'[i].overridden = lanes[i].overridden /\ lanes'[i].depth = lanes[i].depth
  <2>1. lanes'[i] = [lanes[i] EXCEPT !.quiet = quiet[i]] /\ lanes[i] \in Lanes /\ quiet[i] \in 0 .. Hold
    BY <1>1
  <2> QED
    BY <2>1 DEF Lanes
<1>3. DOMAIN lanes' = DOMAIN lanes /\ lanes' \in [1 .. Len(lanes) -> Lanes]
  <2>1. DOMAIN lanes' = DOMAIN lanes
    OBVIOUS
  <2>2. lanes' \in [DOMAIN lanes -> Lanes]
    BY <1>2
  <2> QED
    BY <1>1, <2>1, <2>2
<1>4. lanes' \in Seq(Lanes) /\ Len(lanes') = Len(lanes)
  BY <1>1, <1>3
<1>5. SameNames
  BY <1>2, <1>3, <1>4 DEF SameNames
<1>6. LanesChain'
  BY <1>2, <1>3 DEF LanesChain
<1> QED
  BY <1>2, <1>4, <1>5, <1>6

LEMMA TimeKeeps == ASSUME SourcesInv, Tick PROVE SourcesInv'
<1> USE DEF SourcesInv
<1> DEFINE quiet == [i \in DOMAIN lanes |-> IF lanes[i].quiet < Hold THEN lanes[i].quiet + 1 ELSE lanes[i].quiet]
<1>1. Hold \in Nat
  BY LimitsAssumption
<1>2. /\ \A i \in DOMAIN lanes : lanes[i].quiet \in 0 .. Hold /\ lanes[i].id \in Sources
      /\ \A x \in Sources : quietFor[x] \in 0 .. Hold
  BY LanesPlaces DEF LanesType, Lanes
<1>3. \A i \in DOMAIN lanes : quiet[i] \in 0 .. Hold
  BY <1>1, <1>2
<1>4. lanes' = [i \in DOMAIN lanes |-> [lanes[i] EXCEPT !.quiet = quiet[i]]]
  BY DEF Tick
<1>5. /\ UNCHANGED <<queue, speech, gain, heard, offered>> /\ published' = FALSE
      /\ quietFor' = [x \in Sources |-> IF quietFor[x] < Hold THEN quietFor[x] + 1 ELSE quietFor[x]]
  BY DEF Tick
<1>6. \A i \in DOMAIN lanes : quiet[i] = IF lanes[i].quiet < Hold THEN lanes[i].quiet + 1 ELSE lanes[i].quiet
  OBVIOUS
<1> HIDE DEF quiet
<1>7. /\ lanes' \in Seq(Lanes) /\ SameNames /\ LanesChain'
      /\ \A i \in DOMAIN lanes : lanes'[i].depth = lanes[i].depth /\ lanes'[i].quiet = quiet[i]
  BY <1>3, <1>4, LanesAge
<1>8. /\ quietFor' \in [Sources -> 0 .. Hold]
      /\ \A x \in Sources : quietFor'[x] >= quietFor[x] /\ quietFor'[x] \in Int
  BY <1>1, <1>2, <1>5
<1>9. LanesType'
  BY <1>5, <1>7, <1>8 DEF LanesType, SameNames
<1>10. LanesQuiet'
  <2> SUFFICES ASSUME NEW i \in DOMAIN lanes PROVE lanes'[i].quiet <= quietFor'[lanes'[i].id]
    BY <1>7 DEF LanesQuiet, SameNames
  <2>1. lanes'[i].id = lanes[i].id /\ lanes[i].id \in Sources /\ lanes'[i].quiet = quiet[i]
    BY <1>2, <1>7 DEF SameNames
  <2>2. lanes[i].quiet <= quietFor[lanes[i].id] /\ lanes[i].quiet \in 0 .. Hold /\ quietFor[lanes[i].id] \in 0 .. Hold
    BY <1>2, <2>1 DEF LanesQuiet
  <2>3. quietFor'[lanes[i].id] = IF quietFor[lanes[i].id] < Hold THEN quietFor[lanes[i].id] + 1 ELSE quietFor[lanes[i].id]
    BY <1>5, <2>1
  <2> QED
    BY <1>1, <1>6, <2>1, <2>2, <2>3
<1>11. OnlyOverSilence'
  <2> SUFFICES ASSUME NEW x \in heard, Over(x)' # {}
               PROVE  Mode = "Fallback" /\ \A y \in Over(x)' : quietFor'[y] >= Hold
    BY <1>5 DEF OnlyOverSilence
  <2>1. Over(x)' = Over(x)
    BY <1>7, OverStays
  <2>2. Mode = "Fallback" /\ \A y \in Over(x) : quietFor[y] >= Hold
    BY <2>1 DEF OnlyOverSilence
  <2>3. \A y \in Over(x) : y \in Sources
    BY <1>2 DEF Over
  <2> HIDE DEF Over
  <2>4. \A y \in Over(x) : quietFor'[y] >= Hold
    BY <1>1, <1>2, <1>8, <2>2, <2>3
  <2> QED
    BY <2>1, <2>2, <2>4
<1>12. QueuesType' /\ LatencyBounded'
  BY <1>5 DEF QueuesType, LatencyBounded
<1> QED
  BY <1>7, <1>9, <1>10, <1>11, <1>12

-----------------------------------------------------------------------------
(* The queues. *)

\* How much there is up to each place of a queue.
Sums(q) ==
  {f \in [0 .. Len(q) -> Int] : f[0] = 0 /\ \A k \in 1 .. Len(q) : f[k] = f[k - 1] + q[k].n}

LEMMA QueuePlaces ==
  ASSUME NEW q \in Seq(Pieces)
  PROVE  Len(q) \in Nat /\ DOMAIN q = 1 .. Len(q) /\ \A k \in 1 .. Len(q) : q[k] \in Pieces /\ q[k].n \in Nat
<1>1. Len(q) \in Nat /\ DOMAIN q = 1 .. Len(q) /\ \A k \in 1 .. Len(q) : q[k] \in Pieces
  OBVIOUS
<1> QED
  BY <1>1 DEF Pieces

LEMMA SumIs == ASSUME NEW q \in Seq(Pieces), NEW f \in Sums(q) PROVE BufferedSamples(q) = f[Len(q)]
<1> DEFINE n == Len(q)
           Eq(h) == h = [k \in 0 .. n |-> IF k = 0 THEN 0 ELSE h[k - 1] + q[k].n]
           sum == CHOOSE h : Eq(h)
<1>1. n \in Nat
  BY QueuePlaces
<1>2. f \in [0 .. n -> Int] /\ f[0] = 0 /\ \A k \in 1 .. n : f[k] = f[k - 1] + q[k].n
  BY DEF Sums
<1> HIDE DEF n
<1>3. Eq(f)
  BY <1>1, <1>2
<1>4. Eq(sum)
  BY <1>3
<1> HIDE DEF sum
<1>5. \A k \in 0 .. n : sum[k] = IF k = 0 THEN 0 ELSE sum[k - 1] + q[k].n
  BY <1>4
<1> DEFINE Good == {k \in Nat : k <= n => sum[k] = f[k]}
<1>6. 0 \in Good
  BY <1>1, <1>2, <1>5
<1>7. ASSUME NEW k \in Nat, k \in Good PROVE k + 1 \in Good
  <2> SUFFICES ASSUME k + 1 <= n PROVE sum[k + 1] = f[k + 1]
    OBVIOUS
  <2>1. k + 1 \in 0 .. n /\ k + 1 \in 1 .. n /\ k + 1 # 0 /\ (k + 1) - 1 = k /\ k <= n
    BY <1>1
  <2> QED
    BY <1>2, <1>5, <1>7, <2>1
<1>8. n \in Good
  <2> HIDE DEF Good
  <2> QED
    BY <1>1, <1>6, <1>7, Induction
<1> QED
  BY <1>8 DEF BufferedSamples, sum, n

LEMMA SumsExist == ASSUME NEW q \in Seq(Pieces) PROVE \E f \in Sums(q) : TRUE
<1> DEFINE n == Len(q)
           g == [y \in Nat \X Int |-> IF y[1] < n THEN y[2] + q[y[1] + 1].n ELSE y[2]]
<1>1. n \in Nat /\ \A k \in 1 .. n : q[k].n \in Nat
  BY QueuePlaces
<1> HIDE DEF n
<1>2. g \in StepsOn(Int)
  <2>1. \A i \in Nat : i < n => i + 1 \in 1 .. n
    BY <1>1
  <2>2. \A i \in Nat, s \in Int : (IF i < n THEN s + q[i + 1].n ELSE s) \in Int
    BY <1>1, <2>1
  <2> QED
    BY <2>2 DEF StepsOn
<1>3. PICK f \in RecursionUpTo(Int, 0, g, n) : TRUE
  <2>1. 0 \in Int
    OBVIOUS
  <2> HIDE DEF g
  <2>2. RecursionUpTo(Int, 0, g, n) # {}
    BY <1>1, <1>2, <2>1, RecursionUpToExists
  <2> QED
    BY <2>2
<1>4. f \in [0 .. n -> Int] /\ \A k \in 0 .. n : f[k] = IF k = 0 THEN 0 ELSE g[<<k - 1, f[k - 1]>>]
  <2> HIDE DEF g
  <2> QED
    BY <1>3 DEF RecursionUpTo
<1>5. ASSUME NEW k \in 1 .. n PROVE f[k] = f[k - 1] + q[k].n
  <2>1. k \in 0 .. n /\ k # 0 /\ k - 1 \in 0 .. n /\ k - 1 \in Nat /\ k - 1 < n /\ (k - 1) + 1 = k /\ f[k - 1] \in Int
    BY <1>1, <1>4
  <2>2. g[<<k - 1, f[k - 1]>>] = f[k - 1] + q[k].n
    BY <2>1
  <2> HIDE DEF g
  <2> QED
    BY <1>4, <2>1, <2>2
<1>6. f[0] = 0
  <2>1. 0 \in 0 .. n
    BY <1>1
  <2> HIDE DEF g
  <2> QED
    BY <1>4, <2>1
<1> HIDE DEF g
<1> QED
  BY <1>4, <1>5, <1>6 DEF Sums, n

LEMMA SumOfStart ==
  ASSUME NEW q \in Seq(Pieces), NEW f \in Sums(q), NEW k \in 0 .. Len(q)
  PROVE  BufferedSamples(SubSeq(q, 1, k)) = f[k]
<1>1. Len(q) \in Nat /\ \A i \in 1 .. Len(q) : q[i] \in Pieces
  BY QueuePlaces
<1> DEFINE s == SubSeq(q, 1, k)
           h == [i \in 0 .. k |-> f[i]]
<1>2. s \in Seq(Pieces) /\ Len(s) = k /\ \A i \in 1 .. k : s[i] = q[i]
  BY <1>1
<1>3. f \in [0 .. Len(q) -> Int] /\ f[0] = 0 /\ \A i \in 1 .. Len(q) : f[i] = f[i - 1] + q[i].n
  BY DEF Sums
<1>4. h \in [0 .. k -> Int] /\ h[0] = 0 /\ h[k] = f[k]
  BY <1>1, <1>3
<1>5. ASSUME NEW i \in 1 .. k PROVE h[i] = h[i - 1] + s[i].n
  <2>1. i \in 1 .. Len(q) /\ i \in 0 .. k /\ i - 1 \in 0 .. k
    BY <1>1
  <2> HIDE DEF s
  <2> QED
    BY <1>2, <1>3, <2>1
<1> HIDE DEF h, s
<1>6. h \in Sums(s)
  BY <1>2, <1>4, <1>5 DEF Sums
<1> QED
  BY <1>2, <1>4, <1>6, SumIs DEF s

LEMMA SumOfRest ==
  ASSUME NEW q \in Seq(Pieces), NEW f \in Sums(q), NEW k \in 0 .. Len(q)
  PROVE  /\ SubSeq(q, k + 1, Len(q)) \in Seq(Pieces)
         /\ Len(SubSeq(q, k + 1, Len(q))) = Len(q) - k
         /\ \A i \in 1 .. Len(q) - k : SubSeq(q, k + 1, Len(q))[i] = q[k + i]
         /\ BufferedSamples(SubSeq(q, k + 1, Len(q))) = f[Len(q)] - f[k]
<1>1. Len(q) \in Nat /\ \A i \in 1 .. Len(q) : q[i] \in Pieces /\ q[i].n \in Nat
  BY QueuePlaces
<1> DEFINE n == Len(q)
           s == SubSeq(q, k + 1, n)
           h == [i \in 0 .. n - k |-> f[k + i] - f[k]]
<1>2. s \in Seq(Pieces) /\ Len(s) = n - k /\ \A i \in 1 .. n - k : s[i] = q[k + i]
  <2>1. Len(s) = n - k /\ \A i \in 1 .. n - k : s[i] = q[k + i]
    BY <1>1
  <2>2. s \in Seq(Pieces)
    BY <1>1
  <2> QED
    BY <2>1, <2>2
<1>3. f \in [0 .. n -> Int] /\ f[0] = 0 /\ \A i \in 1 .. n : f[i] = f[i - 1] + q[i].n
  BY DEF Sums
<1>4. h \in [0 .. n - k -> Int] /\ h[0] = 0 /\ h[n - k] = f[n] - f[k]
  <2>1. \A i \in 0 .. n - k : k + i \in 0 .. n
    BY <1>1
  <2>2. k + 0 = k /\ k + (n - k) = n /\ 0 \in 0 .. n - k /\ n - k \in 0 .. n - k
    BY <1>1
  <2> QED
    BY <1>3, <2>1, <2>2
<1>5. ASSUME NEW i \in 1 .. n - k PROVE h[i] = h[i - 1] + s[i].n
  <2>1. /\ k + i \in 1 .. n /\ i \in 0 .. n - k /\ i - 1 \in 0 .. n - k /\ k + (i - 1) = (k + i) - 1
        /\ (k + i) - 1 \in 0 .. n /\ k + i \in 0 .. n
    BY <1>1
  <2>2. f[k + i] = f[(k + i) - 1] + q[k + i].n /\ s[i].n = q[k + i].n
    BY <1>2, <1>3, <2>1
  <2>3. h[i] = f[k + i] - f[k] /\ h[i - 1] = f[(k + i) - 1] - f[k]
    BY <2>1
  <2>4. f[k] \in Int /\ f[(k + i) - 1] \in Int /\ q[k + i].n \in Int
    <3>1. k \in 0 .. n
      OBVIOUS
    <3>2. q[k + i].n \in Nat
      BY <1>1, <2>1
    <3> QED
      BY <1>3, <2>1, <3>1, <3>2
  <2> HIDE DEF s, h
  <2> QED
    BY <2>2, <2>3, <2>4
<1> HIDE DEF h, s
<1>6. h \in Sums(s)
  BY <1>2, <1>4, <1>5 DEF Sums
<1> QED
  BY <1>2, <1>4, <1>6, SumIs DEF s

\* Less of the first buffer.
LEMMA ShorterHead ==
  ASSUME NEW r \in Seq(Pieces), r # <<>>, NEW e \in Nat, e <= r[1].n
  PROVE  /\ <<[Head(r) EXCEPT !.n = @ - e]>> \o Tail(r) \in Seq(Pieces)
         /\ BufferedSamples(<<[Head(r) EXCEPT !.n = @ - e]>> \o Tail(r)) = BufferedSamples(r) - e
<1> DEFINE m == Len(r)
           hd == [Head(r) EXCEPT !.n = @ - e]
           s == <<hd>> \o Tail(r)
<1>1. m \in Nat \ {0} /\ \A i \in 1 .. m : r[i] \in Pieces /\ r[i].n \in Nat
  BY QueuePlaces
<1>2. Head(r) = r[1] /\ Tail(r) \in Seq(Pieces) /\ Len(Tail(r)) = m - 1 /\ \A i \in 1 .. m - 1 : Tail(r)[i] = r[i + 1]
  BY <1>1
<1>3. hd \in Pieces /\ hd.n = r[1].n - e
  <2>1. r[1] \in Pieces /\ r[1].n \in Nat
    BY <1>1
  <2>2. r[1].n - e \in Nat
    BY <2>1
  <2> QED
    BY <1>2, <2>1, <2>2 DEF Pieces
<1> HIDE DEF hd
<1>4. s \in Seq(Pieces) /\ Len(s) = m /\ s[1] = hd
  BY <1>1, <1>2, <1>3
<1>5. \A i \in 2 .. m : s[i] = r[i]
  <2> TAKE i \in 2 .. m
  <2>1. i - 1 \in 1 .. m - 1 /\ (i - 1) + 1 = i
    BY <1>1
  <2>2. s[i] = Tail(r)[i - 1]
    BY <1>1, <1>2, <1>3, <2>1
  <2> QED
    BY <1>2, <2>1, <2>2
<1>6. PICK f \in Sums(r) : TRUE
  BY SumsExist
<1>7. f \in [0 .. m -> Int] /\ f[0] = 0 /\ \A k \in 1 .. m : f[k] = f[k - 1] + r[k].n
  BY DEF Sums
<1> DEFINE h == [i \in 0 .. m |-> IF i = 0 THEN 0 ELSE f[i] - e]
<1> HIDE DEF s, m
<1>8. h \in [0 .. m -> Int] /\ h[0] = 0 /\ h[m] = f[m] - e
  BY <1>1, <1>7
<1>9. \A k \in 1 .. m : h[k] = h[k - 1] + s[k].n
  <2>1. h[1] = h[1 - 1] + s[1].n
    <3>1. 1 \in 0 .. m /\ 1 \in 1 .. m /\ 1 - 1 = 0 /\ 1 # 0
      BY <1>1
    <3>2. h[1] = f[1] - e
      BY <3>1
    <3>3. f[1] = 0 + r[1].n /\ r[1].n \in Nat
      BY <1>1, <1>7, <3>1
    <3> HIDE DEF h
    <3> QED
      BY <1>3, <1>4, <1>8, <3>1, <3>2, <3>3
  <2>2. ASSUME NEW k \in 2 .. m PROVE h[k] = h[k - 1] + s[k].n
    <3>1. k \in 1 .. m /\ k \in 0 .. m /\ k - 1 \in 0 .. m /\ k # 0 /\ k - 1 # 0
      BY <1>1
    <3>2. h[k] = f[k] - e /\ h[k - 1] = f[k - 1] - e
      BY <3>1
    <3>3. f[k] = f[k - 1] + r[k].n /\ f[k - 1] \in Int /\ r[k].n \in Nat /\ s[k] = r[k]
      BY <1>1, <1>5, <1>7, <3>1
    <3> HIDE DEF h
    <3> QED
      BY <3>2, <3>3
  <2>3. \A k \in 1 .. m : k = 1 \/ k \in 2 .. m
    BY <1>1
  <2> QED
    BY <2>1, <2>2, <2>3
<1> HIDE DEF h
<1>10. h \in Sums(s)
  BY <1>4, <1>8, <1>9 DEF Sums
<1>11. BufferedSamples(s) = h[m] /\ BufferedSamples(r) = f[m]
  BY <1>4, <1>10, SumIs DEF m
<1>12. s \in Seq(Pieces) /\ BufferedSamples(s) = BufferedSamples(r) - e
  BY <1>4, <1>8, <1>11
<1> QED
  BY <1>12 DEF s, hd

\* What is dropped is what was asked for, or everything.
LEMMA DropsUnits ==
  ASSUME NEW q \in Seq(Pieces), NEW n \in Nat
  PROVE  /\ DropSamples(q, n) \in Seq(Pieces)
         /\ BufferedSamples(DropSamples(q, n)) = 0 \/ BufferedSamples(DropSamples(q, n)) = BufferedSamples(q) - n
         /\ BufferedSamples(q) \in Int
<1> DEFINE m == Len(q)
<1>1. m \in Nat /\ \A i \in 1 .. m : q[i] \in Pieces /\ q[i].n \in Nat
  BY QueuePlaces
<1>2. PICK f \in Sums(q) : TRUE
  BY SumsExist
<1>3. f \in [0 .. m -> Int] /\ f[0] = 0 /\ \A k \in 1 .. m : f[k] = f[k - 1] + q[k].n
  BY DEF Sums
<1>4. BufferedSamples(q) = f[m] /\ f[m] \in Int
  BY <1>1, <1>3, SumIs
<1> DEFINE Whole(k) == BufferedSamples(SubSeq(q, 1, k))
           Fits(k) == Whole(k) <= n /\ (k = m \/ n < Whole(k + 1))
           last == CHOOSE k \in 0 .. m : Fits(k)
           rest == SubSeq(q, last + 1, m)
<1>5. \A k \in 0 .. m : Whole(k) = f[k]
  BY SumOfStart
<1> HIDE DEF Whole
<1>6. \E k \in 0 .. m : Fits(k)
  <2> DEFINE places == {k \in 1 .. m + 1 : f[k - 1] <= n}
  <2>1. 1 \in places
    BY <1>1, <1>3
  <2>2. PICK j \in places : \A i \in places : i <= j
    <3>1. places \in SUBSET (1 .. m + 1) /\ places # {} /\ m + 1 \in Nat
      BY <1>1, <2>1
    <3> HIDE DEF places
    <3> QED
      BY <3>1, LastPlace
  <2>3. j - 1 \in 0 .. m /\ Whole(j - 1) <= n
    BY <1>1, <1>5, <2>2
  <2>4. j - 1 = m \/ n < Whole((j - 1) + 1)
    <3> SUFFICES ASSUME j - 1 # m PROVE n < Whole((j - 1) + 1)
      OBVIOUS
    <3>1. (j - 1) + 1 = j /\ j \in 0 .. m /\ j + 1 \in 1 .. m + 1 /\ (j + 1) - 1 = j
      BY <1>1, <2>2
    <3>2. j + 1 \notin places
      <4>1. ~(j + 1 <= j)
        BY <1>1, <3>1
      <4> HIDE DEF places
      <4> QED
        BY <2>2, <4>1
    <3>3. ~(f[j] <= n) /\ f[j] \in Int
      BY <1>3, <3>1, <3>2
    <3>4. Whole((j - 1) + 1) = f[j]
      BY <1>5, <3>1
    <3> QED
      BY <3>3, <3>4
  <2> QED
    BY <2>3, <2>4
<1>7. last \in 0 .. m /\ Fits(last)
  <2> HIDE DEF Fits
  <2> QED
    BY <1>6
<1> HIDE DEF last
<1>8. f[last] <= n /\ f[last] \in Int /\ (last = m \/ n < f[last + 1])
  <2>1. last # m => last + 1 \in 0 .. m
    BY <1>1, <1>7
  <2> QED
    BY <1>3, <1>5, <1>7, <2>1
<1>9. /\ rest \in Seq(Pieces) /\ Len(rest) = m - last /\ BufferedSamples(rest) = f[m] - f[last]
      /\ \A i \in 1 .. m - last : rest[i] = q[last + i]
  BY <1>7, SumOfRest
<1> HIDE DEF rest
<1> DEFINE d == IF rest = <<>> \/ n = Whole(last) THEN rest
                ELSE <<[Head(rest) EXCEPT !.n = @ - (n - Whole(last))]>> \o Tail(rest)
<1>10. d \in Seq(Pieces) /\ (BufferedSamples(d) = 0 \/ BufferedSamples(d) = f[m] - n)
  <2>1. CASE rest = <<>>
    <3>1. last = m
      BY <1>1, <1>7, <1>9, <2>1
    <3> QED
      BY <1>4, <1>9, <2>1, <3>1
  <2>2. CASE rest # <<>> /\ n = Whole(last)
    BY <1>5, <1>7, <1>9, <2>2
  <2>3. CASE rest # <<>> /\ n # Whole(last)
    <3> DEFINE e == n - Whole(last)
    <3>1. Whole(last) = f[last] /\ e = n - f[last] /\ e \in Nat
      BY <1>5, <1>7, <1>8
    <3>2. last # m
      <4>1. rest # <<>> => Len(rest) # 0
        BY <1>9
      <4> QED
        BY <1>1, <1>9, <2>3, <4>1
    <3>3. last + 1 \in 1 .. m /\ 1 \in 1 .. m - last /\ last + 1 \in 0 .. m /\ (last + 1) - 1 = last
      BY <1>1, <1>7, <3>2
    <3>4. rest[1] = q[last + 1] /\ q[last + 1].n \in Nat
      BY <1>1, <1>9, <3>3
    <3>5. f[last + 1] = f[last] + q[last + 1].n /\ n < f[last + 1]
      BY <1>3, <1>8, <3>2, <3>3
    <3>6. e <= rest[1].n
      BY <1>8, <3>1, <3>4, <3>5
    <3> HIDE DEF e
    <3>7. /\ <<[Head(rest) EXCEPT !.n = @ - e]>> \o Tail(rest) \in Seq(Pieces)
          /\ BufferedSamples(<<[Head(rest) EXCEPT !.n = @ - e]>> \o Tail(rest)) = BufferedSamples(rest) - e
      BY <1>9, <2>3, <3>1, <3>6, ShorterHead
    <3>8. d = <<[Head(rest) EXCEPT !.n = @ - e]>> \o Tail(rest)
      BY <2>3 DEF e
    <3>9. (f[m] - f[last]) - e = f[m] - n
      BY <1>4, <1>8, <3>1
    <3> HIDE DEF d
    <3> QED
      BY <1>9, <3>7, <3>8, <3>9
  <2> QED
    BY <2>1, <2>2, <2>3
<1>11. DropSamples(q, n) = IF q = <<>> THEN q ELSE d
  BY DEF DropSamples, Whole, last, rest
<1>12. q = <<>> => BufferedSamples(q) = 0
  BY <1>3, <1>4
<1> HIDE DEF d
<1> QED
  BY <1>4, <1>10, <1>11, <1>12

LEMMA EnqueueCapped ==
  ASSUME NEW q \in Seq(Pieces), NEW b \in Pieces
  PROVE  Enqueue(q, b) \in Seq(Pieces) /\ BufferedSamples(Enqueue(q, b)) <= Cap
<1> DEFINE all == Append(q, b)
           m == Len(all)
           k == CHOOSE k \in Overflowing(all) : \A j \in Overflowing(all) : k <= j
<1>1. all \in Seq(Pieces) /\ m \in Nat
  OBVIOUS
<1> HIDE DEF all
<1>2. PICK f \in Sums(all) : TRUE
  BY <1>1, SumsExist
<1>3. f \in [0 .. m -> Int]
  BY DEF Sums
<1>4. \A i \in 0 .. m : /\ SubSeq(all, i + 1, m) \in Seq(Pieces)
                        /\ BufferedSamples(SubSeq(all, i + 1, m)) = f[m] - f[i]
  BY <1>1, SumOfRest
<1>5. Overflowing(all) \in SUBSET Nat /\ Overflowing(all) # {}
  <2>1. Overflowing(all) = {i \in 0 .. m : BufferedSamples(SubSeq(all, i + 1, m)) <= Cap}
    BY DEF Overflowing
  <2>2. m \in Overflowing(all)
    <3>1. m \in 0 .. m
      BY <1>1
    <3>2. f[m] - f[m] = 0 /\ 0 <= Cap
      BY <1>3, <3>1, LimitsAssumption
    <3> QED
      BY <1>4, <2>1, <3>1, <3>2
  <2> QED
    BY <2>1, <2>2
<1>6. k \in Overflowing(all)
  <2>1. \E i \in Overflowing(all) : \A j \in Overflowing(all) : i <= j
    BY <1>5, LeastNumber
  <2> QED
    BY <2>1
<1> HIDE DEF k
<1>7. k \in 0 .. m /\ BufferedSamples(SubSeq(all, k + 1, m)) <= Cap
  BY <1>6 DEF Overflowing
<1>8. Enqueue(q, b) = SubSeq(all, k + 1, m)
  BY DEF Enqueue, all, k
<1> QED
  BY <1>4, <1>7, <1>8

\* However much is queued, what is kept fits under the high-water mark.
LEMMA TrimmedBelow ==
  ASSUME NEW q \in Seq(Pieces)
  PROVE  TrimToTarget(q) \in Seq(Pieces) /\ BufferedSamples(TrimToTarget(q)) <= HighWater
<1>1. Target \in Nat /\ HighWater \in Nat /\ Target <= HighWater
  BY LimitsAssumption
<1>2. BufferedSamples(q) \in Int
  <2>1. 0 \in Nat
    OBVIOUS
  <2> QED
    BY <2>1, DropsUnits
<1>3. CASE BufferedSamples(q) <= HighWater
  BY <1>3 DEF TrimToTarget
<1>4. CASE ~(BufferedSamples(q) <= HighWater)
  <2> DEFINE n == BufferedSamples(q) - Target
             d == DropSamples(q, n)
  <2>1. n \in Nat /\ BufferedSamples(q) - n = Target
    BY <1>1, <1>2, <1>4
  <2> HIDE DEF n
  <2>2. d \in Seq(Pieces) /\ (BufferedSamples(d) = 0 \/ BufferedSamples(d) = BufferedSamples(q) - n)
    BY <2>1, DropsUnits
  <2>3. TrimToTarget(q) = d
    BY <1>4 DEF TrimToTarget, n
  <2> HIDE DEF d
  <2> QED
    BY <1>1, <2>1, <2>2, <2>3
<1> QED
  BY <1>3, <1>4

\* What a step on the queues leaves alone.
LEMMA LanesStay ==
  ASSUME SourcesInv, published' = FALSE, gain' \in BOOLEAN, UNCHANGED <<lanes, heard, offered, quietFor>>
  PROVE  LanesType' /\ LanesChain' /\ LanesQuiet' /\ OnlyOverSilence'
<1> USE DEF SourcesInv
<1>1. lanes' = lanes /\ heard' = heard /\ offered' = offered /\ quietFor' = quietFor
  OBVIOUS
<1>2. LanesType'
  BY <1>1 DEF LanesType
<1>3. LanesChain' /\ LanesQuiet'
  BY <1>1 DEF LanesChain, LanesQuiet
<1>4. SameNames
  BY <1>1 DEF SameNames
<1>5. \A x : Over(x)' = Over(x)
  BY <1>4, OverStays
<1>6. OnlyOverSilence'
  BY <1>1, <1>5 DEF OnlyOverSilence
<1> QED
  BY <1>2, <1>3, <1>6

LEMMA QueuesKeep ==
  ASSUME SourcesInv,
         \/ \E s \in Streams, b \in Buffers(Deliveries) : QueuePluginSamples(s, b)
         \/ \E s \in Streams : StopPluginStream(s)
         \/ \E n \in Utterances : QueueSpeechSamples(n)
         \/ SetVolumes
  PROVE  SourcesInv'
<1> USE DEF SourcesInv
<1>1. HighWater \in Nat /\ Cap \in Nat
  BY LimitsAssumption
<1>2. queue \in [Streams -> Seq(Pieces)] /\ speech \in Seq(Pieces)
      /\ (\A s \in Streams : BufferedSamples(queue[s]) <= HighWater) /\ BufferedSamples(speech) <= Cap
  BY DEF QueuesType, LatencyBounded
<1>3. ASSUME NEW s \in Streams, NEW q \in Seq(Pieces), BufferedSamples(q) <= HighWater,
             queue' = [queue EXCEPT ![s] = q], speech' = speech
      PROVE  QueuesType' /\ LatencyBounded'
  <2>1. queue' \in [Streams -> Seq(Pieces)] /\ \A t \in Streams : queue'[t] = IF t = s THEN q ELSE queue[t]
    BY <1>2, <1>3
  <2>2. QueuesType'
    BY <1>2, <1>3, <2>1 DEF QueuesType
  <2>3. LatencyBounded'
    <3> SUFFICES ASSUME NEW t \in Streams PROVE BufferedSamples(queue'[t]) <= HighWater
      BY <1>2, <1>3 DEF LatencyBounded
    <3> QED
      BY <1>2, <1>3, <2>1
  <2> QED
    BY <2>2, <2>3
<1>4. ASSUME NEW s \in Streams, NEW b \in Buffers(Deliveries), QueuePluginSamples(s, b)
      PROVE  SourcesInv'
  <2> DEFINE q == TrimToTarget(Enqueue(queue[s], b))
  <2>1. b \in Pieces
    <3>1. Deliveries \subseteq Nat
      BY LimitsAssumption
    <3> QED
      BY <3>1 DEF Buffers, Pieces
  <2>2. Enqueue(queue[s], b) \in Seq(Pieces)
    BY <1>2, <2>1, EnqueueCapped
  <2>3. q \in Seq(Pieces) /\ BufferedSamples(q) <= HighWater
    BY <2>2, TrimmedBelow
  <2>4. queue' = [queue EXCEPT ![s] = q]
        /\ speech' = speech /\ published' = FALSE /\ gain' = gain /\ UNCHANGED <<lanes, heard, offered, quietFor>>
    BY <1>4 DEF QueuePluginSamples
  <2> HIDE DEF q
  <2>5. QueuesType' /\ LatencyBounded'
    BY <1>3, <2>3, <2>4
  <2>6. gain' \in BOOLEAN
    BY <2>4 DEF LanesType
  <2> QED
    BY <2>4, <2>5, <2>6, LanesStay
<1>5. ASSUME NEW s \in Streams, StopPluginStream(s)
      PROVE  SourcesInv'
  <2>1. <<>> \in Seq(Pieces) /\ BufferedSamples(<<>>) <= HighWater
    <3>1. <<>> \in Seq(Pieces) /\ Len(<<>>) = 0
      OBVIOUS
    <3>2. PICK f \in Sums(<<>>) : TRUE
      BY <3>1, SumsExist
    <3>3. BufferedSamples(<<>>) = f[Len(<<>>)]
      BY <3>1, SumIs
    <3>4. f[0] = 0
      BY DEF Sums
    <3> QED
      BY <1>1, <3>1, <3>3, <3>4
  <2>2. queue' = [queue EXCEPT ![s] = <<>>]
        /\ speech' = speech /\ published' = FALSE /\ gain' = gain /\ UNCHANGED <<lanes, heard, offered, quietFor>>
    BY <1>5 DEF StopPluginStream
  <2>3. QueuesType' /\ LatencyBounded'
    BY <1>3, <2>1, <2>2
  <2>4. gain' \in BOOLEAN
    BY <2>2 DEF LanesType
  <2> QED
    BY <2>2, <2>3, <2>4, LanesStay
<1>6. ASSUME NEW n \in Utterances, QueueSpeechSamples(n)
      PROVE  SourcesInv'
  <2> DEFINE b == [n |-> n, loud |-> TRUE]
             q == Enqueue(speech, b)
  <2>1. b \in Pieces
    <3>1. n \in Nat
      BY LimitsAssumption
    <3> QED
      BY <3>1 DEF Pieces
  <2> HIDE DEF b
  <2>2. q \in Seq(Pieces) /\ BufferedSamples(q) <= Cap
    BY <1>2, <2>1, EnqueueCapped
  <2>3. speech' = q
        /\ queue' = queue /\ published' = FALSE /\ gain' = gain /\ UNCHANGED <<lanes, heard, offered, quietFor>>
    BY <1>6 DEF QueueSpeechSamples, b
  <2> HIDE DEF q
  <2>4. QueuesType' /\ LatencyBounded'
    BY <1>2, <2>2, <2>3 DEF QueuesType, LatencyBounded
  <2>5. gain' \in BOOLEAN
    BY <2>3 DEF LanesType
  <2> QED
    BY <2>3, <2>4, <2>5, LanesStay
<1>7. ASSUME SetVolumes PROVE SourcesInv'
  <2>1. /\ queue' = queue /\ speech' = speech /\ published' = FALSE /\ gain' = ~gain
        /\ UNCHANGED <<lanes, heard, offered, quietFor>>
    BY <1>7 DEF SetVolumes
  <2>2. gain' \in BOOLEAN
    BY <2>1
  <2>3. QueuesType' /\ LatencyBounded'
    BY <1>2, <2>1 DEF QueuesType, LatencyBounded
  <2> QED
    BY <2>1, <2>2, <2>3, LanesStay
<1> QED
  BY <1>4, <1>5, <1>6, <1>7

-----------------------------------------------------------------------------
(* The device. *)

\* The loop over the lanes notes exactly the lanes that produce sound, each decided
\* with what the lanes before it in the table have noted.
LEMMA LanesDecided ==
  ASSUME LanesType
  PROVE  /\ Active \subseteq DOMAIN lanes
         /\ \A i \in DOMAIN lanes : i \in Active <=> LaneActive(i \in Playing(Active), lanes[i].id)
<1> DEFINE L == Len(lanes)
           T == SUBSET Nat
           Sounds(k, before) == LaneActive(ShouldPlay(k, before), lanes[k].id)
           Note(before, k) == IF Sounds(k, before) THEN before \cup {k} ELSE before
           Eq(f) == f = [k \in 0 .. L |-> IF k = 0 THEN {} ELSE Note(f[k - 1], k)]
           noted == CHOOSE f : Eq(f)
           g == [y \in Nat \X T |-> Note(y[2], y[1] + 1)]
<1>1. L \in Nat /\ DOMAIN lanes = 1 .. L
  BY LanesPlaces
<1>2. Active = noted[L]
  BY DEF Active
<1> HIDE DEF Sounds
<1>3. {} \in T /\ \A before \in T, k \in Nat : Note(before, k) \in T
  OBVIOUS
<1> HIDE DEF T, L
<1>4. \E f : Eq(f)
  <2>1. g \in StepsOn(T)
    <3>1. \A y \in Nat \X T : Note(y[2], y[1] + 1) \in T
      BY <1>3
    <3> HIDE DEF Note
    <3> QED
      BY <3>1 DEF StepsOn
  <2>2. PICK f \in RecursionUpTo(T, {}, g, L) : TRUE
    <3> HIDE DEF g
    <3> QED
      BY <1>1, <1>3, <2>1, RecursionUpToExists
  <2>3. f \in [0 .. L -> T] /\ \A k \in 0 .. L : f[k] = IF k = 0 THEN {} ELSE g[<<k - 1, f[k - 1]>>]
    <3> HIDE DEF g
    <3> QED
      BY <2>2 DEF RecursionUpTo
  <2>4. ASSUME NEW k \in 0 .. L, k # 0 PROVE g[<<k - 1, f[k - 1]>>] = Note(f[k - 1], k)
    <3>1. k - 1 \in Nat /\ f[k - 1] \in T /\ (k - 1) + 1 = k
      BY <1>1, <2>3, <2>4
    <3> HIDE DEF Note
    <3> QED
      BY <3>1
  <2>5. Eq(f)
    <3> HIDE DEF g, Note
    <3> QED
      BY <2>3, <2>4
  <2> QED
    BY <2>5
<1>5. Eq(noted)
  BY <1>4
<1> HIDE DEF noted
<1>6. noted[0] = {} /\ \A k \in 1 .. L : noted[k] = Note(noted[k - 1], k)
  <2>1. \A k \in 0 .. L : noted[k] = IF k = 0 THEN {} ELSE Note(noted[k - 1], k)
    BY <1>5
  <2> HIDE DEF Note
  <2>2. 0 \in 0 .. L /\ \A k \in 1 .. L : k \in 0 .. L /\ k # 0
    BY <1>1
  <2> QED
    BY <2>1, <2>2
\* What is noted up to a lane is the part of the result that lies there.
<1> DEFINE Good == {m \in Nat : m <= L =>
                      noted[m] \subseteq 1 .. m /\ \A e \in 0 .. m : noted[e] = {j \in noted[m] : j <= e}}
<1>7. 0 \in Good
  BY <1>6
<1>8. ASSUME NEW m \in Nat, m \in Good PROVE m + 1 \in Good
  <2> SUFFICES ASSUME m + 1 <= L
               PROVE  /\ noted[m + 1] \subseteq 1 .. m + 1
                      /\ \A e \in 0 .. m + 1 : noted[e] = {j \in noted[m + 1] : j <= e}
    OBVIOUS
  <2>1. m + 1 \in 1 .. L /\ (m + 1) - 1 = m /\ m <= L
    BY <1>1
  <2>2. noted[m] \subseteq 1 .. m /\ \A e \in 0 .. m : noted[e] = {j \in noted[m] : j <= e}
    BY <1>8, <2>1
  <2>3. noted[m + 1] = noted[m] \/ noted[m + 1] = noted[m] \cup {m + 1}
    BY <1>6, <2>1
  <2>4. noted[m + 1] \subseteq 1 .. m + 1
    BY <2>2, <2>3
  <2>5. ASSUME NEW e \in 0 .. m + 1 PROVE noted[e] = {j \in noted[m + 1] : j <= e}
    <3>1. CASE e = m + 1
      BY <2>4, <3>1
    <3>2. CASE e \in 0 .. m
      <4>1. \A j : j \in noted[m + 1] /\ j <= e <=> j \in noted[m] /\ j <= e
        BY <2>3, <3>2
      <4> QED
        BY <2>2, <3>2, <4>1
    <3> QED
      BY <3>1, <3>2
  <2> QED
    BY <2>4, <2>5
<1>9. Nat \subseteq Good
  <2> HIDE DEF Good
  <2> QED
    BY <1>7, <1>8, Induction
<1>10. Active \subseteq 1 .. L /\ \A e \in 0 .. L : noted[e] = {j \in Active : j <= e}
  BY <1>1, <1>2, <1>9
<1>11. ASSUME NEW i \in 1 .. L PROVE i \in Active <=> LaneActive(i \in Playing(Active), lanes[i].id)
  <2>1. i \in 0 .. L /\ i - 1 \in 0 .. L /\ i <= i /\ ~ (i <= i - 1)
    BY <1>1
  <2>2. noted[i] = {j \in Active : j <= i} /\ noted[i - 1] = {j \in Active : j <= i - 1}
    BY <1>10, <2>1
  <2>3. noted[i] = Note(noted[i - 1], i)
    BY <1>6
  <2>4. i \in Active <=> Sounds(i, noted[i - 1])
    BY <2>1, <2>2, <2>3
  <2>5. noted[i - 1] = {j \in Active : j < i}
    <3>1. \A j \in Active : j \in Nat /\ (j <= i - 1 <=> j < i)
      BY <1>1, <1>10
    <3> QED
      BY <2>2, <3>1
  <2>6. i \in Playing(Active) <=> ShouldPlay(i, noted[i - 1])
    BY <1>1, <2>5 DEF Playing
  <2> QED
    BY <2>4, <2>6 DEF Sounds, LaneActive
<1> QED
  BY <1>1, <1>10, <1>11

LEMMA DeviceDecides == ASSUME SourcesInv, OnDeviceNeedsAudio PROVE SourcesInv'
<1> USE DEF SourcesInv
<1> DEFINE Ids(places) == {lanes[i].id : i \in places}
           unknown == {x \in Unpublished : LaneActive(TRUE, x)}
<1>1. /\ gain' = gain /\ published' = FALSE
      /\ speech' = DropSamples(speech, 1) /\ queue' = [s \in Streams |-> DropSamples(queue[s], 1)]
      /\ offered' = {x \in Sources : LaneActive(TRUE, x)}
  BY DEF OnDeviceNeedsAudio
<1>2. PICK active \in {Active} :
        /\ heard' = Ids(active \cap Playing(active)) \cup unknown
        /\ lanes' = [i \in DOMAIN lanes |-> IF i \in active THEN [lanes[i] EXCEPT !.quiet = 0] ELSE lanes[i]]
        /\ quietFor' = [x \in Sources |-> IF x \in Ids(active) \cup unknown THEN 0 ELSE quietFor[x]]
  BY DEF OnDeviceNeedsAudio
<1>3. /\ active \subseteq DOMAIN lanes
      /\ \A i \in active : i \in DOMAIN lanes /\ LaneActive(i \in Playing(active), lanes[i].id)
  BY LanesDecided
<1>4. /\ Len(lanes) \in Nat /\ DOMAIN lanes = 1 .. Len(lanes) /\ Hold \in Nat
      /\ \A i \in DOMAIN lanes : lanes[i] \in Lanes /\ lanes[i].id \in Sources /\ lanes[i].quiet \in 0 .. Hold
      /\ \A x \in Sources : quietFor[x] \in 0 .. Hold
  <2>1. Len(lanes) \in Nat /\ DOMAIN lanes = 1 .. Len(lanes) /\ \A i \in DOMAIN lanes : lanes[i] \in Lanes
    BY LanesPlaces
  <2> QED
    BY <2>1, LimitsAssumption DEF Lanes, LanesType
<1> DEFINE quiet == [i \in DOMAIN lanes |-> IF i \in active THEN 0 ELSE lanes[i].quiet]
<1>5. /\ \A i \in DOMAIN lanes : quiet[i] \in 0 .. Hold
      /\ \A i \in DOMAIN lanes : quiet[i] = IF i \in active THEN 0 ELSE lanes[i].quiet
  BY <1>4
<1>6. lanes' = [i \in DOMAIN lanes |-> [lanes[i] EXCEPT !.quiet = quiet[i]]]
  <2>1. \A i \in DOMAIN lanes : [lanes[i] EXCEPT !.quiet = lanes[i].quiet] = lanes[i]
    BY <1>4 DEF Lanes
  <2>2. \A i \in DOMAIN lanes :
          (IF i \in active THEN [lanes[i] EXCEPT !.quiet = 0] ELSE lanes[i]) = [lanes[i] EXCEPT !.quiet = quiet[i]]
    BY <2>1
  <2> QED
    BY <1>2, <2>2
<1> HIDE DEF quiet
<1>7. /\ lanes' \in Seq(Lanes) /\ SameNames /\ LanesChain'
      /\ \A i \in DOMAIN lanes : lanes'[i].depth = lanes[i].depth /\ lanes'[i].quiet = quiet[i]
  BY <1>5, <1>6, LanesAge
<1>8. \A x \in unknown : x \in Sources /\ x \in offered' /\ \A i \in DOMAIN lanes : lanes[i].id # x
  BY <1>1, <1>4, FindsFirst DEF Unpublished
<1> HIDE DEF unknown
<1>9. heard' \subseteq offered'
  <2>1. ASSUME NEW i \in active \cap Playing(active) PROVE lanes[i].id \in offered'
    <3>1. i \in DOMAIN lanes /\ LaneActive(TRUE, lanes[i].id)
      BY <1>3, <2>1 DEF LaneActive
    <3> QED
      BY <1>1, <1>4, <3>1
  <2> QED
    BY <1>2, <1>8, <2>1
<1>10. /\ quietFor' \in [Sources -> 0 .. Hold]
       /\ \A x \in Sources : quietFor'[x] = IF x \in Ids(active) \cup unknown THEN 0 ELSE quietFor[x]
  BY <1>2, <1>4
<1>11. LanesType'
  <2>1. \A i \in DOMAIN lanes' : lanes'[i].depth \in 0 .. Len(lanes') + 1
    BY <1>7 DEF SameNames, LanesType
  <2>2. offered' \subseteq Sources
    BY <1>1
  <2> QED
    BY <1>1, <1>7, <1>9, <1>10, <2>1, <2>2 DEF LanesType
\* A lane that is not active keeps its silence.
<1>12. ASSUME NEW k \in DOMAIN lanes, k \notin active PROVE quietFor'[lanes[k].id] = quietFor[lanes[k].id]
  <2>1. \A j \in active : lanes[j].id # lanes[k].id
    BY <1>3, <1>12 DEF LanesChain
  <2>2. lanes[k].id \notin Ids(active) /\ lanes[k].id \notin unknown
    BY <1>8, <2>1
  <2> QED
    BY <1>4, <1>10, <2>2
<1>13. LanesQuiet'
  <2> SUFFICES ASSUME NEW i \in DOMAIN lanes PROVE lanes'[i].quiet <= quietFor'[lanes'[i].id]
    BY <1>7 DEF LanesQuiet, SameNames
  <2>1. lanes'[i].id = lanes[i].id /\ lanes'[i].quiet = quiet[i]
    BY <1>7 DEF SameNames
  <2>2. CASE i \in active
    <3>1. lanes'[i].quiet = 0 /\ quietFor'[lanes[i].id] \in 0 .. Hold
      BY <1>4, <1>5, <1>10, <2>1, <2>2
    <3> QED
      BY <2>1, <3>1
  <2>3. CASE i \notin active
    BY <1>5, <1>12, <2>1, <2>3 DEF LanesQuiet
  <2> QED
    BY <2>2, <2>3
<1>14. OnlyOverSilence'
  <2> SUFFICES ASSUME NEW x \in heard', NEW y \in Over(x)'
               PROVE  Mode = "Fallback" /\ quietFor'[y] >= Hold
    BY DEF OnlyOverSilence
  <2>1. Over(x)' = Over(x)
    BY <1>7, OverStays
  <2>2. Over(x) = {lanes[i].id : i \in {i \in DOMAIN lanes : Overrides(i, x)}}
    BY DEF Over
  <2> HIDE DEF Over
  <2>3. \A k \in DOMAIN lanes : Overrides(k, x) => \E i \in DOMAIN lanes : lanes[i].id = x
    <3> SUFFICES ASSUME NEW k \in DOMAIN lanes, Overrides(k, x) PROVE \E i \in DOMAIN lanes : lanes[i].id = x
      OBVIOUS
    <3>1. PICK n \in 1 .. Len(lanes) : \E path \in [0 .. n -> DOMAIN lanes] : lanes[path[n]].id = x
      BY DEF Overrides
    <3>2. n \in 0 .. n
      OBVIOUS
    <3> QED
      BY <3>1, <3>2
  <2>4. x \notin unknown
    BY <1>8, <2>1, <2>2, <2>3
  <2>5. PICK i \in active \cap Playing(active) : x = lanes[i].id
    BY <1>2, <2>4
  <2>6. i \in DOMAIN lanes /\ ShouldPlay(i, {j \in active : j < i})
    BY DEF Playing
  <2>7. ASSUME NEW k \in DOMAIN lanes, Overrides(k, x)
        PROVE  Mode = "Fallback" /\ lanes[k].quiet >= Hold /\ k \notin active
    <3>1. k < i /\ lanes[i].overridden /\ k \in LanesAbove(i)
      BY <2>5, <2>6, <2>7, OverIsAbove
    <3> QED
      BY <2>6, <3>1 DEF ShouldPlay
  <2>8. ASSUME NEW k \in DOMAIN lanes, Overrides(k, x)
        PROVE  Mode = "Fallback" /\ quietFor'[lanes[k].id] >= Hold
    <3>1. quietFor'[lanes[k].id] = quietFor[lanes[k].id] /\ lanes[k].quiet >= Hold /\ Mode = "Fallback"
      BY <1>12, <2>7, <2>8
    <3>2. lanes[k].quiet <= quietFor[lanes[k].id]
      BY DEF LanesQuiet
    <3>3. lanes[k].quiet \in Int /\ quietFor[lanes[k].id] \in Int /\ Hold \in Int
      BY <1>4
    <3> QED
      BY <3>1, <3>2, <3>3
  <2> QED
    BY <2>1, <2>2, <2>8
<1>15. QueuesType' /\ LatencyBounded'
  <2>1. HighWater \in Nat /\ Cap \in Nat /\ 1 \in Nat
    BY LimitsAssumption
  <2>2. ASSUME NEW q \in Seq(Pieces), NEW limit \in Nat, BufferedSamples(q) <= limit
        PROVE  DropSamples(q, 1) \in Seq(Pieces) /\ BufferedSamples(DropSamples(q, 1)) <= limit
    <3>1. /\ DropSamples(q, 1) \in Seq(Pieces) /\ BufferedSamples(q) \in Int
          /\ BufferedSamples(DropSamples(q, 1)) = 0 \/ BufferedSamples(DropSamples(q, 1)) = BufferedSamples(q) - 1
      BY <2>1, DropsUnits
    <3> QED
      BY <2>2, <3>1
  <2>3. ASSUME NEW s \in Streams PROVE queue'[s] \in Seq(Pieces) /\ BufferedSamples(queue'[s]) <= HighWater
    <3>1. queue[s] \in Seq(Pieces) /\ BufferedSamples(queue[s]) <= HighWater /\ queue'[s] = DropSamples(queue[s], 1)
      BY <1>1 DEF QueuesType, LatencyBounded
    <3> QED
      BY <2>1, <2>2, <3>1
  <2>4. speech' \in Seq(Pieces) /\ BufferedSamples(speech') <= Cap
    BY <1>1, <2>1, <2>2 DEF QueuesType, LatencyBounded
  <2>5. DOMAIN queue' = Streams /\ queue' = [s \in Streams |-> queue'[s]]
    BY <1>1
  <2>6. queue' \in [Streams -> Seq(Pieces)]
    BY <2>3, <2>5
  <2> QED
    BY <2>3, <2>4, <2>6 DEF QueuesType, LatencyBounded
<1> QED
  BY <1>7, <1>11, <1>13, <1>14, <1>15

-----------------------------------------------------------------------------
(* The specification. *)

LEMMA SourcesStart == Init => SourcesInv
<1> SUFFICES ASSUME Init PROVE SourcesInv
  OBVIOUS
<1>1. /\ lanes = <<>> /\ queue = [s \in Streams |-> <<>>] /\ speech = <<>> /\ gain = TRUE
      /\ heard = {} /\ offered = {} /\ published = FALSE /\ quietFor = [x \in Sources |-> Hold]
  BY DEF Init
<1>2. Hold \in Nat /\ HighWater \in Nat /\ Cap \in Nat
  BY LimitsAssumption
<1>3. LanesType
  <2>1. lanes \in Seq(Lanes) /\ DOMAIN lanes = {}
    BY <1>1
  <2>2. quietFor \in [Sources -> 0 .. Hold]
    BY <1>1, <1>2
  <2> QED
    BY <1>1, <2>1, <2>2 DEF LanesType
<1>4. LanesChain /\ LanesQuiet
  BY <1>1 DEF LanesChain, LanesQuiet
<1>5. OnlyOverSilence
  BY <1>1 DEF OnlyOverSilence
<1>6. QueuesType
  BY <1>1 DEF QueuesType
<1>7. LatencyBounded
  <2>1. <<>> \in Seq(Pieces) /\ Len(<<>>) = 0
    OBVIOUS
  <2>2. PICK f \in Sums(<<>>) : TRUE
    BY <2>1, SumsExist
  <2>3. BufferedSamples(<<>>) = 0
    <3>1. BufferedSamples(<<>>) = f[Len(<<>>)]
      BY <2>1, SumIs
    <3>2. f[0] = 0
      BY DEF Sums
    <3> QED
      BY <2>1, <3>1, <3>2
  <2>4. \A s \in Streams : queue[s] = <<>>
    BY <1>1
  <2> QED
    BY <1>1, <1>2, <2>3, <2>4 DEF LatencyBounded
<1> QED
  BY <1>3, <1>4, <1>5, <1>6, <1>7 DEF SourcesInv

LEMMA SourcesStep == ASSUME ChainsOnly PROVE SourcesInv /\ (Next \/ UNCHANGED vars) => SourcesInv'
<1> SUFFICES ASSUME SourcesInv, Next \/ UNCHANGED vars PROVE SourcesInv'
  OBVIOUS
<1>1. CASE UNCHANGED vars
  <2>1. /\ lanes' = lanes /\ queue' = queue /\ speech' = speech /\ gain' = gain
        /\ heard' = heard /\ offered' = offered /\ published' = published /\ quietFor' = quietFor
    BY <1>1 DEF vars
  <2>2. LanesType' /\ LanesChain' /\ LanesQuiet' /\ QueuesType' /\ LatencyBounded'
    BY <2>1 DEF SourcesInv, LanesType, LanesChain, LanesQuiet, QueuesType, LatencyBounded
  <2>3. \A x : Over(x)' = Over(x)
    BY <2>1, OverStays DEF SameNames
  <2>4. OnlyOverSilence'
    BY <2>1, <2>3 DEF SourcesInv, OnlyOverSilence
  <2> QED
    BY <2>2, <2>4 DEF SourcesInv
<1>2. CASE Next
  BY <1>2, QueuesKeep, SourcesKeep, DeviceDecides, TimeKeeps DEF Next
<1> QED
  BY <1>1, <1>2

\* When what is published forms chains, an overridden source is heard only in the
\* Fallback mode and only after everything above it has been silent for the hold,
\* whatever the order of deliveries, callbacks and new lists of sources; and no
\* queue grows past its mark (AudioLanes::ShouldPlay, AudioMixer::Enqueue and
\* QueueSamplesLocked).
THEOREM SourcesStayInOrder == ASSUME ChainsOnly PROVE SoundSpec => []SourcesInOrder
<1> DEFINE Inv == part = "sources" => SourcesInv
<1>1. SoundInit => Inv
  BY SourcesStart DEF SoundInit
<1>2. Inv /\ [SoundNext]_<<part, vars, songVars>> => Inv'
  BY SourcesStep DEF SoundNext
<1>3. Inv => SourcesInOrder
  <2>1. ASSUME SourcesInv PROVE TypeOK
    <3>1. \A i \in DOMAIN lanes : lanes[i].id \in Sources /\ lanes[i].quiet \in 0 .. Hold
      BY <2>1, LanesPlaces DEF SourcesInv, Lanes
    <3> QED
      BY <2>1, <3>1 DEF SourcesInv, LanesType, TypeOK
  <2> QED
    BY <2>1 DEF SourcesInOrder, SourcesInv
<1> QED
  BY <1>1, <1>2, <1>3, PTL DEF SoundSpec
=============================================================================
