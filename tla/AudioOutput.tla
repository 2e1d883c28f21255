----------------------------- MODULE AudioOutput -----------------------------
(***************************************************************************)
(* Who is heard (src/src/AudioOutput.cpp, AudioLanes.cpp, AudioMixer.cpp). *)
(*                                                                         *)
(* Producers (the ROM, AltSound, PuP, the speech worker) queue audio, the  *)
(* main thread publishes which source overrides which, and the device's    *)
(* callback consumes one unit of every queue and decides what of it        *)
(* reaches the speakers.  One mutex makes each of these atomic; what is    *)
(* left to chance is their order.                                          *)
(*                                                                         *)
(* A buffer is the number of units that are left of it and whether they    *)
(* are loud enough to count as audible; a unit is what one callback takes. *)
(* The clock appears only as the time since a lane was last audible, up to *)
(* Hold.  The music is in SongPicker; the cross-fade where a trim cuts     *)
(* and the volumes' numbers are left out.                                  *)
(***************************************************************************)
EXTENDS Integers, Sequences, FiniteSets, SequencesExt, TLC

CONSTANTS
  SourceOf,     \* the streams, each with the source it belongs to
  Topologies,   \* what may be published: sequences of [id, overrideId]
  Bottom,       \* the source that others override, in the properties
  NoSource,     \* an overrideId of 0
  Mode,         \* "Replace" or "Fallback"
  Hold,         \* kFallbackHoldMs
  Target,       \* kTargetBufferedMs
  HighWater,    \* kHighWaterBufferedMs
  Cap,          \* kMaxBufferedSamples
  Deliveries,   \* the lengths of the buffers that are delivered
  Utterances    \* the lengths of what the speech worker delivers

Streams == DOMAIN SourceOf
Sources == {SourceOf[s] : s \in Streams}
Buffers(lengths) == [n : lengths, loud : BOOLEAN]

ASSUME LimitsAssumption ==
  /\ Hold \in Nat /\ Target \in Nat \ {0} /\ HighWater \in Nat /\ Cap \in Nat
  /\ Target <= HighWater /\ HighWater <= Cap
  /\ Deliveries \subseteq 1..Cap /\ Utterances \subseteq Nat \ {0}
  /\ NoSource \notin Sources
  /\ Topologies \subseteq Seq([id : Sources, overrideId : Sources \cup {NoSource}])

VARIABLES
  lanes,        \* lanes_, in the order in which they are decided
  queue,        \* pluginStreams_: the queue of each stream
  speech,       \* speechQueue_
  gain,         \* is the gain of the game's sound above zero
  heard,        \* ghost: the sources that were audible in the last callback
  offered,      \* ghost: those that had something audible to say in it
  published,    \* ghost: a new list of sources was the last step
  quietFor      \* ghost: how long each source has in fact been silent

vars == <<lanes, queue, speech, gain, heard, offered, published, quietFor>>

Init ==
  /\ lanes = <<>>
  /\ queue = [s \in Streams |-> <<>>]
  /\ speech = <<>>
  /\ gain = TRUE
  /\ heard = {} /\ offered = {} /\ published = FALSE
  /\ quietFor = [x \in Sources |-> Hold]

-----------------------------------------------------------------------------
(* AudioMixer: the queues. *)

BufferedSamples(q) ==
  LET sum[k \in 0..Len(q)] == IF k = 0 THEN 0 ELSE sum[k - 1] + q[k].n
  IN  sum[Len(q)]

\* Whole buffers go, the new one too when it is longer than the cap.
Overflowing(q) == {k \in 0..Len(q) : BufferedSamples(SubSeq(q, k + 1, Len(q))) <= Cap}
Enqueue(q, b) ==
  LET all == Append(q, b)
      k == CHOOSE k \in Overflowing(all) : \A j \in Overflowing(all) : k <= j
  IN  SubSeq(all, k + 1, Len(all))

\* Drops units from the front, splitting a buffer if it has to.
DropSamples(q, n) ==
  IF q = <<>> THEN q ELSE
  LET Whole(k) == BufferedSamples(SubSeq(q, 1, k))
      k == CHOOSE k \in 0..Len(q) :
             Whole(k) <= n /\ (k = Len(q) \/ n < Whole(k + 1))
      rest == SubSeq(q, k + 1, Len(q))
  IN  IF rest = <<>> \/ n = Whole(k) THEN rest
      ELSE <<[Head(rest) EXCEPT !.n = @ - (n - Whole(k))]>> \o Tail(rest)

TrimToTarget(q) ==
  IF BufferedSamples(q) <= HighWater THEN q
  ELSE DropSamples(q, BufferedSamples(q) - Target)

LoudAhead(q) == q # <<>> /\ Head(q).loud

-----------------------------------------------------------------------------
(* AudioLanes: the decision. *)

Find(table, x) == SelectInSeq(table, LAMBDA lane : lane.id = x)

\* The map from a source to its overrider; the last declaration counts.
OverriderOf(sources, x) ==
  LET by == {i \in DOMAIN sources :
               /\ sources[i].overrideId = x
               /\ sources[i].id # x}
  IN  IF by = {} \/ x = NoSource THEN NoSource
      ELSE sources[CHOOSE i \in by : \A j \in by : j <= i].id

\* How often the walk finds another overrider; a cycle is broken by the length of
\* the list.
ChainDepth(sources, x) ==
  LET up[d \in 0..Len(sources) + 1] ==
        IF d = 0 THEN x ELSE OverriderOf(sources, up[d - 1])
      ends == {d \in 0..Len(sources) : up[d + 1] = NoSource}
  IN  IF ends = {} THEN Len(sources) + 1 ELSE CHOOSE d \in ends : \A e \in ends : d <= e

\* A lane that was known keeps its history; a new one starts as if it had
\* just been audible.
LaneOf(sources, i) ==
  LET x == sources[i].id
      old == Find(lanes, x)
  IN  [id |-> x,
       overrideId |-> sources[i].overrideId,
       overridden |-> OverriderOf(sources, x) # NoSource,
       depth |-> ChainDepth(sources, x),
       quiet |-> IF old = 0 THEN 0 ELSE lanes[old].quiet]

\* The lanes in the order in which they were published.
ByDepth_published(table) == {table}

\* What std::stable_sort by depth makes of the lanes: the order is total, so it is one.
Before(table, i, j) ==
  table[i].depth < table[j].depth \/ (table[i].depth = table[j].depth /\ i < j)
ByDepth(table) ==
  {[k \in DOMAIN table |-> table[list[k]]] : list \in
     {l \in [DOMAIN table -> DOMAIN table] : \A i, j \in DOMAIN table : i < j => Before(table, l[i], l[j])}}

\* FindOverriderOf: the first lane, in that order, that names this source.
FindOverriderOf(x) == SelectInSeq(lanes, LAMBDA lane : lane.overrideId = x)

\* The lanes above lane i, as far as the walk of the fallback gets.
LanesAbove(i) ==
  LET up[d \in 0..Len(lanes)] ==
        IF d = 0 THEN i
        ELSE IF up[d - 1] = 0 THEN 0
        ELSE FindOverriderOf(lanes[up[d - 1]].id)
  IN  {up[d] : d \in 1..Len(lanes)} \ {0}

\* `noted` are the lanes before it that were audible in this callback.
ShouldPlay(i, noted) ==
  \/ ~lanes[i].overridden
  \/ Mode = "Fallback" /\ \A j \in LanesAbove(i) : lanes[j].quiet >= Hold /\ j \notin noted

-----------------------------------------------------------------------------
(* The producers and the main thread. *)

\* QueueSamplesLocked with latencyManaged.
QueuePluginSamples(s, b) ==
  /\ queue' = [queue EXCEPT ![s] = TrimToTarget(Enqueue(@, b))]
  /\ published' = FALSE
  /\ UNCHANGED <<lanes, speech, gain, heard, offered, quietFor>>

StopPluginStream(s) ==
  /\ queue[s] # <<>>
  /\ queue' = [queue EXCEPT ![s] = <<>>]
  /\ published' = FALSE
  /\ UNCHANGED <<lanes, speech, gain, heard, offered, quietFor>>

\* Speech is not trimmed: only the cap of Enqueue applies to it.
QueueSpeechSamples(n) ==
  /\ speech' = Enqueue(speech, [n |-> n, loud |-> TRUE])
  /\ published' = FALSE
  /\ UNCHANGED <<lanes, queue, gain, heard, offered, quietFor>>

SetAudioSources(sources) ==
  /\ lanes' \in ByDepth([i \in DOMAIN sources |-> LaneOf(sources, i)])
  /\ quietFor' = [x \in Sources |->
       IF (\E i \in DOMAIN sources : sources[i].id = x) /\ Find(lanes, x) = 0
       THEN 0 ELSE quietFor[x]]
  /\ heard' = {} /\ offered' = {} /\ published' = TRUE
  /\ UNCHANGED <<queue, speech, gain>>

SetVolumes ==
  /\ gain' = ~gain
  /\ published' = FALSE
  /\ UNCHANGED <<lanes, queue, speech, heard, offered, quietFor>>

-----------------------------------------------------------------------------
(* The device. *)

StreamsOf(x) == {s \in Streams : SourceOf[s] = x}

\* What mixing a lane, or discarding it, reports: a gain of zero makes Mix
\* report silence, whereas Discard looks at the samples themselves.
LaneActive(play, x) == (play => gain) /\ \E s \in StreamsOf(x) : LoudAhead(queue[s])

\* One lane after the other in their order; NoteMixed tells the later ones.
Active ==
  LET noted[k \in 0..Len(lanes)] ==
        IF k = 0 THEN {}
        ELSE LET before == noted[k - 1]
             IN  IF LaneActive(ShouldPlay(k, before), lanes[k].id) THEN before \cup {k} ELSE before
  IN  noted[Len(lanes)]
Playing(active) == {i \in DOMAIN lanes : ShouldPlay(i, {j \in active : j < i})}

\* Streams whose source has not been published play.
Unpublished == {x \in Sources : Find(lanes, x) = 0}

OnDeviceNeedsAudio ==
  /\ UNCHANGED gain
  /\ published' = FALSE
  /\ speech' = DropSamples(speech, 1)
  /\ queue' = [s \in Streams |-> DropSamples(queue[s], 1)]
  /\ offered' = {x \in Sources : LaneActive(TRUE, x)}
  /\ \E active \in {Active} :
     LET unknown == {x \in Unpublished : LaneActive(TRUE, x)}
         Ids(S) == {lanes[i].id : i \in S}
     IN  /\ heard' = Ids(active \cap Playing(active)) \cup unknown
         /\ lanes' = [i \in DOMAIN lanes |->
                        IF i \in active THEN [lanes[i] EXCEPT !.quiet = 0] ELSE lanes[i]]
         /\ quietFor' = [x \in Sources |->
              IF x \in Ids(active) \cup unknown THEN 0 ELSE quietFor[x]]

\* A clock that stops short of the hold.
Tick_short ==
  /\ UNCHANGED <<queue, speech, gain, heard, offered>>
  /\ published' = FALSE
  /\ lanes' = [i \in DOMAIN lanes |->
       [lanes[i] EXCEPT !.quiet = IF @ < Hold - 1 THEN @ + 1 ELSE @]]
  /\ quietFor' = [x \in Sources |->
       IF quietFor[x] < Hold THEN quietFor[x] + 1 ELSE quietFor[x]]

Tick ==
  /\ UNCHANGED <<queue, speech, gain, heard, offered>>
  /\ published' = FALSE
  /\ lanes' = [i \in DOMAIN lanes |-> [lanes[i] EXCEPT !.quiet = IF @ < Hold THEN @ + 1 ELSE @]]
  /\ quietFor' = [x \in Sources |->
       IF quietFor[x] < Hold THEN quietFor[x] + 1 ELSE quietFor[x]]

-----------------------------------------------------------------------------
Next ==
  \/ \E s \in Streams, b \in Buffers(Deliveries) : QueuePluginSamples(s, b)
  \/ \E s \in Streams : StopPluginStream(s)
  \/ \E n \in Utterances : QueueSpeechSamples(n)
  \/ \E sources \in Topologies : SetAudioSources(sources)
  \/ SetVolumes
  \/ OnDeviceNeedsAudio
  \/ Tick

\* The device asks for audio for as long as the program runs, and time passes.
Spec == Init /\ [][Next]_vars /\ WF_vars(OnDeviceNeedsAudio) /\ WF_vars(Tick)

-----------------------------------------------------------------------------
TypeOK ==
  /\ \A i \in DOMAIN lanes :
       /\ lanes[i].id \in Sources
       /\ lanes[i].depth \in 0..Len(lanes) + 1
       /\ lanes[i].quiet \in 0..Hold
  /\ gain \in BOOLEAN
  /\ heard \subseteq offered /\ offered \subseteq Sources
  /\ published \in BOOLEAN
  /\ quietFor \in [Sources -> 0..Hold]

\* What overrides x, directly or not: a path of declarations leads from it to x.
Overrides(i, x) ==
  /\ lanes[i].id # x
  /\ \E n \in 1..Len(lanes) : \E path \in [0..n -> DOMAIN lanes] :
       /\ path[0] = i /\ lanes[path[n]].id = x
       /\ \A k \in 1..n : lanes[path[k - 1]].overrideId = lanes[path[k]].id
Over(x) == {lanes[i].id : i \in {i \in DOMAIN lanes : Overrides(i, x)}}

\* An overridden source is heard only when Fallback is on and everything above
\* it has produced nothing audible for the whole hold, whatever the order of
\* the callbacks, of the deliveries and of new source lists (AudioLanes.h:20-34).
OnlyOverSilence ==
  \A x \in heard : \A y \in Over(x) : Mode = "Fallback" /\ quietFor[y] >= Hold

\* No lane falls further behind than the high-water mark, heard or not, and
\* speech no further than the cap (AudioMixer.h:36-64).
LatencyBounded ==
  /\ \A s \in Streams : BufferedSamples(queue[s]) <= HighWater
  /\ BufferedSamples(speech) <= Cap

\* When everything above a source falls silent for good while the source goes
\* on, it is heard again: a pack without a sample for a command falls back to
\* the ROM (AudioLanes.h:23-26).
NothingFrom(S) == \A s \in Streams : queue[s] # <<>> => SourceOf[s] \notin S
FallsBack ==
  (<>[](~published /\ NothingFrom(Over(Bottom))) /\ []<>(Bottom \in offered))
    => []<>(Bottom \in heard)
=============================================================================
