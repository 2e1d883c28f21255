------------------------------ MODULE MediaHost ------------------------------
(***************************************************************************)
(* What the media plugins are told (src/src/MediaPluginHost.cpp).          *)
(*                                                                         *)
(* Coils come from the engine's thread, triggers from the DMD's thread,    *)
(* switches, lamps and general illumination from the main loop.  They wait *)
(* in a queue under a mutex until the main loop's Process takes the whole  *)
(* queue (Take) and then, the mutex free again, hands its events to the    *)
(* plugins (Dispatch): every event goes out as a broadcast, and lamps,     *)
(* coils and general illumination also go to the B2S server, whose object  *)
(* is made when it is first needed.  A game is announced by publishing a   *)
(* controller and ended by withdrawing it and a broadcast.                 *)
(***************************************************************************)
EXTENDS Integers, Sequences

CONSTANTS
  Hosts,      \* the options: [b2s, provide]
  Kinds,      \* of the coils, switches, lamps, lights and triggers ("S", "W", "L", "G",
              \* "D"), those that are told of
  Ids,        \* their numbers
  Limit,      \* 1024: how many events wait at most
  MaxGames    \* bound: how often the engine identifies a game

VARIABLES
  host,       \* options_
  life,       \* "new", "up" (initialized_) or "down"
  started,    \* gameStarted_
  controller, \* is a controller published
  queue,      \* pendingEvents_
  batch,      \* the events taken from it
  server,     \* b2sServer_
  plugins,    \* what the broadcasts told: by kind and number
  b2s,        \* what the server was told: by number
  half,       \* a trigger of which only the first event is queued
  told,       \* ghost: the last value reported, by kind and number
  dropped,    \* ghost: those whose last value found the queue full
  games, ends \* ghost: announced games, announced ends

vars == <<host, life, started, controller, queue, batch, server, plugins, b2s, half, told,
          dropped, games, ends>>

ForB2S == {"S", "L", "G"}
None == 0

\* The bounds are numbers.
MediaAssumption == Limit \in Nat /\ MaxGames \in Nat

Keys == Kinds \X Ids

Init ==
  /\ host \in Hosts /\ life = "new"
  /\ started = FALSE /\ controller = FALSE
  /\ queue = <<>> /\ batch = <<>> /\ server = FALSE
  /\ plugins = [k \in Keys |-> 0] /\ b2s = [i \in Ids |-> 0]
  /\ half = None
  /\ told = [k \in Keys |-> 0] /\ dropped = {}
  /\ games = 0 /\ ends = 0

\* EnsureB2SServer: the class may not be there, and making the object may fail.
MakeServer == IF ~host.b2s THEN {FALSE} ELSE IF server THEN {TRUE} ELSE BOOLEAN

Initialize ==
  /\ life = "new"
  /\ life' = "up" /\ server' \in MakeServer
  /\ UNCHANGED <<host, started, controller, queue, batch, plugins, b2s, half, told, dropped, games, ends>>

-----------------------------------------------------------------------------
(* The queue. *)

\* An event for a host that is not up is nothing; one for a full queue is lost.
QueueEvent(kind, id, value) ==
  IF life # "up" THEN UNCHANGED <<queue, told, dropped>>
  ELSE /\ told' = [told EXCEPT ![<<kind, id>>] = value]
       /\ IF Len(queue) < Limit
          THEN queue' = Append(queue, <<kind, id, value>>) /\ dropped' = dropped \ {<<kind, id>>}
          ELSE UNCHANGED queue /\ dropped' = dropped \cup {<<kind, id>>}

\* The engine's coils, and what the main loop reads, while a host is there.
Report(kind, id) ==
  /\ kind # "D" /\ life # "down"
  /\ QueueEvent(kind, id, 1 - told[<<kind, id>>])
  /\ UNCHANGED <<host, life, started, controller, batch, server, plugins, b2s, half, games, ends>>

\* QueueDmdTrigger: two events, and the mutex is free between them.
QueueDmdTrigger(id) ==
  /\ "D" \in Kinds /\ life # "down"
  /\ \/ half = None /\ QueueEvent("D", id, 1) /\ half' = id
     \/ half = id /\ QueueEvent("D", id, 0) /\ half' = None
  /\ UNCHANGED <<host, life, started, controller, batch, server, plugins, b2s, games, ends>>

\* The first half of Process.
Take ==
  /\ life = "up" /\ batch = <<>>
  /\ batch' = queue /\ queue' = <<>>
  /\ UNCHANGED <<host, life, started, controller, server, plugins, b2s, half, told, dropped, games, ends>>

\* The value of the last event at one of these places.
Last(events, places) == events[CHOOSE i \in places : \A j \in places : j <= i][3]
Told(state, events) ==
  [k \in Keys |->
    LET about == {i \in DOMAIN events : <<events[i][1], events[i][2]>> = k}
    IN  IF about = {} THEN state[k] ELSE Last(events, about)]
\* The server is told of a coil, a lamp and a light by their number alone.
ToldB2S(state, events) ==
  [n \in Ids |->
    LET about == {i \in DOMAIN events : events[i][1] \in ForB2S /\ events[i][2] = n}
    IN  IF about = {} THEN state[n] ELSE Last(events, about)]

\* A queue that is emptied once its events have been handed out.
Dispatch_empties ==
  /\ life = "up" /\ batch # <<>>
  /\ plugins' = Told(plugins, batch)
  /\ server' \in MakeServer
  /\ b2s' = IF server' THEN ToldB2S(b2s, batch) ELSE b2s
  /\ batch' = <<>> /\ queue' = <<>>
  /\ UNCHANGED <<host, life, started, controller, half, told, dropped, games, ends>>

\* The second half: a server that could not be made for one event may be made
\* for a later one.
Dispatch ==
  /\ life = "up" /\ batch # <<>>
  /\ plugins' = Told(plugins, batch)
  /\ server' \in MakeServer
  /\ \E from \in 1..Len(batch) :
       b2s' = IF server' THEN ToldB2S(b2s, SubSeq(batch, IF server THEN 1 ELSE from, Len(batch))) ELSE b2s
  /\ batch' = <<>>
  /\ UNCHANGED <<host, life, started, controller, queue, half, told, dropped, games, ends>>

-----------------------------------------------------------------------------
(* Games. *)

\* SetGameInfo and OnGameStart, when the engine's game is first known.
OnGameStart ==
  /\ life = "up" /\ batch = <<>> /\ games < MaxGames
  /\ ~started
  /\ started' = TRUE /\ controller' = host.provide
  /\ games' = games + 1
  /\ UNCHANGED <<host, life, queue, batch, server, plugins, b2s, half, told, dropped, ends>>

OnGameEnd ==
  IF life # "up" \/ ~started THEN UNCHANGED <<started, controller, ends>>
  ELSE started' = FALSE /\ controller' = FALSE /\ ends' = ends + 1

\* What still waits is not sent.
Shutdown ==
  /\ life = "up" /\ batch = <<>>
  /\ OnGameEnd
  /\ life' = "down" /\ server' = FALSE
  /\ UNCHANGED <<host, queue, batch, plugins, b2s, half, told, dropped, games>>

Next ==
  \/ Initialize \/ Take \/ Dispatch \/ OnGameStart \/ Shutdown
  \/ \E i \in Ids : QueueDmdTrigger(i) \/ \E k \in Kinds : Report(k, i)

Spec == Init /\ [][Next]_vars

-----------------------------------------------------------------------------
TypeOK ==
  /\ Len(queue) <= Limit /\ Len(batch) <= Limit
  /\ half \in Ids \cup {None}
  /\ ends <= games

Waits(k) == \E i \in 1..Len(queue) + Len(batch) :
  LET e == (batch \o queue)[i] IN <<e[1], e[2]>> = k

\* Whatever order the threads report in, and however their reports fall between
\* the taking of the queue and the handing out of its events, the plugins have
\* the last value of everything that neither waits nor was lost.
PluginsAgree == \A k \in Keys : Waits(k) \/ k \in dropped \/ plugins[k] = told[k]

\* Every announced game has been ended, and its controller withdrawn, before
\* the plugins that were told of it are unloaded.
GamesEnd == life = "down" => games = ends /\ ~controller

\* Refuted: a lost event is at most late.  A full queue keeps what is old.
NothingStaysLost == batch = <<>> /\ queue = <<>> /\ life = "up" => dropped = {}

\* Refuted: the server tells a lamp from a coil of the same number.
ServerAgrees == \A i \in Ids :
  (server /\ dropped = {} /\ (\A k \in Kinds : ~Waits(<<k, i>>)) /\ b2s[i] = 1)
    => \A k \in ForB2S : told[<<k, i>>] = 1

PluginsInStep == PluginsAgree /\ GamesEnd
=============================================================================
