---------------------------- MODULE RulesEngine ----------------------------
(***************************************************************************)
(* LuaRulesEngine: the game's own rules, written in Lua, between the       *)
(* boards and the engine.  A handler is run for each event; it may keep a  *)
(* closing switch from the engine, ask for work after a delay, guard work  *)
(* with onlyOnceEvery, record triggers and fail.  One mutex serialises     *)
(* everything: while an update runs its callbacks (updating) no other    *)
(* call gets in.  A failed handler ends the rules for good, and the main   *)
(* loop with them.                                                         *)
(***************************************************************************)
EXTENDS Integers, Sequences, FiniteSets, Functions

CONSTANTS Switches,
          Delays,          \* the arguments of ppuc.after
          OnceMs,          \* the argument of ppuc.onlyOnceEvery
          MaxCallbacks,    \* bound: callbacks waiting at once
          MaxPass,         \* bound: ticks one pass of the main loop takes
          RepeatedCloses   \* the boards may report a closed switch as closed

VARIABLES
  switchStates,     \* m_switchStates: the boards' last report
  suppressedOpen,   \* m_suppressedSwitchOpen
  cpu,              \* what the engine was last sent
  fatal,            \* m_fatalError
  scheduled,        \* m_scheduledCallbacks, in order of their sequence numbers
  updating,         \* Update holds the mutex
  updated,          \* the main loop's pass has had its update
  due,              \* its callbacks that have not run yet
  watch,            \* the watched callback: none, waiting or done
  onceLeft,         \* what is left of the named state of onlyOnceEvery
  sinceOnce,        \* ticks since the guarded work was last done
  running           \* the main loop's flag

RulesAssumption ==
  /\ Delays \subseteq Nat /\ OnceMs \in Nat \ {0}
  /\ RepeatedCloses \in BOOLEAN

vars == <<switchStates, suppressedOpen, cpu, fatal, scheduled, updating, updated, due,
          watch, onceLeft, sinceOnce, running>>

Init ==
  /\ switchStates = [s \in Switches |-> 0]
  /\ suppressedOpen = {}
  /\ cpu = [s \in Switches |-> 0]
  /\ fatal = FALSE
  /\ scheduled = <<>>
  /\ updating = FALSE
  /\ updated = FALSE
  /\ due = <<>>
  /\ watch = "none"
  /\ onceLeft = 0
  /\ sinceOnce = OnceMs
  /\ running = TRUE

---------------------------------------------------------------------------
\* What a handler may do through the ppuc table.

(* The watched callback has been reached once it heads the batch. *)
Seen == IF due # <<>> /\ Head(due).watched THEN "done" ELSE watch

(* ppuc.after: left is what is left of the delay, negative when overdue;   *)
(* watched marks the callback that a property follows.                     *)
After(calls, d, w) == Append(calls, [left |-> d, watched |-> w])

LuaAfter ==
  /\ Len(scheduled) < MaxCallbacks
  /\ \E d \in Delays, w \in {FALSE} \cup {watch # "waiting"} :
       /\ scheduled' = After(scheduled, d, w)
       /\ watch' = IF w THEN "waiting" ELSE Seen
  /\ UNCHANGED <<onceLeft, sinceOnce>>

LuaOnlyOnceEvery ==
  /\ onceLeft = 0
  /\ onceLeft' = OnceMs
  /\ sinceOnce' = 0
  /\ watch' = Seen
  /\ UNCHANGED scheduled

NoEffect == watch' = Seen /\ UNCHANGED <<scheduled, onceLeft, sinceOnce>>

(* A handler may fail at any point; after a failure none is run. *)
CallHandler ==
  \/ /\ ~fatal
     /\ fatal' \in BOOLEAN
     /\ LuaAfter \/ LuaOnlyOnceEvery \/ NoEffect
  \/ /\ fatal
     /\ UNCHANGED <<fatal, watch, scheduled, onceLeft, sinceOnce>>

---------------------------------------------------------------------------
\* Events.

Free == ~updating

(* The main loop looks for a failure after each call it makes. *)
StopOnFailure == running' = (running /\ ~fatal')

(* suppressSwitch answers for the closing in front of it and no other. *)
Suppress(s, v) == {suppressedOpen} \cup
  (IF v = 1 /\ ~fatal THEN {suppressedOpen \cup {s}} ELSE {})

Forward(s, v, hidden) == s \notin hidden

(* A switch report: the opening that follows a suppressed closing is kept *)
(* from the engine too, and ends the suppression.                         *)
ProcessSwitchState(s, v) ==
  /\ running /\ Free
  /\ switchStates[s] = v => RepeatedCloses /\ v = 1
  /\ switchStates' = [switchStates EXCEPT ![s] = v]
  /\ CallHandler
  /\ \E hidden \in Suppress(s, v) :
       /\ cpu' = IF Forward(s, v, hidden) THEN [cpu EXCEPT ![s] = v] ELSE cpu
       /\ suppressedOpen' = IF v = 0 THEN hidden \ {s} ELSE hidden
  /\ StopOnFailure
  /\ UNCHANGED <<updating, updated, due>>

(* The other events only run their handler: a coil on the engine's thread, *)
(* where nobody looks for a failure.                                       *)
ProcessCoilState ==
  /\ Free
  /\ ~fatal
  /\ CallHandler
  /\ UNCHANGED <<switchStates, suppressedOpen, cpu, updating, updated, due, running>>

(* A lamp that really changed, on the main loop. *)
OnLampState ==
  /\ running /\ Free
  /\ CallHandler
  /\ StopOnFailure
  /\ UNCHANGED <<switchStates, suppressedOpen, cpu, updating, updated, due>>

(* An event of the game, after which nobody looks for a failure either. *)
CallGameHandler ==
  /\ running /\ Free
  /\ ~fatal
  /\ CallHandler
  /\ UNCHANGED <<switchStates, suppressedOpen, cpu, updating, updated, due, running>>

---------------------------------------------------------------------------
\* The update of the main loop, callback by callback.

Sooner(calls, i, j) ==
  calls[i].left < calls[j].left \/ (calls[i].left = calls[j].left /\ i < j)

DueOnes(calls) == {i \in DOMAIN calls : calls[i].left <= 0}

Listings(places) == [1..Cardinality(places) -> places]
Picked(calls, list) == [i \in DOMAIN list |-> calls[list[i]]]

(* What the sort makes of the due ones: the order is total, so it is one.  *)
InOrder(calls) ==
  {Picked(calls, list) : list \in
     {l \in Listings(DueOnes(calls)) :
        \A i, j \in DOMAIN l : i < j => Sooner(calls, l[i], l[j])}}

(* What erasing the due ones leaves, as it stood. *)
Later(calls) ==
  {Picked(calls, list) : list \in
     {l \in Listings(DOMAIN calls \ DueOnes(calls)) :
        \A i, j \in DOMAIN l : i < j => l[i] < l[j]}}

BeginUpdate ==
  /\ running /\ Free /\ ~updated
  /\ ~fatal
  /\ updating' = TRUE
  /\ due' \in InOrder(scheduled)
  /\ scheduled' \in Later(scheduled)
  /\ UNCHANGED <<switchStates, suppressedOpen, cpu, fatal, updated, watch, onceLeft,
                 sinceOnce, running>>

(* What is scheduled meanwhile waits for the next update, however short    *)
(* its delay; a callback that fails takes the rest of the batch with it.   *)
RunCallback ==
  /\ due # <<>>
  /\ CallHandler
  /\ due' = IF fatal' THEN <<>> ELSE Tail(due)
  /\ updating' = ~fatal'
  /\ updated' = fatal'
  /\ StopOnFailure
  /\ UNCHANGED <<switchStates, suppressedOpen, cpu>>

(* onRulesUpdate is run last. *)
EndUpdate ==
  /\ updating /\ due = <<>>
  /\ CallHandler
  /\ updating' = FALSE
  /\ updated' = TRUE
  /\ StopOnFailure
  /\ UNCHANGED <<switchStates, suppressedOpen, cpu, due>>

FailedUpdate_silent == FALSE

(* An update after a failure on the engine's thread does nothing, and the  *)
(* loop finds out.                                                         *)
FailedUpdate ==
  /\ running /\ Free
  /\ fatal
  /\ running' = FALSE
  /\ UNCHANGED <<switchStates, suppressedOpen, cpu, fatal, scheduled, updating, updated, due,
                 watch, onceLeft, sinceOnce>>

Update == BeginUpdate \/ RunCallback \/ EndUpdate \/ FailedUpdate

Less(n, d) == IF n > d THEN n - d ELSE 0

(* The next pass begins; the one before took some time. *)
NextPass ==
  /\ running /\ updated
  /\ updated' = FALSE
  /\ \E d \in 1..MaxPass :
       /\ scheduled' = [i \in DOMAIN scheduled |-> [scheduled[i] EXCEPT !.left = @ - d]]
       /\ onceLeft' = Less(onceLeft, d)
       /\ sinceOnce' = IF sinceOnce + d < OnceMs THEN sinceOnce + d ELSE OnceMs
  /\ UNCHANGED <<switchStates, suppressedOpen, cpu, fatal, updating, due, watch, running>>

Next ==
  \/ \E s \in Switches, v \in {0, 1} : ProcessSwitchState(s, v)
  \/ ProcessCoilState
  \/ OnLampState
  \/ CallGameHandler
  \/ Update
  \/ NextPass

(* The main loop goes round. *)
Spec == Init /\ [][Next]_vars /\ WF_vars(BeginUpdate) /\ WF_vars(RunCallback)
             /\ WF_vars(EndUpdate) /\ WF_vars(FailedUpdate) /\ WF_vars(NextPass)

---------------------------------------------------------------------------
\* Properties.

TypeOK ==
  /\ switchStates \in [Switches -> {0, 1}]
  /\ suppressedOpen \subseteq Switches
  /\ cpu \in [Switches -> {0, 1}]
  /\ scheduled \in Seq([left : Int, watched : BOOLEAN])
  /\ due \in Seq([left : Int, watched : BOOLEAN])
  /\ {fatal, updating, updated, running} \subseteq BOOLEAN
  /\ watch \in {"none", "waiting", "done"}
  /\ onceLeft \in 0..OnceMs /\ sinceOnce \in 0..OnceMs

(* Hiding switches does not lose track of them: the engine sees a switch   *)
(* as the boards do, or open while its closing is being kept from it; the  *)
(* opening it never gets is the one that belongs to a closing it never     *)
(* got, even after the rules have failed (ProcessSwitchState).             *)
CpuAgrees ==
  \A s \in Switches :
    cpu[s] = IF s \in suppressedOpen THEN 0 ELSE switchStates[s]

(* Delayed work is done in the order it falls due, across updates and with *)
(* callbacks that schedule others (RunDueScheduledCallbacks).              *)
CallbacksInOrder ==
  due # <<>> => \A c \in Range(scheduled) \cup Range(due) : Head(due).left <= c.left

(* Work guarded by onlyOnceEvery is done at most once per window.          *)
OncePerWindow == sinceOnce < OnceMs => onceLeft > 0

(* A callback that schedules itself without delay does not keep the main   *)
(* loop in the update.                                                     *)
UpdateEnds == updating ~> ~updating

(* What a rule asked for with ppuc.after is done, unless the rules fail.   *)
DelayedWorkRuns == watch = "waiting" ~> (watch = "done" \/ fatal)

(* A failure of the rules ends the program, wherever it happened: the      *)
(* engine's thread reports none, and the main loop must find it.           *)
FailureEndsLoop == fatal ~> ~running
=============================================================================
