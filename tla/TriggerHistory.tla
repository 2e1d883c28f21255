--------------------------- MODULE TriggerHistory ---------------------------
(***************************************************************************)
(* What the rules remember of the triggers they gave (LuaRulesEngine's     *)
(* m_history) and what ppuc.triggerHistory and ppuc.triggerSequence make   *)
(* of it: the entries of the current player, newest first.                 *)
(***************************************************************************)
EXTENDS Integers, Sequences, FiniteSetsExt

CONSTANTS Triggers, Players,
          Windows,       \* the windows rules ask for; 0 is no limit
          Retention,     \* kHistoryRetentionMs
          MaxHistory     \* bound: triggers remembered at once

HistoryAssumption == Retention \in Nat /\ Windows \subseteq Nat

VARIABLES history,         \* oldest first; age is the time since timestampMs
          currentPlayer

vars == <<history, currentPlayer>>

Init == history = <<>> /\ currentPlayer \in Players

(* Only the front of the queue is looked at. *)
Prune(h) ==
  LET young == {i \in DOMAIN h : h[i].age <= Retention}
  IN IF young = {} THEN <<>> ELSE SubSeq(h, Min(young), Len(h))

RecordTrigger(id) ==
  /\ Len(history) < MaxHistory
  /\ history' = Prune(Append(history, [id |-> id, player |-> currentPlayer, age |-> 0]))
  /\ UNCHANGED currentPlayer

SetCurrentPlayer(p) == currentPlayer' = p /\ UNCHANGED history

Aged == [i \in DOMAIN history |-> [history[i] EXCEPT !.age = @ + 1]]

(* A pass of the main loop: time goes by and Update prunes. *)
Update == history' = Prune(Aged) /\ UNCHANGED currentPlayer

Next ==
  \/ \E id \in Triggers : RecordTrigger(id)
  \/ \E p \in Players : SetCurrentPlayer(p)
  \/ Update

Spec == Init /\ [][Next]_vars

---------------------------------------------------------------------------
Mine(e, id) == e.player = currentPlayer /\ e.id = id

HistoryContains(id, window) ==
  \E i \in DOMAIN history :
    Mine(history[i], id) /\ (window = 0 \/ history[i].age <= window)

(* One pass from the newest entry to the oldest; next is the number of     *)
(* triggers of the sequence still to be met.                               *)
Step(ids, e, found) ==
  IF found.next > 0 /\ Mine(e, ids[found.next])
  THEN [next |-> found.next - 1,
        newest |-> IF found.next = Len(ids) THEN e.age ELSE found.newest,
        oldest |-> e.age]
  ELSE found

Backwards(ids) ==
  LET found[n \in 0..Len(history)] ==
        IF n = 0 THEN [next |-> Len(ids), newest |-> 0, oldest |-> 0]
                 ELSE Step(ids, history[Len(history) + 1 - n], found[n - 1])
  IN found[Len(history)]

SequenceOccurred_oneWindow(ids, window) ==
  /\ ids # <<>>
  /\ Backwards(ids).next = 0
  /\ window = 0 \/ Backwards(ids).newest <= window

SequenceOccurred(ids, window) ==
  /\ ids # <<>>
  /\ LET found == Backwards(ids) IN
     /\ found.next = 0
     /\ window = 0 \/ /\ found.newest <= window
                      /\ found.oldest - found.newest <= window

---------------------------------------------------------------------------
\* Properties.

Pairs == Triggers \X Triggers

(* The reference: two entries of the current player in that order, the     *)
(* second at most a window old and the first at most a window before it.   *)
Happened(ids, window) ==
  \E i, j \in DOMAIN history :
    /\ i < j
    /\ Mine(history[i], ids[1]) /\ Mine(history[j], ids[2])
    /\ window = 0 \/ /\ history[j].age <= window
                     /\ history[i].age - history[j].age <= window

(* A sequence that is reported did happen, to this player, in this order   *)
(* and in this time; without a window each that happened is reported.      *)
(* (With one, a later trigger of the last kind hides an earlier sequence.) *)
SequenceIsReal ==
  \A ids \in Pairs, w \in Windows :
    /\ SequenceOccurred(ids, w) => Happened(ids, w)
    /\ Happened(ids, 0) => SequenceOccurred(ids, 0)

(* Looking at the front only is enough: the queue stays in order of age,   *)
(* so no entry outlives the retention behind a younger one.                *)
HistoryForgets ==
  \A i, j \in DOMAIN history :
    /\ history[i].age <= Retention
    /\ i < j => history[i].age >= history[j].age
=============================================================================
