----------------------------- MODULE SourceLease -----------------------------
(***************************************************************************)
(* What the handshake around a plugin's state sources promises to the      *)
(* plugin and to the thread that reads them: the memory behind a           *)
(* publication is given back only while nobody reads it, and a reader sees *)
(* one publication from its first access to its last.                      *)
(***************************************************************************)
EXTENDS Naturals

VARIABLES
  live,      \* the publication whose memory is valid, 0 if there is none
  held       \* the publication the reader is in, 0 if it is not reading

leaseVars == <<live, held>>

Init == live = 0 /\ held = 0

Publish ==
  /\ live = 0
  /\ live' \in Nat \ {0}
  /\ UNCHANGED held

Acquire ==
  /\ live # 0 /\ held = 0
  /\ held' = live
  /\ UNCHANGED live

Release ==
  /\ held # 0
  /\ held' = 0
  /\ UNCHANGED live

Retire ==
  /\ live # 0 /\ held = 0
  /\ live' = 0
  /\ UNCHANGED held

Next == Publish \/ Acquire \/ Release \/ Retire

Spec == Init /\ [][Next]_leaseVars

=============================================================================
