----------------------------- MODULE MCGameCore -----------------------------
(* Constants that a TLC configuration cannot write: sequences and negative *)
(* numbers.                                                                *)
EXTENDS GameCore

NoThresholds == <<>>
TwoThresholds == <<1, 2>>
NoPoints == {}
SomePoints == {-1, 1, 2}

=============================================================================
