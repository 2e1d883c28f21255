------------------------- MODULE MCOutputOverrides -------------------------
(* Coil 1 is an ordinary coil, coil 2 one the ball search fires. *)
EXTENDS OutputOverrides

MCSteps == <<2>>
=============================================================================
