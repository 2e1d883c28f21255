--------------------------- MODULE MCScriptMachine ---------------------------
(* Constants that a TLC configuration cannot write.                        *)
EXTENDS ScriptMachine

NoThresholds == <<>>

=============================================================================
