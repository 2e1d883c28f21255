---------------------------- MODULE MCPluginEngine ----------------------------
(* Instances of PluginEngine for TLC. *)
EXTENDS PluginEngine

CONSTANTS gameOn, flipper

\* A plugin that has started no game publishes no coil.
AllOrNone == {{}, Coils}
AllCoils == {Coils}

=============================================================================
