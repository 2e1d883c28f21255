----------------------------- MODULE MCSettings ------------------------------
(***************************************************************************)
(* Three families of inputs: what may claim the screen, what needs sound,  *)
(* and what the boards and the tests do not allow.                         *)
(***************************************************************************)
EXTENDS Settings

Input(game, cli, iniOn, iniOff, ini, folder, yaml, engines, number) ==
  [game |-> game, cli |-> cli, iniOn |-> iniOn, iniOff |-> iniOff, ini |-> ini, folder |-> folder,
   yaml |-> yaml, engine |-> engines, number |-> number]
Default == [cli |-> "none", ini |-> "none"]
Script == [cli |-> "none", ini |-> "script"]
AllFolder == {"iniFile", "music", "translite", "attract", "rules"}

MCScreens ==
  {Input(game, cli, iniOn, iniOff, ini, folder, FALSE, Script, FALSE) :
     game \in BOOLEAN, cli \in SUBSET {"b2s", "monitor", "translite", "config"},
     iniOn \in SUBSET {"pup", "monitor", "debug"}, iniOff \in SUBSET {"b2s"}, ini \in SUBSET {"translite"},
     folder \in {{"iniFile"}, AllFolder}}
MCSound ==
  {Input(TRUE, cli, iniOn, iniOff, ini, folder, yaml, Default, FALSE) :
     cli \in SUBSET {"noSound", "speech", "music", "rom", "rules"}, iniOn \in SUBSET {"greeting", "noSound"},
     iniOff \in {{}, {"slides", "rules"}}, ini \in SUBSET {"music", "rules"}, folder \in {{"iniFile"}, AllFolder}, yaml \in BOOLEAN}
MCBoards ==
  {Input(FALSE, cli \cup {"config", "iniFile"}, iniOn, {}, {"config"}, {}, FALSE, engines, number) :
     cli \in SUBSET {"noSerial", "closeDoor", "interactive", "coilTest", "ledTest", "help"} \cup {{"unknown"}, {"badNumber"}},
     iniOn \in SUBSET {"giTest", "noSerial"}, engines \in {Default, Script, [cli |-> "pinmame", ini |-> "other"], [cli |-> "other", ini |-> "none"]},
     number \in BOOLEAN}
MCInputs == MCScreens \cup MCSound \cup MCBoards
=============================================================================
