SPECIFICATION Spec
CONSTANTS
  Coils = {1, 2}
  Lamps = {l1}
  SearchSteps <- MCSteps
  PulseTicks = {1}
  BlinkTicks = 1
  SearchDelay = 2
  RoundDelay = 1
  SearchPulse = 1
  Suppressible = {1}
INVARIANTS
  PulseHolds
  CoilsGivenBack
PROPERTIES
  OverridesEnd
