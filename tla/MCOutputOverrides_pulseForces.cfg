SPECIFICATION Spec
CONSTANTS
  Coils = {1, 2}
  Lamps = {l1}
  SearchSteps <- MCSteps
  PulseTicks = {2}
  BlinkTicks = 1
  SearchDelay = 2
  RoundDelay = 1
  SearchPulse = 1
  Suppressible = {1}
INVARIANT PulseForcesOn
