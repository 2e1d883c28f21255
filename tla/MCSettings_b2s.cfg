SPECIFICATION Spec
CONSTANT Inputs <- MCInputs
INVARIANT B2SOwnsBackglass
CHECK_DEADLOCK FALSE
