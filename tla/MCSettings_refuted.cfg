SPECIFICATION Spec
CONSTANT Inputs <- MCInputs
INVARIANTS
  SilenceIsAllowed
  NothingLeftBehind
CHECK_DEADLOCK FALSE
