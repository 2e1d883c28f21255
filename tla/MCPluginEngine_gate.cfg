SPECIFICATION Spec
CONSTANTS
  Coils = {gameOn, flipper}
  GameOn = gameOn
  gameOn = gameOn
  flipper = flipper
  Publications <- AllOrNone
  Fields = {}
  Values = {}
  MaxGeneration = 3
  AcquirePasses = FALSE
INVARIANTS
  FetchSafe
  PollIsSound
PROPERTIES
  LeaseKept
  RulesSeeGame
  SilentAfterStop
