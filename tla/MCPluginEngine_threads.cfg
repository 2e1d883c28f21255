SPECIFICATION FairSpec
CONSTANTS
  Coils = {gameOn}
  GameOn = gameOn
  gameOn = gameOn
  flipper = flipper
  Publications <- AllOrNone
  Fields = {"ball"}
  Values = {0, 1}
  MaxGeneration = 2
  AcquirePasses = TRUE
PROPERTIES
  WaitsEnd
  CoilReachesBoards
  TrackedReachesHost
  GameEndIsReported
