SPECIFICATION FairSpec
CONSTANTS
  Coils = {gameOn}
  GameOn = gameOn
  gameOn = gameOn
  flipper = flipper
  Publications <- AllCoils
  Fields = {}
  Values = {}
  MaxGeneration = 2
  AcquirePasses = FALSE
PROPERTIES
  RunningFollowsCoil
