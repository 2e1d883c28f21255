SPECIFICATION FairSpec
CONSTANTS
  Coils = {gameOn}
  GameOn = gameOn
  gameOn = gameOn
  flipper = flipper
  Publications <- AllCoils
  Fields = {"ball"}
  Values = {0, 1}
  MaxGeneration = 1
  AcquirePasses = FALSE
PROPERTIES
  NoBallAfterGame
