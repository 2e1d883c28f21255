SPECIFICATION Spec
CONSTANTS
  BallsPerGame = 2
  MaxPlayers = 2
  BallCount = 2
  AddPlayerThroughBall = 1
  TroughSwitches = 2
  FreePlay = TRUE
  CreditsPerCoin = 1
  MaxCredits = 0
  HasLane = TRUE
  GiOff = TRUE
  EndsBallOnly = TRUE
  SkipBonus = TRUE
  ExtraBallSurvivesTilt = FALSE
  Settle = 1
  KickRetry = 1
  ServeSettle = 1
  LaunchTimeout = 1
  RecoverTimeout = 2
  BonusTimeout = 1
  GameOverHold = 1
  KickRetries = 1
  KickMod = 4
  ScoreCeiling = 1
  Thresholds <- NoThresholds
  ReplayCredit = TRUE
  ReplayExtraBall = FALSE
  MatchEnabled = FALSE
  MatchCredit = TRUE
  Commands = {"tilt", "slamTilt", "endBall", "endGame", "awardExtraBall", "serveBall", "bonusDone", "setScore", "addCredits"}
  Points = {1}
  MaxExtraBalls = 1
INVARIANTS
  FlippersDeadOnlyOnTilt
  GameOnDuringGame
  WaitsAreBounded
