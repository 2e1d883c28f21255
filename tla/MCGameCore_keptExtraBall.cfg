SPECIFICATION Spec
CONSTANTS
  BallsPerGame = 2
  MaxPlayers = 1
  BallCount = 1
  AddPlayerThroughBall = 1
  TroughSwitches = 1
  FreePlay = TRUE
  CreditsPerCoin = 1
  MaxCredits = 0
  HasLane = TRUE
  GiOff = TRUE
  EndsBallOnly = TRUE
  SkipBonus = TRUE
  ExtraBallSurvivesTilt = FALSE
  Settle = 1
  KickRetry = 1
  ServeSettle = 1
  LaunchTimeout = 1
  RecoverTimeout = 2
  BonusTimeout = 1
  GameOverHold = 1
  KickRetries = 1
  KickMod = 4
  ScoreCeiling = 1
  Thresholds <- NoThresholds
  ReplayCredit = TRUE
  ReplayExtraBall = FALSE
  MatchEnabled = FALSE
  MatchCredit = TRUE
  Commands = {"tilt", "awardExtraBall"}
  Points <- NoPoints
  MaxExtraBalls = 1
PROPERTIES
  TiltForfeitsExtraBall
