SPECIFICATION MachineSpec
CONSTANTS
  BallsPerGame = 1
  MaxPlayers = 2
  BallCount = 1
  AddPlayerThroughBall = 1
  TroughSwitches = 1
  FreePlay = TRUE
  CreditsPerCoin = 1
  MaxCredits = 0
  HasLane = FALSE
  GiOff = TRUE
  EndsBallOnly = TRUE
  SkipBonus = TRUE
  ExtraBallSurvivesTilt = FALSE
  Settle = 1
  KickRetry = 1
  ServeSettle = 0
  LaunchTimeout = 1
  RecoverTimeout = 1
  BonusTimeout = 1
  GameOverHold = 1
  KickRetries = 1
  KickMod = 4
  ScoreCeiling = 1
  Thresholds <- NoThresholds
  ReplayCredit = FALSE
  ReplayExtraBall = FALSE
  MatchEnabled = FALSE
  MatchCredit = FALSE
  Commands = {"tilt", "slamTilt"}
  Points = {}
  MaxExtraBalls = 0
  Warnings = 1
  Debounce = 1
  Blanking = 1
  SaveEnabled = FALSE
  SaveDuration = 2
  StartOn = "TroughExit"
  HasLaneSwitch = FALSE
  HasPlayfieldSwitches = FALSE
  MaxSaves = 1
  OnlyOnBalls = {}
  Grants = {}
  BallNumbers = {0, 1, 2}
  MaxEvents = 2
  WatchFitted = FALSE
  Hits = {"tilt"}
  Grace = 3
  Gap = 1
INVARIANTS
  TiltOnlyAfterWarnings
