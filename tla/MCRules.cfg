SPECIFICATION RulesSpec
CONSTANTS
  MaxPlayers = 2
  Warnings = 2
  Debounce = 1
  Blanking = 2
  SaveEnabled = TRUE
  SaveDuration = 2
  StartOn = "ShooterLane"
  HasLaneSwitch = TRUE
  HasPlayfieldSwitches = TRUE
  MaxSaves = 2
  OnlyOnBalls = {1}
  Grants = {3}
  BallNumbers = {0, 1, 2}
  MaxEvents = 2
  Switches = {s1, s2}
  Delays = {0, 1, 2}
  OnceMs = 2
  MaxCallbacks = 3
  MaxPass = 2
  RepeatedCloses = FALSE
  Triggers = {a, b}
  People = {p1, p2}
  Windows = {0, 1, 2}
  Retention = 3
  MaxHistory = 4
  BallsPerGame = 1
  BallCount = 1
  AddPlayerThroughBall = 1
  TroughSwitches = 1
  FreePlay = FALSE
  CreditsPerCoin = 1
  MaxCredits = 1
  HasLane = FALSE
  GiOff = TRUE
  EndsBallOnly = TRUE
  SkipBonus = TRUE
  ExtraBallSurvivesTilt = FALSE
  Settle = 1
  KickRetry = 1
  ServeSettle = 1
  LaunchTimeout = 1
  RecoverTimeout = 2
  BonusTimeout = 1
  GameOverHold = 1
  KickRetries = 0
  KickMod = 4
  ScoreCeiling = 3
  Thresholds <- TwoThresholds
  ReplayCredit = TRUE
  ReplayExtraBall = TRUE
  MatchEnabled = TRUE
  MatchCredit = TRUE
  Commands = {"addScore", "addCredits"}
  Points <- SomePoints
  MaxExtraBalls = 1
  Window = 2
  Repeat = 3
  Rate = 2
  MechRange = 7
  Scale = 8
  MinChange = 2
  Speeds = {1, 2}
  Rest = 5
  MaxLate = 3
  MaxLost = 1
INVARIANTS
  AssistKeepsLimits
  RulesInOrder
  ReplaysAwarded
PROPERTIES
  AssistIsFair
  DelayedWorkRuns
  MotorFollowsRom
CHECK_DEADLOCK FALSE
