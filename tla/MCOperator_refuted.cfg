SPECIFICATION OperatorSpec
CONSTANTS
  Steps <- MCSteps
  Momentary = {"Coils"}
  Freezes = {TRUE, FALSE}
  Videos <- MCAllVideos
  PluginSets <- MCPlugins
  Slides = 1
  Idle = 1
  Duration = 1
  Debounce = 0
  Both = 1
  MaxRequests = 1
  Hosts <- MCHosts
  EventKinds = {"S", "D"}
  Ids = {1}
  Limit = 2
  MaxGames = 1
  BenchDevices <- MCDevices
  Switches = {1, 2}
  BenchTests <- MCTests
  OnTime = 2
  OffTime = 1
  Hold = 2
  MaxPending = 2
  MaxQueue = 3
  Boards = {1, 2}
  Machines <- MCMachines
  Options <- MCOptions
  Directories <- MCDirectories
  Validated = {1}
  Types <- MCTypes
  MaxRestarts = 1
  Inputs <- MCInputs
INVARIANTS
  ToolsLoseNothing
  ScreensAreRight
CHECK_DEADLOCK FALSE
