SPECIFICATION SoundSpec
CONSTANTS
  SourceOf <- MCSourceOf
  Topologies <- MCChain
  NoSource = NoSource
  Bottom = "rom"
  Mode = "Fallback"
  Hold = 1
  Target = 1
  HighWater = 1
  Cap = 2
  Deliveries = {1}
  Utterances = {2}
  Tracks = 3
  Broken = {1}
  Gap = 1
  Settle = 1
  Timeout = 2
  MinAttract = 1
  Flickers = 2
INVARIANTS SourcesInOrder MusicFollowsGame
PROPERTIES RomComesBack MusicPlays
