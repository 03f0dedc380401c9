SPECIFICATION FairSpec
CONSTANTS
  Byte = 4
  OamHigh = 2
  Fine = 2
  Scrolls = {"x0", "y0", "x1"}
  XScrolls = {"x0", "x1"}
  Matrix = {"x0", "y0", "m7a"}
  Rot = 2
  RotSpans = {4, 8}
  Steps = {1, 2, 4}
  Data = {1, 2}
  MaxWrites <- MCWrites
  MaxSets = 2
  Tile = 2
  Cols = 4
  HFlip <- MCHFlip
  VFlip <- MCVFlip
  Full = 3
  Rise = 2
  Fall = 1
  Bend = 1
  Rates = {0, 2}
  FastRate = 2
  ReleaseRate = 1
  Levels = {2}
  Volumes = {0, 1}
  EnvStart = 1
  MaxRewrites = 2
  LineLen = 6
  Overrun = 2
  Ratio = 1
  SpcRatio = 2
  OpCycles = {1, 2}
  Half = 8
  Unit = 2
  Reloads = {0, 1, 3}
  Sample = 4
  MaxTicks = 2
  Bits = 2
CHECK_DEADLOCK FALSE
INVARIANTS StreamsLand LineRight VoiceFollows SpcOnTime ResultsRight
PROPERTIES PairsWhole ReleaseEnds
