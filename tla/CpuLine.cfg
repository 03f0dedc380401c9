SPECIFICATION FairSpec
CONSTANTS
  HBlank = 4
  LineLen = 8
  ScreenHeight = 1
  TotalLines = 4
  Fetch = 1
  OpCycles = {0, 1}
  Trigger = 1
  HMatches <- MCHMatches
  VMatches <- MCVMatches
INVARIANTS ScheduleRight
PROPERTIES InterruptsTaken WaitEnds
