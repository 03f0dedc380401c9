CONSTANTS
  HdmaChans = {0, 5}
  DmaChans = {1, 2}
  Size = 32
  RepeatBit = 4
  Height = 5
  TotalLines = 6
  MaxStarts = 2
  Games <- MCGames
  None = None
SPECIFICATION Spec
INVARIANTS TransfersRight
PROPERTIES ImplementsTable
