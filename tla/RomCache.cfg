CONSTANTS
  Banks = 16
  LoBank = 2
  MaxBuffer = 12
  Width = 1024
  MaxMisses = 1
  Images <- MCImages
  CodeBanks = {0, 3, 12, 29, 14}
  DataBanks = {0, 4, 9, 30}
  ReadBanks = {5, 10}
  None = None
SPECIFICATION FairSpec
INVARIANTS CacheSound CodeCached
PROPERTIES SearchEnds
