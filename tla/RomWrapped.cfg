CONSTANTS
  Banks = 16
  LoBank = 2
  MaxBuffer = 12
  Width = 1024
  MaxMisses = 1
  Images <- Wrapped
  CodeBanks = {0, 3, 29}
  DataBanks = {0, 4}
  ReadBanks = {5}
  None = None
SPECIFICATION Spec
INVARIANTS PrefetchCached
