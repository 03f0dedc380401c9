SPECIFICATION FairSpec
CONSTANTS
  MaxStarts = 2
  MaxHurried = 1
  Threads = {t1, t2}
  Calls <- MCCalls
  Page = 2
  Size = 4
  MaxCalls = 2
  Levels = 2
  Times = {1, 2}
  MaxDelays = 3
  Buttons = {b1}
  MaxScans = 3
  Bases = {A}
  MaxChunks = 1
  CardEvents = {"mail"}
CHECK_DEADLOCK FALSE
INVARIANTS StopIsFinal AlertsServed BusRight FullDelay FetchRight
PROPERTIES CallsReturn CardServed
