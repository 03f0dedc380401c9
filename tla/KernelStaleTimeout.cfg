CONSTANTS
  main = main
  idle = idle
  a = a
  b = b
  None = None
  Asleep = Asleep
  Threads = {main, idle, a, b}
  Main = main
  Idle = idle
  Prio <- MCPrioShared
  Mutexes = {}
  Semas = {}
  Events = {}
  Bits = {}
  NTimeouts = 2
  TimedOps = {"thread", "sleep"}
  DeleteWaited = FALSE
  MaxDepth = 2
  MaxCount = 1
SPECIFICATION Spec
INVARIANTS WaitTimeoutArmed
