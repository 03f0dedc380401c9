CONSTANTS
  main = main
  idle = idle
  a = a
  b = b
  m1 = m1
  None = None
  Asleep = Asleep
  Threads = {main, idle, a, b}
  Main = main
  Idle = idle
  Prio <- MCPrio
  Mutexes = {m1}
  Semas = {}
  Events = {}
  Bits = {}
  NTimeouts = 1
  TimedOps = {"sleep"}
  DeleteWaited = FALSE
  MaxDepth = 1
  MaxCount = 1
SPECIFICATION LiveSpec
INVARIANTS MutexHeld
PROPERTIES MutexWaitEnds
