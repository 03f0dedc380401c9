CONSTANTS
  main = main
  idle = idle
  a = a
  b = b
  e1 = e1
  b0 = b0
  b1 = b1
  None = None
  Asleep = Asleep
  Threads = {main, idle, a, b}
  Main = main
  Idle = idle
  Prio <- MCPrioShared
  Mutexes = {}
  Semas = {}
  Events = {e1}
  Bits = {b0, b1}
  NTimeouts = 2
  TimedOps = {"sleep", "thread", e1}
  DeleteWaited = FALSE
  MaxDepth = 2
  MaxCount = 1
SPECIFICATION Spec
INVARIANTS NoLostWakeup UrgentFirst QueuesSound
