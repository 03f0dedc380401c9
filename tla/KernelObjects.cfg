CONSTANTS
  main = main
  idle = idle
  a = a
  b = b
  m1 = m1
  s1 = s1
  None = None
  Asleep = Asleep
  Threads = {main, idle, a, b}
  Main = main
  Idle = idle
  Prio <- MCPrioShared
  Mutexes = {m1}
  Semas = {s1}
  Events = {}
  Bits = {}
  NTimeouts = 1
  TimedOps = {m1}
  DeleteWaited = TRUE
  MaxDepth = 2
  MaxCount = 1
SPECIFICATION Spec
INVARIANTS Registered NoStrayTimeout WakeSound IInv
PROPERTIES ImplementsSync
