CONSTANTS
  main = main
  idle = idle
  a = a
  None = None
  Asleep = Asleep
  Threads = {main, idle, a}
  Main = main
  Idle = idle
  Prio <- MCPrio
  Mutexes = {}
  Semas = {s1}
  Events = {}
  Bits = {}
  NTimeouts = 1
  TimedOps = {s1}
  DeleteWaited = TRUE
  MaxDepth = 1
  MaxCount = 3
  CountSema = s1
  Msgs = {x, y}
  Size = 2
SPECIFICATION MSpec
INVARIANTS RingSound NeverBroken
PROPERTIES ImplementsFifo
