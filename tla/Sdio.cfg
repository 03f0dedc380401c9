\* A and B are model values compared only for equality, and the run checks
\* invariants only: their permutations are a sound symmetry.
CONSTANTS
  Main = main
  Rx = rx
  None = None
  Bases = {A, B}
  MaxChunks = 2
  CardEvents = {"ptrs"}
  MaxFaults = 1
  MaxEarlyFaults = 1
SYMMETRY MCSymmetry
SPECIFICATION Spec
INVARIANTS CallsSound WindowRight OwnCompletion CardIrqKept
CHECK_DEADLOCK FALSE
