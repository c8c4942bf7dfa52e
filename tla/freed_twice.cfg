SPECIFICATION Spec
CONSTANTS
  Task = {t1, t2}
  Window = {w1, w2}
  None = none
  MaxWindows = 2
  QueueLen = 2
  HadesQueueLen = 1
  KeysPerFrame = 1
  CommandsPerFrame = 1
  DoubleBuffered = {w2}
SYMMETRY Symmetry
INVARIANT NoCommandAfterFree
