SPECIFICATION FairSpec
CONSTANTS
  Task = {t1, t2}
  Window = {w1, w2}
  None = none
  MaxWindows = 2
  QueueLen = 1
  HadesQueueLen = 1
  KeysPerFrame = 1
  CommandsPerFrame = 0
  DoubleBuffered = {w2}
INVARIANTS
  WindowCountIsExact
  
  
PROPERTIES  WindowsOfTheDeadAreFreed
