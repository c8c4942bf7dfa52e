SPECIFICATION Spec
CONSTANTS
  MaxPid = 3
  Thread = {t1, t2, t3}
  KernelThread = kt
  NoThread = none
  HadesQueueLen = 2
  ChildQueueLen = 1
  KernelQueueLen = 1
  Asks <- AsksAll
  Ends = {"process", "thread"}
  UserKills = TRUE
  MaxRequests = 3
INVARIANT NoThreadOfDyingParent
