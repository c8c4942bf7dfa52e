SPECIFICATION FairSpec
CONSTANTS
  MaxPid = 3
  Thread = {t1}
  KernelThread = kt
  NoThread = none
  HadesQueueLen = 1
  ChildQueueLen = 1
  KernelQueueLen = 1
  Asks <- AsksAll
  Ends = {"process", "thread"}
  UserKills = FALSE
  MaxRequests = 3
PROPERTY DeadAreBuried
