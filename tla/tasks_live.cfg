SPECIFICATION FairSpec
CONSTANTS
  MaxPid = 2
  Thread = {t1, t2}
  KernelThread = kt
  NoThread = none
  HadesQueueLen = 2
  ChildQueueLen = 1
  KernelQueueLen = 1
  Asks <- AsksAll
  Ends = {"process", "thread"}
  UserKills = TRUE
  MaxRequests = 3
PROPERTIES RequestsAreAnswered EndedAreBuried OnlyDyingParentsMiscount
