SPECIFICATION FairSpec
CONSTANTS
  Task = {t1, t2}
  NoTask = none
  SeqMod = 4
  FirstSeq = {0, 2}
  MaxLate = 2
INVARIANT OnlyOverlapMixesReplies
PROPERTY RequestsReturn
\* Every application may be deleted.
CHECK_DEADLOCK FALSE
