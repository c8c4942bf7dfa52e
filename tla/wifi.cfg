SPECIFICATION FairSpec
CONSTANTS
  app = app
  settings = settings
  Task = {app, settings}
  Mortal = {app}
  Asks <- AsksOf
  QueueLen = 1
  DialRetries = 1
  HangUpRetries = 1
  MaxRetryNum = 1
  MaxEvents = 2
  Faults = {"disconnect", "set_mode", "set_config"}
INVARIANTS
  TypeOK
  StatusTellsTheLink
PROPERTIES
  CallersAreAnswered
  RetriesEnd
CHECK_DEADLOCK FALSE
