SPECIFICATION FairSpec
CONSTANTS
  daemon = daemon
  periodic = periodic
  once = once
  uid = uid
  None = none
  App = {daemon, periodic, once}
  restart_on_failure = {daemon}
  run_once = {once}
  last_block = {once}
  start_every <- Every
  start_delay <- Delay
  application <- Uid
  Faults = {"nvs_open", "open", "write", "close", "rename", "load", "nvs_set"}
  ChildrenLen = 2
INVARIANTS
  TypeOK
  HaltHasCause
  OneInstance
  RunOnceIsFinal
PROPERTY SupervisionWorks
