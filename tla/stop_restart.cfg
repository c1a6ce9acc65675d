CONSTANTS
  main = main
  other = other
  waiter = waiter
  worker = worker
  Clients = {main}
  Workers = {worker}
  Allowed <- StartStop
  Configs <- Always
  ExitCodes = {0}
  OomWatch = FALSE
  InitsDie = FALSE
  MaxPid = 2
  MaxCrash = 0
SPECIFICATION Spec
PROPERTY StopPreventsRestart
CHECK_DEADLOCK FALSE
