CONSTANTS
  main = main
  other = other
  waiter = waiter
  worker = worker
  Clients = {main, other}
  Workers = {worker}
  Allowed <- ConcurrentAllowed
  Configs <- OnFailureOnce
  ExitCodes = {1}
  OomWatch = TRUE
  InitsDie = TRUE
  MaxPid = 1
  MaxCrash = 0
SPECIFICATION Spec
INVARIANT TypeOK
PROPERTY RemovedStaysRemoved
