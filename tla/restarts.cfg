CONSTANTS
  main = main
  other = other
  waiter = waiter
  worker = worker
  Clients = {main}
  Workers = {worker}
  Allowed <- RestartAllowed
  Configs <- OnFailureOnce
  ExitCodes = {1}
  OomWatch = FALSE
  InitsDie = TRUE
  MaxPid = 2
  MaxCrash = 0
SPECIFICATION Spec
INVARIANT RestartsBounded
