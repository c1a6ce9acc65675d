CONSTANTS
  main = main
  other = other
  waiter = waiter
  worker = worker
  Clients = {main}
  Workers = {worker}
  Allowed <- LiveAllowed
  Configs <- LivePolicies
  ExitCodes = {0}
  OomWatch = FALSE
  InitsDie = TRUE
  MaxPid = 2
  MaxCrash = 0
SPECIFICATION FairSpec
PROPERTY StopReturns
 
