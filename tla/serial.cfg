CONSTANTS
  main = main
  other = other
  waiter = waiter
  worker = worker
  Clients = {main, waiter}
  Workers = {}
  Allowed <- SerialAllowed
  Configs <- NoPolicy
  ExitCodes = {0, 1}
  OomWatch = FALSE
  InitsDie = TRUE
  MaxPid = 2
  MaxCrash = 1
SPECIFICATION Spec
 
 
INVARIANT PidMapFresh
INVARIANT NoDoubleClose
 
 
PROPERTY WaitTruth
