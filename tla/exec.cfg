CONSTANTS
  e1 = e1
  c1 = c1
  c2 = c2
  Sessions = {e1}
  Callers = {c1, c2}
  MaxOut = 1
  MaxRuns = 2
SPECIFICATION FairSpec
INVARIANT StartedOnce
INVARIANT OutputWhole
PROPERTY CodeSettles
 
CHECK_DEADLOCK FALSE
