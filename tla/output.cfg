CONSTANTS
  c1 = c1
  c2 = c2
  r1 = r1
  Readers = {r1}
  MaxSize = 1
  MaxFiles = 2
  MaxToken = 1
  MaxFailures = 1
  Tails <- TailOptions
  Clients = {c1, c2}
  Interactive = {c1}
  Setups <- SomeSetups
  PipeSize = 1
  ConnSize = 1
SPECIFICATION FairSpec
INVARIANT LogFaithful
 
INVARIANT ReaderInOrder
INVARIANT ReaderWhole
INVARIANT AttachContiguous
INVARIANT EarlyOutputKept
INVARIANT PipesDrained
CHECK_DEADLOCK FALSE
PROPERTY CloseReturns
