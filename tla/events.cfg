CONSTANTS
  p1 = p1
  p2 = p2
  s1 = s1
  s2 = s2
  Publishers = {p1, p2}
  Subscribers = {s1, s2}
  Cap = 1
  MaxEvents = 2
  Setups <- SomeSetups
SPECIFICATION FairSpec
INVARIANT NeverSendsOnClosed
INVARIANT MapTruth
PROPERTY ImplementsFeed
PROPERTY NobodyBlocks
CHECK_DEADLOCK FALSE
