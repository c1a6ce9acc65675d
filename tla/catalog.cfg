CONSTANTS
  Callers = {"a", "b", "c"}
  Requesters = {"a", "b", "c"}
  VolumeNames = {"data", "new"}
  NamedSources = {"data", "new"}
  AnonymousNames = {"x1", "x2", "x3"}
  ImageIds = {"i1", "i2", "i3"}
  Refs = {"app", "app:1", "i2"}
  Full <- FullNames
  Tagged = {"app:1"}
  Setups <- RaceSetups
  World <- OldWorld
  Generated = {"bold"}
  Prefix <- ShortIds
  MaxFaults = 1
SPECIFICATION FairSpec
 
 
INVARIANT InheritedReadOnly
PROPERTY RequestsEnd
CHECK_DEADLOCK FALSE
