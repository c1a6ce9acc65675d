CONSTANTS
  bridge = bridge
  n1 = n1
  n2 = n2
  c1 = c1
  c2 = c2
  Ids = {bridge, n1, n2}
  Default = bridge
  Names = {"a"}
  Ctrs = {c1, c2}
  MaxSubnet = 2
  Explicit = {}
  Internals = {TRUE, FALSE}
  MaxOffset = 3
  Ports = {80}
  Publishes <- OnePublishes
  MaxCrash = 1
  MaxConnect = 3
SPECIFICATION Spec
SYMMETRY Symmetry
INVARIANT TypeOK
INVARIANT AddressesUnique
INVARIANT AddressesAccounted
INVARIANT DnsTruthful
INVARIANT RulesOwned
INVARIANT NetworkHeld
 
PROPERTY RollbackExact
