CONSTANTS
  bridge = bridge
  n1 = n1
  n2 = n2
  c1 = c1
  c2 = c2
  Ids = {bridge}
  Default = bridge
  Names = {"a"}
  Ctrs = {c1, c2}
  MaxSubnet = 1
  Explicit = {}
  Internals = {FALSE}
  MaxOffset = 3
  Ports = {80}
  Publishes <- OnePublishes
  MaxCrash = 1
  MaxConnect = 3
SPECIFICATION Spec
INVARIANT LiveAddressesUnique
