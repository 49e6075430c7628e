SPECIFICATION Spec
CONSTANTS
  first = first
  second = second
  east = east
  west = east
  a = a
  b = b
  c = c
  None = None
  Torn = Torn
  Deployments = {first, second}
  Regions = {east}
  Machines = {a, b, c}
  OwnerOf <- MCOwnerOf
  RegionOf <- MCRegionOf
  Quota = 1
  MaxFaults = 1
INVARIANTS
  CleanUpSparesLiveNetworks
