SPECIFICATION Spec
CONSTANTS
  first = first
  second = second
  east = east
  west = west
  a = a
  b = b
  c = c
  None = None
  Torn = Torn
  Deployments = {first, second}
  Regions = {east, west}
  Machines = {a, b, c}
  OwnerOf <- MCOwnerOf
  RegionOf <- MCRegionOf
  Quota = 1
  MaxFaults = 1
INVARIANTS
  NetworksAreListed
  InstancesAwaitAllNetworks
  ProvisioningAwaitsEveryMachine
  NothingCreatedAfterReturn
  TypeOK
PROPERTIES
  EndListsVPCs
