SPECIFICATION Spec
CONSTANTS
  east = east
  o1 = o1
  o2 = o2
  c1 = c1
  c2 = c2
  Given = Given
  None = None
  Regions = {east}
  Orchestrators = {o1, o2}
  Computes = {c1, c2}
  RegionOf <- MCRegionOf
  Tries = 2
  MaxFaults = 2
  MaxCommands = 4
INVARIANTS
  TypeOK
  AtMostOneVPC
  ComputesToldAlike
  ThreeDestroysSuffice
PROPERTIES
  CommandEnds
