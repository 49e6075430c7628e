SPECIFICATION Spec
CONSTANTS
  east = east
  west = west
  NoAddress = NoAddress
  Placeholder = Placeholder
  TestInterface = TestInterface
  NoMachine = NoMachine
  DefaultCount = 1
  TemplateRetries = 2
  IPRetries = 2
  Slots = 2
  Configurations <- MCConfigurations
INVARIANTS
  HostIsNotEmpty
