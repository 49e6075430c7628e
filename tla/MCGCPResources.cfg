SPECIFICATION Spec
CONSTANTS
  m1 = m1
  m2 = m2
  m3 = m3
  spare = spare
  Machines <- MCMachines
  Spare <- MCSpare
  MaxRetries <- MCMaxRetries
  NoAddress = NoAddress
INVARIANTS
  TypeOK
  AddressNotShared
  RecordedHaveVMs
  OkMeansCreated
  NothingLeftRunning
PROPERTIES
  Termination
  ImplementsVMCreation
