SPECIFICATION Spec
CONSTANTS
  Deployments <- MCDeployments
  Provider <- MCProvider
  Before <- MCBefore
  Main = Main
  Worker = Worker
  Torn = Torn
  NoOne = NoOne
  Attempts = 2
  MaxMessages = 4
  MaxCommands = 2
  g1 = g1
  g2 = g2
  z = z
  w = w
INVARIANTS
  TypeOK
  CreateLeavesWholeFile
  SuccessMeansAllGone
  SuccessShrinksFile
  ShownUpdates
PROPERTIES
  CommandEnds
