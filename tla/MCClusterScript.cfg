SPECIFICATION Spec
CONSTANTS
  o = o
  w1 = w1
  w2 = w2
  w3 = w3
  Machines <- MCMachines
  Limit <- MCLimit
  Deployments <- MCFull
INVARIANT
  ScriptSucceededMeansItDid
