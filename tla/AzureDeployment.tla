--------------------------- MODULE AzureDeployment ---------------------------
(***************************************************************************)
(* An Azure deployment up to the point where its machines answer over SSH: *)
(* prepareDeployment, PrepareResourceGroup, CreateResources with one       *)
(* goroutine per region (pkg/providers/azure/deploy.go), the records they  *)
(* leave in the configuration, and StartResourcePolling, which rewrites    *)
(* the machines' resource states beside them (pkg/providers/azure/         *)
(* provider.go, pkg/models/types.go).                                      *)
(*                                                                         *)
(* The cloud is a resource group, the state of each machine's template     *)
(* deployment, and the network interfaces.  An address is named after the  *)
(* interface that has it.                                                  *)
(***************************************************************************)
EXTENDS MachineConfig

CONSTANTS
  Configurations,   \* the <provider>.machines lists considered
  TemplateRetries,  \* maxRetries of deployTemplateWithRetry
  IPRetries,        \* ipRetries
  Slots,            \* models.NumberOfSimultaneousProvisionings
  NoAddress, Placeholder, TestInterface, NoMachine

ASSUME BoundsAssumption ==
  /\ TemplateRetries \in Nat \ {0}
  /\ IPRetries \in Nat \ {0}
  /\ Slots \in Nat \ {0}

Machines == UNION {ConfiguredMachines(c) : c \in Configurations}
Locations == UNION {{c[i].location : i \in DOMAIN c} : c \in Configurations}

ASSUME AddressesAssumption ==
  /\ Cardinality({NoAddress, Placeholder, TestInterface, NoMachine}) = 4
  /\ {NoAddress, Placeholder, TestInterface, NoMachine} \cap Machines = {}

Interfaces == Machines \cup {TestInterface}
Addresses == Interfaces \cup {NoAddress, Placeholder}

VARIABLES
  config,         \* the list in the configuration file
  orchestrators,  \* machines with Machine.Orchestrator
  publicIP,       \* Machine.PublicIP
  vmResource,     \* the state of the VM in Machine.machineResources
  ssh,            \* the state of the ssh service
  phase,          \* where runDeployment is
  region,         \* each region's goroutine
  pc,             \* where deployMachine is, for each machine
  attempt,        \* the counter of the loop deployTemplateWithRetry is in
  holds,          \* the map of records deployMachine has read from viper
  contents,       \* each such map; it is named after the machine that made it
  records,        \* the map viper has now
  groupKnown,     \* viper has the resource group
  file,           \* the configuration file: the group and its machines
  group,          \* the cloud: the resource group
  template,       \* the cloud: the deployment of each machine's template
  testInterface,  \* the cloud: somebody's interface has the hard-coded name
  pollPc,         \* where StartResourcePolling is
  toConvert,      \* what is left of the query's answer
  held            \* the resource whose state was compared and is about to be set

deploymentVars == <<config, orchestrators, publicIP, vmResource, ssh>>
mainVars == <<phase, region>>
machineVars == <<pc, attempt>>
viperVars == <<holds, contents, records, groupKnown, file>>
cloudVars == <<group, template, testInterface>>
pollVars == <<pollPc, toConvert, held>>
vars == <<deploymentVars, mainVars, machineVars, viperVars, cloudVars, pollVars>>

ASSUME NamesAssumption == IsFiniteSet(Machines) /\ IsFiniteSet(Locations)

GetMachines == IF phase = "configure" THEN {} ELSE ConfiguredMachines(config)
MachinesIn(r) == {m \in GetMachines : LocationOf(config, m) = r}
Regions == {LocationOf(config, m) : m \in GetMachines}

Nothing == <<NoMachine, "absent">>
NoFile == [group |-> FALSE, machines |-> {}]

Init ==
  /\ config \in Configurations
  /\ phase = "configure"
  /\ orchestrators = {}
  /\ publicIP = [m \in Machines |-> NoAddress]
  /\ vmResource = [m \in Machines |-> "NotStarted"]
  /\ ssh = [m \in Machines |-> "NotStarted"]
  /\ region = [r \in Locations |-> "waiting"]
  /\ pc = [m \in Machines |-> "queued"]
  /\ attempt = [m \in Machines |-> 1]
  /\ holds = [m \in Machines |-> NoMachine]
  /\ contents = [m \in Machines |-> {}]
  /\ records = NoMachine
  /\ groupKnown = FALSE
  /\ pollPc = "waiting" /\ toConvert = {} /\ held = Nothing
  /\ file = NoFile
  /\ group = FALSE
  /\ template = [m \in Machines |-> "none"]
  /\ testInterface \in BOOLEAN

Goto(m, step) == pc' = [pc EXCEPT ![m] = step]

------------------------------------------------------------------------------
(* runDeployment up to CreateResources. *)

\* PrepareDeployment and ProcessMachinesConfig.
PrepareDeployment ==
  /\ phase = "configure"
  /\ IF Refused(config)
     THEN phase' = "error" /\ UNCHANGED orchestrators
     ELSE phase' = "group" /\ orchestrators' \in OrchestratorChoices(config)
  /\ UNCHANGED <<config, publicIP, vmResource, ssh, region>>
  /\ UNCHANGED <<machineVars, viperVars, cloudVars, pollVars>>

\* The group may exist after a call that failed.
PrepareResourceGroup ==
  /\ phase = "group"
  /\ \/ group' = TRUE /\ groupKnown' = TRUE /\ phase' = "write"
     \/ group' \in {group, TRUE} /\ phase' = "failed" /\ UNCHANGED groupKnown
  /\ UNCHANGED <<deploymentVars, region, machineVars>>
  /\ UNCHANGED <<holds, contents, records, file, template, testInterface, pollVars>>

\* What viper has of this deployment.
InMemory ==
  [group |-> groupKnown,
   machines |-> IF records = NoMachine THEN {} ELSE contents[records]]

\* Mutant: the file is left for the end of the command.
WriteConfigLater ==
  /\ phase = "write"
  /\ phase' = "create"
  /\ UNCHANGED <<deploymentVars, region, machineVars>>
  /\ UNCHANGED <<viperVars, cloudVars, pollVars>>

WriteConfig ==
  /\ phase = "write"
  /\ file' = InMemory
  /\ phase' = "create"
  /\ UNCHANGED <<deploymentVars, region, machineVars>>
  /\ UNCHANGED <<holds, contents, records, groupKnown, cloudVars, pollVars>>

------------------------------------------------------------------------------
(* deployMachine with deployTemplateWithRetry. *)

Counter(m, n) == attempt' = [attempt EXCEPT ![m] = n]

\* The machine's error ends its region's goroutine.
Fails(m) ==
  /\ Goto(m, "failed") /\ Counter(m, 1)
  /\ region' = [region EXCEPT ![LocationOf(config, m)] = "failed"]

Continues == UNCHANGED region

\* The first region's error cancels the errgroup's context, and with it the calls made
\* from then on.  A cancelled command shows in the errors that any call may return.
ContextDone == \E r \in Locations : region[r] = "failed"

DeployTemplate(m) ==
  /\ pc[m] = "template"
  /\ \/ /\ ~ContextDone
        /\ template' = [template EXCEPT ![m] = "running"]
        /\ Goto(m, "poll") /\ Continues /\ UNCHANGED attempt
     \/ /\ template' \in {template, [template EXCEPT ![m] = "running"]}
        /\ Fails(m)
  /\ UNCHANGED <<deploymentVars, phase>>
  /\ UNCHANGED <<viperVars, group, testInterface, pollVars>>

\* Mutant: one attempt more than maxRetries.
PollTemplateOnceMore(m) ==
  /\ pc[m] = "poll"
  /\ \/ template[m] = "Succeeded" /\ Goto(m, "addresses") /\ Counter(m, 1) /\ Continues
     \/ /\ template[m] = "conflict" /\ Continues
        /\ IF attempt[m] <= TemplateRetries
           THEN Counter(m, attempt[m] + 1) /\ Goto(m, "template")
           ELSE Counter(m, 1) /\ Goto(m, "load")
     \/ Fails(m)
  /\ UNCHANGED <<deploymentVars, phase>>
  /\ UNCHANGED <<viperVars, cloudVars, pollVars>>

\* Mutant: a conflict of names is tried again without counting.
PollTemplateForever(m) ==
  /\ pc[m] = "poll"
  /\ \/ template[m] = "Succeeded" /\ Goto(m, "addresses") /\ Counter(m, 1) /\ Continues
     \/ template[m] = "conflict" /\ Goto(m, "template") /\ Continues /\ UNCHANGED attempt
     \/ Fails(m)
  /\ UNCHANGED <<deploymentVars, phase>>
  /\ UNCHANGED <<viperVars, cloudVars, pollVars>>

\* PollUntilDone.  A conflict of DNS names is tried again with another name; after the
\* last one nothing but a message says so, and the caller is told nothing.
PollTemplate(m) ==
  /\ pc[m] = "poll"
  /\ \/ template[m] = "Succeeded" /\ Goto(m, "addresses") /\ Counter(m, 1) /\ Continues
     \/ /\ template[m] = "conflict" /\ Continues
        /\ IF attempt[m] < TemplateRetries
           THEN Counter(m, attempt[m] + 1) /\ Goto(m, "template")
           ELSE Counter(m, 1) /\ Goto(m, "load")
     \/ Fails(m)
  /\ UNCHANGED <<deploymentVars, phase>>
  /\ UNCHANGED <<viperVars, cloudVars, pollVars>>

\* GetVMIPAddresses reads the interface's ID and then asks for another name.
InterfaceAskedFor(m) == TestInterface

\* The interface of a VM is named after it.
InterfacesPresent ==
  {m \in Machines : template[m] = "Succeeded"}
    \cup (IF testInterface THEN {TestInterface} ELSE {})

\* A public address that cannot be read is left empty.
GetAddresses(m) ==
  /\ pc[m] = "addresses"
  /\ InterfaceAskedFor(m) \in InterfacesPresent
  /\ \E a \in {InterfaceAskedFor(m), NoAddress} : publicIP' = [publicIP EXCEPT ![m] = a]
  /\ vmResource' = [vmResource EXCEPT ![m] = "Succeeded"]
  /\ Goto(m, "load") /\ Counter(m, 1)
  /\ UNCHANGED <<config, orchestrators, ssh, mainVars>>
  /\ UNCHANGED <<viperVars, cloudVars, pollVars>>

\* The client itself tries an interface three times, and its "exceeded maximum retries"
\* is final; any other error is tried again, with a placeholder as the machine's address.
GetAddressesFails(m) ==
  /\ pc[m] = "addresses"
  /\ \/ Fails(m) /\ UNCHANGED publicIP
     \/ /\ attempt[m] < IPRetries
        /\ Counter(m, attempt[m] + 1)
        /\ publicIP' = [publicIP EXCEPT ![m] = Placeholder]
        /\ Continues /\ UNCHANGED pc
  /\ UNCHANGED <<config, orchestrators, vmResource, ssh, phase>>
  /\ UNCHANGED <<viperVars, cloudVars, pollVars>>

\* The record goes into the map that viper has, or into a new one.  Two regions do this
\* at once without a lock.
LoadRecords(m) ==
  /\ pc[m] = "load"
  /\ vmResource' = [vmResource EXCEPT ![m] = "Succeeded"]
  /\ holds' = [holds EXCEPT ![m] = IF records = NoMachine THEN m ELSE records]
  /\ Goto(m, "store")
  /\ UNCHANGED <<config, orchestrators, publicIP, ssh, mainVars, attempt>>
  /\ UNCHANGED <<contents, records, groupKnown, file, cloudVars, pollVars>>

StoreRecords(m) ==
  /\ pc[m] = "store"
  /\ contents' = [contents EXCEPT ![holds[m]] = @ \cup {m}]
  /\ records' = holds[m]
  /\ holds' = [holds EXCEPT ![m] = NoMachine]
  /\ ssh' = [ssh EXCEPT ![m] = "Updating"]
  /\ Goto(m, "ssh")
  /\ UNCHANGED <<config, orchestrators, publicIP, vmResource, mainVars>>
  /\ UNCHANGED <<attempt, groupKnown, file, cloudVars, pollVars>>

\* Whether somebody may answer at the machine's address.  Nobody looks at it before it is
\* dialled, and an empty one is dialled too: that is the host andaime runs on, whose own
\* ssh server may take the key.
Reachable(m) == publicIP[m] \in InterfacesPresent \cup {NoAddress}

\* WaitForSSH tries at once, before it looks at the context.
WaitForSSH(m) ==
  /\ pc[m] = "ssh"
  /\ Reachable(m)
  /\ ssh' = [ssh EXCEPT ![m] = "Succeeded"]
  /\ Goto(m, "up")
  /\ UNCHANGED <<config, orchestrators, publicIP, vmResource, mainVars>>
  /\ UNCHANGED <<attempt, viperVars, cloudVars, pollVars>>

\* NewSSHConfig fails without a word to the ssh service.
WaitForSSHFails(m) ==
  /\ pc[m] = "ssh"
  /\ ssh' \in {ssh, [ssh EXCEPT ![m] = "Failed"]}
  /\ Fails(m)
  /\ UNCHANGED <<config, orchestrators, publicIP, vmResource, phase>>
  /\ UNCHANGED <<viperVars, cloudVars, pollVars>>

DeployMachine(m) ==
  \/ DeployTemplate(m) \/ PollTemplate(m)
  \/ GetAddresses(m) \/ GetAddressesFails(m)
  \/ LoadRecords(m) \/ StoreRecords(m)
  \/ WaitForSSH(m) \/ WaitForSSHFails(m)

------------------------------------------------------------------------------
(* CreateResources. *)

\* errgroup.Go waits for a slot; it starts a region even in a cancelled group.
StartRegion(r) ==
  /\ phase = "create"
  /\ r \in Regions /\ region[r] = "waiting"
  /\ Cardinality({q \in Locations : region[q] = "running"}) < Slots
  /\ region' = [region EXCEPT ![r] = "running"]
  /\ UNCHANGED <<deploymentVars, phase, machineVars>>
  /\ UNCHANGED <<viperVars, cloudVars, pollVars>>

\* A region's machines are deployed one after the other, in no particular order.
NextMachine(r) ==
  /\ phase = "create" /\ region[r] = "running"
  /\ \A m \in MachinesIn(r) : pc[m] \in {"queued", "up"}
  /\ \/ /\ \E m \in MachinesIn(r) : pc[m] = "queued" /\ Goto(m, "template")
        /\ UNCHANGED region
     \/ /\ \A m \in MachinesIn(r) : pc[m] = "up"
        /\ region' = [region EXCEPT ![r] = "ok"]
        /\ UNCHANGED pc
  /\ UNCHANGED <<deploymentVars, phase, attempt>>
  /\ UNCHANGED <<viperVars, cloudVars, pollVars>>

\* Mutant: the first error is returned while other regions still run.
WaitForFirstError ==
  /\ phase = "create"
  /\ \/ /\ \A r \in Regions : region[r] = "ok"
        /\ phase' = "record"
     \/ /\ \E r \in Regions : region[r] = "failed"
        /\ phase' = "failed"
  /\ UNCHANGED <<deploymentVars, region, machineVars>>
  /\ UNCHANGED <<viperVars, cloudVars, pollVars>>

\* Mutant: it is enough that one region succeeded.
WaitForAnySuccess ==
  /\ phase = "create"
  /\ \A r \in Regions : region[r] \in {"ok", "failed"}
  /\ phase' = IF \E r \in Regions : region[r] = "ok" THEN "record" ELSE "failed"
  /\ UNCHANGED <<deploymentVars, region, machineVars>>
  /\ UNCHANGED <<viperVars, cloudVars, pollVars>>

\* errgroup.Wait.
WaitForRegions ==
  /\ phase = "create"
  /\ \A r \in Regions : region[r] \in {"ok", "failed"}
  /\ phase' = IF \A r \in Regions : region[r] = "ok" THEN "record" ELSE "failed"
  /\ UNCHANGED <<deploymentVars, region, machineVars>>
  /\ UNCHANGED <<viperVars, cloudVars, pollVars>>

CreateResources ==
  \/ WaitForRegions
  \/ \E r \in Locations : StartRegion(r) \/ NextMachine(r)

\* updateMachineConfig writes each machine under the group's key.  The first one finds a
\* map of another type there, and viper replaces it.
UpdateMachineConfig(m) ==
  /\ phase \in {"record", "recording"}
  /\ m \in GetMachines
  /\ IF phase = "record"
     THEN records' = m /\ contents' = [contents EXCEPT ![m] = {m}]
     ELSE /\ m \notin contents[records]
          /\ contents' = [contents EXCEPT ![records] = @ \cup {m}]
          /\ UNCHANGED records
  /\ file' = [group |-> groupKnown, machines |-> contents'[records']]
  /\ phase' = IF file'.machines = GetMachines THEN "ok" ELSE "recording"
  /\ UNCHANGED <<deploymentVars, region, machineVars>>
  /\ UNCHANGED <<holds, groupKnown, cloudVars, pollVars>>

\* handleDeploymentCompletion writes the file whatever happened.
HandleDeploymentCompletion ==
  /\ phase = "failed"
  /\ file' = InMemory
  /\ phase' = "error"
  /\ UNCHANGED <<deploymentVars, region, machineVars>>
  /\ UNCHANGED <<holds, contents, records, groupKnown, cloudVars, pollVars>>

Running == phase \notin {"ok", "error", "exited"}

\* After a signal the process ends, whatever its goroutines are at: the file and the cloud
\* are what it leaves.
Exit ==
  /\ Running
  /\ phase' = "exited"
  /\ orchestrators' = {}
  /\ publicIP' = [m \in Machines |-> NoAddress]
  /\ vmResource' = [m \in Machines |-> "NotStarted"]
  /\ ssh' = [m \in Machines |-> "NotStarted"]
  /\ region' = [r \in Locations |-> "waiting"]
  /\ pc' = [m \in Machines |-> "queued"]
  /\ attempt' = [m \in Machines |-> 1]
  /\ holds' = [m \in Machines |-> NoMachine]
  /\ contents' = [m \in Machines |-> {}]
  /\ records' = NoMachine
  /\ groupKnown' = FALSE
  /\ pollPc' = "waiting" /\ toConvert' = {} /\ held' = Nothing
  /\ UNCHANGED <<config, file, cloudVars>>

\* The cloud works on a template whether or not somebody still waits for it.
DeployInCloud(m) ==
  /\ template[m] = "running"
  /\ \E s \in {"Succeeded", "Failed", "conflict"} : template' = [template EXCEPT ![m] = s]
  /\ UNCHANGED <<deploymentVars, mainVars, machineVars, viperVars>>
  /\ UNCHANGED <<group, testInterface, pollVars>>

------------------------------------------------------------------------------
(* StartResourcePolling and PollResources. *)

\* The numeric order of MachineResourceState.
ResourceStates == {"NotStarted", "Pending", "Succeeded", "Failed"}
Rank == [s \in ResourceStates |-> CASE s = "NotStarted" -> 1
                                   [] s = "Pending"    -> 2
                                   [] s = "Succeeded"  -> 4
                                   [] s = "Failed"     -> 6]

\* ConvertFromAzureStringToResourceState of what the query returns for a VM; one whose
\* public name conflicts is never created.
VMShown(m) ==
  CASE template[m] = "running"                -> "Pending"
    [] template[m] \in {"Succeeded", "Failed"} -> template[m]
    [] OTHER                                  -> "absent"

\* One query; its answer is converted by GetResources and once more by PollResources.
\* The other resources of the group are shown, and nothing else reads them.
PollResources ==
  /\ pollPc = "waiting" /\ group
  /\ LET shown == {<<m, VMShown(m)>> : m \in {n \in GetMachines : VMShown(n) # "absent"}}
     IN  shown # {} /\ toConvert' = {1, 2} \X shown
  /\ pollPc' = "convert"
  /\ UNCHANGED <<deploymentVars, mainVars, machineVars, viperVars, cloudVars, held>>

NextItem(left) == IF left = {} THEN "waiting" ELSE "convert"

\* Mutant: only a resource not heard of yet is updated.
IsNew(m, state) == vmResource[m] = "NotStarted"

MachineNeedsUpdating(m, state) == Rank[vmResource[m]] < Rank[state]

\* The state is read, compared and set in separate critical sections.
ConvertResource(item) ==
  /\ pollPc = "convert"
  /\ item \in toConvert /\ \A other \in toConvert : item[1] <= other[1]
  /\ toConvert' = toConvert \ {item}
  /\ IF MachineNeedsUpdating(item[2][1], item[2][2])
     THEN pollPc' = "set" /\ held' = item[2]
     ELSE pollPc' = NextItem(toConvert \ {item}) /\ UNCHANGED held
  /\ UNCHANGED <<deploymentVars, mainVars, machineVars, viperVars, cloudVars>>

SetMachineResource ==
  /\ pollPc = "set"
  /\ vmResource' = [vmResource EXCEPT ![held[1]] = held[2]]
  /\ held' = Nothing
  /\ pollPc' = NextItem(toConvert)
  /\ UNCHANGED <<config, orchestrators, publicIP, ssh, mainVars, machineVars>>
  /\ UNCHANGED <<viperVars, cloudVars, toConvert>>

\* A failed query, a panic, the user's q, or the context.  CancelAllDeployments, called
\* for the first, finds no cancel function in the context: the deployment goes on.  The
\* other way out, that every machine is complete, cannot happen yet: their services
\* are installed later.
PollingEnds ==
  /\ pollPc # "ended"
  /\ pollPc' = "ended" /\ toConvert' = {} /\ held' = Nothing
  /\ UNCHANGED <<deploymentVars, mainVars, machineVars, viperVars, cloudVars>>

Convert ==
  \/ \E item \in toConvert : ConvertResource(item)
  \/ SetMachineResource

------------------------------------------------------------------------------
RunDeployment ==
  \/ PrepareDeployment \/ PrepareResourceGroup \/ WriteConfig
  \/ CreateResources \/ \E m \in Machines : UpdateMachineConfig(m)

Poll == PollResources \/ Convert

Next ==
  \/ /\ phase # "exited"
     /\ \/ RunDeployment \/ HandleDeploymentCompletion
        \/ \E m \in Machines : DeployMachine(m)
        \/ Poll \/ PollingEnds
  \/ Exit
  \/ \E m \in Machines : DeployInCloud(m)
  \/ ~Running /\ UNCHANGED vars

\* Goroutines are scheduled, calls to the cloud return, and it gets done with every
\* template.  Polling goes on while nothing ends it.
Fairness ==
  /\ WF_vars(phase # "exited" /\ RunDeployment)
  /\ \A m \in Machines : WF_vars(phase # "exited" /\ DeployMachine(m))
  /\ \A m \in Machines : WF_vars(DeployInCloud(m))
  /\ WF_vars(phase # "exited" /\ Poll)

Spec == Init /\ [][Next]_vars /\ Fairness

------------------------------------------------------------------------------
(* Properties. *)

TypeOK ==
  /\ config \in Configurations
  /\ orchestrators \in SUBSET Machines
  /\ publicIP \in [Machines -> Addresses]
  /\ vmResource \in [Machines -> ResourceStates]
  /\ ssh \in [Machines -> {"NotStarted", "Updating", "Succeeded", "Failed"}]
  /\ phase \in {"configure", "group", "write", "create", "record", "recording",
                "ok", "failed", "error", "exited"}
  /\ region \in [Locations -> {"waiting", "running", "ok", "failed"}]
  /\ pc \in [Machines -> {"queued", "template", "poll", "addresses", "load", "store",
                          "ssh", "up", "failed"}]
  /\ attempt \in [Machines -> 1..TemplateRetries \cup 1..IPRetries]
  /\ holds \in [Machines -> Machines \cup {NoMachine}]
  /\ contents \in [Machines -> SUBSET Machines]
  /\ records \in Machines \cup {NoMachine}
  /\ groupKnown \in BOOLEAN
  /\ file \in [group : BOOLEAN, machines : SUBSET Machines]
  /\ group \in BOOLEAN
  /\ template \in [Machines -> {"none", "running", "Succeeded", "Failed", "conflict"}]
  /\ testInterface \in BOOLEAN
  /\ pollPc \in {"waiting", "convert", "set", "ended"}
  /\ toConvert \in SUBSET ({1, 2} \X (Machines \X ResourceStates))
  /\ held \in (Machines \X ResourceStates) \cup {Nothing}

\* A deployment that goes on has exactly one orchestrator: the count that is checked and
\* the count that is made agree (machine_config.go:100, 308), for counts that are not
\* negative.
OneOrchestrator ==
  phase \notin {"configure", "error", "exited"} => Cardinality(orchestrators) = 1

\* Whatever the moment the process ends at, a machine the cloud has, or is making, can
\* be found again: its group is in the configuration file already, since the file is
\* written before the first template is sent.
EveryVMIsListed == \A m \in Machines : template[m] # "none" => file.group

\* No region is at work on a machine once CreateResources has returned, with or without
\* an error: the group's Wait waits for them all.
NothingRunsAfterReturn ==
  phase \in {"record", "recording", "ok", "failed", "error"} =>
    \A m \in Machines : pc[m] \in {"queued", "up", "failed"}

\* When CreateResources returns nil, the ssh service of every machine is ready, and one
\* that has an address has a VM behind it and was answered at that address.  Of a machine
\* without an address nothing more can be said: the local host may have answered for it,
\* and after a conflict of names it may have no VM (HostIsNotEmpty).
OkMeansReachable ==
  phase \in {"record", "recording", "ok"} =>
    \A m \in GetMachines :
      /\ ssh[m] = "Succeeded"
      /\ publicIP[m] # NoAddress =>
           template[m] = "Succeeded" /\ publicIP[m] \in InterfacesPresent

\* "host cannot be empty" (ssh_config.go:364): no connection stands for a machine whose
\* address is empty.  NewSSHConfig puts the check into a function that only its test calls.
HostIsNotEmpty == \A m \in Machines : ssh[m] = "Succeeded" => publicIP[m] # NoAddress

\* Although polling compares and sets a state in separate steps beside the deployment,
\* which sets it too, the table settles on what the cloud has, as long as polling goes
\* on.
ShownStateSettles ==
  \A m \in Machines :
    <>[](\/ pollPc = "ended" \/ phase = "exited"
         \/ template[m] \in {"Succeeded", "Failed"} => vmResource[m] = template[m])

\* CreateResources returns: every retry is bounded, and a cancelled context is noticed.
CreateResourcesReturns == phase = "create" ~> phase # "create"
==============================================================================
