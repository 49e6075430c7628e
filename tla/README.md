# A verification project for andaime

andaime is a command-line program that creates the machines of a Bacalhau cluster in
Azure, GCP or AWS, or takes machines that exist, and installs one orchestrator and its
compute nodes on them. This directory holds TLA+ modules translated from its Go source,
TLC configurations that check them on small instances, and proofs that TLAPS checks.
Paths below are relative to the repository.

## 1. The system

| Component | State | Operations | Hard behaviour |
| --- | --- | --- | --- |
| Machine and deployment records (`pkg/models`) | service and resource table per machine behind a mutex; address, node type, failure flag without one; the map of machines behind `deploymentMutex` | setters, `IsComplete`, `GetMachines`, `InstallDockerAndCorePackages` | readers of the map that take no lock; a flag nobody reads |
| Cluster deployer (`pkg/providers/common/cluster_deployer.go`) | writes the records of all machines; on each machine files, packages and a systemd unit | `ProvisionBacalhauCluster`, `ProvisionOrchestrator`, `ProvisionWorker`, the steps of `ProvisionBacalhauNode` | an errgroup with a limit; every step may fail; the orchestrator must come first |
| GCP (`cmd/beta/gcp`, `pkg/providers/gcp`) | addresses, VMs, network in the cloud; records; configuration file | project, APIs, network, firewall; `createResources`, `CreateAndConfigureVM`; polling; destroy | goroutines over an unbuffered channel, retries of calls that may have succeeded, deletion from a shared map |
| Azure (`cmd/beta/azure`, `pkg/providers/azure`) | resource group, deployments; records | `CreateResources` per region, `deployTemplateWithRetry`, `StartResourcePolling`, destroy | polling beside deployment, both writing the same tables |
| Commands without records (`andaime aws`, `cmd/andaime.go`) | nothing on disk: tags in the cloud; a list of addresses and a retry counter in memory | create, destroy, list | errors are printed and passed over; retries start at another call than the one that failed |
| AWS (`cmd/beta/aws`, `pkg/providers/aws`) | a VPC with its parts per region, instances; records; configuration file | infrastructure per region, clean-up at the VPC limit, VMs in parallel, wait for SSH, destroy | check and act on shared VPCs; two layouts of the configuration |
| Command life cycle (`runDeploymentAsync`, `pkg/display/global.go`, `cmd/root.go`) | context, display program, deployment goroutine, signal goroutine | run, quit, cancel | who waits for whom at the end |
| Display (`pkg/display`) | update queue, text, timers | `UpdateStatus`, `ProcessUpdate`, rendering | a status meant as text rewrites service states |
| Machine configuration (`machine_config.go`) | the machines of a deployment | `ProcessMachinesConfig` | which machine becomes orchestrator |
| Destruction and configuration file (`destroy*.go`, `pkg/utils/config.go`) | one YAML file | find, destroy, delete record | concurrent read-modify-write |
| SSH (`pkg/sshutils`) | connection | execute, push, install and restart a unit, `WaitForSSH` | retries against a time limit |
| Single-node provisioner (`cmd/beta/provision`) | update channel | `runProvision` | a channel that is not closed on error |

How they interact: a create command builds the deployment from the configuration, starts
the display, a polling goroutine and a deployment goroutine. The deployment goroutine
creates the cloud resources (one goroutine per worker on GCP, per region on Azure and
AWS), then calls the cluster deployer, which drives every machine over SSH and reports to
the display. All of them share the map of machines.

What makes each component correct:

- cluster deployer: orchestrator first; a truthful answer; nothing left running; one
  failure does not stop the others; a service reads Succeeded only if it serves;
- GCP creation: no address for two VMs; only machines that have a VM are recorded and
  handed on; no goroutine left; it returns;
- Azure creation: every machine the cloud has can be found again from the file, whenever
  the process ends; a truthful answer; polling, which writes the same table, settles on
  what the cloud has;
- AWS creation: the file is whole and lists the networks when they are ready, although
  regions write viper and the file side by side; each stage waits for all of the one
  before; a clean-up takes only what is abandoned;
- `andaime aws`: retries and repetitions make one network; nodes of one command join the
  same orchestrators; destroying gets everything in the end;
- life cycle: every way to end does end, and waits for the work it interrupted;
- machine configuration: exactly one orchestrator, and the count that is checked is the
  count that is made;
- destruction: success means that the resources are gone, and no writer of the file
  undoes another;
- provisioner: every message is shown before it reports success.

## 2. The modules

| Module | What it models |
| --- | --- |
| `MachineServices` | the service table of a machine and the rule of `updateServiceStates`; constant operators |
| `ClusterProvisioning` | abstract: what provisioning a cluster promises |
| `ClusterDeployer` | `ProvisionBacalhauCluster` and the steps of every node; extends `MachineServices`, implements `ClusterProvisioning` |
| `VMCreation` | abstract: what creating the VMs of a cluster promises |
| `GCPResources` | `createResources` of the GCP command, with address allocation and VM creation against a cloud; implements `VMCreation` |
| `MachineConfig` | `ProcessMachinesConfig`; constant operators |
| `AzureDeployment` | an Azure deployment until its machines answer, with polling; extends `MachineConfig` |
| `AWSDeployment` | AWS deployments that share an account: networks, clean-up at the VPC limit, instances |
| `LegacyAWS` | `andaime aws create` and `andaime aws destroy` |
| `ConfigFile` | the configuration file, viper, and the deployments its records stand for |
| `DestroyCommand`, `CreateCommand` | `destroy` and `create` of the three providers; extend `ConfigFile` |
| `ProvisionCommand` | `provision` of a single node |
| `Commands` | composition of the last three: one command after the other on one file |
| `ClusterDeployer_proofs`, `GCPResources_proofs`, `AWSDeployment_proofs`, `AzureDeployment_proofs`, `LegacyAWS_proofs`, `Commands_proofs` | theorems about these modules |
| `MC...` | instances for TLC |

### ClusterDeployer

`phase`, `orchestratorIP`, `todo`, `slots`, `groupErr` are the locals of
`ProvisionBacalhauCluster` and its errgroup; `pc` is the step each node is at; `service`,
`nodeType`, `nodeIP` are fields of the `Machine`; `installed`, `loaded`, `scriptExit` are
the state of the machine at the other end of SSH: what has been put there, what was there
when the bacalhau unit last started, and how the custom script ended. `deployment` holds
what provisioning reads and never writes.

There is one action per step of `ProvisionBacalhauNodeWithCallback`, each with the success
and the failure of its command, and one per stage of `ProvisionBacalhauCluster`
(`FindOrchestratorMachine`, `OrchestratorReturns`, `LaunchWorker`, `WorkerReturns`,
`Wait`). Service updates that nothing can interleave with in a way another goroutine reads
are merged into the step they belong to. The context that the errgroup cancels is no part
of the state, because no function of the SSH layer that the steps call looks at it.

Abstracted: commands and files are names of what they put in place; an address is the
machine that has it; the progress callback is left out, `ProvisionBacalhauNode` passes one
that does nothing.

### GCPResources

The variables are the machine map and the fields of its machines, the locals of
`createResources`, the locals of `CreateAndConfigureVM` for each machine, the context, and
the cloud (`reserved`, `vmAddress`). A call to the cloud is one action for success and one
for failure, and a failure may come before or after the call took effect. The deletion
from the machine map races with readers that hold no lock; its outcomes are the deletion
and the end of the process. `Cancel` is a signal or a failure of the display program, and
the process ends at any time after it.

`recorded` is what viper has been given. The file has it as well if there is a configuration
file and its writes succeed, which is assumed: `writeConfig` logs a failure and goes on
(`create_deployment.go:381-383`).

Abstracted: zones, images and keys; validation and preparation of an instance are part of
the failure before the VM exists. The suffix of an address name is the attempt's number:
two random suffixes are taken to differ.

### MachineConfig and AzureDeployment

An entry of `azure.machines` is a record; a machine is its entry's position and its number
in it. `OrchestratorsCounted` and `CountOfMachines` keep the two ways in which the code
reads a count: a negative one lets several orchestrators through, which is why
`OneOrchestrator` speaks of counts that are not negative.

`AzureDeployment` has the fields of the machines, `phase` of `runDeployment`, the goroutine
of each region, `deployMachine` of each machine, the map of records in viper, the file, and
the cloud. Polling is a second writer of `vmResource`: it compares in one step and sets in
another, so it can lower a state that the deployment has set in between; the next poll
repairs that (`ShownStateSettles`). The map of records is read, changed and stored without
a lock by the regions: `holds` names the map object a goroutine has, so that the
loss of a region's records is a behaviour of the model (the file gets them again in
`UpdateMachineConfig`, whose first write replaces the map). `Exit` wipes the memory of the
process at any step.

As the code has it: the address is asked of an interface with a fixed name, so that a
machine gets one only if somebody owns that interface (section 4); a DNS conflict at the
last retry is swallowed and the VM marked Succeeded without an address. The wait for SSH
does not look at the address: an empty one is dialled as `":22"`, the host andaime runs
on, whose ssh server may take the key. `Reachable` has it so, and `OkMeansReachable`
therefore says nothing of a machine without an address but that its service reads
Succeeded. An error of `NewSSHConfig` leaves the ssh service in Updating;
`CancelAllDeployments` finds no cancel function. Abstracted: names, templates and sizes;
the file is assumed writable (a failure is logged, no more); a cancelled command shows in
the errors that any call may return.

### AWSDeployment

For each command: `phase` of `runDeployment`, the goroutine `at` of each region, what it
registered (`known`), its clean-up (`todo`, `victim`), viper and the file; for each machine
the goroutine `vm`. The cloud has the parts of each VPC and the instances. One action per call,
with its success and, while `MaxFaults` lasts, its failure before or after it took
effect. Calls that find something missing fail without counting.

A region writes its VPC three times: after the security group, after the DNS attribute
(`SaveVPCConfig`), both without a lock, and at its end under `ConfigMutex`
(`saveInfrastructureToConfig`). `viper.Set` replaces the map of another goroutine that found
none at the same time (`RecordVPCInNewMap`). `WriteConfig` is two steps: the file is
truncated and the goroutine has a snapshot in `draft` (`BeginWrite`); then it is written
(`WriteConfig`), and if another write landed in between, what comes out may have left-over
entries or be torn (`Torn`). A failed write is a warning for the first two and an error for
the third; of the command's last write, whose failure is only logged, success is assumed.

As the code has it: the clean-up takes every tagged VPC for abandoned; the wait for SSH
marks a machine as reachable however it ends, and provisioning goes on under a log
line "All VMs are accessible via SSH"; a machine without an address ends the wait
beside the goroutines started before; a gateway made but not attached is found by
nobody; after the user's `q` the command does not wait (`ReturnWhenCanceled`). The display
is told to quit after a success and when a region will not do ("refused"); after any other
failure the command stays in the display until somebody presses a key
(`CompleteAfterKey`, which is not fair).
`Machine.Parameters` is never set, so the spot path of `deployVM` cannot run and is left out.
Unlocked maps may end the process, which is `Exit`. Each command has a file of its own here;
one file for several commands is the matter of `Commands`.

### LegacyAWS

One action per call of `createVPCAndSG`, `createInstanceInRegion` and
`deleteTaggedResources`, with the retry counter of each goroutine and where another try
starts. `ips` is the slice to which the orchestrators' goroutines append without a lock
(`ReadIPs`, `AppendIP`). `clean` counts destroys in a row that met neither a fault nor a
signal.

As the code has it: a retry of a network finds its VPC and never makes the parts that
are missing; in the loops of `deleteTaggedResources` `continue` goes to the next item
instead of the next try; the number of orchestrators is held to one for the flag only
(`README.md:91` says "Max: 1"); create returns nil whatever happened. A destroy goes
against the order of dependencies, so that three are needed where `GETTING_STARTED.md:39`
promises to "Cleanly tear down all AWS resources"; the mutant of `ThreeDestroysSuffice`
shows how tight the three are.
Assumed: regions without duplicates, one command at a time, and that `DescribeVpcs` sees a
VPC that has just been made, on which `AtMostOneVPC` rests. The retries that the SDK makes
by itself are left out. Instances of a region
are abstracted to whether some run and whether some are on their way out.

### The commands

`ConfigFile` keeps what `os.WriteFile` does: `Truncate`, then `Write` at the writer's own
offset. A second writer between the two may leave a mixture or `Torn`, a file that no
longer parses and at which every later command ends. `draft` is what a goroutine is about to
write, `viper` the copy in the process. A deployment in `cloud` is "absent" once its
deletion was accepted.

`DestroyCommand` has the goroutines of `destroy --all` of GCP and the sequential loops of
the others: the retry loop, `DestroyProject` with its unlocked read-modify-write,
`DeleteUniqueIDFromConfig` under the mutex of `pkg/utils/config.go`.
`CreateCommand` has the command's goroutine, the display, the deployment's goroutine and
the unbuffered `quitChan`, and abstracts what the deployment creates, which the modules
above model, to whether it exists. `ProvisionCommand` has validation, the settings file
and the unbuffered channel to the printing goroutine. `Commands` begins one when the
one before has ended: memory goes, file and cloud stay.

As the code has it, and therefore excepted from or reached by the properties:

- `DestroyProject` deletes the whole top-level section `gcp` (its comment: "Remove empty GCP
  key"), so that the next GCP command, or a goroutine of the same `destroy --all` that
  starts after viper was read again, fails for want of `gcp.organization_id`. Written without
  the mutex, its copy brings records back, or drops those of live deployments of other
  providers. `destroy --all` of GCP also asks for projects by label, which is why
  `SuccessMeansAllGone` holds, and why it is stated for GCP only.
- Azure takes every key below `azure` of a record for a resource group: for a key that is a
  setting no group is found, and the record goes although the group may stay.
- AWS looks for deployments under `deployments.aws`, where none is written: nothing is
  destroyed, and the record goes.
- A failed deployment does not end the display (`AwaitsKey`). The GCP command does not wait
  for its deployment when the display fails, nor the AWS command when it is cancelled.
- A unique ID has the resolution of a minute; `RunCreate` takes it to be new.
- The projects of the tool are taken to carry its label, by which `destroy --all` finds them.
- A write of the file takes effect: an error of `WriteConfig`, which the create commands only
  log, is not modelled.
- An error of `provision` leaves the printing goroutine and may lose the last message.
- The display's update queue is nil: all updates are dropped; `--test` is read too
  early to have an effect. Neither has a behaviour to model.

## 3. The runs

| Run | Shows |
| --- | --- |
| `cluster` | type invariant, order, truthfulness, independence of failures, termination, refinement |
| `cluster_failure` | violation: a failure in `ProvisionMachine` leaves the service in Updating |
| `cluster_completion` | violation: a node that went through every step is not complete |
| `cluster_script` | violation: a failing custom script is reported as Succeeded |
| `gcp_resources` | type invariant, no shared address, records and answer are true, nothing left running, termination, refinement |
| `azure` | type invariant, one orchestrator, machines always to be found, nothing left running, truthful answer, polling settles, termination |
| `azure_empty_host` | violation: the wait for SSH succeeds for a machine without an address |
| `aws` | type invariant, networks listed in a whole file although regions tear it, what is listed at the end, stages wait for each other, nothing created after the return |
| `aws_shared` | termination |
| `aws_cleanup` | violation: a clean-up takes the routes of a deployment that runs |
| `legacy_aws` | type invariant, one VPC, all nodes told alike, three destroys suffice, termination |
| `commands` | type invariant, file and cloud after create and destroy, messages all shown, every command ends |

Bounds.

- `cluster` has an orchestrator and three workers on two slots (the code has five slots),
  so that the launching loop blocks, a slot is taken over after a success and after
  a failure, and the first error comes before, between and after the others. On two workers
  it takes all combinations of settings, script, provider and a missing public address of
  the orchestrator; single deployments cover no orchestrator, two, and a failed one. About
  134,000 states.
- `gcp_resources` lets the configuration name any one to three machines with
  at most one orchestrator (`ProcessMachinesConfig` refuses more), two attempts per address
  (the code has three) and one spare address. About 78,000 states. Two workers suffice to
  have two goroutines compete for an address and one succeed after the other has failed.
- `azure` takes two regions side by side, a region with two machines one after the other,
  and lists that are refused; two template attempts and two of addresses, so
  that each loop repeats and runs out. It has both a project with and one without
  the interface that the code asks for.
- `aws` has one command with two regions, so that one fails, is behind or writes while the
  other does, and a second one with a machine in the first region, which has room for one
  VPC, so that somebody must clean up; one fault. `aws_shared` has the same two commands in
  that one region, one of them with two machines, and two faults: TLC checks liveness there,
  since on the states of `aws` it takes too long. `MaxFaults` bounds only failures without a
  cause in the model: those that follow from the clean-up or from an earlier failure are
  free, so that the one fault, before or after its effect, meets every interleaving with
  them, and so does one failed write. About 1,790,000 and 115,000 states.
- `legacy_aws` has two orchestrators and two computes in one region (regions
  share only the list of addresses, which two nodes of one region share as well), two
  tries, two faults to use them up, and four commands: a create and three destroys.
- `commands` has two GCP deployments, one of Azure and one of AWS, of which all but the last
  may have been left with or without record and resource; two commands in a row, two
  attempts of `retry` (the code has three), four messages of a node. `provision` touches
  nothing the others do and is begun in one state of the rest. About 250,000 states.

Fairness. Goroutines that can run are eventually run, and every command over SSH and every
call to a cloud eventually returns a result or an error; that the SSH layer sets no time
limit on a command is an assumption about the other end, not a guarantee of the code. In
`GCPResources` and `CreateCommand` a process that got a signal ends (`setupSignalHandling`
exits two seconds later); that it gets one is never assumed. In `AzureDeployment` the
cloud gets done with every template and polling repeats until something ends it; in
`LegacyAWS` instances that are told to stop do. In `Commands` and `AWSDeployment` nobody
has to press a key, which is why `CommandEnds` has its exception in both. All fairness is
weak: a slot or a lock, once free, is waited for by one loop, or by goroutines that are
jointly fair.

`ImplementsClusterProvisioning` and `ImplementsVMCreation` are safety only: that the calls
return is `Termination`.

## 4. Findings

1. `ProvisionBacalhauNodeWithCallback` returns the error of `ProvisionMachine` without
   `HandleDeploymentError`, against its comment; bacalhau stays in Updating.
2. `NewDisplayStatusWithText` leaves `CorePackages` and `CustomScript` at their zero value,
   NotStarted, so a status sent for its text resets the core-packages service; with
   `IsComplete` counting services and ignoring the flag of `SetComplete`, a finished node
   is never complete, against the comment of the function.
3. The custom script runs on the left of a pipe into `tee`; its failure is not seen, against
   the test that expects an error.
4. The check "host cannot be empty" of `NewSSHConfig` sits in a function that only its test
   calls. A machine without an address is dialled as `":22"`, and its ssh service reads
   Succeeded when the local host answers.
5. `cleanupAbandonedVPCs` calls every VPC of the tool abandoned, those of running
   deployments included.

Further disagreements, which the models have as the code has them, are named in section 2.
Also: an orchestrator without a public IP makes `ProvisionBacalhauCluster` return nil with
no worker provisioned (`OkMeansAllProvisioned` names that case), and the custom script runs
after the restart, not before it. `ListAddresses` returns `iterator.Done` as an error, so
that no address is ever reused or released, against the comments of `tryAllocateIP`;
repairing that alone would let two goroutines choose one address, which is what the mutant
of `AddressNotShared` shows. `GetVMIPAddresses` reads the ID of a machine's interface and
then asks for `test-network-interface`, against the comment at that place.

## 5. What is proved

`ClusterDeployer_proofs` proves, for any finite set of machines, any positive limit and any
set of deployments, that every reachable state of `ClusterDeployer` satisfies `TypeOK`
(theorem `Typing`), `WorkersFollowOrchestrator` (`OrchestratorFirst`),
`SucceededMeansServing` (`SucceededServes`) and `OkMeansAllProvisioned` (`OkIsTruthful`),
and that the module implements `ClusterProvisioning` (`Refinement`). Two further theorems
state, in the terms of the code, what no run checks by itself because the refinement
implies it: no step follows the return (`ReturnIsFinal`), and once there is an orchestrator
there is no return before every worker has succeeded or failed (`EveryWorkerIsTried`, the
safety half of `FailureStopsNoOther`). The assumptions are those the modules name:
`LimitAssumption`, `MachinesAssumption`, `DeploymentsAssumption`, `AddressAssumption`.

None of these properties is inductive alone: `SucceededMeansServing` says nothing of a node
between two steps, and `OkMeansAllProvisioned` nothing before the return. The inductive
invariant `IInv` adds

- `ProgressInv`: for each node, what the steps behind it have left on the machine and in
  its service table;
- `PhaseInv`: for each phase, who works and who has finished. While the orchestrator is
  provisioned the workers are idle; while workers are launched the orchestrator is done,
  those at work hold a slot, those to come are in `todo`, and an error is noted if one has
  failed; after the return nobody works.

A step of a node preserves the first by looking at that step alone, and the second because
it changes neither phase nor slots; a step of the cluster does the converse. The refinement
maps `pc` to four states and `phase` to the outcome. The slots bound the busy machines,
which is where finiteness of `Machines` and the theorems on cardinality are used.

`GCPResources_proofs` proves, for any finite set of machines, any spare addresses and any
positive number of retries, `TypeOK` (theorem `GCPTyping`), `AddressNotShared`
(`AddressesNotShared`), `RecordedHaveVMs` (`RecordsAreTrue`), `OkMeansCreated`
(`GCPOkIsTruthful`) and `NothingLeftRunning` (`NoGoroutineLeft`), and that the module
implements `VMCreation` (`CreationRefinement`), from `RetriesAssumption` and
`NamesAssumption`. Its inductive invariant adds

- `VMInv`: for each machine, what `CreateAndConfigureVM` has done by the point it has
  reached. That an address is named after its machine is what keeps two claims apart, and
  it holds because nothing is ever found in a listing;
- `MainInv`: while results are collected, `uncollected` is the number of goroutines that
  owe one (`Owing`), and a machine that owes none is recorded or was deleted. This is the
  argument of `NothingLeftRunning`: when the count is zero nobody is in his send;
- `RunningInv`: a machine whose goroutine runs is still in the deployment.

A step of a goroutine leaves `Owing` alone, because a goroutine ends only when its result is
received (lemma `VMStepLeavesMain`); a step of `createResources` changes set and count
together (`MainStep`). In the refinement a goroutine makes its VM, learns of it or fails, and
`createResources` records, gives up or announces; attempts at addresses are stutters. A
goroutine that runs belongs to a machine that is due (`RunningIsDue`): it is the
orchestrator's, or the orchestrator has been recorded.

`AWSDeployment_proofs` proves, for any sets of commands, regions and machines, any quota and
any number of faults, `TypeOK` (theorem `AWSTyping`), `NetworksAreListed`
(`NetworksStayListed`), `EndListsVPCs` (`VPCsListedAtEnd`), `InstancesAwaitAllNetworks`
(`InstancesAwaitNetworks`), `ProvisioningAwaitsEveryMachine` (`ProvisioningAwaitsAll`) and
`NothingCreatedAfterReturn` (`NothingCreatedLater`), from `MachinesAssumption` and
`BoundsAssumption`. Its inductive invariant adds

- `RegionInv`: for each region of a command, what its goroutine has left in the register
  and the cloud by the call it is at. A region that has not made its VPC has nothing in the
  cloud, which is why a VPC whose creation failed has no parts; a clean-up only takes
  parts, so that it disturbs none of this in another command;
- `PhaseInv` and `VMInv`: where the regions and the machines of a command are, by its phase;
- `FileInv`: what is in the file. Nothing is said of it while regions are at work, when it
  may be torn or lack entries. But one region at most is in the write of
  `saveInfrastructureToConfig`, and the region that is there when all others are through
  meets nobody else's write: the file is empty, and its draft has every VPC, since each
  was registered before (`LastSaves`). When all regions are through, the file is therefore
  whole and has them all, and nobody writes it until the command's end, which writes what is
  registered. An instance is asked for only then, which gives the second half of
  `NetworksAreListed`, for processes that end anywhere.

A step of a region is summed up by `Frame`: it leaves phases and machines alone, and moves
no region that is connected or has failed. The steps of `runDeployment` are one lemma on
what a phase needs to be entered (`Reached`), applied to each. What steps do to the file is
treated apart: most begin no save and end none (`QuietStep`), the others are the two halves of
a write (`BeginKeeps`, `WriteKeeps`), the entry of a phase and the end of a process.

`AzureDeployment_proofs` proves, for any sets of machines, any bounds of the two retry loops
and any addresses, `TypeOK` (theorem `AzureTyping`), `EveryVMIsListed` (`VMsStayListed`),
`NothingRunsAfterReturn` (`RegionsAreAwaited`), `OkMeansReachable` (`AzureOkIsTruthful`; for
a machine with an address it says that the VM is deployed and was answered at that address),
and, for configurations without
negative counts, `OneOrchestrator` (`OrchestratorIsUnique`; its lemma `OneIsChosen` shows
that the count that is checked is then the count that is made). The assumptions are
`BoundsAssumption`, `AddressesAssumption`, `NamesAssumption` and, of `MachineConfig`,
`DefaultCountAssumption`. The inductive invariant adds

- `OrchestratorInv`: the choice is made once, before anything is created;
- `GroupInv`: no template before the phase `create`, and from there on the group is known
  and in the file. A writer that loses records never loses the group, which is the argument
  of `EveryVMIsListed`;
- `RegionInv`: where the goroutine of each machine is, by its region and the phase; a region
  has one machine at work at a time;
- `MachineInv`, `HoldInv`: what the steps behind a machine have established, and what a step
  holds between its reading and its writing.

`Exit` may come anywhere and wipes the memory of the process. Its result is treated with the
initial states, as the state of a process that holds nothing (`Restarted`).

`LegacyAWS_proofs` proves, for any sets of regions and nodes, any number of tries, faults
and commands, `TypeOK` (theorem `LegacyTyping`), `AtMostOneVPC` (`OneVPCAtMost`),
`ComputesToldAlike` (`ComputesAreToldAlike`) and `ThreeDestroysSuffice` (`ThreeDestroys`),
from `NodesAssumption` and `BoundsAssumption`. The inductive invariant adds

- `RegionInv`, for each region: where its goroutine can be, by the command; which parts of
  the network are there when others are; and what undisturbed destroys in a row leave.
  The last is the argument of `ThreeDestroysSuffice`: each destroy removes the layer that
  held the next one in place, and `DestroyState` says, for each number of destroys in a row
  and each call, which layers are gone;
- `CountInv`: how destroys in a row are counted;
- `NodeInv`: where the goroutines of the nodes are and which addresses they have seen. The
  orchestrators are waited for before a compute reads the list.

`Commands_proofs` proves, for any deployments of any of the three providers, any number of
attempts, messages and commands, `TypeOK` (theorem `CommandsTyping`),
`CreateLeavesWholeFile` (`CreateIsWaitedFor`), `SuccessMeansAllGone` (`SuccessIsTruthful`),
`SuccessShrinksFile` (`SuccessRemovesRecord`) and `ShownUpdates` (`UpdatesAreShown`), from
`ProviderAssumption`, `BeforeAssumption`, `WritersAssumption`, `TornAssumption`,
`AttemptsAssumption`, `MaxMessagesAssumption` and `MaxCommandsAssumption`. The inductive
invariant adds

- `OneCommand`, `GoroutineInv`: who may run under each command; the holder of the mutex is
  the one that writes or reloads;
- `GoneInv`: a project that is still there has failed, is yet to come, or has its
  destruction ahead of it, which is the argument of `SuccessMeansAllGone`;
- `RecordsInv`, `ShrinkInv`: the argument of `SuccessShrinksFile`. Writers without the mutex
  may bring records back, but only those that were there at the beginning, and only while they
  run; the last goroutine that has a record to remove (`Pending`) removes it with nobody left
  to write it again;
- `CreateInv`, `LastWriteInv`: both writers of a creation write what viper holds, and the
  last write meets no other;
- `MessagesInv`: which messages were sent by each step of `provision`.

A step of a destroying goroutine is summed up twice, by what it changes (`Effect`) and by
what it does to the file (`Shrinks`); the invariants are preserved by any step so summed up.

Every invariant and every safety property of a step that a passing run checks is thereby
stated by a theorem. Only model-checked: liveness (`Termination`, `CreateResourcesReturns`,
`ShownStateSettles`, `CommandEnds`, `FailureStopsNoOther`), which under fairness is out of
the prover's reach. The instances of the runs remain the only evidence for them.

## 6. Not modelled, and the plan

Not modelled:

- what the display draws, its timers and its colours; its updates, which are dropped;
- the GCP project, APIs, network, firewall and polling beyond one step that succeeds or
  fails: calls in a row that nothing runs beside;
- commands of two terminals on one configuration file at once;
- the listing commands, which read only; the spot path and the simulation, which cannot run;
- sessions, keys and the retry intervals of the SSH layer: what a command does to a
  machine is part of the step that sends it;
- generated code and data, mocks, logging.

Hazards that no property covers are in `PROJECT.json` with the reason.

Worth stating and proving next:

1. an abstract specification of commands that share an account (networks before instances,
   instances before provisioning, nothing after the return), implemented by
   `AWSDeployment`;
2. an abstract specification of a command on the configuration file (what it may do to the
   records of others), implemented by the parts of `Commands` that hold the mutex.
