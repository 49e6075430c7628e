---------------------------- MODULE AWSDeployment ----------------------------
(***************************************************************************)
(* `andaime beta aws create` up to the provisioning of the cluster:        *)
(* runDeployment (cmd/beta/aws/create_deployment.go), the networks of its  *)
(* regions, built by one goroutine each, the clean-up of abandoned VPCs    *)
(* when a region is full, and the instances (pkg/providers/aws/            *)
(* provider.go, aws_compute_operations.go).                                *)
(*                                                                         *)
(* Several commands share an account.  A command makes at most one VPC in  *)
(* a region, so that a VPC is named after its deployment and its region,   *)
(* and what the cloud has of it is the set of steps that took effect.      *)
(***************************************************************************)
EXTENDS Integers, FiniteSets, Sequences

CONSTANTS
  Deployments, Regions, Machines,
  OwnerOf, RegionOf,   \* the deployment and the region of each machine
  Quota,               \* how many VPCs of this tool fit into a region
  MaxFaults,           \* calls that fail for reasons of their own
  None,
  Torn                 \* all that is in a file that no reader can parse

ASSUME MachinesAssumption ==
  /\ OwnerOf \in [Machines -> Deployments]
  /\ RegionOf \in [Machines -> Regions]

ASSUME BoundsAssumption ==
  /\ Quota \in Nat \ {0}
  /\ MaxFaults \in Nat
  /\ None \notin Deployments
  /\ Torn \notin Regions

MachinesOf(d) == {m \in Machines : OwnerOf[m] = d}
RegionsOf(d) == {RegionOf[m] : m \in MachinesOf(d)}

VARIABLES
  phase,    \* where runDeployment of a command is
  at,       \* the goroutine that sets a region up
  known,    \* regions whose VPC is in RegionalResources
  viper,    \* those in viper: below the deployment's record, and elsewhere
  draft,    \* what the goroutine of a region has read from viper and is about to write
  file,     \* those in the command's configuration file
  todo,     \* the VPCs a clean-up has yet to deal with
  victim,   \* the VPC it deals with, and how far it is
  vm,       \* the goroutine that deploys a machine, later the one that waits for it
  net,      \* the cloud: what there is of each network
  inst,     \* the cloud: the machines with an instance
  faults

configVars == <<viper, draft, file>>
commandVars == <<phase, known, configVars>>
cleanUpVars == <<todo, victim>>
cloudVars == <<net, inst>>
vars == <<commandVars, at, cleanUpVars, vm, cloudVars, faults>>

\* The calls that make a network, in their order.
Steps == <<"vpc", "sg", "rules", "record", "dns", "subnets", "gateway", "attach",
           "table", "route", "associate", "save">>

Parts == {Steps[i] : i \in DOMAIN Steps} \ {"record", "save"}

StepAfter(s) ==
  LET i == CHOOSE j \in DOMAIN Steps : Steps[j] = s
  IN  IF i = Len(Steps) THEN "ok" ELSE Steps[i + 1]

\* What a call needs to find in the cloud.
Needs ==
  [vpc |-> {}, sg |-> {"vpc"}, rules |-> {"sg"}, dns |-> {"vpc"}, subnets |-> {"vpc"},
   gateway |-> {"vpc"}, attach |-> {"vpc", "gateway"}, table |-> {"vpc"},
   route |-> {"table", "attach"}, associate |-> {"table", "subnets"}]

Stages == <<"subnets", "groups", "tables", "gateways", "vpc">>

Idle == [vpc |-> None, stage |-> 1]

NothingSet == [record |-> {}, extra |-> {}]
NoDrafts == [r \in Regions |-> {}]

Init ==
  /\ phase = [d \in Deployments |-> "start"]
  /\ at = [d \in Deployments |-> [r \in Regions |-> "waiting"]]
  /\ known = [d \in Deployments |-> {}]
  /\ viper = [d \in Deployments |-> NothingSet]
  /\ draft = [d \in Deployments |-> NoDrafts]
  /\ file = [d \in Deployments |-> {}]
  /\ todo = [d \in Deployments |-> [r \in Regions |-> {}]]
  /\ victim = [d \in Deployments |-> [r \in Regions |-> Idle]]
  /\ vm = [m \in Machines |-> "waiting"]
  /\ net = [d \in Deployments |-> [r \in Regions |-> {}]]
  /\ inst = {}
  /\ faults = 0

Fault == faults < MaxFaults /\ faults' = faults + 1
NoFault == UNCHANGED faults

Goto(d, r, s) == at' = [at EXCEPT ![d][r] = s]

------------------------------------------------------------------------------
(* CreateInfrastructure, and CreateRegionalResources with its goroutines. *)

\* All regions are looked at before anything is created.  For one that will not do, the
\* display is told to quit.
CreateInfrastructure(d) ==
  /\ phase[d] = "start"
  /\ \/ phase' = [phase EXCEPT ![d] = "network"] /\ NoFault
     \/ phase' = [phase EXCEPT ![d] = "refused"] /\ Fault
  /\ UNCHANGED <<at, known, configVars, cleanUpVars, vm, cloudVars>>

SetupRegionalInfrastructure(d, r) ==
  /\ phase[d] = "network"
  /\ r \in RegionsOf(d) /\ at[d][r] = "waiting"
  /\ \/ Goto(d, r, "vpc") /\ NoFault
     \/ Goto(d, r, "failed") /\ Fault
  /\ UNCHANGED <<commandVars, cleanUpVars, vm, cloudVars>>

VPCsIn(r) == {d \in Deployments : "vpc" \in net[d][r]}
Full(r) == Cardinality(VPCsIn(r)) >= Quota

\* Mutant: the VPC is registered when the rest of its set-up is done.
CreateVpcRegisteredLater(d, r) ==
  /\ at[d][r] \in {"vpc", "vpcAgain"}
  /\ ~Full(r)
  /\ \/ /\ net' = [net EXCEPT ![d][r] = @ \cup {"vpc"}]
        /\ Goto(d, r, "sg") /\ NoFault
     \/ /\ net' \in {net, [net EXCEPT ![d][r] = @ \cup {"vpc"}]}
        /\ Goto(d, r, "failed") /\ Fault
  /\ UNCHANGED <<commandVars, cleanUpVars, vm, inst>>

\* CreateVpc as createVPCInfrastructure calls it: it is known as soon as it is made.
CreateVpc(d, r) ==
  /\ at[d][r] \in {"vpc", "vpcAgain"}
  /\ ~Full(r)
  /\ \/ /\ net' = [net EXCEPT ![d][r] = @ \cup {"vpc"}]
        /\ known' = [known EXCEPT ![d] = @ \cup {r}]
        /\ Goto(d, r, "sg") /\ NoFault
     \/ /\ net' \in {net, [net EXCEPT ![d][r] = @ \cup {"vpc"}]}
        /\ Goto(d, r, "failed") /\ Fault
        /\ UNCHANGED known
  /\ UNCHANGED <<phase, configVars, cleanUpVars, vm, inst>>

\* Mutant: as long as the region is full it is cleaned up again.
VpcLimitExceededAgain(d, r) ==
  /\ at[d][r] \in {"vpc", "vpcAgain"}
  /\ Full(r)
  /\ Goto(d, r, "list") /\ NoFault
  /\ UNCHANGED <<commandVars, cleanUpVars, vm, cloudVars>>

\* createVPCWithRetry cleans up once.
VpcLimitExceeded(d, r) ==
  /\ at[d][r] \in {"vpc", "vpcAgain"}
  /\ Full(r)
  /\ Goto(d, r, IF at[d][r] = "vpc" THEN "list" ELSE "failed") /\ NoFault
  /\ UNCHANGED <<commandVars, cleanUpVars, vm, cloudVars>>

\* Any other call of the set-up.  One that fails may have taken effect, as may part of
\* a step that is several calls; the tries of the gateway's two calls are one step.
Call(d, r, s) ==
  /\ at[d][r] = s
  /\ LET made == [net EXCEPT ![d][r] = @ \cup {s}]
     IN  \/ /\ Needs[s] \subseteq net[d][r]
            /\ net' = made /\ Goto(d, r, StepAfter(s)) /\ NoFault
         \/ /\ Needs[s] \subseteq net[d][r]
            /\ net' \in {net, made} /\ Goto(d, r, "failed") /\ Fault
         \/ /\ ~(Needs[s] \subseteq net[d][r])
            /\ UNCHANGED net /\ Goto(d, r, "failed") /\ NoFault
  /\ UNCHANGED <<commandVars, cleanUpVars, vm, inst>>

CreateSecurityGroup(d, r) == Call(d, r, "sg")

AuthorizeIngress(d, r) == Call(d, r, "rules")

CreateRegionalSubnets(d, r) == Call(d, r, "subnets")

CreateInternetGateway(d, r) == Call(d, r, "gateway")

AttachInternetGateway(d, r) == Call(d, r, "attach")

CreateRouteTable(d, r) == Call(d, r, "table")

CreateInternetGatewayRoute(d, r) == Call(d, r, "route")

AssociatePublicSubnets(d, r) == Call(d, r, "associate")

CreateNetwork(d, r) ==
  \/ CreateSecurityGroup(d, r) \/ AuthorizeIngress(d, r) \/ CreateRegionalSubnets(d, r)
  \/ CreateInternetGateway(d, r) \/ AttachInternetGateway(d, r)
  \/ CreateRouteTable(d, r) \/ CreateInternetGatewayRoute(d, r)
  \/ AssociatePublicSubnets(d, r)

------------------------------------------------------------------------------
(* The configuration file.  viper has no lock, and every write of the file truncates it, *)
(* takes what viper has, and writes that.                                                *)

\* viper.Set, and WriteConfig up to the write itself.
BeginWrite(d, r, memory, next) ==
  /\ viper' = [viper EXCEPT ![d] = memory]
  /\ draft' = [draft EXCEPT ![d][r] = memory.record \cup memory.extra]
  /\ file' = [file EXCEPT ![d] = {}]
  /\ Goto(d, r, next)

\* The VPC's ID goes below the deployment's record.  viper makes the maps on the way to
\* it when it finds none.
RecordVPC(d, r) ==
  /\ at[d][r] = "record"
  /\ IF viper[d].record = {}
     THEN Goto(d, r, "recordNew") /\ UNCHANGED configVars
     ELSE BeginWrite(d, r, [viper[d] EXCEPT !.record = @ \cup {r}], "recordWrite")
  /\ UNCHANGED <<phase, known, cleanUpVars, vm, cloudVars, faults>>

\* They replace what another goroutine has made since.
RecordVPCInNewMap(d, r) ==
  /\ at[d][r] = "recordNew"
  /\ BeginWrite(d, r, [viper[d] EXCEPT !.record = {r}], "recordWrite")
  /\ UNCHANGED <<phase, known, cleanUpVars, vm, cloudVars, faults>>

\* ModifyVpcAttribute, after which SaveVPCConfig sets the ID once more.
EnableDns(d, r) ==
  /\ at[d][r] = "dns"
  /\ \/ /\ "vpc" \in net[d][r]
        /\ net' = [net EXCEPT ![d][r] = @ \cup {"dns"}]
        /\ BeginWrite(d, r, [viper[d] EXCEPT !.record = @ \cup {r}], "dnsWrite") /\ NoFault
     \/ /\ IF "vpc" \in net[d][r] THEN Fault ELSE NoFault
        /\ Goto(d, r, "failed") /\ UNCHANGED <<net, configVars>>
  /\ UNCHANGED <<phase, known, cleanUpVars, vm, inst>>

\* Mutant: nothing keeps two regions from saving at once.
SaveInfrastructureUnlocked(d, r) ==
  /\ at[d][r] = "save"
  /\ BeginWrite(d, r, [viper[d] EXCEPT !.extra = known[d]], "saveWrite")
  /\ UNCHANGED <<phase, known, cleanUpVars, vm, cloudVars, faults>>

\* saveInfrastructureToConfig, under ConfigMutex: the IDs of every VPC that is known go
\* below a key of their own, since nothing has set the deployment's ViperPath.
SaveInfrastructure(d, r) ==
  /\ at[d][r] = "save"
  /\ \A q \in Regions : at[d][q] # "saveWrite"
  /\ BeginWrite(d, r, [viper[d] EXCEPT !.extra = known[d]], "saveWrite")
  /\ UNCHANGED <<phase, known, cleanUpVars, vm, cloudVars, faults>>

AfterWrite == [recordWrite |-> "dns", dnsWrite |-> "subnets", saveWrite |-> "ok"]

\* What may come of a write.  Since the file was truncated another write may have landed:
\* this one overwrites it from its start, and what sticks out may be more entries.
Written(d, r) ==
  IF file[d] = {} THEN {draft[d][r]}
  ELSE {{Torn}} \cup {draft[d][r] \cup more : more \in SUBSET (file[d] \ {Torn})}

\* The write.  Its error is a warning, but for the last one.
WriteConfig(d, r) ==
  /\ at[d][r] \in DOMAIN AfterWrite
  /\ draft' = [draft EXCEPT ![d][r] = {}]
  /\ \/ /\ \E w \in Written(d, r) : file' = [file EXCEPT ![d] = w]
        /\ Goto(d, r, AfterWrite[at[d][r]]) /\ NoFault
     \/ /\ file' \in {file, [file EXCEPT ![d] = {Torn}]}
        /\ Goto(d, r, IF at[d][r] = "saveWrite" THEN "failed" ELSE AfterWrite[at[d][r]])
        /\ Fault
  /\ UNCHANGED <<phase, known, viper, cleanUpVars, vm, cloudVars>>

WriteFile(d, r) ==
  \/ RecordVPC(d, r) \/ RecordVPCInNewMap(d, r) \/ SaveInfrastructure(d, r)
  \/ WriteConfig(d, r)

------------------------------------------------------------------------------
(* cleanupAbandonedVPCs: every VPC with the tool's tag counts as abandoned. *)

ListVPCs(d, r) ==
  /\ at[d][r] = "list"
  /\ \/ /\ todo' = [todo EXCEPT ![d][r] = VPCsIn(r)]
        /\ Goto(d, r, "clean") /\ NoFault
     \/ UNCHANGED todo /\ Goto(d, r, "failed") /\ Fault
  /\ UNCHANGED <<commandVars, victim, vm, cloudVars>>

NextVPC(d, r) ==
  /\ at[d][r] = "clean" /\ victim[d][r] = Idle
  /\ IF todo[d][r] = {}
     THEN Goto(d, r, "vpcAgain") /\ UNCHANGED cleanUpVars
     ELSE /\ \E e \in todo[d][r] :
               /\ todo' = [todo EXCEPT ![d][r] = @ \ {e}]
               /\ victim' = [victim EXCEPT ![d][r] = [vpc |-> e, stage |-> 1]]
          /\ UNCHANGED at
  /\ UNCHANGED <<commandVars, vm, cloudVars, faults>>

InUse(e, r) == \E m \in inst : OwnerOf[m] = e /\ RegionOf[m] = r

\* What the cloud lets a stage remove from a VPC.  A subnet goes with its association,
\* and not while an instance is in it, nor does a group; a route table goes whoever
\* relies on it; a gateway is not detached from instances with public addresses.
Removed(stage, e, r) ==
  LET has == net[e][r]
      bare == has \cap {"subnets", "sg", "table", "attach"} = {}
  IN  CASE stage = "subnets"  -> IF InUse(e, r) THEN {} ELSE {"subnets", "associate"}
        [] stage = "groups"   -> IF InUse(e, r) THEN {} ELSE {"sg", "rules"}
        [] stage = "tables"   -> {"associate", "table", "route"}
        [] stage = "gateways" ->
             IF InUse(e, r) \/ "attach" \notin has THEN {} ELSE {"attach", "gateway"}
        [] stage = "vpc"      -> IF bare THEN {"vpc", "dns"} ELSE {}

\* A call that fails leaves its part, and what depends on it; an answer that does not
\* come leaves this VPC for the next one.
LeftByFault(stage) ==
  CASE stage = "tables"   -> {{}, {"associate"}}
    [] stage = "gateways" -> {{}, {"attach"}}
    [] OTHER              -> {{}}

\* Mutant: one stage too many.
NextStageBeyond(e, i) ==
  IF i > Len(Stages) THEN Idle ELSE [vpc |-> e, stage |-> i + 1]

NextStage(e, i) == IF i = Len(Stages) THEN Idle ELSE [vpc |-> e, stage |-> i + 1]

CleanUp(d, r) ==
  /\ at[d][r] = "clean" /\ victim[d][r] # Idle
  /\ LET e == victim[d][r].vpc
         i == victim[d][r].stage
         next == NextStage(e, i)
     IN  \/ /\ net' = [net EXCEPT ![e][r] = @ \ Removed(Stages[i], e, r)]
            /\ victim' = [victim EXCEPT ![d][r] = next] /\ NoFault
         \/ /\ \E gone \in LeftByFault(Stages[i]) :
                 net' = [net EXCEPT ![e][r] = @ \ (gone \cap Removed(Stages[i], e, r))]
            /\ victim' \in {[victim EXCEPT ![d][r] = next], [victim EXCEPT ![d][r] = Idle]}
            /\ Fault
  /\ UNCHANGED <<commandVars, at, todo, vm, inst>>

------------------------------------------------------------------------------
(* The rest of runDeployment. *)

RegionsReturn(d) ==
  /\ phase[d] = "network"
  /\ \A r \in RegionsOf(d) : at[d][r] \in {"ok", "failed"}
  /\ phase' = [phase EXCEPT ![d] =
       IF \A r \in RegionsOf(d) : at[d][r] = "ok" THEN "connect" ELSE "failed"]
  /\ UNCHANGED <<at, known, configVars, cleanUpVars, vm, cloudVars, faults>>

\* WaitForNetworkConnectivity looks for a route to a gateway, for five minutes.
CheckConnectivity(d, r) ==
  /\ phase[d] = "connect" /\ at[d][r] = "ok"
  /\ \/ "route" \in net[d][r] /\ Goto(d, r, "connected") /\ NoFault
     \/ "route" \in net[d][r] /\ Goto(d, r, "failed") /\ Fault
     \/ "route" \notin net[d][r] /\ Goto(d, r, "failed") /\ NoFault
  /\ UNCHANGED <<commandVars, cleanUpVars, vm, cloudVars>>

\* Mutant: without connectivity the deployment goes on.
ConnectivityReturnsAnyway(d) ==
  /\ phase[d] = "connect"
  /\ \A r \in RegionsOf(d) : at[d][r] \in {"connected", "failed"}
  /\ phase' = [phase EXCEPT ![d] = "vms"] /\ NoFault
  /\ UNCHANGED <<at, known, configVars, cleanUpVars, vm, cloudVars>>

\* Then the zones are validated again before the first machine.
ConnectivityReturns(d) ==
  /\ phase[d] = "connect"
  /\ \A r \in RegionsOf(d) : at[d][r] \in {"connected", "failed"}
  /\ IF \A r \in RegionsOf(d) : at[d][r] = "connected"
     THEN \/ phase' = [phase EXCEPT ![d] = "vms"] /\ NoFault
          \/ phase' = [phase EXCEPT ![d] = "failed"] /\ Fault
     ELSE phase' = [phase EXCEPT ![d] = "failed"] /\ NoFault
  /\ UNCHANGED <<at, known, configVars, cleanUpVars, vm, cloudVars>>

Becomes(m, s) == vm' = [vm EXCEPT ![m] = s]

\* deployVM up to RunInstances, into the first public subnet.
RunInstances(m) ==
  /\ phase[OwnerOf[m]] = "vms" /\ vm[m] = "waiting"
  /\ IF {"subnets", "sg"} \subseteq net[OwnerOf[m]][RegionOf[m]]
     THEN \/ inst' = inst \cup {m} /\ Becomes(m, "boot") /\ NoFault
          \/ inst' \in {inst, inst \cup {m}} /\ Becomes(m, "failed") /\ Fault
     ELSE UNCHANGED inst /\ Becomes(m, "failed") /\ NoFault
  /\ UNCHANGED <<commandVars, at, cleanUpVars, net>>

\* The instance runs; its description may come without a public address.
InstanceRunning(m) ==
  /\ vm[m] = "boot"
  /\ \/ Becomes(m, "addressed") /\ NoFault
     \/ \E s \in {"unaddressed", "failed"} : Becomes(m, s) /\ Fault
  /\ UNCHANGED <<commandVars, at, cleanUpVars, cloudVars>>

\* Mutant: the first error is returned at once.
DeployVMsReturnsFirstError(d) ==
  /\ phase[d] = "vms"
  /\ \/ /\ \A m \in MachinesOf(d) : vm[m] \in {"addressed", "unaddressed"}
        /\ phase' = [phase EXCEPT ![d] = "ssh"]
     \/ /\ \E m \in MachinesOf(d) : vm[m] = "failed"
        /\ phase' = [phase EXCEPT ![d] = "failed"]
  /\ UNCHANGED <<at, known, configVars, cleanUpVars, vm, cloudVars, faults>>

DeployVMsInParallel(d) ==
  /\ phase[d] = "vms"
  /\ \A m \in MachinesOf(d) : vm[m] \in {"addressed", "unaddressed", "failed"}
  /\ phase' = [phase EXCEPT ![d] =
       IF \A m \in MachinesOf(d) : vm[m] # "failed" THEN "ssh" ELSE "failed"]
  /\ UNCHANGED <<at, known, configVars, cleanUpVars, vm, cloudVars, faults>>

\* One machine after the other gets a goroutine that waits for it.  One without an
\* address, or whose key cannot be read, ends the command beside those started before.
StartSSHWait(m) ==
  /\ phase[OwnerOf[m]] = "ssh"
  /\ \/ vm[m] = "addressed" /\ Becomes(m, "trying") /\ UNCHANGED phase /\ NoFault
     \/ /\ vm[m] = "addressed"
        /\ phase' = [phase EXCEPT ![OwnerOf[m]] = "failed"] /\ UNCHANGED vm /\ Fault
     \/ /\ vm[m] = "unaddressed"
        /\ phase' = [phase EXCEPT ![OwnerOf[m]] = "failed"] /\ UNCHANGED vm /\ NoFault
  /\ UNCHANGED <<at, known, configVars, cleanUpVars, cloudVars>>

\* However the wait ends, the machine is marked as reachable.
WaitForSSH(m) ==
  /\ vm[m] = "trying"
  /\ Becomes(m, "tried")
  /\ UNCHANGED <<commandVars, at, cleanUpVars, cloudVars, faults>>

\* Mutant: the first wait that is over is enough.
AnyTried(d) ==
  /\ phase[d] = "ssh"
  /\ \E m \in MachinesOf(d) : vm[m] = "tried"
  /\ phase' = [phase EXCEPT ![d] = "provision"]
  /\ UNCHANGED <<at, known, configVars, cleanUpVars, vm, cloudVars, faults>>

AllTried(d) ==
  /\ phase[d] = "ssh"
  /\ \A m \in MachinesOf(d) : vm[m] = "tried"
  /\ phase' = [phase EXCEPT ![d] = "provision"]
  /\ UNCHANGED <<at, known, configVars, cleanUpVars, vm, cloudVars, faults>>

ProvisionBacalhauCluster(d) ==
  /\ phase[d] = "provision"
  /\ \/ phase' = [phase EXCEPT ![d] = "done"] /\ NoFault
     \/ phase' = [phase EXCEPT ![d] = "failed"] /\ Fault
  /\ UNCHANGED <<at, known, configVars, cleanUpVars, vm, cloudVars>>

\* handleDeploymentCompletion: writeConfig replaces the deployment's record by what
\* RegionalResources has.
Complete(d) ==
  /\ viper' = [viper EXCEPT ![d].record = known[d]]
  /\ file' = [file EXCEPT ![d] = known[d] \cup viper[d].extra]
  /\ phase' = [phase EXCEPT ![d] = IF @ = "done" THEN "ok" ELSE "error"]
  /\ UNCHANGED <<at, known, draft, cleanUpVars, vm, cloudVars, faults>>

\* The display has been told to quit.
HandleDeploymentCompletion(d) == phase[d] \in {"done", "refused"} /\ Complete(d)

\* Nothing tells the display of a failure: the command goes on when the user leaves it.
CompleteAfterKey(d) == phase[d] = "failed" /\ Complete(d)

Ended(d) == phase[d] \in {"ok", "error", "exited"}

\* The process is gone with all it knew.
Gone(d) ==
  /\ phase' = [phase EXCEPT ![d] = "exited"]
  /\ at' = [at EXCEPT ![d] = [r \in Regions |-> "waiting"]]
  /\ known' = [known EXCEPT ![d] = {}]
  /\ viper' = [viper EXCEPT ![d] = NothingSet]
  /\ draft' = [draft EXCEPT ![d] = NoDrafts]
  /\ todo' = [todo EXCEPT ![d] = [r \in Regions |-> {}]]
  /\ victim' = [victim EXCEPT ![d] = [r \in Regions |-> Idle]]
  /\ vm' = [m \in Machines |-> IF OwnerOf[m] = d THEN "waiting" ELSE vm[m]]
  /\ UNCHANGED <<cloudVars, faults>>

\* Two seconds after a signal, or when the runtime finds two goroutines in one of viper's
\* maps.
Exit(d) == phase[d] # "exited" /\ Gone(d) /\ UNCHANGED file

\* After the user's q a cancelled context is not waited for: the command completes
\* while its deployment is still at work, on the file too.
ReturnWhenCanceled(d) ==
  /\ ~Ended(d)
  /\ \E w \in {known[d] \cup viper[d].extra}
             \cup (IF phase[d] = "network" THEN {{Torn}} \cup SUBSET known[d] ELSE {}) :
       file' = [file EXCEPT ![d] = w]
  /\ Gone(d)

Region(d, r) ==
  \/ SetupRegionalInfrastructure(d, r)
  \/ CreateVpc(d, r) \/ VpcLimitExceeded(d, r)
  \/ CreateNetwork(d, r) \/ EnableDns(d, r) \/ WriteFile(d, r)
  \/ ListVPCs(d, r) \/ NextVPC(d, r) \/ CleanUp(d, r)
  \/ CheckConnectivity(d, r)

DeployVM(m) == RunInstances(m) \/ InstanceRunning(m) \/ StartSSHWait(m) \/ WaitForSSH(m)

RunDeployment(d) ==
  \/ CreateInfrastructure(d) \/ RegionsReturn(d) \/ ConnectivityReturns(d)
  \/ DeployVMsInParallel(d) \/ AllTried(d) \/ ProvisionBacalhauCluster(d)
  \/ HandleDeploymentCompletion(d)

Next ==
  \/ \E d \in Deployments :
       \/ RunDeployment(d) \/ CompleteAfterKey(d) \/ Exit(d) \/ ReturnWhenCanceled(d)
       \/ \E r \in Regions : Region(d, r)
  \/ \E m \in Machines : DeployVM(m)
  \/ (\A d \in Deployments : Ended(d)) /\ UNCHANGED vars

\* Goroutines are scheduled, calls return, and a display that was told to quit does.
\* Nobody has to cancel, or to press a key.
Fairness ==
  /\ \A d \in Deployments :
       /\ WF_vars(RunDeployment(d))
       /\ \A r \in Regions : WF_vars(Region(d, r))
  /\ \A m \in Machines : WF_vars(DeployVM(m))

Spec == Init /\ [][Next]_vars /\ Fairness

------------------------------------------------------------------------------
(* Properties. *)

TypeOK ==
  /\ phase \in [Deployments -> {"start", "network", "connect", "vms", "ssh", "provision",
                                "done", "refused", "failed", "ok", "error", "exited"}]
  /\ at \in [Deployments -> [Regions ->
       Parts \cup DOMAIN AfterWrite
         \cup {"waiting", "record", "recordNew", "save", "list", "clean", "vpcAgain", "ok",
               "connected", "failed"}]]
  /\ known \in [Deployments -> SUBSET Regions]
  /\ viper \in [Deployments -> [record : SUBSET Regions, extra : SUBSET Regions]]
  /\ draft \in [Deployments -> [Regions -> SUBSET Regions]]
  /\ file \in [Deployments -> {{Torn}} \cup SUBSET Regions]
  /\ todo \in [Deployments -> [Regions -> SUBSET Deployments]]
  /\ victim \in [Deployments -> [Regions ->
       [vpc : Deployments \cup {None}, stage : DOMAIN Stages]]]
  /\ vm \in [Machines -> {"waiting", "boot", "addressed", "unaddressed", "trying", "tried",
                          "failed"}]
  /\ net \in [Deployments -> [Regions -> SUBSET Parts]]
  /\ inst \in SUBSET Machines
  /\ faults \in 0..MaxFaults

\* The networks of a deployment are in its file, and the file is whole, from the moment
\* they are ready, and for an instance wherever the process ends: although regions lose
\* each other's entries in viper and tear the file, the last of them to save has it to
\* itself (ConfigMutex, provider.go:1519) and sets every VPC that is known.
NetworksAreListed ==
  \A d \in Deployments :
    \/ phase[d] \in {"connect", "vms", "ssh", "provision", "done", "ok"}
    \/ \E m \in MachinesOf(d) : m \in inst
    => Torn \notin file[d] /\ RegionsOf(d) \subseteq file[d]

\* When a command ends in order, even with an error or half-way through a region, its
\* file has every VPC of its own in which anything was made: a VPC is registered before
\* the next call (provider.go:545), and the file is written from the register.
EndListsVPCs ==
  [][\A d \in Deployments, r \in Regions :
       /\ phase[d] \in {"done", "refused", "failed"} /\ phase'[d] \in {"ok", "error"}
       /\ "vpc" \in net[d][r] /\ net[d][r] # {"vpc"}
       => r \in file'[d]]_vars

\* An instance is asked for only when every region of its deployment got its network and
\* was seen to be connected: one region's failure leaves no instance in another.
InstancesAwaitAllNetworks ==
  \A m \in Machines : vm[m] # "waiting" =>
    \A r \in RegionsOf(OwnerOf[m]) : at[OwnerOf[m]][r] = "connected"

\* The cluster is provisioned only when every machine of the deployment has an instance
\* and none of the waits for them is still under way.
ProvisioningAwaitsEveryMachine ==
  \A d \in Deployments : phase[d] \in {"provision", "done", "ok"} =>
    \A m \in MachinesOf(d) : m \in inst /\ vm[m] = "tried"

\* The command does not return beside a goroutine that still creates something.  (Those
\* that wait for SSH it may leave behind.)
NothingCreatedAfterReturn ==
  \A d \in Deployments : phase[d] \in {"refused", "failed", "error", "done", "ok"} =>
    /\ \A r \in RegionsOf(d) : at[d][r] \in {"waiting", "ok", "connected", "failed"}
    /\ \A m \in MachinesOf(d) : vm[m] # "boot"

\* Every command ends or, its deployment having failed, waits in the display for a key: a
\* full region is cleaned up once, whatever comes of it, and nobody keeps ConfigMutex.
CommandEnds == \A d \in Deployments : <>(Ended(d) \/ phase[d] = "failed")

\* "cleanupAbandonedVPCs attempts to find and remove any abandoned VPCs"
\* (provider.go:1678): the network of a deployment that has ended well, or is still
\* being used, keeps its route.
CleanUpSparesLiveNetworks ==
  \A d \in Deployments : phase[d] = "ok" =>
    \A r \in RegionsOf(d) : {"route", "associate"} \subseteq net[d][r]
==============================================================================
