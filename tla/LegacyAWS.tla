------------------------------ MODULE LegacyAWS ------------------------------
(***************************************************************************)
(* `andaime aws create` and `andaime aws destroy` (cmd/andaime.go): the    *)
(* commands that keep no record of what they made and find it again by its *)
(* tag.  They print their errors and go on; what is retried, and from      *)
(* where, differs from call to call.                                       *)
(*                                                                         *)
(* One command runs at a time, and names a region once.  The cloud has per *)
(* region a number of VPCs with the tag, of which every command uses the   *)
(* first, with the parts of that network; gateways attached to no VPC; and *)
(* instances, of which only matters whether some run, or are on their way  *)
(* out.                                                                    *)
(***************************************************************************)
EXTENDS Integers, FiniteSets, Sequences

CONSTANTS
  Regions,
  Orchestrators, Computes,
  RegionOf,      \* regions[i % len(regions)] of each node
  Given,         \* the address of --orchestrator-ip
  None,          \* no address
  Tries,         \* retryPolicy
  MaxFaults, MaxCommands

Nodes == Orchestrators \cup Computes

ASSUME NodesAssumption ==
  /\ RegionOf \in [Nodes -> Regions]
  /\ Orchestrators \cap Computes = {}
  /\ Nodes \cap Regions = {}
  /\ {Given, None} \cap Nodes = {} /\ Given # None

ASSUME BoundsAssumption ==
  /\ Tries \in Nat \ {0}
  /\ MaxFaults \in Nat
  /\ MaxCommands \in Nat

VARIABLES
  cmd,     \* what the command is doing
  at,      \* the goroutine of a region
  node,    \* the goroutine that creates a node
  try,     \* i of the retry loop a goroutine is in
  ips,     \* orchestratorIPs
  read,    \* orchestratorIPs as an append has read it, or as it went into a startup script
  vpcs,    \* the cloud: VPCs of a region
  net,     \* the cloud: the parts of a region's first VPC
  loose,   \* the cloud: gateways attached to nothing
  insts,   \* the cloud: instances
  ran,     \* commands started
  faults,
  clean    \* destroys in a row that nothing disturbed; -1 in a disturbed command

cloudVars == <<vpcs, net, loose, insts>>
nodeVars == <<node, ips, read>>
vars == <<cmd, at, node, try, ips, read, vpcs, net, loose, insts, ran, faults, clean>>

Goroutines == Regions \cup Nodes

Init ==
  /\ cmd = "none"
  /\ at = [r \in Regions |-> "waiting"]
  /\ node = [n \in Nodes |-> "waiting"]
  /\ try = [g \in Goroutines |-> 1]
  /\ ips = {} /\ read = [n \in Nodes |-> {}]
  /\ vpcs = [r \in Regions |-> 0]
  /\ net = [r \in Regions |-> {}]
  /\ loose = [r \in Regions |-> 0]
  /\ insts = [r \in Regions |-> {}]
  /\ ran = 0 /\ faults = 0 /\ clean = 0

Fault == faults < MaxFaults /\ faults' = faults + 1 /\ clean' = -1

NoFault == UNCHANGED <<faults, clean>>

\* Mutant: a retryable error is always worth another try.
MayRetryEver(g) == TRUE

\* isRetryableError and another try left: of the errors of a call some codes are worth
\* another one.
MayRetry(g) == try[g] < Tries

Again(g) == try' = [try EXCEPT ![g] = @ + 1]

Once(g) == try' = [try EXCEPT ![g] = 1]

InUse(r) == insts[r] # {}

------------------------------------------------------------------------------
(* createVPCAndSG: a network is made only where there is no VPC at all. *)

Parts == <<"subnet", "gateway", "attach", "table", "route", "associate">>

AfterPart(s) ==
  LET i == CHOOSE j \in DOMAIN Parts : Parts[j] = s
  IN  IF i = Len(Parts) THEN "groups" ELSE Parts[i + 1]

Goto(r, s) == at' = [at EXCEPT ![r] = s]

Leaves(r) == Goto(r, "done") /\ Once(r)

StartCreate ==
  /\ cmd = "none" /\ ran < MaxCommands
  /\ cmd' = "network" /\ ran' = ran + 1 /\ clean' = 0
  /\ at' = [r \in Regions |-> "zone"]
  /\ UNCHANGED <<nodeVars, try, cloudVars, faults>>

\* No zone that offers the instance type: the region is left out.
GetAvailableZone(r) ==
  /\ at[r] = "zone" /\ cmd = "network"
  /\ \/ Goto(r, "describe") /\ NoFault
     \/ Goto(r, "done") /\ Fault
  /\ UNCHANGED <<cmd, nodeVars, try, cloudVars, ran>>

DescribeVpcs(r) ==
  /\ at[r] = "describe"
  /\ \/ vpcs[r] = 0 /\ Goto(r, "vpc") /\ UNCHANGED try /\ NoFault
     \/ vpcs[r] # 0 /\ Goto(r, "groups") /\ Once(r) /\ NoFault
     \/ MayRetry(r) /\ Again(r) /\ UNCHANGED at /\ Fault
     \/ Leaves(r) /\ Fault
  /\ UNCHANGED <<cmd, nodeVars, cloudVars, ran>>

\* Mutant: another try begins with the call that failed.
CreateVpcAgain(r) ==
  /\ at[r] = "vpc"
  /\ LET made == [vpcs EXCEPT ![r] = @ + 1]
     IN  \/ vpcs' = made /\ Goto(r, "subnet") /\ UNCHANGED try /\ NoFault
         \/ /\ vpcs' \in {vpcs, made}
            /\ \/ MayRetry(r) /\ Again(r) /\ Goto(r, "vpc")
               \/ Leaves(r)
            /\ Fault
  /\ UNCHANGED <<cmd, nodeVars, net, loose, insts, ran>>

CreateVpc(r) ==
  /\ at[r] = "vpc"
  /\ LET made == [vpcs EXCEPT ![r] = @ + 1]
     IN  \/ vpcs' = made /\ Goto(r, "subnet") /\ UNCHANGED try /\ NoFault
         \/ /\ vpcs' \in {vpcs, made}
            /\ \/ MayRetry(r) /\ Again(r) /\ Goto(r, "describe")
               \/ Leaves(r)
            /\ Fault
  /\ UNCHANGED <<cmd, nodeVars, net, loose, insts, ran>>

\* The cloud after a call; a gateway is of no VPC until it is attached.
WithPart(r, s) ==
  CASE s = "gateway" -> <<net, [loose EXCEPT ![r] = @ + 1]>>
    [] s = "attach"  -> <<[net EXCEPT ![r] = @ \cup {"attach"}], [loose EXCEPT ![r] = @ - 1]>>
    [] OTHER         -> <<[net EXCEPT ![r] = @ \cup {s}], loose>>

\* One of the calls that follow.  Another try begins with DescribeVpcs, which now finds
\* the VPC: the parts it still lacks are never made.
CreateNetwork(r) ==
  /\ \E i \in DOMAIN Parts : at[r] = Parts[i]
  /\ LET s == at[r]
         with == WithPart(r, s)
     IN  \/ /\ net' = with[1] /\ loose' = with[2]
            /\ Goto(r, AfterPart(s)) /\ NoFault
            /\ IF AfterPart(s) = "groups" THEN Once(r) ELSE UNCHANGED try
         \/ /\ \E w \in {<<net, loose>>, with} : net' = w[1] /\ loose' = w[2]
            /\ \/ MayRetry(r) /\ Again(r) /\ Goto(r, "describe")
               \/ Leaves(r)
            /\ Fault
  /\ UNCHANGED <<cmd, nodeVars, vpcs, insts, ran>>

\* createSecurityGroupIfNotExists, a retry loop of its own: a group with the tag is taken
\* as it is.  A port whose call fails in a retryable way is skipped, another failure ends
\* the loop; both leave the group without one of its rules.
CreateSecurityGroup(r) ==
  /\ at[r] = "groups"
  /\ \/ /\ net' = [net EXCEPT ![r] = @ \cup (IF "group" \in @ THEN {} ELSE {"group", "ports"})]
        /\ Leaves(r) /\ NoFault
     \/ /\ net' \in {net, [net EXCEPT ![r] = @ \cup {"group"}]}
        /\ \/ MayRetry(r) /\ Again(r) /\ UNCHANGED at
           \/ Leaves(r)
        /\ Fault
  /\ UNCHANGED <<cmd, nodeVars, vpcs, loose, insts, ran>>

\* ProcessEnvVars, ProcessConfigFile, ProcessFlags: each overrides the one before, and
\* only the flag is held to one orchestrator.
NumberOfOrchestrators(env, file, flag) ==
  IF flag # -1 THEN IF flag > 1 THEN 1 ELSE flag
  ELSE IF file # -1 THEN file
  ELSE IF env # -1 THEN env ELSE 1

Counts == -1..Cardinality(Orchestrators)   \* -1: not set

\* ensureVPCAndSGsExist returns nothing, whatever there now is.  With the address of an
\* orchestrator given none is made.
EnsureVPCAndSGsExist ==
  /\ cmd = "network"
  /\ \A r \in Regions : at[r] = "done"
  /\ \/ \E env, file, flag \in Counts, wanted \in SUBSET Orchestrators :
          /\ Cardinality(wanted) = NumberOfOrchestrators(env, file, flag)
          /\ cmd' = "orchestrators" /\ UNCHANGED ips
          /\ node' = [n \in Nodes |-> IF n \in wanted THEN "lookup" ELSE "waiting"]
     \/ /\ cmd' = "computes" /\ ips' = {Given}
        /\ node' = [n \in Nodes |-> IF n \in Computes THEN "lookup" ELSE "waiting"]
  /\ at' = [r \in Regions |-> "waiting"]
  /\ UNCHANGED <<try, read, cloudVars, ran, faults, clean>>

------------------------------------------------------------------------------
(* createResources and createInstanceInRegion. *)

NodeGoto(n, s) == node' = [node EXCEPT ![n] = s]

\* Mutant: a goroutine that made no instance does not count down.
NodeLeavesSilently(n, found) ==
  /\ NodeGoto(n, IF ~found THEN "waiting" ELSE IF n \in Computes THEN "done" ELSE "readFound")
  /\ Once(n)

\* The end of createInstanceInRegion: an orchestrator's address, or the lack of one, is
\* appended to the shared slice.
NodeLeaves(n, found) ==
  /\ NodeGoto(n, IF n \in Computes THEN "done" ELSE IF found THEN "readFound" ELSE "readNone")
  /\ Once(n)

Found(n) ==
  vpcs[RegionOf[n]] > 0 /\ {"subnet", "group"} \subseteq net[RegionOf[n]]

\* The VPC, the subnet and the group, by their tags.
LookUp(n) ==
  /\ node[n] = "lookup"
  /\ \/ Found(n) /\ NodeGoto(n, "image") /\ UNCHANGED try /\ NoFault
     \/ ~Found(n) /\ NodeLeaves(n, FALSE) /\ NoFault
     \/ MayRetry(n) /\ Again(n) /\ UNCHANGED node /\ Fault
     \/ NodeLeaves(n, FALSE) /\ Fault
  /\ UNCHANGED <<cmd, at, ips, read, cloudVars, ran>>

\* The instance type, the image for its architecture and the scripts.
GetImage(n) ==
  /\ node[n] = "image"
  /\ \/ NodeGoto(n, "run") /\ UNCHANGED try /\ NoFault
     \/ MayRetry(n) /\ Again(n) /\ NodeGoto(n, "lookup") /\ Fault
     \/ NodeLeaves(n, FALSE) /\ Fault
  /\ UNCHANGED <<cmd, at, ips, read, cloudVars, ran>>

\* The startup scripts of a compute node have the orchestrators' addresses in them.
StartupScript(n) == IF n \in Computes THEN ips ELSE {}

\* Another try after a call that took effect makes a second instance, like the first.
RunInstances(n) ==
  /\ node[n] = "run"
  /\ LET made == [insts EXCEPT ![RegionOf[n]] = @ \cup {"running"}]
     IN  \/ /\ insts' = made /\ NodeGoto(n, "boot") /\ UNCHANGED try /\ NoFault
            /\ read' = [read EXCEPT ![n] = StartupScript(n)]
         \/ /\ insts' \in {insts, made}
            /\ \/ MayRetry(n) /\ Again(n) /\ NodeGoto(n, "lookup")
               \/ NodeLeaves(n, FALSE)
            /\ Fault /\ UNCHANGED read
  /\ UNCHANGED <<cmd, at, ips, vpcs, net, loose, ran>>

\* WaitUntilInstanceRunning and the description, with or without an address.
InstanceRunning(n) ==
  /\ node[n] = "boot"
  /\ \/ NodeLeaves(n, TRUE) /\ NoFault
     \/ NodeLeaves(n, FALSE) /\ Fault
  /\ read' = [read EXCEPT ![n] = {}]
  /\ UNCHANGED <<cmd, at, ips, cloudVars, ran>>

\* append without a lock: what another goroutine appends in between is lost.
ReadIPs(n) ==
  /\ node[n] \in {"readFound", "readNone"}
  /\ read' = [read EXCEPT ![n] = ips]
  /\ NodeGoto(n, IF node[n] = "readFound" THEN "writeFound" ELSE "writeNone")
  /\ UNCHANGED <<cmd, at, try, ips, cloudVars, ran, faults, clean>>

AppendIP(n) ==
  /\ node[n] \in {"writeFound", "writeNone"}
  /\ ips' = read[n] \cup {IF node[n] = "writeFound" THEN n ELSE None}
  /\ read' = [read EXCEPT ![n] = {}]
  /\ NodeGoto(n, "done")
  /\ UNCHANGED <<cmd, at, try, cloudVars, ran, faults, clean>>

\* Mutant: the computes are started beside the orchestrators.
OrchestratorsNotAwaited ==
  /\ cmd = "orchestrators"
  /\ cmd' = "computes"
  /\ node' = [n \in Nodes |-> IF n \in Computes THEN "lookup" ELSE node[n]]
  /\ UNCHANGED <<at, try, ips, read, cloudVars, ran, faults, clean>>

OrchestratorsCreated ==
  /\ cmd = "orchestrators"
  /\ \A n \in Orchestrators : node[n] \in {"waiting", "done"}
  /\ cmd' = "computes"
  /\ node' = [n \in Nodes |-> IF n \in Computes THEN "lookup" ELSE node[n]]
  /\ UNCHANGED <<at, try, ips, read, cloudVars, ran, faults, clean>>

\* nil, whatever there now is.
ComputesCreated ==
  /\ cmd = "computes"
  /\ \A n \in Computes : node[n] = "done"
  /\ cmd' = "none" /\ clean' = 0
  /\ node' = [n \in Nodes |-> "waiting"] /\ ips' = {}
  /\ UNCHANGED <<at, try, read, cloudVars, ran, faults>>

CreateInstanceInRegion(n) ==
  LookUp(n) \/ GetImage(n) \/ RunInstances(n) \/ InstanceRunning(n) \/ ReadIPs(n) \/ AppendIP(n)

------------------------------------------------------------------------------
(* destroyResources and deleteTaggedResources: a region's network comes before its    *)
(* groups and its instances, although it can only go after them.                      *)

StartDestroy ==
  /\ cmd = "none" /\ ran < MaxCommands
  /\ ran' = ran + 1
  /\ \/ /\ cmd' = "destroy" /\ at' = [r \in Regions |-> "vpcs"]
        /\ UNCHANGED <<faults, clean>>
     \/ /\ faults < MaxFaults /\ faults' = faults + 1 /\ clean' = 0
        /\ UNCHANGED <<cmd, at>>
  /\ UNCHANGED <<nodeVars, try, cloudVars>>

\* A call that lists what there is to delete.
Describe(r, s, found, notFound, exists) ==
  /\ at[r] = s
  /\ \/ Goto(r, IF exists THEN found ELSE notFound) /\ Once(r) /\ NoFault
     \/ MayRetry(r) /\ Again(r) /\ UNCHANGED at /\ Fault
     \/ Goto(r, notFound) /\ Once(r) /\ Fault
  /\ UNCHANGED <<cmd, nodeVars, cloudVars, ran>>

DescribeTaggedVPCs(r) == Describe(r, "vpcs", "deleteSubnets", "groupList", vpcs[r] > 0)

DescribeSecurityGroups(r) ==
  Describe(r, "groupList", "deleteGroups", "instanceList", "group" \in net[r])

DescribeInstances(r) == Describe(r, "instanceList", "terminate", "done", InUse(r))

\* What the cloud lets a step delete: nothing that is in use, no table that is still
\* associated.
Deleted(r, s) ==
  CASE s = "deleteSubnets" -> IF InUse(r) THEN {} ELSE {"subnet", "associate"}
    [] s = "deleteTables"  -> IF "associate" \in net[r] THEN {} ELSE {"table", "route"}
    [] s = "deleteGroups"  -> IF InUse(r) THEN {} ELSE {"group", "ports"}

\* A part that cannot be deleted is left; `continue` is that of the inner loop, so that
\* a failed deletion is not tried again whatever its error.
DeleteParts(r, s, next) ==
  /\ at[r] = s
  /\ \/ net' = [net EXCEPT ![r] = @ \ Deleted(r, s)] /\ NoFault
     \/ UNCHANGED net /\ Fault
  /\ Goto(r, next)
  /\ UNCHANGED <<cmd, nodeVars, try, vpcs, loose, insts, ran>>

DeleteSubnets(r) == DeleteParts(r, "deleteSubnets", "deleteTables")

DeleteRouteTables(r) == DeleteParts(r, "deleteTables", "detach")

DeleteSecurityGroups(r) == DeleteParts(r, "deleteGroups", "instanceList")

DetachInternetGateway(r) ==
  /\ at[r] = "detach"
  /\ \/ /\ "attach" \in net[r] /\ ~InUse(r)
        /\ net' = [net EXCEPT ![r] = @ \ {"attach"}]
        /\ loose' = [loose EXCEPT ![r] = @ + 1]
        /\ Goto(r, "deleteGateway") /\ NoFault
     \/ /\ "attach" \notin net[r] \/ InUse(r)
        /\ Goto(r, "deleteVPC") /\ NoFault /\ UNCHANGED <<net, loose>>
     \/ Goto(r, "deleteVPC") /\ Fault /\ UNCHANGED <<net, loose>>
  /\ UNCHANGED <<cmd, nodeVars, try, vpcs, insts, ran>>

\* A gateway that is detached is found by nobody any more.
DeleteInternetGateway(r) ==
  /\ at[r] = "deleteGateway"
  /\ \/ loose' = [loose EXCEPT ![r] = @ - 1] /\ NoFault
     \/ UNCHANGED loose /\ Fault
  /\ Goto(r, "deleteVPC")
  /\ UNCHANGED <<cmd, nodeVars, try, vpcs, net, insts, ran>>

Deletable(r) == net[r] \cap {"subnet", "attach", "table", "group"} = {}

DeleteVPC(r) ==
  /\ at[r] = "deleteVPC"
  /\ \/ /\ vpcs' = IF Deletable(r) THEN [vpcs EXCEPT ![r] = 0] ELSE vpcs
        /\ Goto(r, "groupList") /\ Once(r) /\ NoFault
     \/ MayRetry(r) /\ Again(r) /\ UNCHANGED <<at, vpcs>> /\ Fault
     \/ Goto(r, "groupList") /\ Once(r) /\ UNCHANGED vpcs /\ Fault
  /\ UNCHANGED <<cmd, nodeVars, net, loose, insts, ran>>

Stopped(r) == [insts EXCEPT ![r] = {"stopping"}]

TerminateInstances(r) ==
  /\ at[r] = "terminate"
  /\ \/ insts' = Stopped(r) /\ Goto(r, "wait") /\ Once(r) /\ NoFault
     \/ /\ insts' \in {insts, Stopped(r)}
        /\ \/ MayRetry(r) /\ Again(r) /\ Goto(r, "instanceList")
           \/ Leaves(r)
        /\ Fault
  /\ UNCHANGED <<cmd, nodeVars, vpcs, net, loose, ran>>

\* Mutant: nobody waits for the instances to be gone.
WaitUntilTerminatedNot(r) ==
  /\ at[r] = "wait"
  /\ Goto(r, "done") /\ NoFault
  /\ UNCHANGED <<cmd, nodeVars, try, cloudVars, ran>>

WaitUntilTerminated(r) ==
  /\ at[r] = "wait"
  /\ \/ ~InUse(r) /\ Goto(r, "done") /\ NoFault
     \/ Goto(r, "done") /\ Fault
  /\ UNCHANGED <<cmd, nodeVars, try, cloudVars, ran>>

DeleteTaggedResources(r) ==
  \/ DescribeTaggedVPCs(r) \/ DeleteSubnets(r) \/ DeleteRouteTables(r)
  \/ DetachInternetGateway(r) \/ DeleteInternetGateway(r) \/ DeleteVPC(r)
  \/ DescribeSecurityGroups(r) \/ DeleteSecurityGroups(r)
  \/ DescribeInstances(r) \/ TerminateInstances(r) \/ WaitUntilTerminated(r)

\* The cloud, in its own time.
InstancesTerminated(r) ==
  /\ "stopping" \in insts[r]
  /\ insts' = [insts EXCEPT ![r] = @ \ {"stopping"}]
  /\ UNCHANGED <<cmd, at, nodeVars, try, vpcs, net, loose, ran, faults, clean>>

RegionsDestroyed ==
  /\ cmd = "destroy"
  /\ \A r \in Regions : at[r] = "done"
  /\ cmd' = "none" /\ clean' = clean + 1
  /\ at' = [r \in Regions |-> "waiting"]
  /\ UNCHANGED <<nodeVars, try, cloudVars, ran, faults>>

------------------------------------------------------------------------------

\* A signal, or a session that could not be made: the process is gone.
Exit ==
  /\ cmd # "none"
  /\ cmd' = "none" /\ clean' = 0
  /\ at' = [r \in Regions |-> "waiting"]
  /\ node' = [n \in Nodes |-> "waiting"]
  /\ try' = [g \in Goroutines |-> 1]
  /\ ips' = {} /\ read' = [n \in Nodes |-> {}]
  /\ UNCHANGED <<cloudVars, ran, faults>>

Region(r) ==
  \/ GetAvailableZone(r) \/ DescribeVpcs(r) \/ CreateVpc(r) \/ CreateNetwork(r)
  \/ CreateSecurityGroup(r)
  \/ DeleteTaggedResources(r)

CommandStep ==
  EnsureVPCAndSGsExist \/ OrchestratorsCreated \/ ComputesCreated \/ RegionsDestroyed

Next ==
  \/ StartCreate \/ StartDestroy \/ CommandStep \/ Exit
  \/ \E r \in Regions : Region(r)
  \/ \E n \in Nodes : CreateInstanceInRegion(n)
  \/ \E r \in Regions : InstancesTerminated(r)
  \/ cmd = "none" /\ ran = MaxCommands /\ UNCHANGED vars   \* the bound is reached

\* Goroutines are scheduled, calls return, instances stop when told to.
Fairness ==
  /\ WF_vars(CommandStep)
  /\ \A r \in Regions : WF_vars(Region(r)) /\ WF_vars(InstancesTerminated(r))
  /\ \A n \in Nodes : WF_vars(CreateInstanceInRegion(n))

Spec == Init /\ [][Next]_vars /\ Fairness

------------------------------------------------------------------------------
(* Properties. *)

TypeOK ==
  /\ cmd \in {"none", "network", "orchestrators", "computes", "destroy"}
  /\ at \in [Regions -> {"waiting", "zone", "describe", "vpc", "subnet", "gateway", "attach",
       "table", "route", "associate", "groups", "vpcs", "deleteSubnets", "deleteTables",
       "detach", "deleteGateway", "deleteVPC", "groupList", "deleteGroups",
       "instanceList", "terminate", "wait", "done"}]
  /\ node \in [Nodes -> {"waiting", "lookup", "image", "run", "boot", "readFound", "readNone",
       "writeFound", "writeNone", "done"}]
  /\ try \in [Goroutines -> 1..Tries]
  /\ ips \in SUBSET (Orchestrators \cup {Given, None})
  /\ read \in [Nodes -> SUBSET (Orchestrators \cup {Given, None})]
  /\ vpcs \in [Regions -> Nat]
  /\ net \in [Regions -> SUBSET {"subnet", "attach", "table", "route", "associate",
       "group", "ports"}]
  /\ loose \in [Regions -> Nat]
  /\ insts \in [Regions -> SUBSET {"running", "stopping"}]
  /\ ran \in 0..MaxCommands /\ faults \in 0..MaxFaults
  /\ clean \in -1..MaxCommands

\* Whatever answers are lost, retries and repeated commands find the VPC there is and make
\* no second one.
AtMostOneVPC == \A r \in Regions : vpcs[r] <= 1

\* All compute nodes of a command join the same orchestrators, and are told of at least
\* one entry if any was asked for: although the appends race, all of them are over before
\* the first compute node is started (wg.Wait, andaime.go:322).
ComputesToldAlike ==
  \A i, j \in {n \in Computes : node[n] = "boot"} :
    /\ read[i] = read[j]
    /\ read[i] = {} => \A n \in Orchestrators : node[n] = "waiting"

\* Destroying goes against the order of dependencies: the first time only the instances
\* go, the second time the parts, the third time the VPC.  After three times that nothing
\* disturbs, from whatever a create, a failure or a signal has left, only gateways attached
\* to nothing can be left.
ThreeDestroysSuffice ==
  clean >= 3 => \A r \in Regions : vpcs[r] = 0 /\ net[r] = {} /\ insts[r] = {}

\* Every command ends: no goroutine keeps the others waiting, whichever calls fail.
CommandEnds == cmd # "none" ~> cmd = "none"
==============================================================================
