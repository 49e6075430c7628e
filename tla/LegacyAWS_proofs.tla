--------------------------- MODULE LegacyAWS_proofs ---------------------------
(***************************************************************************)
(* Theorems about LegacyAWS: types, that there is one VPC, what compute    *)
(* nodes are told, and what three destroys leave, for any regions, nodes,  *)
(* tries and faults.  Steps of a region's goroutine, of a node's and of    *)
(* the command are treated in turn.                                        *)
(***************************************************************************)
EXTENDS LegacyAWS, TLAPS

------------------------------------------------------------------------------
(* The invariant. *)

\* The points of a region's goroutine: the calls that make its network, the ones of create
\* and the ones of destroy.
PartPoints == {"subnet", "gateway", "attach", "table", "route", "associate"}
CreatePoints == {"zone", "describe", "vpc", "groups"} \cup PartPoints
DestroyPoints == {"vpcs", "deleteSubnets", "deleteTables", "detach", "deleteGateway",
                  "deleteVPC", "groupList", "deleteGroups", "instanceList", "terminate",
                  "wait"}
\* Those of destroy behind a call.
BehindVPC == {"groupList", "deleteGroups", "instanceList", "terminate", "wait", "done"}
BehindGateway == {"deleteGateway", "deleteVPC"} \cup BehindVPC
BehindTables == {"detach"} \cup BehindGateway
BehindSubnets == {"deleteTables"} \cup BehindTables
BehindGroups == {"instanceList", "terminate", "wait", "done"}

\* Where a region's goroutine is, by the command.
PointState(r) ==
  /\ cmd = "network" => at[r] \in CreatePoints \cup {"done"}
  /\ cmd = "destroy" => at[r] \in DestroyPoints \cup {"done"}
  /\ cmd \notin {"network", "destroy"} => at[r] = "waiting"

\* The parts that are there when others are, and when their turn comes.
NetState(r) ==
  /\ vpcs[r] <= 1
  /\ vpcs[r] = 0 => net[r] = {}
  /\ at[r] = "vpc" => vpcs[r] = 0
  /\ at[r] \in PartPoints \cup {"groups"} => vpcs[r] = 1
  /\ at[r] \in PartPoints \ {"subnet"} => "subnet" \in net[r]
  /\ at[r] \in {"route", "associate"} => "table" \in net[r]
  /\ at[r] \in {"attach", "deleteGateway"} => loose[r] >= 1
  /\ "route" \in net[r] => "table" \in net[r]
  /\ "associate" \in net[r] => {"table", "subnet"} \subseteq net[r]
  /\ "ports" \in net[r] => "group" \in net[r]

\* What destroys that nothing disturbed have left.
DestroyState(r) ==
  /\ cmd = "destroy" /\ clean >= 0 /\ at[r] = "done" => insts[r] = {}
  /\ clean >= 1 => insts[r] = {} /\ at[r] \notin {"terminate", "wait"}
  /\ clean >= 1 /\ cmd = "destroy" =>
       /\ at[r] \in BehindSubnets => net[r] \cap {"subnet", "associate"} = {}
       /\ at[r] \in BehindTables => net[r] \cap {"table", "route"} = {}
       /\ at[r] \in BehindGateway => "attach" \notin net[r]
       /\ at[r] \in BehindGroups => net[r] \cap {"group", "ports"} = {}
  /\ clean >= 2 => net[r] = {}
  /\ clean >= 2 /\ cmd = "destroy" /\ at[r] \in BehindVPC => vpcs[r] = 0
  /\ clean >= 3 => vpcs[r] = 0

RegionInv == \A r \in Regions : PointState(r) /\ NetState(r) /\ DestroyState(r)

\* How far the destroys in a row are counted.
CountInv ==
  /\ clean <= ran /\ (cmd = "destroy" => clean < ran)
  /\ cmd \notin {"none", "destroy"} => clean <= 0

\* Where the goroutines of the nodes are, and which addresses they have seen.
Appending == {"readFound", "readNone", "writeFound", "writeNone"}

NodeState(n) ==
  /\ node[n] \notin {"waiting", "done"} =>
       cmd = IF n \in Computes THEN "computes" ELSE "orchestrators"
  /\ n \in Computes => node[n] \notin Appending /\ (node[n] = "done" => cmd = "computes")
  /\ n \in Computes /\ node[n] = "boot" => read[n] = ips
  /\ n \in Orchestrators /\ node[n] = "done" =>
       ips # {} /\ cmd \in {"orchestrators", "computes"}

NodeInv == \A n \in Nodes : NodeState(n)

------------------------------------------------------------------------------
(* Types, by what a step of one goroutine changes together. *)

Points == {"waiting", "done"} \cup CreatePoints \cup DestroyPoints
NodePoints == {"waiting", "lookup", "image", "run", "boot", "done"} \cup Appending
Networks == SUBSET {"subnet", "attach", "table", "route", "associate", "group", "ports"}
Instances == SUBSET {"running", "stopping"}
AddressSets == SUBSET (Orchestrators \cup {Given, None})

RegionTypes ==
  /\ at \in [Regions -> Points]
  /\ vpcs \in [Regions -> Nat] /\ net \in [Regions -> Networks]
  /\ loose \in [Regions -> Nat] /\ insts \in [Regions -> Instances]

NodeTypes ==
  /\ node \in [Nodes -> NodePoints]
  /\ ips \in AddressSets /\ read \in [Nodes -> AddressSets]

TryTypes == try \in [Goroutines -> 1..Tries]

CommandTypes ==
  /\ cmd \in {"none", "network", "orchestrators", "computes", "destroy"}
  /\ ran \in 0..MaxCommands /\ faults \in 0..MaxFaults /\ clean \in -1..MaxCommands

Types == RegionTypes /\ NodeTypes /\ TryTypes /\ CommandTypes

LEMMA TypesAre == (TypeOK <=> Types) /\ (TypeOK' <=> Types')
<1>1. Points = {"waiting", "zone", "describe", "vpc", "subnet", "gateway", "attach",
       "table", "route", "associate", "groups", "vpcs", "deleteSubnets", "deleteTables",
       "detach", "deleteGateway", "deleteVPC", "groupList", "deleteGroups",
       "instanceList", "terminate", "wait", "done"}
  BY DEF Points, CreatePoints, DestroyPoints, PartPoints
<1>2. NodePoints = {"waiting", "lookup", "image", "run", "boot", "readFound", "readNone",
       "writeFound", "writeNone", "done"}
  BY DEF NodePoints, Appending
<1> QED
  BY <1>1, <1>2 DEF TypeOK, Types, RegionTypes, NodeTypes, TryTypes, CommandTypes, Networks,
     Instances, AddressSets

IInv == Types /\ RegionInv /\ CountInv /\ NodeInv

------------------------------------------------------------------------------
(* Goroutines in general: retries, faults, and points. *)

TryMoves(g) == UNCHANGED try \/ Once(g) \/ (MayRetry(g) /\ Again(g))

LEMMA TryStep ==
  ASSUME TryTypes, NEW g \in Goroutines, TryMoves(g)
  PROVE  TryTypes'
<1>1. CASE UNCHANGED try
  BY <1>1 DEF TryTypes
<1>2. CASE Once(g)
  BY <1>2, BoundsAssumption DEF TryTypes, Once
<1>3. CASE MayRetry(g) /\ Again(g)
  <2>1. try' = [try EXCEPT ![g] = try[g] + 1] /\ try[g] \in 1..Tries /\ try[g] < Tries
    BY <1>3 DEF TryTypes, Again, MayRetry
  <2>2. try[g] + 1 \in 1..Tries
    BY <2>1, BoundsAssumption
  <2> QED
    BY <2>1, <2>2 DEF TryTypes
<1> QED
  BY <1>1, <1>2, <1>3 DEF TryMoves

\* The counters of faults and of undisturbed destroys.
CountersMove ==
  \/ UNCHANGED <<faults, clean>>
  \/ faults' \in 0..MaxFaults /\ clean' = -1

LEMMA FaultStep ==
  ASSUME CommandTypes, Fault \/ NoFault
  PROVE  CountersMove
BY BoundsAssumption DEF CommandTypes, Fault, NoFault, CountersMove

LEMMA GotoStep ==
  ASSUME RegionTypes, NEW r \in Regions, NEW s \in Points, Goto(r, s)
  PROVE  /\ at' \in [Regions -> Points] /\ at'[r] = s
         /\ \A q \in Regions \ {r} : at'[q] = at[q]
BY DEF RegionTypes, Goto

\* The part that comes next, up to the groups.
LEMMA AfterPartIs ==
  /\ AfterPart("subnet") = "gateway" /\ AfterPart("gateway") = "attach"
  /\ AfterPart("attach") = "table" /\ AfterPart("table") = "route"
  /\ AfterPart("route") = "associate" /\ AfterPart("associate") = "groups"
<1>1. /\ DOMAIN Parts = 1..6 /\ Len(Parts) = 6
      /\ Parts[1] = "subnet" /\ Parts[2] = "gateway" /\ Parts[3] = "attach"
      /\ Parts[4] = "table" /\ Parts[5] = "route" /\ Parts[6] = "associate"
  BY DEF Parts
<1>2. ASSUME NEW i \in 1..6
      PROVE  AfterPart(Parts[i]) = IF i = 6 THEN "groups" ELSE Parts[i + 1]
  <2>1. (CHOOSE j \in DOMAIN Parts : Parts[j] = Parts[i]) = i
    BY <1>1
  <2> QED
    BY <1>1, <2>1 DEF AfterPart
<1> QED
  BY <1>1, <1>2

------------------------------------------------------------------------------
(* Steps of a region's goroutine. *)

RegionFrame(r) ==
  \A q \in Regions \ {r} :
    /\ at'[q] = at[q] /\ vpcs'[q] = vpcs[q] /\ net'[q] = net[q]
    /\ loose'[q] = loose[q] /\ insts'[q] = insts[q]

RegionEffect(r) ==
  /\ UNCHANGED <<cmd, nodeVars, ran>> /\ CountersMove
  /\ TryTypes' /\ RegionTypes' /\ RegionFrame(r)
  /\ PointState(r)' /\ NetState(r)' /\ DestroyState(r)'

LEMMA Creating ==
  ASSUME IInv, NEW r \in Regions, at[r] \in CreatePoints
  PROVE  cmd = "network" /\ clean \in {-1, 0}
<1>1. cmd = "network"
  BY DEF IInv, RegionInv, PointState, CreatePoints, DestroyPoints, PartPoints,
     Types, CommandTypes
<1> QED
  BY <1>1, BoundsAssumption DEF IInv, CountInv, Types, CommandTypes

LEMMA Destroying ==
  ASSUME IInv, NEW r \in Regions, at[r] \in DestroyPoints
  PROVE  cmd = "destroy" /\ clean \in Int
<1>1. cmd = "destroy"
  BY DEF IInv, RegionInv, PointState, CreatePoints, DestroyPoints, PartPoints,
     Types, CommandTypes
<1> QED
  BY <1>1, BoundsAssumption DEF IInv, Types, CommandTypes

\* A step of create: nothing is known yet of what a destroy leaves.
LEMMA CreateEffect ==
  ASSUME IInv, NEW r \in Regions, at[r] \in CreatePoints,
         UNCHANGED <<cmd, nodeVars, ran>>, Fault \/ NoFault, TryMoves(r),
         RegionTypes', RegionFrame(r), at'[r] \in CreatePoints \cup {"done"}, NetState(r)'
  PROVE  RegionEffect(r)
<1>1. cmd = "network" /\ clean \in {-1, 0}
  BY Creating
<1>2. CountersMove /\ TryTypes'
  BY FaultStep, TryStep DEF IInv, Types, Goroutines
<1>3. PointState(r)'
  BY <1>1 DEF PointState
<1>4. DestroyState(r)'
  BY <1>1, <1>2 DEF DestroyState, CountersMove
<1> QED
  BY <1>2, <1>3, <1>4 DEF RegionEffect

LEMMA GetAvailableZoneStep ==
  ASSUME IInv, NEW r \in Regions, GetAvailableZone(r)
  PROVE  RegionEffect(r)
<1> USE DEF IInv, Types
<1>1. /\ at[r] = "zone" /\ UNCHANGED <<cmd, nodeVars, ran, try, vpcs, net, loose, insts>>
      /\ (Goto(r, "describe") \/ Goto(r, "done")) /\ (Fault \/ NoFault)
  BY DEF GetAvailableZone, cloudVars
<1>2. /\ at' \in [Regions -> Points] /\ at'[r] \in {"describe", "done"}
      /\ \A q \in Regions \ {r} : at'[q] = at[q]
  BY <1>1, GotoStep DEF Points, CreatePoints
<1>3. NetState(r)'
  BY <1>1, <1>2 DEF NetState, RegionInv, PartPoints
<1> QED
  BY <1>1, <1>2, <1>3, CreateEffect
  DEF RegionTypes, RegionFrame, TryMoves, CreatePoints

LEMMA DescribeVpcsStep ==
  ASSUME IInv, NEW r \in Regions, DescribeVpcs(r)
  PROVE  RegionEffect(r)
<1> USE DEF IInv, Types
<1>1. /\ at[r] = "describe" /\ UNCHANGED <<cmd, nodeVars, ran, vpcs, net, loose, insts>>
      /\ (Fault \/ NoFault) /\ TryMoves(r)
  BY DEF DescribeVpcs, cloudVars, TryMoves, Leaves
<1>2. vpcs[r] \in {0, 1} /\ NetState(r)
  BY DEF RegionInv, NetState, RegionTypes
<1>3. /\ at' \in [Regions -> Points] /\ at'[r] \in {"vpc", "groups", "describe", "done"}
      /\ at'[r] = "vpc" => vpcs[r] = 0
      /\ at'[r] = "groups" => vpcs[r] = 1
      /\ \A q \in Regions \ {r} : at'[q] = at[q]
  <2>1. CASE Goto(r, IF vpcs[r] = 0 THEN "vpc" ELSE "groups")
    BY <1>2, <2>1, GotoStep DEF Points, CreatePoints
  <2>2. CASE UNCHANGED at
    BY <1>1, <2>2 DEF RegionTypes
  <2>3. CASE Leaves(r)
    BY <2>3, GotoStep DEF Points, Leaves
  <2> QED
    BY <2>1, <2>2, <2>3 DEF DescribeVpcs
<1>4. NetState(r)'
  BY <1>1, <1>2, <1>3 DEF NetState, PartPoints
<1> QED
  BY <1>1, <1>3, <1>4, CreateEffect DEF RegionTypes, RegionFrame, CreatePoints

LEMMA CreateVpcStep ==
  ASSUME IInv, NEW r \in Regions, CreateVpc(r)
  PROVE  RegionEffect(r)
<1> USE DEF IInv, Types
<1>1. /\ at[r] = "vpc" /\ UNCHANGED <<cmd, nodeVars, ran, net, loose, insts>>
      /\ (Fault \/ NoFault) /\ TryMoves(r)
  BY DEF CreateVpc, TryMoves, Leaves
<1>2. vpcs[r] = 0 /\ net[r] = {}
  BY <1>1 DEF RegionInv, NetState
<1>3. /\ at' \in [Regions -> Points] /\ at'[r] \in {"subnet", "describe", "done"}
      /\ \A q \in Regions \ {r} : at'[q] = at[q]
  <2>1. Goto(r, "subnet") \/ Goto(r, "describe") \/ Goto(r, "done")
    BY DEF CreateVpc, Leaves
  <2> QED
    BY <2>1, GotoStep DEF Points, CreatePoints, PartPoints
<1>4. /\ vpcs' \in [Regions -> Nat] /\ vpcs'[r] \in {0, 1}
      /\ at'[r] = "subnet" => vpcs'[r] = 1
      /\ \A q \in Regions \ {r} : vpcs'[q] = vpcs[q]
  <2>1. CASE vpcs' = [vpcs EXCEPT ![r] = vpcs[r] + 1]
    BY <1>2, <2>1 DEF RegionTypes
  <2>2. CASE vpcs' = vpcs /\ (Goto(r, "describe") \/ Goto(r, "done"))
    BY <1>2, <2>2, GotoStep DEF RegionTypes, Points, CreatePoints
  <2> QED
    BY <2>1, <2>2 DEF CreateVpc, Leaves
<1>5. NetState(r)'
  BY <1>1, <1>2, <1>3, <1>4 DEF NetState, PartPoints
<1> QED
  BY <1>1, <1>3, <1>4, <1>5, CreateEffect
  DEF RegionTypes, RegionFrame, CreatePoints, PartPoints

\* What a call leaves in the cloud, whether its answer arrives or not.
LEMMA WithPartIs ==
  ASSUME RegionTypes, NEW r \in Regions, NEW s \in PartPoints, s = "attach" => loose[r] >= 1
  PROVE  /\ WithPart(r, s)[1] \in [Regions -> Networks]
         /\ WithPart(r, s)[2] \in [Regions -> Nat]
         /\ \A q \in Regions \ {r} :
              WithPart(r, s)[1][q] = net[q] /\ WithPart(r, s)[2][q] = loose[q]
         /\ WithPart(r, s)[1][r] = net[r] \cup (IF s = "gateway" THEN {} ELSE {s})
         /\ s = "gateway" => WithPart(r, s)[2][r] >= 1
<1>1. CASE s = "gateway"
  <2>1. WithPart(r, s) = <<net, [loose EXCEPT ![r] = loose[r] + 1]>>
    BY <1>1 DEF WithPart
  <2> QED
    BY <1>1, <2>1 DEF RegionTypes
<1>2. ASSUME s # "gateway"
      PROVE  /\ [net EXCEPT ![r] = net[r] \cup {s}] \in [Regions -> Networks]
             /\ [net EXCEPT ![r] = net[r] \cup {s}][r] = net[r] \cup {s}
             /\ \A q \in Regions \ {r} : [net EXCEPT ![r] = net[r] \cup {s}][q] = net[q]
  <2>1. net[r] \cup {s} \in Networks
    BY <1>2 DEF RegionTypes, Networks, PartPoints
  <2> QED
    BY <2>1 DEF RegionTypes
<1>3. CASE s = "attach"
  <2> DEFINE nets == [net EXCEPT ![r] = net[r] \cup {s}]
             loosened == [loose EXCEPT ![r] = loose[r] - 1]
  <2>1. WithPart(r, s)[1] = nets /\ WithPart(r, s)[2] = loosened
    BY <1>3 DEF WithPart
  <2>2. loosened \in [Regions -> Nat] /\ \A q \in Regions \ {r} : loosened[q] = loose[q]
    BY <1>3 DEF RegionTypes
  <2>3. /\ nets \in [Regions -> Networks] /\ nets[r] = net[r] \cup {s}
        /\ \A q \in Regions \ {r} : nets[q] = net[q]
    BY <1>2, <1>3
  <2> HIDE DEF nets, loosened
  <2> QED
    BY <1>3, <2>1, <2>2, <2>3
<1>4. CASE s \notin {"gateway", "attach"}
  <2>1. WithPart(r, s) = <<[net EXCEPT ![r] = net[r] \cup {s}], loose>>
    BY <1>4 DEF WithPart
  <2> QED
    BY <1>2, <1>4, <2>1 DEF RegionTypes
<1> QED
  BY <1>1, <1>3, <1>4

LEMMA CreateNetworkStep ==
  ASSUME IInv, NEW r \in Regions, CreateNetwork(r)
  PROVE  RegionEffect(r)
<1> USE DEF IInv, Types
<1> DEFINE s == at[r]
           with == WithPart(r, s)
<1>1. /\ UNCHANGED <<cmd, nodeVars, ran, vpcs, insts>>
      /\ (Fault \/ NoFault) /\ TryMoves(r)
      /\ \/ net' = net /\ loose' = loose
         \/ net' = with[1] /\ loose' = with[2]
      /\ \/ net' = with[1] /\ loose' = with[2] /\ Goto(r, AfterPart(s))
         \/ Goto(r, "describe")
         \/ Goto(r, "done")
  BY DEF CreateNetwork, TryMoves, Leaves
<1>2. s \in PartPoints
  BY DEF CreateNetwork, Parts, PartPoints
<1>3. vpcs[r] = 1 /\ (s = "attach" => loose[r] >= 1) /\ NetState(r)
  BY <1>2 DEF RegionInv, NetState
<1>4. /\ with[1] \in [Regions -> Networks] /\ with[2] \in [Regions -> Nat]
      /\ \A q \in Regions \ {r} : with[1][q] = net[q] /\ with[2][q] = loose[q]
      /\ with[1][r] = net[r] \cup (IF s = "gateway" THEN {} ELSE {s})
      /\ s = "gateway" => with[2][r] >= 1
  BY <1>2, <1>3, WithPartIs
<1> HIDE DEF with
<1>5. /\ net' \in [Regions -> Networks] /\ loose' \in [Regions -> Nat]
      /\ \A q \in Regions \ {r} : net'[q] = net[q] /\ loose'[q] = loose[q]
      /\ net'[r] = net[r] \/ net'[r] = net[r] \cup (IF s = "gateway" THEN {} ELSE {s})
  BY <1>1, <1>4 DEF RegionTypes
<1>6. AfterPart(s) \in {"gateway", "attach", "table", "route", "associate", "groups"}
  BY <1>2, AfterPartIs DEF PartPoints
<1>7. /\ at' \in [Regions -> Points] /\ at'[r] \in {AfterPart(s), "describe", "done"}
      /\ \A q \in Regions \ {r} : at'[q] = at[q]
      /\ at'[r] \notin {"describe", "done"} => net' = with[1] /\ loose' = with[2]
  BY <1>1, <1>6, GotoStep DEF Points, CreatePoints, PartPoints
<1>8. NetState(r)'
  <2>1. CASE at'[r] \in {"describe", "done"}
    BY <1>1, <1>2, <1>3, <1>5, <2>1 DEF NetState, PartPoints
  <2>2. CASE at'[r] = AfterPart(s) /\ net' = with[1] /\ loose' = with[2]
    BY <1>1, <1>2, <1>3, <1>4, <2>2, AfterPartIs DEF NetState, PartPoints
  <2> QED
    BY <1>7, <2>1, <2>2
<1>9. at[r] \in CreatePoints /\ at'[r] \in CreatePoints \cup {"done"}
  BY <1>2, <1>6, <1>7 DEF CreatePoints, PartPoints
<1> QED
  BY <1>1, <1>5, <1>7, <1>8, <1>9, CreateEffect DEF RegionTypes, RegionFrame

LEMMA CreateSecurityGroupStep ==
  ASSUME IInv, NEW r \in Regions, CreateSecurityGroup(r)
  PROVE  RegionEffect(r)
<1> USE DEF IInv, Types
<1>1. /\ at[r] = "groups" /\ UNCHANGED <<cmd, nodeVars, ran, vpcs, loose, insts>>
      /\ (Fault \/ NoFault) /\ TryMoves(r)
  BY DEF CreateSecurityGroup, TryMoves, Leaves
<1>2. vpcs[r] = 1 /\ NetState(r)
  BY <1>1 DEF RegionInv, NetState
<1>3. /\ at' \in [Regions -> Points] /\ at'[r] \in {"groups", "done"}
      /\ \A q \in Regions \ {r} : at'[q] = at[q]
  <2>1. Goto(r, "done") \/ UNCHANGED at
    BY DEF CreateSecurityGroup, Leaves
  <2> QED
    BY <1>1, <2>1, GotoStep DEF RegionTypes, Points
<1>4. PICK more \in {{}, {"group"}, {"group", "ports"}} :
        net' = [net EXCEPT ![r] = net[r] \cup more]
  <2>1. net = [net EXCEPT ![r] = net[r] \cup {}]
    BY DEF RegionTypes
  <2> QED
    BY <2>1 DEF CreateSecurityGroup
<1>5. /\ net' \in [Regions -> Networks] /\ net'[r] = net[r] \cup more
      /\ \A q \in Regions \ {r} : net'[q] = net[q]
  <2>1. net[r] \cup more \in Networks
    BY DEF RegionTypes, Networks
  <2> QED
    BY <1>4, <2>1 DEF RegionTypes
<1>6. NetState(r)'
  BY <1>1, <1>2, <1>3, <1>5 DEF NetState, PartPoints
<1> QED
  BY <1>1, <1>3, <1>5, <1>6, CreateEffect DEF RegionTypes, RegionFrame, CreatePoints

\* A step of destroy: after a fault nothing has to be known of what it leaves.
LEMMA DestroyEffect ==
  ASSUME IInv, NEW r \in Regions, at[r] \in DestroyPoints,
         UNCHANGED <<cmd, nodeVars, ran>>, Fault \/ NoFault, TryMoves(r),
         RegionTypes', RegionFrame(r), at'[r] \in DestroyPoints \cup {"done"}, NetState(r)',
         NoFault => DestroyState(r)'
  PROVE  RegionEffect(r)
<1>1. cmd = "destroy"
  BY Destroying
<1>2. CountersMove /\ TryTypes'
  BY FaultStep, TryStep DEF IInv, Types, Goroutines
<1>3. PointState(r)'
  BY <1>1 DEF PointState
<1>4. DestroyState(r)'
  <2>1. CASE Fault
    BY <2>1 DEF Fault, DestroyState
  <2> QED
    BY <2>1
<1> QED
  BY <1>2, <1>3, <1>4 DEF RegionEffect

LEMMA DescribeStep ==
  ASSUME IInv, NEW r \in Regions, NEW s \in DestroyPoints,
         NEW found \in DestroyPoints, NEW notFound \in DestroyPoints \cup {"done"},
         NEW exists \in BOOLEAN, Describe(r, s, found, notFound, exists),
         found # "deleteGateway", notFound # "deleteGateway", s # "deleteGateway",
         NoFault /\ at'[r] = (IF exists THEN found ELSE notFound)
           /\ UNCHANGED <<cmd, vpcs, net, insts>> => DestroyState(r)'
  PROVE  RegionEffect(r)
<1> USE DEF IInv, Types
<1>1. /\ at[r] = s /\ UNCHANGED <<cmd, nodeVars, ran, vpcs, net, loose, insts>>
      /\ (Fault \/ NoFault) /\ TryMoves(r)
  BY DEF Describe, cloudVars, TryMoves
<1>2. \/ Goto(r, IF exists THEN found ELSE notFound) /\ NoFault
      \/ (UNCHANGED at \/ Goto(r, notFound)) /\ Fault
  BY DEF Describe
<1>3. found \in Points /\ notFound \in Points
  BY DEF Points
<1>4. /\ at' \in [Regions -> Points] /\ at'[r] \in {found, notFound, s}
      /\ \A q \in Regions \ {r} : at'[q] = at[q]
      /\ NoFault => at'[r] = (IF exists THEN found ELSE notFound)
  <2>1. CASE Goto(r, IF exists THEN found ELSE notFound)
    BY <1>3, <2>1, GotoStep
  <2>2. CASE (UNCHANGED at \/ Goto(r, notFound)) /\ Fault
    <3>1. ~NoFault
      BY <2>2 DEF Fault, NoFault, CommandTypes
    <3> QED
      BY <1>1, <1>3, <2>2, <3>1, GotoStep DEF RegionTypes
  <2> QED
    BY <1>2, <2>1, <2>2
<1>5. NetState(r)'
  <2>1. at'[r] \notin PartPoints \cup {"vpc", "groups", "deleteGateway"}
    BY <1>4 DEF DestroyPoints, PartPoints
  <2> QED
    BY <1>1, <2>1 DEF NetState, RegionInv, PartPoints
<1>6. NoFault => DestroyState(r)'
  BY <1>1, <1>4
<1>7. RegionTypes' /\ RegionFrame(r)
  BY <1>1, <1>4 DEF RegionTypes, RegionFrame
<1> QED
  BY <1>1, <1>4, <1>5, <1>6, <1>7, DestroyEffect

LEMMA DescribeTaggedVPCsStep ==
  ASSUME IInv, NEW r \in Regions, DescribeTaggedVPCs(r)
  PROVE  RegionEffect(r)
<1> USE DEF IInv, Types
<1>1. at[r] = "vpcs" /\ NetState(r) /\ DestroyState(r)
  BY DEF DescribeTaggedVPCs, Describe, RegionInv
<1>2. cmd = "destroy"
  BY <1>1, Destroying DEF DestroyPoints
<1>3. ASSUME NoFault, at'[r] = IF vpcs[r] > 0 THEN "deleteSubnets" ELSE "groupList",
             UNCHANGED <<cmd, vpcs, net, insts>>
      PROVE  DestroyState(r)'
  <2>1. vpcs[r] \in {0, 1}
    BY <1>1 DEF NetState, RegionTypes
  <2> QED
    BY <1>1, <1>2, <1>3, <2>1
    DEF DestroyState, NetState, NoFault, BehindSubnets, BehindTables, BehindGateway,
       BehindGroups, BehindVPC
<1> DEFINE exists == vpcs[r] > 0
<1>4. exists \in BOOLEAN
  OBVIOUS
<1> HIDE DEF exists
<1> QED
  BY <1>3, <1>4, DescribeStep DEF DescribeTaggedVPCs, DestroyPoints, exists

LEMMA DescribeSecurityGroupsStep ==
  ASSUME IInv, NEW r \in Regions, DescribeSecurityGroups(r)
  PROVE  RegionEffect(r)
<1> USE DEF IInv, Types
<1>1. at[r] = "groupList" /\ NetState(r) /\ DestroyState(r)
  BY DEF DescribeSecurityGroups, Describe, RegionInv
<1>2. cmd = "destroy"
  BY <1>1, Destroying DEF DestroyPoints
<1>3. ASSUME NoFault, at'[r] = IF "group" \in net[r] THEN "deleteGroups" ELSE "instanceList",
             UNCHANGED <<cmd, vpcs, net, insts>>
      PROVE  DestroyState(r)'
  BY <1>1, <1>2, <1>3
  DEF DestroyState, NetState, NoFault, BehindSubnets, BehindTables, BehindGateway,
     BehindGroups, BehindVPC
<1> DEFINE exists == "group" \in net[r]
<1>4. exists \in BOOLEAN
  OBVIOUS
<1> HIDE DEF exists
<1> QED
  BY <1>3, <1>4, DescribeStep DEF DescribeSecurityGroups, DestroyPoints, exists

LEMMA DescribeInstancesStep ==
  ASSUME IInv, NEW r \in Regions, DescribeInstances(r)
  PROVE  RegionEffect(r)
<1> USE DEF IInv, Types
<1>1. at[r] = "instanceList" /\ NetState(r) /\ DestroyState(r)
  BY DEF DescribeInstances, Describe, RegionInv
<1>2. cmd = "destroy"
  BY <1>1, Destroying DEF DestroyPoints
<1>3. ASSUME NoFault, at'[r] = IF InUse(r) THEN "terminate" ELSE "done",
             UNCHANGED <<cmd, vpcs, net, insts>>
      PROVE  DestroyState(r)'
  BY <1>1, <1>2, <1>3
  DEF DestroyState, NetState, NoFault, BehindSubnets, BehindTables, BehindGateway,
     BehindGroups, BehindVPC, InUse
<1> QED
  BY <1>3, DescribeStep DEF DescribeInstances, DestroyPoints, InUse

\* A call that deletes parts: either all that the cloud lets it delete, or after a fault
\* nothing.
LEMMA DeletePartsStep ==
  ASSUME IInv, NEW r \in Regions, NEW s \in DestroyPoints, NEW next \in DestroyPoints,
         DeleteParts(r, s, next), s # "deleteGateway", next # "deleteGateway",
         Deleted(r, s) \in {{}, {"subnet", "associate"}, {"table", "route"}, {"group", "ports"}},
         "table" \in Deleted(r, s) => "associate" \notin net[r],
         NoFault /\ at'[r] = next /\ net'[r] = net[r] \ Deleted(r, s)
           /\ UNCHANGED <<cmd, vpcs, insts>> => DestroyState(r)'
  PROVE  RegionEffect(r)
<1> USE DEF IInv, Types
<1>1. /\ at[r] = s /\ UNCHANGED <<cmd, nodeVars, ran, try, vpcs, loose, insts>>
      /\ (Fault \/ NoFault) /\ TryMoves(r) /\ Goto(r, next)
  BY DEF DeleteParts, TryMoves
<1>2. /\ at' \in [Regions -> Points] /\ at'[r] = next
      /\ \A q \in Regions \ {r} : at'[q] = at[q]
  BY <1>1, GotoStep DEF Points
<1>3. PICK gone \in {{}, Deleted(r, s)} : net' = [net EXCEPT ![r] = net[r] \ gone]
  <2>1. net = [net EXCEPT ![r] = net[r] \ {}]
    BY DEF RegionTypes
  <2> QED
    BY <2>1 DEF DeleteParts
<1>4. /\ net' \in [Regions -> Networks] /\ net'[r] = net[r] \ gone
      /\ \A q \in Regions \ {r} : net'[q] = net[q]
  <2>1. net[r] \ gone \in Networks
    BY DEF RegionTypes, Networks
  <2> QED
    BY <1>3, <2>1 DEF RegionTypes
<1>5. NetState(r)'
  <2>1. next \notin PartPoints \cup {"vpc", "groups", "deleteGateway"}
    BY DEF DestroyPoints, PartPoints
  <2>2. NetState(r)
    BY DEF RegionInv
  <2> QED
    BY <1>1, <1>2, <1>4, <2>1, <2>2 DEF NetState, PartPoints
<1>6. NoFault => net'[r] = net[r] \ Deleted(r, s)
  <2> SUFFICES ASSUME NoFault  PROVE net'[r] = net[r] \ Deleted(r, s)
    OBVIOUS
  <2>1. ~Fault
    BY DEF Fault, NoFault, CommandTypes
  <2> QED
    BY <2>1 DEF DeleteParts, RegionTypes
<1>7. RegionTypes' /\ RegionFrame(r)
  BY <1>1, <1>2, <1>4 DEF RegionTypes, RegionFrame
<1> QED
  BY <1>1, <1>2, <1>5, <1>6, <1>7, DestroyEffect

LEMMA DeleteSubnetsStep ==
  ASSUME IInv, NEW r \in Regions, DeleteSubnets(r)
  PROVE  RegionEffect(r)
<1> USE DEF IInv, Types
<1>1. at[r] = "deleteSubnets" /\ NetState(r) /\ DestroyState(r)
  BY DEF DeleteSubnets, DeleteParts, RegionInv
<1>2. cmd = "destroy"
  BY <1>1, Destroying DEF DestroyPoints
<1>3. Deleted(r, "deleteSubnets") = IF InUse(r) THEN {} ELSE {"subnet", "associate"}
  BY DEF Deleted
<1>4. ASSUME NoFault, at'[r] = "deleteTables",
             net'[r] = net[r] \ Deleted(r, "deleteSubnets"), UNCHANGED <<cmd, vpcs, insts>>
      PROVE  DestroyState(r)'
  BY <1>1, <1>2, <1>3, <1>4
  DEF DestroyState, NetState, NoFault, BehindSubnets, BehindTables, BehindGateway,
     BehindGroups, BehindVPC, InUse
<1> QED
  BY <1>3, <1>4, DeletePartsStep DEF DeleteSubnets, DestroyPoints

LEMMA DeleteRouteTablesStep ==
  ASSUME IInv, NEW r \in Regions, DeleteRouteTables(r)
  PROVE  RegionEffect(r)
<1> USE DEF IInv, Types
<1>1. at[r] = "deleteTables" /\ NetState(r) /\ DestroyState(r)
  BY DEF DeleteRouteTables, DeleteParts, RegionInv
<1>2. cmd = "destroy"
  BY <1>1, Destroying DEF DestroyPoints
<1>3. Deleted(r, "deleteTables") = IF "associate" \in net[r] THEN {} ELSE {"table", "route"}
  BY DEF Deleted
<1>4. ASSUME NoFault, at'[r] = "detach",
             net'[r] = net[r] \ Deleted(r, "deleteTables"), UNCHANGED <<cmd, vpcs, insts>>
      PROVE  DestroyState(r)'
  BY <1>1, <1>2, <1>3, <1>4
  DEF DestroyState, NetState, NoFault, BehindSubnets, BehindTables, BehindGateway,
     BehindGroups, BehindVPC
<1> QED
  BY <1>3, <1>4, DeletePartsStep DEF DeleteRouteTables, DestroyPoints

LEMMA DeleteSecurityGroupsStep ==
  ASSUME IInv, NEW r \in Regions, DeleteSecurityGroups(r)
  PROVE  RegionEffect(r)
<1> USE DEF IInv, Types
<1>1. at[r] = "deleteGroups" /\ NetState(r) /\ DestroyState(r)
  BY DEF DeleteSecurityGroups, DeleteParts, RegionInv
<1>2. cmd = "destroy"
  BY <1>1, Destroying DEF DestroyPoints
<1>3. Deleted(r, "deleteGroups") = IF InUse(r) THEN {} ELSE {"group", "ports"}
  BY DEF Deleted
<1>4. ASSUME NoFault, at'[r] = "instanceList",
             net'[r] = net[r] \ Deleted(r, "deleteGroups"), UNCHANGED <<cmd, vpcs, insts>>
      PROVE  DestroyState(r)'
  BY <1>1, <1>2, <1>3, <1>4
  DEF DestroyState, NetState, NoFault, BehindSubnets, BehindTables, BehindGateway,
     BehindGroups, BehindVPC, InUse
<1> QED
  BY <1>3, <1>4, DeletePartsStep DEF DeleteSecurityGroups, DestroyPoints

LEMMA DetachInternetGatewayStep ==
  ASSUME IInv, NEW r \in Regions, DetachInternetGateway(r)
  PROVE  RegionEffect(r)
<1> USE DEF IInv, Types
<1>1. /\ at[r] = "detach" /\ UNCHANGED <<cmd, nodeVars, ran, try, vpcs, insts>>
      /\ (Fault \/ NoFault) /\ TryMoves(r) /\ NetState(r) /\ DestroyState(r)
  BY DEF DetachInternetGateway, TryMoves, RegionInv
<1>2. cmd = "destroy"
  BY <1>1, Destroying DEF DestroyPoints
<1>3. /\ at' \in [Regions -> Points] /\ at'[r] \in {"deleteGateway", "deleteVPC"}
      /\ \A q \in Regions \ {r} : at'[q] = at[q]
  <2>1. Goto(r, "deleteGateway") \/ Goto(r, "deleteVPC")
    BY DEF DetachInternetGateway
  <2> QED
    BY <2>1, GotoStep DEF Points, DestroyPoints
<1>4. CASE /\ "attach" \in net[r] /\ Goto(r, "deleteGateway") /\ NoFault
           /\ net' = [net EXCEPT ![r] = @ \ {"attach"}]
           /\ loose' = [loose EXCEPT ![r] = @ + 1]
  <2>1. net' = [net EXCEPT ![r] = net[r] \ {"attach"}] /\ net[r] \ {"attach"} \in Networks
    BY <1>4 DEF RegionTypes, Networks
  <2>2. /\ net' \in [Regions -> Networks] /\ net'[r] = net[r] \ {"attach"}
        /\ \A q \in Regions \ {r} : net'[q] = net[q]
    BY <2>1 DEF RegionTypes
  <2>3. /\ loose' \in [Regions -> Nat] /\ loose'[r] >= 1
        /\ \A q \in Regions \ {r} : loose'[q] = loose[q]
    BY <1>4 DEF RegionTypes
  <2>4. NetState(r)'
    BY <1>1, <1>3, <2>2, <2>3 DEF NetState, PartPoints
  <2>5. DestroyState(r)'
    BY <1>1, <1>2, <1>3, <1>4, <2>2
    DEF DestroyState, NoFault, BehindSubnets, BehindTables, BehindGateway, BehindGroups,
       BehindVPC
  <2>6. RegionTypes' /\ RegionFrame(r)
    BY <1>1, <1>3, <2>2, <2>3 DEF RegionTypes, RegionFrame
  <2> QED
    BY <1>1, <1>3, <2>4, <2>5, <2>6, DestroyEffect DEF DestroyPoints
<1>5. CASE /\ Goto(r, "deleteVPC") /\ UNCHANGED <<net, loose>>
           /\ NoFault => "attach" \notin net[r] \/ InUse(r)
  <2>1. at'[r] = "deleteVPC"
    BY <1>5, GotoStep DEF Points, DestroyPoints
  <2>2. NetState(r)'
    BY <1>1, <1>5, <2>1 DEF NetState, PartPoints
  <2>3. NoFault => DestroyState(r)'
    BY <1>1, <1>2, <1>5, <2>1
    DEF DestroyState, NoFault, InUse, BehindSubnets, BehindTables, BehindGateway,
       BehindGroups, BehindVPC
  <2>4. RegionTypes' /\ RegionFrame(r)
    BY <1>1, <1>3, <1>5 DEF RegionTypes, RegionFrame
  <2> QED
    BY <1>1, <1>3, <2>2, <2>3, <2>4, DestroyEffect DEF DestroyPoints
<1>6. ~(Fault /\ NoFault)
  BY DEF Fault, NoFault, CommandTypes
<1> QED
  BY <1>4, <1>5, <1>6 DEF DetachInternetGateway

LEMMA DeleteInternetGatewayStep ==
  ASSUME IInv, NEW r \in Regions, DeleteInternetGateway(r)
  PROVE  RegionEffect(r)
<1> USE DEF IInv, Types
<1>1. /\ at[r] = "deleteGateway" /\ UNCHANGED <<cmd, nodeVars, ran, try, vpcs, net, insts>>
      /\ (Fault \/ NoFault) /\ TryMoves(r) /\ NetState(r) /\ DestroyState(r)
      /\ Goto(r, "deleteVPC")
  BY DEF DeleteInternetGateway, TryMoves, RegionInv
<1>2. cmd = "destroy"
  BY <1>1, Destroying DEF DestroyPoints
<1>3. /\ at' \in [Regions -> Points] /\ at'[r] = "deleteVPC"
      /\ \A q \in Regions \ {r} : at'[q] = at[q]
  BY <1>1, GotoStep DEF Points, DestroyPoints
<1>4. /\ loose' \in [Regions -> Nat]
      /\ \A q \in Regions \ {r} : loose'[q] = loose[q]
  <2>1. loose[r] - 1 \in Nat
    BY <1>1 DEF NetState, RegionTypes
  <2>2. loose' = loose \/ loose' = [loose EXCEPT ![r] = loose[r] - 1]
    BY DEF DeleteInternetGateway
  <2> QED
    BY <2>1, <2>2 DEF RegionTypes
<1>5. NetState(r)'
  BY <1>1, <1>3 DEF NetState, PartPoints
<1>6. NoFault => DestroyState(r)'
  BY <1>1, <1>2, <1>3
  DEF DestroyState, NoFault, BehindSubnets, BehindTables, BehindGateway, BehindGroups,
     BehindVPC
<1>7. RegionTypes' /\ RegionFrame(r)
  BY <1>1, <1>3, <1>4 DEF RegionTypes, RegionFrame
<1> QED
  BY <1>1, <1>3, <1>5, <1>6, <1>7, DestroyEffect DEF DestroyPoints

\* Where DeleteVPC deletes, no part is left: what a VPC may be deleted with hangs on what it
\* may not be deleted with.
LEMMA DeleteVPCStep ==
  ASSUME IInv, NEW r \in Regions, DeleteVPC(r)
  PROVE  RegionEffect(r)
<1> USE DEF IInv, Types
<1>1. /\ at[r] = "deleteVPC" /\ UNCHANGED <<cmd, nodeVars, ran, net, loose, insts>>
      /\ (Fault \/ NoFault) /\ TryMoves(r) /\ NetState(r) /\ DestroyState(r)
  BY DEF DeleteVPC, TryMoves, RegionInv
<1>2. cmd = "destroy"
  BY <1>1, Destroying DEF DestroyPoints
<1>3. ~(Fault /\ NoFault)
  BY DEF Fault, NoFault, CommandTypes
<1>4. /\ at' \in [Regions -> Points] /\ at'[r] \in {"groupList", "deleteVPC"}
      /\ NoFault => at'[r] = "groupList"
      /\ \A q \in Regions \ {r} : at'[q] = at[q]
  <2>1. CASE Goto(r, "groupList")
    BY <2>1, GotoStep DEF Points, DestroyPoints
  <2>2. CASE UNCHANGED at /\ Fault
    BY <1>1, <1>3, <2>2 DEF RegionTypes
  <2> QED
    BY <2>1, <2>2 DEF DeleteVPC
<1>5. Deletable(r) => net[r] = {}
  BY <1>1 DEF Deletable, NetState, RegionTypes, Networks
<1>6. /\ vpcs' \in [Regions -> Nat]
      /\ \A q \in Regions \ {r} : vpcs'[q] = vpcs[q]
      /\ vpcs'[r] = vpcs[r] \/ (vpcs'[r] = 0 /\ net[r] = {})
      /\ NoFault /\ Deletable(r) => vpcs'[r] = 0
  <2>1. CASE Deletable(r) /\ vpcs' = [vpcs EXCEPT ![r] = 0]
    BY <1>5, <2>1 DEF RegionTypes
  <2>2. CASE vpcs' = vpcs /\ (Fault \/ ~Deletable(r))
    BY <1>3, <2>2 DEF RegionTypes
  <2> QED
    BY <2>1, <2>2 DEF DeleteVPC
<1>7. NetState(r)'
  BY <1>1, <1>4, <1>6 DEF NetState, PartPoints
<1>8. NoFault => DestroyState(r)'
  BY <1>1, <1>2, <1>4, <1>6
  DEF DestroyState, NoFault, Deletable, BehindSubnets, BehindTables, BehindGateway,
     BehindGroups, BehindVPC
<1>9. RegionTypes' /\ RegionFrame(r)
  BY <1>1, <1>4, <1>6 DEF RegionTypes, RegionFrame
<1> QED
  BY <1>1, <1>4, <1>7, <1>8, <1>9, DestroyEffect DEF DestroyPoints

LEMMA TerminateInstancesStep ==
  ASSUME IInv, NEW r \in Regions, TerminateInstances(r)
  PROVE  RegionEffect(r)
<1> USE DEF IInv, Types
<1>1. /\ at[r] = "terminate" /\ UNCHANGED <<cmd, nodeVars, ran, vpcs, net, loose>>
      /\ (Fault \/ NoFault) /\ TryMoves(r) /\ NetState(r) /\ DestroyState(r)
  BY DEF TerminateInstances, TryMoves, RegionInv, Leaves
<1>2. cmd = "destroy" /\ ~(clean >= 1)
  BY <1>1, Destroying DEF DestroyPoints, DestroyState
<1>3. ~(Fault /\ NoFault)
  BY DEF Fault, NoFault, CommandTypes
<1>4. /\ at' \in [Regions -> Points] /\ at'[r] \in {"wait", "instanceList", "done"}
      /\ NoFault => at'[r] = "wait"
      /\ \A q \in Regions \ {r} : at'[q] = at[q]
  <2>1. CASE Goto(r, "wait")
    BY <2>1, GotoStep DEF Points, DestroyPoints
  <2>2. CASE (Goto(r, "instanceList") \/ Goto(r, "done")) /\ Fault
    BY <1>3, <2>2, GotoStep DEF Points, DestroyPoints
  <2> QED
    BY <2>1, <2>2 DEF TerminateInstances, Leaves
<1>5. insts' \in [Regions -> Instances] /\ \A q \in Regions \ {r} : insts'[q] = insts[q]
  <2>1. insts' = insts \/ insts' = [insts EXCEPT ![r] = {"stopping"}]
    BY DEF TerminateInstances, Stopped
  <2> QED
    BY <2>1 DEF RegionTypes, Instances
<1>6. NetState(r)'
  BY <1>1, <1>4 DEF NetState, PartPoints
<1>7. NoFault => DestroyState(r)'
  BY <1>1, <1>2, <1>4, Destroying DEF DestroyState, NoFault, DestroyPoints
<1>8. RegionTypes' /\ RegionFrame(r)
  BY <1>1, <1>4, <1>5 DEF RegionTypes, RegionFrame
<1> QED
  BY <1>1, <1>4, <1>6, <1>7, <1>8, DestroyEffect DEF DestroyPoints

LEMMA WaitUntilTerminatedStep ==
  ASSUME IInv, NEW r \in Regions, WaitUntilTerminated(r)
  PROVE  RegionEffect(r)
<1> USE DEF IInv, Types
<1>1. /\ at[r] = "wait" /\ UNCHANGED <<cmd, nodeVars, ran, try, vpcs, net, loose, insts>>
      /\ (Fault \/ NoFault) /\ TryMoves(r) /\ NetState(r) /\ DestroyState(r)
      /\ Goto(r, "done") /\ (InUse(r) => Fault)
  BY DEF WaitUntilTerminated, TryMoves, RegionInv, cloudVars
<1>2. cmd = "destroy" /\ clean \in Int /\ ~(clean >= 1)
  BY <1>1, Destroying DEF DestroyPoints, DestroyState
<1>3. ~(Fault /\ NoFault)
  BY DEF Fault, NoFault, CommandTypes
<1>4. /\ at' \in [Regions -> Points] /\ at'[r] = "done"
      /\ \A q \in Regions \ {r} : at'[q] = at[q]
  BY <1>1, GotoStep DEF Points
<1>5. NetState(r)'
  BY <1>1, <1>4 DEF NetState, PartPoints
<1>6. NoFault => DestroyState(r)'
  BY <1>1, <1>2, <1>3, <1>4 DEF DestroyState, NoFault, InUse
<1>7. RegionTypes' /\ RegionFrame(r)
  BY <1>1, <1>4 DEF RegionTypes, RegionFrame
<1> QED
  BY <1>1, <1>4, <1>5, <1>6, <1>7, DestroyEffect DEF DestroyPoints

LEMMA InstancesTerminatedStep ==
  ASSUME IInv, NEW r \in Regions, InstancesTerminated(r)
  PROVE  RegionEffect(r)
<1> USE DEF IInv, Types
<1>1. /\ UNCHANGED <<cmd, at, nodeVars, try, vpcs, net, loose, ran, faults, clean>>
      /\ insts' = [insts EXCEPT ![r] = insts[r] \ {"stopping"}]
      /\ PointState(r) /\ NetState(r) /\ DestroyState(r)
  BY DEF InstancesTerminated, RegionInv
<1>2. /\ insts' \in [Regions -> Instances] /\ insts'[r] = insts[r] \ {"stopping"}
      /\ \A q \in Regions \ {r} : insts'[q] = insts[q]
  <2>1. insts[r] \ {"stopping"} \in Instances
    BY DEF RegionTypes, Instances
  <2> QED
    BY <1>1, <2>1 DEF RegionTypes
<1>3. PointState(r)' /\ NetState(r)'
  BY <1>1 DEF PointState, NetState
<1>4. DestroyState(r)'
  BY <1>1, <1>2 DEF DestroyState
<1>5. RegionTypes' /\ RegionFrame(r) /\ TryTypes' /\ CountersMove
  BY <1>1, <1>2 DEF RegionTypes, RegionFrame, TryTypes, CountersMove
<1> QED
  BY <1>1, <1>3, <1>4, <1>5 DEF RegionEffect

LEMMA RegionStep ==
  ASSUME IInv, NEW r \in Regions, Region(r) \/ InstancesTerminated(r)
  PROVE  RegionEffect(r)
BY GetAvailableZoneStep, DescribeVpcsStep, CreateVpcStep, CreateNetworkStep,
   CreateSecurityGroupStep, DescribeTaggedVPCsStep, DeleteSubnetsStep,
   DeleteRouteTablesStep, DetachInternetGatewayStep, DeleteInternetGatewayStep,
   DeleteVPCStep, DescribeSecurityGroupsStep, DeleteSecurityGroupsStep,
   DescribeInstancesStep, TerminateInstancesStep, WaitUntilTerminatedStep,
   InstancesTerminatedStep
DEF Region, DeleteTaggedResources

LEMMA RegionStepInv ==
  ASSUME IInv, NEW r \in Regions, RegionEffect(r)
  PROVE  IInv'
<1> USE DEF IInv, Types
<1>1. UNCHANGED <<cmd, nodeVars, ran>> /\ CountersMove /\ clean \in Int
  BY BoundsAssumption DEF RegionEffect, CommandTypes
<1>2. Types'
  BY <1>1, BoundsAssumption
  DEF RegionEffect, CommandTypes, NodeTypes, nodeVars, CountersMove
<1>3. RegionInv'
  <2> SUFFICES ASSUME NEW q \in Regions
               PROVE  (PointState(q) /\ NetState(q) /\ DestroyState(q))'
    BY DEF RegionInv
  <2>1. CASE q = r
    BY <2>1 DEF RegionEffect
  <2>2. CASE q # r
    <3>1. /\ at'[q] = at[q] /\ vpcs'[q] = vpcs[q] /\ net'[q] = net[q]
          /\ loose'[q] = loose[q] /\ insts'[q] = insts[q]
      BY <2>2 DEF RegionEffect, RegionFrame
    <3>2. PointState(q) /\ NetState(q) /\ DestroyState(q)
      BY DEF RegionInv
    <3>3. PointState(q)' /\ NetState(q)'
      BY <1>1, <3>1, <3>2 DEF PointState, NetState
    <3>4. DestroyState(q)'
      BY <1>1, <3>1, <3>2 DEF DestroyState, CountersMove
    <3> QED
      BY <3>3, <3>4
  <2> QED
    BY <2>1, <2>2
<1>4. CountInv'
  BY <1>1, BoundsAssumption DEF CountInv, CountersMove, CommandTypes
<1>5. NodeInv'
  BY <1>1 DEF NodeInv, NodeState, nodeVars
<1> QED
  BY <1>2, <1>3, <1>4, <1>5

------------------------------------------------------------------------------
(* Steps of a node's goroutine. *)

NodeFrame(n) ==
  \A m \in Nodes \ {n} : node'[m] = node[m] /\ read'[m] = read[m]

NodeEffect(n) ==
  /\ UNCHANGED <<cmd, at, vpcs, net, loose, ran>> /\ CountersMove
  /\ TryTypes' /\ NodeTypes' /\ insts' \in [Regions -> Instances]
  /\ cmd = IF n \in Computes THEN "computes" ELSE "orchestrators"
  /\ NodeFrame(n) /\ NodeState(n)'
  /\ ips' = ips \/ (n \in Orchestrators /\ ips' # {})

\* A goroutine of a node is at work in the part of the command that is about such nodes.
LEMMA AtWork ==
  ASSUME IInv, NEW n \in Nodes, node[n] \notin {"waiting", "done"}
  PROVE  /\ cmd = IF n \in Computes THEN "computes" ELSE "orchestrators"
         /\ node[n] \in Appending => n \notin Computes
BY DEF IInv, NodeInv, NodeState

LEMMA NodeGotoStep ==
  ASSUME NodeTypes, NEW n \in Nodes, NEW s \in NodePoints, NodeGoto(n, s)
  PROVE  /\ node' \in [Nodes -> NodePoints] /\ node'[n] = s
         /\ \A m \in Nodes \ {n} : node'[m] = node[m]
BY DEF NodeTypes, NodeGoto

\* Where a goroutine goes when it has no instance to describe any more.
LeavingTo(n) == IF n \in Computes THEN {"done"} ELSE {"readFound", "readNone"}

LEMMA NodeLeavesStep ==
  ASSUME NodeTypes, NEW n \in Nodes, NEW found \in BOOLEAN, NodeLeaves(n, found)
  PROVE  \E s \in LeavingTo(n) \cap NodePoints : NodeGoto(n, s)
BY DEF NodeLeaves, LeavingTo, NodePoints, Appending

\* A step that leaves the list of addresses, and what the node has read of it.
LEMMA NodePointEffect ==
  ASSUME IInv, NEW n \in Nodes, node[n] \in {"lookup", "image", "run", "boot"},
         UNCHANGED <<cmd, at, ips, vpcs, net, loose, ran>>, Fault \/ NoFault, TryMoves(n),
         insts' \in [Regions -> Instances],
         NEW s \in {"lookup", "image", "run"} \cup LeavingTo(n), NodeGoto(n, s),
         read' \in [Nodes -> AddressSets], \A m \in Nodes \ {n} : read'[m] = read[m]
  PROVE  NodeEffect(n)
<1>1. cmd = IF n \in Computes THEN "computes" ELSE "orchestrators"
  BY AtWork
<1>2. CountersMove /\ TryTypes'
  BY FaultStep, TryStep DEF IInv, Types, Goroutines
<1>3. /\ node' \in [Nodes -> NodePoints] /\ node'[n] = s
      /\ \A m \in Nodes \ {n} : node'[m] = node[m]
  BY NodeGotoStep DEF LeavingTo, NodePoints, Appending, IInv, Types
<1>4. NodeState(n)'
  BY <1>1, <1>3, NodesAssumption DEF NodeState, LeavingTo, Appending
<1> QED
  BY <1>1, <1>2, <1>3, <1>4 DEF NodeEffect, NodeFrame, NodeTypes, IInv, Types

LEMMA LookUpStep ==
  ASSUME IInv, NEW n \in Nodes, LookUp(n)
  PROVE  NodeEffect(n)
<1>1. /\ node[n] = "lookup" /\ UNCHANGED <<cmd, at, ips, vpcs, net, loose, ran>>
      /\ UNCHANGED <<insts, read>> /\ (Fault \/ NoFault) /\ TryMoves(n)
  BY DEF LookUp, TryMoves, NodeLeaves, cloudVars
<1>2. \E s \in {"lookup", "image"} \cup LeavingTo(n) : NodeGoto(n, s)
  <2>1. ASSUME UNCHANGED node
        PROVE  NodeGoto(n, "lookup")
    BY <1>1, <2>1 DEF NodeGoto, IInv, Types, NodeTypes
  <2>2. TRUE \in BOOLEAN /\ FALSE \in BOOLEAN
    OBVIOUS
  <2>3. NodeLeaves(n, FALSE) => \E s \in LeavingTo(n) : NodeGoto(n, s)
    BY <2>2, NodeLeavesStep DEF IInv, Types
  <2> QED
    BY <2>1, <2>3 DEF LookUp
<1> QED
  BY <1>1, <1>2, NodePointEffect DEF IInv, Types, NodeTypes, RegionTypes

LEMMA GetImageStep ==
  ASSUME IInv, NEW n \in Nodes, GetImage(n)
  PROVE  NodeEffect(n)
<1>1. /\ node[n] = "image" /\ UNCHANGED <<cmd, at, ips, vpcs, net, loose, ran>>
      /\ UNCHANGED <<insts, read>> /\ (Fault \/ NoFault) /\ TryMoves(n)
  BY DEF GetImage, TryMoves, NodeLeaves, cloudVars
<1>2. \E s \in {"run", "lookup"} \cup LeavingTo(n) : NodeGoto(n, s)
  <2>1. TRUE \in BOOLEAN /\ FALSE \in BOOLEAN
    OBVIOUS
  <2>2. NodeLeaves(n, FALSE) => \E s \in LeavingTo(n) : NodeGoto(n, s)
    BY <2>1, NodeLeavesStep DEF IInv, Types
  <2> QED
    BY <2>2 DEF GetImage
<1> QED
  BY <1>1, <1>2, NodePointEffect DEF IInv, Types, NodeTypes, RegionTypes

LEMMA InstanceRunningStep ==
  ASSUME IInv, NEW n \in Nodes, InstanceRunning(n)
  PROVE  NodeEffect(n)
<1>1. /\ node[n] = "boot" /\ UNCHANGED <<cmd, at, ips, vpcs, net, loose, ran>>
      /\ UNCHANGED insts /\ (Fault \/ NoFault) /\ TryMoves(n)
      /\ read' = [read EXCEPT ![n] = {}]
  BY DEF InstanceRunning, TryMoves, NodeLeaves, cloudVars
<1>2. \E s \in LeavingTo(n) : NodeGoto(n, s)
  <2>1. TRUE \in BOOLEAN /\ FALSE \in BOOLEAN
    OBVIOUS
  <2>2. \A found \in BOOLEAN : NodeLeaves(n, found) => \E s \in LeavingTo(n) : NodeGoto(n, s)
    BY NodeLeavesStep DEF IInv, Types
  <2> QED
    BY <2>1, <2>2 DEF InstanceRunning
<1>3. read' \in [Nodes -> AddressSets] /\ \A m \in Nodes \ {n} : read'[m] = read[m]
  BY <1>1 DEF IInv, Types, NodeTypes, AddressSets
<1> QED
  BY <1>1, <1>2, <1>3, NodePointEffect DEF IInv, Types, RegionTypes

LEMMA RunInstancesStep ==
  ASSUME IInv, NEW n \in Nodes, RunInstances(n)
  PROVE  NodeEffect(n)
<1> USE DEF IInv, Types
<1>1. /\ node[n] = "run" /\ UNCHANGED <<cmd, at, ips, vpcs, net, loose, ran>>
      /\ (Fault \/ NoFault) /\ TryMoves(n)
  BY DEF RunInstances, TryMoves, NodeLeaves
<1>2. insts' \in [Regions -> Instances]
  <2>1. RegionOf[n] \in Regions
    BY NodesAssumption
  <2>2. insts[RegionOf[n]] \cup {"running"} \in Instances
    BY <2>1 DEF RegionTypes, Instances
  <2>3. insts' = insts
        \/ insts' = [insts EXCEPT ![RegionOf[n]] = insts[RegionOf[n]] \cup {"running"}]
    BY DEF RunInstances
  <2> QED
    BY <2>2, <2>3 DEF RegionTypes
<1>3. CASE NodeGoto(n, "boot") /\ UNCHANGED try /\ NoFault
           /\ read' = [read EXCEPT ![n] = StartupScript(n)]
  <2>1. cmd = IF n \in Computes THEN "computes" ELSE "orchestrators"
    BY <1>1, AtWork
  <2>2. CountersMove /\ TryTypes'
    BY <1>1, FaultStep, TryStep DEF Goroutines
  <2>3. /\ node' \in [Nodes -> NodePoints] /\ node'[n] = "boot"
        /\ \A m \in Nodes \ {n} : node'[m] = node[m]
    BY <1>3, NodeGotoStep DEF NodePoints
  <2>4. StartupScript(n) \in AddressSets
    BY DEF StartupScript, NodeTypes, AddressSets
  <2>5. /\ read' \in [Nodes -> AddressSets] /\ read'[n] = StartupScript(n)
        /\ \A m \in Nodes \ {n} : read'[m] = read[m]
    BY <1>3, <2>4 DEF NodeTypes
  <2>6. NodeState(n)'
    BY <1>1, <2>1, <2>3, <2>5 DEF NodeState, Appending, StartupScript
  <2> QED
    BY <1>1, <1>2, <2>1, <2>2, <2>3, <2>5, <2>6 DEF NodeEffect, NodeFrame, NodeTypes
<1>4. CASE (NodeGoto(n, "lookup") \/ NodeLeaves(n, FALSE)) /\ UNCHANGED read
  <2>1. TRUE \in BOOLEAN /\ FALSE \in BOOLEAN
    OBVIOUS
  <2>2. NodeLeaves(n, FALSE) => \E s \in LeavingTo(n) : NodeGoto(n, s)
    BY <2>1, NodeLeavesStep
  <2>3. \E s \in {"lookup"} \cup LeavingTo(n) : NodeGoto(n, s)
    BY <1>4, <2>2
  <2> QED
    BY <1>1, <1>2, <1>4, <2>3, NodePointEffect DEF NodeTypes
<1> QED
  BY <1>3, <1>4 DEF RunInstances

LEMMA ReadIPsStep ==
  ASSUME IInv, NEW n \in Nodes, ReadIPs(n)
  PROVE  NodeEffect(n)
<1> USE DEF IInv, Types
<1>1. /\ node[n] \in Appending /\ UNCHANGED <<cmd, at, ips, vpcs, net, loose, insts, ran>>
      /\ UNCHANGED <<try, faults, clean>>
      /\ read' = [read EXCEPT ![n] = ips]
      /\ (NodeGoto(n, "writeFound") \/ NodeGoto(n, "writeNone"))
  BY DEF ReadIPs, Appending, cloudVars
<1>2. cmd = "orchestrators" /\ n \notin Computes
  BY <1>1, AtWork DEF Appending
<1>3. /\ node' \in [Nodes -> NodePoints] /\ node'[n] \in Appending
      /\ \A m \in Nodes \ {n} : node'[m] = node[m]
  BY <1>1, NodeGotoStep DEF NodePoints, Appending
<1>4. read' \in [Nodes -> AddressSets] /\ \A m \in Nodes \ {n} : read'[m] = read[m]
  BY <1>1 DEF NodeTypes
<1>5. NodeState(n)'
  BY <1>1, <1>2, <1>3 DEF NodeState, Appending
<1> QED
  BY <1>1, <1>2, <1>3, <1>4, <1>5
  DEF NodeEffect, NodeFrame, NodeTypes, RegionTypes, TryTypes, CountersMove

LEMMA AppendIPStep ==
  ASSUME IInv, NEW n \in Nodes, AppendIP(n)
  PROVE  NodeEffect(n)
<1> USE DEF IInv, Types
<1>1. /\ node[n] \in Appending /\ UNCHANGED <<cmd, at, vpcs, net, loose, insts, ran>>
      /\ UNCHANGED <<try, faults, clean>> /\ NodeGoto(n, "done")
      /\ read' = [read EXCEPT ![n] = {}]
      /\ \E a \in {n, None} : ips' = read[n] \cup {a}
  BY DEF AppendIP, Appending, cloudVars
<1>2. cmd = "orchestrators" /\ n \notin Computes /\ n \in Orchestrators
  BY <1>1, AtWork DEF Appending, Nodes
<1>3. ips' \in AddressSets /\ ips' # {}
  BY <1>1, <1>2 DEF NodeTypes, AddressSets
<1>4. /\ node' \in [Nodes -> NodePoints] /\ node'[n] = "done"
      /\ \A m \in Nodes \ {n} : node'[m] = node[m]
  BY <1>1, NodeGotoStep DEF NodePoints
<1>5. read' \in [Nodes -> AddressSets] /\ \A m \in Nodes \ {n} : read'[m] = read[m]
  BY <1>1 DEF NodeTypes, AddressSets
<1>6. NodeState(n)'
  BY <1>1, <1>2, <1>3, <1>4 DEF NodeState
<1> QED
  BY <1>1, <1>2, <1>3, <1>4, <1>5, <1>6
  DEF NodeEffect, NodeFrame, NodeTypes, RegionTypes, TryTypes, CountersMove

LEMMA NodeStepInv ==
  ASSUME IInv, NEW n \in Nodes, CreateInstanceInRegion(n)
  PROVE  IInv'
<1> USE DEF IInv, Types
<1>1. NodeEffect(n)
  BY LookUpStep, GetImageStep, RunInstancesStep, InstanceRunningStep, ReadIPsStep,
     AppendIPStep
  DEF CreateInstanceInRegion
<1>2. /\ UNCHANGED <<cmd, at, vpcs, net, loose, ran>> /\ CountersMove
      /\ cmd \in {"computes", "orchestrators"} /\ clean \in {-1, 0}
  BY <1>1, BoundsAssumption DEF NodeEffect, CountInv, CommandTypes
<1>3. Types'
  BY <1>1, <1>2, BoundsAssumption DEF NodeEffect, RegionTypes, CommandTypes, CountersMove
<1>4. RegionInv'
  <2> SUFFICES ASSUME NEW q \in Regions
               PROVE  (PointState(q) /\ NetState(q) /\ DestroyState(q))'
    BY DEF RegionInv
  <2>1. PointState(q)' /\ NetState(q)'
    BY <1>2 DEF RegionInv, PointState, NetState
  <2>2. DestroyState(q)'
    BY <1>2 DEF DestroyState, CountersMove
  <2> QED
    BY <2>1, <2>2
<1>5. CountInv'
  BY <1>2, BoundsAssumption DEF CountInv, CountersMove, CommandTypes
<1>6. NodeInv'
  <2> SUFFICES ASSUME NEW m \in Nodes  PROVE NodeState(m)'
    BY DEF NodeInv
  <2>1. CASE m = n
    BY <1>1, <2>1 DEF NodeEffect
  <2>2. CASE m # n
    <3>1. node'[m] = node[m] /\ read'[m] = read[m] /\ NodeState(m)
      BY <1>1, <2>2 DEF NodeEffect, NodeFrame, NodeInv
    <3>2. CASE ips' = ips
      BY <1>2, <3>1, <3>2 DEF NodeState
    <3>3. CASE n \in Orchestrators /\ ips' # {}
      <4>1. cmd = "orchestrators"
        BY <1>1, <3>3, NodesAssumption DEF NodeEffect
      <4> QED
        BY <1>2, <3>1, <3>3, <4>1 DEF NodeState
    <3> QED
      BY <1>1, <3>2, <3>3 DEF NodeEffect
  <2> QED
    BY <2>1, <2>2
<1> QED
  BY <1>3, <1>4, <1>5, <1>6

------------------------------------------------------------------------------
(* Steps of the command. *)

LEMMA StartInv ==
  ASSUME IInv, StartCreate \/ StartDestroy
  PROVE  IInv'
<1> USE DEF IInv, Types
<1>1. /\ cmd = "none" /\ ran < MaxCommands /\ ran' = ran + 1
      /\ UNCHANGED <<nodeVars, try, cloudVars>>
  BY DEF StartCreate, StartDestroy
<1>2. CASE StartCreate
  <2>1. /\ cmd' = "network" /\ clean' = 0 /\ faults' = faults
        /\ at' = [r \in Regions |-> "zone"]
    BY <1>2 DEF StartCreate
  <2>2. Types'
    BY <1>1, <2>1, BoundsAssumption
    DEF RegionTypes, NodeTypes, TryTypes, CommandTypes, nodeVars, cloudVars, Points,
       CreatePoints
  <2>3. RegionInv'
    BY <1>1, <2>1
    DEF RegionInv, PointState, NetState, DestroyState, cloudVars, CreatePoints, PartPoints
  <2>4. CountInv'
    BY <1>1, <2>1 DEF CountInv, CommandTypes
  <2>5. NodeInv'
    BY <1>1, <2>1 DEF NodeInv, NodeState, nodeVars
  <2> QED
    BY <2>2, <2>3, <2>4, <2>5
<1>3. CASE /\ cmd' = "destroy" /\ at' = [r \in Regions |-> "vpcs"]
           /\ UNCHANGED <<faults, clean>>
  <2>1. Types'
    BY <1>1, <1>3, BoundsAssumption
    DEF RegionTypes, NodeTypes, TryTypes, CommandTypes, nodeVars, cloudVars, Points,
       DestroyPoints
  <2>2. RegionInv'
    <3> SUFFICES ASSUME NEW r \in Regions
                 PROVE  (PointState(r) /\ NetState(r) /\ DestroyState(r))'
      BY DEF RegionInv
    <3>1. at'[r] = "vpcs" /\ NetState(r) /\ DestroyState(r)
      BY <1>3 DEF RegionInv
    <3>2. PointState(r)' /\ NetState(r)'
      BY <1>1, <1>3, <3>1 DEF PointState, NetState, cloudVars, DestroyPoints, PartPoints
    <3>3. DestroyState(r)'
      BY <1>1, <1>3, <3>1
      DEF DestroyState, cloudVars, BehindSubnets, BehindTables, BehindGateway, BehindGroups,
         BehindVPC
    <3> QED
      BY <3>2, <3>3
  <2>3. CountInv'
    BY <1>1, <1>3, BoundsAssumption DEF CountInv, CommandTypes
  <2>4. NodeInv'
    BY <1>1, <1>3 DEF NodeInv, NodeState, nodeVars
  <2> QED
    BY <2>1, <2>2, <2>3, <2>4
<1>4. CASE /\ faults < MaxFaults /\ faults' = faults + 1 /\ clean' = 0
           /\ UNCHANGED <<cmd, at>>
  <2>1. Types'
    BY <1>1, <1>4, BoundsAssumption
    DEF RegionTypes, NodeTypes, TryTypes, CommandTypes, nodeVars, cloudVars
  <2>2. RegionInv'
    BY <1>1, <1>4 DEF RegionInv, PointState, NetState, DestroyState, cloudVars
  <2>3. CountInv'
    BY <1>1, <1>4 DEF CountInv, CommandTypes
  <2>4. NodeInv'
    BY <1>1, <1>4 DEF NodeInv, NodeState, nodeVars
  <2> QED
    BY <2>1, <2>2, <2>3, <2>4
<1> QED
  BY <1>2, <1>3, <1>4 DEF StartDestroy

\* Between two parts of a command its regions wait.
LEMMA WaitingRegions ==
  ASSUME IInv, at' = [r \in Regions |-> "waiting"], UNCHANGED cloudVars,
         cmd' \in {"none", "orchestrators", "computes"}, clean' \in {-1, 0}
  PROVE  RegionTypes' /\ RegionInv'
<1>1. RegionTypes'
  BY DEF IInv, Types, RegionTypes, cloudVars, Points
<1>2. RegionInv'
  BY DEF IInv, RegionInv, PointState, NetState, DestroyState, cloudVars, PartPoints
<1> QED
  BY <1>1, <1>2

LEMMA EnsureInv ==
  ASSUME IInv, EnsureVPCAndSGsExist
  PROVE  IInv'
<1> USE DEF IInv, Types
<1>1. /\ cmd = "network" /\ UNCHANGED <<try, read, cloudVars, ran, faults, clean>>
      /\ at' = [r \in Regions |-> "waiting"] /\ cmd' \in {"orchestrators", "computes"}
  BY DEF EnsureVPCAndSGsExist
<1>2. clean \in {-1, 0}
  BY <1>1, BoundsAssumption DEF CountInv, CommandTypes
<1>3. RegionTypes' /\ RegionInv'
  BY <1>1, <1>2, WaitingRegions
<1>4. NodeTypes' /\ NodeInv'
  <2>1. ASSUME NEW wanted \in SUBSET Orchestrators,
               cmd' = "orchestrators", UNCHANGED ips,
               node' = [n \in Nodes |-> IF n \in wanted THEN "lookup" ELSE "waiting"]
        PROVE  NodeTypes' /\ NodeInv'
    BY <1>1, <2>1, NodesAssumption
    DEF NodeTypes, NodePoints, NodeInv, NodeState, Appending
  <2>2. CASE /\ cmd' = "computes" /\ ips' = {Given}
             /\ node' = [n \in Nodes |-> IF n \in Computes THEN "lookup" ELSE "waiting"]
    BY <1>1, <2>2, NodesAssumption
    DEF NodeTypes, NodePoints, NodeInv, NodeState, Appending, AddressSets
  <2> QED
    BY <2>1, <2>2 DEF EnsureVPCAndSGsExist
<1>5. TryTypes' /\ CommandTypes'
  BY <1>1 DEF TryTypes, CommandTypes
<1>6. CountInv'
  BY <1>1, <1>2 DEF CountInv
<1> QED
  BY <1>3, <1>4, <1>5, <1>6

LEMMA OrchestratorsCreatedInv ==
  ASSUME IInv, OrchestratorsCreated
  PROVE  IInv'
<1> USE DEF IInv, Types
<1>1. /\ cmd = "orchestrators" /\ cmd' = "computes"
      /\ UNCHANGED <<at, try, ips, read, cloudVars, ran, faults, clean>>
      /\ \A n \in Orchestrators : node[n] \in {"waiting", "done"}
      /\ node' = [n \in Nodes |-> IF n \in Computes THEN "lookup" ELSE node[n]]
  BY DEF OrchestratorsCreated
<1>2. RegionTypes' /\ RegionInv'
  BY <1>1
  DEF RegionTypes, cloudVars, RegionInv, PointState, NetState, DestroyState, CountInv
<1>3. NodeTypes' /\ NodeInv'
  <2>1. NodeTypes'
    BY <1>1 DEF NodeTypes, NodePoints
  <2>2. NodeInv'
    <3> SUFFICES ASSUME NEW n \in Nodes  PROVE NodeState(n)'
      BY DEF NodeInv
    <3>1. CASE n \in Computes
      BY <1>1, <3>1, NodesAssumption DEF NodeState, Appending
    <3>2. CASE n \notin Computes
      <4>1. n \in Orchestrators /\ node'[n] = node[n]
        BY <1>1, <3>2 DEF Nodes
      <4> QED
        BY <1>1, <3>2, <4>1 DEF NodeInv, NodeState
    <3> QED
      BY <3>1, <3>2
  <2> QED
    BY <2>1, <2>2
<1>4. TryTypes' /\ CommandTypes' /\ CountInv'
  BY <1>1 DEF TryTypes, CommandTypes, CountInv
<1> QED
  BY <1>2, <1>3, <1>4

LEMMA ComputesCreatedInv ==
  ASSUME IInv, ComputesCreated
  PROVE  IInv'
<1> USE DEF IInv, Types
<1>1. /\ cmd = "computes" /\ cmd' = "none" /\ clean' = 0
      /\ node' = [n \in Nodes |-> "waiting"] /\ ips' = {}
      /\ UNCHANGED <<at, try, read, cloudVars, ran, faults>>
  BY DEF ComputesCreated
<1>2. RegionTypes' /\ RegionInv'
  BY <1>1
  DEF RegionTypes, cloudVars, RegionInv, PointState, NetState, DestroyState
<1>3. NodeTypes' /\ NodeInv'
  BY <1>1 DEF NodeTypes, NodePoints, AddressSets, NodeInv, NodeState, Appending
<1>4. TryTypes' /\ CommandTypes' /\ CountInv'
  BY <1>1, BoundsAssumption DEF TryTypes, CommandTypes, CountInv
<1> QED
  BY <1>2, <1>3, <1>4

\* The third destroy in a row that nothing disturbed leaves no VPC: each rests on what the
\* one before has left.
LEMMA RegionsDestroyedInv ==
  ASSUME IInv, RegionsDestroyed
  PROVE  IInv'
<1> USE DEF IInv, Types
<1>1. /\ cmd = "destroy" /\ cmd' = "none" /\ clean' = clean + 1
      /\ \A r \in Regions : at[r] = "done"
      /\ at' = [r \in Regions |-> "waiting"]
      /\ UNCHANGED <<nodeVars, try, cloudVars, ran, faults>>
  BY DEF RegionsDestroyed
<1>2. clean \in -1..MaxCommands /\ clean < ran /\ ran \in 0..MaxCommands
  BY <1>1 DEF CountInv, CommandTypes
<1>3. Types'
  BY <1>1, <1>2, BoundsAssumption
  DEF RegionTypes, NodeTypes, TryTypes, CommandTypes, nodeVars, cloudVars, Points
<1>4. CountInv'
  BY <1>1, <1>2, BoundsAssumption DEF CountInv
<1>5. RegionInv'
  <2> SUFFICES ASSUME NEW r \in Regions
               PROVE  (PointState(r) /\ NetState(r) /\ DestroyState(r))'
    BY DEF RegionInv
  <2>1. at[r] = "done" /\ at'[r] = "waiting" /\ NetState(r) /\ DestroyState(r)
    BY <1>1 DEF RegionInv
  <2>2. PointState(r)' /\ NetState(r)'
    BY <1>1, <2>1 DEF PointState, NetState, cloudVars, PartPoints
  <2>3. clean >= 0 => insts[r] = {}
    BY <1>1, <2>1 DEF DestroyState
  <2>4. clean >= 1 => net[r] = {}
    <3>1. clean >= 1 => net[r] \cap {"subnet", "attach", "table", "route", "associate",
                                     "group", "ports"} = {}
      BY <1>1, <2>1
      DEF DestroyState, BehindSubnets, BehindTables, BehindGateway, BehindGroups, BehindVPC
    <3>2. net[r] \subseteq {"subnet", "attach", "table", "route", "associate", "group",
                            "ports"}
      BY DEF RegionTypes, Networks
    <3> QED
      BY <3>1, <3>2
  <2>5. clean >= 2 => vpcs[r] = 0
    BY <1>1, <2>1 DEF DestroyState, BehindVPC
  <2>6. DestroyState(r)'
    BY <1>1, <1>2, <2>1, <2>3, <2>4, <2>5, BoundsAssumption DEF DestroyState, cloudVars
  <2> QED
    BY <2>2, <2>6
<1>6. NodeInv'
  BY <1>1 DEF NodeInv, NodeState, nodeVars
<1> QED
  BY <1>3, <1>4, <1>5, <1>6

LEMMA ExitInv ==
  ASSUME IInv, Exit
  PROVE  IInv'
<1> USE DEF IInv, Types
<1>1. /\ cmd' = "none" /\ clean' = 0 /\ at' = [r \in Regions |-> "waiting"]
      /\ node' = [n \in Nodes |-> "waiting"] /\ try' = [g \in Goroutines |-> 1]
      /\ ips' = {} /\ read' = [n \in Nodes |-> {}]
      /\ UNCHANGED <<cloudVars, ran, faults>>
  BY DEF Exit
<1>2. RegionTypes' /\ RegionInv'
  BY <1>1, WaitingRegions
<1>3. NodeTypes' /\ NodeInv'
  BY <1>1 DEF NodeTypes, NodePoints, AddressSets, NodeInv, NodeState, Appending
<1>4. TryTypes' /\ CommandTypes' /\ CountInv'
  BY <1>1, BoundsAssumption DEF TryTypes, CommandTypes, CountInv
<1> QED
  BY <1>2, <1>3, <1>4

LEMMA InitInv == Init => IInv
<1> SUFFICES ASSUME Init  PROVE IInv
  OBVIOUS
<1> USE DEF Init
<1>1. Types
  BY BoundsAssumption
  DEF Types, RegionTypes, NodeTypes, TryTypes, CommandTypes, Points, NodePoints, Networks,
     Instances, AddressSets
<1>2. RegionInv
  BY DEF RegionInv, PointState, NetState, DestroyState, PartPoints
<1>3. CountInv /\ NodeInv
  BY DEF CountInv, NodeInv, NodeState, Appending
<1> QED
  BY <1>1, <1>2, <1>3 DEF IInv

LEMMA NextInv == IInv /\ [Next]_vars => IInv'
<1> SUFFICES ASSUME IInv, [Next]_vars  PROVE IInv'
  OBVIOUS
<1>1. CASE StartCreate \/ StartDestroy
  BY <1>1, StartInv
<1>2. CASE CommandStep
  BY <1>2, EnsureInv, OrchestratorsCreatedInv, ComputesCreatedInv, RegionsDestroyedInv
  DEF CommandStep
<1>3. CASE Exit
  BY <1>3, ExitInv
<1>4. ASSUME NEW r \in Regions, Region(r) \/ InstancesTerminated(r)
      PROVE  IInv'
  BY <1>4, RegionStep, RegionStepInv
<1>5. ASSUME NEW n \in Nodes, CreateInstanceInRegion(n)
      PROVE  IInv'
  BY <1>5, NodeStepInv
<1>6. CASE UNCHANGED vars
  BY <1>6
  DEF vars, IInv, Types, RegionTypes, NodeTypes, TryTypes, CommandTypes, RegionInv,
     PointState, NetState, DestroyState, CountInv, NodeInv, NodeState
<1> QED
  BY <1>1, <1>2, <1>3, <1>4, <1>5, <1>6 DEF Next

LEMMA Invariance == Spec => []IInv
BY InitInv, NextInv, PTL DEF Spec

------------------------------------------------------------------------------
(* The theorems. *)

\* Every variable keeps its type: no gateway is counted off that was not there, no goroutine
\* tries more often than retryPolicy allows.
THEOREM LegacyTyping == Spec => []TypeOK
<1>1. IInv => TypeOK
  BY TypesAre DEF IInv
<1> QED
  BY <1>1, Invariance, PTL

\* createVPCAndSG makes no second VPC, however many tries it has, whatever answers are lost
\* and however often the commands run.
THEOREM OneVPCAtMost == Spec => []AtMostOneVPC
<1>1. IInv => AtMostOneVPC
  BY DEF IInv, RegionInv, NetState, AtMostOneVPC
<1> QED
  BY <1>1, Invariance, PTL

\* The goroutines of compute nodes find the list of addresses as wg.Wait has left it: they
\* write the same addresses into all startup scripts, and none only if no orchestrator was
\* asked for.
THEOREM ComputesAreToldAlike == Spec => []ComputesToldAlike
<1>1. IInv => ComputesToldAlike
  <2> SUFFICES ASSUME IInv, NEW i \in Computes, NEW j \in Computes,
                      node[i] = "boot", node[j] = "boot"
               PROVE  /\ read[i] = read[j]
                      /\ read[i] = {} => \A n \in Orchestrators : node[n] = "waiting"
    BY DEF ComputesToldAlike
  <2>1. cmd = "computes" /\ read[i] = ips /\ read[j] = ips
    BY DEF IInv, NodeInv, NodeState, Nodes
  <2>2. ASSUME ips = {}, NEW n \in Orchestrators
        PROVE  node[n] = "waiting"
    <3>1. n \in Nodes /\ n \notin Computes
      BY NodesAssumption DEF Nodes
    <3> QED
      BY <2>1, <2>2, <3>1 DEF IInv, NodeInv, NodeState
  <2> QED
    BY <2>1, <2>2
<1> QED
  BY <1>1, Invariance, PTL

\* Three destroys that nothing disturbs leave neither VPC, part nor instance in any region,
\* from whatever state creates, failures and signals have left: deleteTaggedResources goes
\* against the order of dependencies, but each time one layer goes.
THEOREM ThreeDestroys == Spec => []ThreeDestroysSuffice
<1>1. IInv => ThreeDestroysSuffice
  BY BoundsAssumption
  DEF IInv, Types, CommandTypes, RegionInv, DestroyState, ThreeDestroysSuffice
<1> QED
  BY <1>1, Invariance, PTL
====
