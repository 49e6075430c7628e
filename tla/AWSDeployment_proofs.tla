------------------------ MODULE AWSDeployment_proofs ------------------------
(***************************************************************************)
(* Theorems about AWSDeployment: types, the listing of networks, the order *)
(* of the stages of a deployment, and that nothing is created behind its   *)
(* back.  Steps of a region, of a command, of a machine and the end of a   *)
(* process are treated in turn, and then what all of them do to the file.  *)
(***************************************************************************)
EXTENDS AWSDeployment, TLAPS

------------------------------------------------------------------------------
(* The points of a region's goroutine, and the calls it makes one after the other. *)

\* The calls that are a plain Call.
Called == {"sg", "rules", "subnets", "gateway", "attach", "table", "route", "associate"}
\* Points at which viper and the file are written.
Recording == {"record", "recordNew", "recordWrite", "dns", "dnsWrite", "save", "saveWrite"}
\* Points behind the creation of the VPC.
Registered == Called \cup Recording \cup {"ok", "connected"}
\* Points at which the region has no network of the command yet.
Beginning == {"waiting", "vpc", "list", "clean", "vpcAgain"}
\* Phases of a command behind the networks.
WithVMs == {"vms", "ssh", "provision", "done", "ok"}

LEMMA StepsAre ==
  /\ Len(Steps) = 12 /\ DOMAIN Steps = 1..12
  /\ Steps[2] = "sg" /\ Steps[3] = "rules" /\ Steps[4] = "record"
  /\ Steps[6] = "subnets" /\ Steps[7] = "gateway" /\ Steps[8] = "attach"
  /\ Steps[9] = "table" /\ Steps[10] = "route" /\ Steps[11] = "associate"
  /\ Steps[12] = "save"
  /\ \A i, j \in 1..12 : Steps[i] = Steps[j] => i = j
BY DEF Steps

LEMMA StepAfterIs ==
  ASSUME NEW i \in 1..12
  PROVE  StepAfter(Steps[i]) = IF i = 12 THEN "ok" ELSE Steps[i + 1]
<1>1. (CHOOSE j \in DOMAIN Steps : Steps[j] = Steps[i]) = i
  BY StepsAre
<1> QED
  BY <1>1, StepsAre DEF StepAfter

LEMMA Successors ==
  ASSUME NEW s \in Called
  PROVE  StepAfter(s) \in (Called \ {"sg", "subnets"}) \cup {"record", "save"}
<1>1. \E i \in {2, 3, 6, 7, 8, 9, 10, 11} : s = Steps[i]
  BY StepsAre DEF Called
<1>2. PICK i \in {2, 3, 6, 7, 8, 9, 10, 11} : s = Steps[i]
  BY <1>1
<1>3. StepAfter(s) = Steps[i + 1]
  BY <1>2, StepAfterIs
<1> QED
  BY <1>2, <1>3, StepsAre DEF Called

LEMMA PartsAre == Parts = {"vpc", "dns"} \cup Called
BY DEF Parts, Steps, Called

LEMMA StagesAre == Len(Stages) = 5 /\ DOMAIN Stages = 1..5
BY DEF Stages

------------------------------------------------------------------------------
(* The invariant. *)

\* What the goroutine of a region has left in the register and the cloud, by the call it is
\* at.
RegionState(d, r) ==
  /\ at[d][r] \in Registered => r \in known[d]
  /\ at[d][r] \in Beginning /\ phase[d] # "exited" => net[d][r] = {}
  /\ "vpc" \in net[d][r] /\ net[d][r] # {"vpc"} /\ phase[d] # "exited" => r \in known[d]

RegionInv == \A d \in Deployments, r \in Regions : RegionState(d, r)

\* Where the regions are, by the phase of the command; only its own have a goroutine.
PhaseInv ==
  /\ \A d \in Deployments, r \in Regions : at[d][r] # "waiting" =>
       r \in RegionsOf(d) /\ phase[d] \notin {"start", "refused", "exited"}
  /\ \A d \in Deployments : \A r \in RegionsOf(d) :
       /\ phase[d] = "connect" => at[d][r] \in {"ok", "connected", "failed"}
       /\ phase[d] \in WithVMs => at[d][r] = "connected"
       /\ phase[d] \in {"failed", "error"} =>
            at[d][r] \in {"waiting", "ok", "connected", "failed"}

\* Where the goroutine of a machine is, by the phase of its command.
VMState(m) ==
  LET p == phase[OwnerOf[m]] IN
  /\ vm[m] # "waiting" =>
       /\ p \in WithVMs \cup {"failed", "error"}
       /\ \A r \in RegionsOf(OwnerOf[m]) : at[OwnerOf[m]][r] = "connected"
  /\ vm[m] \in {"boot", "addressed", "unaddressed", "trying", "tried"} => m \in inst
  /\ vm[m] = "boot" => p = "vms"
  /\ p = "ssh" => vm[m] \in {"addressed", "unaddressed", "trying", "tried"}
  /\ p \in {"provision", "done", "ok"} => vm[m] = "tried"

VMInv == \A m \in Machines : VMState(m)

\* The file is whole and has the networks.
Lists(d) == Torn \notin file[d] /\ RegionsOf(d) \subseteq file[d]
\* The phases behind the networks.
Ready == WithVMs \cup {"connect"}
HasInstance(d) == \E m \in MachinesOf(d) : m \in inst
\* The goroutine that is saving is the last one.
LastSaves(d, r) ==
  at[d][r] = "saveWrite" /\ \A q \in RegionsOf(d) \ {r} : at[d][q] = "ok"

\* What is in the file, by the phase and the regions.  A write between another goroutine's
\* two halves may tear it; but the region that saves last meets nobody.
FileState(d) ==
  /\ \A q, r \in Regions : at[d][q] = "saveWrite" /\ at[d][r] = "saveWrite" => q = r
  /\ \A r \in Regions : LastSaves(d, r) => file[d] = {} /\ RegionsOf(d) \subseteq draft[d][r]
  /\ phase[d] = "start" => file[d] = {}
  /\ phase[d] = "network" /\ (\A q \in RegionsOf(d) : at[d][q] = "ok") => Lists(d)
  /\ phase[d] \in {"start", "refused", "network", "connect"} => ~HasInstance(d)
  /\ phase[d] \in Ready \/ HasInstance(d) =>
       Lists(d) /\ (phase[d] # "exited" => RegionsOf(d) \subseteq known[d])

FileInv == \A d \in Deployments : FileState(d)

IInv == TypeOK /\ RegionInv /\ PhaseInv /\ VMInv /\ FileInv

------------------------------------------------------------------------------
(* The steps of a region. *)

States == Called \cup Recording \cup {"vpc", "waiting", "list", "clean", "vpcAgain", "ok",
                                      "connected", "failed"}

PartSets == SUBSET Parts

NetTypes ==
  /\ at \in [Deployments -> [Regions -> States]]
  /\ known \in [Deployments -> SUBSET Regions]
  /\ net \in [Deployments -> [Regions -> PartSets]]

\* Away from d's goroutine for r, a step changes no other goroutine, takes nothing from a
\* register, and adds nothing to a network.
Elsewhere(d, r) ==
  /\ \A e \in Deployments, q \in Regions :
       e # d \/ q # r => at'[e][q] = at[e][q] /\ net'[e][q] \subseteq net[e][q]
  /\ \A e \in Deployments : known[e] \subseteq known'[e]

\* What a step of a region leaves to the rest of the command.
Moves(d, q) ==
  /\ at[d][q] \notin {"connected", "failed"} /\ at'[d][q] # "waiting"
  /\ at[d][q] = "waiting" => phase[d] = "network" /\ q \in RegionsOf(d)
  /\ at[d][q] = "ok" => phase[d] = "connect" /\ at'[d][q] \in {"connected", "failed"}

Frame(d) ==
  /\ UNCHANGED <<phase, vm, inst>>
  /\ \A e \in Deployments : known[e] \subseteq known'[e]
  /\ \A e \in Deployments, q \in Regions : at'[e][q] = at[e][q] \/ (e = d /\ Moves(d, q))

\* So it is enough to look at that goroutine.
LEMMA LocalStep ==
  ASSUME NetTypes, RegionInv, NEW d \in Deployments, NEW r \in Regions,
         Elsewhere(d, r), RegionState(d, r)', Moves(d, r), UNCHANGED <<phase, vm, inst>>
  PROVE  RegionInv' /\ Frame(d)
<1>1. ASSUME NEW e \in Deployments, NEW q \in Regions, e # d \/ q # r
      PROVE  RegionState(e, q)'
  <2>1. /\ at'[e][q] = at[e][q] /\ net'[e][q] \subseteq net[e][q]
        /\ known[e] \subseteq known'[e]
    BY <1>1 DEF Elsewhere
  <2>2. "vpc" \in net'[e][q] /\ net'[e][q] # {"vpc"} => "vpc" \in net[e][q] /\ net[e][q] # {"vpc"}
    BY <2>1
  <2> QED
    BY <2>1, <2>2 DEF RegionInv, RegionState
<1> QED
  BY <1>1 DEF RegionInv, Frame, Elsewhere

\* The calls that make a network.
LEMMA CallStep ==
  ASSUME NetTypes, RegionInv, NEW d \in Deployments, NEW r \in Regions, NEW s \in Called,
         Call(d, r, s)
  PROVE  NetTypes' /\ RegionInv' /\ Frame(d)
<1>1. /\ at[d][r] = s
      /\ UNCHANGED <<phase, known, vm, inst>>
      /\ \/ at' = [at EXCEPT ![d][r] = StepAfter(s)]
         \/ at' = [at EXCEPT ![d][r] = "failed"]
      /\ \/ net' = net
         \/ net' = [net EXCEPT ![d][r] = net[d][r] \cup {s}]
  BY DEF Call, Goto, commandVars
<1>2. StepAfter(s) \in States \ {"waiting"} /\ s \in Parts
  BY Successors, PartsAre DEF Recording, States, Called
<1>3. NetTypes'
  <2>1. "failed" \in States
    BY DEF States
  <2>2. at' \in [Deployments -> [Regions -> States]]
    <3>1. CASE at' = [at EXCEPT ![d][r] = StepAfter(s)]
      BY <3>1, <1>2 DEF NetTypes
    <3>2. CASE at' = [at EXCEPT ![d][r] = "failed"]
      BY <3>2, <2>1 DEF NetTypes
    <3> QED  BY <1>1, <3>1, <3>2
  <2>3. net[d][r] \in PartSets
    BY DEF NetTypes
  <2>4. net[d][r] \cup {s} \in PartSets
    BY <2>3, <1>2 DEF PartSets
  <2>5. net' \in [Deployments -> [Regions -> PartSets]]
    <3>1. CASE net' = net
      BY <3>1 DEF NetTypes
    <3>2. CASE net' = [net EXCEPT ![d][r] = net[d][r] \cup {s}]
      BY <3>2, <2>4 DEF NetTypes
    <3> QED  BY <1>1, <3>1, <3>2
  <2> QED
    BY <1>1, <2>2, <2>5 DEF NetTypes
<1>4. at'[d][r] \in {StepAfter(s), "failed"} /\ net'[d][r] \in {net[d][r], net[d][r] \cup {s}}
  BY <1>1 DEF NetTypes
<1>5. s \in Registered /\ s \notin {"connected", "failed", "waiting", "ok"}
  BY DEF Called, Registered
<1>6. r \in known[d]
  BY <1>1, <1>5 DEF RegionInv, RegionState
<1>7. at'[d][r] \notin Beginning
  BY <1>4, Successors DEF Called, Beginning
<1>8. RegionState(d, r)'
  BY <1>1, <1>6, <1>7 DEF RegionState
<1>9. Elsewhere(d, r) /\ Moves(d, r)
  BY <1>1, <1>5, <1>7 DEF Elsewhere, Moves, NetTypes, Beginning
<1> QED
  BY <1>1, <1>3, <1>8, <1>9, LocalStep

\* A goroutine that moves on and changes nothing in the cloud, the register and the file.
LEMMA PlainMove ==
  ASSUME NetTypes, RegionInv, NEW d \in Deployments, NEW r \in Regions,
         NEW s \in States \ {"waiting"}, Goto(d, r, s),
         UNCHANGED <<phase, known, vm, net, inst>>,
         at[d][r] \notin {"connected", "failed"},
         at[d][r] = "waiting" => phase[d] = "network" /\ r \in RegionsOf(d),
         at[d][r] = "ok" => phase[d] = "connect" /\ s \in {"connected", "failed"},
         s \in Beginning => at[d][r] \in Beginning,
         s \in Registered => at[d][r] \in Registered
  PROVE  NetTypes' /\ RegionInv' /\ Frame(d)
<1>1. at' = [at EXCEPT ![d][r] = s]
  BY DEF Goto
<1>2. NetTypes'
  BY <1>1 DEF NetTypes
<1>3. at'[d][r] = s
  BY <1>1 DEF NetTypes
<1>4. RegionState(d, r)'
  BY <1>3 DEF RegionInv, RegionState
<1>5. Elsewhere(d, r) /\ Moves(d, r)
  BY <1>1, <1>3 DEF Elsewhere, Moves, NetTypes
<1> QED
  BY <1>2, <1>4, <1>5, LocalStep

\* Taking parts from networks, whoever's they are.
LEMMA NetworksShrink ==
  ASSUME NetTypes, RegionInv, NEW d \in Deployments,
         UNCHANGED <<phase, at, known, vm, inst>>,
         net' \in [Deployments -> [Regions -> PartSets]],
         \A e \in Deployments, q \in Regions : net'[e][q] \subseteq net[e][q]
  PROVE  NetTypes' /\ RegionInv' /\ Frame(d)
<1>1. ASSUME NEW e \in Deployments, NEW q \in Regions
      PROVE  RegionState(e, q)'
  <2>1. "vpc" \in net'[e][q] /\ net'[e][q] # {"vpc"} => "vpc" \in net[e][q] /\ net[e][q] # {"vpc"}
    OBVIOUS
  <2> QED
    BY <2>1 DEF RegionInv, RegionState
<1> QED
  BY <1>1 DEF RegionInv, Frame, NetTypes

LEMMA SetupStep ==
  ASSUME NetTypes, RegionInv, NEW d \in Deployments, NEW r \in Regions,
         SetupRegionalInfrastructure(d, r)
  PROVE  NetTypes' /\ RegionInv' /\ Frame(d)
<1>1. /\ phase[d] = "network" /\ at[d][r] = "waiting" /\ r \in RegionsOf(d)
      /\ Goto(d, r, "vpc") \/ Goto(d, r, "failed")
      /\ UNCHANGED <<phase, known, vm, net, inst>>
  BY DEF SetupRegionalInfrastructure, commandVars, cloudVars
<1> QED
  BY <1>1, PlainMove DEF States, Beginning, Registered, Called, Recording

LEMMA LimitStep ==
  ASSUME NetTypes, RegionInv, NEW d \in Deployments, NEW r \in Regions,
         VpcLimitExceeded(d, r)
  PROVE  NetTypes' /\ RegionInv' /\ Frame(d)
<1>1. /\ at[d][r] \in {"vpc", "vpcAgain"}
      /\ Goto(d, r, "list") \/ Goto(d, r, "failed")
      /\ UNCHANGED <<phase, known, vm, net, inst>>
  BY DEF VpcLimitExceeded, commandVars, cloudVars
<1> QED
  BY <1>1, PlainMove DEF States, Beginning, Registered, Called, Recording

LEMMA ListStep ==
  ASSUME NetTypes, RegionInv, NEW d \in Deployments, NEW r \in Regions, ListVPCs(d, r)
  PROVE  NetTypes' /\ RegionInv' /\ Frame(d)
<1>1. /\ at[d][r] = "list"
      /\ Goto(d, r, "clean") \/ Goto(d, r, "failed")
      /\ UNCHANGED <<phase, known, vm, net, inst>>
  BY DEF ListVPCs, commandVars, cloudVars
<1> QED
  BY <1>1, PlainMove DEF States, Beginning, Registered, Called, Recording

LEMMA NextStep ==
  ASSUME NetTypes, RegionInv, NEW d \in Deployments, NEW r \in Regions, NextVPC(d, r)
  PROVE  NetTypes' /\ RegionInv' /\ Frame(d)
<1>1. /\ at[d][r] = "clean"
      /\ Goto(d, r, "vpcAgain") \/ UNCHANGED at
      /\ UNCHANGED <<phase, known, vm, net, inst>>
  BY DEF NextVPC, commandVars, cloudVars
<1>2. CASE Goto(d, r, "vpcAgain")
  BY <1>1, <1>2, PlainMove DEF States, Beginning, Registered, Called, Recording
<1>3. CASE UNCHANGED at
  BY <1>1, <1>3, NetworksShrink DEF NetTypes
<1> QED
  BY <1>1, <1>2, <1>3

LEMMA ConnectivityStep ==
  ASSUME NetTypes, RegionInv, NEW d \in Deployments, NEW r \in Regions,
         CheckConnectivity(d, r)
  PROVE  NetTypes' /\ RegionInv' /\ Frame(d)
<1>1. /\ phase[d] = "connect" /\ at[d][r] = "ok"
      /\ Goto(d, r, "connected") \/ Goto(d, r, "failed")
      /\ UNCHANGED <<phase, known, vm, net, inst>>
  BY DEF CheckConnectivity, commandVars, cloudVars
<1> QED
  BY <1>1, PlainMove DEF States, Beginning, Registered, Called, Recording

\* A clean-up takes parts of any command's network.
LEMMA CleanUpStep ==
  ASSUME NetTypes, RegionInv, NEW d \in Deployments, NEW r \in Regions, CleanUp(d, r)
  PROVE  NetTypes' /\ RegionInv' /\ Frame(d)
<1>1. /\ UNCHANGED <<phase, at, known, vm, inst>>
      /\ \E e, X : net' = [net EXCEPT ![e][r] = net[e][r] \ X]
  BY DEF CleanUp, commandVars
<1>2. PICK e, X : net' = [net EXCEPT ![e][r] = net[e][r] \ X]
  BY <1>1
<1>3. ASSUME e \in Deployments
      PROVE  /\ net' \in [Deployments -> [Regions -> PartSets]]
             /\ \A f \in Deployments, q \in Regions : net'[f][q] \subseteq net[f][q]
  <2>1. net[e][r] \in PartSets
    BY <1>3 DEF NetTypes
  <2>2. net[e][r] \ X \in PartSets
    BY <2>1 DEF PartSets
  <2> QED
    BY <1>2, <1>3, <2>2 DEF NetTypes
<1>4. ASSUME e \notin Deployments
      PROVE  net' = net
  BY <1>2, <1>4 DEF NetTypes
<1>5. CASE e \in Deployments
  BY <1>1, <1>3, <1>5, NetworksShrink
<1>6. CASE e \notin Deployments
  BY <1>1, <1>4, <1>6, NetworksShrink DEF NetTypes
<1> QED
  BY <1>5, <1>6

\* A VPC is registered with its creation, but for a lost answer.
LEMMA CreateVpcStep ==
  ASSUME NetTypes, RegionInv, NEW d \in Deployments, NEW r \in Regions, CreateVpc(d, r)
  PROVE  NetTypes' /\ RegionInv' /\ Frame(d)
<1>1. /\ at[d][r] \in {"vpc", "vpcAgain"}
      /\ UNCHANGED <<phase, vm, inst>>
      /\ net' = net \/ net' = [net EXCEPT ![d][r] = net[d][r] \cup {"vpc"}]
      /\ \/ at' = [at EXCEPT ![d][r] = "sg"] /\ known' = [known EXCEPT ![d] = known[d] \cup {r}]
         \/ at' = [at EXCEPT ![d][r] = "failed"] /\ known' = known
  BY DEF CreateVpc, Goto
<1>2. phase[d] # "exited" => net[d][r] = {}
  BY <1>1 DEF RegionInv, RegionState, Beginning
<1>3. /\ net' \in [Deployments -> [Regions -> PartSets]]
      /\ net'[d][r] \in {net[d][r], net[d][r] \cup {"vpc"}}
  <2>1. net[d][r] \in PartSets
    BY DEF NetTypes
  <2>2. net[d][r] \cup {"vpc"} \in PartSets
    BY <2>1, PartsAre DEF PartSets
  <2>3. CASE net' = net
    BY <2>3 DEF NetTypes
  <2>4. CASE net' = [net EXCEPT ![d][r] = net[d][r] \cup {"vpc"}]
    BY <2>2, <2>4 DEF NetTypes
  <2> QED  BY <1>1, <2>3, <2>4
<1>4. \A e \in Deployments, q \in Regions : e # d \/ q # r => net'[e][q] = net[e][q]
  BY <1>1 DEF NetTypes
<1>5. CASE at' = [at EXCEPT ![d][r] = "sg"] /\ known' = [known EXCEPT ![d] = known[d] \cup {r}]
  <2>1. "sg" \in States /\ "sg" \notin Beginning
    BY DEF States, Called, Beginning
  <2>2. NetTypes'
    BY <1>1, <1>3, <1>5, <2>1 DEF NetTypes
  <2>3. at'[d][r] = "sg" /\ r \in known'[d]
    BY <1>5 DEF NetTypes
  <2>4. RegionState(d, r)'
    BY <2>1, <2>3 DEF RegionState
  <2>5. Elsewhere(d, r) /\ Moves(d, r)
    BY <1>1, <1>4, <1>5, <2>3 DEF Elsewhere, Moves, NetTypes
  <2> QED
    BY <1>1, <2>2, <2>4, <2>5, LocalStep
<1>6. CASE at' = [at EXCEPT ![d][r] = "failed"] /\ known' = known
  <2>1. "failed" \in States /\ "failed" \notin Registered \cup Beginning
    BY DEF States, Called, Registered, Recording, Beginning
  <2>2. NetTypes'
    BY <1>1, <1>3, <1>6, <2>1 DEF NetTypes
  <2>3. at'[d][r] = "failed"
    BY <1>6 DEF NetTypes
  <2>4. phase[d] # "exited" => net'[d][r] \in {{}, {"vpc"}}
    BY <1>2, <1>3
  <2>5. RegionState(d, r)'
    BY <1>1, <2>1, <2>3, <2>4 DEF RegionState
  <2>6. Elsewhere(d, r) /\ Moves(d, r)
    BY <1>1, <1>4, <1>6, <2>3 DEF Elsewhere, Moves, NetTypes
  <2> QED
    BY <1>1, <2>2, <2>5, <2>6, LocalStep
<1> QED
  BY <1>1, <1>5, <1>6

\* The DNS attribute.
LEMMA EnableDnsStep ==
  ASSUME NetTypes, RegionInv, NEW d \in Deployments, NEW r \in Regions, EnableDns(d, r)
  PROVE  NetTypes' /\ RegionInv' /\ Frame(d)
<1>1. /\ at[d][r] = "dns"
      /\ UNCHANGED <<phase, known, vm, inst>>
      /\ \/ Goto(d, r, "failed") /\ UNCHANGED net
         \/ /\ Goto(d, r, "dnsWrite")
            /\ net' = [net EXCEPT ![d][r] = net[d][r] \cup {"dns"}]
  BY DEF EnableDns, BeginWrite
<1>2. r \in known[d]
  BY <1>1 DEF RegionInv, RegionState, Registered, Recording
<1>3. CASE Goto(d, r, "failed") /\ UNCHANGED net
  BY <1>1, <1>3, PlainMove DEF States, Beginning, Registered, Called, Recording
<1>4. CASE /\ Goto(d, r, "dnsWrite")
           /\ net' = [net EXCEPT ![d][r] = net[d][r] \cup {"dns"}]
  <2>1. "dnsWrite" \in States /\ "dnsWrite" \notin Beginning
    BY DEF States, Recording, Beginning
  <2>2. at' = [at EXCEPT ![d][r] = "dnsWrite"]
    BY <1>4 DEF Goto
  <2>3. net[d][r] \in PartSets
    BY DEF NetTypes
  <2>4. net[d][r] \cup {"dns"} \in PartSets
    BY <2>3, PartsAre DEF PartSets
  <2>5. net' \in [Deployments -> [Regions -> PartSets]]
    BY <1>4, <2>4 DEF NetTypes
  <2>6. at' \in [Deployments -> [Regions -> States]]
    BY <2>1, <2>2 DEF NetTypes
  <2>7. at'[d][r] = "dnsWrite"
    BY <2>2 DEF NetTypes
  <2>8. RegionState(d, r)'
    BY <1>1, <1>2, <2>1, <2>7 DEF RegionState
  <2>9. Elsewhere(d, r) /\ Moves(d, r)
    BY <1>1, <1>4, <2>2, <2>7 DEF Elsewhere, Moves, NetTypes
  <2> QED
    BY <1>1, <2>5, <2>6, <2>8, <2>9, LocalStep DEF NetTypes
<1> QED
  BY <1>1, <1>3, <1>4

\* The steps that are about viper and the file.
LEMMA WriteStep ==
  ASSUME NetTypes, RegionInv, NEW d \in Deployments, NEW r \in Regions, WriteFile(d, r)
  PROVE  NetTypes' /\ RegionInv' /\ Frame(d)
<1>1. /\ at[d][r] \in Recording /\ UNCHANGED <<phase, known, vm, net, inst>>
      /\ \E t \in {"recordNew", "recordWrite", "saveWrite", "dns", "subnets", "ok", "failed"} :
           Goto(d, r, t)
  BY DEF WriteFile, RecordVPC, RecordVPCInNewMap, SaveInfrastructure, WriteConfig, BeginWrite,
     AfterWrite, Recording, cloudVars
<1> QED
  BY <1>1, PlainMove DEF States, Beginning, Registered, Called, Recording

\* Every step of a region.
LEMMA RegionStep ==
  ASSUME NetTypes, RegionInv, NEW d \in Deployments, NEW r \in Regions, Region(d, r)
  PROVE  NetTypes' /\ RegionInv' /\ Frame(d)
<1>1. CASE CreateNetwork(d, r)
  <2>1. \E s \in Called : Call(d, r, s)
    BY <1>1 DEF CreateNetwork, Called, CreateSecurityGroup, AuthorizeIngress,
       CreateRegionalSubnets, CreateInternetGateway, AttachInternetGateway,
       CreateRouteTable, CreateInternetGatewayRoute, AssociatePublicSubnets
  <2> QED  BY <2>1, CallStep
<1> QED
  BY <1>1, SetupStep, CreateVpcStep, LimitStep, WriteStep, EnableDnsStep, ListStep,
     NextStep, CleanUpStep, ConnectivityStep DEF Region

\* The types of what a clean-up keeps, and of the counter.
Bookkeeping ==
  /\ todo \in [Deployments -> [Regions -> SUBSET Deployments]]
  /\ victim \in [Deployments -> [Regions ->
       [vpc : Deployments \cup {None}, stage : DOMAIN Stages]]]
  /\ faults \in 0..MaxFaults

\* Every step leaves the counter of faults within its bound.
LEMMA FaultStep ==
  ASSUME faults \in 0..MaxFaults, NoFault \/ Fault
  PROVE  faults' \in 0..MaxFaults
BY BoundsAssumption DEF NoFault, Fault

LEMMA BookkeepingStep ==
  ASSUME NetTypes, Bookkeeping, NEW d \in Deployments, NEW r \in Regions, Region(d, r)
  PROVE  Bookkeeping'
<1>1. CASE ListVPCs(d, r)
  <2>1. VPCsIn(r) \in SUBSET Deployments
    BY DEF VPCsIn
  <2>2. ASSUME todo' = [todo EXCEPT ![d][r] = VPCsIn(r)]
        PROVE  todo' \in [Deployments -> [Regions -> SUBSET Deployments]]
    BY <2>1, <2>2 DEF Bookkeeping
  <2>3. todo' \in [Deployments -> [Regions -> SUBSET Deployments]]
    BY <1>1, <2>2 DEF Bookkeeping, ListVPCs
  <2> QED
    BY <1>1, <2>3, FaultStep DEF ListVPCs, Bookkeeping
<1>2. CASE NextVPC(d, r)
  <2>1. UNCHANGED faults
    BY <1>2 DEF NextVPC
  <2>2. CASE UNCHANGED cleanUpVars
    BY <2>1, <2>2 DEF cleanUpVars, Bookkeeping
  <2>3. CASE \E e \in todo[d][r] :
               /\ todo' = [todo EXCEPT ![d][r] = @ \ {e}]
               /\ victim' = [victim EXCEPT ![d][r] = [vpc |-> e, stage |-> 1]]
    <3>1. PICK e \in todo[d][r] :
               /\ todo' = [todo EXCEPT ![d][r] = todo[d][r] \ {e}]
               /\ victim' = [victim EXCEPT ![d][r] = [vpc |-> e, stage |-> 1]]
      BY <2>3
    <3>2. todo[d][r] \in SUBSET Deployments
      BY DEF Bookkeeping
    <3>3. todo[d][r] \ {e} \in SUBSET Deployments
      BY <3>2
    <3>4. todo' \in [Deployments -> [Regions -> SUBSET Deployments]]
      BY <3>1, <3>3 DEF Bookkeeping
    <3>5. [vpc |-> e, stage |-> 1] \in [vpc : Deployments \cup {None}, stage : DOMAIN Stages]
      BY <3>2, StagesAre
    <3>6. victim' \in [Deployments -> [Regions ->
            [vpc : Deployments \cup {None}, stage : DOMAIN Stages]]]
      BY <3>1, <3>5 DEF Bookkeeping
    <3> QED
      BY <2>1, <3>4, <3>6 DEF Bookkeeping
  <2> QED
    BY <1>2, <2>2, <2>3 DEF NextVPC
<1>3. CASE CleanUp(d, r)
  <2> DEFINE V == [vpc : Deployments \cup {None}, stage : DOMAIN Stages]
  <2>1. victim[d][r] \in V /\ Idle \in V
    BY StagesAre DEF Bookkeeping, Idle
  <2>2. NextStage(victim[d][r].vpc, victim[d][r].stage) \in V
    BY <2>1, StagesAre DEF NextStage
  <2>3. \/ victim' = [victim EXCEPT ![d][r] = NextStage(victim[d][r].vpc, victim[d][r].stage)]
        \/ victim' = [victim EXCEPT ![d][r] = Idle]
    BY <1>3 DEF CleanUp
  <2>4. victim' \in [Deployments -> [Regions -> V]]
    <3> HIDE DEF V
    <3>1. victim \in [Deployments -> [Regions -> V]]
      BY DEF Bookkeeping, V
    <3>2. CASE victim' = [victim EXCEPT ![d][r] = NextStage(victim[d][r].vpc, victim[d][r].stage)]
      BY <2>2, <3>1, <3>2
    <3>3. CASE victim' = [victim EXCEPT ![d][r] = Idle]
      BY <2>1, <3>1, <3>3
    <3> QED  BY <2>3, <3>2, <3>3
  <2>5. UNCHANGED todo /\ (NoFault \/ Fault)
    BY <1>3 DEF CleanUp
  <2> QED
    BY <2>4, <2>5, FaultStep DEF Bookkeeping
<1>4. CASE WriteFile(d, r)
  <2>1. UNCHANGED cleanUpVars /\ (NoFault \/ Fault)
    BY <1>4 DEF WriteFile, RecordVPC, RecordVPCInNewMap, SaveInfrastructure, WriteConfig,
                NoFault
  <2> QED
    BY <2>1, FaultStep DEF Bookkeeping, cleanUpVars
<1>5. CASE CreateNetwork(d, r)
  <2>1. \E s \in Called : Call(d, r, s)
    BY <1>5 DEF CreateNetwork, Called, CreateSecurityGroup, AuthorizeIngress,
       CreateRegionalSubnets, CreateInternetGateway, AttachInternetGateway,
       CreateRouteTable, CreateInternetGatewayRoute, AssociatePublicSubnets
  <2>2. UNCHANGED cleanUpVars /\ (NoFault \/ Fault)
    BY <2>1 DEF Call
  <2> QED
    BY <2>2, FaultStep DEF Bookkeeping, cleanUpVars
<1>6. CASE SetupRegionalInfrastructure(d, r) \/ CreateVpc(d, r) \/ VpcLimitExceeded(d, r)
             \/ EnableDns(d, r) \/ CheckConnectivity(d, r)
  <2>1. UNCHANGED cleanUpVars /\ (NoFault \/ Fault)
    BY <1>6 DEF SetupRegionalInfrastructure, CreateVpc, VpcLimitExceeded, EnableDns,
                CheckConnectivity
  <2> QED
    BY <2>1, FaultStep DEF Bookkeeping, cleanUpVars
<1> QED
  BY <1>1, <1>2, <1>3, <1>4, <1>5, <1>6 DEF Region

------------------------------------------------------------------------------
(* The steps of a command. *)

Phases == {"start", "network", "connect", "vms", "ssh", "provision", "done", "refused",
           "failed", "ok", "error", "exited"}

VMStates == {"waiting", "boot", "addressed", "unaddressed", "trying", "tried", "failed"}

CommandTypes ==
  /\ phase \in [Deployments -> Phases]
  /\ vm \in [Machines -> VMStates]
  /\ inst \in SUBSET Machines

Files == {{Torn}} \cup SUBSET Regions

FileTypes ==
  /\ viper \in [Deployments -> [record : SUBSET Regions, extra : SUBSET Regions]]
  /\ draft \in [Deployments -> [Regions -> SUBSET Regions]]
  /\ file \in [Deployments -> Files]

LEMMA TypesAre ==
  /\ TypeOK <=> NetTypes /\ Bookkeeping /\ CommandTypes /\ FileTypes
  /\ TypeOK' <=> NetTypes' /\ Bookkeeping' /\ CommandTypes' /\ FileTypes'
<1>1. States = Parts \cup DOMAIN AfterWrite
                 \cup {"waiting", "record", "recordNew", "save", "list", "clean", "vpcAgain",
                       "ok", "connected", "failed"}
  BY PartsAre DEF States, Recording, AfterWrite
<1> QED
  BY <1>1 DEF TypeOK, NetTypes, Bookkeeping, CommandTypes, FileTypes, Files, PartSets, Phases,
     VMStates

LEMMA RegionsOfAre ==
  /\ \A m \in Machines : OwnerOf[m] \in Deployments /\ RegionOf[m] \in RegionsOf(OwnerOf[m])
  /\ \A d \in Deployments : RegionsOf(d) \subseteq Regions
BY MachinesAssumption DEF RegionsOf, MachinesOf

\* What a region does leaves the phases true.
LEMMA FrameKeeps ==
  ASSUME CommandTypes, PhaseInv, VMInv, NEW d \in Deployments, Frame(d)
  PROVE  CommandTypes' /\ PhaseInv' /\ VMInv'
<1>1. CommandTypes'
  BY DEF Frame, CommandTypes
<1>2. ASSUME NEW e \in Deployments, NEW q \in RegionsOf(e)
      PROVE  /\ phase[e] = "connect" => at'[e][q] \in {"ok", "connected", "failed"}
             /\ phase[e] \in WithVMs => at'[e][q] = "connected"
             /\ phase[e] \in {"failed", "error"} =>
                  at'[e][q] \in {"waiting", "ok", "connected", "failed"}
             /\ at[e][q] = "connected" => at'[e][q] = "connected"
  <2>1. at'[e][q] = at[e][q] \/ (e = d /\ Moves(d, q))
    BY RegionsOfAre DEF Frame
  <2>2. CASE at'[e][q] = at[e][q]
    BY <2>2 DEF PhaseInv
  <2>3. CASE e = d /\ Moves(d, q)
    BY <2>3 DEF PhaseInv, Moves, WithVMs
  <2> QED  BY <2>1, <2>2, <2>3
<1>3. PhaseInv'
  <2>1. ASSUME NEW e \in Deployments, NEW q \in Regions, at'[e][q] # "waiting"
        PROVE  q \in RegionsOf(e) /\ phase[e] \notin {"start", "refused", "exited"}
    BY <2>1 DEF PhaseInv, Frame, Moves
  <2> QED
    BY <1>2, <2>1 DEF PhaseInv, Frame
<1>4. VMInv'
  BY <1>2, RegionsOfAre DEF VMInv, VMState, Frame
<1> QED
  BY <1>1, <1>3, <1>4

Enters(d, p) == phase' = [phase EXCEPT ![d] = p]

\* A change of phase within the command leaves its regions alone.
LEMMA EnterLeavesRegions ==
  ASSUME NetTypes, CommandTypes, RegionInv, NEW d \in Deployments, UNCHANGED <<at, known, net>>,
         NEW p \in Phases \ {"exited"}, phase[d] # "exited", Enters(d, p)
  PROVE  NetTypes' /\ RegionInv'
<1>1. \A e \in Deployments : phase'[e] = "exited" <=> phase[e] = "exited"
  BY DEF Enters, CommandTypes
<1>2. ASSUME NEW e \in Deployments, NEW q \in Regions
      PROVE  RegionState(e, q)'
  BY <1>1 DEF RegionInv, RegionState
<1> QED
  BY <1>2 DEF NetTypes, RegionInv

\* What a command's regions and machines must have come to when it enters phase p.
Reached(d, p) ==
  /\ p = "refused" => \A q \in Regions : at[d][q] = "waiting"
  /\ \A q \in RegionsOf(d) :
       /\ p = "connect" => at[d][q] \in {"ok", "connected", "failed"}
       /\ p \in WithVMs => at[d][q] = "connected"
       /\ p \in {"failed", "error"} => at[d][q] \in {"waiting", "ok", "connected", "failed"}
  /\ \A m \in MachinesOf(d) :
       /\ vm[m] # "waiting" => p \in WithVMs \cup {"failed", "error"}
       /\ vm[m] = "boot" => p = "vms"
       /\ p = "ssh" => vm[m] \in {"addressed", "unaddressed", "trying", "tried"}
       /\ p \in {"provision", "done", "ok"} => vm[m] = "tried"

\* Entering a phase with what it takes keeps the phases true.
LEMMA EnterKeeps ==
  ASSUME CommandTypes, PhaseInv, VMInv, NEW d \in Deployments, UNCHANGED <<at, vm, inst>>,
         NEW p \in Phases \ {"exited", "start"}, Enters(d, p), Reached(d, p)
  PROVE  CommandTypes' /\ PhaseInv' /\ VMInv'
<1>1. phase' \in [Deployments -> Phases] /\ phase'[d] = p
      /\ \A e \in Deployments \ {d} : phase'[e] = phase[e]
  BY DEF Enters, CommandTypes
<1>2. ASSUME NEW m \in Machines
      PROVE  VMState(m)'
  <2>1. CASE OwnerOf[m] = d
    <3>1. m \in MachinesOf(d)
      BY <2>1 DEF MachinesOf
    <3> QED
      BY <1>1, <2>1, <3>1 DEF Reached, VMInv, VMState
  <2>2. CASE OwnerOf[m] # d
    BY <1>1, <2>2, RegionsOfAre DEF VMInv, VMState
  <2> QED  BY <2>1, <2>2
<1>3. PhaseInv'
  <2>1. ASSUME NEW q \in RegionsOf(d)
        PROVE  /\ phase'[d] = "connect" => at'[d][q] \in {"ok", "connected", "failed"}
               /\ phase'[d] \in WithVMs => at'[d][q] = "connected"
               /\ phase'[d] \in {"failed", "error"} =>
                    at'[d][q] \in {"waiting", "ok", "connected", "failed"}
    BY <1>1 DEF Reached
  <2>2. ASSUME NEW e \in Deployments, NEW q \in Regions, at'[e][q] # "waiting"
        PROVE  q \in RegionsOf(e) /\ phase'[e] \notin {"start", "refused", "exited"}
    BY <1>1, <2>2 DEF Reached, PhaseInv
  <2> QED
    BY <1>1, <2>1, <2>2 DEF PhaseInv
<1> QED
  BY <1>1, <1>2, <1>3 DEF CommandTypes, VMInv

\* The last two lemmas together.
LEMMA EnterStep ==
  ASSUME NetTypes, Bookkeeping, CommandTypes, RegionInv, PhaseInv, VMInv,
         NEW d \in Deployments, NEW p \in Phases \ {"exited", "start"},
         Enters(d, p), Reached(d, p), phase[d] # "exited",
         UNCHANGED <<at, known, net, vm, inst, todo, victim>>, NoFault \/ Fault
  PROVE  /\ NetTypes' /\ Bookkeeping' /\ CommandTypes'
         /\ RegionInv' /\ PhaseInv' /\ VMInv'
<1>1. Bookkeeping'
  BY FaultStep DEF Bookkeeping
<1> QED
  BY <1>1, EnterLeavesRegions, EnterKeeps

\* The completion of a command.
LEMMA CompleteStep ==
  ASSUME NetTypes, Bookkeeping, CommandTypes, RegionInv, PhaseInv, VMInv,
         NEW d \in Deployments, phase[d] \in {"done", "refused", "failed"}, Complete(d)
  PROVE  /\ NetTypes' /\ Bookkeeping' /\ CommandTypes'
         /\ RegionInv' /\ PhaseInv' /\ VMInv'
<1>1. /\ UNCHANGED <<at, known, net, vm, inst, todo, victim>> /\ NoFault
      /\ Enters(d, IF phase[d] = "done" THEN "ok" ELSE "error")
  BY DEF Complete, cloudVars, cleanUpVars, Enters, NoFault, CommandTypes
<1>2. \A m \in MachinesOf(d) : m \in Machines /\ OwnerOf[m] = d /\ VMState(m)
  BY DEF MachinesOf, VMInv
<1>3. CASE phase[d] = "done"
  <2>1. Reached(d, "ok")
    BY <1>2, <1>3 DEF Reached, PhaseInv, VMState, WithVMs
  <2> QED
    BY <1>1, <1>3, <2>1, EnterStep DEF Phases
<1>4. CASE phase[d] \in {"refused", "failed"}
  <2>1. \A q \in RegionsOf(d) : at[d][q] \in {"waiting", "ok", "connected", "failed"}
    BY <1>4, RegionsOfAre DEF PhaseInv
  <2>2. Reached(d, "error")
    BY <1>2, <1>4, <2>1 DEF Reached, VMState, WithVMs
  <2> QED
    BY <1>1, <1>4, <2>2, EnterStep DEF Phases
<1> QED
  BY <1>3, <1>4

\* Every step of runDeployment that is no goroutine's.
LEMMA DeploymentStep ==
  ASSUME NetTypes, Bookkeeping, CommandTypes, RegionInv, PhaseInv, VMInv,
         NEW d \in Deployments, RunDeployment(d)
  PROVE  /\ NetTypes' /\ Bookkeeping' /\ CommandTypes'
         /\ RegionInv' /\ PhaseInv' /\ VMInv'
<1> DEFINE Kept == UNCHANGED <<at, known, net, vm, inst, todo, victim>> /\ (NoFault \/ Fault)
<1>m. ASSUME NEW m \in MachinesOf(d)
      PROVE  /\ m \in Machines /\ OwnerOf[m] = d /\ RegionOf[m] \in RegionsOf(d) /\ VMState(m)
  BY <1>m DEF MachinesOf, RegionsOf, VMInv
<1>p. {"network", "connect", "vms", "ssh", "provision", "done", "refused", "failed",
  "ok", "error"} \subseteq Phases \ {"exited", "start"}
  BY DEF Phases
<1>1. CASE CreateInfrastructure(d)
  <2>1. /\ phase[d] = "start" /\ Kept
        /\ Enters(d, "network") \/ Enters(d, "refused")
    BY <1>1 DEF CreateInfrastructure, cloudVars, cleanUpVars, Enters
  <2>2. Reached(d, "network") /\ Reached(d, "refused")
    BY <1>m, <2>1 DEF Reached, PhaseInv, VMState, WithVMs
  <2> QED
    BY <1>p, <2>1, <2>2, EnterStep
<1>2. CASE RegionsReturn(d)
  <2>1. /\ phase[d] = "network" /\ Kept
        /\ \A q \in RegionsOf(d) : at[d][q] \in {"ok", "failed"}
        /\ Enters(d, "connect") \/ Enters(d, "failed")
    BY <1>2 DEF RegionsReturn, cloudVars, cleanUpVars, Enters, NoFault
  <2>2. Reached(d, "connect") /\ Reached(d, "failed")
    BY <1>m, <2>1 DEF Reached, VMState, WithVMs
  <2> QED
    BY <1>p, <2>1, <2>2, EnterStep
<1>3. CASE ConnectivityReturns(d)
  <2>1. /\ phase[d] = "connect" /\ Kept
        /\ \A q \in RegionsOf(d) : at[d][q] \in {"connected", "failed"}
        /\ \/ Enters(d, "vms") /\ \A q \in RegionsOf(d) : at[d][q] = "connected"
           \/ Enters(d, "failed")
    BY <1>3 DEF ConnectivityReturns, cloudVars, cleanUpVars, Enters
  <2>2. \A m \in MachinesOf(d) : vm[m] = "waiting"
    BY <1>m, <2>1 DEF VMState, WithVMs
  <2>3. (\A q \in RegionsOf(d) : at[d][q] = "connected") => Reached(d, "vms")
    BY <2>2 DEF Reached
  <2>4. Reached(d, "failed")
    BY <2>1, <2>2 DEF Reached, WithVMs
  <2> QED
    BY <1>p, <2>1, <2>3, <2>4, EnterStep
<1>4. CASE DeployVMsInParallel(d)
  <2>1. /\ phase[d] = "vms" /\ Kept
        /\ \A m \in MachinesOf(d) : vm[m] \in {"addressed", "unaddressed", "failed"}
        /\ \/ Enters(d, "ssh") /\ \A m \in MachinesOf(d) : vm[m] # "failed"
           \/ Enters(d, "failed")
    BY <1>4 DEF DeployVMsInParallel, cloudVars, cleanUpVars, Enters, NoFault
  <2>2. \A q \in RegionsOf(d) : at[d][q] = "connected"
    BY <2>1 DEF PhaseInv, WithVMs
  <2>3. (\A m \in MachinesOf(d) : vm[m] # "failed") => Reached(d, "ssh")
    BY <2>1, <2>2 DEF Reached, WithVMs
  <2>4. Reached(d, "failed")
    BY <2>1, <2>2 DEF Reached, WithVMs
  <2> QED
    BY <1>p, <2>1, <2>3, <2>4, EnterStep
<1>5. CASE AllTried(d)
  <2>1. /\ phase[d] = "ssh" /\ Kept
        /\ \A m \in MachinesOf(d) : vm[m] = "tried"
        /\ Enters(d, "provision")
    BY <1>5 DEF AllTried, cloudVars, cleanUpVars, Enters, NoFault
  <2>2. Reached(d, "provision")
    BY <2>1 DEF Reached, PhaseInv, WithVMs
  <2> QED
    BY <1>p, <2>1, <2>2, EnterStep
<1>6. CASE ProvisionBacalhauCluster(d)
  <2>1. /\ phase[d] = "provision" /\ Kept
        /\ Enters(d, "done") \/ Enters(d, "failed")
    BY <1>6 DEF ProvisionBacalhauCluster, cloudVars, cleanUpVars, Enters
  <2>2. Reached(d, "done") /\ Reached(d, "failed")
    BY <1>m, <2>1 DEF Reached, PhaseInv, VMState, WithVMs
  <2> QED
    BY <1>p, <2>1, <2>2, EnterStep
<1>7. CASE HandleDeploymentCompletion(d)
  BY <1>7, CompleteStep DEF HandleDeploymentCompletion
<1> QED
  BY <1>1, <1>2, <1>3, <1>4, <1>5, <1>6, <1>7 DEF RunDeployment

------------------------------------------------------------------------------
(* The steps of a machine, and the end of a process. *)

\* A machine's goroutine moves on; nothing else does.
LEMMA MachineMoves ==
  ASSUME NetTypes, Bookkeeping, CommandTypes, RegionInv, PhaseInv, VMInv,
         NEW m \in Machines, NEW s \in VMStates \ {"waiting"}, Becomes(m, s),
         UNCHANGED <<phase, at, known, net, todo, victim>>, NoFault \/ Fault,
         inst \subseteq inst', inst' \subseteq Machines,
         phase[OwnerOf[m]] \in WithVMs \cup {"failed", "error"},
         \A q \in RegionsOf(OwnerOf[m]) : at[OwnerOf[m]][q] = "connected",
         s # "failed" => m \in inst',
         s = "boot" => phase[OwnerOf[m]] = "vms",
         phase[OwnerOf[m]] = "ssh" => s \in {"addressed", "unaddressed", "trying", "tried"},
         phase[OwnerOf[m]] \in {"provision", "done", "ok"} => s = "tried"
  PROVE  /\ NetTypes' /\ Bookkeeping' /\ CommandTypes'
         /\ RegionInv' /\ PhaseInv' /\ VMInv'
<1>1. NetTypes' /\ RegionInv' /\ PhaseInv'
  BY DEF NetTypes, RegionInv, RegionState, PhaseInv
<1>2. Bookkeeping'
  BY FaultStep DEF Bookkeeping
<1>3. CommandTypes' /\ vm'[m] = s /\ \A n \in Machines \ {m} : vm'[n] = vm[n]
  BY DEF CommandTypes, Becomes
<1>4. VMState(m)'
  BY <1>3 DEF VMState
<1>5. ASSUME NEW n \in Machines \ {m}
      PROVE  VMState(n)'
  BY <1>3 DEF VMInv, VMState
<1> QED
  BY <1>1, <1>2, <1>3, <1>4, <1>5 DEF VMInv

\* Every step of a machine.
LEMMA MachineStep ==
  ASSUME NetTypes, Bookkeeping, CommandTypes, RegionInv, PhaseInv, VMInv,
         NEW m \in Machines, DeployVM(m)
  PROVE  /\ NetTypes' /\ Bookkeeping' /\ CommandTypes'
         /\ RegionInv' /\ PhaseInv' /\ VMInv'
<1> DEFINE d == OwnerOf[m]
           Kept == UNCHANGED <<phase, at, known, net, todo, victim>> /\ (NoFault \/ Fault)
<1>m. d \in Deployments /\ VMState(m) /\ inst \subseteq Machines
  BY RegionsOfAre DEF VMInv, CommandTypes
<1>s. {"boot", "addressed", "unaddressed", "trying", "tried", "failed"}
        \subseteq VMStates \ {"waiting"}
  BY DEF VMStates
<1>1. CASE RunInstances(m)
  <2>1. /\ phase[d] = "vms" /\ Kept
        /\ \/ Becomes(m, "boot") /\ inst' = inst \cup {m}
           \/ Becomes(m, "failed") /\ inst' \in {inst, inst \cup {m}}
    BY <1>1 DEF RunInstances, commandVars, cleanUpVars
  <2>2. \A q \in RegionsOf(d) : at[d][q] = "connected"
    BY <1>m, <2>1 DEF PhaseInv, WithVMs
  <2>3. phase[d] \in WithVMs
    BY <2>1 DEF WithVMs
  <2> QED
    BY <1>m, <1>s, <2>1, <2>2, <2>3, MachineMoves
<1>2. CASE InstanceRunning(m)
  <2>1. /\ vm[m] = "boot" /\ Kept /\ UNCHANGED inst
        /\ Becomes(m, "addressed") \/ Becomes(m, "unaddressed") \/ Becomes(m, "failed")
    BY <1>2 DEF InstanceRunning, commandVars, cleanUpVars, cloudVars
  <2>2. phase[d] = "vms" /\ m \in inst /\ \A q \in RegionsOf(d) : at[d][q] = "connected"
    BY <1>m, <2>1 DEF VMState
  <2>3. phase[d] \in WithVMs
    BY <2>2 DEF WithVMs
  <2> QED
    BY <1>m, <1>s, <2>1, <2>2, <2>3, MachineMoves
<1>3. CASE StartSSHWait(m)
  <2>1. /\ phase[d] = "ssh" /\ vm[m] \in {"addressed", "unaddressed"}
        /\ UNCHANGED <<at, known, net, inst, todo, victim>> /\ (NoFault \/ Fault)
        /\ \/ Becomes(m, "trying") /\ UNCHANGED phase
           \/ Enters(d, "failed") /\ UNCHANGED vm
    BY <1>3 DEF StartSSHWait, Enters, cleanUpVars, cloudVars
  <2>2. m \in inst /\ \A q \in RegionsOf(d) : at[d][q] = "connected"
    BY <1>m, <2>1 DEF VMState
  <2>3. phase[d] \in WithVMs
    BY <2>1 DEF WithVMs
  <2>4. CASE Becomes(m, "trying") /\ UNCHANGED phase
    BY <1>m, <1>s, <2>1, <2>2, <2>3, <2>4, MachineMoves
  <2>5. CASE Enters(d, "failed") /\ UNCHANGED vm
    <3>1. \A n \in MachinesOf(d) : vm[n] # "boot"
      BY <2>1 DEF MachinesOf, VMInv, VMState
    <3>2. Reached(d, "failed")
      BY <2>2, <3>1 DEF Reached, WithVMs
    <3>3. "failed" \in Phases \ {"exited", "start"}
      BY DEF Phases
    <3> QED
      BY <1>m, <2>1, <2>5, <3>2, <3>3, EnterStep
  <2> QED  BY <2>1, <2>4, <2>5
<1>4. CASE WaitForSSH(m)
  <2>1. /\ vm[m] = "trying" /\ Kept /\ UNCHANGED inst /\ Becomes(m, "tried")
    BY <1>4 DEF WaitForSSH, NoFault, commandVars, cleanUpVars, cloudVars
  <2>2. /\ phase[d] \in WithVMs \cup {"failed", "error"} /\ m \in inst
        /\ \A q \in RegionsOf(d) : at[d][q] = "connected"
    BY <1>m, <2>1 DEF VMState
  <2> QED
    BY <1>m, <1>s, <2>1, <2>2, MachineMoves
<1> QED
  BY <1>1, <1>2, <1>3, <1>4 DEF DeployVM

\* The end of a process.
LEMMA GoneStep ==
  ASSUME NetTypes, Bookkeeping, CommandTypes, RegionInv, PhaseInv, VMInv,
         NEW d \in Deployments, Gone(d)
  PROVE  /\ NetTypes' /\ Bookkeeping' /\ CommandTypes'
         /\ RegionInv' /\ PhaseInv' /\ VMInv'
<1>1. /\ phase' \in [Deployments -> Phases] /\ phase'[d] = "exited"
      /\ \A e \in Deployments \ {d} : phase'[e] = phase[e]
  BY DEF Gone, CommandTypes, Phases
<1>2. /\ at' \in [Deployments -> [Regions -> States]]
      /\ \A q \in Regions : at'[d][q] = "waiting"
      /\ \A e \in Deployments \ {d} : at'[e] = at[e]
  <2>1. "waiting" \in States
    BY DEF States
  <2> QED
    BY <2>1 DEF Gone, NetTypes
<1>3. /\ known' \in [Deployments -> SUBSET Regions]
      /\ \A e \in Deployments \ {d} : known'[e] = known[e]
  BY DEF Gone, NetTypes
<1>5. UNCHANGED <<net, inst, faults>>
  BY DEF Gone, cloudVars
<1>6. /\ vm' \in [Machines -> VMStates]
      /\ \A m \in Machines : vm'[m] = IF OwnerOf[m] = d THEN "waiting" ELSE vm[m]
  BY DEF Gone, CommandTypes, VMStates
<1>7. NetTypes' /\ CommandTypes'
  BY <1>1, <1>2, <1>3, <1>5, <1>6 DEF NetTypes, CommandTypes
<1>8. RegionInv'
  <2> SUFFICES ASSUME NEW e \in Deployments, NEW q \in Regions
               PROVE  RegionState(e, q)'
    BY DEF RegionInv
  <2>1. CASE e = d
    BY <1>1, <1>2, <2>1 DEF RegionState, Registered, Called, Recording
  <2>2. CASE e # d
    BY <1>1, <1>2, <1>3, <1>5, <2>2 DEF RegionInv, RegionState
  <2> QED  BY <2>1, <2>2
<1>9. PhaseInv'
  BY <1>1, <1>2 DEF PhaseInv, WithVMs
<1>10. VMInv'
  <2> SUFFICES ASSUME NEW m \in Machines
               PROVE  VMState(m)'
    BY DEF VMInv
  <2>1. CASE OwnerOf[m] = d
    BY <1>1, <1>6, <2>1 DEF VMState
  <2>2. CASE OwnerOf[m] # d
    <3>1. /\ phase'[OwnerOf[m]] = phase[OwnerOf[m]] /\ at'[OwnerOf[m]] = at[OwnerOf[m]]
          /\ vm'[m] = vm[m] /\ inst' = inst
      BY <1>1, <1>2, <1>5, <1>6, <2>2, RegionsOfAre
    <3>2. VMState(m)
      BY DEF VMInv
    <3> QED
      BY <3>1, <3>2 DEF VMState
  <2> QED  BY <2>1, <2>2
<1>11. Bookkeeping'
  <2>1. Idle \in [vpc : Deployments \cup {None}, stage : DOMAIN Stages]
    BY StagesAre DEF Idle
  <2>2. todo' \in [Deployments -> [Regions -> SUBSET Deployments]]
    BY DEF Gone, Bookkeeping
  <2>3. victim' \in [Deployments -> [Regions ->
          [vpc : Deployments \cup {None}, stage : DOMAIN Stages]]]
    <3> DEFINE V == [vpc : Deployments \cup {None}, stage : DOMAIN Stages]
    <3>1. victim \in [Deployments -> [Regions -> V]] /\ Idle \in V
      BY <2>1 DEF Bookkeeping
    <3>2. victim' = [victim EXCEPT ![d] = [r \in Regions |-> Idle]]
      BY DEF Gone
    <3>3. victim' \in [Deployments -> [Regions -> V]]
      <4> HIDE DEF V
      <4> QED  BY <3>1, <3>2
    <3> QED  BY <3>3
  <2> QED
    BY <1>5, <2>2, <2>3 DEF Bookkeeping
<1> QED
  BY <1>7, <1>8, <1>9, <1>10, <1>11

------------------------------------------------------------------------------
(* What the steps do to the file. *)

\* Only on the way to its network does a region write.
LEMMA WritesInNetwork ==
  ASSUME CommandTypes, PhaseInv, NEW d \in Deployments, NEW r \in Regions,
         at[d][r] \in Recording
  PROVE  phase[d] = "network" /\ r \in RegionsOf(d)
<1>1. /\ at[d][r] \notin {"waiting", "ok", "connected", "failed"}
      /\ r \in RegionsOf(d) /\ phase[d] \notin {"start", "refused", "exited"}
  BY DEF Recording, PhaseInv
<1>2. phase[d] \notin {"connect", "failed", "error"} \cup WithVMs
  BY <1>1 DEF PhaseInv
<1> QED
  BY <1>1, <1>2 DEF CommandTypes, Phases, WithVMs

\* A command that a step does not touch keeps what holds of its file.
LEMMA FileStays ==
  ASSUME FileInv, NEW e \in Deployments,
         UNCHANGED <<phase[e], at[e], known[e], draft[e], file[e]>>,
         \A m \in MachinesOf(e) : m \in inst' <=> m \in inst
  PROVE  FileState(e)'
<1>1. FileState(e)
  BY DEF FileInv
<1>2. (\A r \in Regions : LastSaves(e, r)' <=> LastSaves(e, r)) /\ (Lists(e)' <=> Lists(e))
  BY DEF LastSaves, Lists
<1>3. HasInstance(e)' <=> HasInstance(e)
  BY DEF HasInstance
<1> QED
  BY <1>1, <1>2, <1>3 DEF FileState

\* So does one whose regions neither begin to save nor are done with it.
LEMMA QuietStep ==
  ASSUME FileTypes, FileInv, UNCHANGED <<phase, inst, configVars>>,
         \A e \in Deployments : known[e] \subseteq known'[e],
         \A e \in Deployments, q \in Regions :
           at'[e][q] \in {"ok", "saveWrite"} => at[e][q] = at'[e][q]
  PROVE  FileTypes' /\ FileInv'
<1>1. FileTypes'
  BY DEF FileTypes, configVars
<1>2. ASSUME NEW e \in Deployments
      PROVE  FileState(e)'
  <2>1. FileState(e)
    BY DEF FileInv
  <2>2. /\ \A r \in Regions : LastSaves(e, r)' => LastSaves(e, r)
        /\ (\A q \in RegionsOf(e) : at'[e][q] = "ok") => \A q \in RegionsOf(e) : at[e][q] = "ok"
    BY RegionsOfAre DEF LastSaves
  <2>3. (Lists(e)' <=> Lists(e)) /\ (HasInstance(e)' <=> HasInstance(e)) /\ UNCHANGED draft
    BY DEF Lists, HasInstance, configVars
  <2>4. UNCHANGED file
    BY DEF configVars
  <2> QED
    BY <2>1, <2>2, <2>3, <2>4 DEF FileState
<1> QED
  BY <1>1, <1>2 DEF FileInv

\* viper's part of a write: a region that begins to save has the mutex, and saves all that
\* is known.
LEMMA BeginKeeps ==
  ASSUME NetTypes, CommandTypes, FileTypes, RegionInv, PhaseInv, FileInv,
         NEW d \in Deployments, NEW r \in Regions, at[d][r] \in Recording,
         NEW memory \in [record : SUBSET Regions, extra : SUBSET Regions],
         NEW next \in Recording, BeginWrite(d, r, memory, next),
         UNCHANGED <<phase, known, inst>>,
         next = "saveWrite" =>
           memory.extra = known[d] /\ \A q \in Regions : at[d][q] # "saveWrite"
  PROVE  FileTypes' /\ FileInv'
<1>1. /\ viper' = [viper EXCEPT ![d] = memory]
      /\ draft' = [draft EXCEPT ![d][r] = memory.record \cup memory.extra]
      /\ file' = [file EXCEPT ![d] = {}]
      /\ at' = [at EXCEPT ![d][r] = next]
  BY DEF BeginWrite, Goto
<1>2. /\ memory.record \cup memory.extra \in SUBSET Regions
      /\ {} \in Files
  BY DEF Files
<1>3. FileTypes'
  BY <1>1, <1>2 DEF FileTypes
<1>4. phase[d] = "network" /\ r \in RegionsOf(d) /\ next # "ok"
  BY WritesInNetwork DEF Recording
<1>5. /\ file'[d] = {} /\ draft'[d][r] = memory.record \cup memory.extra
      /\ at'[d][r] = next
      /\ \A q \in Regions \ {r} : at'[d][q] = at[d][q]
  BY <1>1 DEF FileTypes, NetTypes
<1>6. ASSUME NEW e \in Deployments \ {d}
      PROVE  FileState(e)'
  <2>1. UNCHANGED <<at[e], draft[e], file[e]>>
    BY <1>1 DEF FileTypes, NetTypes
  <2> QED
    BY <2>1, FileStays
<1>7. FileState(d)'
  <2>1. FileState(d)
    BY DEF FileInv
  <2>2. \A p, q \in Regions : at'[d][p] = "saveWrite" /\ at'[d][q] = "saveWrite" => p = q
    BY <1>5, <2>1 DEF FileState
  <2>3. ASSUME NEW q \in Regions, LastSaves(d, q)'
        PROVE  file'[d] = {} /\ RegionsOf(d) \subseteq draft'[d][q]
    <3>1. q = r
      BY <1>4, <1>5, <2>3 DEF LastSaves
    <3>2. next = "saveWrite" /\ \A p \in RegionsOf(d) \ {r} : at[d][p] = "ok"
      BY <1>5, <2>3, <3>1, RegionsOfAre DEF LastSaves
    <3>3. RegionsOf(d) \subseteq known[d]
      BY <3>2, RegionsOfAre DEF RegionInv, RegionState, Registered
    <3> QED
      BY <1>5, <3>1, <3>2, <3>3
  <2>4. ~(\A q \in RegionsOf(d) : at'[d][q] = "ok")
    BY <1>4, <1>5
  <2>5. ~HasInstance(d) /\ (HasInstance(d)' <=> HasInstance(d))
    BY <1>4, <2>1 DEF FileState, HasInstance
  <2>6. phase'[d] = "network"
    BY <1>4
  <2> QED
    BY <2>2, <2>3, <2>4, <2>5, <2>6 DEF FileState, Ready, WithVMs
<1> QED
  BY <1>3, <1>6, <1>7 DEF FileInv

\* The write itself: the region that saves last overwrites nothing but its own truncation.
LEMMA WriteKeeps ==
  ASSUME NetTypes, CommandTypes, FileTypes, RegionInv, PhaseInv, FileInv,
         NEW d \in Deployments, NEW r \in Regions, WriteConfig(d, r)
  PROVE  FileTypes' /\ FileInv'
<1> DEFINE s == at[d][r]
<1>1. /\ s \in {"recordWrite", "dnsWrite", "saveWrite"}
      /\ draft' = [draft EXCEPT ![d][r] = {}]
      /\ UNCHANGED <<phase, known, viper, inst>>
      /\ \/ /\ \E w \in Written(d, r) : file' = [file EXCEPT ![d] = w]
            /\ at' = [at EXCEPT ![d][r] = AfterWrite[s]]
         \/ /\ file' \in {file, [file EXCEPT ![d] = {Torn}]}
            /\ at' = [at EXCEPT ![d][r] = IF s = "saveWrite" THEN "failed" ELSE AfterWrite[s]]
  BY DEF WriteConfig, Goto, AfterWrite, cloudVars
<1>2. /\ AfterWrite[s] \in {"dns", "subnets", "ok"}
      /\ AfterWrite[s] = "ok" => s = "saveWrite"
  BY <1>1 DEF AfterWrite
<1>3. phase[d] = "network" /\ r \in RegionsOf(d)
  BY <1>1, WritesInNetwork DEF Recording
<1>4. /\ at'[d][r] \in {"dns", "subnets", "ok", "failed"}
      /\ at'[d][r] = "ok" =>
           s = "saveWrite" /\ \E w \in Written(d, r) : file' = [file EXCEPT ![d] = w]
      /\ \A q \in Regions \ {r} : at'[d][q] = at[d][q]
      /\ \A e \in Deployments \ {d} : at'[e] = at[e]
  BY <1>1, <1>2 DEF NetTypes
<1>5. draft[d][r] \in SUBSET Regions /\ file[d] \in Files
  BY DEF FileTypes
<1>6. FileTypes' /\ \A e \in Deployments \ {d} : file'[e] = file[e] /\ draft'[e] = draft[e]
  <2>1. file[d] \ {Torn} \in SUBSET Regions
    BY <1>5 DEF Files
  <2>2. Written(d, r) \subseteq Files
    BY <1>5, <2>1 DEF Written, Files
  <2>3. {Torn} \in Files
    BY DEF Files
  <2>4. file' = file \/ \E w \in Files : file' = [file EXCEPT ![d] = w]
    BY <1>1, <2>2, <2>3
  <2>5. file' \in [Deployments -> Files] /\ \A e \in Deployments \ {d} : file'[e] = file[e]
    BY <2>4 DEF FileTypes
  <2>6. {} \in SUBSET Regions
    OBVIOUS
  <2>7. /\ draft' \in [Deployments -> [Regions -> SUBSET Regions]]
        /\ \A e \in Deployments \ {d} : draft'[e] = draft[e]
    BY <1>1, <2>6 DEF FileTypes
  <2> QED
    BY <1>1, <2>5, <2>7 DEF FileTypes
<1>7. ASSUME NEW e \in Deployments \ {d}
      PROVE  FileState(e)'
  BY <1>1, <1>4, <1>6, FileStays
<1>8. FileState(d)'
  <2>1. FileState(d)
    BY DEF FileInv
  <2>2. \A p, q \in Regions : at'[d][p] = "saveWrite" /\ at'[d][q] = "saveWrite" => p = q
    BY <1>4, <2>1 DEF FileState
  <2>3. ASSUME NEW q \in Regions, LastSaves(d, q)'
        PROVE  FALSE
    <3>1. at'[d][q] = "saveWrite" /\ q # r /\ at[d][q] = "saveWrite"
      BY <1>4, <2>3 DEF LastSaves
    <3>2. s = "saveWrite"
      BY <1>3, <1>4, <2>3, <3>1 DEF LastSaves
    <3> QED
      BY <2>1, <3>1, <3>2 DEF FileState
  <2>4. ASSUME \A q \in RegionsOf(d) : at'[d][q] = "ok"
        PROVE  Lists(d)'
    <3>1. s = "saveWrite" /\ \E w \in Written(d, r) : file' = [file EXCEPT ![d] = w]
      BY <1>3, <1>4, <2>4
    <3>2. LastSaves(d, r)
      BY <1>4, <2>4, <3>1, RegionsOfAre DEF LastSaves
    <3>3. file[d] = {} /\ RegionsOf(d) \subseteq draft[d][r]
      BY <2>1, <3>2 DEF FileState
    <3>4. file'[d] = draft[d][r]
      BY <3>1, <3>3 DEF Written, FileTypes
    <3> QED
      BY <1>5, <3>3, <3>4, BoundsAssumption DEF Lists
  <2>5. ~HasInstance(d) /\ (HasInstance(d)' <=> HasInstance(d))
    BY <1>1, <1>3, <2>1 DEF FileState, HasInstance
  <2>6. phase'[d] = "network"
    BY <1>1, <1>3
  <2> QED
    BY <2>2, <2>3, <2>4, <2>5, <2>6 DEF FileState, Ready, WithVMs
<1> QED
  BY <1>6, <1>7, <1>8 DEF FileInv

\* Every step of a region.
LEMMA RegionFile ==
  ASSUME NetTypes, CommandTypes, FileTypes, RegionInv, PhaseInv, FileInv,
         NEW d \in Deployments, NEW r \in Regions, Region(d, r)
  PROVE  FileTypes' /\ FileInv'
<1>1. viper[d] \in [record : SUBSET Regions, extra : SUBSET Regions] /\ known[d] \in SUBSET Regions
  BY DEF FileTypes, NetTypes
<1>2. /\ [viper[d] EXCEPT !.record = @ \cup {r}]
           \in [record : SUBSET Regions, extra : SUBSET Regions]
      /\ [viper[d] EXCEPT !.record = {r}] \in [record : SUBSET Regions, extra : SUBSET Regions]
      /\ [viper[d] EXCEPT !.extra = known[d]]
           \in [record : SUBSET Regions, extra : SUBSET Regions]
      /\ [viper[d] EXCEPT !.extra = known[d]].extra = known[d]
  BY <1>1
<1>3. {"record", "recordNew", "recordWrite", "dns", "dnsWrite", "save", "saveWrite"}
        \subseteq Recording
  BY DEF Recording
<1>4. CASE WriteFile(d, r)
  <2>1. CASE RecordVPC(d, r)
    <3>1. CASE Goto(d, r, "recordNew") /\ UNCHANGED configVars
      <4>1. \A e \in Deployments, q \in Regions :
              at'[e][q] \in {"ok", "saveWrite"} => at[e][q] = at'[e][q]
        BY <3>1 DEF Goto, NetTypes
      <4> QED
        BY <2>1, <3>1, <4>1, QuietStep DEF RecordVPC, cloudVars
    <3>2. CASE BeginWrite(d, r, [viper[d] EXCEPT !.record = @ \cup {r}], "recordWrite")
      BY <1>2, <1>3, <2>1, <3>2, BeginKeeps DEF RecordVPC, cloudVars
    <3> QED  BY <2>1, <3>1, <3>2 DEF RecordVPC
  <2>2. CASE RecordVPCInNewMap(d, r)
    BY <1>2, <1>3, <2>2, BeginKeeps DEF RecordVPCInNewMap, cloudVars
  <2>3. CASE SaveInfrastructure(d, r)
    BY <1>2, <1>3, <2>3, BeginKeeps DEF SaveInfrastructure, cloudVars
  <2> QED
    BY <1>4, <2>1, <2>2, <2>3, WriteKeeps DEF WriteFile
<1>5. CASE EnableDns(d, r)
  <2>1. CASE BeginWrite(d, r, [viper[d] EXCEPT !.record = @ \cup {r}], "dnsWrite")
    BY <1>2, <1>3, <1>5, <2>1, BeginKeeps DEF EnableDns
  <2>2. CASE Goto(d, r, "failed") /\ UNCHANGED configVars
    <3>1. \A e \in Deployments, q \in Regions :
            at'[e][q] \in {"ok", "saveWrite"} => at[e][q] = at'[e][q]
      BY <2>2 DEF Goto, NetTypes
    <3> QED
      BY <1>5, <2>2, <3>1, QuietStep DEF EnableDns
  <2> QED  BY <1>5, <2>1, <2>2 DEF EnableDns
<1>6. CASE CreateNetwork(d, r)
  <2>1. PICK s \in Called : Call(d, r, s)
    BY <1>6 DEF CreateNetwork, Called, CreateSecurityGroup, AuthorizeIngress,
       CreateRegionalSubnets, CreateInternetGateway, AttachInternetGateway,
       CreateRouteTable, CreateInternetGatewayRoute, AssociatePublicSubnets
  <2>2. /\ UNCHANGED <<phase, known, inst, configVars>>
        /\ at' = [at EXCEPT ![d][r] = StepAfter(s)] \/ at' = [at EXCEPT ![d][r] = "failed"]
    BY <2>1 DEF Call, Goto, commandVars
  <2>3. StepAfter(s) \notin {"ok", "saveWrite"}
    BY Successors DEF Called
  <2>4. \A e \in Deployments, q \in Regions :
          at'[e][q] \in {"ok", "saveWrite"} => at[e][q] = at'[e][q]
    BY <2>2, <2>3 DEF NetTypes
  <2> QED
    BY <2>2, <2>4, QuietStep
<1>7. CASE \/ SetupRegionalInfrastructure(d, r) \/ CreateVpc(d, r) \/ VpcLimitExceeded(d, r)
           \/ ListVPCs(d, r) \/ NextVPC(d, r) \/ CleanUp(d, r) \/ CheckConnectivity(d, r)
  <2>1. /\ UNCHANGED <<phase, inst, configVars>>
        /\ \/ \E t \in {"vpc", "sg", "list", "clean", "vpcAgain", "connected", "failed"} :
                at' = [at EXCEPT ![d][r] = t]
           \/ UNCHANGED at
    BY <1>7 DEF SetupRegionalInfrastructure, CreateVpc, VpcLimitExceeded, ListVPCs, NextVPC,
       CleanUp, CheckConnectivity, Goto, commandVars, cloudVars
  <2>2. \A e \in Deployments, q \in Regions :
          at'[e][q] \in {"ok", "saveWrite"} => at[e][q] = at'[e][q]
    <3>1. ASSUME NEW t \in {"vpc", "sg", "list", "clean", "vpcAgain", "connected", "failed"},
                 at' = [at EXCEPT ![d][r] = t], NEW e \in Deployments, NEW q \in Regions,
                 at'[e][q] \in {"ok", "saveWrite"}
          PROVE  at[e][q] = at'[e][q]
      <4>1. at'[e][q] = IF e = d /\ q = r THEN t ELSE at[e][q]
        BY <3>1 DEF NetTypes
      <4> QED
        BY <3>1, <4>1
    <3> QED
      BY <2>1, <3>1
  <2>3. \A e \in Deployments : known[e] \subseteq known'[e]
    BY <1>7, RegionStep DEF Region, Frame
  <2> QED
    BY <2>1, <2>2, <2>3, QuietStep
<1> QED
  BY <1>4, <1>5, <1>6, <1>7 DEF Region

\* A command enters a phase behind the networks with all of them listed.
LEMMA EnterFile ==
  ASSUME CommandTypes, FileTypes, FileInv, NEW d \in Deployments,
         NEW p \in Phases \ {"exited", "start"}, Enters(d, p), phase[d] # "exited",
         UNCHANGED <<at, known, configVars, inst>>,
         p \in Ready => Lists(d) /\ RegionsOf(d) \subseteq known[d],
         p = "network" /\ (\A q \in RegionsOf(d) : at[d][q] = "ok") => Lists(d),
         p \in {"network", "refused", "connect"} => phase[d] \in {"start", "network"}
  PROVE  FileTypes' /\ FileInv'
<1>1. phase'[d] = p /\ \A e \in Deployments \ {d} : phase'[e] = phase[e]
  BY DEF Enters, CommandTypes
<1>2. UNCHANGED <<viper, draft, file>>
  BY DEF configVars
<1>3. ASSUME NEW e \in Deployments \ {d}
      PROVE  FileState(e)'
  BY <1>1, <1>2, FileStays
<1>4. FileState(d)'
  <2>1. FileState(d)
    BY DEF FileInv
  <2>2. /\ \A r \in Regions : LastSaves(d, r)' => LastSaves(d, r)
        /\ (Lists(d)' <=> Lists(d)) /\ (HasInstance(d)' <=> HasInstance(d))
    BY <1>2 DEF LastSaves, Lists, HasInstance
  <2>3. p \in {"network", "refused", "connect"} => ~HasInstance(d)
    BY <2>1 DEF FileState
  <2> QED
    BY <1>1, <1>2, <2>1, <2>2, <2>3 DEF FileState
<1> QED
  BY <1>2, <1>3, <1>4 DEF FileTypes, FileInv

\* The end of a command or of its process: what the file is left with.
LEMMA EndFile ==
  ASSUME NetTypes, CommandTypes, FileTypes, FileInv, NEW d \in Deployments,
         NEW p \in {"ok", "error", "exited"},
         phase' \in [Deployments -> Phases], phase'[d] = p,
         \A e \in Deployments \ {d} :
           UNCHANGED <<phase[e], at[e], known[e], draft[e], file[e]>>,
         FileTypes', UNCHANGED inst,
         \A q \in Regions : at'[d][q] \notin Recording,
         p = "ok" \/ HasInstance(d) =>
           Lists(d)' /\ (p # "exited" => RegionsOf(d) \subseteq known'[d])
  PROVE  FileInv'
<1>1. ASSUME NEW e \in Deployments \ {d}
      PROVE  FileState(e)'
  BY FileStays
<1>2. FileState(d)'
  <2>1. \A q \in Regions : at'[d][q] # "saveWrite" /\ ~LastSaves(d, q)'
    BY DEF LastSaves, Recording
  <2>2. HasInstance(d)' <=> HasInstance(d)
    BY DEF HasInstance
  <2> QED
    BY <2>1, <2>2 DEF FileState, Ready, WithVMs
<1> QED
  BY <1>1, <1>2 DEF FileInv

LEMMA CompleteFile ==
  ASSUME NetTypes, CommandTypes, FileTypes, PhaseInv, FileInv, NEW d \in Deployments,
         phase[d] \in {"done", "refused", "failed"}, Complete(d)
  PROVE  FileTypes' /\ FileInv'
<1> DEFINE p == IF phase[d] = "done" THEN "ok" ELSE "error"
<1>1. /\ UNCHANGED <<at, known, draft, inst>>
      /\ viper' = [viper EXCEPT ![d].record = known[d]]
      /\ file' = [file EXCEPT ![d] = known[d] \cup viper[d].extra]
      /\ phase' = [phase EXCEPT ![d] = p]
  BY DEF Complete, cloudVars, CommandTypes
<1>2. viper[d] \in [record : SUBSET Regions, extra : SUBSET Regions] /\ known[d] \in SUBSET Regions
  BY DEF FileTypes, NetTypes
<1>3. FileTypes'
  <2>1. [viper[d] EXCEPT !.record = known[d]]
          \in [record : SUBSET Regions, extra : SUBSET Regions]
    BY <1>2
  <2>2. viper' = [viper EXCEPT ![d] = [viper[d] EXCEPT !.record = known[d]]]
    BY <1>1
  <2>3. viper' \in [Deployments -> [record : SUBSET Regions, extra : SUBSET Regions]]
    BY <2>1, <2>2 DEF FileTypes
  <2>4. known[d] \cup viper[d].extra \in Files
    BY <1>2 DEF Files
  <2>5. file' \in [Deployments -> Files]
    BY <1>1, <2>4 DEF FileTypes
  <2> QED
    BY <1>1, <2>3, <2>5 DEF FileTypes
<1>4. /\ phase' \in [Deployments -> Phases] /\ phase'[d] = p
      /\ \A e \in Deployments \ {d} : UNCHANGED <<phase[e], at[e], known[e], draft[e], file[e]>>
  BY <1>1 DEF CommandTypes, FileTypes, Phases
<1>5. \A q \in Regions : at'[d][q] \notin Recording
  BY <1>1, WritesInNetwork
<1>6. ASSUME p = "ok" \/ HasInstance(d)
      PROVE  Lists(d)' /\ RegionsOf(d) \subseteq known'[d]
  <2>1. RegionsOf(d) \subseteq known[d]
    BY <1>6 DEF FileInv, FileState, Ready, WithVMs
  <2>2. file'[d] = known[d] \cup viper[d].extra
    BY <1>1 DEF FileTypes
  <2> QED
    BY <1>1, <1>2, <2>1, <2>2, BoundsAssumption DEF Lists
<1> QED
  BY <1>1, <1>3, <1>4, <1>5, <1>6, EndFile

\* Every step of runDeployment that is no goroutine's.
LEMMA DeploymentFile ==
  ASSUME NetTypes, CommandTypes, FileTypes, RegionInv, PhaseInv, FileInv,
         NEW d \in Deployments, RunDeployment(d)
  PROVE  FileTypes' /\ FileInv'
<1> DEFINE Kept == UNCHANGED <<at, known, configVars, inst>>
<1>f. FileState(d)
  BY DEF FileInv
<1>p. {"network", "connect", "vms", "ssh", "provision", "done", "refused", "failed"}
        \subseteq Phases \ {"exited", "start"}
  BY DEF Phases
<1>r. /\ {"connect", "vms", "ssh", "provision", "done"} \subseteq Ready
      /\ {"network", "refused", "failed"} \cap Ready = {}
  BY DEF Ready, WithVMs
<1>1. CASE CreateInfrastructure(d)
  <2>1. /\ phase[d] = "start" /\ Kept
        /\ Enters(d, "network") \/ Enters(d, "refused")
    BY <1>1 DEF CreateInfrastructure, cloudVars, Enters
  <2>2. file[d] = {} /\ \A q \in RegionsOf(d) : at[d][q] # "ok"
    BY <1>f, <2>1, RegionsOfAre DEF FileState, PhaseInv
  <2>3. (\A q \in RegionsOf(d) : at[d][q] = "ok") => Lists(d)
    BY <2>2 DEF Lists
  <2> QED
    BY <1>p, <1>r, <2>1, <2>3, EnterFile
<1>2. CASE RegionsReturn(d)
  <2>1. /\ phase[d] = "network" /\ Kept
        /\ \/ Enters(d, "connect") /\ \A q \in RegionsOf(d) : at[d][q] = "ok"
           \/ Enters(d, "failed")
    BY <1>2 DEF RegionsReturn, cloudVars, Enters
  <2>2. ASSUME \A q \in RegionsOf(d) : at[d][q] = "ok"
        PROVE  Lists(d) /\ RegionsOf(d) \subseteq known[d]
    BY <1>f, <2>1, <2>2, RegionsOfAre DEF FileState, RegionInv, RegionState, Registered
  <2> QED
    BY <1>p, <1>r, <2>1, <2>2, EnterFile
<1>3. CASE \/ ConnectivityReturns(d) \/ DeployVMsInParallel(d) \/ AllTried(d)
           \/ ProvisionBacalhauCluster(d)
  <2>1. /\ phase[d] \in {"connect", "vms", "ssh", "provision"} /\ Kept
        /\ \E p \in {"vms", "ssh", "provision", "done", "failed"} : Enters(d, p)
    BY <1>3 DEF ConnectivityReturns, DeployVMsInParallel, AllTried, ProvisionBacalhauCluster,
       cloudVars, Enters
  <2>2. Lists(d) /\ RegionsOf(d) \subseteq known[d]
    BY <1>f, <1>r, <2>1 DEF FileState
  <2> QED
    BY <1>p, <2>1, <2>2, EnterFile
<1>4. CASE HandleDeploymentCompletion(d)
  BY <1>4, CompleteFile DEF HandleDeploymentCompletion
<1> QED
  BY <1>1, <1>2, <1>3, <1>4 DEF RunDeployment

\* Every step of a machine: an instance is asked for when the networks are listed.
LEMMA MachineFile ==
  ASSUME CommandTypes, FileTypes, FileInv, NEW m \in Machines, DeployVM(m)
  PROVE  FileTypes' /\ FileInv'
<1> DEFINE d == OwnerOf[m]
<1>1. d \in Deployments
  BY RegionsOfAre
<1>2. UNCHANGED <<at, known, configVars>>
  BY DEF DeployVM, RunInstances, InstanceRunning, StartSSHWait, WaitForSSH, commandVars
<1>3. CASE UNCHANGED <<phase, inst>>
  BY <1>2, <1>3, QuietStep
<1>4. CASE RunInstances(m)
  <2>1. /\ phase[d] = "vms" /\ UNCHANGED <<phase, viper, draft, file>>
        /\ inst' \in {inst, inst \cup {m}}
    BY <1>4 DEF RunInstances, commandVars, configVars
  <2>2. ASSUME NEW e \in Deployments \ {d}
        PROVE  FileState(e)'
    <3>1. \A n \in MachinesOf(e) : n \in inst' <=> n \in inst
      BY <2>1 DEF MachinesOf
    <3> QED
      BY <1>2, <2>1, <3>1, FileStays
  <2>3. FileState(d)'
    <3>1. FileState(d)
      BY <1>1 DEF FileInv
    <3>2. /\ \A r \in Regions : LastSaves(d, r)' => LastSaves(d, r)
          /\ Lists(d)' <=> Lists(d)
      BY <1>2, <2>1 DEF LastSaves, Lists
    <3> QED
      BY <1>2, <2>1, <3>1, <3>2 DEF FileState, Ready, WithVMs
  <2> QED
    BY <1>1, <2>1, <2>2, <2>3 DEF FileTypes, FileInv
<1>5. CASE Enters(d, "failed") /\ UNCHANGED inst /\ phase[d] = "ssh"
  <2>1. "failed" \in Phases \ {"exited", "start"} /\ "failed" \notin Ready
    BY DEF Phases, Ready, WithVMs
  <2> QED
    BY <1>1, <1>2, <1>5, <2>1, EnterFile
<1> QED
  BY <1>3, <1>4, <1>5
     DEF DeployVM, InstanceRunning, StartSSHWait, WaitForSSH, commandVars, cloudVars, Enters

\* The end of a process, whatever it had begun.
LEMMA GoneFile ==
  ASSUME NetTypes, CommandTypes, FileTypes, FileInv, NEW d \in Deployments,
         Exit(d) \/ ReturnWhenCanceled(d)
  PROVE  FileTypes' /\ FileInv'
<1>1. Gone(d) /\ FileState(d)
  BY DEF Exit, ReturnWhenCanceled, FileInv
<1>2. viper[d] \in [record : SUBSET Regions, extra : SUBSET Regions] /\ known[d] \in SUBSET Regions
  BY DEF FileTypes, NetTypes
<1>3. /\ file' = file \/ \E w \in Files : file' = [file EXCEPT ![d] = w]
      /\ HasInstance(d) => Lists(d)'
  <2>1. CASE Exit(d)
    BY <1>1, <2>1 DEF Exit, FileState, Lists
  <2>2. CASE ReturnWhenCanceled(d)
    <3>1. PICK w \in {known[d] \cup viper[d].extra}
                       \cup (IF phase[d] = "network" THEN {{Torn}} \cup SUBSET known[d] ELSE {}) :
            file' = [file EXCEPT ![d] = w]
      BY <2>2 DEF ReturnWhenCanceled
    <3>2. w \in Files
      BY <1>2, <3>1 DEF Files
    <3>3. file'[d] = w
      BY <3>1 DEF FileTypes
    <3>4. ASSUME HasInstance(d)
          PROVE  Lists(d)'
      <4>1. phase[d] \notin {"network", "exited"}
        BY <1>1, <2>2, <3>4 DEF FileState, ReturnWhenCanceled, Ended
      <4>2. RegionsOf(d) \subseteq known[d] /\ w = known[d] \cup viper[d].extra
        BY <1>1, <3>1, <3>4, <4>1 DEF FileState
      <4> QED
        BY <1>2, <3>3, <4>2, BoundsAssumption DEF Lists
    <3> QED  BY <3>1, <3>2, <3>4
  <2> QED  BY <2>1, <2>2
<1>4. FileTypes'
  <2>1. file' \in [Deployments -> Files]
    BY <1>3 DEF FileTypes
  <2>2. NothingSet \in [record : SUBSET Regions, extra : SUBSET Regions]
    BY DEF NothingSet
  <2>3. viper' \in [Deployments -> [record : SUBSET Regions, extra : SUBSET Regions]]
    <3> HIDE DEF NothingSet
    <3> QED  BY <1>1, <2>2 DEF Gone, FileTypes
  <2>4. draft' \in [Deployments -> [Regions -> SUBSET Regions]]
    BY <1>1 DEF Gone, NoDrafts, FileTypes
  <2> QED
    BY <2>1, <2>3, <2>4 DEF FileTypes
<1>5. /\ phase' \in [Deployments -> Phases] /\ phase'[d] = "exited" /\ UNCHANGED inst
      /\ \A e \in Deployments \ {d} : UNCHANGED <<phase[e], at[e], known[e], draft[e], file[e]>>
  BY <1>1, <1>3 DEF Gone, CommandTypes, NetTypes, FileTypes, Phases, cloudVars
<1>6. \A q \in Regions : at'[d][q] \notin Recording
  BY <1>1 DEF Gone, NetTypes, Recording
<1> QED
  BY <1>3, <1>4, <1>5, <1>6, EndFile DEF Ready, WithVMs

------------------------------------------------------------------------------
(* The invariant holds in every reachable state. *)

LEMMA InitInv == Init => IInv
<1> SUFFICES ASSUME Init
             PROVE  IInv
  OBVIOUS
<1>1. NetTypes
  BY DEF Init, NetTypes, States, PartSets
<1>2. Bookkeeping
  <2>1. Idle \in [vpc : Deployments \cup {None}, stage : DOMAIN Stages]
    BY StagesAre DEF Idle
  <2> QED
    BY <2>1, BoundsAssumption DEF Init, Bookkeeping
<1>3. CommandTypes
  BY DEF Init, CommandTypes, Phases, VMStates
<1>4. RegionInv
  BY DEF Init, RegionInv, RegionState, Registered, Called, Recording
<1>5. PhaseInv
  BY RegionsOfAre DEF Init, PhaseInv, WithVMs
<1>6. VMInv
  BY RegionsOfAre DEF Init, VMInv, VMState
<1>7. FileTypes
  BY DEF Init, FileTypes, Files, NothingSet, NoDrafts
<1>8. FileInv
  <2> SUFFICES ASSUME NEW d \in Deployments
               PROVE  FileState(d)
    BY DEF FileInv
  <2>1. phase[d] = "start" /\ file[d] = {} /\ inst = {} /\ \A r \in Regions : at[d][r] = "waiting"
    BY DEF Init
  <2> QED
    BY <2>1 DEF FileState, LastSaves, HasInstance, Ready, WithVMs
<1> QED
  BY <1>1, <1>2, <1>3, <1>4, <1>5, <1>6, <1>7, <1>8, TypesAre DEF IInv

LEMMA NextInv == IInv /\ [Next]_vars => IInv'
<1> DEFINE J == /\ NetTypes /\ Bookkeeping /\ CommandTypes /\ FileTypes
                /\ RegionInv /\ PhaseInv /\ VMInv /\ FileInv
<1> SUFFICES ASSUME J, [Next]_vars
             PROVE  J'
  <2>1. IInv <=> J
    BY TypesAre DEF IInv
  <2>2. IInv' <=> J'
    BY TypesAre DEF IInv
  <2> QED
    BY <2>1, <2>2
<1>1. ASSUME NEW d \in Deployments, NEW r \in Regions, Region(d, r)
      PROVE  J'
  BY <1>1, RegionStep, BookkeepingStep, FrameKeeps, RegionFile
<1>2. ASSUME NEW d \in Deployments, RunDeployment(d)
      PROVE  J'
  BY <1>2, DeploymentStep, DeploymentFile
<1>3. ASSUME NEW m \in Machines, DeployVM(m)
      PROVE  J'
  BY <1>3, MachineStep, MachineFile
<1>4. ASSUME NEW d \in Deployments, Exit(d) \/ ReturnWhenCanceled(d)
      PROVE  J'
  <2>1. Gone(d)
    BY <1>4 DEF Exit, ReturnWhenCanceled
  <2> QED
    BY <1>4, <2>1, GoneStep, GoneFile
<1>5. ASSUME NEW d \in Deployments, CompleteAfterKey(d)
      PROVE  J'
  BY <1>5, CompleteStep, CompleteFile DEF CompleteAfterKey
<1>6. CASE UNCHANGED vars
  <2>1. UNCHANGED <<phase, known, configVars, at, todo, victim, vm, net, inst, faults>>
    BY <1>6 DEF vars, commandVars, cleanUpVars, cloudVars
  <2>2. NetTypes' /\ Bookkeeping' /\ CommandTypes'
    BY <2>1 DEF NetTypes, Bookkeeping, CommandTypes
  <2>3. RegionInv' /\ PhaseInv'
    BY <2>1 DEF RegionInv, RegionState, PhaseInv
  <2>4. VMInv'
    BY <2>1 DEF VMInv, VMState
  <2>5. FileTypes' /\ FileInv'
    BY <2>1, QuietStep
  <2> QED
    BY <2>2, <2>3, <2>4, <2>5
<1> QED
  BY <1>1, <1>2, <1>3, <1>4, <1>5, <1>6 DEF Next

LEMMA Invariance == Spec => []IInv
BY InitInv, NextInv, PTL DEF Spec

------------------------------------------------------------------------------
(* The theorems. *)

\* Every variable of AWSDeployment has its type; a clean-up (cleanupAbandonedVPCs) never looks
\* beyond its last stage, and deals with VPCs of deployments only.
THEOREM AWSTyping == Spec => []TypeOK
<1>1. IInv => TypeOK
  BY DEF IInv
<1> QED
  BY <1>1, Invariance, PTL

\* For any number of commands, regions and faults, the file of a command is whole and lists
\* every network of it from the moment they are ready, and for as long as it has an instance:
\* regions lose each other's entries in viper and tear the file (deployment.go:484), but the
\* last of them to save has the file to itself (ConfigMutex, provider.go:1519).
THEOREM NetworksStayListed == Spec => []NetworksAreListed
<1>1. IInv => NetworksAreListed
  <2>1. Ready = {"connect", "vms", "ssh", "provision", "done", "ok"}
    BY DEF Ready, WithVMs
  <2> QED
    BY <2>1 DEF IInv, FileInv, FileState, Lists, HasInstance, NetworksAreListed
<1> QED
  BY <1>1, Invariance, PTL

\* deployVMsInParallel asks for no instance before every region of the deployment has its
\* network and was seen to be connected, whatever other commands clean up.
THEOREM InstancesAwaitNetworks == Spec => []InstancesAwaitAllNetworks
<1>1. IInv => InstancesAwaitAllNetworks
  BY DEF IInv, VMInv, VMState, InstancesAwaitAllNetworks
<1> QED
  BY <1>1, Invariance, PTL

\* ProvisionBacalhauCluster starts when every machine has an instance and no wait for SSH is
\* under way.
THEOREM ProvisioningAwaitsAll == Spec => []ProvisioningAwaitsEveryMachine
<1>1. IInv => ProvisioningAwaitsEveryMachine
  BY DEF IInv, VMInv, VMState, MachinesOf, ProvisioningAwaitsEveryMachine
<1> QED
  BY <1>1, Invariance, PTL

\* runDeployment does not return, well or with an error, beside a goroutine that still
\* creates something.
THEOREM NothingCreatedLater == Spec => []NothingCreatedAfterReturn
<1>1. IInv => NothingCreatedAfterReturn
  <2> SUFFICES ASSUME IInv, NEW d \in Deployments,
                      phase[d] \in {"refused", "failed", "error", "done", "ok"}
               PROVE  /\ \A r \in RegionsOf(d) :
                           at[d][r] \in {"waiting", "ok", "connected", "failed"}
                      /\ \A m \in MachinesOf(d) : vm[m] # "boot"
    BY DEF NothingCreatedAfterReturn
  <2>1. \A r \in RegionsOf(d) : at[d][r] \in {"waiting", "ok", "connected", "failed"}
    BY RegionsOfAre DEF IInv, PhaseInv, WithVMs
  <2>2. \A m \in MachinesOf(d) : vm[m] # "boot"
    BY DEF IInv, VMInv, VMState, MachinesOf
  <2> QED  BY <2>1, <2>2
<1> QED
  BY <1>1, Invariance, PTL

\* handleDeploymentCompletion leaves in the file every VPC of its own in which anything was
\* made, wherever its regions stopped.
THEOREM VPCsListedAtEnd == Spec => EndListsVPCs
<1> DEFINE Listing ==
      \A d \in Deployments, r \in Regions :
        /\ phase[d] \in {"done", "refused", "failed"} /\ phase'[d] \in {"ok", "error"}
        /\ "vpc" \in net[d][r] /\ net[d][r] # {"vpc"}
        => r \in file'[d]
<1>1. IInv /\ [Next]_vars => [Listing]_vars
  <2> SUFFICES ASSUME IInv, Next, NEW d \in Deployments, NEW r \in Regions,
                      phase[d] \in {"done", "refused", "failed"}, phase'[d] \in {"ok", "error"},
                      "vpc" \in net[d][r], net[d][r] # {"vpc"}
               PROVE  r \in file'[d]
    OBVIOUS
  <2>1. r \in known[d]
    BY DEF IInv, RegionInv, RegionState
  <2>2. Complete(d)
    <3>1. phase'[d] # phase[d] /\ phase \in [Deployments -> Phases]
      BY TypesAre DEF IInv, CommandTypes
    <3>2. ASSUME NEW e \in Deployments, NEW q \in Regions, Region(e, q)
          PROVE  FALSE
      BY <3>1, <3>2, RegionStep, TypesAre DEF IInv, Frame
    <3>3. ASSUME NEW m \in Machines, DeployVM(m)
          PROVE  FALSE
      BY <3>1, <3>3, MachinesAssumption
         DEF DeployVM, RunInstances, InstanceRunning, StartSSHWait, WaitForSSH, commandVars
    <3>4. ASSUME NEW e \in Deployments, Exit(e) \/ ReturnWhenCanceled(e)
          PROVE  FALSE
      BY <3>1, <3>4 DEF Exit, ReturnWhenCanceled, Gone
    <3>5. ASSUME NEW e \in Deployments, e # d, Complete(e)
          PROVE  FALSE
      BY <3>1, <3>5 DEF Complete
    <3>6. ASSUME NEW e \in Deployments, RunDeployment(e), ~HandleDeploymentCompletion(e)
          PROVE  FALSE
      BY <3>1, <3>6 DEF RunDeployment, CreateInfrastructure, RegionsReturn,
         ConnectivityReturns, DeployVMsInParallel, AllTried, ProvisionBacalhauCluster
    <3>7. ~UNCHANGED vars
      BY <3>1 DEF vars, commandVars
    <3> QED
      BY <3>2, <3>3, <3>4, <3>5, <3>6, <3>7
         DEF Next, HandleDeploymentCompletion, CompleteAfterKey
  <2> QED
    BY <2>1, <2>2 DEF Complete, IInv, TypeOK
<1> QED
  BY <1>1, Invariance, PTL DEF Spec, EndListsVPCs
=============================================================================
