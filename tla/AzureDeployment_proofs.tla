------------------------ MODULE AzureDeployment_proofs ------------------------
(***************************************************************************)
(* Theorems about AzureDeployment: types, the choice of the orchestrator,  *)
(* the resource group's record, the end of CreateResources, and what a     *)
(* machine that is up stands for.  A machine's goroutine, the regions and  *)
(* the command, the polling, the cloud and the end of the process are      *)
(* treated in turn.                                                        *)
(***************************************************************************)
EXTENDS AzureDeployment, FiniteSetTheorems, TLAPS

------------------------------------------------------------------------------
(* The configured machines. *)

\* The special addresses differ from each other.
LEMMA AddressesDiffer ==
  /\ NoAddress # Placeholder /\ NoAddress # TestInterface /\ Placeholder # TestInterface
  /\ NoMachine \notin Machines /\ TestInterface \notin Machines
<1>1. ASSUME NEW a, NEW b, NEW c
      PROVE  Cardinality({a, b, c}) <= 3
  <2>1. IsFiniteSet({a}) /\ Cardinality({a}) = 1
    BY FS_Singleton
  <2>2. IsFiniteSet({a} \cup {b}) /\ Cardinality({a} \cup {b}) \in {1, 2}
    BY <2>1, FS_AddElement
  <2>3. Cardinality(({a} \cup {b}) \cup {c}) \in {1, 2, 3}
    BY <2>2, FS_AddElement
  <2>4. ({a} \cup {b}) \cup {c} = {a, b, c}
    OBVIOUS
  <2> QED  BY <2>3, <2>4
<1> DEFINE Four == {NoAddress, Placeholder, TestInterface, NoMachine}
<1>2. Cardinality(Four) = 4 /\ Four \cap Machines = {}
  BY AddressesAssumption
<1>3. ASSUME NEW a, NEW b, NEW c
      PROVE  Four # {a, b, c}
  <2> HIDE DEF Four
  <2> SUFFICES ASSUME Four = {a, b, c}  PROVE FALSE
    OBVIOUS
  <2>1. Cardinality({a, b, c}) <= 3
    BY <1>1
  <2>2. Cardinality({a, b, c}) = 4
    BY <1>2
  <2> QED  BY <2>1, <2>2
<1>4. NoAddress # Placeholder
  <2>1. Four # {Placeholder, TestInterface, NoMachine}
    BY <1>3
  <2> QED  BY <2>1
<1>5. NoAddress # TestInterface
  <2>1. Four # {Placeholder, TestInterface, NoMachine}
    BY <1>3
  <2> QED  BY <2>1
<1>6. Placeholder # TestInterface
  <2>1. Four # {NoAddress, TestInterface, NoMachine}
    BY <1>3
  <2> QED  BY <2>1
<1> QED
  BY <1>2, <1>4, <1>5, <1>6

\* A configured machine is a machine, and its entry names a location.
LEMMA ConfiguredAre ==
  ASSUME NEW c \in Configurations
  PROVE  /\ ConfiguredMachines(c) \subseteq Machines
         /\ \A m \in ConfiguredMachines(c) : LocationOf(c, m) \in Locations
<1>1. ConfiguredMachines(c) \subseteq Machines
  BY DEF Machines
<1>2. ASSUME NEW m \in ConfiguredMachines(c)
      PROVE  LocationOf(c, m) \in Locations
  <2>1. PICK i \in DOMAIN c : \E k \in 1..CountOfMachines(c[i]) : m = <<i, k>>
    BY DEF ConfiguredMachines
  <2>2. LocationOf(c, m) = c[i].location
    BY <2>1 DEF LocationOf
  <2> QED
    BY <2>1, <2>2 DEF Locations
<1> QED
  BY <1>1, <1>2

\* A list of entries none of which has a negative count.
NaturalCounts(entries) == \A i \in DOMAIN entries : entries[i].count \in Nat

\* Of such a list that is not refused, ProcessMachinesConfig makes one orchestrator: the
\* function that counts the flagged machines and the one that makes them agree.
LEMMA OneIsChosen ==
  ASSUME NEW c, NaturalCounts(c), ~Refused(c), NEW chosen \in OrchestratorChoices(c)
  PROVE  Cardinality(chosen) = 1
<1>1. ASSUME NEW m \in Flagged(c)
      PROVE  \A n \in Flagged(c) : n = m
  <2> SUFFICES ASSUME NEW n \in Flagged(c)  PROVE n = m
    OBVIOUS
  <2>1. PICK i \in DOMAIN c : \E k \in 1..CountOfMachines(c[i]) : m = <<i, k>>
    BY DEF Flagged, ConfiguredMachines
  <2>2. PICK j \in DOMAIN c : \E l \in 1..CountOfMachines(c[j]) : n = <<j, l>>
    BY DEF Flagged, ConfiguredMachines
  <2>3. c[i].orchestrator /\ c[j].orchestrator
    BY <2>1, <2>2 DEF Flagged
  <2>4. ASSUME NEW e \in DOMAIN c, c[e].orchestrator
        PROVE  /\ OrchestratorsCounted(c[e]) = CountOfMachines(c[e])
               /\ CountOfMachines(c[e]) \in Nat /\ CountOfMachines(c[e]) > 0
    BY <2>4, DefaultCountAssumption DEF NaturalCounts, OrchestratorsCounted, CountOfMachines
  <2>5. i = j
    BY <2>3, <2>4 DEF Refused, SeveralOrchestrators
  <2>6. CountOfMachines(c[i]) = 1
    BY <2>3, <2>4 DEF Refused, SeveralOrchestrators
  <2> QED
    BY <2>1, <2>2, <2>5, <2>6
<1>2. CASE Flagged(c) # {}
  <2>1. PICK m : m \in Flagged(c)
    BY <1>2
  <2>2. chosen = {m}
    BY <1>1, <1>2, <2>1 DEF OrchestratorChoices
  <2> QED
    BY <2>2, FS_Singleton
<1>3. CASE Flagged(c) = {}
  BY <1>3, FS_Singleton DEF OrchestratorChoices
<1> QED
  BY <1>2, <1>3

------------------------------------------------------------------------------
(* The invariant. *)

\* The points at which a machine's goroutine is at work.
Busy == {"template", "poll", "addresses", "load", "store", "ssh"}
\* The points behind GetVMIPAddresses.
Addressed == {"load", "store", "ssh", "up", "failed"}
\* The phases without a template, and those behind CreateResources' return without error.
Preparing == {"configure", "group", "write"}
AllUp == {"record", "recording", "ok"}

\* Who is the orchestrator has been decided, once for all.
OrchestratorInv ==
  phase \notin {"configure", "error", "exited"} =>
    ~Refused(config) /\ orchestrators \in OrchestratorChoices(config)

\* The group, in viper and in the file, by the phase.
GroupInv ==
  /\ phase \in Preparing => \A m \in Machines : template[m] = "none"
  /\ phase = "write" => groupKnown
  /\ phase \in {"create"} \cup AllUp => groupKnown /\ file.group
  /\ phase = "failed" => groupKnown \/ \A m \in Machines : template[m] = "none"
  /\ \A m \in Machines : template[m] # "none" => file.group

\* Where a machine's goroutine is, by the phase and its region; in a region one machine at
\* a time is worked on.
RegionInv ==
  \A m \in Machines :
    /\ pc[m] \in Busy =>
         /\ phase = "create" /\ m \in ConfiguredMachines(config)
         /\ region[LocationOf(config, m)] = "running"
         /\ \A n \in ConfiguredMachines(config) :
              LocationOf(config, n) = LocationOf(config, m) /\ pc[n] \in Busy => n = m
    /\ m \in ConfiguredMachines(config) =>
         /\ region[LocationOf(config, m)] = "ok" => pc[m] = "up"
         /\ phase \in AllUp => pc[m] = "up"

\* What the steps behind a machine's goroutine have established.
MachineInv ==
  \A m \in Machines :
    /\ publicIP[m] \in {NoAddress, Placeholder, TestInterface}
    /\ pc[m] = "addresses" => template[m] = "Succeeded"
    /\ publicIP[m] = TestInterface =>
         template[m] = "Succeeded" /\ testInterface /\ pc[m] \in Addressed
    /\ pc[m] = "up" <=> ssh[m] = "Succeeded"
    /\ ssh[m] = "Succeeded" => publicIP[m] \in {TestInterface, NoAddress}

\* What a step holds between reading and writing.
HoldInv ==
  /\ \A m \in Machines : pc[m] = "store" => holds[m] \in Machines
  /\ phase = "recording" => records \in Machines
  /\ pollPc = "set" => held \in Machines \X ResourceStates

\* The conjuncts of TypeOK, by what a step of one goroutine changes together.
Phases == {"configure", "group", "write", "create", "record", "recording",
           "ok", "failed", "error", "exited"}
RegionStates == {"waiting", "running", "ok", "failed"}
MachineSteps == Busy \cup {"queued", "up", "failed"}
SSHStates == {"NotStarted", "Updating", "Succeeded", "Failed"}
TemplateStates == {"none", "running", "Succeeded", "Failed", "conflict"}
Counts == 1..TemplateRetries \cup 1..IPRetries
MachineSets == SUBSET Machines
Holders == Machines \cup {NoMachine}
Files == [group : BOOLEAN, machines : MachineSets]
Resources == Machines \X ResourceStates

CommandTypes ==
  /\ config \in Configurations /\ orchestrators \in MachineSets /\ phase \in Phases
  /\ groupKnown \in BOOLEAN /\ file \in Files
  /\ group \in BOOLEAN /\ testInterface \in BOOLEAN

ProgressTypes ==
  /\ region \in [Locations -> RegionStates]
  /\ pc \in [Machines -> MachineSteps] /\ attempt \in [Machines -> Counts]
  /\ template \in [Machines -> TemplateStates]

ServiceTypes ==
  /\ publicIP \in [Machines -> Addresses]
  /\ vmResource \in [Machines -> ResourceStates]
  /\ ssh \in [Machines -> SSHStates]

RecordTypes ==
  /\ holds \in [Machines -> Holders] /\ contents \in [Machines -> MachineSets]
  /\ records \in Holders

PollTypes ==
  /\ pollPc \in {"waiting", "convert", "set", "ended"}
  /\ toConvert \in SUBSET ({1, 2} \X Resources)
  /\ held \in Resources \cup {Nothing}

Types == CommandTypes /\ ProgressTypes /\ ServiceTypes /\ RecordTypes /\ PollTypes

LEMMA TypesAre == (TypeOK <=> Types) /\ (TypeOK' <=> Types')
<1>1. MachineSteps = {"queued", "template", "poll", "addresses", "load", "store",
                      "ssh", "up", "failed"}
  BY DEF MachineSteps, Busy
<1> QED
  BY <1>1 DEF TypeOK, Types, CommandTypes, ProgressTypes, ServiceTypes, RecordTypes,
     PollTypes, Phases, RegionStates, SSHStates, TemplateStates, Counts, MachineSets,
     Holders, Files, Resources

IInv ==
  Types /\ OrchestratorInv /\ GroupInv /\ RegionInv /\ MachineInv /\ HoldInv

------------------------------------------------------------------------------
(* Steps of a machine's goroutine. *)

\* What they leave alone: all but one machine, one region's error and the records.
CommandFrame ==
  /\ UNCHANGED <<config, orchestrators, phase, groupKnown, file, group, testInterface>>
  /\ UNCHANGED pollVars

MachineFrame(m) ==
  \A n \in Machines \ {m} :
    /\ pc'[n] = pc[n] /\ publicIP'[n] = publicIP[n] /\ ssh'[n] = ssh[n]
    /\ template'[n] = template[n] /\ holds'[n] = holds[n]

\* The machine goes from one point to another, and takes its region along when it fails.
MachineMoves(m) ==
  /\ pc[m] \in Busy /\ pc'[m] \in Busy \cup {"up", "failed"}
  /\ \A r \in Locations :
       region'[r] = IF pc'[m] = "failed" /\ r = LocationOf(config, m)
                    THEN "failed" ELSE region[r]

\* The machine's conjunct of the invariant.
MachineState(m) ==
  /\ publicIP[m] \in {NoAddress, Placeholder, TestInterface}
  /\ pc[m] = "addresses" => template[m] = "Succeeded"
  /\ publicIP[m] = TestInterface =>
       template[m] = "Succeeded" /\ testInterface /\ pc[m] \in Addressed
  /\ pc[m] = "up" <=> ssh[m] = "Succeeded"
  /\ ssh[m] = "Succeeded" => publicIP[m] \in {TestInterface, NoAddress}

\* What a step of a machine does.
MachineEffect(m) ==
  /\ ProgressTypes' /\ ServiceTypes' /\ RecordTypes'
  /\ CommandFrame /\ MachineFrame(m) /\ MachineMoves(m)
  /\ MachineState(m)'
  /\ pc'[m] = "store" => holds'[m] \in Machines
  /\ template'[m] # template[m] => pc[m] = "template"

\* What both ways on do to the points of the goroutines and of the regions.
PointsMove(m) ==
  /\ region' \in [Locations -> RegionStates] /\ pc' \in [Machines -> MachineSteps]
  /\ \A n \in Machines \ {m} : pc'[n] = pc[n]
  /\ MachineMoves(m)

LEMMA FailsEffect ==
  ASSUME ProgressTypes, CommandTypes, NEW m \in Machines, pc[m] \in Busy, Fails(m)
  PROVE  PointsMove(m) /\ pc'[m] = "failed" /\ attempt' \in [Machines -> Counts]
<1>1. 1 \in Counts
  BY BoundsAssumption DEF Counts
<1>2. attempt' \in [Machines -> Counts]
  BY <1>1 DEF Fails, Counter, ProgressTypes
<1>3. region' \in [Locations -> RegionStates]
      /\ \A r \in Locations :
           region'[r] = IF r = LocationOf(config, m) THEN "failed" ELSE region[r]
  BY DEF Fails, ProgressTypes, RegionStates
<1>4. pc' \in [Machines -> MachineSteps] /\ pc'[m] = "failed"
      /\ \A n \in Machines \ {m} : pc'[n] = pc[n]
  BY DEF Fails, Goto, ProgressTypes, MachineSteps
<1> QED
  BY <1>2, <1>3, <1>4 DEF PointsMove, MachineMoves

LEMMA GotoEffect ==
  ASSUME ProgressTypes, NEW m \in Machines, pc[m] \in Busy, NEW s \in Busy \cup {"up"},
         Goto(m, s), UNCHANGED region
  PROVE  PointsMove(m) /\ pc'[m] = s
<1>1. pc' \in [Machines -> MachineSteps] /\ pc'[m] = s
      /\ \A n \in Machines \ {m} : pc'[n] = pc[n]
  BY DEF Goto, ProgressTypes, MachineSteps
<1> QED
  BY <1>1 DEF PointsMove, MachineMoves, ProgressTypes, Busy

LEMMA DeployTemplateStep ==
  ASSUME IInv, NEW m \in Machines, DeployTemplate(m)
  PROVE  MachineEffect(m)
<1> USE DEF IInv, Types
<1>1. pc[m] = "template" /\ CommandFrame /\ UNCHANGED <<publicIP, vmResource, ssh>>
      /\ UNCHANGED <<holds, contents, records>>
  BY DEF DeployTemplate, CommandFrame, deploymentVars, viperVars, pollVars
<1>2. template' \in [Machines -> TemplateStates]
      /\ \A n \in Machines \ {m} : template'[n] = template[n]
  <2>1. PICK t \in {template, [template EXCEPT ![m] = "running"]} : template' = t
    BY DEF DeployTemplate
  <2> QED
    BY <2>1 DEF ProgressTypes, TemplateStates
<1>3. PointsMove(m) /\ pc'[m] \in {"poll", "failed"} /\ attempt' \in [Machines -> Counts]
  <2>1. CASE Fails(m)
    BY <1>1, <2>1, FailsEffect DEF Busy
  <2>2. CASE Goto(m, "poll") /\ Continues /\ UNCHANGED attempt
    BY <1>1, <2>2, GotoEffect DEF Busy, Continues, ProgressTypes
  <2> QED
    BY <2>1, <2>2 DEF DeployTemplate
<1>4. publicIP[m] # TestInterface /\ ssh[m] # "Succeeded" /\ MachineState(m)
  BY <1>1 DEF MachineInv, Addressed, MachineState
<1>5. MachineState(m)'
  BY <1>1, <1>3, <1>4 DEF MachineState
<1> QED
  BY <1>1, <1>2, <1>3, <1>5
  DEF MachineEffect, MachineFrame, PointsMove, ProgressTypes, ServiceTypes, RecordTypes

LEMMA PollTemplateStep ==
  ASSUME IInv, NEW m \in Machines, PollTemplate(m)
  PROVE  MachineEffect(m)
<1> USE DEF IInv, Types
<1>1. pc[m] = "poll" /\ CommandFrame /\ UNCHANGED <<publicIP, vmResource, ssh>>
      /\ UNCHANGED <<holds, contents, records, template>>
  BY DEF PollTemplate, CommandFrame, deploymentVars, viperVars, pollVars, cloudVars
<1>2. /\ PointsMove(m) /\ attempt' \in [Machines -> Counts]
      /\ pc'[m] \in {"addresses", "template", "load", "failed"}
      /\ pc'[m] = "addresses" => template[m] = "Succeeded"
  <2>1. CASE Fails(m)
    BY <1>1, <2>1, FailsEffect DEF Busy
  <2>2. CASE template[m] = "Succeeded" /\ Goto(m, "addresses") /\ Counter(m, 1) /\ Continues
    <3>1. PointsMove(m) /\ pc'[m] = "addresses"
      BY <1>1, <2>2, GotoEffect DEF Busy, Continues
    <3> QED
      BY <2>2, <3>1, BoundsAssumption DEF Counter, Counts, ProgressTypes
  <2>3. CASE attempt[m] < TemplateRetries /\ Counter(m, attempt[m] + 1)
             /\ Goto(m, "template") /\ Continues
    <3>1. PointsMove(m) /\ pc'[m] = "template"
      BY <1>1, <2>3, GotoEffect DEF Busy, Continues
    <3> QED
      BY <2>3, <3>1, BoundsAssumption DEF Counter, Counts, ProgressTypes
  <2>4. CASE Counter(m, 1) /\ Goto(m, "load") /\ Continues
    <3>1. PointsMove(m) /\ pc'[m] = "load"
      BY <1>1, <2>4, GotoEffect DEF Busy, Continues
    <3> QED
      BY <2>4, <3>1, BoundsAssumption DEF Counter, Counts, ProgressTypes
  <2> QED
    BY <2>1, <2>2, <2>3, <2>4 DEF PollTemplate
<1>3. publicIP[m] # TestInterface /\ ssh[m] # "Succeeded" /\ MachineState(m)
  BY <1>1 DEF MachineInv, Addressed, MachineState
<1>4. MachineState(m)'
  BY <1>1, <1>2, <1>3 DEF MachineState
<1> QED
  BY <1>1, <1>2, <1>4
  DEF MachineEffect, MachineFrame, PointsMove, ProgressTypes, ServiceTypes, RecordTypes

LEMMA GetAddressesStep ==
  ASSUME IInv, NEW m \in Machines, GetAddresses(m)
  PROVE  MachineEffect(m)
<1> USE DEF IInv, Types
<1>1. pc[m] = "addresses" /\ CommandFrame /\ UNCHANGED <<region, ssh, holds, contents>>
      /\ UNCHANGED <<records, template>>
  BY DEF GetAddresses, CommandFrame, viperVars, pollVars, cloudVars, mainVars
<1>2. PointsMove(m) /\ pc'[m] = "load" /\ attempt' \in [Machines -> Counts]
  <2>1. PointsMove(m) /\ pc'[m] = "load"
    BY <1>1, GotoEffect DEF GetAddresses, Busy
  <2> QED
    BY <2>1, BoundsAssumption DEF GetAddresses, Counter, Counts, ProgressTypes
<1>3. PICK a \in {TestInterface, NoAddress} : publicIP' = [publicIP EXCEPT ![m] = a]
  BY DEF GetAddresses, InterfaceAskedFor
<1>4. publicIP' \in [Machines -> Addresses] /\ publicIP'[m] = a
      /\ \A n \in Machines \ {m} : publicIP'[n] = publicIP[n]
  BY <1>3 DEF ServiceTypes, Addresses, Interfaces
<1>5. vmResource' \in [Machines -> ResourceStates]
  BY DEF GetAddresses, ServiceTypes, ResourceStates
<1>6. testInterface
  BY AddressesDiffer DEF GetAddresses, InterfaceAskedFor, InterfacesPresent
<1>7. ssh[m] # "Succeeded" /\ template[m] = "Succeeded"
  BY <1>1 DEF MachineInv
<1>8. MachineState(m)'
  BY <1>1, <1>2, <1>4, <1>6, <1>7, AddressesDiffer DEF MachineState, CommandFrame, Addressed
<1> QED
  BY <1>1, <1>2, <1>4, <1>5, <1>8
  DEF MachineEffect, MachineFrame, PointsMove, ProgressTypes, ServiceTypes, RecordTypes

LEMMA GetAddressesFailsStep ==
  ASSUME IInv, NEW m \in Machines, GetAddressesFails(m)
  PROVE  MachineEffect(m)
<1> USE DEF IInv, Types
<1>1. pc[m] = "addresses" /\ CommandFrame /\ UNCHANGED <<ssh, holds, contents>>
      /\ UNCHANGED <<records, template, vmResource>>
  BY DEF GetAddressesFails, CommandFrame, viperVars, pollVars, cloudVars
<1>2. publicIP[m] # TestInterface /\ ssh[m] # "Succeeded" /\ template[m] = "Succeeded"
  BY <1>1 DEF MachineInv, Addressed
<1>3. CASE Fails(m) /\ UNCHANGED publicIP
  <2>1. PointsMove(m) /\ pc'[m] = "failed" /\ attempt' \in [Machines -> Counts]
    BY <1>1, <1>3, FailsEffect DEF Busy
  <2>2. MachineState(m)'
    BY <1>1, <1>2, <1>3, <2>1 DEF MachineState, MachineInv
  <2> QED
    BY <1>1, <1>3, <2>1, <2>2
    DEF MachineEffect, MachineFrame, PointsMove, ProgressTypes, ServiceTypes, RecordTypes
<1>4. CASE /\ attempt[m] < IPRetries /\ Counter(m, attempt[m] + 1)
           /\ publicIP' = [publicIP EXCEPT ![m] = Placeholder] /\ UNCHANGED <<region, pc>>
  <2>1. attempt' \in [Machines -> Counts]
    BY <1>4, BoundsAssumption DEF Counter, Counts, ProgressTypes
  <2>2. publicIP' \in [Machines -> Addresses] /\ publicIP'[m] = Placeholder
        /\ \A n \in Machines \ {m} : publicIP'[n] = publicIP[n]
    BY <1>4 DEF ServiceTypes, Addresses
  <2>3. MachineState(m)'
    BY <1>1, <1>2, <1>4, <2>2, AddressesDiffer DEF MachineState
  <2> QED
    BY <1>1, <1>4, <2>1, <2>2, <2>3
    DEF MachineEffect, MachineFrame, MachineMoves, ProgressTypes, ServiceTypes,
       RecordTypes, Busy
<1> QED
  BY <1>3, <1>4 DEF GetAddressesFails, Continues

LEMMA LoadRecordsStep ==
  ASSUME IInv, NEW m \in Machines, LoadRecords(m)
  PROVE  MachineEffect(m)
<1> USE DEF IInv, Types
<1>1. pc[m] = "load" /\ CommandFrame /\ UNCHANGED <<ssh, publicIP, region, attempt>>
      /\ UNCHANGED <<records, template, contents>>
  BY DEF LoadRecords, CommandFrame, mainVars, pollVars, cloudVars
<1>2. PointsMove(m) /\ pc'[m] = "store"
  BY <1>1, GotoEffect DEF LoadRecords, Busy
<1>3. vmResource' \in [Machines -> ResourceStates]
  BY DEF LoadRecords, ServiceTypes, ResourceStates
<1>4. holds' \in [Machines -> Holders] /\ holds'[m] \in Machines
      /\ \A n \in Machines \ {m} : holds'[n] = holds[n]
  <2>1. PICK h \in Machines : holds' = [holds EXCEPT ![m] = h]
    BY DEF LoadRecords, RecordTypes, Holders
  <2> QED
    BY <2>1 DEF RecordTypes, Holders
<1>5. MachineState(m)'
  BY <1>1, <1>2 DEF MachineState, MachineInv, CommandFrame, Addressed
<1> QED
  BY <1>1, <1>2, <1>3, <1>4, <1>5
  DEF MachineEffect, MachineFrame, PointsMove, ProgressTypes, ServiceTypes, RecordTypes

LEMMA StoreRecordsStep ==
  ASSUME IInv, NEW m \in Machines, StoreRecords(m)
  PROVE  MachineEffect(m)
<1> USE DEF IInv, Types
<1>1. pc[m] = "store" /\ CommandFrame /\ UNCHANGED <<publicIP, vmResource, region, attempt>>
      /\ UNCHANGED template /\ holds[m] \in Machines
  BY DEF StoreRecords, CommandFrame, mainVars, pollVars, cloudVars, HoldInv
<1>2. PointsMove(m) /\ pc'[m] = "ssh"
  BY <1>1, GotoEffect DEF StoreRecords, Busy
<1>3. ssh' \in [Machines -> SSHStates] /\ ssh'[m] = "Updating"
      /\ \A n \in Machines \ {m} : ssh'[n] = ssh[n]
  BY DEF StoreRecords, ServiceTypes, SSHStates
<1>4. holds' \in [Machines -> Holders] /\ records' \in Holders
      /\ \A n \in Machines \ {m} : holds'[n] = holds[n]
  BY <1>1 DEF StoreRecords, RecordTypes, Holders
<1>5. contents' \in [Machines -> MachineSets]
  <2>1. contents' = [contents EXCEPT ![holds[m]] = contents[holds[m]] \cup {m}]
    BY DEF StoreRecords
  <2>2. contents[holds[m]] \cup {m} \in MachineSets
    BY <1>1 DEF RecordTypes, MachineSets
  <2> QED
    BY <2>1, <2>2 DEF RecordTypes
<1>6. MachineState(m)'
  BY <1>1, <1>2, <1>3 DEF MachineState, MachineInv, CommandFrame, Addressed
<1> QED
  BY <1>1, <1>2, <1>3, <1>4, <1>5, <1>6
  DEF MachineEffect, MachineFrame, PointsMove, ProgressTypes, ServiceTypes, RecordTypes

LEMMA WaitForSSHStep ==
  ASSUME IInv, NEW m \in Machines, WaitForSSH(m)
  PROVE  MachineEffect(m)
<1> USE DEF IInv, Types
<1>1. pc[m] = "ssh" /\ CommandFrame /\ UNCHANGED <<publicIP, vmResource, region, attempt>>
      /\ UNCHANGED <<template, holds, contents, records>>
  BY DEF WaitForSSH, CommandFrame, mainVars, pollVars, cloudVars, viperVars
<1>2. PointsMove(m) /\ pc'[m] = "up"
  BY <1>1, GotoEffect DEF WaitForSSH, Busy
<1>3. ssh' \in [Machines -> SSHStates] /\ ssh'[m] = "Succeeded"
      /\ \A n \in Machines \ {m} : ssh'[n] = ssh[n]
  BY DEF WaitForSSH, ServiceTypes, SSHStates
<1>4. publicIP[m] \in {TestInterface, NoAddress}
  BY AddressesAssumption
  DEF WaitForSSH, Reachable, InterfacesPresent, MachineInv
<1>5. MachineState(m)'
  BY <1>1, <1>2, <1>3, <1>4 DEF MachineState, MachineInv, CommandFrame, Addressed
<1> QED
  BY <1>1, <1>2, <1>3, <1>5
  DEF MachineEffect, MachineFrame, PointsMove, ProgressTypes, ServiceTypes, RecordTypes

LEMMA WaitForSSHFailsStep ==
  ASSUME IInv, NEW m \in Machines, WaitForSSHFails(m)
  PROVE  MachineEffect(m)
<1> USE DEF IInv, Types
<1>1. pc[m] = "ssh" /\ CommandFrame /\ UNCHANGED <<publicIP, vmResource>>
      /\ UNCHANGED <<template, holds, contents, records>>
  BY DEF WaitForSSHFails, CommandFrame, pollVars, cloudVars, viperVars
<1>2. PointsMove(m) /\ pc'[m] = "failed" /\ attempt' \in [Machines -> Counts]
  BY <1>1, FailsEffect DEF WaitForSSHFails, Busy
<1>3. ssh[m] # "Succeeded"
  BY <1>1 DEF MachineInv
<1>4. ssh' \in [Machines -> SSHStates] /\ ssh'[m] # "Succeeded"
      /\ \A n \in Machines \ {m} : ssh'[n] = ssh[n]
  <2>1. CASE ssh' = ssh
    BY <1>3, <2>1 DEF ServiceTypes
  <2>2. CASE ssh' = [ssh EXCEPT ![m] = "Failed"]
    BY <2>2 DEF ServiceTypes, SSHStates
  <2> QED
    BY <2>1, <2>2 DEF WaitForSSHFails
<1>5. MachineState(m)'
  BY <1>1, <1>2, <1>4 DEF MachineState, MachineInv, CommandFrame, Addressed
<1> QED
  BY <1>1, <1>2, <1>4, <1>5
  DEF MachineEffect, MachineFrame, PointsMove, ProgressTypes, ServiceTypes, RecordTypes

LEMMA DeployMachineStep ==
  ASSUME IInv, NEW m \in Machines, DeployMachine(m)
  PROVE  MachineEffect(m)
BY DeployTemplateStep, PollTemplateStep, GetAddressesStep, GetAddressesFailsStep,
   LoadRecordsStep, StoreRecordsStep, WaitForSSHStep, WaitForSSHFailsStep
DEF DeployMachine

LEMMA MachineStepInv ==
  ASSUME IInv, NEW m \in Machines, MachineEffect(m)
  PROVE  IInv'
<1> USE DEF IInv
<1> DEFINE r == LocationOf(config, m)
           Here == ConfiguredMachines(config)
<1>1. /\ pc[m] \in Busy /\ pc'[m] \in Busy \cup {"up", "failed"}
      /\ phase = "create" /\ m \in Here /\ region[r] = "running"
      /\ UNCHANGED <<config, orchestrators, phase, groupKnown, file, group, testInterface>>
      /\ UNCHANGED pollVars
  BY DEF MachineEffect, MachineMoves, CommandFrame, RegionInv
<1>2. Types'
  BY <1>1 DEF Types, MachineEffect, CommandTypes, PollTypes, pollVars
<1>3. OrchestratorInv'
  BY <1>1 DEF OrchestratorInv
<1>4. GroupInv'
  BY <1>1 DEF GroupInv, AllUp, Preparing
<1>5. RegionInv'
  <2>1. Here' = Here /\ \A n \in Here : LocationOf(config, n)' = LocationOf(config, n)
    BY <1>1
  <2>2. Here \subseteq Machines /\ \A n \in Here : LocationOf(config, n) \in Locations
    BY ConfiguredAre DEF Types, CommandTypes
  <2>3. \A q \in Locations :
          region'[q] = IF pc'[m] = "failed" /\ q = r THEN "failed" ELSE region[q]
    BY DEF MachineEffect, MachineMoves
  <2>4. \A n \in Machines \ {m} : pc'[n] = pc[n]
    BY DEF MachineEffect, MachineFrame
  <2>5. \A n \in Here \ {m} : LocationOf(config, n) = r => pc[n] \notin Busy
    BY <1>1, <2>2 DEF RegionInv
  <2> HIDE DEF r, Here
  <2> SUFFICES ASSUME NEW n \in Machines
               PROVE  /\ pc'[n] \in Busy =>
                           /\ phase = "create" /\ n \in Here
                           /\ region'[LocationOf(config, n)] = "running"
                           /\ \A o \in Here :
                                LocationOf(config, o) = LocationOf(config, n)
                                  /\ pc'[o] \in Busy => o = n
                      /\ n \in Here /\ region'[LocationOf(config, n)] = "ok" => pc'[n] = "up"
    BY <1>1, <2>1 DEF RegionInv, AllUp, r, Here
  <2>6. CASE n = m
    BY <1>1, <2>2, <2>3, <2>4, <2>5, <2>6 DEF r, Busy
  <2>7. CASE n # m /\ pc[n] \in Busy
    <3>1. n \in Here /\ region[LocationOf(config, n)] = "running"
          /\ LocationOf(config, n) # r
          /\ \A o \in Here :
               LocationOf(config, o) = LocationOf(config, n) /\ pc[o] \in Busy => o = n
      BY <2>5, <2>7 DEF RegionInv, r, Here
    <3> QED
      BY <1>1, <2>2, <2>3, <2>4, <2>7, <3>1 DEF r
  <2>8. CASE n # m /\ pc[n] \notin Busy
    <3>1. n \in Here /\ region[LocationOf(config, n)] = "ok" => pc[n] = "up"
      BY DEF RegionInv, Here
    <3> QED
      BY <2>2, <2>3, <2>4, <2>8, <3>1 DEF Busy
  <2> QED
    BY <2>6, <2>7, <2>8
<1>6. MachineInv'
  <2> SUFFICES ASSUME NEW n \in Machines  PROVE MachineState(n)'
    BY DEF MachineInv, MachineState
  <2>1. CASE n = m
    BY <2>1 DEF MachineEffect
  <2>2. CASE n # m
    BY <1>1, <2>2 DEF MachineEffect, MachineFrame, MachineInv, MachineState
  <2> QED
    BY <2>1, <2>2
<1>7. HoldInv'
  BY <1>1 DEF HoldInv, MachineEffect, MachineFrame, pollVars
<1> QED
  BY <1>2, <1>3, <1>4, <1>5, <1>6, <1>7

------------------------------------------------------------------------------
(* Steps of the command and of the regions. *)

LEMMA PrepareDeploymentInv ==
  ASSUME IInv, PrepareDeployment
  PROVE  IInv'
<1> USE DEF IInv, Types
<1>1. /\ phase = "configure" /\ phase' \in {"error", "group"}
      /\ UNCHANGED <<config, publicIP, vmResource, ssh, region>>
      /\ UNCHANGED <<machineVars, viperVars, cloudVars, pollVars>>
  BY DEF PrepareDeployment
<1>2. orchestrators' \in MachineSets
  <2>1. CASE orchestrators' = orchestrators
    BY <2>1 DEF CommandTypes
  <2>2. CASE orchestrators' \in OrchestratorChoices(config)
    BY <2>2, ConfiguredAre
    DEF OrchestratorChoices, Flagged, CommandTypes, MachineSets
  <2> QED
    BY <2>1, <2>2 DEF PrepareDeployment
<1>3. Types'
  BY <1>1, <1>2 DEF CommandTypes, ProgressTypes, ServiceTypes, RecordTypes, PollTypes,
     machineVars, viperVars, cloudVars, pollVars, Phases
<1>4. OrchestratorInv'
  BY <1>1 DEF OrchestratorInv, PrepareDeployment
<1>5. GroupInv'
  BY <1>1 DEF GroupInv, Preparing, AllUp, viperVars, cloudVars
<1>6. RegionInv'
  BY <1>1 DEF RegionInv, AllUp, machineVars
<1>7. MachineInv'
  BY <1>1 DEF MachineInv, machineVars, cloudVars
<1>8. HoldInv'
  BY <1>1 DEF HoldInv, machineVars, viperVars, pollVars
<1> QED
  BY <1>3, <1>4, <1>5, <1>6, <1>7, <1>8

LEMMA PrepareResourceGroupInv ==
  ASSUME IInv, PrepareResourceGroup
  PROVE  IInv'
<1> USE DEF IInv, Types
<1>1. /\ phase = "group" /\ phase' \in {"write", "failed"}
      /\ group' \in BOOLEAN /\ groupKnown' \in BOOLEAN
      /\ phase' = "write" => groupKnown'
      /\ UNCHANGED <<deploymentVars, region, machineVars>>
      /\ UNCHANGED <<holds, contents, records, file, template, testInterface, pollVars>>
  BY DEF PrepareResourceGroup, CommandTypes
<1>2. Types'
  BY <1>1 DEF CommandTypes, ProgressTypes, ServiceTypes, RecordTypes, PollTypes,
     deploymentVars, machineVars, pollVars, Phases
<1>3. OrchestratorInv'
  BY <1>1 DEF OrchestratorInv, deploymentVars
<1>4. GroupInv'
  BY <1>1 DEF GroupInv, Preparing, AllUp
<1>5. RegionInv'
  BY <1>1 DEF RegionInv, AllUp, machineVars, deploymentVars
<1>6. MachineInv'
  BY <1>1 DEF MachineInv, machineVars, deploymentVars
<1>7. HoldInv'
  BY <1>1 DEF HoldInv, machineVars, pollVars
<1> QED
  BY <1>2, <1>3, <1>4, <1>5, <1>6, <1>7

LEMMA InMemoryIsFile ==
  ASSUME Types
  PROVE  InMemory \in Files /\ InMemory.group = groupKnown
BY DEF InMemory, Files, Types, RecordTypes, CommandTypes, Holders, MachineSets

\* The two writes of the file that are not updateMachineConfig's.
LEMMA WriteInv ==
  ASSUME IInv, WriteConfig \/ HandleDeploymentCompletion
  PROVE  IInv'
<1> USE DEF IInv, Types
<1>1. /\ file' \in Files /\ file'.group = groupKnown
      /\ \/ phase = "write" /\ phase' = "create"
         \/ phase = "failed" /\ phase' = "error"
      /\ UNCHANGED <<deploymentVars, region, machineVars>>
      /\ UNCHANGED <<holds, contents, records, groupKnown, cloudVars, pollVars>>
  BY InMemoryIsFile DEF WriteConfig, HandleDeploymentCompletion
<1>2. Types'
  BY <1>1 DEF CommandTypes, ProgressTypes, ServiceTypes, RecordTypes, PollTypes,
     deploymentVars, machineVars, cloudVars, pollVars, Phases
<1>3. OrchestratorInv'
  BY <1>1 DEF OrchestratorInv, deploymentVars
<1>4. GroupInv'
  BY <1>1 DEF GroupInv, Preparing, AllUp, cloudVars
<1>5. RegionInv'
  BY <1>1 DEF RegionInv, AllUp, machineVars, deploymentVars
<1>6. MachineInv'
  BY <1>1 DEF MachineInv, machineVars, deploymentVars, cloudVars
<1>7. HoldInv'
  BY <1>1 DEF HoldInv, machineVars, pollVars
<1> QED
  BY <1>2, <1>3, <1>4, <1>5, <1>6, <1>7

LEMMA UpdateMachineConfigInv ==
  ASSUME IInv, NEW m \in Machines, UpdateMachineConfig(m)
  PROVE  IInv'
<1> USE DEF IInv, Types
<1>1. /\ phase \in {"record", "recording"} /\ phase' \in {"ok", "recording"}
      /\ file' = [group |-> groupKnown, machines |-> contents'[records']]
      /\ UNCHANGED <<deploymentVars, region, machineVars>>
      /\ UNCHANGED <<holds, groupKnown, cloudVars, pollVars>>
  BY DEF UpdateMachineConfig
<1>2. contents' \in [Machines -> MachineSets] /\ records' \in Machines
  <2>1. CASE phase = "record"
    <3>1. records' = m /\ contents' = [contents EXCEPT ![m] = {m}]
      BY <2>1 DEF UpdateMachineConfig
    <3> QED  BY <3>1 DEF RecordTypes, MachineSets
  <2>2. CASE phase = "recording"
    <3>1. records' = records /\ records \in Machines
          /\ contents' = [contents EXCEPT ![records] = contents[records] \cup {m}]
      BY <2>2 DEF UpdateMachineConfig, HoldInv
    <3>2. contents[records] \cup {m} \in MachineSets
      BY <3>1 DEF RecordTypes, MachineSets
    <3> QED  BY <3>1, <3>2 DEF RecordTypes
  <2> QED
    BY <1>1, <2>1, <2>2
<1>3. file' \in Files /\ file'.group = groupKnown
  BY <1>1, <1>2 DEF Files, CommandTypes
<1>4. Types'
  BY <1>1, <1>2, <1>3 DEF CommandTypes, ProgressTypes, ServiceTypes, RecordTypes, PollTypes,
     deploymentVars, machineVars, cloudVars, pollVars, Phases, Holders
<1>5. OrchestratorInv'
  BY <1>1 DEF OrchestratorInv, deploymentVars
<1>6. GroupInv'
  BY <1>1, <1>3 DEF GroupInv, Preparing, AllUp, cloudVars
<1>7. RegionInv'
  BY <1>1 DEF RegionInv, AllUp, machineVars, deploymentVars
<1>8. MachineInv'
  BY <1>1 DEF MachineInv, machineVars, deploymentVars, cloudVars
<1>9. HoldInv'
  BY <1>1, <1>2 DEF HoldInv, machineVars, pollVars
<1> QED
  BY <1>4, <1>5, <1>6, <1>7, <1>8, <1>9

LEMMA CreateResourcesInv ==
  ASSUME IInv, CreateResources
  PROVE  IInv'
<1> USE DEF IInv, Types
<1> DEFINE Here == ConfiguredMachines(config)
<1>1. /\ phase = "create" /\ GetMachines = Here
      /\ UNCHANGED <<deploymentVars, attempt, viperVars, cloudVars, pollVars>>
  BY DEF CreateResources, WaitForRegions, StartRegion, NextMachine, machineVars, GetMachines
<1>2. Here \subseteq Machines /\ \A n \in Here : LocationOf(config, n) \in Locations
  BY ConfiguredAre DEF CommandTypes
<1>3. ASSUME ProgressTypes', phase' \in {"create", "record", "failed"}, RegionInv',
             \A n \in Machines : pc'[n] = pc[n] \/ (pc[n] = "queued" /\ pc'[n] = "template")
      PROVE  IInv'
  <2>1. Types'
    BY <1>1, <1>3 DEF CommandTypes, ProgressTypes, ServiceTypes, RecordTypes, PollTypes,
       deploymentVars, viperVars, cloudVars, pollVars, Phases
  <2>2. OrchestratorInv'
    BY <1>1, <1>3 DEF OrchestratorInv, deploymentVars
  <2>3. GroupInv'
    BY <1>1, <1>3 DEF GroupInv, Preparing, AllUp, cloudVars, viperVars
  <2>4. MachineInv'
    BY <1>1, <1>3 DEF MachineInv, deploymentVars, cloudVars, Addressed
  <2>5. HoldInv'
    BY <1>1, <1>3 DEF HoldInv, pollVars, viperVars
  <2> QED
    BY <1>3, <2>1, <2>2, <2>3, <2>4, <2>5
<1>4. CASE WaitForRegions
  <2>1. /\ UNCHANGED <<region, pc, config>> /\ phase' \in {"record", "failed"}
        /\ \A r \in Regions : region[r] \in {"ok", "failed"}
        /\ phase' = "record" => \A r \in Regions : region[r] = "ok"
    BY <1>4 DEF WaitForRegions, machineVars, deploymentVars
  <2>2. \A n \in Here : LocationOf(config, n) \in Regions
    BY <1>1 DEF Regions
  <2>3. \A n \in Machines : pc[n] \notin Busy
    BY <2>1, <2>2 DEF RegionInv
  <2>4. phase' = "record" => \A n \in Here : pc[n] = "up"
    BY <1>2, <2>1, <2>2 DEF RegionInv
  <2>5. RegionInv'
    BY <2>1, <2>3, <2>4 DEF RegionInv, AllUp
  <2>6. ProgressTypes'
    BY <1>1, <2>1 DEF ProgressTypes, cloudVars
  <2> QED
    BY <1>3, <2>1, <2>5, <2>6
<1>5. ASSUME NEW r \in Locations, StartRegion(r)
      PROVE  IInv'
  <2>1. /\ UNCHANGED <<phase, pc, config>> /\ region[r] = "waiting"
        /\ region' = [region EXCEPT ![r] = "running"]
    BY <1>5 DEF StartRegion, machineVars, deploymentVars
  <2>2. region' \in [Locations -> RegionStates] /\ region'[r] = "running"
        /\ \A q \in Locations \ {r} : region'[q] = region[q]
    BY <2>1 DEF ProgressTypes, RegionStates
  <2>3. RegionInv'
    BY <1>1, <1>2, <2>1, <2>2 DEF RegionInv, AllUp
  <2>4. ProgressTypes'
    BY <1>1, <2>1, <2>2 DEF ProgressTypes, cloudVars
  <2> QED
    BY <1>1, <1>3, <2>1, <2>3, <2>4
<1>6. ASSUME NEW r \in Locations, NextMachine(r)
      PROVE  IInv'
  <2>1. /\ UNCHANGED <<phase, config>> /\ region[r] = "running"
        /\ \A n \in Here : LocationOf(config, n) = r => pc[n] \in {"queued", "up"}
    BY <1>1, <1>6 DEF NextMachine, deploymentVars, MachinesIn
  <2>2. ASSUME NEW m \in Here, LocationOf(config, m) = r, pc[m] = "queued",
               Goto(m, "template"), UNCHANGED region
        PROVE  IInv'
    <3>1. pc' \in [Machines -> MachineSteps] /\ pc'[m] = "template"
          /\ \A n \in Machines \ {m} : pc'[n] = pc[n]
      BY <1>2, <2>2 DEF Goto, ProgressTypes, MachineSteps, Busy
    <3>2. RegionInv'
      <4>1. Here' = Here /\ \A n \in Here : LocationOf(config, n)' = LocationOf(config, n)
        BY <2>1
      <4>2. \A n \in Here \ {m} : LocationOf(config, n) = r => pc'[n] \notin Busy
        BY <1>2, <2>1, <3>1 DEF Busy
      <4>3. ASSUME NEW n \in Machines, n # m
            PROVE  /\ pc'[n] \in Busy =>
                        /\ n \in Here /\ region[LocationOf(config, n)] = "running"
                        /\ \A o \in Here :
                             LocationOf(config, o) = LocationOf(config, n)
                               /\ pc'[o] \in Busy => o = n
                   /\ n \in Here /\ region[LocationOf(config, n)] = "ok" => pc'[n] = "up"
        BY <1>2, <2>2, <3>1, <4>2, <4>3 DEF RegionInv
      <4> QED
        BY <1>1, <1>2, <2>1, <2>2, <3>1, <4>1, <4>2, <4>3 DEF RegionInv, AllUp
    <3>3. ProgressTypes'
      BY <1>1, <2>2, <3>1 DEF ProgressTypes, cloudVars
    <3>4. \A n \in Machines : pc'[n] = pc[n] \/ (pc[n] = "queued" /\ pc'[n] = "template")
      BY <2>2, <3>1
    <3> QED
      BY <1>1, <1>3, <2>1, <3>2, <3>3, <3>4
  <2>3. CASE /\ \A n \in MachinesIn(r) : pc[n] = "up"
             /\ region' = [region EXCEPT ![r] = "ok"] /\ UNCHANGED pc
    <3>1. region' \in [Locations -> RegionStates] /\ region'[r] = "ok"
          /\ \A q \in Locations \ {r} : region'[q] = region[q]
      BY <2>3 DEF ProgressTypes, RegionStates
    <3>2. \A n \in Here : LocationOf(config, n) = r => pc[n] = "up"
      BY <1>1, <2>3 DEF MachinesIn
    <3>3. RegionInv'
      BY <1>1, <1>2, <2>1, <2>3, <3>1, <3>2 DEF RegionInv, AllUp, Busy
    <3>4. ProgressTypes'
      BY <1>1, <2>3, <3>1 DEF ProgressTypes, cloudVars
    <3> QED
      BY <1>1, <1>3, <2>1, <2>3, <3>3, <3>4
  <2> QED
    BY <1>1, <1>6, <2>2, <2>3 DEF NextMachine, MachinesIn
<1> QED
  BY <1>4, <1>5, <1>6 DEF CreateResources

------------------------------------------------------------------------------
(* Polling, the cloud, and the end of the process. *)

LEMMA PollInv ==
  ASSUME IInv, Poll \/ PollingEnds
  PROVE  IInv'
<1> USE DEF IInv, Types
<1>1. /\ UNCHANGED <<config, orchestrators, publicIP, ssh, mainVars, machineVars>>
      /\ UNCHANGED <<viperVars, cloudVars>>
  BY DEF Poll, PollingEnds, PollResources, Convert, ConvertResource, SetMachineResource,
     deploymentVars
<1>2. vmResource' \in [Machines -> ResourceStates]
      /\ PollTypes' /\ (pollPc' = "set" => held' \in Resources)
  <2>0. ConfiguredMachines(config) \subseteq Machines
    BY ConfiguredAre DEF CommandTypes
  <2>1. CASE PollResources
    <3>1. \A n \in GetMachines :
            n \in Machines /\ (VMShown(n) # "absent" => VMShown(n) \in ResourceStates)
      BY <2>0 DEF GetMachines, VMShown, ResourceStates
    <3>2. {<<n, VMShown(n)>> : n \in {k \in GetMachines : VMShown(k) # "absent"}}
            \subseteq Resources
      BY <3>1 DEF Resources
    <3>3. PICK shown \in SUBSET Resources : toConvert' = {1, 2} \X shown
      BY <2>1, <3>2 DEF PollResources
    <3>4. toConvert' \in SUBSET ({1, 2} \X Resources)
      BY <3>3
    <3> QED
      BY <2>1, <3>4 DEF PollResources, PollTypes, ServiceTypes, deploymentVars
  <2>2. ASSUME NEW item \in toConvert, ConvertResource(item)
        PROVE  vmResource' \in [Machines -> ResourceStates]
               /\ PollTypes' /\ (pollPc' = "set" => held' \in Resources)
    <3>1. item \in {1, 2} \X Resources /\ item[2] \in Resources
      BY <2>2 DEF PollTypes
    <3> QED
      BY <2>2, <3>1
      DEF ConvertResource, PollTypes, ServiceTypes, deploymentVars, NextItem
  <2>3. CASE SetMachineResource
    <3>1. held \in Machines \X ResourceStates
      BY <2>3 DEF HoldInv, SetMachineResource
    <3> QED
      BY <2>3, <3>1 DEF SetMachineResource, PollTypes, ServiceTypes, NextItem
  <2>4. CASE PollingEnds
    BY <2>4 DEF PollingEnds, PollTypes, ServiceTypes, deploymentVars
  <2> QED
    BY <2>1, <2>2, <2>3, <2>4 DEF Poll, Convert
<1>3. Types'
  BY <1>1, <1>2 DEF CommandTypes, ProgressTypes, ServiceTypes, RecordTypes,
     mainVars, machineVars, viperVars, cloudVars
<1>4. OrchestratorInv'
  BY <1>1 DEF OrchestratorInv, mainVars
<1>5. GroupInv'
  BY <1>1 DEF GroupInv, mainVars, viperVars, cloudVars
<1>6. RegionInv'
  BY <1>1 DEF RegionInv, mainVars, machineVars
<1>7. MachineInv'
  BY <1>1 DEF MachineInv, machineVars, cloudVars
<1>8. HoldInv'
  BY <1>1, <1>2 DEF HoldInv, mainVars, machineVars, viperVars, Resources
<1> QED
  BY <1>3, <1>4, <1>5, <1>6, <1>7, <1>8

LEMMA DeployInCloudInv ==
  ASSUME IInv, NEW m \in Machines, DeployInCloud(m)
  PROVE  IInv'
<1> USE DEF IInv, Types
<1>1. /\ template[m] = "running"
      /\ UNCHANGED <<deploymentVars, mainVars, machineVars, viperVars>>
      /\ UNCHANGED <<group, testInterface, pollVars>>
  BY DEF DeployInCloud
<1>2. PICK s \in {"Succeeded", "Failed", "conflict"} : template' = [template EXCEPT ![m] = s]
  BY DEF DeployInCloud
<1>3. template' \in [Machines -> TemplateStates] /\ template'[m] = s
      /\ \A n \in Machines \ {m} : template'[n] = template[n]
  BY <1>2 DEF ProgressTypes, TemplateStates
<1>4. Types'
  BY <1>1, <1>3 DEF CommandTypes, ProgressTypes, ServiceTypes, RecordTypes, PollTypes,
     deploymentVars, mainVars, machineVars, viperVars, pollVars
<1>5. OrchestratorInv'
  BY <1>1 DEF OrchestratorInv, mainVars, deploymentVars
<1>6. GroupInv'
  BY <1>1, <1>3 DEF GroupInv, mainVars, viperVars
<1>7. RegionInv'
  BY <1>1 DEF RegionInv, mainVars, machineVars, deploymentVars
<1>8. MachineInv'
  BY <1>1, <1>3 DEF MachineInv, machineVars, deploymentVars
<1>9. HoldInv'
  BY <1>1 DEF HoldInv, mainVars, machineVars, viperVars, pollVars
<1> QED
  BY <1>4, <1>5, <1>6, <1>7, <1>8, <1>9

\* What a process starts with.
Fresh ==
  /\ orchestrators = {}
  /\ publicIP = [m \in Machines |-> NoAddress]
  /\ vmResource = [m \in Machines |-> "NotStarted"]
  /\ ssh = [m \in Machines |-> "NotStarted"]
  /\ region = [r \in Locations |-> "waiting"]
  /\ pc = [m \in Machines |-> "queued"]
  /\ attempt = [m \in Machines |-> 1]
  /\ holds = [m \in Machines |-> NoMachine]
  /\ contents = [m \in Machines |-> {}]
  /\ records = NoMachine
  /\ groupKnown = FALSE
  /\ pollPc = "waiting" /\ toConvert = {} /\ held = Nothing

\* A process that has done nothing, or is gone: a step to it needs no other argument.
Restarted ==
  /\ Fresh /\ phase \in {"configure", "exited"}
  /\ CommandTypes /\ template \in [Machines -> TemplateStates]
  /\ phase = "configure" => \A m \in Machines : template[m] = "none"
  /\ \A m \in Machines : template[m] # "none" => file.group

LEMMA RestartedInv == Restarted => IInv
<1> SUFFICES ASSUME Restarted  PROVE IInv
  OBVIOUS
<1> USE DEF Restarted
<1>1. Types
  <2>1. 1 \in Counts
    BY BoundsAssumption DEF Counts
  <2> QED
    BY <2>1 DEF Types, Fresh, ProgressTypes, ServiceTypes, RecordTypes, PollTypes,
       Addresses, ResourceStates, SSHStates, RegionStates, MachineSteps, MachineSets, Holders
<1>2. OrchestratorInv /\ GroupInv
  BY DEF OrchestratorInv, GroupInv, Preparing, AllUp
<1>3. RegionInv
  <2>1. \A m \in ConfiguredMachines(config) : LocationOf(config, m) \in Locations
    BY ConfiguredAre DEF CommandTypes
  <2> QED
    BY <2>1 DEF Fresh, RegionInv, Busy, AllUp
<1>4. MachineInv
  BY AddressesDiffer DEF Fresh, MachineInv
<1>5. HoldInv
  BY DEF Fresh, HoldInv
<1> QED
  BY <1>1, <1>2, <1>3, <1>4, <1>5 DEF IInv

LEMMA InitRestarts == Init => Restarted
<1> SUFFICES ASSUME Init  PROVE Restarted
  OBVIOUS
<1>1. Fresh
  BY DEF Init, Fresh
<1>2. CommandTypes
  BY DEF Init, CommandTypes, MachineSets, Phases, Files, NoFile
<1> QED
  BY <1>1, <1>2 DEF Init, Restarted, TemplateStates

LEMMA ExitRestarts ==
  ASSUME IInv, Exit
  PROVE  Restarted'
<1>1. Fresh'
  BY DEF Exit, Fresh
<1>2. CommandTypes' /\ template' \in [Machines -> TemplateStates] /\ phase' = "exited"
  BY DEF Exit, IInv, Types, CommandTypes, ProgressTypes, MachineSets, Phases, cloudVars
<1>3. \A m \in Machines : template'[m] # "none" => file'.group
  BY DEF Exit, IInv, GroupInv, cloudVars
<1> QED
  BY <1>1, <1>2, <1>3 DEF Restarted

LEMMA NextInv == IInv /\ [Next]_vars => IInv' \/ Restarted'
<1> SUFFICES ASSUME IInv, [Next]_vars  PROVE IInv' \/ Restarted'
  OBVIOUS
<1>1. CASE RunDeployment \/ HandleDeploymentCompletion
  BY <1>1, PrepareDeploymentInv, PrepareResourceGroupInv, WriteInv, CreateResourcesInv,
     UpdateMachineConfigInv
  DEF RunDeployment
<1>2. ASSUME NEW m \in Machines, DeployMachine(m)
      PROVE  IInv'
  BY <1>2, DeployMachineStep, MachineStepInv
<1>3. CASE Poll \/ PollingEnds
  BY <1>3, PollInv
<1>4. CASE Exit
  BY <1>4, ExitRestarts
<1>5. ASSUME NEW m \in Machines, DeployInCloud(m)
      PROVE  IInv'
  BY <1>5, DeployInCloudInv
<1>6. CASE UNCHANGED vars
  BY <1>6 DEF vars, deploymentVars, mainVars, machineVars, viperVars, cloudVars, pollVars,
     IInv, Types, CommandTypes, ProgressTypes, ServiceTypes, RecordTypes, PollTypes,
     OrchestratorInv, GroupInv, RegionInv, MachineInv, HoldInv
<1> QED
  BY <1>1, <1>2, <1>3, <1>4, <1>5, <1>6 DEF Next

LEMMA Invariance == Spec => []IInv
BY InitRestarts, RestartedInv, NextInv, PTL DEF Spec

------------------------------------------------------------------------------
(* The theorems. *)

\* Every variable keeps its type: the records that deployMachine writes go into a map it
\* has read or made, and polling sets a state it has compared.
THEOREM AzureTyping == Spec => []TypeOK
<1>1. IInv => TypeOK
  BY TypesAre DEF IInv
<1> QED
  BY <1>1, Invariance, PTL

\* With counts that are not negative, a deployment that ProcessMachinesConfig lets pass has
\* one orchestrator, whatever its list of machines.
THEOREM OrchestratorIsUnique == Spec => [](NaturalCounts(config) => OneOrchestrator)
<1>1. IInv => (NaturalCounts(config) => OneOrchestrator)
  BY OneIsChosen DEF IInv, OrchestratorInv, OneOrchestrator
<1> QED
  BY <1>1, Invariance, PTL

\* A machine the cloud has is of a group that the configuration file names, wherever the
\* process has ended: runDeployment writes the file before it creates resources.
THEOREM VMsStayListed == Spec => []EveryVMIsListed
<1>1. IInv => EveryVMIsListed
  BY DEF IInv, GroupInv, EveryVMIsListed
<1> QED
  BY <1>1, Invariance, PTL

\* However many regions and slots there are, CreateResources leaves no machine half
\* deployed behind: a region that ended has none, and errgroup.Wait awaits all of them.
THEOREM RegionsAreAwaited == Spec => []NothingRunsAfterReturn
<1>1. IInv => NothingRunsAfterReturn
  BY DEF IInv, Types, ProgressTypes, RegionInv, NothingRunsAfterReturn, MachineSteps
<1> QED
  BY <1>1, Invariance, PTL

\* When CreateResources has returned nil, deployMachine has brought up every configured
\* machine, and where it was given an address there is a VM that answered at it.
THEOREM AzureOkIsTruthful == Spec => []OkMeansReachable
<1>1. IInv => OkMeansReachable
  <2> SUFFICES ASSUME IInv, phase \in AllUp, NEW m \in GetMachines
               PROVE  /\ ssh[m] = "Succeeded"
                      /\ publicIP[m] # NoAddress =>
                           template[m] = "Succeeded" /\ publicIP[m] \in InterfacesPresent
    BY DEF OkMeansReachable, AllUp
  <2>1. m \in ConfiguredMachines(config) /\ m \in Machines
    BY ConfiguredAre DEF GetMachines, IInv, Types, CommandTypes
  <2>2. pc[m] = "up"
    BY <2>1 DEF IInv, RegionInv
  <2>3. ssh[m] = "Succeeded" /\ publicIP[m] \in {TestInterface, NoAddress}
    BY <2>1, <2>2 DEF IInv, MachineInv
  <2>4. publicIP[m] = TestInterface => template[m] = "Succeeded" /\ testInterface
    BY <2>1 DEF IInv, MachineInv
  <2> QED
    BY <2>3, <2>4 DEF InterfacesPresent
<1> QED
  BY <1>1, Invariance, PTL
====
