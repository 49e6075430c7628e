---------------------------- MODULE GCPResources ----------------------------
(***************************************************************************)
(* createResources of cmd/beta/gcp/create_deployment.go with the           *)
(* CreateAndConfigureVM it calls (pkg/providers/gcp/provider.go): the      *)
(* orchestrator's VM first, then one goroutine per worker, each reserving  *)
(* an address and creating a VM in the cloud, and the caller collecting    *)
(* their results over an unbuffered channel.                               *)
(*                                                                         *)
(* The cloud is the set of addresses reserved and the address each VM has. *)
(* Any call to it may fail, before or after it took effect.                *)
(***************************************************************************)
EXTENDS Naturals, FiniteSets

CONSTANTS
  Machines,       \* the machines a configuration may name
  Spare,          \* addresses the project already has
  MaxRetries,     \* DefaultIPAllocationConfig.MaxRetries
  NoAddress

\* A new address is named after its VM; the random suffix is the attempt's number.
NewAddresses == Machines \X (1..MaxRetries)
Addresses == Spare \cup NewAddresses

ASSUME RetriesAssumption == MaxRetries \in Nat \ {0}
ASSUME NamesAssumption == /\ IsFiniteSet(Machines)
                          /\ NoAddress \notin Addresses
                          /\ Spare \cap NewAddresses = {}

VARIABLES
  machines,       \* the keys of Deployment.Machines
  orchestrators,  \* those with Machine.Orchestrator
  failed,         \* those with Machine.Failed
  recorded,       \* those in viper and, writes of the file succeeding, in the file
  publicIP,       \* Machine.PublicIP
  phase,          \* where createResources is
  uncollected,    \* results it still waits for
  pc,             \* where CreateAndConfigureVM is, for each machine
  attempt,        \* its loop counter in allocateIPWithRetries
  ip,             \* the address it got there
  result,         \* what it returned
  cancelled,      \* the context
  reserved,       \* the cloud: the project's addresses
  vmAddress       \* the cloud: the address of each VM, NoAddress without a VM

deploymentVars == <<machines, orchestrators, failed, recorded, publicIP>>
mainVars == <<phase, uncollected>>
vmVars == <<pc, attempt, ip, result>>
cloudVars == <<reserved, vmAddress>>
vars == <<deploymentVars, mainVars, vmVars, cancelled, cloudVars>>

\* GetMachines leaves failed machines out.
GetMachines == machines \ failed

\* ProcessMachinesConfig lets at most one orchestrator through.
Init ==
  /\ machines \in (SUBSET Machines) \ {{}}
  /\ orchestrators \in {S \in SUBSET machines : Cardinality(S) <= 1}
  /\ failed = {}
  /\ recorded = {}
  /\ publicIP = [m \in Machines |-> NoAddress]
  /\ phase = "begin"
  /\ uncollected = 0
  /\ pc = [m \in Machines |-> "idle"]
  /\ attempt = [m \in Machines |-> 1]
  /\ ip = [m \in Machines |-> NoAddress]
  /\ result = [m \in Machines |-> "none"]
  /\ cancelled = FALSE
  /\ reserved = Spare
  /\ vmAddress = [m \in Machines |-> NoAddress]

------------------------------------------------------------------------------
(* CreateAndConfigureVM. *)

Goto(m, step) == pc' = [pc EXCEPT ![m] = step]

Returns(m, r) ==
  /\ Goto(m, "returned")
  /\ result' = [result EXCEPT ![m] = r]

\* Status RESERVED, Users nil.
Available == {a \in reserved : \A m \in Machines : vmAddress[m] # a}

\* Mutant: a listing that ran to its end is a success.
ListingSucceeds == TRUE

\* ListAddresses returns the error its iterator ended with.  After a complete listing
\* that is iterator.Done, which its callers take for a failure.
ListAddressesSucceeds == FALSE

Found == IF ListAddressesSucceeds THEN Available ELSE {}

\* findAvailableIP: an address found is taken by nobody until a VM uses it.
FindAvailableIP(m) ==
  /\ pc[m] = "find"
  /\ IF Found = {}
     THEN Goto(m, "reserve") /\ UNCHANGED ip
     ELSE Goto(m, "create") /\ ip' \in {[ip EXCEPT ![m] = a] : a \in Found}
  /\ UNCHANGED <<deploymentVars, mainVars, attempt, result, cancelled, cloudVars>>

\* CreateIP: insert, wait, get.  The address stays when only the insert went through.
CreateIP(m) ==
  /\ pc[m] = "reserve"
  /\ ~cancelled
  /\ reserved' = reserved \cup {<<m, attempt[m]>>}
  /\ ip' = [ip EXCEPT ![m] = <<m, attempt[m]>>]
  /\ Goto(m, "create")
  /\ UNCHANGED <<deploymentVars, mainVars, attempt, result, cancelled, vmAddress>>

\* Mutant: the loop runs once more than MaxRetries.
CreateIPFailsOnceMore(m) ==
  /\ pc[m] = "reserve"
  /\ reserved' \in {reserved, reserved \cup {<<m, attempt[m]>>}}
  /\ IF cancelled \/ attempt[m] > MaxRetries
     THEN Returns(m, "error") /\ UNCHANGED attempt
     ELSE /\ attempt' = [attempt EXCEPT ![m] = @ + 1]
          /\ Goto(m, "find")
          /\ UNCHANGED result
  /\ UNCHANGED <<deploymentVars, mainVars, ip, cancelled, vmAddress>>

CreateIPFails(m) ==
  /\ pc[m] = "reserve"
  /\ reserved' \in {reserved, reserved \cup {<<m, attempt[m]>>}}
  /\ IF cancelled \/ attempt[m] = MaxRetries
     THEN Returns(m, "error") /\ UNCHANGED attempt
     ELSE /\ attempt' = [attempt EXCEPT ![m] = @ + 1]
          /\ Goto(m, "find")
          /\ UNCHANGED result
  /\ UNCHANGED <<deploymentVars, mainVars, ip, cancelled, vmAddress>>

\* The cloud gives an address to one VM only.
CreateVM(m) ==
  /\ pc[m] = "create"
  /\ ~cancelled
  /\ ip[m] \in Available
  /\ vmAddress' = [vmAddress EXCEPT ![m] = ip[m]]
  /\ Goto(m, "configure")
  /\ UNCHANGED <<deploymentVars, mainVars, attempt, ip, result, cancelled, reserved>>

\* Nobody looks at whether the VM was created before the error: its address is released
\* if it can be found in the listing and the cloud agrees.
CreateVMFails(m) ==
  /\ pc[m] = "create"
  /\ vmAddress' \in {vmAddress}
       \cup {[vmAddress EXCEPT ![m] = a] : a \in {ip[m]} \cap Available}
  /\ \E released \in {{}} \cup {{a} : a \in Found \cap {ip[m]}} :
       /\ \A n \in Machines : vmAddress'[n] \notin released
       /\ reserved' = reserved \ released
  /\ Returns(m, "error")
  /\ UNCHANGED <<deploymentVars, mainVars, attempt, ip, cancelled>>

\* The addresses are read back from the instance; one that shows none is given up, with
\* its VM and its address.
ConfigureVM(m) ==
  /\ pc[m] = "configure"
  /\ \/ /\ publicIP' = [publicIP EXCEPT ![m] = vmAddress[m]]
        /\ Returns(m, "ok")
        /\ UNCHANGED failed
     \/ /\ failed' = failed \cup {m}
        /\ Returns(m, "error")
        /\ UNCHANGED publicIP
  /\ UNCHANGED <<machines, orchestrators, recorded, mainVars>>
  /\ UNCHANGED <<attempt, ip, cancelled, cloudVars>>

CreateAndConfigureVM(m) ==
  \/ FindAvailableIP(m) \/ CreateIP(m) \/ CreateIPFails(m)
  \/ CreateVM(m) \/ CreateVMFails(m) \/ ConfigureVM(m)

------------------------------------------------------------------------------
(* createResources. *)

\* updateMachineConfig writes a machine that GetMachine still returns.
UpdateMachineConfig(m) ==
  recorded' = recorded \cup ({m} \cap GetMachines)

\* Mutant: all VMs are begun together.
FindOrchestratorStartsAll ==
  /\ phase = "begin"
  /\ IF orchestrators = {}
     THEN phase' = "error" /\ UNCHANGED pc
     ELSE /\ phase' = "orchestrator"
          /\ pc' = [m \in Machines |-> IF m \in machines THEN "find" ELSE "idle"]
  /\ UNCHANGED <<deploymentVars, uncollected, attempt, ip, result>>
  /\ UNCHANGED <<cancelled, cloudVars>>

FindOrchestrator ==
  /\ phase = "begin"
  /\ IF orchestrators = {}
     THEN phase' = "error" /\ UNCHANGED pc
     ELSE /\ phase' = "orchestrator"
          /\ pc' = [m \in Machines |-> IF m \in orchestrators THEN "find" ELSE "idle"]
  /\ UNCHANGED <<deploymentVars, uncollected, attempt, ip, result>>
  /\ UNCHANGED <<cancelled, cloudVars>>

\* Without the orchestrator's VM there is no deployment.  With it, one goroutine is
\* started per worker; none of them holds up the loop that starts them.
LaunchWorkers(o) ==
  /\ phase = "orchestrator"
  /\ o \in orchestrators /\ pc[o] = "returned"
  /\ IF result[o] = "error"
     THEN /\ phase' = "error"
          /\ pc' = [pc EXCEPT ![o] = "ended"]
          /\ UNCHANGED <<recorded, uncollected>>
     ELSE LET workers == GetMachines \ orchestrators IN
          /\ phase' = "collect"
          /\ UpdateMachineConfig(o)
          /\ uncollected' = Cardinality(workers)
          /\ pc' = [m \in Machines |-> IF m \in workers THEN "find"
                                       ELSE IF m = o THEN "ended" ELSE pc[m]]
  /\ UNCHANGED <<machines, orchestrators, failed, publicIP>>
  /\ UNCHANGED <<attempt, ip, result, cancelled, cloudVars>>

\* Mutant: a machine is written before its error is looked at.
CollectRecordsFirst(m) ==
  /\ phase = "collect" /\ uncollected > 0
  /\ m \notin orchestrators /\ pc[m] = "returned"
  /\ Goto(m, "ended")
  /\ uncollected' = uncollected - 1
  /\ UpdateMachineConfig(m)
  /\ machines' = IF result[m] = "error" THEN machines \ {m} ELSE machines
  /\ UNCHANGED <<phase, orchestrators, failed, publicIP>>
  /\ UNCHANGED <<attempt, ip, result, cancelled, cloudVars>>

\* Mutant: a machine that failed stays in the deployment.
CollectKeepsFailed(m) ==
  /\ phase = "collect" /\ uncollected > 0
  /\ m \notin orchestrators /\ pc[m] = "returned"
  /\ Goto(m, "ended")
  /\ uncollected' = uncollected - 1
  /\ IF result[m] = "error" THEN UNCHANGED recorded ELSE UpdateMachineConfig(m)
  /\ UNCHANGED <<phase, machines, orchestrators, failed, publicIP>>
  /\ UNCHANGED <<attempt, ip, result, cancelled, cloudVars>>

\* Mutant: the first error is returned at once.
CollectFailFast(m) ==
  /\ phase = "collect" /\ uncollected > 0
  /\ m \notin orchestrators /\ pc[m] = "returned"
  /\ Goto(m, "ended")
  /\ uncollected' = uncollected - 1
  /\ IF result[m] = "error"
     THEN phase' = "error" /\ UNCHANGED recorded
     ELSE UpdateMachineConfig(m) /\ UNCHANGED phase
  /\ UNCHANGED <<machines, orchestrators, failed, publicIP>>
  /\ UNCHANGED <<attempt, ip, result, cancelled, cloudVars>>

\* Mutant: a result that is an error is not counted.
CollectCountsSuccesses(m) ==
  /\ phase = "collect" /\ uncollected > 0
  /\ m \notin orchestrators /\ pc[m] = "returned"
  /\ Goto(m, "ended")
  /\ IF result[m] = "error"
     THEN machines' = machines \ {m} /\ UNCHANGED <<recorded, uncollected>>
     ELSE /\ UpdateMachineConfig(m)
          /\ uncollected' = uncollected - 1
          /\ UNCHANGED machines
  /\ UNCHANGED <<phase, orchestrators, failed, publicIP>>
  /\ UNCHANGED <<attempt, ip, result, cancelled, cloudVars>>

\* A result crosses the unbuffered channel.  The machine of a failed one is deleted from
\* the map while the display and other goroutines read it, without the deployment's
\* lock: the runtime may detect that and end the process.
CollectResult(m) ==
  /\ phase = "collect" /\ uncollected > 0
  /\ m \notin orchestrators /\ pc[m] = "returned"
  /\ Goto(m, "ended")
  /\ uncollected' = uncollected - 1
  /\ \/ /\ result[m] = "error"
        /\ machines' = machines \ {m}
        /\ phase' \in {"collect", "exited"}
        /\ UNCHANGED recorded
     \/ /\ result[m] = "ok"
        /\ UpdateMachineConfig(m)
        /\ UNCHANGED <<machines, phase>>
  /\ UNCHANGED <<orchestrators, failed, publicIP>>
  /\ UNCHANGED <<attempt, ip, result, cancelled, cloudVars>>

\* At least the orchestrator and one worker.
CheckWorkers ==
  /\ phase = "collect" /\ uncollected = 0
  /\ phase' = IF Cardinality(GetMachines) < 2 THEN "error" ELSE "ok"
  /\ UNCHANGED <<deploymentVars, uncollected, vmVars, cancelled, cloudVars>>

CreateResources ==
  \/ FindOrchestrator
  \/ \E m \in Machines : LaunchWorkers(m) \/ CollectResult(m)
  \/ CheckWorkers

\* A signal, or an error of the display program, cancels the context; the process ends
\* soon after, whatever the goroutines are at.
Cancel ==
  /\ ~cancelled
  /\ cancelled' = TRUE
  /\ UNCHANGED <<deploymentVars, mainVars, vmVars, cloudVars>>

Exit ==
  /\ cancelled
  /\ phase' = "exited"
  /\ UNCHANGED <<deploymentVars, uncollected, vmVars, cancelled, cloudVars>>

Running == phase \notin {"ok", "error", "exited"}

Next ==
  \/ /\ phase # "exited"
     /\ \E m \in Machines : CreateAndConfigureVM(m)
  \/ Running /\ (CreateResources \/ Cancel \/ Exit)
  \/ ~Running /\ UNCHANGED vars

\* Goroutines are scheduled and every call to the cloud returns.  A cancelled process
\* exits.
Fairness ==
  /\ WF_vars(Running /\ CreateResources)
  /\ WF_vars(Running /\ Exit)
  /\ \A m \in Machines : WF_vars(phase # "exited" /\ CreateAndConfigureVM(m))

Spec == Init /\ [][Next]_vars /\ Fairness

------------------------------------------------------------------------------
(* Properties. *)

TypeOK ==
  /\ machines \in SUBSET Machines
  /\ orchestrators \in SUBSET machines
  /\ failed \in SUBSET Machines
  /\ recorded \in SUBSET Machines
  /\ publicIP \in [Machines -> Addresses \cup {NoAddress}]
  /\ phase \in {"begin", "orchestrator", "collect", "ok", "error", "exited"}
  /\ uncollected \in 0..Cardinality(Machines)
  /\ pc \in [Machines -> {"idle", "find", "reserve", "create", "configure",
                          "returned", "ended"}]
  /\ attempt \in [Machines -> 1..MaxRetries]
  /\ ip \in [Machines -> Addresses \cup {NoAddress}]
  /\ result \in [Machines -> {"none", "ok", "error"}]
  /\ cancelled \in BOOLEAN
  /\ reserved \in SUBSET Addresses
  /\ vmAddress \in [Machines -> Addresses \cup {NoAddress}]

\* The address a VM has, or is about to be created with.
Claims(m) ==
  IF pc[m] = "create" THEN {ip[m]} ELSE {vmAddress[m]} \ {NoAddress}

\* No address is meant for two VMs, though allocateIPWithRetries takes no lock and
\* reserves nothing it finds: it never finds anything (ListAddressesSucceeds).
AddressNotShared ==
  \A m, n \in Machines : m # n => Claims(m) \cap Claims(n) = {}

\* A machine in the configuration file has a VM, and the address written with it is the
\* address of that VM: a failed machine is never written.
RecordedHaveVMs ==
  \A m \in recorded : vmAddress[m] # NoAddress /\ publicIP[m] = vmAddress[m]

\* When createResources returns nil, what it leaves in the deployment is what the next
\* stage needs: one orchestrator and at least one worker, each with a VM, the address
\* of that VM, and a record.
OkMeansCreated ==
  phase = "ok" =>
    /\ Cardinality(GetMachines \cap orchestrators) = 1
    /\ GetMachines \ orchestrators # {}
    /\ GetMachines \subseteq recorded

\* When createResources has returned, with or without an error, no goroutine of it is
\* left, running or blocked in its send on the channel.
NothingLeftRunning ==
  phase \in {"ok", "error"} => \A m \in Machines : pc[m] \in {"idle", "ended"}

\* createResources returns, whatever calls fail: as many results are sent as it waits
\* for.
Termination == <>(~Running)

------------------------------------------------------------------------------
(* Refinement. *)

VMs == {m \in Machines : vmAddress[m] # NoAddress}

Made == [m \in Machines |-> IF result[m] = "none" THEN "pending" ELSE result[m]]

Outcome == CASE phase \in {"ok", "error"} -> phase
             [] phase = "exited"         -> "quit"
             [] OTHER                    -> "pending"

Creation == INSTANCE VMCreation WITH
  members <- machines,
  leaders <- orchestrators,
  vms <- VMs,
  made <- Made,
  outcome <- Outcome

\* createResources keeps the promise of VMCreation: no worker's VM is made before the
\* orchestrator's is made and recorded, a worker without a VM is given up and the
\* orchestrator is not, and nothing is made after the one answer.
ImplementsVMCreation == Creation!Spec
==============================================================================
