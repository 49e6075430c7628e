--------------------------- MODULE ClusterDeployer ---------------------------
(***************************************************************************)
(* pkg/providers/common/cluster_deployer.go: once the machines exist and   *)
(* answer, ProvisionBacalhauCluster provisions the orchestrator and then,  *)
(* in an errgroup limited to Limit goroutines, every worker.  Each node    *)
(* goes through the steps of ProvisionBacalhauNode; each step is a command *)
(* over SSH that succeeds or fails.                                        *)
(*                                                                         *)
(* The context that errgroup.WithContext cancels at the first failure is   *)
(* handed to every step and read by none of them (pkg/sshutils takes it    *)
(* and does not look at it), so it is not part of the state.               *)
(***************************************************************************)
EXTENDS MachineServices, FiniteSets

CONSTANTS
  Machines,     \* the keys of Deployment.Machines
  Limit,        \* models.NumberOfSimultaneousProvisionings
  Deployments   \* the deployments considered

NoIP == ""
AnyIP == "0.0.0.0"

\* The fields of a Deployment and of its machines that provisioning reads and
\* does not write.
DeploymentRecords ==
  [orchestrators : SUBSET Machines,   \* Machine.Orchestrator
   failed : SUBSET Machines,          \* Machine.Failed
   addressed : SUBSET Machines,       \* Machine.PublicIP # ""
   settings : BOOLEAN,                \* len(BacalhauSettings) > 0
   script : BOOLEAN,                  \* CustomScriptPath # ""
   provider : {"azure", "gcp", "aws"}]

ASSUME LimitAssumption == Limit \in Nat \ {0}
ASSUME MachinesAssumption == IsFiniteSet(Machines)
ASSUME DeploymentsAssumption == Deployments \subseteq DeploymentRecords
ASSUME AddressAssumption == NoIP \notin Machines /\ AnyIP \notin Machines

VARIABLES
  deployment,      \* the deployment at hand, never written
  phase,           \* where ProvisionBacalhauCluster is
  orchestratorIP,  \* Deployment.OrchestratorIP
  todo,            \* the workers the launching loop has not reached
  slots,           \* the workers whose goroutine holds a slot of the errgroup
  groupErr,        \* the first error of the errgroup, named by its worker
  pc,              \* the step each node is at
  service,         \* Machine.machineServices
  nodeType,        \* Machine.NodeType
  nodeIP,          \* Machine.OrchestratorIP
  installed,       \* on the machine itself: what its steps have put in place
  loaded,          \* what was in place when its bacalhau unit last started
  scriptExit       \* how the custom script ended on the machine

clusterVars == <<phase, orchestratorIP, todo, slots, groupErr>>
nodeVars == <<pc, service, nodeType, nodeIP>>
remoteVars == <<installed, loaded, scriptExit>>
vars == <<deployment, clusterVars, nodeVars, remoteVars>>

Phases == {"find", "orchestrator", "launch", "ok", "error"}

Steps == {"idle", "sshConfig", "begin", "docker", "verifyDocker", "corePackages",
          "metadata", "install", "runScript", "service", "verify", "configs",
          "restart", "script", "done", "failed"}

Terminal == {"done", "failed"}

Artefacts == {"docker", "core-packages", "node-config", "bacalhau", "run-script",
              "unit", "settings"}

\* A public IP is named by the machine that has it.
PublicIP(m) == IF m \in deployment.addressed THEN m ELSE NoIP

\* GetMachines leaves failed machines out.
Members == Machines \ deployment.failed
Orchestrators == Members \cap deployment.orchestrators
Workers == Members \ deployment.orchestrators

\* On Azure CreateResources waits for SSH and marks the service.  The GCP and AWS
\* commands do not: AWS records the wait in the resource table instead.
InitialServices(d) ==
  IF d.provider = "azure" THEN SetServiceState(NewServices, "ssh", "Succeeded")
                          ELSE NewServices

Init ==
  /\ deployment \in Deployments
  /\ phase = "find"
  /\ orchestratorIP = NoIP
  /\ todo = {}
  /\ slots = {}
  /\ groupErr = {}
  /\ pc = [m \in Machines |-> "idle"]
  /\ service = [m \in Machines |-> InitialServices(deployment)]
  /\ nodeType = [m \in Machines |-> "unset"]
  /\ nodeIP = [m \in Machines |-> NoIP]
  /\ installed = [m \in Machines |-> {}]
  /\ loaded = [m \in Machines |-> {}]
  /\ scriptExit = [m \in Machines |-> "notRun"]

------------------------------------------------------------------------------
(* How a step of a node ends. *)

Goto(m, step) == pc' = [pc EXCEPT ![m] = step]

Sets(m, s, state) ==
  service' = [service EXCEPT ![m] = SetServiceState(@, s, state)]

Installs(m, what) == installed' = [installed EXCEPT ![m] = @ \cup {what}]

\* ExecuteCommand, PushFile or Connect reports an error and the step returns it.
\* Nothing reads a failed machine again, so what a failing command left behind
\* on it is not tracked.
HandleDeploymentError(m) ==
  /\ Sets(m, "bacalhau", "Failed")
  /\ Goto(m, "failed")
  /\ UNCHANGED remoteVars

\* Is the case of updateServiceStates about the instance the one that applies?  Only
\* the GCP client records its instance under the name that case looks up.
InstanceUp(m) == deployment.provider = "gcp" /\ PublicIP(m) # NoIP

\* UpdateStatus with a status made by NewDisplayStatusWithText.
UpdateStatus(table, m) ==
  UpdateServiceStates(table, InstanceUp(m), DisplayStatusWithText)

\* The error returns of InstallDockerAndCorePackages, and of ProvisionMachine, which
\* reports to the display before it returns the error; its caller returns it as is.
ProvisionMachineFails(m, s) ==
  /\ service' = [service EXCEPT
                   ![m] = UpdateStatus(SetServiceState(@, s, "Failed"), m)]
  /\ Goto(m, "failed")
  /\ UNCHANGED remoteVars

------------------------------------------------------------------------------
(* The steps of a node, in the order of the code. *)

\* createSSHConfig fails only when the keys cannot be read; the node is then given
\* up before its services are touched.  ProvisionOrchestrator also gives its
\* machine the node type and the address it will listen on.
CreateSSHConfig(m) ==
  /\ pc[m] = "sshConfig"
  /\ \/ /\ Goto(m, "begin")
        /\ IF m \in Orchestrators
           THEN /\ nodeIP' = [nodeIP EXCEPT ![m] = AnyIP]
                /\ nodeType' = [nodeType EXCEPT ![m] = "orchestrator"]
           ELSE UNCHANGED <<nodeIP, nodeType>>
     \/ Goto(m, "failed") /\ UNCHANGED <<nodeIP, nodeType>>
  /\ UNCHANGED <<deployment, clusterVars, service, remoteVars>>

ValidNode(m) ==
  \/ nodeType[m] = "orchestrator"
  \/ nodeType[m] = "compute" /\ nodeIP[m] # NoIP

\* From the entry of ProvisionBacalhauNode to the first command on the machine.
ProvisionBacalhauNode(m) ==
  /\ pc[m] = "begin"
  /\ IF ValidNode(m)
     THEN /\ service' = [service EXCEPT ![m] =
               SetServiceState(
                 UpdateStatus(SetServiceState(@, "bacalhau", "Updating"), m),
                 "docker", "Updating")]
          /\ Goto(m, "docker")
          /\ UNCHANGED remoteVars
     ELSE HandleDeploymentError(m)
  /\ UNCHANGED <<deployment, clusterVars, nodeType, nodeIP>>

\* installService marks docker as Succeeded before verifyDocker has run.
InstallDocker(m) ==
  /\ pc[m] = "docker"
  /\ \/ /\ Sets(m, "docker", "Succeeded")
        /\ Installs(m, "docker")
        /\ Goto(m, "verifyDocker")
        /\ UNCHANGED <<loaded, scriptExit>>
     \/ ProvisionMachineFails(m, "docker")
  /\ UNCHANGED <<deployment, clusterVars, nodeType, nodeIP>>

VerifyDocker(m) ==
  /\ pc[m] = "verifyDocker"
  /\ \/ /\ Sets(m, "core-packages", "Updating")
        /\ Goto(m, "corePackages")
        /\ UNCHANGED remoteVars
     \/ ProvisionMachineFails(m, "docker")
  /\ UNCHANGED <<deployment, clusterVars, nodeType, nodeIP>>

InstallCorePackages(m) ==
  /\ pc[m] = "corePackages"
  /\ \/ /\ service' = [service EXCEPT ![m] =
             UpdateStatus(SetServiceState(@, "core-packages", "Succeeded"), m)]
        /\ Installs(m, "core-packages")
        /\ Goto(m, "metadata")
        /\ UNCHANGED <<loaded, scriptExit>>
     \/ ProvisionMachineFails(m, "core-packages")
  /\ UNCHANGED <<deployment, clusterVars, nodeType, nodeIP>>

\* SetupNodeConfigMetadata, InstallBacalhau and InstallBacalhauRunScript push a script
\* and run it.
RunsInstaller(m, step, what, next) ==
  /\ pc[m] = step
  /\ \/ /\ Installs(m, what)
        /\ Goto(m, next)
        /\ UNCHANGED <<service, loaded, scriptExit>>
     \/ HandleDeploymentError(m)
  /\ UNCHANGED <<deployment, clusterVars, nodeType, nodeIP>>

SetupNodeConfigMetadata(m) == RunsInstaller(m, "metadata", "node-config", "install")
InstallBacalhau(m) == RunsInstaller(m, "install", "bacalhau", "runScript")
InstallBacalhauRunScript(m) == RunsInstaller(m, "runScript", "run-script", "service")

\* InstallSystemdService, then RestartService: stop, start and status must all have
\* succeeded for the restart to count, so the unit runs with all that is there.
SetupBacalhauService(m) ==
  /\ pc[m] = "service"
  /\ \/ /\ Installs(m, "unit")
        /\ loaded' = [loaded EXCEPT ![m] = installed'[m]]
        /\ Goto(m, "verify")
        /\ UNCHANGED <<service, scriptExit>>
     \/ HandleDeploymentError(m)
  /\ UNCHANGED <<deployment, clusterVars, nodeType, nodeIP>>

\* The machine that answers `bacalhau node list --api-host`.
ApiHost(m) == IF nodeIP[m] \in {NoIP, AnyIP} THEN m ELSE nodeIP[m]

\* Any non-empty answer will do, and the orchestrator lists itself: what is asked is
\* whether the orchestrator's unit runs, not whether this node has joined it.
VerifyBacalhauDeployment(m) ==
  /\ pc[m] = "verify"
  /\ \/ /\ loaded[ApiHost(m)] # {}
        /\ Goto(m, "configs")
        /\ UNCHANGED <<service, remoteVars>>
     \/ HandleDeploymentError(m)
  /\ UNCHANGED <<deployment, clusterVars, nodeType, nodeIP>>

\* verifySettings only warns about a setting that did not take.
ApplyBacalhauConfigs(m) ==
  /\ pc[m] = "configs"
  /\ \/ /\ ~deployment.settings
        /\ Goto(m, "restart")
        /\ UNCHANGED <<service, remoteVars>>
     \/ /\ deployment.settings
        /\ Installs(m, "settings")
        /\ Goto(m, "restart")
        /\ UNCHANGED <<service, loaded, scriptExit>>
     \/ deployment.settings /\ HandleDeploymentError(m)
  /\ UNCHANGED <<deployment, clusterVars, nodeType, nodeIP>>

\* Mutant of RestartService: the unit is started when it does not run, no more.
RestartServiceStartsOnly(m) ==
  /\ pc[m] = "restart"
  /\ \/ /\ loaded' = [loaded EXCEPT ![m] = IF @ = {} THEN installed[m] ELSE @]
        /\ Goto(m, "script")
        /\ UNCHANGED <<service, installed, scriptExit>>
     \/ HandleDeploymentError(m)
  /\ UNCHANGED <<deployment, clusterVars, nodeType, nodeIP>>

RestartService(m) ==
  /\ pc[m] = "restart"
  /\ \/ /\ loaded' = [loaded EXCEPT ![m] = installed[m]]
        /\ Goto(m, "script")
        /\ UNCHANGED <<service, installed, scriptExit>>
     \/ HandleDeploymentError(m)
  /\ UNCHANGED <<deployment, clusterVars, nodeType, nodeIP>>

\* The last step and the normal return.  The script runs on the left of a pipe into
\* tee, and the status of the pipe is tee's: an exit of the script other than zero
\* is not an error of ExecuteCommand.
ExecuteCustomScript(m) ==
  /\ pc[m] = "script"
  /\ \/ /\ ~deployment.script
        /\ Sets(m, "bacalhau", "Succeeded")
        /\ Goto(m, "done")
        /\ UNCHANGED remoteVars
     \/ /\ deployment.script
        /\ \E exit \in {"zero", "nonzero"} :
             scriptExit' = [scriptExit EXCEPT ![m] = exit]
        /\ service' = [service EXCEPT ![m] =
             SetServiceState(SetServiceState(@, "script", "Succeeded"),
                             "bacalhau", "Succeeded")]
        /\ Goto(m, "done")
        /\ UNCHANGED <<installed, loaded>>
     \/ deployment.script /\ HandleDeploymentError(m)
  /\ UNCHANGED <<deployment, clusterVars, nodeType, nodeIP>>

NodeStep(m) ==
  \/ CreateSSHConfig(m) \/ ProvisionBacalhauNode(m)
  \/ InstallDocker(m) \/ VerifyDocker(m) \/ InstallCorePackages(m)
  \/ SetupNodeConfigMetadata(m) \/ InstallBacalhau(m) \/ InstallBacalhauRunScript(m)
  \/ SetupBacalhauService(m) \/ VerifyBacalhauDeployment(m)
  \/ ApplyBacalhauConfigs(m) \/ RestartService(m) \/ ExecuteCustomScript(m)

------------------------------------------------------------------------------
(* ProvisionBacalhauCluster. *)

\* FindOrchestratorMachine wants exactly one.
FindOrchestratorMachine ==
  /\ phase = "find"
  /\ IF Cardinality(Orchestrators) = 1
     THEN /\ phase' = "orchestrator"
          /\ pc' = [m \in Machines |->
                      IF m \in Orchestrators THEN "sshConfig" ELSE pc[m]]
     ELSE phase' = "error" /\ UNCHANGED pc
  /\ UNCHANGED <<deployment, orchestratorIP, todo, slots, groupErr>>
  /\ UNCHANGED <<service, nodeType, nodeIP, remoteVars>>

\* Mutant: the error of ProvisionOrchestrator is logged and not returned.
OrchestratorReturnsAnyway(o) ==
  /\ phase = "orchestrator"
  /\ o \in Orchestrators /\ pc[o] \in Terminal
  /\ orchestratorIP' = PublicIP(o)
  /\ nodeIP' = [m \in Machines |-> IF m \in Members THEN PublicIP(o) ELSE nodeIP[m]]
  /\ nodeType' = [m \in Machines |-> IF m \in Workers THEN "compute" ELSE nodeType[m]]
  /\ phase' = "launch" /\ todo' = Workers
  /\ UNCHANGED <<deployment, slots, groupErr, pc, service, remoteVars>>

\* Mutant: the launching loop does not skip the orchestrator.
OrchestratorReturnsAll(o) ==
  /\ phase = "orchestrator"
  /\ o \in Orchestrators /\ pc[o] = "done" /\ PublicIP(o) # NoIP
  /\ orchestratorIP' = PublicIP(o)
  /\ nodeIP' = [m \in Machines |-> IF m \in Members THEN PublicIP(o) ELSE nodeIP[m]]
  /\ nodeType' = [m \in Machines |-> IF m \in Workers THEN "compute" ELSE nodeType[m]]
  /\ phase' = "launch" /\ todo' = Members
  /\ UNCHANGED <<deployment, slots, groupErr, pc, service, remoteVars>>

\* The rest of ProvisionOrchestrator tells every machine where the orchestrator is.
\* Without a public IP the cluster is given up at that point, and the error returned
\* is the nil of the call before.
OrchestratorReturns(o) ==
  /\ phase = "orchestrator"
  /\ o \in Orchestrators /\ pc[o] \in Terminal
  /\ IF pc[o] = "failed"
     THEN phase' = "error" /\ UNCHANGED <<orchestratorIP, nodeIP, nodeType, todo>>
     ELSE /\ orchestratorIP' = PublicIP(o)
          /\ nodeIP' = [m \in Machines |->
                          IF m \in Members THEN PublicIP(o) ELSE nodeIP[m]]
          /\ nodeType' = [m \in Machines |->
                            IF m \in Workers THEN "compute" ELSE nodeType[m]]
          /\ IF PublicIP(o) = NoIP
             THEN phase' = "ok" /\ UNCHANGED todo
             ELSE phase' = "launch" /\ todo' = Workers
  /\ UNCHANGED <<deployment, slots, groupErr, pc, service, remoteVars>>

\* Mutant: the semaphore admits one goroutine too many.
LaunchWorkerOverLimit(m) ==
  /\ phase = "launch"
  /\ m \in todo
  /\ Cardinality(slots) <= Limit
  /\ todo' = todo \ {m}
  /\ slots' = slots \cup {m}
  /\ Goto(m, "sshConfig")
  /\ UNCHANGED <<deployment, phase, orchestratorIP, groupErr>>
  /\ UNCHANGED <<service, nodeType, nodeIP, remoteVars>>

\* Mutant: no goroutine is launched after the first error.
LaunchWorkerFailFast(m) ==
  /\ phase = "launch"
  /\ m \in todo /\ groupErr = {}
  /\ Cardinality(slots) < Limit
  /\ todo' = todo \ {m}
  /\ slots' = slots \cup {m}
  /\ Goto(m, "sshConfig")
  /\ UNCHANGED <<deployment, phase, orchestratorIP, groupErr>>
  /\ UNCHANGED <<service, nodeType, nodeIP, remoteVars>>

\* One turn of the launching loop: errGroup.Go blocks while all slots are taken.  It
\* does not look at the group's error.
LaunchWorker(m) ==
  /\ phase = "launch"
  /\ m \in todo
  /\ Cardinality(slots) < Limit
  /\ todo' = todo \ {m}
  /\ slots' = slots \cup {m}
  /\ Goto(m, "sshConfig")
  /\ UNCHANGED <<deployment, phase, orchestratorIP, groupErr>>
  /\ UNCHANGED <<service, nodeType, nodeIP, remoteVars>>

\* Mutant: the group keeps the result of the last goroutine instead.
WorkerReturnsLast(m) ==
  /\ m \in slots
  /\ pc[m] \in Terminal
  /\ slots' = slots \ {m}
  /\ groupErr' = IF pc[m] = "failed" THEN {m} ELSE {}
  /\ UNCHANGED <<deployment, phase, orchestratorIP, todo, nodeVars, remoteVars>>

\* Mutant: a goroutine that fails does not give its slot back.
WorkerReturnsLeaking(m) ==
  /\ m \in slots
  /\ pc[m] \in Terminal
  /\ slots' = IF pc[m] = "failed" THEN slots ELSE slots \ {m}
  /\ groupErr' = IF pc[m] = "failed" /\ groupErr = {} THEN {m} ELSE groupErr
  /\ UNCHANGED <<deployment, phase, orchestratorIP, todo, nodeVars, remoteVars>>

\* The goroutine ends: the group keeps its first error, the slot is free.
WorkerReturns(m) ==
  /\ m \in slots
  /\ pc[m] \in Terminal
  /\ slots' = slots \ {m}
  /\ groupErr' = IF pc[m] = "failed" /\ groupErr = {} THEN {m} ELSE groupErr
  /\ UNCHANGED <<deployment, phase, orchestratorIP, todo, nodeVars, remoteVars>>

\* errGroup.Wait returns when every goroutine has ended.
Wait ==
  /\ phase = "launch"
  /\ todo = {} /\ slots = {}
  /\ phase' = IF groupErr = {} THEN "ok" ELSE "error"
  /\ UNCHANGED <<deployment, orchestratorIP, todo, slots, groupErr>>
  /\ UNCHANGED <<nodeVars, remoteVars>>

ClusterStep ==
  \/ FindOrchestratorMachine
  \/ \E m \in Machines : \/ OrchestratorReturns(m)
                         \/ LaunchWorker(m)
                         \/ WorkerReturns(m)
  \/ Wait

\* The caller has its answer and nothing is left running.
Returned == phase \in {"ok", "error"} /\ UNCHANGED vars

Next == ClusterStep \/ (\E m \in Machines : NodeStep(m)) \/ Returned

\* Goroutines are scheduled, and every command on a machine ends in success or error.
Fairness ==
  /\ WF_vars(ClusterStep)
  /\ \A m \in Machines : WF_vars(NodeStep(m))

Spec == Init /\ [][Next]_vars /\ Fairness

------------------------------------------------------------------------------
(* Properties. *)

TypeOK ==
  /\ deployment \in Deployments
  /\ phase \in Phases
  /\ orchestratorIP \in Machines \cup {NoIP}
  /\ todo \in SUBSET Workers
  /\ slots \in SUBSET Workers
  /\ groupErr \in SUBSET Workers
  /\ pc \in [Machines -> Steps]
  /\ service \in [Machines -> ServiceTables]
  /\ nodeType \in [Machines -> {"unset", "orchestrator", "compute"}]
  /\ nodeIP \in [Machines -> Machines \cup {NoIP, AnyIP}]
  /\ installed \in [Machines -> SUBSET Artefacts]
  /\ loaded \in [Machines -> SUBSET Artefacts]
  /\ scriptExit \in [Machines -> {"notRun", "zero", "nonzero"}]

\* No worker is touched before the orchestrator is up, reported as such, and known to
\* that worker: ProvisionBacalhauCluster orders the two by returning early, and the
\* address travels through the machines' own records.
WorkersFollowOrchestrator ==
  \A w \in Workers : pc[w] # "idle" =>
    \A o \in Orchestrators :
      /\ pc[o] = "done" /\ service[o]["bacalhau"] = "Succeeded" /\ loaded[o] # {}
      /\ nodeIP[w] = o /\ nodeType[w] = "compute"

\* What a node's steps have to leave behind for its unit to serve as it was asked to.
Needed ==
  IF deployment.settings THEN Artefacts ELSE Artefacts \ {"settings"}

\* A machine whose bacalhau service reads Succeeded runs a unit that was started after
\* everything it needs was there, the settings included, and its docker was verified:
\* this is what the restart after ApplyBacalhauConfigs is for.
SucceededMeansServing ==
  \A m \in Machines : service[m]["bacalhau"] = "Succeeded" =>
    Needed \subseteq loaded[m] /\ service[m]["docker"] = "Succeeded"

\* When ProvisionBacalhauCluster returns nil, every machine that takes part has been
\* provisioned, except that an orchestrator without a public IP has no workers.
OkMeansAllProvisioned ==
  phase = "ok" =>
    \A m \in Members : \/ service[m]["bacalhau"] = "Succeeded"
                       \/ orchestratorIP = NoIP /\ pc[m] = "idle"

\* Once it has returned, with or without an error, no goroutine of it is left to change
\* a machine: the caller may save the deployment, or exit.
NothingRunsAfterReturn == [][phase \notin {"ok", "error"}]_vars

\* Whatever the answer, each worker has had its own try by then, once the orchestrator is known:
\* neither the launching loop nor the group gives up the others at the first error.
EveryWorkerTried ==
  phase \in {"ok", "error"} /\ orchestratorIP # NoIP => \A w \in Workers : pc[w] \in Terminal

\* One worker's failure keeps no other from being provisioned: the loop goes on and the
\* cancelled context stops nobody.
FailureStopsNoOther ==
  \A m \in Machines : (phase = "launch" /\ m \in Workers) ~> pc[m] \in Terminal

\* ProvisionBacalhauCluster returns: the launching loop cannot wait for ever for a slot,
\* nor Wait for a goroutine.
Termination == <>(phase \in {"ok", "error"})

\* "If any step fails, the function handles the deployment error and returns the error"
\* (cluster_deployer.go:232): a node that has stopped with an error after its bacalhau
\* service went to Updating does not leave it there.
EveryFailureHandled ==
  \A m \in Machines : pc[m] = "failed" => service[m]["bacalhau"] # "Updating"

\* "Upon successful completion, it [...] marks the machine as complete"
\* (cluster_deployer.go:233-234): what IsComplete asks of the services holds of a node
\* that went through every step, the custom script included.
SuccessMarksComplete ==
  \A m \in Machines : pc[m] = "done" => ServicesComplete(service[m])

\* "Script execution failure" (cluster_deployer_test.go:297-314) is an error of
\* ExecuteCustomScript: the script service reads Succeeded only if the script did.
ScriptSucceededMeansItDid ==
  \A m \in Machines :
    service[m]["script"] = "Succeeded" => scriptExit[m] = "zero"

------------------------------------------------------------------------------
(* Refinement. *)

Status ==
  [m \in Machines |-> CASE pc[m] = "idle"   -> "waiting"
                        [] pc[m] = "done"   -> "provisioned"
                        [] pc[m] = "failed" -> "failed"
                        [] OTHER            -> "provisioning"]

Cluster == INSTANCE ClusterProvisioning WITH
  members <- Members,
  leaders <- deployment.orchestrators,
  reachable <- deployment.addressed,
  status <- Status,
  outcome <- IF phase \in {"ok", "error"} THEN phase ELSE "pending"

\* ProvisionBacalhauCluster keeps the promise of ClusterProvisioning: leader first,
\* followers at most Limit at a time, and one truthful answer.
ImplementsClusterProvisioning == Cluster!Spec
==============================================================================
