------------------------ MODULE ClusterDeployer_proofs ------------------------
(***************************************************************************)
(* Proofs about ClusterDeployer, for every set of machines, every limit    *)
(* and every set of deployments: its types, the order of orchestrator and  *)
(* workers, what a service that reads Succeeded stands for, and what the   *)
(* return of ProvisionBacalhauCluster tells its caller.                    *)
(***************************************************************************)
EXTENDS ClusterDeployer, FiniteSetTheorems, TLAPS

------------------------------------------------------------------------------
(* Service tables. *)

\* Setting a service to a state yields a table and touches that service only.
LEMMA SetServiceStateEffect ==
  ASSUME NEW table \in ServiceTables, NEW s \in RequiredServices,
         NEW state \in ServiceStates
  PROVE  /\ SetServiceState(table, s, state) \in ServiceTables
         /\ SetServiceState(table, s, state)[s] = state
         /\ \A t \in RequiredServices \ {s} :
              SetServiceState(table, s, state)[t] = table[t]
  BY DEF SetServiceState, ServiceTables

\* A text status rewrites ssh or core-packages and leaves the services that the
\* provisioning steps rely on alone.
LEMMA UpdateStatusEffect ==
  ASSUME NEW table \in ServiceTables, NEW m
  PROVE  /\ UpdateStatus(table, m) \in ServiceTables
         /\ \A t \in {"docker", "bacalhau", "script"} :
              UpdateStatus(table, m)[t] = table[t]
<1>1. CASE InstanceUp(m)
  BY <1>1 DEF UpdateStatus, UpdateServiceStates, SetServiceState, ServiceTables,
              RequiredServices, ServiceStates
<1>2. CASE ~InstanceUp(m)
  <2>1. Reported(DisplayStatusWithText) = {"core-packages", "script"}
    BY DEF Reported, DisplayStatusWithText, RequiredServices
  <2>2. CaseOrder["core-packages"] < CaseOrder["script"]
    BY DEF CaseOrder, RequiredServices
  <2>3. DisplayStatusWithText \in ServiceTables
    BY DEF DisplayStatusWithText, ServiceTables, ServiceStates
  <2>4. CaseOrder["core-packages"] = 3 /\ CaseOrder["script"] = 5
    BY DEF CaseOrder, RequiredServices
  <2> QED
    BY <1>2, <2>1, <2>2, <2>3, <2>4
    DEF UpdateStatus, UpdateServiceStates, ServiceTables, RequiredServices
<1> QED
  BY <1>1, <1>2

------------------------------------------------------------------------------
(* Type correctness. *)

\* A step of a node keeps the types.
LEMMA NodeStepTypes ==
  ASSUME TypeOK, NEW m \in Machines, NodeStep(m)
  PROVE  TypeOK'
<1> USE DEF TypeOK, ServiceStates, RequiredServices, Steps, Artefacts, clusterVars,
            nodeVars, remoteVars, Goto, Sets, Installs, Workers, Members
<1>0. /\ service[m] \in ServiceTables
      /\ service \in [Machines -> ServiceTables]
  OBVIOUS
<1>h. ASSUME HandleDeploymentError(m),
             UNCHANGED <<deployment, clusterVars, nodeType, nodeIP>>
      PROVE  TypeOK'
  <2>1. SetServiceState(service[m], "bacalhau", "Failed") \in ServiceTables
    BY <1>0, SetServiceStateEffect
  <2> QED  BY <1>h, <2>1 DEF HandleDeploymentError
<1>p. ASSUME NEW s \in {"docker", "core-packages"}, ProvisionMachineFails(m, s),
             UNCHANGED <<deployment, clusterVars, nodeType, nodeIP>>
      PROVE  TypeOK'
  <2>1. UpdateStatus(SetServiceState(service[m], s, "Failed"), m) \in ServiceTables
    BY <1>0, SetServiceStateEffect, UpdateStatusEffect
  <2> QED  BY <1>p, <2>1 DEF ProvisionMachineFails
<1>1. CASE CreateSSHConfig(m)
  BY <1>1 DEF CreateSSHConfig
<1>2. CASE ProvisionBacalhauNode(m)
  <2>1. CASE ValidNode(m)
    <3> DEFINE t1 == SetServiceState(service[m], "bacalhau", "Updating")
               t2 == UpdateStatus(t1, m)
               t3 == SetServiceState(t2, "docker", "Updating")
    <3>1. t1 \in ServiceTables  BY <1>0, SetServiceStateEffect
    <3>2. t2 \in ServiceTables  BY <3>1, UpdateStatusEffect
    <3>3. t3 \in ServiceTables  BY <3>2, SetServiceStateEffect
    <3>4. service' = [service EXCEPT ![m] = t3]
      BY <1>2, <2>1 DEF ProvisionBacalhauNode
    <3> HIDE DEF t3
    <3> QED  BY <1>2, <2>1, <3>3, <3>4 DEF ProvisionBacalhauNode
  <2>2. CASE ~ValidNode(m)
    BY <1>2, <2>2, <1>h DEF ProvisionBacalhauNode
  <2> QED  BY <2>1, <2>2
<1>3. CASE InstallDocker(m)
  <2>1. SetServiceState(service[m], "docker", "Succeeded") \in ServiceTables
    BY <1>0, SetServiceStateEffect
  <2> QED  BY <1>3, <2>1, <1>p DEF InstallDocker
<1>4. CASE VerifyDocker(m)
  <2>1. SetServiceState(service[m], "core-packages", "Updating") \in ServiceTables
    BY <1>0, SetServiceStateEffect
  <2> QED  BY <1>4, <2>1, <1>p DEF VerifyDocker
<1>5. CASE InstallCorePackages(m)
  <2>1. UpdateStatus(SetServiceState(service[m], "core-packages", "Succeeded"), m)
          \in ServiceTables
    BY <1>0, SetServiceStateEffect, UpdateStatusEffect
  <2> QED  BY <1>5, <2>1, <1>p DEF InstallCorePackages
<1>6. CASE SetupNodeConfigMetadata(m)
  BY <1>6, <1>h DEF SetupNodeConfigMetadata, RunsInstaller
<1>7. CASE InstallBacalhau(m)
  BY <1>7, <1>h DEF InstallBacalhau, RunsInstaller
<1>8. CASE InstallBacalhauRunScript(m)
  BY <1>8, <1>h DEF InstallBacalhauRunScript, RunsInstaller
<1>9. CASE SetupBacalhauService(m)
  BY <1>9, <1>h DEF SetupBacalhauService
<1>10. CASE VerifyBacalhauDeployment(m)
  BY <1>10, <1>h DEF VerifyBacalhauDeployment
<1>11. CASE ApplyBacalhauConfigs(m)
  BY <1>11, <1>h DEF ApplyBacalhauConfigs
<1>12. CASE RestartService(m)
  BY <1>12, <1>h DEF RestartService
<1>13. CASE ExecuteCustomScript(m)
  <2>1. /\ SetServiceState(service[m], "bacalhau", "Succeeded") \in ServiceTables
        /\ SetServiceState(SetServiceState(service[m], "script", "Succeeded"),
                           "bacalhau", "Succeeded") \in ServiceTables
    BY <1>0, SetServiceStateEffect
  <2> QED  BY <1>13, <2>1, <1>h DEF ExecuteCustomScript
<1> QED
  BY <1>1, <1>2, <1>3, <1>4, <1>5, <1>6, <1>7, <1>8, <1>9, <1>10, <1>11, <1>12, <1>13
  DEF NodeStep

\* A step of ProvisionBacalhauCluster keeps the types.
LEMMA ClusterStepTypes ==
  ASSUME TypeOK, ClusterStep
  PROVE  TypeOK'
<1> USE DEF TypeOK, Phases, Steps, nodeVars, remoteVars, Goto, Workers, Members
<1>1. CASE FindOrchestratorMachine
  BY <1>1 DEF FindOrchestratorMachine
<1>2. ASSUME NEW m \in Machines, OrchestratorReturns(m)
      PROVE  TypeOK'
  <2>1. PublicIP(m) \in Machines \cup {NoIP}
    BY DEF PublicIP
  <2> QED  BY <1>2, <2>1 DEF OrchestratorReturns
<1>3. ASSUME NEW m \in Machines, LaunchWorker(m)
      PROVE  TypeOK'
  BY <1>3 DEF LaunchWorker
<1>4. ASSUME NEW m \in Machines, WorkerReturns(m)
      PROVE  TypeOK'
  BY <1>4 DEF WorkerReturns
<1>5. CASE Wait
  BY <1>5 DEF Wait
<1> QED
  BY <1>1, <1>2, <1>3, <1>4, <1>5 DEF ClusterStep

\* The initial states are typed.
LEMMA TypingInit ==
  ASSUME Init
  PROVE  TypeOK
<1>1. NewServices \in ServiceTables
  BY DEF NewServices, ServiceTables, ServiceStates
<1>2. InitialServices(deployment) \in ServiceTables
  BY <1>1, SetServiceStateEffect
  DEF InitialServices, ServiceStates, RequiredServices
<1> QED
  BY <1>2 DEF Init, TypeOK, Phases, Steps

\* Every variable keeps its type, in every reachable state.
THEOREM Typing == Spec => []TypeOK
<1>1. Init => TypeOK
  BY TypingInit
<1>2. TypeOK /\ [Next]_vars => TypeOK'
  <2> SUFFICES ASSUME TypeOK, [Next]_vars PROVE TypeOK'
    OBVIOUS
  <2>1. CASE ClusterStep
    BY <2>1, ClusterStepTypes
  <2>2. CASE \E m \in Machines : NodeStep(m)
    BY <2>2, NodeStepTypes
  <2>3. CASE UNCHANGED vars
    BY <2>3 DEF vars, clusterVars, nodeVars, remoteVars, TypeOK, Workers, Members
  <2> QED
    BY <2>1, <2>2, <2>3 DEF Next, Returned
<1> QED
  BY <1>1, <1>2, PTL DEF Spec

------------------------------------------------------------------------------
(* The inductive invariant. *)

\* A node at work: its goroutine, or for the orchestrator the caller itself, is between
\* two commands.
Working(m) == pc[m] \notin {"idle"} \cup Terminal

\* What each step may rely on: the artefacts the steps before it have put in place.
AfterDocker ==
  {"verifyDocker", "corePackages", "metadata", "install", "runScript", "service",
   "verify", "configs", "restart", "script", "done"}
AfterVerifyDocker == AfterDocker \ {"verifyDocker"}
AfterCorePackages == AfterVerifyDocker \ {"corePackages"}
AfterMetadata == AfterCorePackages \ {"metadata"}
AfterInstall == AfterMetadata \ {"install"}
AfterRunScript == AfterInstall \ {"runScript"}
AfterService == AfterRunScript \ {"service"}
AfterConfigs == AfterService \ {"verify", "configs"}
AfterRestart == AfterConfigs \ {"restart"}

Progress(m) ==
  /\ pc[m] \in AfterDocker =>
       "docker" \in installed[m] /\ service[m]["docker"] = "Succeeded"
  /\ pc[m] \in AfterCorePackages => "core-packages" \in installed[m]
  /\ pc[m] \in AfterMetadata => "node-config" \in installed[m]
  /\ pc[m] \in AfterInstall => "bacalhau" \in installed[m]
  /\ pc[m] \in AfterRunScript => "run-script" \in installed[m]
  /\ pc[m] \in AfterService => "unit" \in installed[m]
  /\ pc[m] \in AfterConfigs /\ deployment.settings => "settings" \in installed[m]
  /\ pc[m] \in AfterRestart => Needed \subseteq loaded[m]
  /\ service[m]["bacalhau"] = "Succeeded" <=> pc[m] = "done"

ProgressInv == \A m \in Machines : Progress(m)

\* The orchestrator is provisioned and every worker knows it.
Ready ==
  \A o \in Orchestrators :
    /\ pc[o] = "done"
    /\ \A w \in Workers : nodeIP[w] = o /\ nodeType[w] = "compute"

PhaseInv ==
  /\ phase \in {"find", "orchestrator"} =>
       /\ todo = {} /\ slots = {} /\ groupErr = {}
       /\ \A w \in Workers : pc[w] = "idle"
  /\ phase = "find" => \A m \in Machines : pc[m] = "idle"
  /\ phase \in {"orchestrator", "launch"} => \E o \in Machines : Orchestrators = {o}
  /\ phase = "launch" => Orchestrators \subseteq deployment.addressed
  /\ (phase = "launch" \/ \E w \in Workers : pc[w] # "idle") => Ready
  /\ phase = "launch" =>
       \A w \in Workers : /\ w \in todo \/ w \in slots \/ pc[w] \in Terminal
                          /\ pc[w] = "failed" /\ w \notin slots => groupErr # {}
  /\ \A m \in Machines \ Members : pc[m] = "idle"
  /\ phase = "launch" => \A w \in todo : pc[w] = "idle"
  /\ \A w \in groupErr : pc[w] = "failed"
  /\ phase \in {"ok", "error"} =>
       /\ slots = {}
       /\ \A m \in Machines : ~Working(m)

IInv == TypeOK /\ ProgressInv /\ PhaseInv /\ OkMeansAllProvisioned

\* What a step of a node leaves alone: the rest of the cluster, and for a worker the
\* type and the address it was given.
LEMMA NodeStepFrame ==
  ASSUME TypeOK, NEW m \in Machines, NodeStep(m)
  PROVE  /\ UNCHANGED <<deployment, clusterVars>>
         /\ Working(m) /\ pc'[m] # "idle"
         /\ \A n \in Machines \ {m} :
              /\ pc'[n] = pc[n] /\ service'[n] = service[n]
              /\ nodeIP'[n] = nodeIP[n] /\ nodeType'[n] = nodeType[n]
              /\ installed'[n] = installed[n] /\ loaded'[n] = loaded[n]
         /\ m \in Workers => nodeIP' = nodeIP /\ nodeType' = nodeType
<1> USE DEF TypeOK, Working, Terminal, clusterVars, remoteVars, Goto, Sets, Installs,
            HandleDeploymentError, ProvisionMachineFails
<1>1. CASE CreateSSHConfig(m)
  BY <1>1 DEF CreateSSHConfig, Workers, Orchestrators
<1>2. CASE ProvisionBacalhauNode(m)
  BY <1>2 DEF ProvisionBacalhauNode
<1>3. CASE InstallDocker(m)
  BY <1>3 DEF InstallDocker
<1>4. CASE VerifyDocker(m)
  BY <1>4 DEF VerifyDocker
<1>5. CASE InstallCorePackages(m)
  BY <1>5 DEF InstallCorePackages
<1>6. CASE SetupNodeConfigMetadata(m)
  BY <1>6 DEF SetupNodeConfigMetadata, RunsInstaller
<1>7. CASE InstallBacalhau(m)
  BY <1>7 DEF InstallBacalhau, RunsInstaller
<1>8. CASE InstallBacalhauRunScript(m)
  BY <1>8 DEF InstallBacalhauRunScript, RunsInstaller
<1>9. CASE SetupBacalhauService(m)
  BY <1>9 DEF SetupBacalhauService
<1>10. CASE VerifyBacalhauDeployment(m)
  BY <1>10 DEF VerifyBacalhauDeployment
<1>11. CASE ApplyBacalhauConfigs(m)
  BY <1>11 DEF ApplyBacalhauConfigs
<1>12. CASE RestartService(m)
  BY <1>12 DEF RestartService
<1>13. CASE ExecuteCustomScript(m)
  BY <1>13 DEF ExecuteCustomScript
<1> QED
  BY <1>1, <1>2, <1>3, <1>4, <1>5, <1>6, <1>7, <1>8, <1>9, <1>10, <1>11, <1>12, <1>13
  DEF NodeStep

\* Each step finds what the steps before it have left, and leaves what the next relies
\* on.
LEMMA NodeStepProgress ==
  ASSUME TypeOK, NEW m \in Machines, Progress(m), NodeStep(m)
  PROVE  Progress(m)'
<1> USE DEF TypeOK, Progress, clusterVars, remoteVars, Goto, Sets, Installs, Needed,
            Artefacts, AfterDocker, AfterVerifyDocker, AfterCorePackages, AfterMetadata,
            AfterInstall, AfterRunScript, AfterService, AfterConfigs, AfterRestart
<1>0. /\ service[m] \in ServiceTables
      /\ \A s \in {"docker", "core-packages", "bacalhau", "script"} :
           s \in RequiredServices
      /\ \A state \in {"Updating", "Succeeded", "Failed"} : state \in ServiceStates
  BY DEF RequiredServices, ServiceStates
<1>h. ASSUME HandleDeploymentError(m), deployment' = deployment
      PROVE  Progress(m)'
  <2>1. SetServiceState(service[m], "bacalhau", "Failed")["bacalhau"] = "Failed"
    BY <1>0, SetServiceStateEffect
  <2> QED  BY <1>h, <2>1 DEF HandleDeploymentError
<1>p. ASSUME NEW s \in {"docker", "core-packages"}, ProvisionMachineFails(m, s),
             deployment' = deployment, pc[m] # "done"
      PROVE  Progress(m)'
  <2> DEFINE t == SetServiceState(service[m], s, "Failed")
  <2>1. t \in ServiceTables /\ t["bacalhau"] = service[m]["bacalhau"]
    BY <1>0, SetServiceStateEffect DEF RequiredServices, ServiceStates
  <2>2. UpdateStatus(t, m)["bacalhau"] = t["bacalhau"]
    BY <2>1, UpdateStatusEffect
  <2> HIDE DEF t
  <2>3. service'[m] = UpdateStatus(t, m) /\ pc'[m] = "failed"
    BY <1>p DEF ProvisionMachineFails, t
  <2> QED  BY <1>p, <2>1, <2>2, <2>3
<1>1. CASE CreateSSHConfig(m)
  BY <1>1 DEF CreateSSHConfig
<1>2. CASE ProvisionBacalhauNode(m)
  <2>1. CASE ValidNode(m)
    <3> DEFINE t1 == SetServiceState(service[m], "bacalhau", "Updating")
               t2 == UpdateStatus(t1, m)
               t3 == SetServiceState(t2, "docker", "Updating")
    <3>1. t1 \in ServiceTables /\ t1["bacalhau"] = "Updating"
      BY <1>0, SetServiceStateEffect
    <3>2. t2 \in ServiceTables /\ t2["bacalhau"] = "Updating"
      BY <3>1, UpdateStatusEffect
    <3>3. t3["bacalhau"] = "Updating"
      BY <3>2, <1>0, SetServiceStateEffect DEF RequiredServices, ServiceStates
    <3>4. service'[m] = t3 /\ pc'[m] = "docker"
      BY <1>2, <2>1 DEF ProvisionBacalhauNode
    <3> HIDE DEF t3
    <3> QED  BY <3>3, <3>4
  <2>2. CASE ~ValidNode(m)
    BY <1>2, <2>2, <1>h DEF ProvisionBacalhauNode
  <2> QED  BY <2>1, <2>2
<1>3. CASE InstallDocker(m)
  <2>1. /\ SetServiceState(service[m], "docker", "Succeeded")["docker"] = "Succeeded"
        /\ SetServiceState(service[m], "docker", "Succeeded")["bacalhau"]
             = service[m]["bacalhau"]
    BY <1>0, SetServiceStateEffect
  <2> QED  BY <1>3, <2>1, <1>p DEF InstallDocker
<1>4. CASE VerifyDocker(m)
  <2>1. \A t \in {"docker", "bacalhau"} :
          SetServiceState(service[m], "core-packages", "Updating")[t] = service[m][t]
    BY <1>0, SetServiceStateEffect DEF RequiredServices, ServiceStates
  <2> QED  BY <1>4, <2>1, <1>p DEF VerifyDocker
<1>5. CASE InstallCorePackages(m)
  <2> DEFINE t == SetServiceState(service[m], "core-packages", "Succeeded")
  <2>1. t \in ServiceTables /\ \A u \in {"docker", "bacalhau"} : t[u] = service[m][u]
    BY <1>0, SetServiceStateEffect DEF RequiredServices, ServiceStates
  <2>2. \A u \in {"docker", "bacalhau"} : UpdateStatus(t, m)[u] = service[m][u]
    BY <2>1, UpdateStatusEffect
  <2> QED  BY <1>5, <2>2, <1>p DEF InstallCorePackages
<1>6. CASE SetupNodeConfigMetadata(m)
  BY <1>6, <1>h DEF SetupNodeConfigMetadata, RunsInstaller
<1>7. CASE InstallBacalhau(m)
  BY <1>7, <1>h DEF InstallBacalhau, RunsInstaller
<1>8. CASE InstallBacalhauRunScript(m)
  BY <1>8, <1>h DEF InstallBacalhauRunScript, RunsInstaller
<1>9. CASE SetupBacalhauService(m)
  BY <1>9, <1>h DEF SetupBacalhauService
<1>10. CASE VerifyBacalhauDeployment(m)
  BY <1>10, <1>h DEF VerifyBacalhauDeployment
<1>11. CASE ApplyBacalhauConfigs(m)
  BY <1>11, <1>h DEF ApplyBacalhauConfigs
<1>12. CASE RestartService(m)
  BY <1>12, <1>h DEF RestartService
<1>13. CASE ExecuteCustomScript(m)
  <2> DEFINE t == SetServiceState(service[m], "script", "Succeeded")
  <2>1. /\ SetServiceState(service[m], "bacalhau", "Succeeded")["bacalhau"] = "Succeeded"
        /\ SetServiceState(service[m], "bacalhau", "Succeeded")["docker"]
             = service[m]["docker"]
        /\ t \in ServiceTables /\ t["docker"] = service[m]["docker"]
    BY <1>0, SetServiceStateEffect DEF RequiredServices, ServiceStates
  <2>2. /\ SetServiceState(t, "bacalhau", "Succeeded")["bacalhau"] = "Succeeded"
        /\ SetServiceState(t, "bacalhau", "Succeeded")["docker"] = t["docker"]
    BY <1>0, <2>1, SetServiceStateEffect
  <2> HIDE DEF t
  <2>3. CASE HandleDeploymentError(m)
    BY <1>13, <2>3, <1>h DEF ExecuteCustomScript
  <2>4. CASE ~HandleDeploymentError(m)
    BY <1>13, <2>4, <2>1, <2>2 DEF ExecuteCustomScript, t
  <2> QED  BY <2>3, <2>4
<1> QED
  BY <1>1, <1>2, <1>3, <1>4, <1>5, <1>6, <1>7, <1>8, <1>9, <1>10, <1>11, <1>12, <1>13
  DEF NodeStep

\* A step of ProvisionBacalhauCluster starts idle nodes and changes nothing else that
\* Progress speaks of.
LEMMA ClusterStepProgress ==
  ASSUME IInv, ClusterStep
  PROVE  ProgressInv'
<1>1. UNCHANGED <<deployment, service, installed, loaded>>
  BY DEF ClusterStep, FindOrchestratorMachine, OrchestratorReturns, LaunchWorker,
         WorkerReturns, Wait, remoteVars, nodeVars
<1>2. \A m \in Machines : \/ pc'[m] = pc[m]
                          \/ pc[m] = "idle" /\ pc'[m] = "sshConfig"
  <2>1. CASE FindOrchestratorMachine
    BY <2>1 DEF FindOrchestratorMachine, IInv, PhaseInv
  <2>2. CASE \E m \in Machines : LaunchWorker(m)
    BY <2>2 DEF LaunchWorker, Goto, IInv, PhaseInv, TypeOK
  <2>3. CASE Wait \/ \E m \in Machines : OrchestratorReturns(m) \/ WorkerReturns(m)
    BY <2>3 DEF Wait, OrchestratorReturns, WorkerReturns, nodeVars
  <2> QED
    BY <2>1, <2>2, <2>3 DEF ClusterStep
<1> QED
  BY <1>1, <1>2
  DEF IInv, ProgressInv, Progress, Needed, AfterDocker, AfterVerifyDocker,
      AfterCorePackages, AfterMetadata, AfterInstall, AfterRunScript, AfterService,
      AfterConfigs, AfterRestart

\* A step of a node keeps what the phases say: the orchestrator works in one phase,
\* workers in another, and neither once the call has returned.
LEMMA NodeStepPhase ==
  ASSUME IInv, NEW m \in Machines, NodeStep(m)
  PROVE  PhaseInv' /\ OkMeansAllProvisioned'
<1>1. TypeOK /\ PhaseInv /\ OkMeansAllProvisioned
  BY DEF IInv
<1>2. /\ UNCHANGED <<deployment, phase, orchestratorIP, todo, slots, groupErr>>
      /\ Working(m) /\ pc'[m] # "idle"
      /\ \A n \in Machines \ {m} :
           /\ pc'[n] = pc[n] /\ service'[n] = service[n]
           /\ nodeIP'[n] = nodeIP[n] /\ nodeType'[n] = nodeType[n]
      /\ m \in Workers => nodeIP' = nodeIP /\ nodeType' = nodeType
  BY <1>1, NodeStepFrame DEF clusterVars
<1>3. UNCHANGED <<Members, Orchestrators, Workers>>
  BY <1>2 DEF Members, Orchestrators, Workers
<1>4. /\ phase \in {"orchestrator", "launch"} /\ m \in Members
      /\ pc[m] \notin {"idle", "done", "failed"}
  BY <1>1, <1>2 DEF TypeOK, Phases, PhaseInv, Working, Terminal
<1>5. CASE m \in Workers
  <2>1. phase = "launch" /\ Ready
    BY <1>1, <1>4, <1>5 DEF PhaseInv
  <2>2. m \in slots /\ m \notin todo
    BY <1>1, <1>4, <1>5, <2>1 DEF PhaseInv, Terminal
  <2>3. Ready'
    BY <1>1, <1>2, <1>3, <1>5, <2>1
    DEF Ready, Orchestrators, Workers, Members
  <2> QED
    BY <1>1, <1>2, <1>3, <1>4, <1>5, <2>1, <2>2, <2>3
    DEF PhaseInv, OkMeansAllProvisioned, Working, Terminal, TypeOK, Workers, Members
<1>6. CASE m \notin Workers
  <2>1. m \in Orchestrators
    BY <1>4, <1>6 DEF Workers, Orchestrators, Members
  <2>2. phase = "orchestrator"
    BY <1>1, <1>4, <2>1 DEF PhaseInv, Ready
  <2>3. \A w \in Workers : pc'[w] = "idle"
    BY <1>1, <1>2, <1>6, <2>2 DEF PhaseInv, Workers, Members
  <2> QED
    BY <1>1, <1>2, <1>3, <1>4, <1>6, <2>2, <2>3
    DEF PhaseInv, OkMeansAllProvisioned, Workers, Members
<1> QED
  BY <1>5, <1>6

\* A step of ProvisionBacalhauCluster keeps them too.
LEMMA ClusterStepPhase ==
  ASSUME IInv, ClusterStep
  PROVE  PhaseInv' /\ OkMeansAllProvisioned'
<1>1. TypeOK /\ ProgressInv /\ PhaseInv /\ OkMeansAllProvisioned
  BY DEF IInv
<1>2. UNCHANGED <<deployment, service, Members, Orchestrators, Workers>>
  BY DEF ClusterStep, FindOrchestratorMachine, OrchestratorReturns, LaunchWorker,
         WorkerReturns, Wait, remoteVars, nodeVars, Members, Orchestrators, Workers
<1>3. /\ Workers \cap Orchestrators = {} /\ Members = Workers \cup Orchestrators
      /\ Members \subseteq Machines
  BY DEF Members, Orchestrators, Workers
<1>4. CASE FindOrchestratorMachine
  <2>1. CASE Cardinality(Orchestrators) = 1
    <3>1. IsFiniteSet(Orchestrators)
      BY MachinesAssumption, FS_Subset DEF Orchestrators, Members
    <3>2. PICK o : Orchestrators = {o}
      BY <2>1, <3>1, FS_Singleton
    <3>3. o \in Machines
      BY <1>3, <3>2
    <3> QED
      BY <1>1, <1>2, <1>3, <1>4, <2>1, <3>2, <3>3
      DEF FindOrchestratorMachine, PhaseInv, OkMeansAllProvisioned, TypeOK
  <2>2. CASE Cardinality(Orchestrators) # 1
    BY <1>1, <1>2, <1>3, <1>4, <2>2
    DEF FindOrchestratorMachine, PhaseInv, OkMeansAllProvisioned, Working
  <2> QED  BY <2>1, <2>2
<1>5. ASSUME NEW o \in Machines, OrchestratorReturns(o)
      PROVE  PhaseInv' /\ OkMeansAllProvisioned'
  <2>1. Orchestrators = {o} /\ phase = "orchestrator" /\ pc[o] \in Terminal
    BY <1>1, <1>5 DEF OrchestratorReturns, PhaseInv
  <2>2. /\ pc' = pc /\ slots' = {} /\ groupErr' = {}
        /\ \A w \in Workers : pc[w] = "idle"
        /\ \A m \in Machines \ {o} : pc[m] = "idle"
    BY <1>1, <1>3, <1>5, <2>1 DEF OrchestratorReturns, PhaseInv
  <2>3. CASE pc[o] = "failed"
    BY <1>1, <1>2, <1>3, <1>5, <2>1, <2>2, <2>3
    DEF OrchestratorReturns, PhaseInv, OkMeansAllProvisioned, Working, Terminal
  <2>4. CASE pc[o] = "done" /\ PublicIP(o) = NoIP
    <3>1. phase' = "ok" /\ orchestratorIP' = NoIP
      BY <1>5, <2>4 DEF OrchestratorReturns
    <3>2. service[o]["bacalhau"] = "Succeeded"
      BY <1>1, <2>4 DEF ProgressInv, Progress
    <3> QED
      BY <1>1, <1>2, <1>3, <2>1, <2>2, <2>4, <3>1, <3>2
      DEF PhaseInv, OkMeansAllProvisioned, Working, Terminal
  <2>5. CASE pc[o] = "done" /\ PublicIP(o) # NoIP
    <3>1. /\ phase' = "launch" /\ todo' = Workers
          /\ nodeIP' = [m \in Machines |-> IF m \in Members THEN o ELSE nodeIP[m]]
          /\ nodeType' = [m \in Machines |->
                            IF m \in Workers THEN "compute" ELSE nodeType[m]]
      BY <1>5, <2>5 DEF OrchestratorReturns, PublicIP
    <3>2. Ready'
      BY <1>2, <1>3, <2>1, <2>2, <2>5, <3>1 DEF Ready
    <3>3. Orchestrators \subseteq deployment.addressed
      BY <2>1, <2>5 DEF PublicIP
    <3> QED
      BY <1>1, <1>2, <1>3, <2>1, <2>2, <3>1, <3>2, <3>3
      DEF PhaseInv, OkMeansAllProvisioned
  <2> QED
    BY <2>1, <2>3, <2>4, <2>5 DEF Terminal
<1>6. ASSUME NEW m \in Machines, LaunchWorker(m)
      PROVE  PhaseInv' /\ OkMeansAllProvisioned'
  <2>1. /\ phase = "launch" /\ m \in todo /\ m \in Workers /\ Ready
        /\ pc[m] = "idle" /\ pc' = [pc EXCEPT ![m] = "sshConfig"]
        /\ todo' = todo \ {m} /\ slots' = slots \cup {m}
        /\ UNCHANGED <<phase, orchestratorIP, groupErr, nodeIP, nodeType>>
    BY <1>1, <1>6 DEF LaunchWorker, Goto, PhaseInv, TypeOK
  <2>2. Ready'
    BY <1>1, <1>2, <1>3, <2>1 DEF Ready, TypeOK
  <2> QED
    BY <1>1, <1>2, <1>3, <2>1, <2>2
    DEF PhaseInv, OkMeansAllProvisioned, TypeOK, Terminal
<1>7. ASSUME NEW m \in Machines, WorkerReturns(m)
      PROVE  PhaseInv' /\ OkMeansAllProvisioned'
  <2>1. /\ m \in slots /\ pc[m] \in Terminal /\ slots' = slots \ {m}
        /\ UNCHANGED <<phase, orchestratorIP, todo, pc, nodeIP, nodeType>>
        /\ groupErr' = IF pc[m] = "failed" /\ groupErr = {} THEN {m} ELSE groupErr
    BY <1>7 DEF WorkerReturns, nodeVars
  <2>2. phase = "launch"
    BY <1>1, <2>1 DEF PhaseInv, TypeOK, Phases
  <2>3. Ready'
    BY <1>1, <1>2, <2>1, <2>2 DEF PhaseInv, Ready
  <2> QED
    BY <1>1, <1>2, <1>3, <2>1, <2>2, <2>3
    DEF PhaseInv, OkMeansAllProvisioned, Terminal
<1>8. CASE Wait
  <2>1. /\ phase = "launch" /\ todo = {} /\ slots = {} /\ Ready
        /\ phase' = IF groupErr = {} THEN "ok" ELSE "error"
        /\ UNCHANGED <<orchestratorIP, todo, slots, groupErr, pc, nodeIP, nodeType>>
    BY <1>1, <1>8 DEF Wait, nodeVars, PhaseInv
  <2>2. Ready'
    BY <1>2, <2>1 DEF Ready
  <2>3. /\ \A w \in Workers : pc[w] \in Terminal
        /\ \A w \in Workers : pc[w] = "failed" => groupErr # {}
        /\ \A q \in Orchestrators : pc[q] = "done"
    BY <1>1, <2>1 DEF PhaseInv, Ready
  <2>4. \A m \in Machines : pc[m] \in {"idle"} \cup Terminal
    BY <1>1, <1>3, <2>3 DEF PhaseInv, Terminal
  <2>5. groupErr = {} => \A m \in Members : service[m]["bacalhau"] = "Succeeded"
    BY <1>1, <1>3, <2>3 DEF ProgressInv, Progress, Terminal
  <2> QED
    BY <1>1, <1>2, <1>3, <2>1, <2>2, <2>4, <2>5
    DEF PhaseInv, OkMeansAllProvisioned, Working
<1> QED
  BY <1>4, <1>5, <1>6, <1>7, <1>8 DEF ClusterStep

\* The invariant holds in every reachable state.
LEMMA Invariance == Spec => []IInv
<1>1. Init => IInv
  <2> SUFFICES ASSUME Init PROVE IInv
    OBVIOUS
  <2>1. InitialServices(deployment)["bacalhau"] = "NotStarted"
    BY DEF InitialServices, NewServices, SetServiceState, RequiredServices
  <2>2. ProgressInv
    BY <2>1
    DEF Init, ProgressInv, Progress, AfterDocker, AfterVerifyDocker,
        AfterCorePackages, AfterMetadata, AfterInstall, AfterRunScript, AfterService,
        AfterConfigs, AfterRestart
  <2>3. PhaseInv /\ OkMeansAllProvisioned
    BY DEF Init, PhaseInv, OkMeansAllProvisioned, Workers, Members
  <2>4. TypeOK
    BY TypingInit
  <2> QED  BY <2>2, <2>3, <2>4 DEF IInv
<1>2. IInv /\ [Next]_vars => IInv'
  <2> SUFFICES ASSUME IInv, [Next]_vars PROVE IInv'
    OBVIOUS
  <2>0. TypeOK /\ ProgressInv
    BY DEF IInv
  <2>1. CASE ClusterStep
    BY <2>0, <2>1, ClusterStepTypes, ClusterStepProgress, ClusterStepPhase DEF IInv
  <2>2. ASSUME NEW m \in Machines, NodeStep(m)
        PROVE  IInv'
    <3>1. Progress(m)'
      BY <2>0, <2>2, NodeStepProgress DEF ProgressInv
    <3>2. ASSUME NEW n \in Machines \ {m}
          PROVE  Progress(n)'
      <4>1. /\ deployment' = deployment /\ pc'[n] = pc[n] /\ service'[n] = service[n]
            /\ installed'[n] = installed[n] /\ loaded'[n] = loaded[n]
        BY <2>0, <2>2, NodeStepFrame
      <4> QED  BY <2>0, <4>1 DEF ProgressInv, Progress, Needed
    <3>3. ProgressInv'
      BY <3>1, <3>2 DEF ProgressInv
    <3> QED
      BY <2>0, <2>2, <3>3, NodeStepTypes, NodeStepPhase DEF IInv
  <2>3. CASE UNCHANGED vars
    BY <2>3
    DEF vars, clusterVars, nodeVars, remoteVars, IInv, TypeOK, ProgressInv, Progress,
        PhaseInv, OkMeansAllProvisioned, Working, Ready, Needed, Workers, Orchestrators,
        Members
  <2> QED
    BY <2>1, <2>2, <2>3 DEF Next, Returned
<1> QED
  BY <1>1, <1>2, PTL DEF Spec

------------------------------------------------------------------------------
(* What follows. *)

\* No worker is touched before the orchestrator is up and known to it.
THEOREM OrchestratorFirst == Spec => []WorkersFollowOrchestrator
<1>1. IInv => WorkersFollowOrchestrator
  <2> SUFFICES ASSUME IInv, NEW w \in Workers, pc[w] # "idle", NEW o \in Orchestrators
               PROVE  /\ pc[o] = "done" /\ service[o]["bacalhau"] = "Succeeded"
                      /\ loaded[o] # {} /\ nodeIP[w] = o /\ nodeType[w] = "compute"
    BY DEF WorkersFollowOrchestrator
  <2>1. Ready /\ o \in Machines
    BY DEF IInv, PhaseInv, Orchestrators, Members
  <2>2. pc[o] = "done" /\ nodeIP[w] = o /\ nodeType[w] = "compute"
    BY <2>1 DEF Ready
  <2>3. service[o]["bacalhau"] = "Succeeded" /\ Needed \subseteq loaded[o]
    BY <2>1, <2>2
    DEF IInv, ProgressInv, Progress, AfterDocker, AfterVerifyDocker, AfterCorePackages,
        AfterMetadata, AfterInstall, AfterRunScript, AfterService, AfterConfigs,
        AfterRestart
  <2>4. "unit" \in Needed
    BY DEF Needed, Artefacts
  <2> QED  BY <2>2, <2>3, <2>4
<1> QED
  BY <1>1, Invariance, PTL

\* A bacalhau service that reads Succeeded runs with all that was installed.
THEOREM SucceededServes == Spec => []SucceededMeansServing
<1>1. IInv => SucceededMeansServing
  BY DEF IInv, SucceededMeansServing, ProgressInv, Progress, AfterDocker,
         AfterVerifyDocker, AfterCorePackages, AfterMetadata, AfterInstall,
         AfterRunScript, AfterService, AfterConfigs, AfterRestart
<1> QED
  BY <1>1, Invariance, PTL

\* The nil that ProvisionBacalhauCluster returns stands for provisioned machines.
THEOREM OkIsTruthful == Spec => []OkMeansAllProvisioned
<1>1. IInv => OkMeansAllProvisioned
  BY DEF IInv
<1> QED
  BY <1>1, Invariance, PTL

\* No step of any goroutine follows the return.
THEOREM ReturnIsFinal == Spec => NothingRunsAfterReturn
<1>1. IInv /\ [Next]_vars => [phase \notin {"ok", "error"}]_vars
  <2> SUFFICES ASSUME IInv, Next, phase \in {"ok", "error"}
               PROVE  UNCHANGED vars
    OBVIOUS
  <2>1. ASSUME NEW m \in Machines, NodeStep(m)
        PROVE  FALSE
    BY <2>1, NodeStepFrame DEF IInv, PhaseInv
  <2>2. CASE ClusterStep
    BY <2>2
    DEF IInv, PhaseInv, ClusterStep, FindOrchestratorMachine, OrchestratorReturns,
        LaunchWorker, WorkerReturns, Wait
  <2> QED
    BY <2>1, <2>2 DEF Next, Returned
<1> QED
  BY <1>1, Invariance, PTL DEF Spec, NothingRunsAfterReturn

\* No worker is given up because of another: at the return each has ended, well or not.
THEOREM EveryWorkerIsTried == Spec => []EveryWorkerTried
<1> DEFINE Tried == /\ EveryWorkerTried
                    /\ phase \in {"find", "orchestrator"} => orchestratorIP = NoIP
<1>1. Init => Tried
  BY DEF Init, EveryWorkerTried
<1>2. IInv /\ Tried /\ [Next]_vars => Tried'
  <2> SUFFICES ASSUME IInv, Tried, [Next]_vars
               PROVE  Tried'
    OBVIOUS
  <2>1. TypeOK /\ PhaseInv
    BY DEF IInv
  <2>2. CASE ClusterStep
    <3>1. UNCHANGED Workers
      BY <2>2 DEF ClusterStep, FindOrchestratorMachine, OrchestratorReturns, LaunchWorker,
                  WorkerReturns, Wait, Workers, Members
    <3>2. CASE FindOrchestratorMachine
      BY <3>2 DEF FindOrchestratorMachine, EveryWorkerTried
    <3>3. ASSUME NEW o \in Machines, OrchestratorReturns(o)
          PROVE  Tried'
      BY <3>3 DEF OrchestratorReturns, EveryWorkerTried
    <3>4. ASSUME NEW m \in Machines, LaunchWorker(m)
          PROVE  Tried'
      BY <3>4 DEF LaunchWorker, EveryWorkerTried
    <3>5. ASSUME NEW m \in Machines, WorkerReturns(m)
          PROVE  Tried'
      BY <3>1, <3>5 DEF WorkerReturns, nodeVars, EveryWorkerTried
    <3>6. CASE Wait
      <4>1. \A w \in Workers : pc[w] \in Terminal
        BY <2>1, <3>6 DEF Wait, PhaseInv
      <4> QED  BY <3>1, <3>6, <4>1 DEF Wait, nodeVars, EveryWorkerTried
    <3> QED  BY <2>2, <3>2, <3>3, <3>4, <3>5, <3>6 DEF ClusterStep
  <2>3. ASSUME NEW m \in Machines, NodeStep(m)
        PROVE  Tried'
    <3>1. UNCHANGED clusterVars /\ Working(m)
      BY <2>1, <2>3, NodeStepFrame
    <3>2. phase \notin {"ok", "error"}
      BY <2>1, <3>1 DEF PhaseInv
    <3> QED  BY <3>1, <3>2 DEF clusterVars, EveryWorkerTried
  <2>4. CASE UNCHANGED vars
    BY <2>4 DEF vars, clusterVars, nodeVars, EveryWorkerTried, Workers, Members
  <2> QED
    BY <2>2, <2>3, <2>4 DEF Next, Returned
<1>3. Tried => EveryWorkerTried
  OBVIOUS
<1> QED
  BY <1>1, <1>2, <1>3, Invariance, PTL DEF Spec

------------------------------------------------------------------------------
(* ClusterDeployer implements ClusterProvisioning. *)

\* The instance brings its own copy of Cardinality.
LEMMA SameCardinality ==
  ASSUME NEW S
  PROVE  Cluster!Cardinality(S) = Cardinality(S)
  BY DEF Cardinality, Cluster!Cardinality

\* A step of a node leaves the abstract machine at work, or finishes it.
LEMMA NodeStepRefines ==
  ASSUME IInv, NEW m \in Machines, NodeStep(m)
  PROVE  [Cluster!Next]_(Cluster!vars)
<1>1. /\ UNCHANGED <<deployment, phase>> /\ Working(m) /\ pc'[m] # "idle"
      /\ \A n \in Machines \ {m} : pc'[n] = pc[n]
  BY NodeStepFrame DEF IInv, clusterVars
<1>2. pc[m] \in Steps /\ pc'[m] \in Steps
  BY NodeStepTypes DEF IInv, TypeOK
<1>3. UNCHANGED <<Members, deployment.orchestrators, deployment.addressed,
                  IF phase \in {"ok", "error"} THEN phase ELSE "pending">>
  BY <1>1 DEF Members
<1>4. Status[m] = "provisioning"
  BY <1>1 DEF Status, Working, Terminal
<1>5. CASE pc'[m] \in Terminal
  <2>1. \E r \in {"provisioned", "failed"} : Status' = [Status EXCEPT ![m] = r]
    BY <1>1, <1>5 DEF Status, Terminal
  <2>2. Cluster!Finish(m)
    BY <1>3, <1>4, <2>1 DEF Cluster!Finish
  <2> QED  BY <2>2 DEF Cluster!Next
<1>6. CASE pc'[m] \notin Terminal
  <2>1. Status' = Status
    BY <1>1, <1>6 DEF Status, Working, Terminal
  <2> QED  BY <1>3, <2>1 DEF Cluster!vars
<1> QED
  BY <1>5, <1>6

\* Finding, launching and waiting are Start and Announce; the rest is bookkeeping.
LEMMA ClusterStepRefines ==
  ASSUME IInv, ClusterStep
  PROVE  [Cluster!Next]_(Cluster!vars)
<1> DEFINE Outcome == IF phase \in {"ok", "error"} THEN phase ELSE "pending"
<1>0. /\ TypeOK /\ PhaseInv
      /\ Workers \cap Orchestrators = {} /\ Members = Workers \cup Orchestrators
      /\ Members \subseteq Machines
      /\ Orchestrators = Members \cap deployment.orchestrators
      /\ Workers = Members \ deployment.orchestrators
  BY DEF IInv, Members, Orchestrators, Workers
<1>1. UNCHANGED <<deployment, Members>>
  BY DEF ClusterStep, FindOrchestratorMachine, OrchestratorReturns, LaunchWorker,
         WorkerReturns, Wait, Members
<1>o. ASSUME NEW o \in Machines, Orchestrators = {o}
      PROVE  Cardinality(Orchestrators) = 1
  BY <1>o, FS_Singleton
<1>2. CASE FindOrchestratorMachine
  <2>1. CASE Cardinality(Orchestrators) = 1
    <3>1. IsFiniteSet(Orchestrators)
      BY <1>0, MachinesAssumption, FS_Subset
    <3>2. PICK o : Orchestrators = {o}
      BY <2>1, <3>1, FS_Singleton
    <3>3. o \in Machines /\ Status[o] = "waiting"
      BY <1>0, <1>2, <3>2 DEF FindOrchestratorMachine, PhaseInv, Status
    <3>4. Status' = [Status EXCEPT ![o] = "provisioning"]
      BY <1>2, <2>1, <3>2 DEF FindOrchestratorMachine, Status
    <3>5. Outcome = "pending" /\ Outcome' = "pending"
      BY <1>2, <2>1 DEF FindOrchestratorMachine
    <3>6. Cluster!Start(o)
      BY <1>0, <1>1, <3>2, <3>3, <3>4, <3>5, SameCardinality DEF Cluster!Start, Cluster!Leaders
    <3> QED  BY <3>3, <3>6 DEF Cluster!Next
  <2>2. CASE Cardinality(Orchestrators) # 1
    <3>1. Outcome = "pending" /\ Outcome' = "error" /\ Status' = Status
      BY <1>2, <2>2 DEF FindOrchestratorMachine, Status
    <3>2. Cluster!Announce
      BY <1>0, <1>1, <2>2, <3>1, SameCardinality DEF Cluster!Announce, Cluster!Leaders
    <3> QED  BY <3>2 DEF Cluster!Next
  <2> QED  BY <2>1, <2>2
<1>3. ASSUME NEW o \in Machines, OrchestratorReturns(o)
      PROVE  [Cluster!Next]_(Cluster!vars)
  <2>1. Orchestrators = {o} /\ phase = "orchestrator" /\ Outcome = "pending"
    BY <1>0, <1>3 DEF OrchestratorReturns, PhaseInv
  <2>2. Status' = Status
    BY <1>3 DEF OrchestratorReturns, Status
  <2>3. CASE pc[o] = "failed"
    <3>1. Outcome' = "error"
      BY <1>3, <2>3 DEF OrchestratorReturns
    <3>2. Status[o] = "failed"
      BY <2>3 DEF Status
    <3>3. Cluster!Finished
      BY <1>0, <2>1, <3>2 DEF Cluster!Finished, Cluster!Leaders
    <3>4. Cluster!Announce
      BY <1>0, <1>1, <1>o, <2>1, <2>2, <3>1, <3>2, <3>3, SameCardinality
      DEF Cluster!Announce, Cluster!Leaders
    <3> QED  BY <3>4 DEF Cluster!Next
  <2>4. CASE pc[o] = "done" /\ PublicIP(o) = NoIP
    <3>1. Outcome' = "ok"
      BY <1>3, <2>4 DEF OrchestratorReturns
    <3>2. Status[o] = "provisioned" /\ \A w \in Workers : Status[w] = "waiting"
      BY <1>0, <2>1, <2>4 DEF Status, PhaseInv
    <3>3. o \notin deployment.addressed
      BY <2>4, AddressAssumption DEF PublicIP
    <3>4. Cluster!Finished
      BY <1>0, <2>1, <3>2, <3>3 DEF Cluster!Finished, Cluster!Leaders
    <3>5. Cluster!Announce
      BY <1>0, <1>1, <1>o, <2>1, <2>2, <3>1, <3>2, <3>4, SameCardinality
      DEF Cluster!Announce, Cluster!Leaders
    <3> QED  BY <3>5 DEF Cluster!Next
  <2>5. CASE pc[o] = "done" /\ PublicIP(o) # NoIP
    <3>1. Outcome' = Outcome
      BY <1>3, <2>1, <2>5 DEF OrchestratorReturns
    <3> QED  BY <1>1, <2>2, <3>1 DEF Cluster!vars
  <2> QED
    BY <1>3, <2>3, <2>4, <2>5 DEF OrchestratorReturns, Terminal
<1>4. ASSUME NEW m \in Machines, LaunchWorker(m)
      PROVE  [Cluster!Next]_(Cluster!vars)
  <2>1. /\ phase = "launch" /\ m \in todo /\ m \in Workers /\ Ready
        /\ pc[m] = "idle" /\ pc' = [pc EXCEPT ![m] = "sshConfig"] /\ phase' = phase
        /\ Cardinality(slots) < Limit
    BY <1>0, <1>4 DEF LaunchWorker, Goto, PhaseInv, TypeOK
  <2>2. Status[m] = "waiting" /\ Status' = [Status EXCEPT ![m] = "provisioning"]
    BY <1>0, <2>1 DEF Status, TypeOK
  <2>3. Cluster!Busy \subseteq slots
    <3> SUFFICES ASSUME NEW n \in Machines, Status[n] = "provisioning"
                 PROVE  n \in slots
      BY DEF Cluster!Busy
    <3>1. Working(n)
      BY DEF Status, Working, Terminal
    <3>2. n \in Workers
      BY <1>0, <2>1, <3>1 DEF PhaseInv, Ready, Working, Terminal
    <3> QED  BY <1>0, <2>1, <3>1, <3>2 DEF PhaseInv, Working
  <2>4. Cardinality(Cluster!Busy) < Limit
    <3>1. IsFiniteSet(slots)
      BY <1>0, MachinesAssumption, FS_Subset DEF TypeOK
    <3>2. /\ Cardinality(Cluster!Busy) <= Cardinality(slots)
          /\ Cardinality(Cluster!Busy) \in Nat /\ Cardinality(slots) \in Nat
      BY <2>3, <3>1, FS_Subset, FS_CardinalityType
    <3> QED  BY <2>1, <3>2, LimitAssumption
  <2>5. PICK o \in Machines : Orchestrators = {o}
    BY <1>0, <2>1 DEF PhaseInv
  <2>6. o \in deployment.addressed /\ Status[o] = "provisioned"
    BY <1>0, <2>1, <2>5 DEF PhaseInv, Ready, Status
  <2>7. Outcome = "pending" /\ Outcome' = "pending"
    BY <2>1
  <2>8. Cluster!Start(m)
    BY <1>0, <1>1, <1>o, <2>1, <2>2, <2>4, <2>5, <2>6, <2>7, SameCardinality
    DEF Cluster!Start, Cluster!Leaders, Cluster!Followers
  <2> QED  BY <2>8 DEF Cluster!Next
<1>5. ASSUME NEW m \in Machines, WorkerReturns(m)
      PROVE  [Cluster!Next]_(Cluster!vars)
  <2>1. UNCHANGED <<Status, Outcome>>
    BY <1>5 DEF WorkerReturns, nodeVars, Status
  <2> QED  BY <1>1, <2>1 DEF Cluster!vars
<1>6. CASE Wait
  <2>1. /\ phase = "launch" /\ todo = {} /\ slots = {} /\ Ready /\ Status' = Status
        /\ Outcome = "pending"
        /\ Outcome' = IF groupErr = {} THEN "ok" ELSE "error"
    BY <1>0, <1>6 DEF Wait, nodeVars, PhaseInv, Status
  <2>2. PICK o \in Machines : Orchestrators = {o}
    BY <1>0, <2>1 DEF PhaseInv
  <2>3. /\ Status[o] = "provisioned"
        /\ \A w \in Workers : Status[w] \in {"provisioned", "failed"}
        /\ groupErr = {} => \A w \in Workers : Status[w] # "failed"
        /\ groupErr # {} => \E w \in Workers : Status[w] = "failed"
    BY <1>0, <2>1, <2>2 DEF PhaseInv, TypeOK, Ready, Status, Terminal
  <2>4. Cluster!Finished
    BY <1>0, <2>2, <2>3 DEF Cluster!Finished, Cluster!Leaders, Cluster!Followers
  <2>5. Cluster!Announce
    BY <1>0, <1>1, <1>o, <2>1, <2>2, <2>3, <2>4, SameCardinality
    DEF Cluster!Announce, Cluster!Leaders
  <2> QED  BY <2>5 DEF Cluster!Next
<1> QED
  BY <1>2, <1>3, <1>4, <1>5, <1>6 DEF ClusterStep

\* Provisioning as the code does it is provisioning as ClusterProvisioning promises it.
THEOREM Refinement == Spec => ImplementsClusterProvisioning
<1>1. Init => Cluster!Init
  BY DeploymentsAssumption
  DEF Init, Cluster!Init, Status, Members, DeploymentRecords
<1>2. IInv /\ [Next]_vars => [Cluster!Next]_(Cluster!vars)
  <2> SUFFICES ASSUME IInv, [Next]_vars
               PROVE  [Cluster!Next]_(Cluster!vars)
    OBVIOUS
  <2>1. CASE ClusterStep
    BY <2>1, ClusterStepRefines
  <2>2. CASE \E m \in Machines : NodeStep(m)
    BY <2>2, NodeStepRefines
  <2>3. CASE UNCHANGED vars
    BY <2>3 DEF vars, clusterVars, nodeVars, Cluster!vars, Status, Members
  <2> QED
    BY <2>1, <2>2, <2>3 DEF Next, Returned
<1> QED
  BY <1>1, <1>2, Invariance, PTL DEF Spec, Cluster!Spec, ImplementsClusterProvisioning
==============================================================================
