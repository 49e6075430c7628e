----------------------------- MODULE CreateCommand -----------------------------
(***************************************************************************)
(* `create` of the three providers (create_deployment.go below cmd/beta):  *)
(* the command's own goroutine runs the display, the deployment runs       *)
(* beside it and tells the display to quit, and both write the             *)
(* configuration file.                                                     *)
(* What the deployment creates is abstracted to whether the cloud has it.  *)
(***************************************************************************)
EXTENDS ConfigFile

VARIABLES
  main,          \* ExecuteCreateDeployment
  made,          \* the deployment it creates
  worker,        \* the goroutine of runDeploymentAsync
  saving,        \* os.WriteFile, for each of the two
  receiver,      \* handleKeyEvents waits on quitChan
  asked,         \* the display has been told to quit
  displayErr,    \* prog.Run returned an error
  deploymentErr,
  cancelled,     \* the context of the command
  signalled

mainVars == <<main, made>>
saveVars == <<file, draft, saving>>
displayVars == <<receiver, asked, displayErr>>
contextVars == <<deploymentErr, cancelled, signalled>>
createVars == <<mainVars, worker, saving, displayVars, contextVars>>

Savers == {Main, Worker}
MainSteps == {"prepare", "prepared", "display", "join", "save", "saved"}

CreateInit ==
  /\ main = "off" /\ made = Main /\ worker = "none"
  /\ saving = [w \in Savers |-> "no"]
  /\ receiver = FALSE /\ asked = FALSE /\ displayErr = FALSE
  /\ deploymentErr = FALSE /\ cancelled = FALSE /\ signalled = FALSE

CreateRunning == main \in MainSteps

------------------------------------------------------------------------------
(* Writing the file. *)

\* w starts a viper.WriteConfig of what viper holds.
BeginSave(w, c) ==
  /\ Draft(w, c)
  /\ saving' = [saving EXCEPT ![w] = "truncate"]

TruncateSave(w) ==
  /\ CreateRunning
  /\ saving[w] = "truncate"
  /\ Truncate
  /\ saving' = [saving EXCEPT ![w] = "write"]
  /\ UNCHANGED <<viper, draft, cloud, mainVars, worker, displayVars, contextVars>>

\* The regions of an AWS deployment are goroutines that save on their own.
WriteSave(w) ==
  /\ CreateRunning
  /\ saving[w] = "write"
  /\ \/ Write(w)
     \/ w = Worker /\ Provider[made] = "aws" /\ worker = "provisioning" /\ file' = Torn
  /\ draft' = [draft EXCEPT ![w] = Empty]
  /\ saving' = [saving EXCEPT ![w] = "no"]
  /\ UNCHANGED <<viper, cloud, mainVars, worker, displayVars, contextVars>>

------------------------------------------------------------------------------
(* The command until the display runs. *)

WithRecord == [viper EXCEPT !.records = @ \cup {made}]

EndMain(end) ==
  /\ main' = end
  /\ UNCHANGED <<fileVars, cloud, made, worker, saving, displayVars, contextVars>>

\* The unique ID is new.  A GCP command needs the section that destroy removes.
RunCreate(d) ==
  /\ main = "off"
  /\ cloud[d] = "absent"
  /\ file # Torn /\ viper' = file
  /\ d \notin viper'.records
  /\ main' \in {"prepare", "ended"}
  /\ Provider[d] = "gcp" /\ ~viper'.gcp => main' = "ended"
  /\ made' = d
  /\ UNCHANGED <<file, draft, cloud, worker, saving, displayVars, contextVars>>

\* PrepareDeployment: UpdateViperConfig sets the record and writes the file.
PrepareDeployment ==
  /\ main = "prepare"
  /\ \/ EndMain("ended")
     \/ /\ viper' = WithRecord
        /\ BeginSave(Main, viper')
        /\ main' = "prepared"
        /\ UNCHANGED <<file, cloud, made, worker, displayVars, contextVars>>

\* ProcessMachinesConfig, then NewDisplayModel with its receiver, InitProgram, the polling
\* and the deployment's goroutine.
StartDisplay ==
  /\ main = "prepared" /\ saving[Main] = "no"
  /\ \/ EndMain("ended")
     \/ /\ main' = "display"
        /\ worker' = "start"
        /\ receiver' = TRUE
        /\ UNCHANGED <<fileVars, cloud, made, saving, asked, displayErr, contextVars>>

------------------------------------------------------------------------------
(* The deployment's goroutine. *)

WorkerUnchanged == UNCHANGED <<viper, mainVars, receiver, asked, displayErr, signalled>>

\* cancel() and close(deploymentDone).
Failed ==
  /\ deploymentErr' = TRUE /\ cancelled' = TRUE
  /\ worker' = "done"

BeginDeployment ==
  /\ CreateRunning
  /\ worker = "start"
  /\ worker' = IF cancelled THEN "done" ELSE "creating"
  /\ UNCHANGED <<saveVars, cloud, deploymentErr, cancelled>>
  /\ WorkerUnchanged

\* CreateInfrastructure of AWS finds a region with too few zones.
RefuseRegion ==
  /\ CreateRunning
  /\ worker = "creating" /\ Provider[made] = "aws"
  /\ worker' = "quit"
  /\ deploymentErr' = TRUE
  /\ UNCHANGED <<saveVars, cloud, cancelled>>
  /\ WorkerUnchanged

\* The project, group or network and the machines, saved; a failure may leave some of them.
CreateResources ==
  /\ CreateRunning
  /\ worker = "creating"
  /\ \/ /\ Failed
        /\ UNCHANGED saveVars
        /\ cloud' \in {cloud, [cloud EXCEPT ![made] = "active"]}
     \/ /\ worker' = "provisioning"
        /\ BeginSave(Worker, viper)
        /\ cloud' = [cloud EXCEPT ![made] = "active"]
        /\ UNCHANGED <<file, deploymentErr, cancelled>>
  /\ WorkerUnchanged

\* GCP and Azure save the machines again.
ProvisionCluster ==
  /\ CreateRunning
  /\ worker = "provisioning" /\ saving[Worker] = "no"
  /\ \/ Failed /\ UNCHANGED saveVars
     \/ /\ worker' = "finalizing"
        /\ IF Provider[made] = "aws" THEN UNCHANGED saveVars
           ELSE BeginSave(Worker, viper) /\ UNCHANGED file
        /\ UNCHANGED <<deploymentErr, cancelled>>
  /\ UNCHANGED cloud
  /\ WorkerUnchanged

\* FinalizeDeployment.
FinalizeDeployment ==
  /\ CreateRunning
  /\ worker = "finalizing" /\ saving[Worker] = "no"
  /\ \/ Failed
     \/ worker' = "quit" /\ UNCHANGED <<deploymentErr, cancelled>>
  /\ UNCHANGED <<saveVars, cloud>>
  /\ WorkerUnchanged

\* Quit sends on the unbuffered quitChan before it calls tea's Quit.
Quit ==
  /\ CreateRunning
  /\ worker = "quit"
  /\ receiver
  /\ receiver' = FALSE
  /\ asked' = TRUE
  /\ worker' = "done"
  /\ cancelled' = (cancelled \/ deploymentErr)
  /\ UNCHANGED <<fileVars, cloud, mainVars, saving, displayErr, deploymentErr, signalled>>

------------------------------------------------------------------------------
(* The display and what follows it. *)

\* Mutant: Update hands keys on to handleKeyEvents, which then stops receiving.
AfterKeyHandsOn == FALSE

\* Update quits by itself; nothing sends on keyEventChan.
AfterKey == receiver

\* tea handles the keys, and ends at a signal.
UserQuits ==
  /\ main = "display"
  /\ main' = "join"
  /\ receiver' = AfterKey
  /\ UNCHANGED <<fileVars, cloud, made, worker, saving, asked, displayErr, contextVars>>

RunReturns ==
  /\ main = "display" /\ (asked \/ signalled)
  /\ main' = "join"
  /\ UNCHANGED <<fileVars, cloud, made, worker, saving, displayVars, contextVars>>

\* Only the GCP command then returns without its deployment; the AWS command merely logs it.
RunFails ==
  /\ main = "display"
  /\ displayErr' = TRUE
  /\ main' = IF Provider[made] = "gcp" THEN "save" ELSE "join"
  /\ cancelled' = (cancelled \/ Provider[made] # "aws")
  /\ UNCHANGED <<fileVars, cloud, made, worker, saving, receiver, asked, deploymentErr, signalled>>

\* Mutant: the end of the display is the end of the command.
DeploymentDoneEarly == worker # "none"

\* The select on deploymentDone and the context, of which AWS does not wait after the second.
DeploymentDone == worker = "done" \/ (Provider[made] = "aws" /\ cancelled)

Join ==
  /\ main = "join"
  /\ DeploymentDone
  /\ main' = "save"
  /\ UNCHANGED <<fileVars, cloud, made, worker, saving, displayVars, contextVars>>

\* handleDeploymentCompletion.
SaveAtEnd ==
  /\ main = "save"
  /\ BeginSave(Main, viper)
  /\ main' = "saved"
  /\ UNCHANGED <<file, viper, cloud, made, worker, displayVars, contextVars>>

EndCreate ==
  /\ main = "saved" /\ saving[Main] = "no"
  /\ EndMain("ended")

\* setupSignalHandling cancels, and ends the process two seconds later whatever it does.
Signal ==
  /\ CreateRunning /\ ~signalled
  /\ signalled' = TRUE /\ cancelled' = TRUE
  /\ UNCHANGED <<fileVars, cloud, mainVars, worker, saving, displayVars, deploymentErr>>

Exit ==
  /\ CreateRunning /\ signalled
  /\ EndMain("killed")

\* The process is gone.
ForgetCreate ==
  /\ main' = "off" /\ made' = Main /\ worker' = "none"
  /\ saving' = [w \in Savers |-> "no"]
  /\ receiver' = FALSE /\ asked' = FALSE /\ displayErr' = FALSE
  /\ deploymentErr' = FALSE /\ cancelled' = FALSE /\ signalled' = FALSE

MainStep ==
  \/ PrepareDeployment \/ StartDisplay \/ RunReturns \/ Join \/ SaveAtEnd \/ EndCreate
  \/ TruncateSave(Main) \/ WriteSave(Main)

WorkerStep ==
  \/ BeginDeployment \/ RefuseRegion \/ CreateResources \/ ProvisionCluster
  \/ FinalizeDeployment \/ Quit
  \/ TruncateSave(Worker) \/ WriteSave(Worker)

\* What the user, the terminal and the system do.
CreateEnvironment == UserQuits \/ RunFails \/ Signal

CreateTypeOK ==
  /\ main \in MainSteps \cup {"off", "ended", "killed"}
  /\ made \in Deployments \cup {Main}
  /\ worker \in {"none", "start", "creating", "provisioning", "finalizing", "quit", "done"}
  /\ saving \in [Savers -> {"no", "truncate", "write"}]
  /\ {receiver, asked, displayErr, deploymentErr, cancelled, signalled} \subseteq BOOLEAN
==============================================================================
