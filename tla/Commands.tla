------------------------------- MODULE Commands -------------------------------
(***************************************************************************)
(* A user who runs one command after the other on one configuration file:  *)
(* `create`, `destroy` and `provision` of cmd/beta.  A command is a        *)
(* process, which starts with the file and ends with all it had in memory. *)
(***************************************************************************)
EXTENDS DestroyCommand, CreateCommand, ProvisionCommand

CONSTANT MaxCommands

ASSUME MaxCommandsAssumption == MaxCommands \in Nat \ {0}

VARIABLE commands   \* begun so far

vars == <<fileVars, cloud, destroyVars, createVars, provisionVars, commands>>

Init ==
  /\ FileInit /\ DestroyInit /\ CreateInit /\ ProvisionInit
  /\ commands = 0

Prompt == phase = "off" /\ main = "off" /\ step = "off"

Ready == Prompt /\ commands < MaxCommands

BeginDestroy(c) ==
  /\ Ready
  /\ RunDestroy(c)
  /\ commands' = commands + 1
  /\ UNCHANGED <<createVars, provisionVars>>

BeginCreate(d) ==
  /\ Ready
  /\ RunCreate(d)
  /\ commands' = commands + 1
  /\ UNCHANGED <<destroyVars, provisionVars>>

\* Bound: `provision` reads and writes nothing that other commands do, and is begun in one
\* state of all that only.
Untouched == commands = 0 /\ file.records = {} /\ \A d \in Deployments : cloud[d] = "absent"

BeginProvision(n) ==
  /\ Ready /\ Untouched
  /\ RunProvision(n)
  /\ commands' = commands + 1
  /\ UNCHANGED <<fileVars, cloud, destroyVars, createVars>>

Ended == phase \in {"ok", "error"} \/ main \in {"ended", "killed"} \/ step \in {"ok", "error"}

\* Nothing of a process outlives it.
EndOfProcess ==
  /\ Ended
  /\ ForgetDestroy /\ ForgetCreate /\ ForgetProvision
  /\ viper' = Empty
  /\ draft' = [w \in Writers |-> Empty]
  /\ UNCHANGED <<file, cloud, commands>>

Destroying == DestroyStep /\ UNCHANGED <<createVars, provisionVars, commands>>
Creating(s) == s /\ UNCHANGED <<destroyVars, provisionVars, commands>>
Provisioning(s) == s /\ UNCHANGED <<fileVars, cloud, destroyVars, createVars, commands>>

\* The user has had enough.
Done == Prompt /\ UNCHANGED vars

Next ==
  \/ \E c \in Choices : BeginDestroy(c)
  \/ \E d \in Deployments : BeginCreate(d)
  \/ \E n \in Nodes : BeginProvision(n)
  \/ EndOfProcess
  \/ Destroying
  \/ KillDestroy /\ UNCHANGED <<createVars, provisionVars, commands>>
  \/ Creating(MainStep) \/ Creating(WorkerStep) \/ Creating(Exit) \/ Creating(CreateEnvironment)
  \/ Provisioning(ProvisionStep) \/ Provisioning(PrintUpdate)
  \/ Done

\* Goroutines run on, calls end, and a process that got a signal ends.  Nothing makes a user
\* press a key or a terminal fail.
Spec ==
  /\ Init /\ [][Next]_vars
  /\ WF_vars(Destroying)
  /\ WF_vars(Creating(MainStep)) /\ WF_vars(Creating(WorkerStep)) /\ WF_vars(Creating(Exit))
  /\ WF_vars(Provisioning(ProvisionStep)) /\ WF_vars(Provisioning(PrintUpdate))

------------------------------------------------------------------------------
(* Properties *)

\* Every variable keeps its type through all commands.
TypeOK ==
  /\ FileTypeOK /\ DestroyTypeOK /\ CreateTypeOK /\ ProvisionTypeOK
  /\ commands \in 0..MaxCommands

\* A deployment that failed does not end the display: the command waits for the user's q.
AwaitsKey == main = "display" /\ worker = "done" /\ ~asked /\ ~signalled

\* No command hangs, on the mutex, on deploymentDone, on quitChan or on updates, with one
\* exception: a `create` whose deployment ended without success waits for the user.
CommandEnds ==
  /\ phase = "looping" ~> phase # "looping"
  /\ CreateRunning ~> ~CreateRunning \/ AwaitsKey
  /\ step \in ProvisionSteps ~> step \notin ProvisionSteps

\* A create command that returns has waited for its deployment and leaves the file as viper
\* has it, the new record included, but for two ways in which the code does not wait: the GCP
\* command after an error of the display, the AWS command after a cancellation.
CreateLeavesWholeFile ==
  main = "ended" /\ worker # "none"
    /\ ~(Provider[made] = "gcp" /\ displayErr) /\ ~(Provider[made] = "aws" /\ cancelled)
  => /\ worker = "done" /\ saving[Worker] = "no"
     /\ file = viper /\ made \in file.records

DestroyedAll(p) ==
  phase = "ok" /\ choice = [provider |-> p, all |-> TRUE, dryRun |-> FALSE]

\* When `destroy --all` of GCP reports success no labelled project goes on running, be its
\* record lost or never written.
SuccessMeansAllGone ==
  DestroyedAll("gcp") => \A d \in DeploymentsOf("gcp") : cloud[d] = "absent"

\* If it had found records, it leaves a whole file that lacks one of them, though its
\* goroutines rewrite the file side by side.  More cannot be said: DestroyProject's unlocked
\* write brings records back, and drops others.
SuccessShrinksFile ==
  DestroyedAll("gcp") /\ known # {} => file # Torn /\ known \ file.records # {}

\* The printing goroutine is at most one message behind, and when `provision` succeeds it
\* has printed all of them.
ShownUpdates ==
  /\ sent - printed = IF holding THEN 1 ELSE 0
  /\ step = "ok" => printed = sent /\ closed
==============================================================================
