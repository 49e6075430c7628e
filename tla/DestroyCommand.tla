---------------------------- MODULE DestroyCommand ----------------------------
(***************************************************************************)
(* `destroy` of the three providers (cmd/beta/gcp/destroy.go,              *)
(* cmd/beta/azure/destroy.go, cmd/beta/aws/destroy_deployment.go) with     *)
(* what they call to remove a deployment and its record.  GCP destroys all *)
(* deployments at once, in an errgroup; the others one after the other.    *)
(***************************************************************************)
EXTENDS ConfigFile

CONSTANTS
  Attempts,   \* how often destroyGCPDeployment tries
  NoOne

ASSUME AttemptsAssumption == Attempts \in Nat \ {0} /\ NoOne \notin Deployments

VARIABLES
  phase,      \* the command
  choice,     \* its provider and its flags
  known,      \* the deployments it found in the configuration
  todo,       \* entries it has yet to start with
  key,        \* the key of the entry in hand, where they come one by one
  pc,         \* destroyDeployment, for each deployment
  attempt,    \* the loop counter of retry
  lock,       \* the holder of the mutex of utils/config.go
  failed      \* a deployment's goroutine returned an error

commandVars == <<phase, choice, known, todo, key>>
goroutineVars == <<pc, attempt, lock, failed>>
destroyVars == <<commandVars, goroutineVars>>

Choices == [provider : Providers, all : BOOLEAN, dryRun : BOOLEAN]

NoChoice == [provider |-> "gcp", all |-> FALSE, dryRun |-> FALSE]

\* A record's entries.  Azure takes every key below "azure" for a resource group: the
\* group's own, and those of settings.
Keys == {"whole", "group", "setting"}

DestroyInit ==
  /\ phase = "off"
  /\ choice = NoChoice
  /\ known = {} /\ todo = {}
  /\ key = "whole"
  /\ pc = [d \in Deployments |-> "idle"]
  /\ attempt = [d \in Deployments |-> 1]
  /\ lock = NoOne
  /\ failed = FALSE

Goto(d, step) == pc' = [pc EXCEPT ![d] = step]

Return(d) ==
  /\ Goto(d, "idle")
  /\ attempt' = [attempt EXCEPT ![d] = 1]
  /\ Draft(d, Empty)

Fail(d) == Return(d) /\ failed' = TRUE

------------------------------------------------------------------------------
(* runDestroy: what to destroy. *)

\* An interrupted creation of Azure left a record without the key of its group.
EntriesOf(p, records) ==
  IF p = "azure"
  THEN {records \X {"setting"} \cup grouped \X {"group"} : grouped \in SUBSET records}
  ELSE {records \X {"whole"}}

Found(p, records) == {d \in records : Provider[d] = p}

\* Mutant: only the deployments of the configuration are destroyed.
AppendNone(entries) == entries

\* Projects labelled by this tool that are not being deleted.
AppendAndaimeDeployments(entries) ==
  entries \cup {d \in DeploymentsOf("gcp") : cloud[d] = "active"} \X {"whole"}

\* A command starts with reading the file, and ends there if it does not parse.  Without
\* anything selected, or without what the provider needs, it ends at once too.
RunDestroy(c) ==
  /\ phase' \in {"looping", "error"}
  /\ choice' = c
  /\ file # Torn
  /\ viper' = file
  /\ known' = Found(c.provider, viper'.records)
  /\ \E entries \in EntriesOf(c.provider, known') :
       \/ /\ c.all /\ c.provider = "gcp"
          /\ todo' = AppendAndaimeDeployments(entries)
          /\ phase' = "looping" => viper'.gcp
       \/ /\ c.all /\ c.provider # "gcp"
          /\ todo' \in {entries, {}}
          /\ phase' = "looping"
       \/ /\ ~c.all
          /\ todo' \in {{e} : e \in entries} \cup {{}}
          /\ phase' = "looping" <=> todo' # {}
  /\ UNCHANGED <<file, draft, cloud, key, goroutineVars>>

\* The launching loop of the errgroup, or the next turn of the sequential loop.
Launch(e) ==
  /\ phase = "looping"
  /\ e \in todo
  /\ pc[e[1]] = "idle"
  /\ choice.provider = "gcp" \/ \A d \in Deployments : pc[d] = "idle"
  /\ todo' = todo \ {e}
  /\ key' = e[2]
  /\ Goto(e[1], "provider")
  /\ UNCHANGED <<fileVars, cloud, phase, choice, known, attempt, lock, failed>>

\* A dry run ends here, and does nothing.
CreateProvider(d) ==
  /\ pc[d] = "provider"
  /\ \/ /\ Provider[d] = "gcp" => viper.gcp
        /\ Goto(d, IF choice.dryRun THEN "idle" ELSE "cloud")
        /\ UNCHANGED <<draft, attempt, failed>>
     \/ Fail(d)
  /\ UNCHANGED <<file, viper, cloud, commandVars, lock>>

------------------------------------------------------------------------------
(* Destroying what a provider has of a deployment. *)

\* Mutant: the last error of retry is lost.
TriesAgainForgets(d) ==
  /\ IF attempt[d] < Attempts
     THEN /\ attempt' = [attempt EXCEPT ![d] = @ + 1]
          /\ Goto(d, "cloud")
     ELSE /\ attempt' = [attempt EXCEPT ![d] = 1]
          /\ Goto(d, "delete")
  /\ UNCHANGED <<draft, failed>>

\* Mutant: retry counts one attempt too many.
TriesAgainOnceMore(d) ==
  /\ attempt[d] <= Attempts
  /\ attempt' = [attempt EXCEPT ![d] = @ + 1]
  /\ Goto(d, "cloud")
  /\ UNCHANGED <<draft, failed>>

\* retry.
TriesAgain(d) ==
  \/ /\ attempt[d] < Attempts
     /\ attempt' = [attempt EXCEPT ![d] = @ + 1]
     /\ Goto(d, "cloud")
     /\ UNCHANGED <<draft, failed>>
  \/ /\ attempt[d] = Attempts
     /\ Fail(d)

\* The group's context is cancelled by the first error.
GroupCancelled == choice.all /\ failed

\* A project that is not active or not found needs no destruction.
DestroyProject(d) ==
  /\ pc[d] = "cloud" /\ Provider[d] = "gcp"
  /\ \/ /\ cloud[d] = "active" /\ ~GroupCancelled
        /\ cloud' = [cloud EXCEPT ![d] = "absent"]
        /\ Goto(d, "read")
        /\ UNCHANGED <<draft, attempt, failed>>
     \/ /\ cloud[d] = "absent" /\ ~GroupCancelled
        /\ Goto(d, "delete")
        /\ UNCHANGED <<draft, attempt, failed, cloud>>
     \/ /\ TriesAgain(d)
        /\ cloud' \in {cloud, [cloud EXCEPT ![d] = "absent"]}
  /\ UNCHANGED <<file, viper, commandVars, lock>>

\* The file as it is now, without the mutex.
ReadConfig(d) ==
  /\ pc[d] = "read"
  /\ \/ /\ file = Torn
        /\ TriesAgain(d)
     \/ /\ file # Torn /\ d \notin file.records
        /\ Goto(d, "delete")
        /\ UNCHANGED <<draft, attempt, failed>>
     \/ /\ file # Torn /\ d \in file.records
        /\ Draft(d, [records |-> file.records \ {d}, gcp |-> FALSE])
        /\ Goto(d, "truncate")
        /\ UNCHANGED <<attempt, failed>>
  /\ UNCHANGED <<file, viper, cloud, commandVars, lock>>

\* A group that does not exist needs no destruction.
DestroyResources(d) ==
  /\ pc[d] = "cloud" /\ Provider[d] = "azure"
  /\ \/ /\ key = "setting" \/ cloud[d] = "absent"
        /\ Goto(d, "delete")
        /\ UNCHANGED <<draft, attempt, failed, cloud>>
     \/ /\ key = "group" /\ cloud[d] = "active"
        /\ cloud' = [cloud EXCEPT ![d] = "absent"]
        /\ \/ Goto(d, "delete") /\ UNCHANGED <<draft, attempt, failed>>
           \/ Fail(d)
     \/ Fail(d) /\ UNCHANGED cloud
  /\ UNCHANGED <<file, viper, commandVars, lock>>

\* Destroy looks for deployments under a key where none is ever written, and saves viper.
DestroyAWS(d) ==
  /\ pc[d] = "cloud" /\ Provider[d] = "aws"
  /\ Draft(d, viper)
  /\ Goto(d, "truncate")
  /\ UNCHANGED <<file, viper, cloud, commandVars, attempt, lock, failed>>

------------------------------------------------------------------------------
(* Removing its record. *)

\* os.WriteFile, of whoever is about to write.
TruncateConfig(d) ==
  /\ pc[d] = "truncate"
  /\ Truncate
  /\ Goto(d, "write")
  /\ UNCHANGED <<viper, draft, cloud, commandVars, attempt, lock, failed>>

WriteConfig(d) ==
  /\ pc[d] = "write"
  /\ Write(d)
  /\ Goto(d, IF lock = d THEN "reload" ELSE "delete")
  /\ UNCHANGED <<viper, draft, cloud, commandVars, attempt, lock, failed>>

\* Mutant: the file is changed without the mutex.
LockFree == TRUE

\* mu of pkg/utils/config.go.
LockIsFree == lock = NoOne

\* DeleteUniqueIDFromConfig.  A deployment found by its label has no unique ID.
DeleteUniqueIDFromConfig(d) ==
  /\ pc[d] = "delete"
  /\ LockIsFree
  /\ \/ /\ file = Torn
        /\ Fail(d)
        /\ UNCHANGED lock
     \/ /\ file # Torn
        /\ Draft(d, [file EXCEPT !.records = @ \ ({d} \cap known)])
        /\ lock' = d
        /\ Goto(d, "truncate")
        /\ UNCHANGED <<attempt, failed>>
  /\ UNCHANGED <<file, viper, cloud, commandVars>>

\* It ends with viper reading the file again.
Reload(d) ==
  /\ pc[d] = "reload"
  /\ lock' = NoOne
  /\ \/ file = Torn /\ Fail(d) /\ UNCHANGED viper
     \/ file # Torn /\ viper' = file /\ Return(d) /\ UNCHANGED failed
  /\ UNCHANGED <<file, cloud, commandVars>>

------------------------------------------------------------------------------

\* g.Wait, or the end of the loop, which passes no error on.
EndDestroy ==
  /\ phase = "looping"
  /\ todo = {} /\ \A d \in Deployments : pc[d] = "idle"
  /\ phase' = IF failed /\ (choice.provider = "gcp" \/ ~choice.all) THEN "error" ELSE "ok"
  /\ failed' = FALSE
  /\ UNCHANGED <<fileVars, cloud, choice, known, todo, key, pc, attempt, lock>>

\* setupSignalHandling: the process may end at any point.
KillDestroy ==
  /\ phase = "looping"
  /\ phase' = "error"
  /\ todo' = {}
  /\ pc' = [d \in Deployments |-> "idle"]
  /\ attempt' = [d \in Deployments |-> 1]
  /\ draft' = [w \in Writers |-> Empty]
  /\ lock' = NoOne /\ failed' = FALSE
  /\ UNCHANGED <<file, viper, cloud, choice, known, key>>

\* The process is gone.
ForgetDestroy ==
  /\ phase' = "off" /\ choice' = NoChoice
  /\ known' = {} /\ todo' = {} /\ key' = "whole"
  /\ pc' = [d \in Deployments |-> "idle"]
  /\ attempt' = [d \in Deployments |-> 1]
  /\ lock' = NoOne /\ failed' = FALSE

DestroyDeployment(d) ==
  \/ CreateProvider(d)
  \/ DestroyProject(d) \/ ReadConfig(d)
  \/ DestroyResources(d) \/ DestroyAWS(d)
  \/ TruncateConfig(d) \/ WriteConfig(d)
  \/ DeleteUniqueIDFromConfig(d) \/ Reload(d)

DestroyStep ==
  \/ \E e \in Deployments \X Keys : Launch(e)
  \/ \E d \in Deployments : DestroyDeployment(d)
  \/ EndDestroy

DestroyTypeOK ==
  /\ phase \in {"off", "looping", "ok", "error"}
  /\ choice \in Choices
  /\ known \in SUBSET Deployments
  /\ todo \in SUBSET (Deployments \X Keys)
  /\ key \in Keys
  /\ pc \in [Deployments -> {"idle", "provider", "cloud", "read", "truncate", "write",
                             "delete", "reload"}]
  /\ attempt \in [Deployments -> 1..Attempts]
  /\ lock \in Deployments \cup {NoOne}
  /\ failed \in BOOLEAN
==============================================================================
