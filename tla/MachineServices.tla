--------------------------- MODULE MachineServices ---------------------------
(***************************************************************************)
(* The service table every machine carries (pkg/models/machine.go) and the *)
(* rule by which a display update rewrites it                              *)
(* (pkg/display/display_model.go).  Constant-level operators only: the     *)
(* modules that own a machine's state apply them.                          *)
(***************************************************************************)
EXTENDS Naturals

RequiredServices == {"ssh", "docker", "core-packages", "bacalhau", "script"}

ServiceStates ==
  {"NotStarted", "Created", "Updating", "Succeeded", "Failed", "Unknown"}

ServiceTables == [RequiredServices -> ServiceStates]

\* NewMachine: every required service is registered as NotStarted.
NewServices == [s \in RequiredServices |-> "NotStarted"]

\* SetServiceState, under the machine's own mutex.
SetServiceState(table, s, state) == [table EXCEPT ![s] = state]

\* servicesComplete: a required service counts only in state Succeeded.  The
\* flag that SetComplete raises is not consulted.
ServicesComplete(table) == \A s \in RequiredServices : table[s] = "Succeeded"

(***************************************************************************)
(* updateServiceStates is one switch whose first matching case wins.  A    *)
(* status names a state for every service; "Unknown" means it says nothing *)
(* of that service, and the services are tried in this order.              *)
(***************************************************************************)
CaseOrder ==
  [s \in RequiredServices |-> CASE s = "ssh"           -> 1
                               [] s = "docker"        -> 2
                               [] s = "core-packages" -> 3
                               [] s = "bacalhau"      -> 4
                               [] s = "script"        -> 5]

\* The services a status speaks of.
Reported(status) == {s \in RequiredServices : status[s] # "Unknown"}

\* instanceUp is the case placed before them all: the machine has a public IP
\* and the instance resource looked up under its GCP name has Succeeded.
UpdateServiceStates(table, instanceUp, status) ==
  IF instanceUp
  THEN SetServiceState(table, "ssh", "Succeeded")
  ELSE [s \in RequiredServices |->
          IF s \in Reported(status)
             /\ \A t \in Reported(status) : CaseOrder[s] <= CaseOrder[t]
          THEN status[s]
          ELSE table[s]]

\* NewDisplayStatusWithText sets three of the fields, to Unknown.  The other two keep
\* the zero value of their type, and that is NotStarted.
DisplayStatusWithText ==
  [s \in RequiredServices |->
     IF s \in {"ssh", "docker", "bacalhau"} THEN "Unknown" ELSE "NotStarted"]
==============================================================================
