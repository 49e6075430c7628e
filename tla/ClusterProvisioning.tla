------------------------- MODULE ClusterProvisioning -------------------------
(***************************************************************************)
(* What provisioning a cluster promises, without services, files or SSH:   *)
(* one leader is provisioned first; the other members follow, at most      *)
(* Limit at a time; the outcome is announced once, after the last member   *)
(* has finished, and it is "ok" exactly when none of them failed.          *)
(* ClusterDeployer implements this module (see MCClusterDeployer).         *)
(***************************************************************************)
EXTENDS Naturals, FiniteSets

CONSTANTS Machines, Limit

VARIABLES
  members,    \* the machines that take part
  leaders,    \* those flagged as orchestrator
  reachable,  \* those with an address the others can be given
  status,     \* what has become of each machine
  outcome     \* what the caller has been told

vars == <<members, leaders, reachable, status, outcome>>

Followers == members \ leaders
Leaders == members \cap leaders
Busy == {m \in Machines : status[m] = "provisioning"}

Init ==
  /\ members \in SUBSET Machines
  /\ leaders \in SUBSET Machines
  /\ reachable \in SUBSET Machines
  /\ status = [m \in Machines |-> "waiting"]
  /\ outcome = "pending"

Start(m) ==
  /\ outcome = "pending"
  /\ status[m] = "waiting"
  /\ \/ Leaders = {m}
     \/ /\ m \in Followers
        /\ Cardinality(Leaders) = 1
        /\ \A o \in Leaders : o \in reachable /\ status[o] = "provisioned"
        /\ Cardinality(Busy) < Limit
  /\ status' = [status EXCEPT ![m] = "provisioning"]
  /\ UNCHANGED <<members, leaders, reachable, outcome>>

Finish(m) ==
  /\ status[m] = "provisioning"
  /\ \E r \in {"provisioned", "failed"} : status' = [status EXCEPT ![m] = r]
  /\ UNCHANGED <<members, leaders, reachable, outcome>>

\* Everything that was to be done has been done: the leader, and unless the leader
\* failed or cannot be reached, every follower.
Finished ==
  /\ \A o \in Leaders : status[o] \in {"provisioned", "failed"}
  /\ (\A o \in Leaders : status[o] = "provisioned" /\ o \in reachable) =>
       \A m \in Followers : status[m] \in {"provisioned", "failed"}

Announce ==
  /\ outcome = "pending"
  /\ IF Cardinality(Leaders) # 1
     THEN outcome' = "error"
     ELSE /\ Finished
          /\ outcome' = IF \E m \in members : status[m] = "failed"
                        THEN "error" ELSE "ok"
  /\ UNCHANGED <<members, leaders, reachable, status>>

Next == Announce \/ \E m \in Machines : Start(m) \/ Finish(m)

Spec == Init /\ [][Next]_vars
==============================================================================
