----------------------------- MODULE VMCreation -----------------------------
(***************************************************************************)
(* What creating the VMs of a cluster promises, without addresses, retries *)
(* or goroutines: the leader's VM is made and recorded before any other    *)
(* VM; a machine is recorded only once it has its VM; a follower that got  *)
(* none may be given up, the leader may not; one answer is announced, when *)
(* every machine is recorded or given up; and no VM is made after it.      *)
(* GCPResources implements this module (see MCGCPResources).               *)
(***************************************************************************)
CONSTANT Machines

VARIABLES
  members,   \* the machines asked for and not given up
  leaders,   \* those flagged as orchestrator
  vms,       \* the cloud: the machines that have a VM
  made,      \* what is known of each machine: "pending", "ok" or "error"
  recorded,  \* the machines in the file
  outcome    \* what the caller has been told; "quit" when the process ended

vars == <<members, leaders, vms, made, recorded, outcome>>

Followers == members \ leaders

Init ==
  /\ members \in (SUBSET Machines) \ {{}}
  /\ leaders \in {{}} \cup {{o} : o \in members}
  /\ vms = {}
  /\ made = [m \in Machines |-> "pending"]
  /\ recorded = {}
  /\ outcome = "pending"

\* The machines whose turn it is: the leader, and the others once the leader is recorded.
Due == leaders \cup (IF leaders # {} /\ leaders \subseteq recorded THEN members ELSE {})

MakeVM(m) ==
  /\ outcome = "pending"
  /\ m \in Due \ vms /\ made[m] = "pending"
  /\ vms' = vms \cup {m}
  /\ UNCHANGED <<members, leaders, made, recorded, outcome>>

Confirm(m) ==
  /\ outcome = "pending"
  /\ m \in vms /\ made[m] = "pending"
  /\ made' = [made EXCEPT ![m] = "ok"]
  /\ UNCHANGED <<members, leaders, vms, recorded, outcome>>

\* A failure does not tell whether there is a VM.
Refuse(m) ==
  /\ outcome = "pending"
  /\ m \in Due /\ made[m] = "pending"
  /\ made' = [made EXCEPT ![m] = "error"]
  /\ vms' \in {vms, vms \cup {m}}
  /\ UNCHANGED <<members, leaders, recorded, outcome>>

Record(m) ==
  /\ outcome = "pending"
  /\ m \in members /\ made[m] = "ok"
  /\ recorded' = recorded \cup {m}
  /\ UNCHANGED <<members, leaders, vms, made, outcome>>

\* The process may end over this.
GiveUp(m) ==
  /\ outcome = "pending"
  /\ m \in Followers /\ made[m] = "error"
  /\ members' = members \ {m}
  /\ outcome' \in {"pending", "quit"}
  /\ UNCHANGED <<leaders, vms, made, recorded>>

NoLeader == leaders = {} \/ \E o \in leaders : made[o] = "error"

\* Without a leader, or without a follower left, there is no cluster.
Announce ==
  /\ outcome = "pending"
  /\ \/ NoLeader /\ outcome' = "error"
     \/ /\ ~NoLeader /\ members \subseteq recorded
        /\ outcome' = IF Followers = {} THEN "error" ELSE "ok"
  /\ UNCHANGED <<members, leaders, vms, made, recorded>>

Quit ==
  /\ outcome = "pending"
  /\ outcome' = "quit"
  /\ UNCHANGED <<members, leaders, vms, made, recorded>>

Next ==
  \/ \E m \in Machines : MakeVM(m) \/ Confirm(m) \/ Refuse(m) \/ Record(m) \/ GiveUp(m)
  \/ Announce \/ Quit

Spec == Init /\ [][Next]_vars
==============================================================================
