---------------------------- MODULE MachineConfig ----------------------------
(***************************************************************************)
(* ProcessMachinesConfig (pkg/providers/common/machine_config.go): the     *)
(* machines that the entries of <provider>.machines stand for, and which   *)
(* of them is the orchestrator.  Constant-level operators: the provider's  *)
(* module applies them when its deployment is prepared.                    *)
(*                                                                         *)
(* An entry names a location, a count, whether it is the orchestrator's,   *)
(* and whether the provider offers its machine type there.  A machine is   *)
(* the position of its entry and its number within the entry.              *)
(***************************************************************************)
EXTENDS Integers, FiniteSets, Sequences

CONSTANT DefaultCount     \* default_count_per_zone: ProcessMachinesConfig refuses 0

ASSUME DefaultCountAssumption == DefaultCount \in Nat \ {0}

\* Mutant: an entry counts once, however many machines it stands for.
OrchestratorsCountedOnce(entry) == IF entry.orchestrator THEN 1 ELSE 0

\* Two functions read the count.  The one that looks for several orchestrators replaces
\* a zero only, and loops up to what it has; the one that makes the machines replaces
\* whatever is not positive.
OrchestratorsCounted(entry) ==
  LET count == IF entry.count = 0 THEN DefaultCount ELSE entry.count
  IN  IF entry.orchestrator /\ count > 0 THEN count ELSE 0

CountOfMachines(entry) == IF entry.count > 0 THEN entry.count ELSE DefaultCount

ConfiguredMachines(entries) ==
  UNION {{<<i, k>> : k \in 1..CountOfMachines(entries[i])} : i \in DOMAIN entries}

LocationOf(entries, m) == entries[m[1]].location

\* More than one orchestrator, an entry that is not offered, or no machine at all.
SeveralOrchestrators(entries) ==
  \/ \E i \in DOMAIN entries : OrchestratorsCounted(entries[i]) > 1
  \/ \E i, j \in DOMAIN entries :
       i # j /\ OrchestratorsCounted(entries[i]) > 0 /\ OrchestratorsCounted(entries[j]) > 0

Refused(entries) ==
  \/ SeveralOrchestrators(entries)
  \/ \E i \in DOMAIN entries : ~entries[i].offered
  \/ ConfiguredMachines(entries) = {}

Flagged(entries) ==
  {m \in ConfiguredMachines(entries) : entries[m[1]].orchestrator}

\* Without a flag the first machine met in a map becomes the orchestrator.  None of the
\* create commands has an orchestrator's address at this point.
OrchestratorChoices(entries) ==
  IF Flagged(entries) # {}
  THEN {Flagged(entries)}
  ELSE {{m} : m \in ConfiguredMachines(entries)}
==============================================================================
