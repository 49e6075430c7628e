--------------------------- MODULE MCGCPResources ---------------------------
(***************************************************************************)
(* Instances of GCPResources for TLC: an orchestrator and two workers, one *)
(* address left over in the project, two attempts.                         *)
(***************************************************************************)
EXTENDS GCPResources

CONSTANTS m1, m2, m3, spare

MCMachines == {m1, m2, m3}
MCSpare == {spare}
MCMaxRetries == 2
=============================================================================
