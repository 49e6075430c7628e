-------------------------- MODULE MCAzureDeployment --------------------------
(***************************************************************************)
(* Instances of AzureDeployment for TLC: two regions, the first with one   *)
(* machine or two; and lists that are refused.                             *)
(***************************************************************************)
EXTENDS AzureDeployment

CONSTANTS east, west

Entry(location, count, orchestrator, offered) ==
  [location |-> location, count |-> count, orchestrator |-> orchestrator,
   offered |-> offered]

MCConfigurations ==
  {<<>>,
   <<Entry(east, 2, FALSE, TRUE)>>,
   <<Entry(east, 1, TRUE, TRUE), Entry(west, 0, FALSE, TRUE)>>,
   <<Entry(east, 1, TRUE, TRUE), Entry(west, 1, TRUE, TRUE)>>,
   <<Entry(east, 2, TRUE, TRUE)>>,
   <<Entry(east, 0, TRUE, TRUE), Entry(west, 1, FALSE, FALSE)>>}
==============================================================================
