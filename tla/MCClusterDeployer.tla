------------------------- MODULE MCClusterDeployer -------------------------
(***************************************************************************)
(* Instances of ClusterDeployer for TLC.                                   *)
(***************************************************************************)
EXTENDS ClusterDeployer

CONSTANTS o, w1, w2, w3

MCMachines == {o, w1, w2, w3}
MCLimit == 2

Plain == [orchestrators |-> {o}, failed |-> {}, addressed |-> MCMachines,
          settings |-> FALSE, script |-> FALSE, provider |-> "gcp"]
Full == [Plain EXCEPT !.settings = TRUE, !.script = TRUE, !.provider = "azure"]

\* Three workers share two slots; then the other combinations on two workers, and the
\* deployments ProvisionBacalhauCluster turns away or gives up.
MCDeployments ==
  {Full}
  \cup [orchestrators : {{o}}, failed : {{w2, w3}}, addressed : {MCMachines, {w1}},
        settings : BOOLEAN, script : BOOLEAN, provider : {"azure", "gcp", "aws"}]
  \cup {[Plain EXCEPT !.failed = {w3}]}
  \cup {[Plain EXCEPT !.orchestrators = {}], [Plain EXCEPT !.orchestrators = {o, w1}],
        [Plain EXCEPT !.failed = {o}]}

\* One deployment for the properties that documentation states and the code does not
\* keep.
MCFull == {Full}
=============================================================================
