------------------------------ MODULE MCCommands ------------------------------
EXTENDS Commands, TLC

CONSTANTS g1, g2, z, w

MCDeployments == {g1, g2, z, w}
MCBefore == {g1, g2, z}
MCProvider == [d \in MCDeployments |-> IF d = z THEN "azure" ELSE IF d = w THEN "aws" ELSE "gcp"]
==============================================================================
