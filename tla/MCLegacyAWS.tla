----------------------------- MODULE MCLegacyAWS -----------------------------
(***************************************************************************)
(* Instances of LegacyAWS for TLC: two orchestrators, as the environment   *)
(* or the configuration file can ask for, and two compute nodes, in one    *)
(* region: the regions share nothing but the list of addresses.  Two tries *)
(* instead of three, so that the two faults use them up; four commands are *)
(* a create and the three destroys that it takes.                          *)
(***************************************************************************)
EXTENDS LegacyAWS, TLC

CONSTANTS east, o1, o2, c1, c2

MCRegionOf == [n \in Nodes |-> east]
=============================================================================
