-------------------------- MODULE MCAWSDeployment --------------------------
(***************************************************************************)
(* Instances of AWSDeployment for TLC.  The first command has a machine in *)
(* each of two regions, the second shares one of them, which has room for  *)
(* one VPC; with west = east both machines of the first are in it.         *)
(***************************************************************************)
EXTENDS AWSDeployment, TLC

CONSTANTS first, second, east, west, a, b, c

MCOwnerOf == (a :> first) @@ (b :> first) @@ (c :> second)
MCRegionOf == (a :> east) @@ (b :> west) @@ (c :> east)
=============================================================================
