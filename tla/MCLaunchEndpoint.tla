-------------------------- MODULE MCLaunchEndpoint --------------------------
(* Instances of LaunchEndpoint for TLC: one sandbox, an old and a new      *)
(* incarnation of its actor.                                               *)
EXTENDS LaunchEndpoint

CONSTANTS n1, l1, l2, b1, b2, b3

MCSandbox == [l \in Launchers |-> n1]

MCUid == [l \in Launchers |-> IF l = l1 THEN 1 ELSE 2]

MCFor == [b \in Bundles |-> IF b = b1 THEN 1 ELSE 2]

MCGeneration == [b \in Bundles |-> IF b = b1 THEN 1 ELSE IF b = b2 THEN 2 ELSE 3]
=============================================================================
