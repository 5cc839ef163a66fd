------------------------------ MODULE MCDriver ------------------------------
(* Instances of Driver for TLC.                                            *)
EXTENDS DriverInv, TLC

(* Slots and templates are interchangeable.                                *)
Symmetric == Permutations(Calls) \cup Permutations(Again)
=============================================================================
