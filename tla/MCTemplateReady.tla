-------------------------- MODULE MCTemplateReady ---------------------------
(* Instances of TemplateReady for TLC.                                     *)
EXTENDS TemplateReady, TLC

(* The calls are interchangeable.                                          *)
Symmetric == Permutations(Ensures)
=============================================================================
