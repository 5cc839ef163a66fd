--------------------------- MODULE MCBundleStore ----------------------------
(* Instances of BundleStore for TLC.                                       *)
EXTENDS BundleStore, TLC

(* Sandboxes, bundles and slots are interchangeable.                       *)
Symmetric == Permutations(Names) \cup Permutations(Bundles)
               \cup Permutations(Writers) \cup Permutations(Removers)
=============================================================================
