--------------------------- MODULE MCWatchStream ----------------------------
(* Instances of WatchStream for TLC.                                       *)
EXTENDS WatchStream, TLC

(* Names and stream slots are interchangeable.                             *)
Symmetric == Permutations(Names) \cup Permutations(Streams)
=============================================================================
