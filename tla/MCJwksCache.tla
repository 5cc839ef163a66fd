---------------------------- MODULE MCJwksCache -----------------------------
(* The instance of JwksCache for TLC: two keys and two requests, with the  *)
(* time a fetch may take as the unit of time.                              *)
EXTENDS JwksCache
=============================================================================
