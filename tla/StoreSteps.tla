----------------------------- MODULE StoreSteps -----------------------------
(***************************************************************************)
(* What the bundle store promises its callers.  A put replaces the file in *)
(* one step and the bundle in memory in the next, a remove forgets the     *)
(* bundle and then unlinks the file; any of these can be the last before a *)
(* failure or a crash, and opening reads back what the files hold.  These  *)
(* are the steps that module Driver takes a call through.  Once two puts   *)
(* of a sandbox have overlapped, nothing is promised about its bundle.     *)
(*                                                                         *)
(* Module BundleStore implements this with a temporary file and a rename.  *)
(***************************************************************************)

CONSTANTS
  Names,        (* Sandboxes.                                              *)
  Bundles,      (* What can be stored for one.                             *)
  Writers,      (* Slots for calls of put.                                 *)
  Removers,     (* Slots for calls of remove.                              *)
  None,         (* No bundle, no sandbox.                                  *)
  Unknown       (* No promise.                                             *)

VARIABLES
  file,      (* The bundle on disk of each sandbox.                        *)
  map,       (* The bundle in memory.                                      *)
  up,        (* Has the store been opened?                                 *)
  call       (* The next step of each slot's call, its sandbox and bundle. *)

steps == <<file, map, up, call>>

NoCall == [at |-> "idle", on |-> None, bundle |-> None]

Init ==
  /\ file = [n \in Names |-> None]
  /\ map = [n \in Names |-> None]
  /\ up = TRUE
  /\ call = [s \in Writers \cup Removers |-> NoCall]

Begins(s, p, n, b) ==
  /\ up
  /\ call[s].at = "idle"
  /\ call' = [call EXCEPT ![s] = [at |-> p, on |-> n, bundle |-> b]]

Continues(s, p, q) ==
  /\ call[s].at = p
  /\ call' = [call EXCEPT ![s].at = q]

Ends(s, p) ==
  /\ call[s].at = p
  /\ call' = [call EXCEPT ![s] = NoCall]

(* f once the sandbox of s has b in it, if anything is known of it.        *)
With(f, s, b) ==
  [f EXCEPT ![call[s].on] = IF @ = Unknown THEN Unknown ELSE b]

Put(w, n, b) ==
  /\ Begins(w, "put", n, b)
  /\ IF \E v \in Writers : call[v].on = n
       THEN /\ file' = [file EXCEPT ![n] = Unknown]
            /\ map' = [map EXCEPT ![n] = Unknown]
       ELSE UNCHANGED <<file, map>>
  /\ UNCHANGED up

PutFile(w) ==
  /\ Continues(w, "put", "insert")
  /\ file' = With(file, w, call[w].bundle)
  /\ UNCHANGED <<map, up>>

InsertBundle(w) ==
  /\ Continues(w, "insert", "notify")
  /\ map' = With(map, w, call[w].bundle)
  /\ UNCHANGED <<file, up>>

Notify(w) == Ends(w, "notify") /\ UNCHANGED <<file, map, up>>

Remove(r, n) ==
  /\ Begins(r, "drop", n, None)
  /\ UNCHANGED <<file, map, up>>

RemoveBundle(r) ==
  /\ Continues(r, "drop", "unlink")
  /\ map' = With(map, r, None)
  /\ UNCHANGED <<file, up>>

UnlinkFile(r) ==
  /\ Ends(r, "unlink")
  /\ file' = With(file, r, None)
  /\ UNCHANGED <<map, up>>

(* A failed step changes nothing, and ends the call.                       *)
Fails(s) ==
  /\ \E p \in {"put", "insert", "drop", "unlink"} : Ends(s, p)
  /\ UNCHANGED <<file, map, up>>

Crash ==
  /\ up
  /\ up' = FALSE
  /\ map' = [n \in Names |-> IF map[n] = Unknown THEN Unknown ELSE None]
  /\ call' = [s \in Writers \cup Removers |-> NoCall]
  /\ UNCHANGED file

Open ==
  /\ ~up
  /\ up' = TRUE
  /\ map' = file
  /\ UNCHANGED <<file, call>>

Next ==
  \/ \E w \in Writers : \/ PutFile(w) \/ InsertBundle(w) \/ Notify(w) \/ Fails(w)
                        \/ \E n \in Names, b \in Bundles : Put(w, n, b)
  \/ \E r \in Removers : \/ RemoveBundle(r) \/ UnlinkFile(r) \/ Fails(r)
                         \/ \E n \in Names : Remove(r, n)
  \/ Crash
  \/ Open

Spec == Init /\ [][Next]_steps
=============================================================================
