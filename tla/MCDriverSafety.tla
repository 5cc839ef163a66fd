--------------------------- MODULE MCDriverSafety ---------------------------
(***************************************************************************)
(* Driver under several sets of bounds, one of which is chosen for each    *)
(* behaviour: calls that overlap, without a failure, or with one and no    *)
(* two creates among them; and calls that follow one another, with three   *)
(* failures, or with two, two templates and two incarnations of the actor. *)
(***************************************************************************)
EXTENDS MCDriver

VARIABLE bounds  (* Those of this behaviour.                               *)

One == {{tm} : tm \in Templates}

Bounds ==
  [calls: {2}, creates: {2}, faults: {0}, uids: {1}, templates: One]
    \cup [calls: {2}, creates: {1}, faults: {1}, uids: {1}, templates: One]
    \cup [calls: {1}, creates: {1}, faults: {3}, uids: {1}, templates: One]
    \cup [calls: {1}, creates: {1}, faults: {2}, uids: {2}, templates: {Templates}]

Within ==
  /\ Cardinality({t \in Calls : task[t].op # "none"}) <= bounds.calls
  /\ Cardinality({t \in Calls : task[t].op = "create"}) <= bounds.creates
  /\ faults <= bounds.faults
  /\ \A t \in Calls : task[t].template \in bounds.templates \cup {None}

SafetySpec ==
  /\ Init /\ bounds \in Bounds
  /\ \A n \in Names : actor[n].uid = MaxUid - bounds.uids
  /\ [][UNCHANGED bounds /\ Next /\ Within']_<<vars, bounds>>

(* Slots are interchangeable, and so are the templates: the one that is    *)
(* recorded for no actor is never looked at.                               *)
AllSymmetric == Symmetric \cup Permutations(Templates)
=============================================================================
