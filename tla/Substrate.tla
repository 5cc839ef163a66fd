----------------------------- MODULE Substrate -----------------------------
(***************************************************************************)
(* The lifecycle of one actor on the Substrate control plane, as the       *)
(* driver meets it through ateapi.Control.  The control plane is a         *)
(* service outside this repository: the operators say what its RPCs do     *)
(* to an actor's record, as the driver relies on it (src/proto/            *)
(* ateapi.proto and the state diagram of src/docs/architecture.md).        *)
(***************************************************************************)
EXTENDS Naturals

CONSTANTS
  Templates,    (* Actor templates a sandbox can be made from.             *)
  MaxUid        (* Bound: actors created under one name.                   *)

ASSUME TemplatesAssumption == Templates # {}
ASSUME MaxUidAssumption == MaxUid \in Nat \ {0}

ActorState ==
  {"none", "suspended", "resuming", "running", "suspending", "reverting",
   "crashed", "deleting"}

(* An actor under a name.  uid counts the actors the name has had: one     *)
(* that is gone leaves its uid behind, so a new one is never mistaken for  *)
(* it.  policy tells whether the egress policy nested under it exists.     *)
Actor == [state: ActorState, uid: 0..MaxUid, template: Templates,
          policy: BOOLEAN]

NoActor(u) == [state |-> "none", uid |-> u,
               template |-> CHOOSE t \in Templates : TRUE, policy |-> FALSE]

(* The RPCs that move an actor through its lifecycle: the states each one  *)
(* starts from, the state it holds while it runs, and the one it ends in.  *)
LifecycleRpc == {"suspend", "revert", "resume", "delete"}

From == [suspend |-> {"running"},
         revert  |-> {"running", "crashed"},
         resume  |-> {"suspended"},
         delete  |-> ActorState \ {"none"}]

Via == [suspend |-> "suspending", revert |-> "reverting",
        resume  |-> "resuming",   delete |-> "deleting"]

Goal == [suspend |-> "suspended", revert |-> "suspended",
         resume  |-> "running",   delete |-> "none"]

(* An RPC runs until the actor settles, or it finds its work done (a       *)
(* suspend of a SUSPENDED actor, a resume of a RUNNING one, a delete of    *)
(* none), or else it is refused.                                           *)
Runs(rpc, s) == s \in From[rpc] \cup {Via[rpc]}

Done(rpc, s) == s = Goal[rpc] /\ rpc # "revert"

(* An actor that moves settles in the state its RPC aims at.               *)
Settled == [suspending |-> "suspended", reverting |-> "suspended",
            resuming   |-> "running",   deleting  |-> "none"]

Moving == {"suspending", "reverting", "resuming", "deleting"}

(* The record after a CreateActor of a free name: SUSPENDED at the         *)
(* template's golden snapshot, a new uid, no policy yet.                   *)
Created(a, tm) == [state |-> "suspended", uid |-> a.uid + 1, template |-> tm,
                   policy |-> FALSE]

CanCreate(a) == a.state = "none" /\ a.uid < MaxUid

WithPolicy(a) ==
  IF a.state \in {"none", "deleting"} THEN a ELSE [a EXCEPT !.policy = TRUE]

Moved(rpc, a) == IF Runs(rpc, a.state) THEN [a EXCEPT !.state = Via[rpc]] ELSE a

(* The record after a request has been processed, whoever waits for it.    *)
After(rpc, a, tm) ==
  IF rpc = "create" THEN IF CanCreate(a) THEN Created(a, tm) ELSE a
  ELSE IF rpc = "policy" THEN WithPolicy(a) ELSE Moved(rpc, a)
=============================================================================
