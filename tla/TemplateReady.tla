--------------------------- MODULE TemplateReady ----------------------------
(***************************************************************************)
(* ensure_ready (src/src/template.rs): the create_sandbox calls of one     *)
(* template's sandboxes create the template or find it, and poll it until  *)
(* its golden snapshot has settled.  They share the template by its name,  *)
(* and nothing else orders them: the call that sees the snapshot failed    *)
(* deletes the template for the next one to build anew.                    *)
(***************************************************************************)
EXTENDS Naturals

CONSTANTS
  Ensures,    (* Slots for calls of ensure_ready.                          *)
  Polls,      (* Sleeps of READY_POLL_INTERVAL within                      *)
              (* template_ready_timeout_secs.                              *)
  MaxBuilds,  (* Bound: templates created under the name.                  *)
  MaxFaults   (* Bound: failed RPCs and cancelled calls.                   *)

ASSUME BoundsAssumption == Polls \in Nat /\ MaxBuilds \in Nat /\ MaxFaults \in Nat

VARIABLES
  template,  (* The template under the name, and which one it is.          *)
  ensure,    (* Each call: its place, its polls, the template it last saw. *)
  late,      (* Requests whose caller is gone, still to be processed.      *)
  faults,    (* Failures so far.                                           *)
  cleared    (* History: the templates a call reported failed and whose    *)
             (* delete had succeeded.                                      *)

vars == <<template, ensure, late, faults, cleared>>

Template == [phase: {"absent", "building", "failed", "ready"},
             build: 0..MaxBuilds]

(* A call's history: spared is `cleared` when it began.                   *)
Ensure == [at: {"idle", "create", "get", "sleep", "delete",
                "ok", "failed", "timeout", "rpc"},
           polls: 0..Polls, seen: 0..MaxBuilds,
           spared: SUBSET (1..MaxBuilds)]

Idle == [at |-> "idle", polls |-> 0, seen |-> 0, spared |-> {}]

Ends == {"ok", "failed", "timeout", "rpc"}

Init ==
  /\ template = [phase |-> "absent", build |-> 0]
  /\ ensure = [e \in Ensures |-> Idle]
  /\ late = {}
  /\ faults = 0
  /\ cleared = {}

-----------------------------------------------------------------------------
(* What ate-api-server does with a template                                *)

Created == IF template.phase = "absent" /\ template.build < MaxBuilds
           THEN [phase |-> "building", build |-> template.build + 1]
           ELSE template

Deleted == [template EXCEPT !.phase = "absent"]

(* The reconciler builds the golden snapshot, or fails to.                 *)
Build(p) ==
  /\ template.phase = "building"
  /\ template' = [template EXCEPT !.phase = p]
  /\ UNCHANGED <<ensure, late, faults, cleared>>

(* A request whose caller has gone is processed after all.                 *)
Deliver(rpc) ==
  /\ rpc \in late
  /\ late' = late \ {rpc}
  /\ template' = IF rpc = "create" THEN Created ELSE Deleted
  /\ UNCHANGED <<ensure, faults, cleared>>

-----------------------------------------------------------------------------
(* ensure_ready                                                            *)

Goto(e, p) == ensure' = [ensure EXCEPT ![e].at = p]

Call(e) ==
  /\ ensure[e].at = "idle"
  /\ ensure' = [ensure EXCEPT ![e] =
       [Idle EXCEPT !.at = "create", !.spared = cleared]]
  /\ UNCHANGED <<template, late, faults, cleared>>

(* An existing template will do: the same name means the same inputs.      *)
Create(e) ==
  /\ ensure[e].at = "create"
  /\ template' = Created
  /\ Goto(e, "get")
  /\ UNCHANGED <<late, faults, cleared>>

(* Where one GetActorTemplate leads, by the phase it finds: NotFound is an *)
(* RPC error like any other, and building leads to one of the places still.*)
Outcomes(still) == [absent   |-> {"rpc"}, failed |-> {"delete"},
                    building |-> still,   ready  |-> {"ok"}]

(* A poll may find the time out early, when the RPCs were slow.            *)
Get(e) ==
  /\ ensure[e].at = "get"
  /\ \E p \in Outcomes(IF ensure[e].polls < Polls THEN {"sleep", "timeout"}
                       ELSE {"timeout"})[template.phase] :
       ensure' = [ensure EXCEPT ![e].at = p, ![e].seen = template.build]
  /\ UNCHANGED <<template, late, faults, cleared>>

(* Mutant: the polls are not counted.                                      *)
SleepUncounted(e) ==
  /\ ensure[e].at = "sleep"
  /\ Goto(e, "get")
  /\ UNCHANGED <<template, late, faults, cleared>>

Sleep(e) ==
  /\ ensure[e].at = "sleep"
  /\ ensure' = [ensure EXCEPT ![e].at = "get", ![e].polls = @ + 1]
  /\ UNCHANGED <<template, late, faults, cleared>>

(* Mutant: the failed template is left for the next call to find.          *)
DeleteNot(e) ==
  /\ ensure[e].at = "delete"
  /\ Goto(e, "failed")
  /\ cleared' = cleared \cup {ensure[e].seen}
  /\ UNCHANGED <<template, late, faults>>

(* The delete names the template and not the one that was seen to fail.    *)
Delete(e) ==
  /\ ensure[e].at = "delete"
  /\ template' = Deleted
  /\ Goto(e, "failed")
  /\ cleared' = cleared \cup {ensure[e].seen}
  /\ UNCHANGED <<late, faults>>

(* An RPC fails, whether or not it is processed later.  A failed delete is *)
(* logged, and no more: the call reports the failure of a template that is *)
(* still there for the next one to meet.                                   *)
RpcFails(e) ==
  /\ ensure[e].at \in {"create", "get", "delete"}
  /\ faults < MaxFaults
  /\ faults' = faults + 1
  /\ late' = late \cup ({ensure[e].at} \ {"get"})
  /\ Goto(e, IF ensure[e].at = "delete" THEN "failed" ELSE "rpc")
  /\ UNCHANGED <<template, cleared>>

(* The gateway gives its create_sandbox up.                                *)
Cancel(e) ==
  /\ ensure[e].at \in {"create", "get", "sleep", "delete"}
  /\ faults < MaxFaults
  /\ faults' = faults + 1
  /\ late' = late \cup ({ensure[e].at} \ {"get", "sleep"})
  /\ ensure' = [ensure EXCEPT ![e] = Idle]
  /\ UNCHANGED <<template, cleared>>

Return(e) ==
  /\ ensure[e].at \in Ends
  /\ ensure' = [ensure EXCEPT ![e] = Idle]
  /\ UNCHANGED <<template, late, faults, cleared>>

Run(e) == Create(e) \/ Get(e) \/ Sleep(e) \/ Delete(e) \/ Return(e)

Next ==
  \/ \E e \in Ensures : Call(e) \/ Run(e) \/ RpcFails(e) \/ Cancel(e)
  \/ \E p \in {"ready", "failed"} : Build(p)
  \/ \E rpc \in {"create", "delete"} : Deliver(rpc)

Spec == Init /\ [][Next]_vars

(* A call's RPCs are answered and its sleeps end; the reconciler need not  *)
(* settle any template.                                                    *)
FairSpec == Spec /\ \A e \in Ensures : WF_vars(Run(e))

-----------------------------------------------------------------------------
(* Properties                                                              *)

(* Every variable has its type.                                            *)
TypeOK ==
  /\ template \in Template
  /\ ensure \in [Ensures -> Ensure]
  /\ late \subseteq {"create", "delete"}
  /\ faults \in 0..MaxFaults
  /\ cleared \subseteq 1..MaxBuilds

(* A call that begins after another has reported a golden snapshot's       *)
(* failure and deleted its template does not find that failure again: if   *)
(* it fails, it failed a template built since (template.rs:381, "Delete    *)
(* the template so the next create rebuilds the golden snapshot instead of *)
(* finding this failure again").  The exception is a delete that failed,   *)
(* which the code logs and no more: after it the next call may report the  *)
(* same failure once more (see Rebuilds).                                  *)
FailsAnew ==
  \A e \in Ensures : ensure[e].at \in {"delete", "failed"} =>
    ensure[e].seen \notin ensure[e].spared

(* A delete that failed is made up for by the next call: once RPCs do not  *)
(* fail any more and callers stay, no failed template outlasts a call of   *)
(* ensure_ready that is under way.                                         *)
Rebuilds ==
  \A b \in 1..MaxBuilds :
    /\ template = [phase |-> "failed", build |-> b]
    /\ faults = MaxFaults
    /\ \E e \in Ensures : ensure[e].at \in {"create", "get", "sleep", "delete"}
    ~> template # [phase |-> "failed", build |-> b]

(* Every call of ensure_ready ends, although the golden snapshot may never *)
(* settle and others delete and build the template meanwhile.              *)
EnsuresEnd == \A e \in Ensures : ensure[e].at # "idle" ~> ensure[e].at = "idle"
=============================================================================
