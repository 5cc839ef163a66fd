--------------------------- MODULE TemplateProofs ---------------------------
(* What TLAPS proves of TemplateReady, for any number of calls, polls,     *)
(* builds and faults: its types, and that a failure whose template was     *)
(* deleted when it was reported is not found again.                        *)
EXTENDS TemplateReady, TLAPS

(* A cleared failure is of a template that is gone, and each later one has *)
(* a greater number: so it is not found again.  A call that began before   *)
(* may still delete a template built since, which removes one that was not *)
(* cleared and makes no cleared one reappear.                              *)
Behind ==
  /\ \A u \in cleared : u <= template.build
  /\ template.build \in cleared => template.phase = "absent"
  /\ template.phase # "absent" => template.build # 0

Remembers ==
  \A e \in Ensures :
    /\ ensure[e].seen <= template.build
    /\ ensure[e].at = "delete" => ensure[e].seen # 0
    /\ ensure[e].at = "sleep" => ensure[e].polls < Polls
    /\ ensure[e].spared \subseteq cleared

IInv == TypeOK /\ Behind /\ Remembers /\ FailsAnew

-----------------------------------------------------------------------------

LEMMA InitIInv == Init => IInv
  BY BoundsAssumption
  DEF Init, IInv, TypeOK, Behind, Remembers, FailsAnew, Template, Ensure, Idle

(* What holds of the template after each thing that can happen to it.      *)
LEMMA TemplateAfter ==
  ASSUME TypeOK, Behind,
         \/ template' = Created
         \/ template' = Deleted
         \/ template' = template,
         cleared' = cleared
  PROVE  /\ template' \in Template
         /\ template.build \in Nat
         /\ template'.build \in Nat
         /\ template.build <= template'.build
         /\ Behind'
<1> USE BoundsAssumption
<1>1. /\ template.phase \in {"absent", "building", "failed", "ready"}
      /\ template.build \in 0..MaxBuilds
      /\ template \in Template
  BY DEF TypeOK, Template
<1>2. CASE template' = template
  BY <1>1, <1>2 DEF Behind
<1>3. CASE template' = Deleted
  <2>1. /\ template' \in Template
        /\ template'.build = template.build
        /\ template'.phase = "absent"
    BY <1>1, <1>3 DEF Deleted, Template
  <2> QED BY <1>1, <2>1 DEF Behind
<1>4. CASE template' = Created /\ template' # template
  <2>1. /\ template.phase = "absent" /\ template.build < MaxBuilds
        /\ template' = [phase |-> "building", build |-> template.build + 1]
    BY <1>4 DEF Created
  <2>2. /\ template' \in Template
        /\ template'.build = template.build + 1
    BY <1>1, <2>1 DEF Template
  <2>3. \A u \in cleared : u <= template.build /\ u \in Nat
    BY DEF Behind, TypeOK
  <2>4. template'.build \notin cleared
    BY <1>1, <2>2, <2>3
  <2> QED BY <1>1, <2>2, <2>3, <2>4 DEF Behind
<1> QED BY <1>2, <1>3, <1>4

(* The template changes, and no call moves.                                *)
LEMMA TemplateMoves ==
  ASSUME IInv, UNCHANGED <<ensure, cleared>>,
         late' \subseteq {"create", "delete"}, faults' \in 0..MaxFaults,
         template' \in Template, Behind', template.build <= template'.build
  PROVE  IInv'
<1>1. /\ template.build \in 0..MaxBuilds /\ template'.build \in 0..MaxBuilds
      /\ \A e \in Ensures : ensure[e].seen \in 0..MaxBuilds
  BY DEF IInv, TypeOK, Template, Ensure
<1>2. TypeOK'
  BY DEF IInv, TypeOK
<1>3. Remembers' /\ FailsAnew'
  BY <1>1, BoundsAssumption DEF IInv, Remembers, FailsAnew
<1> QED BY <1>2, <1>3 DEF IInv

(* One call moves, to what an ensure may be.                               *)
Sound(x) ==
  /\ x \in Ensure
  /\ x.at = "sleep" => x.polls < Polls
  /\ x.at = "delete" => x.seen # 0
  /\ x.at \in {"delete", "failed"} => x.seen \notin x.spared

LEMMA CallMoves ==
  ASSUME IInv, NEW e \in Ensures, NEW x, ensure' = [ensure EXCEPT ![e] = x],
         Sound(x), x.seen <= template'.build, x.spared \subseteq cleared',
         late' \subseteq {"create", "delete"}, faults' \in 0..MaxFaults,
         template' \in Template, template.build <= template'.build, Behind',
         cleared \subseteq cleared', cleared' \subseteq 1..MaxBuilds
  PROVE  IInv'
<1>1. /\ template.build \in 0..MaxBuilds /\ template'.build \in 0..MaxBuilds
      /\ \A d \in Ensures : ensure[d].seen \in 0..MaxBuilds
  BY DEF IInv, TypeOK, Template, Ensure
<1>2. TypeOK'
  BY DEF IInv, TypeOK, Sound
<1>3. ensure'[e] = x /\ \A d \in Ensures : d # e => ensure'[d] = ensure[d]
  BY DEF IInv, TypeOK
<1>4. Remembers'
  <2> SUFFICES ASSUME NEW d \in Ensures
               PROVE  /\ ensure'[d].seen <= template'.build
                      /\ ensure'[d].at = "delete" => ensure'[d].seen # 0
                      /\ ensure'[d].at = "sleep" => ensure'[d].polls < Polls
                      /\ ensure'[d].spared \subseteq cleared'
    BY DEF Remembers
  <2>1. CASE d = e
    BY <1>3, <2>1 DEF Sound
  <2>2. CASE d # e
    <3>1. /\ ensure'[d] = ensure[d] /\ ensure[d].seen <= template.build
          /\ ensure[d].spared \subseteq cleared
      BY <1>3, <2>2 DEF IInv, Remembers
    <3>2. ensure[d].seen <= template'.build
      BY <1>1, <3>1, BoundsAssumption
    <3>3. /\ ensure[d].at = "delete" => ensure[d].seen # 0
          /\ ensure[d].at = "sleep" => ensure[d].polls < Polls
      BY DEF IInv, Remembers
    <3> QED BY <3>1, <3>2, <3>3
  <2> QED BY <2>1, <2>2
<1>5. FailsAnew'
  BY <1>3 DEF IInv, FailsAnew, Sound
<1> QED BY <1>2, <1>4, <1>5 DEF IInv

(* What the invariant says of one call.                                    *)
LEMMA CallNow ==
  ASSUME IInv, NEW e \in Ensures
  PROVE  /\ Sound(ensure[e])
         /\ ensure[e].seen <= template.build
         /\ ensure[e].spared \subseteq cleared
         /\ template \in Template /\ template.build \in Nat
         /\ late \subseteq {"create", "delete"} /\ faults \in 0..MaxFaults
         /\ cleared \subseteq 1..MaxBuilds
         /\ TypeOK /\ Behind
  BY DEF IInv, TypeOK, Remembers, FailsAnew, Sound, Template

-----------------------------------------------------------------------------

LEMMA BuildPreserves ==
  ASSUME IInv, NEW p \in {"ready", "failed"}, Build(p)  PROVE IInv'
<1>1. template \in Template /\ template.phase = "building"
  BY DEF Build, IInv, TypeOK
<1>2. /\ template' \in Template
      /\ template'.build = template.build /\ template'.phase = p
  BY <1>1 DEF Build, Template
<1>3. template.build <= template'.build /\ Behind'
  BY <1>1, <1>2, BoundsAssumption DEF Build, IInv, Behind, Template
<1> QED BY <1>2, <1>3, TemplateMoves DEF Build, IInv, TypeOK

LEMMA DeliverPreserves ==
  ASSUME IInv, NEW rpc \in {"create", "delete"}, Deliver(rpc)  PROVE IInv'
<1>1. TypeOK /\ Behind
  BY DEF IInv
<1>2. template' = Created \/ template' = Deleted
  BY DEF Deliver
<1> QED BY <1>1, <1>2, TemplateAfter, TemplateMoves DEF Deliver, TypeOK

LEMMA ReturnPreserves ==
  ASSUME IInv, NEW e \in Ensures, ensure' = [ensure EXCEPT ![e] = Idle],
         UNCHANGED <<template, cleared>>,
         late' \subseteq {"create", "delete"}, faults' \in 0..MaxFaults
  PROVE  IInv'
<1>1. Sound(Idle) /\ Idle.seen = 0 /\ Idle.spared = {}
  BY BoundsAssumption DEF Sound, Idle, Ensure
<1>2. Behind' /\ template.build <= template'.build /\ 0 <= template'.build
  BY CallNow, BoundsAssumption DEF Behind, Template
<1> QED BY <1>1, <1>2, CallNow, CallMoves

LEMMA CallPreserves ==
  ASSUME IInv, NEW e \in Ensures, Call(e)  PROVE IInv'
<1> DEFINE x == [Idle EXCEPT !.at = "create", !.spared = cleared]
<1>1. cleared \subseteq 1..MaxBuilds
  BY CallNow
<1>2. Sound(x) /\ x.seen = 0 /\ x.spared = cleared
  <2>1. /\ Idle \in Ensure /\ Idle.seen = 0
    BY BoundsAssumption DEF Idle, Ensure
  <2>2. /\ x \in Ensure
        /\ x.at = "create" /\ x.seen = 0 /\ x.spared = cleared
    BY <1>1, <2>1 DEF Ensure
  <2> QED BY <2>2 DEF Sound
<1>3. Behind' /\ template.build <= template'.build /\ 0 <= template'.build
  BY CallNow, BoundsAssumption DEF Call, Behind, Template
<1>4. ensure' = [ensure EXCEPT ![e] = x] /\ UNCHANGED <<template, late, faults, cleared>>
  BY DEF Call
<1> HIDE DEF x
<1> QED BY <1>2, <1>3, <1>4, CallNow, CallMoves

(* A call that goes to p, with the rest of it as it is.                    *)
LEMMA CallGoes ==
  ASSUME IInv, NEW e \in Ensures,
         NEW p \in {"create", "get", "ok", "failed", "timeout", "rpc"},
         p = "failed" => ensure[e].at \in {"delete", "failed"},
         NEW n \in 0..Polls,
         ensure' = [ensure EXCEPT ![e] =
           [ensure[e] EXCEPT !.at = p, !.polls = n]],
         late' \subseteq {"create", "delete"}, faults' \in 0..MaxFaults,
         template' \in Template, template.build <= template'.build, Behind',
         cleared \subseteq cleared', cleared' \subseteq 1..MaxBuilds
  PROVE  IInv'
<1> DEFINE x == [ensure[e] EXCEPT !.at = p, !.polls = n]
<1>1. Sound(ensure[e])
  BY CallNow
<1>2. /\ x \in Ensure
      /\ x.at = p /\ x.seen = ensure[e].seen /\ x.spared = ensure[e].spared
  BY <1>1 DEF Sound, Ensure
<1>3. Sound(x)
  BY <1>1, <1>2 DEF Sound
<1>4. /\ ensure[e].seen \in Nat /\ template.build \in Nat
      /\ template'.build \in Nat
  BY <1>1, CallNow, BoundsAssumption DEF Sound, Ensure, Template
<1>5. x.seen <= template'.build /\ x.spared \subseteq cleared'
  BY <1>2, <1>4, CallNow
<1>6. ensure' = [ensure EXCEPT ![e] = x]
  OBVIOUS
<1> HIDE DEF x
<1> QED BY <1>3, <1>5, <1>6, CallMoves

LEMMA CreatePreserves ==
  ASSUME IInv, NEW e \in Ensures, Create(e)  PROVE IInv'
<1>1. ensure[e] \in Ensure /\ ensure \in [Ensures -> Ensure]
  BY DEF IInv, TypeOK
<1>2. ensure' = [ensure EXCEPT ![e] =
        [ensure[e] EXCEPT !.at = "get", !.polls = ensure[e].polls]]
  BY <1>1 DEF Create, Goto, Ensure
<1>3. ensure[e].polls \in 0..Polls
  BY <1>1 DEF Ensure
<1>4. /\ template' = Created
      /\ UNCHANGED <<late, faults, cleared>>
  BY DEF Create
<1>5. /\ template' \in Template /\ template.build <= template'.build /\ Behind'
  BY <1>4, CallNow, TemplateAfter
<1> QED BY <1>2, <1>3, <1>4, <1>5, CallNow, CallGoes

LEMMA GetPreserves ==
  ASSUME IInv, NEW e \in Ensures, Get(e)  PROVE IInv'
<1>1. /\ template.phase \in {"absent", "building", "failed", "ready"}
      /\ template.build \in 0..MaxBuilds
      /\ Sound(ensure[e]) /\ ensure \in [Ensures -> Ensure]
  BY CallNow DEF IInv, TypeOK, Template
<1>2. PICK p \in {"rpc", "delete", "ok", "sleep", "timeout"} :
        /\ ensure' = [ensure EXCEPT ![e].at = p, ![e].seen = template.build]
        /\ p = "delete" => template.phase = "failed"
        /\ p = "sleep" => ensure[e].polls < Polls
  <2> DEFINE still == IF ensure[e].polls < Polls THEN {"sleep", "timeout"}
                      ELSE {"timeout"}
  <2>1. /\ Outcomes(still)["absent"] = {"rpc"}
        /\ Outcomes(still)["failed"] = {"delete"}
        /\ Outcomes(still)["building"] = still
        /\ Outcomes(still)["ready"] = {"ok"}
    BY DEF Outcomes
  <2>2. PICK p \in Outcomes(still)[template.phase] :
          ensure' = [ensure EXCEPT ![e].at = p, ![e].seen = template.build]
    BY DEF Get
  <2>3. /\ p \in {"rpc", "delete", "ok", "sleep", "timeout"}
        /\ p = "delete" => template.phase = "failed"
        /\ p = "sleep" => ensure[e].polls < Polls
    <3>1. still \subseteq {"sleep", "timeout"}
          /\ ("sleep" \in still => ensure[e].polls < Polls)
      OBVIOUS
    <3> HIDE DEF still
    <3>2. CASE template.phase = "absent"
      BY <2>1, <2>2, <3>2
    <3>3. CASE template.phase = "failed"
      BY <2>1, <2>2, <3>3
    <3>4. CASE template.phase = "ready"
      BY <2>1, <2>2, <3>4
    <3>5. CASE template.phase = "building"
      BY <2>1, <2>2, <3>1, <3>5
    <3> QED BY <1>1, <3>2, <3>3, <3>4, <3>5
  <2> QED BY <2>2, <2>3
<1> DEFINE x == [ensure[e] EXCEPT !.at = p, !.seen = template.build]
<1>3. ensure' = [ensure EXCEPT ![e] = x]
  BY <1>1, <1>2
<1>4. /\ x \in Ensure
      /\ x.at = p /\ x.seen = template.build /\ x.polls = ensure[e].polls
      /\ x.spared = ensure[e].spared
  BY <1>1 DEF Sound, Ensure
<1>5. p = "delete" => template.build # 0 /\ template.build \notin cleared
  BY <1>2, CallNow DEF Behind
<1>6. Sound(x)
  BY <1>2, <1>4, <1>5, CallNow DEF Sound
<1>7. UNCHANGED <<template, late, faults, cleared>>
  BY DEF Get
<1>8. Behind' /\ template.build <= template'.build
  BY <1>1, <1>7, CallNow, BoundsAssumption DEF Behind
<1>9. x.seen <= template'.build /\ x.spared \subseteq cleared'
  BY <1>4, <1>7, <1>8, CallNow
<1> HIDE DEF x
<1> QED BY <1>3, <1>6, <1>7, <1>8, <1>9, CallNow, CallMoves

LEMMA SleepPreserves ==
  ASSUME IInv, NEW e \in Ensures, Sleep(e)  PROVE IInv'
<1>1. Sound(ensure[e]) /\ ensure \in [Ensures -> Ensure] /\ ensure[e].at = "sleep"
  BY CallNow DEF Sleep, IInv, TypeOK
<1>2. ensure[e].polls + 1 \in 0..Polls
  BY <1>1, BoundsAssumption DEF Sound, Ensure
<1>3. ensure' = [ensure EXCEPT ![e] =
        [ensure[e] EXCEPT !.at = "get", !.polls = ensure[e].polls + 1]]
  BY <1>1 DEF Sleep, Sound, Ensure
<1>4. UNCHANGED <<template, late, faults, cleared>>
  BY DEF Sleep
<1>5. Behind' /\ template.build <= template'.build
  BY <1>4, CallNow, BoundsAssumption DEF Behind
<1> QED BY <1>2, <1>3, <1>4, <1>5, CallNow, CallGoes

(* A call's place changes, and nothing else of it.                         *)
LEMMA PlaceChanges ==
  ASSUME IInv, NEW e \in Ensures, NEW p, Goto(e, p)
  PROVE  /\ ensure' = [ensure EXCEPT ![e] =
              [ensure[e] EXCEPT !.at = p, !.polls = ensure[e].polls]]
         /\ ensure[e].polls \in 0..Polls
  BY DEF Goto, IInv, TypeOK, Ensure

(* The step that reports a failure removes the template, or finds it       *)
(* replaced or removed already.                                            *)
LEMMA DeletePreserves ==
  ASSUME IInv, NEW e \in Ensures, Delete(e)  PROVE IInv'
<1>1. /\ Sound(ensure[e]) /\ ensure[e].at = "delete"
      /\ ensure[e].seen <= template.build /\ template.build \in Nat
  BY CallNow DEF Delete
<1>2. ensure[e].seen \in 1..MaxBuilds
  BY <1>1, BoundsAssumption DEF Sound, Ensure
<1>3. /\ template' \in Template /\ template'.build = template.build
      /\ template'.phase = "absent"
  BY CallNow DEF Delete, Deleted, Template
<1>4. /\ cleared' = cleared \cup {ensure[e].seen}
      /\ late' = late /\ faults' = faults /\ Goto(e, "failed")
  BY DEF Delete
<1>5. cleared \subseteq cleared' /\ cleared' \subseteq 1..MaxBuilds
  BY <1>2, <1>4, CallNow
<1>6. Behind' /\ template.build <= template'.build
  BY <1>1, <1>3, <1>4, CallNow DEF Behind
<1>7. late' \subseteq {"create", "delete"} /\ faults' \in 0..MaxFaults
  BY <1>4, CallNow
<1>8. /\ ensure' = [ensure EXCEPT ![e] =
           [ensure[e] EXCEPT !.at = "failed", !.polls = ensure[e].polls]]
      /\ ensure[e].polls \in 0..Polls
  BY <1>4, PlaceChanges
<1> QED BY <1>1, <1>3, <1>5, <1>6, <1>7, <1>8, CallGoes

LEMMA RpcFailsPreserves ==
  ASSUME IInv, NEW e \in Ensures, RpcFails(e)  PROVE IInv'
<1> DEFINE p == IF ensure[e].at = "delete" THEN "failed" ELSE "rpc"
<1>1. /\ ensure[e].at \in {"create", "get", "delete"}
      /\ faults < MaxFaults /\ faults' = faults + 1
      /\ late' = late \cup ({ensure[e].at} \ {"get"})
      /\ UNCHANGED <<template, cleared>> /\ Goto(e, p)
  BY DEF RpcFails
<1>2. late' \subseteq {"create", "delete"} /\ faults' \in 0..MaxFaults
  BY <1>1, CallNow, BoundsAssumption
<1>3. Behind' /\ template.build <= template'.build
  BY <1>1, CallNow, BoundsAssumption DEF Behind
<1>4. p \in {"rpc", "failed"} /\ (p = "failed" => ensure[e].at = "delete")
  OBVIOUS
<1> HIDE DEF p
<1>5. /\ ensure' = [ensure EXCEPT ![e] =
           [ensure[e] EXCEPT !.at = p, !.polls = ensure[e].polls]]
      /\ ensure[e].polls \in 0..Polls
  BY <1>1, PlaceChanges
<1>6. /\ template' \in Template
      /\ cleared \subseteq cleared' /\ cleared' \subseteq 1..MaxBuilds
  BY <1>1, CallNow
<1> QED BY <1>2, <1>3, <1>4, <1>5, <1>6, CallGoes

LEMMA CancelPreserves ==
  ASSUME IInv, NEW e \in Ensures, Cancel(e)  PROVE IInv'
<1>1. late' \subseteq {"create", "delete"} /\ faults' \in 0..MaxFaults
  BY CallNow, BoundsAssumption DEF Cancel
<1> QED BY <1>1, ReturnPreserves DEF Cancel

-----------------------------------------------------------------------------

LEMMA NextIInv == IInv /\ [Next]_vars => IInv'
<1> SUFFICES ASSUME IInv, [Next]_vars  PROVE IInv'
  OBVIOUS
<1>1. CASE UNCHANGED vars
  BY <1>1 DEF vars, IInv, TypeOK, Behind, Remembers, FailsAnew
<1>2. ASSUME NEW e \in Ensures, Return(e)  PROVE IInv'
  BY <1>2, CallNow, ReturnPreserves DEF Return
<1>3. ASSUME NEW e \in Ensures,
             Call(e) \/ Run(e) \/ RpcFails(e) \/ Cancel(e)
      PROVE  IInv'
  BY <1>2, <1>3, CallPreserves, CreatePreserves, GetPreserves, SleepPreserves,
     DeletePreserves, RpcFailsPreserves, CancelPreserves DEF Run
<1> QED BY <1>1, <1>3, BuildPreserves, DeliverPreserves DEF Next

LEMMA Invariant == Spec => []IInv
<1> QED BY InitIInv, NextIInv, PTL DEF Spec

(* Every variable of TemplateReady has its type.                           *)
THEOREM TypeCorrect == Spec => []TypeOK
<1>1. IInv => TypeOK
  BY DEF IInv
<1> QED BY <1>1, Invariant, PTL

(* A call of ensure_ready that begins after another has reported a golden  *)
(* snapshot's failure, with its template deleted, never finds that failure *)
(* again, however the calls, the late requests and the deletes of rebuilt  *)
(* templates interleave.  It says nothing of a report whose delete failed. *)
THEOREM ClearedStaysCleared == Spec => []FailsAnew
<1>1. IInv => FailsAnew
  BY DEF IInv
<1> QED BY <1>1, Invariant, PTL
=============================================================================
