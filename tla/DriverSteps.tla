---------------------------- MODULE DriverSteps ----------------------------
(***************************************************************************)
(* What the steps of Driver may do, proved from IInv.                      *)
(*                                                                         *)
(* It implements StopRecord: the marker on disk, its cache in memory and   *)
(* the reading back at start are one record of a stop.  No step changes    *)
(* both halves of a sandbox's record (OneHalf), what the gateway is sure   *)
(* of is what the record says (Means), and a step that ends such a         *)
(* certainty leaves the record alone (Asks).                               *)
(*                                                                         *)
(* It wakes only actors that are equipped for it, and reaps only orphans:  *)
(* EInv adds to IInv what a task knows of its sandbox's actor and bundle   *)
(* by each place (Knowledge), and what the reaper's list says of its       *)
(* victims (Bundled).  Both outlive what becomes of the actor, since a     *)
(* name's next actor has another uid (Evolves).                            *)
(*                                                                         *)
(* And it leaves no lock behind: an actor's lock is held by the one call   *)
(* or task that is at work under it, and by nobody else (Held).            *)
(***************************************************************************)
EXTENDS DriverProofs

USE PolicyAssumption

(* The second half of the record.                                          *)
Cached == IF server = "down" THEN mark ELSE stopped

RecordOf(n) ==
  IF n \in mark /\ n \in Cached THEN "held"
  ELSE IF n \notin mark /\ n \notin Cached THEN "free" ELSE "torn"

(* A step changes at most one half of n's record.                          *)
OneHalf(n) == (n \in mark' <=> n \in mark) \/ (n \in Cached' <=> n \in Cached)

LEMMA RecordIsRecordOf == \A n : Record(n) = RecordOf(n)
BY DEF Record, RecordOf, Cached

LEMMA RecordIsRecordOfNext == \A n : Record(n)' = RecordOf(n)'
BY DEF Record, RecordOf, Cached

(* A task is at work only in a driver that serves.                         *)
LEMMA AtWork ==
  ASSUME IInv, NEW t \in Tasks, pc[t] # "idle"
  PROVE  server = "serving" /\ task[t].op # "none" /\ task[t].on \in Names
BY DEF IInv, TypeInv, TaskShape, OnRoute, Quiet

-----------------------------------------------------------------------------
(* The record                                                              *)

LEMMA TaskStepHalf ==
  ASSUME IInv, NEW t \in Tasks,
         TaskStep(t) \/ RpcError(t) \/ IoError(t) \/ Cancel(t)
         \/ \E m \in Names : SpawnAgain(t, m),
         NEW n
  PROVE  OneHalf(n)
<1>1. CASE UNCHANGED <<mark, stopped, server>>
  BY <1>1 DEF OneHalf, Cached
<1>2. CASE MarkDisk(t) \/ UnmarkDisk(t)
  <2>1. server = "serving" /\ server' = server /\ stopped' = stopped
    BY <1>2, AtWork DEF MarkDisk, UnmarkDisk, At, boot
  <2> QED BY <2>1 DEF OneHalf, Cached
<1>3. CASE MarkMemory(t) \/ RemarkMemory(t) \/ UnmarkMemory(t)
  <2>1. mark' = mark
    BY <1>3 DEF MarkMemory, RemarkMemory, UnmarkMemory
  <2> QED BY <2>1 DEF OneHalf
<1>4. ASSUME Acquire(t) \/ Check(t) \/ GetState(t) \/ PutFile(t)
             \/ InsertBundle(t) \/ RemoveBundle(t) \/ UnlinkFile(t)
             \/ CreateActor(t) \/ CheckTemplate(t) \/ GetUid(t)
             \/ CreatePolicy(t) \/ Serve(t) \/ Reply(t)
      PROVE  UNCHANGED <<mark, stopped, server>>
  BY <1>4 DEF Acquire, Check, GetState, PutFile, InsertBundle, RemoveBundle,
     UnlinkFile, CreateActor, CheckTemplate, GetUid, CreatePolicy, Serve, Reply,
     store, boot
<1>5. ASSUME RpcError(t) \/ IoError(t) \/ Cancel(t)
             \/ \E m \in Names : SpawnAgain(t, m)
      PROVE  UNCHANGED <<mark, stopped, server>>
  BY <1>5 DEF RpcError, IoError, Cancel, SpawnAgain, store, boot
<1> QED BY <1>1, <1>2, <1>3, <1>4, <1>5 DEF TaskStep

LEMMA NextHalf ==
  ASSUME IInv, Next, NEW n
  PROVE  OneHalf(n)
<1>1. ASSUME NEW t \in Calls, NEW m, NEW op, NEW tm, Call(t, op, m, tm)
      PROVE  OneHalf(n)
  BY <1>1 DEF Call, store, boot, OneHalf, Cached
<1>2. ASSUME NEW m \in Names, PassOver(m) \/ Settle(m) \/ Intervene(m)
      PROVE  OneHalf(n)
  BY <1>2 DEF PassOver, Settle, Intervene, Environment, store, boot, OneHalf,
     Cached
<1>3. ASSUME NEW m \in Names, ReapBundle(m) \/ ReapFile(m) \/ ReapMark(m)
      PROVE  OneHalf(n)
  BY <1>3 DEF ReapBundle, ReapFile, ReapMark, boot, OneHalf, Cached
<1>4. ASSUME NEW r \in wire, Deliver(r) PROVE OneHalf(n)
  BY <1>4 DEF Deliver, Environment, store, boot, OneHalf, Cached
<1>5. ASSUME Poll \/ Crash \/ Open \/ ReapList \/ ReapDone \/ ReapFails
      PROVE  OneHalf(n)
  BY <1>5 DEF Poll, Crash, Open, ReapList, ReapDone, ReapFails, Serving, store,
     boot, OneHalf, Cached
<1> QED BY <1>1, <1>2, <1>3, <1>4, <1>5, TaskStepHalf DEF Next

-----------------------------------------------------------------------------
(* What the gateway is told                                                *)

Certain == {"stopped", "started", "deleted"}

(* What the gateway is sure of is what the record says.                    *)
LEMMA Means ==
  ASSUME IInv, NEW n \in Names, answer[n] \in Certain
  PROVE  RecordOf(n) = IF answer[n] = "stopped" THEN "held" ELSE "free"
BY DEF IInv, Settledness, Assured, Certain, RecordOf, Cached

LEMMA MeansNext ==
  ASSUME IInv', NEW n \in Names, answer'[n] \in Certain
  PROVE  RecordOf(n)' = IF answer'[n] = "stopped" THEN "held" ELSE "free"
BY DEF IInv, Settledness, Assured, Certain, RecordOf, Cached

(* A task's step tells the gateway something of the task's sandbox only,   *)
(* and only if the gateway called it.                                      *)
LEMMA TaskStepTells ==
  ASSUME IInv, NEW t \in Tasks,
         TaskStep(t) \/ RpcError(t) \/ IoError(t) \/ Cancel(t)
         \/ \E m \in Names : SpawnAgain(t, m),
         NEW n \in Names, answer'[n] # answer[n]
  PROVE  task[t].on = n /\ task[t].op \in CallOp
<1> DEFINE Tells == \A m \in Names : answer'[m] # answer[m] =>
                      task[t].on = m /\ task[t].op \in CallOp
<1>0. answer \in [Names -> Answer]
  BY DEF IInv, TypeInv, TypeOK
<1>1. ASSUME NEW ok, Return(t, ok) PROVE Tells
  BY <1>0, <1>1 DEF Return
<1>2. ASSUME GiveUp(t) PROVE Tells
  BY <1>1, <1>2 DEF GiveUp, history
<1>3. ASSUME Answered(t) PROVE Tells
  BY <1>1, <1>3 DEF Answered, history
<1>4. ASSUME Acquire(t) \/ Check(t) \/ GetState(t) \/ MarkDisk(t)
             \/ MarkMemory(t) \/ RemarkMemory(t) \/ UnmarkDisk(t)
             \/ UnmarkMemory(t) \/ PutFile(t) \/ InsertBundle(t)
             \/ RemoveBundle(t) \/ UnlinkFile(t)
      PROVE  Tells
  BY <1>1, <1>4 DEF Acquire, Check, GetState, MarkDisk, MarkMemory,
     RemarkMemory, UnmarkDisk, UnmarkMemory, PutFile, InsertBundle,
     RemoveBundle, UnlinkFile, history
<1>5. ASSUME CreateActor(t) \/ CheckTemplate(t) \/ GetUid(t) \/ CreatePolicy(t)
      PROVE  Tells
  BY <1>1, <1>5 DEF CreateActor, CheckTemplate, GetUid, CreatePolicy, history
<1>6. ASSUME Serve(t) \/ Reply(t) PROVE Tells
  BY <1>2, <1>3, <1>6 DEF Serve, Reply, history
<1>7. ASSUME RpcError(t) \/ IoError(t) \/ Cancel(t)
             \/ \E m \in Names : SpawnAgain(t, m)
      PROVE  Tells
  BY <1>1, <1>2, <1>7 DEF RpcError, IoError, Cancel, SpawnAgain
<1> QED BY <1>4, <1>5, <1>6, <1>7 DEF TaskStep

(* What ends a certainty leaves the record alone and gives no other.       *)
LEMMA Asks ==
  ASSUME IInv, IInv', Next, NEW n \in Names, answer[n] \in Certain,
         answer'[n] # answer[n]
  PROVE  answer'[n] \notin Certain /\ RecordOf(n)' = RecordOf(n)
<1>0. /\ answer \in [Names -> Answer]
      /\ \A t \in Tasks : task[t].on = n => task[t].op \notin CallOp
  BY DEF IInv, TypeInv, TypeOK, Settledness, Assured, Certain
<1>1. ASSUME NEW t \in Tasks,
             TaskStep(t) \/ RpcError(t) \/ IoError(t) \/ Cancel(t)
             \/ \E m \in Names : SpawnAgain(t, m)
      PROVE  FALSE
  BY <1>0, <1>1, TaskStepTells
<1>2. ASSUME NEW t \in Calls, NEW m \in Names, NEW op \in CallOp, NEW tm,
             Call(t, op, m, tm)
      PROVE  answer'[n] \notin Certain /\ UNCHANGED <<mark, stopped, server>>
  BY <1>0, <1>2 DEF Call, CallOp, Asked, Certain, store, boot
<1>3. ASSUME NEW m \in Names, Settle(m)
      PROVE  answer'[n] \notin Certain /\ UNCHANGED <<mark, stopped, server>>
  BY <1>0, <1>3 DEF Settle, Gone, Environment, Certain, store, boot
<1>4. ASSUME NEW m \in Names,
             \/ PassOver(m) \/ ReapBundle(m) \/ ReapFile(m) \/ ReapMark(m)
             \/ Intervene(m)
      PROVE  FALSE
  BY <1>4 DEF PassOver, ReapBundle, ReapFile, ReapMark, Intervene, history
<1>5. ASSUME NEW r \in wire, Deliver(r) PROVE FALSE
  BY <1>5 DEF Deliver
<1>6. ASSUME Poll \/ Crash \/ Open \/ ReapList \/ ReapDone \/ ReapFails
      PROVE  FALSE
  BY <1>6 DEF Poll, Crash, Open, ReapList, ReapDone, ReapFails, history
<1>7. answer'[n] \notin Certain /\ UNCHANGED <<mark, stopped, server>>
  BY <1>1, <1>2, <1>3, <1>4, <1>5, <1>6 DEF Next, CallOp
<1> QED BY <1>7 DEF RecordOf, Cached

-----------------------------------------------------------------------------
(* The refinement                                                          *)

(* Every step of the driver is one of StopRecord's for each sandbox.       *)
LEMMA StepIsStep ==
  ASSUME IInv, IInv', Next, NEW n \in Names
  PROVE  Stops!Step(n)
<1>1. /\ [m \in Names |-> Record(m)][n] = RecordOf(n)
      /\ [m \in Names |-> Record(m)]'[n] = RecordOf(n)'
  BY RecordIsRecordOf, RecordIsRecordOfNext
<1>2. /\ RecordOf(n) \in {"held", "free", "torn"}
      /\ RecordOf(n)' \in {"held", "free", "torn"}
  BY DEF RecordOf
<1>3. RecordOf(n)' # RecordOf(n) =>
        RecordOf(n)' \in IF RecordOf(n) = "torn" THEN {"held", "free"} ELSE {"torn"}
  BY NextHalf DEF OneHalf, RecordOf
<1>4. answer[n] \in Answer /\ answer'[n] \in Answer
  BY DEF IInv, TypeInv, TypeOK
<1>5. CASE answer[n] \in Certain /\ answer'[n] = answer[n]
  <2>1. RecordOf(n)' = RecordOf(n)
    BY <1>5, Means, MeansNext
  <2> QED BY <1>1, <1>5, <2>1 DEF Stops!Step, Stops!Keep
<1>6. CASE answer[n] \in Certain /\ answer'[n] # answer[n]
  <2>1. answer'[n] \notin Certain /\ RecordOf(n)' = RecordOf(n)
    BY <1>6, Asks
  <2>2. answer'[n] \in Stops!Unsure
    BY <2>1, <1>4 DEF Stops!Unsure, Answer, Certain
  <2> QED BY <1>1, <2>1, <2>2 DEF Stops!Step, Stops!Ask, Stops!Keep
<1>7. CASE answer[n] \notin Certain
  <2>1. answer[n] \in Stops!Unsure
    BY <1>4, <1>7 DEF Stops!Unsure, Answer, Certain
  <2>2. Stops!Keep(n) \/ Stops!Rewrite(n)
    BY <1>1, <1>3, <2>1 DEF Stops!Keep, Stops!Rewrite
  <2>3. CASE answer'[n] \in Certain
    <3>1. RecordOf(n)' = Stops!Meaning[answer'[n]]
      BY <2>3, MeansNext DEF Stops!Meaning, Certain
    <3>2. answer'[n] \in Stops!Sure
      BY <2>3 DEF Stops!Sure, Certain
    <3> QED BY <1>1, <2>2, <3>1, <3>2 DEF Stops!Step, Stops!Tell
  <2>4. CASE answer'[n] \notin Certain
    <3>1. answer'[n] \in Stops!Unsure
      BY <1>4, <2>4 DEF Stops!Unsure, Answer, Certain
    <3> QED BY <2>1, <2>2, <3>1 DEF Stops!Step, Stops!GiveUp, Stops!Ask
  <2> QED BY <2>3, <2>4
<1> QED BY <1>5, <1>6, <1>7

LEMMA StillRecord ==
  ASSUME UNCHANGED vars
  PROVE  UNCHANGED <<[n \in Names |-> Record(n)], answer>>
BY DEF vars, Record

LEMMA InitIsInit == Init => Stops!Init
BY DEF Init, Stops!Init, Record

(* The marker, its cache and their reading back are one record of a stop   *)
(* that keeps what the gateway was told (mark_stopped and its callers, the *)
(* store's open, the reap).                                                *)
THEOREM KeepsOneRecord == Spec => OneRecord
<1>1. Init => Stops!Init
  BY InitIsInit
<1>2. IInv /\ IInv' /\ [Next]_vars
        => [Stops!Next]_<<[n \in Names |-> Record(n)], answer>>
  BY StepIsStep, StillRecord DEF Stops!Next
<1> QED BY <1>1, <1>2, Inductive, PTL DEF Spec, OneRecord, Stops!Spec

-----------------------------------------------------------------------------
(* What a resume finds                                                     *)

Looked == {"get_uid", "policy", "put", "insert", "unmark_disk", "unmark_memory",
           "resume", "resuming"}

Stored == {"unmark_disk", "unmark_memory", "resume"}

(* What a task knows of its sandbox's actor by each of its places, and a   *)
(* create or start that is alone of the bundle.                            *)
Knowledge(t) ==
  LET n == task[t].on  a == actor[n] IN
  task[t].op # "none" =>
    /\ task[t].uid <= a.uid /\ task[t].known <= a.uid
    /\ task[t].op = "create" /\ pc[t] \in Looked
         /\ a.state # "none" /\ a.uid = task[t].known =>
         a.template = task[t].template
    /\ task[t].op = "create" /\ HasPolicy /\ pc[t] \in {"put", "insert"} \cup Stored
         /\ a.state # "none" /\ a.uid = task[t].uid =>
         a.policy
    /\ t \in sole /\ task[t].op \in {"create", "start"} =>
         /\ pc[t] \in {"insert"} \cup Stored => file[n] = task[t].uid
         /\ pc[t] \in Stored => bundle[n] = task[t].uid

(* No bundle is of an actor yet to come, and the reaper's victims are of   *)
(* none that is.                                                           *)
Bundled(n) ==
  /\ file[n] <= actor[n].uid /\ bundle[n] <= actor[n].uid
  /\ server = "reaping" /\ n \notin live =>
       actor[n].state = "none" \/ bundle[n] # actor[n].uid

EInv == IInv /\ (\A t \in Tasks : Knowledge(t)) /\ (\A n \in Names : Bundled(n))

(* An actor keeps its template and policy as long as it is the same one,   *)
(* and its name's next one has the next uid.                               *)
Evolves(a, b) ==
  \/ /\ b.uid = a.uid
     /\ b.state # "none" => /\ a.state # "none" /\ b.template = a.template
                            /\ a.policy => b.policy
  \/ b.uid = a.uid + 1 /\ a.state = "none"

Evolve == \A n \in Names : Evolves(actor[n], actor'[n])

LEMMA Evolution ==
  ASSUME NEW a \in Actor
  PROVE  /\ Evolves(a, a)
         /\ Evolves(a, NoActor(a.uid))
         /\ Evolves(a, WithPolicy(a))
         /\ \A s \in ActorState : a.state # "none" => Evolves(a, [a EXCEPT !.state = s])
         /\ \A rpc \in LifecycleRpc : Evolves(a, Moved(rpc, a))
         /\ \A tm : CanCreate(a) => Evolves(a, Created(a, tm))
<1>1. Evolves(a, a)
  BY DEF Evolves
<1>2. Evolves(a, NoActor(a.uid))
  BY DEF Evolves, NoActor
<1>3. Evolves(a, WithPolicy(a))
  BY <1>1 DEF Evolves, WithPolicy, Actor
<1>4. \A s \in ActorState : a.state # "none" => Evolves(a, [a EXCEPT !.state = s])
  BY DEF Evolves, Actor
<1>5. ASSUME NEW rpc \in LifecycleRpc PROVE Evolves(a, Moved(rpc, a))
  <2>1. CASE Runs(rpc, a.state)
    <3>1. a.state # "none" /\ Via[rpc] \in ActorState
      BY <2>1 DEF Runs, From, Via, LifecycleRpc, ActorState
    <3> QED BY <1>4, <2>1, <3>1 DEF Moved
  <2>2. CASE ~Runs(rpc, a.state)
    BY <1>1, <2>2 DEF Moved
  <2> QED BY <2>1, <2>2
<1>6. \A tm : CanCreate(a) => Evolves(a, Created(a, tm))
  BY DEF Evolves, Created, CanCreate
<1> QED BY <1>1, <1>2, <1>3, <1>4, <1>5, <1>6

LEMMA OneEvolves ==
  ASSUME IInv, NEW n \in Names, NEW b, actor' = [actor EXCEPT ![n] = b],
         Evolves(actor[n], b)
  PROVE  Evolve
<1>1. actor \in [Names -> Actor]
  BY DEF IInv, TypeInv, TypeOK
<1> QED BY <1>1, Evolution DEF Evolve

LEMMA NoneEvolves ==
  ASSUME IInv, UNCHANGED actor
  PROVE  Evolve
<1>1. actor \in [Names -> Actor]
  BY DEF IInv, TypeInv, TypeOK
<1> QED BY <1>1, Evolution DEF Evolve

LEMMA TaskEvolves ==
  ASSUME IInv, NEW t \in Tasks,
         TaskStep(t) \/ RpcError(t) \/ IoError(t) \/ Cancel(t)
  PROVE  Evolve
<1> DEFINE n == task[t].on
<1>1. /\ actor \in [Names -> Actor]
      /\ pc[t] # "idle" => n \in Names /\ task[t].op # "none"
  BY DEF IInv, TypeInv, TypeOK, TaskShape, OnRoute
<1>2. CASE CreateActor(t)
  <2>1. n \in Names
    BY <1>1, <1>2 DEF CreateActor, At
  <2>2. CASE CanCreate(actor[n])
    <3>1. actor' = [actor EXCEPT ![n] = Created(actor[n], task[t].template)]
      BY <1>1, <1>2, <2>1, <2>2 DEF CreateActor
    <3> QED BY <1>1, <2>1, <2>2, <3>1, Evolution, OneEvolves
  <2>3. CASE ~CanCreate(actor[n])
    BY <1>2, <2>3, NoneEvolves DEF CreateActor
  <2> QED BY <2>2, <2>3
<1>3. CASE CreatePolicy(t)
  <2>1. n \in Names /\ actor' = [actor EXCEPT ![n] = WithPolicy(actor[n])]
    BY <1>1, <1>3 DEF CreatePolicy, At
  <2> QED BY <1>1, <2>1, Evolution, OneEvolves
<1>4. CASE Serve(t)
  <2>1. /\ n \in Names /\ pc[t] \in LifecycleRpc
        /\ actor' = [actor EXCEPT ![n] = Moved(pc[t], actor[n])]
    BY <1>1, <1>4 DEF Serve, LifecycleRpc
  <2> QED BY <1>1, <2>1, Evolution, OneEvolves
<1>5. ASSUME Acquire(t) \/ Check(t) \/ GetState(t) \/ MarkDisk(t)
             \/ MarkMemory(t) \/ RemarkMemory(t) \/ UnmarkDisk(t)
             \/ UnmarkMemory(t) \/ PutFile(t) \/ InsertBundle(t)
             \/ RemoveBundle(t) \/ UnlinkFile(t) \/ CheckTemplate(t)
             \/ GetUid(t) \/ Reply(t) \/ RpcError(t) \/ IoError(t) \/ Cancel(t)
      PROVE  UNCHANGED actor
  BY <1>5 DEF Acquire, Check, GetState, MarkDisk, MarkMemory, RemarkMemory,
     UnmarkDisk, UnmarkMemory, PutFile, InsertBundle, RemoveBundle, UnlinkFile,
     CheckTemplate, GetUid, Reply, RpcError, IoError, Cancel, substrate
<1> QED BY <1>2, <1>3, <1>4, <1>5, NoneEvolves DEF TaskStep

LEMMA EnvironmentEvolves ==
  ASSUME IInv, \/ \E n \in Names : Settle(n) \/ Intervene(n)
               \/ \E r \in wire : Deliver(r)
  PROVE  Evolve
<1>1. actor \in [Names -> Actor] /\ wire \subseteq Request /\ WireShape
  BY DEF IInv, TypeInv, TypeOK
<1>2. ASSUME NEW n \in Names, Settle(n) PROVE Evolve
  <2>1. CASE actor[n].state = "deleting"
    BY <1>1, <1>2, <2>1, Evolution, OneEvolves DEF Settle
  <2>2. CASE actor[n].state # "deleting"
    <3> DEFINE s == Settled[actor[n].state]
    <3>1. s \in ActorState /\ actor[n].state # "none"
      BY <1>2, <2>2 DEF Settle, Moving, Settled, ActorState
    <3>2. actor' = [actor EXCEPT ![n] = [actor[n] EXCEPT !.state = s]]
      BY <1>1, <1>2, <2>2 DEF Settle
    <3> HIDE DEF s
    <3> QED BY <1>1, <3>1, <3>2, Evolution, OneEvolves
  <2> QED BY <2>1, <2>2
<1>3. ASSUME NEW n \in Names, Intervene(n) PROVE Evolve
  <2>1. PICK s \in ActorState : /\ <<actor[n].state, s>> \in Interventions
                                /\ actor' = [actor EXCEPT ![n].state = s]
    BY <1>3 DEF Intervene
  <2>2. actor[n].state # "none"
    BY <2>1 DEF Interventions
  <2>3. actor' = [actor EXCEPT ![n] = [actor[n] EXCEPT !.state = s]]
    BY <1>1, <2>1
  <2> QED BY <1>1, <2>2, <2>3, Evolution, OneEvolves
<1>4. ASSUME NEW r \in wire, Deliver(r) PROVE Evolve
  <2> DEFINE a == actor[r.on]
  <2>1. /\ r.on \in Names /\ a \in Actor
        /\ r.rpc \in LifecycleRpc \cup {"create", "policy"}
    BY <1>1 DEF Request
  <2>2. Evolves(a, After(r.rpc, a, r.template))
    <3>1. r.rpc \in LifecycleRpc => r.rpc # "create" /\ r.rpc # "policy"
      BY DEF LifecycleRpc
    <3> QED BY <2>1, <3>1, Evolution DEF After
  <2>3. CASE UNCHANGED actor
    BY <2>3, NoneEvolves
  <2>4. CASE actor' = [actor EXCEPT ![r.on] = After(r.rpc, a, r.template)]
    BY <2>1, <2>2, <2>4, OneEvolves
  <2> QED BY <1>1, <1>4, <2>3, <2>4 DEF Deliver
<1> QED BY <1>2, <1>3, <1>4

LEMMA NextEvolves ==
  ASSUME IInv, Next
  PROVE  Evolve
<1>1. ASSUME NEW t, NEW n, NEW op, NEW tm, Call(t, op, n, tm)
      PROVE  Evolve
  BY <1>1, NoneEvolves DEF Call, substrate
<1>2. ASSUME NEW t, NEW n, SpawnAgain(t, n) PROVE Evolve
  BY <1>2, NoneEvolves DEF SpawnAgain, substrate
<1>3. ASSUME NEW n, PassOver(n) \/ ReapBundle(n) \/ ReapFile(n) \/ ReapMark(n)
      PROVE  Evolve
  BY <1>3, NoneEvolves DEF PassOver, ReapBundle, ReapFile, ReapMark, substrate
<1>4. ASSUME Poll \/ Crash \/ Open \/ ReapList \/ ReapDone \/ ReapFails
      PROVE  Evolve
  BY <1>4, NoneEvolves DEF Poll, Crash, Open, ReapList, ReapDone, ReapFails,
     substrate
<1> QED BY <1>1, <1>2, <1>3, <1>4, TaskEvolves, EnvironmentEvolves DEF Next

-----------------------------------------------------------------------------
(* What a task knows stays true                                            *)

(* Of a task that goes on with the same locals, whatever becomes of the    *)
(* actor.                                                                  *)
LEMMA KnowledgeStays ==
  ASSUME IInv, Evolve, NEW t \in Tasks, Knowledge(t), task'[t] = task[t],
         task[t].op = "create" /\ pc'[t] \in Looked => pc[t] \in Looked,
         task[t].op = "create" /\ HasPolicy
           /\ pc'[t] \in {"put", "insert"} \cup Stored =>
           pc[t] \in {"put", "insert"} \cup Stored,
         t \in sole' /\ task[t].op \in {"create", "start"} =>
           /\ pc'[t] \in {"insert"} \cup Stored =>
                file'[task[t].on] = task[t].uid
           /\ pc'[t] \in Stored => bundle'[task[t].on] = task[t].uid
  PROVE  Knowledge(t)'
<1> DEFINE n == task[t].on
<1> SUFFICES ASSUME task[t].op # "none" PROVE Knowledge(t)'
  BY DEF Knowledge
<1>1. n \in Names /\ task[t].uid \in Nat /\ task[t].known \in Nat
  BY DEF IInv, TypeInv, TypeOK, TaskShape, Task
<1>2. actor[n].uid \in Nat
  BY <1>1 DEF IInv, TypeInv, TypeOK, Actor
<1>3. Evolves(actor[n], actor'[n])
  BY <1>1 DEF Evolve
<1>4. task[t].uid <= actor[n].uid /\ task[t].known <= actor[n].uid
  BY DEF Knowledge
<1>5. task[t].uid <= actor'[n].uid /\ task[t].known <= actor'[n].uid
  BY <1>1, <1>2, <1>3, <1>4 DEF Evolves
<1>6. \A u \in {task[t].uid, task[t].known} :
        actor'[n].state # "none" /\ actor'[n].uid = u =>
        /\ actor[n].state # "none" /\ actor[n].uid = u
        /\ actor'[n].template = actor[n].template
        /\ actor[n].policy => actor'[n].policy
  BY <1>1, <1>2, <1>3, <1>4 DEF Evolves
<1>7. task[t].op = "create" /\ pc'[t] \in Looked
        /\ actor'[n].state # "none" /\ actor'[n].uid = task[t].known =>
      actor'[n].template = task[t].template
  BY <1>6 DEF Knowledge
<1>8. task[t].op = "create" /\ HasPolicy
        /\ pc'[t] \in {"put", "insert"} \cup Stored
        /\ actor'[n].state # "none" /\ actor'[n].uid = task[t].uid =>
      actor'[n].policy
  BY <1>6 DEF Knowledge
<1> QED BY <1>5, <1>7, <1>8 DEF Knowledge

(* Of one that has just begun or is over there is nothing to know.         *)
LEMMA NothingKnown ==
  ASSUME IInv', NEW t \in Tasks,
         \/ task'[t].op = "none"
         \/ /\ task'[t].uid = 0 /\ task'[t].known = 0
            /\ pc'[t] \in {"create", "lock", "delete"}
  PROVE  Knowledge(t)'
<1>1. task'[t].op # "none" => actor'[task'[t].on].uid \in Nat
  BY DEF IInv, TypeInv, TypeOK, TaskShape, Actor
<1> QED BY <1>1 DEF Knowledge, Looked, Stored

-----------------------------------------------------------------------------
(* A step of a task                                                        *)

Acts(t) == TaskStep(t) \/ RpcError(t) \/ IoError(t) \/ Cancel(t)

OthersRest(t) ==
  /\ \A u \in Tasks \ {t} : pc'[u] = pc[u] /\ task'[u] = task[u]
  /\ sole' \subseteq sole

(* Only the task that acts moves; it can only cease to be sole.            *)
LEMMA ActsAlone ==
  ASSUME IInv, NEW t \in Tasks, Acts(t)
  PROVE  OthersRest(t) /\ UNCHANGED boot
<1>0. pc \in [Tasks -> Pc] /\ task \in [Tasks -> Task]
  BY DEF IInv, TypeInv, TypeOK
<1>1. \A p : Goto(t, p) /\ UNCHANGED history => OthersRest(t)
  BY <1>0 DEF Goto, Move, history, OthersRest
<1>2. \A ok : Return(t, ok) => OthersRest(t)
  BY <1>0 DEF Return, Move, OthersRest
<1>3. \A u : Knows(t, u) /\ UNCHANGED history => OthersRest(t)
  BY <1>0 DEF Knows, Move, history, OthersRest
<1>4. ASSUME Acquire(t) \/ Check(t) \/ MarkDisk(t) \/ MarkMemory(t)
             \/ RemarkMemory(t) \/ UnmarkDisk(t) \/ UnmarkMemory(t)
             \/ PutFile(t) \/ InsertBundle(t) \/ RemoveBundle(t)
             \/ UnlinkFile(t)
      PROVE  OthersRest(t) /\ UNCHANGED boot
  BY <1>1, <1>2, <1>4 DEF Acquire, Check, MarkDisk, MarkMemory, RemarkMemory,
     UnmarkDisk, UnmarkMemory, PutFile, InsertBundle, RemoveBundle, UnlinkFile,
     history
<1>5. CASE GetState(t)
  <2>1. \A c, p : Move(t, p) /\ task' = [task EXCEPT ![t].crashed = c]
                    /\ UNCHANGED history => OthersRest(t)
    BY <1>0 DEF Move, history, OthersRest
  <2> QED BY <1>1, <1>2, <1>5, <2>1 DEF GetState, history
<1>6. CASE GetUid(t)
  <2>1. \A u, p : Move(t, p) /\ task' = [task EXCEPT ![t].uid = u]
                    /\ UNCHANGED history => OthersRest(t)
    BY <1>0 DEF Move, history, OthersRest
  <2> QED BY <1>1, <1>2, <1>6, <2>1 DEF GetUid, history
<1>7. ASSUME CreateActor(t) \/ CheckTemplate(t) \/ CreatePolicy(t)
      PROVE  OthersRest(t) /\ UNCHANGED boot
  BY <1>1, <1>2, <1>3, <1>7 DEF CreateActor, CheckTemplate, CreatePolicy, history
<1>8. GiveUp(t) \/ Answered(t) => OthersRest(t)
  BY <1>1, <1>2 DEF GiveUp, Answered, history
<1>9. ASSUME Serve(t) \/ Reply(t) \/ RpcError(t) \/ IoError(t) \/ Cancel(t)
      PROVE  OthersRest(t) /\ UNCHANGED boot
  BY <1>1, <1>2, <1>8, <1>9 DEF Serve, Reply, RpcError, IoError, Cancel, history
<1> QED BY <1>4, <1>5, <1>6, <1>7, <1>9 DEF Acts, TaskStep

(* Who writes bundles.                                                     *)
Writes(t) == PutFile(t) \/ InsertBundle(t) \/ RemoveBundle(t) \/ UnlinkFile(t)

LEMMA OthersDoNotWrite ==
  ASSUME NEW t \in Tasks, Acts(t), ~Writes(t)
  PROVE  UNCHANGED <<file, bundle>>
BY DEF Acts, TaskStep, Writes, Acquire, Check, GetState, MarkDisk, MarkMemory,
   RemarkMemory, UnmarkDisk, UnmarkMemory, CreateActor, CheckTemplate, GetUid,
   CreatePolicy, Serve, Reply, RpcError, IoError, Cancel, store

(* What is written is the task's own bundle, by its uid, or nothing.       *)
LEMMA WritesOwn ==
  ASSUME IInv, NEW t \in Tasks, Acts(t), NEW n \in Names
  PROVE  /\ file'[n] \in {file[n], 0, task[t].uid}
         /\ bundle'[n] \in {bundle[n], 0, task[t].uid}
         /\ n # task[t].on => file'[n] = file[n] /\ bundle'[n] = bundle[n]
         /\ file'[n] # file[n] \/ bundle'[n] # bundle[n] =>
              task[t].op \in CallOp /\ pc[t] # "lock"
<1>0. file \in [Names -> 0..MaxUid] /\ bundle \in [Names -> 0..MaxUid]
      /\ OnRoute(task[t].op, pc[t])
  BY DEF IInv, TypeInv, TypeOK, TaskShape
<1>1. CASE Writes(t)
  <2>1. task[t].op \in CallOp /\ pc[t] # "lock"
    BY <1>0, <1>1 DEF Writes, PutFile, InsertBundle, RemoveBundle, UnlinkFile,
       At, OnRoute, CallOp
  <2> QED BY <1>0, <1>1, <2>1 DEF Writes, PutFile, InsertBundle, RemoveBundle,
       UnlinkFile
<1>2. CASE ~Writes(t)
  BY <1>2, OthersDoNotWrite
<1> QED BY <1>1, <1>2

(* What another task knows is not disturbed.                               *)
LEMMA OthersKnow ==
  ASSUME EInv, NEW t \in Tasks, Acts(t), Evolve, NEW u \in Tasks, u # t
  PROVE  Knowledge(u)'
<1> DEFINE n == task[u].on
<1>1. /\ IInv /\ Knowledge(u) /\ pc'[u] = pc[u] /\ task'[u] = task[u]
      /\ u \in sole' => u \in sole
  BY ActsAlone DEF EInv, OthersRest
<1>2. ASSUME u \in sole, task[u].op \in {"create", "start"},
             pc[u] \in {"insert"} \cup Stored
      PROVE  file'[n] = file[n] /\ bundle'[n] = bundle[n]
  <2>1. n \in Names /\ pc[u] # "lock"
    BY <1>1, <1>2 DEF IInv, TypeInv, TaskShape, Stored
  <2> QED BY <1>1, <1>2, <2>1, Secluded, WritesOwn
<1>3. u \in sole' /\ task[u].op \in {"create", "start"} =>
        /\ pc'[u] \in {"insert"} \cup Stored => file'[n] = task[u].uid
        /\ pc'[u] \in Stored => bundle'[n] = task[u].uid
  BY <1>1, <1>2 DEF Knowledge
<1> QED BY <1>1, <1>3, KnowledgeStays

LEMMA OwnGoes ==
  ASSUME EInv, NEW t \in Tasks, Acts(t), Evolve, NEW p, Goto(t, p),
         task[t].op = "create" /\ p \in Looked => pc[t] \in Looked,
         task[t].op = "create" /\ HasPolicy
           /\ p \in {"put", "insert"} \cup Stored =>
           pc[t] \in {"put", "insert"} \cup Stored,
         task[t].op \in {"create", "start"} =>
           /\ p \in {"insert"} \cup Stored =>
                pc[t] = "put" \/ pc[t] \in {"insert"} \cup Stored
           /\ p \in Stored => pc[t] \in {"insert"} \cup Stored,
         pc[t] = "put" => PutFile(t),
         pc[t] = "insert" => InsertBundle(t),
         pc[t] \in Stored => UNCHANGED <<file, bundle>>
  PROVE  Knowledge(t)'
<1> DEFINE n == task[t].on
<1>1. /\ IInv /\ Knowledge(t) /\ (t \in sole' => t \in sole)
      /\ pc \in [Tasks -> Pc]
      /\ file \in [Names -> 0..MaxUid] /\ bundle \in [Names -> 0..MaxUid]
      /\ task[t].op # "none" => n \in Names
  BY ActsAlone DEF EInv, OthersRest, IInv, TypeInv, TypeOK, TaskShape
<1>2. pc'[t] = p /\ task' = task
  BY <1>1 DEF Goto, Move
<1>3. ASSUME t \in sole', task[t].op \in {"create", "start"},
             p \in {"insert"} \cup Stored
      PROVE  file'[n] = task[t].uid /\ (p \in Stored => bundle'[n] = task[t].uid)
  <2>1. CASE pc[t] = "put"
    BY <1>1, <1>3, <2>1 DEF PutFile, Stored
  <2>2. CASE pc[t] = "insert"
    BY <1>1, <1>3, <2>2 DEF InsertBundle, Knowledge
  <2>3. CASE pc[t] \in Stored
    BY <1>1, <1>3, <2>3 DEF Knowledge
  <2> QED BY <1>3, <2>1, <2>2, <2>3
<1> QED BY <1>1, <1>2, <1>3, KnowledgeStays

(* A create that found or made an actor knows it is of its own template.   *)
LEMMA KnowsOwn ==
  ASSUME EInv, IInv', NEW t \in Tasks, Evolve, task[t].op = "create",
         Knows(t, actor'[task[t].on].uid), t \in sole' => t \in sole,
         actor'[task[t].on].template = task[t].template
  PROVE  Knowledge(t)'
<1> DEFINE n == task[t].on
<1>1. /\ n \in Names /\ Knowledge(t)
      /\ pc \in [Tasks -> Pc] /\ task \in [Tasks -> Task]
      /\ task[t].uid \in Nat /\ actor[n].uid \in Nat /\ actor'[n].uid \in Nat
  BY DEF EInv, IInv, TypeInv, TypeOK, TaskShape, Task, Actor
<1>2. /\ pc'[t] = "get_uid"
      /\ task'[t] = [task[t] EXCEPT !.known = actor'[n].uid]
  BY <1>1 DEF Knows, Move
<1>3. /\ task'[t].op = "create" /\ task'[t].on = n
      /\ task'[t].known = actor'[n].uid
      /\ task'[t].uid = task[t].uid /\ task'[t].template = task[t].template
  BY <1>1, <1>2 DEF Task
<1>4. task[t].uid <= actor'[n].uid
  BY <1>1 DEF Knowledge, Evolve, Evolves
<1> QED BY <1>1, <1>2, <1>3, <1>4 DEF Knowledge, Stored

LEMMA CreateKnows ==
  ASSUME EInv, IInv', NEW t \in Tasks, Evolve,
         CreateActor(t) \/ CheckTemplate(t)
  PROVE  Knowledge(t)'
<1> DEFINE n == task[t].on
<1>1. /\ IInv /\ actor \in [Names -> Actor] /\ pc \in [Tasks -> Pc]
      /\ task \in [Tasks -> Task] /\ OnRoute(task[t].op, pc[t])
      /\ task[t].op # "none" => n \in Names
  BY DEF EInv, IInv, TypeInv, TypeOK, TaskShape
<1>2. task[t].op = "create" /\ n \in Names
  BY <1>1 DEF CreateActor, CheckTemplate, At, OnRoute
<1>3. Acts(t) /\ (t \in sole' => t \in sole)
  BY <1>1, ActsAlone DEF Acts, TaskStep, OthersRest
<1>4. CASE Return(t, FALSE)
  BY <1>1, <1>4, NothingKnown DEF Return, Idle
<1>5. CASE Goto(t, "check_template")
  BY <1>1, <1>2, <1>3, <1>5, OwnGoes DEF CreateActor, CheckTemplate, At, Looked,
     Stored
<1>6. CASE CreateActor(t) /\ CanCreate(actor[n])
  <2>1. actor'[n] = Created(actor[n], task[t].template)
        /\ Knows(t, actor[n].uid + 1)
    BY <1>1, <1>2, <1>6 DEF CreateActor
  <2>2. actor'[n].uid = actor[n].uid + 1
        /\ actor'[n].template = task[t].template
    BY <2>1 DEF Created
  <2> QED BY <1>2, <1>3, <2>1, <2>2, KnowsOwn
<1>7. CASE CheckTemplate(t) /\ actor[n].state # "none"
             /\ actor[n].template = task[t].template
  <2>1. actor' = actor /\ Knows(t, actor[n].uid)
    BY <1>7 DEF CheckTemplate, substrate
  <2> QED BY <1>2, <1>3, <1>7, <2>1, KnowsOwn
<1> QED BY <1>4, <1>5, <1>6, <1>7 DEF CreateActor, CheckTemplate

LEMMA UidKnows ==
  ASSUME EInv, IInv', NEW t \in Tasks, Evolve, GetUid(t)
  PROVE  Knowledge(t)'
<1> DEFINE n == task[t].on
           p == IF task[t].op = "create" /\ HasPolicy THEN "policy" ELSE "put"
<1>1. /\ IInv /\ Knowledge(t) /\ pc \in [Tasks -> Pc]
      /\ task \in [Tasks -> Task] /\ OnRoute(task[t].op, pc[t])
      /\ task[t].op # "none" => n \in Names
  BY DEF EInv, IInv, TypeInv, TypeOK, TaskShape
<1>2. task[t].op \in {"create", "start"} /\ n \in Names /\ pc[t] = "get_uid"
      /\ actor' = actor /\ actor[n].uid \in Nat
  BY <1>1 DEF GetUid, At, OnRoute, substrate, IInv, TypeInv, TypeOK, Actor
<1>3. CASE Return(t, FALSE)
  BY <1>1, <1>3, NothingKnown DEF Return, Idle
<1>4. CASE ~Return(t, FALSE)
  <2>1. task' = [task EXCEPT ![t].uid = actor[n].uid] /\ Move(t, p)
    BY <1>4 DEF GetUid
  <2>2. /\ task'[t].op = task[t].op /\ task'[t].on = n
        /\ task'[t].known = task[t].known /\ task'[t].uid = actor[n].uid
        /\ task'[t].template = task[t].template
        /\ pc'[t] = p
    BY <1>1, <2>1 DEF Task, Move
  <2>3. CASE task[t].op = "create" /\ HasPolicy
    <3>1. pc'[t] = "policy"
      BY <2>2, <2>3
    <3> QED BY <1>1, <1>2, <2>2, <3>1 DEF Knowledge, Looked, Stored
  <2>4. CASE ~(task[t].op = "create" /\ HasPolicy)
    <3>1. pc'[t] = "put"
      BY <2>2, <2>4
    <3> QED BY <1>1, <1>2, <2>2, <2>4, <3>1 DEF Knowledge, Looked, Stored
  <2> QED BY <2>3, <2>4
<1> QED BY <1>3, <1>4

LEMMA PolicyKnows ==
  ASSUME EInv, IInv', NEW t \in Tasks, Evolve, CreatePolicy(t)
  PROVE  Knowledge(t)'
<1> DEFINE n == task[t].on
<1>1. /\ IInv /\ Knowledge(t) /\ pc \in [Tasks -> Pc]
      /\ task \in [Tasks -> Task]
      /\ actor \in [Names -> Actor] /\ OnRoute(task[t].op, pc[t])
      /\ task[t].op # "none" => n \in Names
      /\ task[t].op # "none" => task[t].uid \in Nat /\ task[t].known \in Nat
  BY DEF EInv, IInv, TypeInv, TypeOK, TaskShape, Task
<1>2. task[t].op = "create" /\ n \in Names /\ pc[t] = "policy"
  BY <1>1 DEF CreatePolicy, At, OnRoute
<1>3. CASE Return(t, FALSE)
  BY <1>1, <1>3, NothingKnown DEF Return, Idle
<1>4. CASE ~Return(t, FALSE)
  <2>1. /\ actor[n].state \notin {"none", "deleting"}
        /\ pc'[t] = "put" /\ task' = task
    BY <1>1, <1>4 DEF CreatePolicy, Goto, Move
  <2>2. actor'[n] = [actor[n] EXCEPT !.policy = TRUE]
    BY <1>1, <1>2, <2>1 DEF CreatePolicy, WithPolicy
  <2>3. /\ actor'[n].policy /\ actor'[n].uid = actor[n].uid
        /\ actor'[n].template = actor[n].template
        /\ actor'[n].state = actor[n].state
    BY <1>1, <1>2, <2>2 DEF Actor
  <2> QED BY <1>1, <1>2, <2>1, <2>3 DEF Knowledge, Looked, Stored
<1> QED BY <1>3, <1>4

LEMMA StateKnows ==
  ASSUME EInv, IInv', NEW t \in Tasks, GetState(t)
  PROVE  Knowledge(t)'
<1> DEFINE n == task[t].on
<1>1. /\ IInv /\ Knowledge(t) /\ pc \in [Tasks -> Pc]
      /\ task \in [Tasks -> Task] /\ OnRoute(task[t].op, pc[t])
  BY DEF EInv, IInv, TypeInv, TypeOK, TaskShape
<1>2. task[t].op \in {"stop", "again"} /\ pc[t] = "get_state" /\ actor' = actor
  BY <1>1 DEF GetState, At, OnRoute, substrate
<1>3. CASE Return(t, FALSE)
  BY <1>1, <1>3, NothingKnown DEF Return, Idle
<1>4. CASE ~Return(t, FALSE)
  <2>1. /\ task'[t].op = task[t].op /\ task'[t].on = n
        /\ task'[t].known = task[t].known /\ task'[t].uid = task[t].uid
    <3>1. CASE Goto(t, "suspend")
      BY <3>1 DEF Goto
    <3>2. ASSUME NEW c \in BOOLEAN, task' = [task EXCEPT ![t].crashed = c]
          PROVE  /\ task'[t].op = task[t].op /\ task'[t].on = n
                 /\ task'[t].known = task[t].known /\ task'[t].uid = task[t].uid
      BY <1>1, <3>2 DEF Task
    <3> QED BY <1>4, <3>1, <3>2 DEF GetState
  <2> QED BY <1>1, <1>2, <2>1 DEF Knowledge
<1> QED BY <1>3, <1>4

(* The other steps go on with the same locals, or end the task.            *)
LEMMA OwnKnows ==
  ASSUME EInv, IInv', NEW t \in Tasks, Acts(t), Evolve
  PROVE  Knowledge(t)'
<1>1. /\ IInv /\ pc \in [Tasks -> Pc] /\ task \in [Tasks -> Task]
      /\ OnRoute(task[t].op, pc[t])
  BY DEF EInv, IInv, TypeInv, TypeOK, TaskShape
<1>2. \A ok : Return(t, ok) => Knowledge(t)'
  BY <1>1, NothingKnown DEF Return, Idle
<1>3. CASE Acquire(t) \/ Check(t) \/ MarkDisk(t) \/ MarkMemory(t)
           \/ RemarkMemory(t)
  <2>1. CASE Acquire(t)
    BY <1>1, <2>1, OwnGoes DEF Acquire, At, BehindLock, OnRoute, Looked, Stored
  <2>2. CASE Check(t)
    BY <1>1, <1>2, <2>2, OwnGoes DEF Check, At, OnRoute, Stored
  <2>3. CASE MarkDisk(t)
    BY <1>1, <2>3, OwnGoes DEF MarkDisk, At, OnRoute, Stored
  <2>4. CASE MarkMemory(t)
    BY <1>1, <2>4, OwnGoes DEF MarkMemory, At, Checkpoint, OnRoute, Stored
  <2>5. CASE RemarkMemory(t)
    BY <1>2, <2>5 DEF RemarkMemory
  <2> QED BY <1>3, <2>1, <2>2, <2>3, <2>4, <2>5
<1>4. CASE UnmarkDisk(t) \/ UnmarkMemory(t) \/ Writes(t)
  <2>1. CASE UnmarkDisk(t)
    BY <1>1, <2>1, OwnGoes DEF UnmarkDisk, At, OnRoute, Looked, Stored
  <2>2. CASE UnmarkMemory(t)
    BY <1>1, <1>2, <2>2, OwnGoes DEF UnmarkMemory, At, OnRoute, Looked, Stored
  <2>3. CASE PutFile(t)
    <3>1. pc[t] = "put" /\ Goto(t, "insert")
      BY <2>3 DEF PutFile, At
    <3> QED BY <1>1, <2>3, <3>1, OwnGoes DEF Looked, Stored
  <2>4. CASE InsertBundle(t)
    <3>1. pc[t] = "insert" /\ Goto(t, "unmark_disk")
      BY <2>4 DEF InsertBundle, At
    <3> QED BY <1>1, <2>4, <3>1, OwnGoes DEF Looked, Stored
  <2>5. CASE RemoveBundle(t)
    BY <1>1, <2>5, OwnGoes DEF RemoveBundle, At, OnRoute, Stored
  <2>6. CASE UnlinkFile(t)
    BY <1>1, <2>6, OwnGoes DEF UnlinkFile, At, OnRoute, Stored
  <2> QED BY <1>4, <2>1, <2>2, <2>3, <2>4, <2>5, <2>6 DEF Writes
<1>5. CASE Serve(t) \/ Reply(t) \/ RpcError(t) \/ IoError(t) \/ Cancel(t)
  <2>1. ASSUME GiveUp(t), pc[t] \notin {"put", "insert"},
               UNCHANGED <<file, bundle>>
        PROVE  Knowledge(t)'
    <3>1. Goto(t, "remark_disk") => task[t].op = "start" \/ Return(t, FALSE)
      BY <2>1 DEF GiveUp
    <3>2. CASE Goto(t, "remark_disk")
      BY <1>1, <1>2, <2>1, <3>1, <3>2, OwnGoes DEF Stored, Looked
    <3>3. CASE ~Goto(t, "remark_disk")
      BY <1>2, <2>1, <3>3 DEF GiveUp
    <3> QED BY <3>2, <3>3
  <2>2. ASSUME Answered(t), pc[t] \notin {"put", "insert"},
               UNCHANGED <<file, bundle>>
        PROVE  Knowledge(t)'
    BY <1>1, <1>2, <2>2, OwnGoes DEF Answered, Stored
  <2>3. CASE Serve(t)
    <3>1. /\ pc[t] \in LifecycleRpc /\ UNCHANGED <<file, bundle>>
          /\ Goto(t, Via[pc[t]]) \/ Answered(t) \/ GiveUp(t)
      BY <2>3 DEF Serve, store
    <3>2. pc[t] \notin {"put", "insert"}
      BY <3>1 DEF LifecycleRpc
    <3>3. CASE Goto(t, Via[pc[t]])
      BY <1>1, <3>1, <3>2, <3>3, OwnGoes DEF LifecycleRpc, Via, OnRoute, Looked,
         Stored
    <3> QED BY <2>1, <2>2, <3>1, <3>2, <3>3
  <2>4. CASE Reply(t)
    <3>1. /\ pc[t] \notin {"put", "insert"} /\ UNCHANGED <<file, bundle>>
          /\ Answered(t) \/ GiveUp(t)
      BY <2>4 DEF Reply, Moving, store
    <3> QED BY <2>1, <2>2, <3>1
  <2>5. CASE RpcError(t)
    BY <2>1, <2>5 DEF RpcError, RpcPc, LifecycleRpc, Moving, store
  <2>6. CASE IoError(t) \/ Cancel(t)
    BY <1>2, <2>6 DEF IoError, Cancel
  <2> QED BY <1>5, <2>3, <2>4, <2>5, <2>6
<1> QED BY <1>3, <1>4, <1>5, StateKnows, CreateKnows, UidKnows, PolicyKnows
        DEF Acts, TaskStep, Writes

-----------------------------------------------------------------------------
(* Bundles                                                                 *)

(* What the reaper's list says of a victim stays true of the bundle it     *)
(* has: whatever else is created under the name has another uid.           *)
LEMMA BundledStays ==
  ASSUME EInv, IInv', Evolve, NEW n \in Names, file'[n] <= actor[n].uid,
         bundle'[n] <= actor[n].uid,
         server' = "reaping" =>
           server = "reaping" /\ live' = live /\ bundle'[n] = bundle[n]
  PROVE  Bundled(n)'
<1>1. /\ Bundled(n) /\ Evolves(actor[n], actor'[n]) /\ actor[n].uid \in Nat
      /\ bundle[n] \in Nat /\ file'[n] \in Nat /\ bundle'[n] \in Nat
  BY DEF EInv, IInv, TypeInv, TypeOK, Actor, Evolve
<1>2. file'[n] <= actor'[n].uid /\ bundle'[n] <= actor'[n].uid
  BY <1>1 DEF Evolves
<1> QED BY <1>1, <1>2 DEF Bundled, Evolves

LEMMA ActsBundled ==
  ASSUME EInv, IInv', NEW t \in Tasks, Acts(t), Evolve, NEW n \in Names
  PROVE  Bundled(n)'
<1>1. /\ IInv /\ Bundled(n) /\ Knowledge(t) /\ server' = server
      /\ file'[n] \in Nat /\ bundle'[n] \in Nat /\ actor[n].uid \in Nat
  BY ActsAlone DEF EInv, IInv, TypeInv, TypeOK, Actor, boot
<1>2. server = "serving"
  <2>1. task[t].op # "none"
    BY <1>1 DEF Acts, TaskStep, Acquire, Check, GetState, MarkDisk, MarkMemory,
       RemarkMemory, UnmarkDisk, UnmarkMemory, PutFile, InsertBundle,
       RemoveBundle, UnlinkFile, CreateActor, CheckTemplate, GetUid,
       CreatePolicy, Serve, Reply, RpcError, IoError, Cancel, At, RpcPc,
       LifecycleRpc, Moving, IInv, TypeInv, TaskShape, OnRoute
  <2> QED BY <1>1, <2>1 DEF IInv, Quiet
<1>3. file'[n] <= actor[n].uid /\ bundle'[n] <= actor[n].uid
  <2>1. CASE file'[n] = file[n] /\ bundle'[n] = bundle[n]
    BY <1>1, <2>1 DEF Bundled
  <2>2. CASE file'[n] # file[n] \/ bundle'[n] # bundle[n]
    <3>1. task[t].on = n /\ task[t].op # "none"
      BY <1>1, <2>2, WritesOwn DEF CallOp
    <3>2. /\ file'[n] \in {file[n], 0, task[t].uid}
          /\ bundle'[n] \in {bundle[n], 0, task[t].uid}
      BY <1>1, WritesOwn
    <3> QED BY <1>1, <3>1, <3>2 DEF Bundled, Knowledge
  <2> QED BY <2>1, <2>2
<1> QED BY <1>1, <1>2, <1>3, BundledStays

-----------------------------------------------------------------------------
(* The other steps                                                         *)

LEMMA BeginKnows ==
  ASSUME EInv, IInv', Evolve, UNCHANGED <<file, bundle, server, live>>,
         NEW t \in Tasks, NEW op, NEW n, NEW tm,
         NEW p \in {"create", "lock", "delete"}, Begin(t, op, n, tm, p)
  PROVE  EInv'
<1>1. /\ IInv /\ pc \in [Tasks -> Pc] /\ task \in [Tasks -> Task]
  BY DEF EInv, IInv, TypeInv, TypeOK
<1>2. Knowledge(t)'
  BY <1>1, NothingKnown DEF Begin, Move
<1>3. ASSUME NEW u \in Tasks, u # t PROVE Knowledge(u)'
  <2>1. /\ Knowledge(u) /\ pc'[u] = pc[u] /\ task'[u] = task[u]
        /\ u \in sole' => u \in sole
    BY <1>1, <1>3 DEF EInv, Begin, Move
  <2>2. u \in sole' /\ task[u].op \in {"create", "start"} =>
           /\ pc'[u] \in {"insert"} \cup Stored =>
                file'[task[u].on] = task[u].uid
           /\ pc'[u] \in Stored => bundle'[task[u].on] = task[u].uid
    BY <2>1 DEF Knowledge
  <2> QED BY <1>1, <2>1, <2>2, KnowledgeStays
<1>4. ASSUME NEW m \in Names PROVE Bundled(m)'
  BY <1>1, <1>4, BundledStays DEF EInv, Bundled
<1> QED BY <1>2, <1>3, <1>4 DEF EInv

(* While no task is at work there is nothing to know.                      *)
LEMMA IdleKnows ==
  ASSUME EInv, IInv', UNCHANGED task, server # "serving", NEW t \in Tasks
  PROVE  Knowledge(t)'
<1>1. task'[t].op = "none"
  BY DEF EInv, IInv, Quiet
<1> QED BY <1>1, NothingKnown

(* Steps that leave the tasks and the store as they are.                   *)
LEMMA AsideKnows ==
  ASSUME EInv, IInv', Evolve,
         UNCHANGED <<file, bundle, server, live, pc, task, sole>>
  PROVE  EInv'
<1>1. ASSUME NEW u \in Tasks PROVE Knowledge(u)'
  <2>1. u \in sole' /\ task[u].op \in {"create", "start"} =>
           /\ pc'[u] \in {"insert"} \cup Stored =>
                file'[task[u].on] = task[u].uid
           /\ pc'[u] \in Stored => bundle'[task[u].on] = task[u].uid
    BY <1>1 DEF EInv, Knowledge
  <2> QED BY <1>1, <2>1, KnowledgeStays DEF EInv
<1>2. ASSUME NEW m \in Names PROVE Bundled(m)'
  BY <1>2, BundledStays DEF EInv, Bundled
<1> QED BY <1>1, <1>2 DEF EInv

LEMMA BootKnows ==
  ASSUME EInv, IInv', Evolve,
         \/ Crash \/ Open \/ ReapList \/ ReapDone \/ ReapFails
         \/ \E n \in Names : ReapBundle(n) \/ ReapFile(n)
  PROVE  EInv'
<1>1. /\ IInv /\ actor \in [Names -> Actor]
      /\ file \in [Names -> 0..MaxUid] /\ bundle \in [Names -> 0..MaxUid]
      /\ \A m \in Names : Bundled(m) /\ actor[m].uid \in Nat
  BY DEF EInv, IInv, TypeInv, TypeOK, Actor
<1>2. CASE Crash
  <2>1. \A t \in Tasks : Knowledge(t)'
    BY <1>2, NothingKnown DEF Crash, Idle
  <2>2. \A m \in Names : file'[m] <= actor[m].uid /\ bundle'[m] <= actor[m].uid
    BY <1>1, <1>2 DEF Crash, Bundled
  <2>3. server' # "reaping"
    BY <1>2 DEF Crash
  <2> QED BY <2>1, <2>2, <2>3, BundledStays DEF EInv
<1>3. CASE Open
  <2>1. \A t \in Tasks : Knowledge(t)'
    BY <1>3, IdleKnows DEF Open
  <2>2. \A m \in Names : file'[m] <= actor[m].uid /\ bundle'[m] <= actor[m].uid
    BY <1>1, <1>3 DEF Open, Bundled
  <2>3. server' # "reaping"
    BY <1>3 DEF Open
  <2> QED BY <2>1, <2>2, <2>3, BundledStays DEF EInv
<1>4. CASE ReapList
  <2>1. \A t \in Tasks : Knowledge(t)'
    BY <1>4, IdleKnows DEF ReapList
  <2>2. \A m \in Names : Bundled(m)'
    BY <1>1, <1>4 DEF ReapList, Bundled, substrate, store
  <2> QED BY <2>1, <2>2 DEF EInv
<1>5. CASE ReapDone \/ ReapFails
  <2>1. /\ server # "serving" /\ server' = "serving" /\ UNCHANGED <<pc, task>>
        /\ UNCHANGED <<file, bundle>>
    BY <1>5 DEF ReapDone, ReapFails, Serving, store
  <2>2. \A t \in Tasks : Knowledge(t)'
    BY <2>1, IdleKnows
  <2>3. \A m \in Names : file'[m] <= actor[m].uid /\ bundle'[m] <= actor[m].uid
    BY <1>1, <2>1 DEF Bundled
  <2> QED BY <2>1, <2>2, <2>3, BundledStays DEF EInv
<1>6. ASSUME NEW n \in Names, ReapBundle(n) PROVE EInv'
  <2>1. \A t \in Tasks : Knowledge(t)'
    BY <1>6, IdleKnows DEF ReapBundle
  <2>2. Bundled(n)'
    <3>1. /\ file' = file /\ bundle'[n] = 0 /\ bundle[n] # 0
          /\ actor' = actor
      BY <1>1, <1>6 DEF ReapBundle, Orphans, substrate
    <3>2. actor[n].uid # 0 /\ bundle[n] \in Nat /\ file[n] <= actor[n].uid
      BY <1>1, <3>1 DEF Bundled
    <3> QED BY <1>1, <3>1, <3>2 DEF Bundled
  <2>3. ASSUME NEW m \in Names, m # n PROVE Bundled(m)'
    BY <1>1, <1>6, <2>3, BundledStays DEF ReapBundle, Bundled
  <2> QED BY <2>1, <2>2, <2>3 DEF EInv
<1>7. ASSUME NEW n \in Names, ReapFile(n) PROVE EInv'
  <2>1. \A t \in Tasks : Knowledge(t)'
    BY <1>7, IdleKnows DEF ReapFile
  <2>2. \A m \in Names : file'[m] <= actor[m].uid /\ bundle'[m] <= actor[m].uid
    BY <1>1, <1>7 DEF ReapFile, Bundled
  <2> QED BY <1>7, <2>1, <2>2, BundledStays DEF EInv, ReapFile, boot
<1> QED BY <1>2, <1>3, <1>4, <1>5, <1>6, <1>7

LEMMA InitEInv == Init => EInv
<1> SUFFICES ASSUME Init PROVE EInv
  OBVIOUS
<1>1. IInv
  BY InitIInv
<1>2. \A t \in Tasks : Knowledge(t)
  BY DEF Init, Idle, Knowledge
<1>3. \A n \in Names : Bundled(n)
  BY DEF Init, NoActor, Bundled
<1> QED BY <1>1, <1>2, <1>3 DEF EInv

LEMMA NextEInv == EInv /\ [Next]_vars => EInv'
<1> SUFFICES ASSUME EInv, [Next]_vars PROVE EInv'
  OBVIOUS
<1>1. IInv /\ IInv'
  BY NextIInv DEF EInv
<1>2. CASE UNCHANGED vars
  <2>1. Evolve
    BY <1>1, <1>2, NoneEvolves DEF vars
  <2> QED BY <1>1, <1>2, <2>1, AsideKnows DEF vars
<1>3. CASE Next
  <2>0. Evolve
    BY <1>1, <1>3, NextEvolves
  <2>1. ASSUME NEW t \in Calls, NEW n \in Names, NEW op \in CallOp, NEW tm,
               Call(t, op, n, tm)
        PROVE  EInv'
    <3>1. First[op] \in {"create", "lock", "delete"} /\ t \in Tasks
      BY DEF First, CallOp, Tasks
    <3>2. UNCHANGED <<file, bundle, server, live>>
      BY <2>1 DEF Call, store, boot
    <3> QED BY <1>1, <2>0, <2>1, <3>1, <3>2, BeginKnows DEF Call
  <2>2. ASSUME NEW t \in Tasks, NEW n \in Names, SpawnAgain(t, n) PROVE EInv'
    <3>1. UNCHANGED <<file, bundle, server, live>>
      BY <2>2 DEF SpawnAgain, store, boot
    <3> QED BY <1>1, <2>0, <2>2, <3>1, BeginKnows DEF SpawnAgain
  <2>3. ASSUME NEW t \in Tasks, Acts(t) PROVE EInv'
    BY <1>1, <2>0, <2>3, OwnKnows, OthersKnow, ActsBundled DEF EInv
  <2>4. ASSUME \/ Poll
               \/ \E n \in Names : \/ PassOver(n) \/ ReapMark(n)
                                   \/ Settle(n) \/ Intervene(n)
               \/ \E r \in wire : Deliver(r)
        PROVE  EInv'
    BY <1>1, <2>0, <2>4, AsideKnows DEF Poll, PassOver, ReapMark, Settle,
       Intervene, Deliver, Environment, store, boot, history
  <2>5. "create" \in CallOp
    BY DEF CallOp
  <2> QED BY <1>1, <1>3, <2>0, <2>1, <2>2, <2>3, <2>4, <2>5, BootKnows
          DEF Next, Acts
<1> QED BY <1>2, <1>3

-----------------------------------------------------------------------------
(* Resumes                                                                 *)

(* Only a resume that is served wakes an actor, and there is one.          *)
LEMMA Wakes ==
  ASSUME EInv, Next, NEW t \in Calls, Resumes(t)
  PROVE  /\ task[t].op \in {"create", "start"}
         /\ actor[task[t].on].state # "none"
<1>1. /\ IInv /\ t \in Tasks /\ pc \in [Tasks -> Pc] /\ pc[t] = "resume"
      /\ pc'[t] = "resuming" /\ OnRoute(task[t].op, pc[t])
  BY DEF EInv, IInv, TypeInv, TypeOK, TaskShape, Tasks, Resumes, At
<1>2. task[t].op \in {"create", "start"}
  BY <1>1 DEF OnRoute
<1>3. Acts(t)
  <2>1. ASSUME NEW u \in Tasks, Acts(u) PROVE Acts(t)
    BY <1>1, <2>1, ActsAlone DEF OthersRest
  <2>2. ASSUME NEW u, NEW n, NEW op \in CallOp, NEW tm, Call(u, op, n, tm)
        PROVE  FALSE
    BY <1>1, <2>2 DEF Call, Begin, Move, First, CallOp
  <2>3. ASSUME NEW u, NEW n, SpawnAgain(u, n) PROVE FALSE
    BY <1>1, <2>3 DEF SpawnAgain, Begin, Move
  <2>4. ASSUME \/ Poll \/ Crash \/ Open \/ ReapList \/ ReapDone \/ ReapFails
               \/ \E n \in Names : \/ PassOver(n) \/ ReapBundle(n) \/ ReapFile(n)
                                   \/ ReapMark(n) \/ Settle(n) \/ Intervene(n)
               \/ \E r \in wire : Deliver(r)
        PROVE  FALSE
    BY <1>1, <2>4 DEF Poll, Crash, Open, ReapList, ReapDone, ReapFails, PassOver,
       ReapBundle, ReapFile, ReapMark, Settle, Intervene, Deliver, Environment
  <2>5. "create" \in CallOp
    BY DEF CallOp
  <2> QED BY <2>1, <2>2, <2>3, <2>4, <2>5 DEF Next, Acts
<1>4. Serve(t)
  <2>1. \A ok : ~Return(t, ok)
    BY <1>1 DEF Return, Move
  <2>2. ~GiveUp(t)
    BY <1>1, <2>1 DEF GiveUp, Goto, Move
  <2> QED BY <1>1, <1>3, <2>1, <2>2 DEF Acts, TaskStep, Acquire, Check,
       GetState, MarkDisk, MarkMemory, RemarkMemory, UnmarkDisk, UnmarkMemory,
       PutFile, InsertBundle, RemoveBundle, UnlinkFile, CreateActor,
       CheckTemplate, GetUid, CreatePolicy, Reply, RpcError, IoError, Cancel, At,
       Moving
<1>5. Runs("resume", actor[task[t].on].state)
  <2>1. \A ok : ~Return(t, ok)
    BY <1>1 DEF Return, Move
  <2>2. ~GiveUp(t) /\ ~Answered(t)
    BY <1>1, <1>2, <2>1 DEF GiveUp, Answered, Goto, Move
  <2> QED BY <1>1, <1>4, <2>2 DEF Serve
<1>6. actor[task[t].on].state # "none"
  BY <1>5 DEF Runs, From, Via
<1> QED BY <1>2, <1>6

THEOREM KnowledgeHolds == Spec => []EInv
<1> QED BY InitEInv, NextEInv, PTL DEF Spec

(* A create or start wakes an actor whose bundle is on disk and in memory  *)
(* and, after a create, whose egress policy exists, for any number of      *)
(* calls, failures and restarts (create_sandbox, start_sandbox).           *)
THEOREM WakesEquipped == Spec => ResumesEquipped
<1>1. ASSUME EInv, Next, NEW t \in Calls, Resumes(t), t \in sole,
             actor[task[t].on].uid = task[t].uid
      PROVE  /\ bundle[task[t].on] = task[t].uid
             /\ file[task[t].on] = task[t].uid
             /\ task[t].op = "create" /\ HasPolicy => actor[task[t].on].policy
  <2>1. /\ task[t].op \in {"create", "start"} /\ pc[t] = "resume"
        /\ actor[task[t].on].state # "none" /\ Knowledge(t)
    BY <1>1, Wakes DEF Resumes, At, EInv, Tasks
  <2> QED BY <1>1, <2>1 DEF Knowledge, Stored
<1>2. EInv /\ [Next]_vars =>
        [\A t \in Calls :
           LET n == task[t].on IN
           Resumes(t) /\ t \in sole /\ actor[n].uid = task[t].uid =>
             /\ bundle[n] = task[t].uid /\ file[n] = task[t].uid
             /\ task[t].op = "create" /\ HasPolicy => actor[n].policy]_vars
  BY <1>1
<1> QED BY <1>2, KnowledgeHolds, PTL DEF Spec, ResumesEquipped

(* However the name came to be taken, a create wakes only an actor of the  *)
(* template it asked for (create_sandbox).                                 *)
THEOREM WakesItsOwn == Spec => ResumesOwnTemplate
<1>1. ASSUME EInv, Next, NEW t \in Calls, Resumes(t), task[t].op = "create",
             actor[task[t].on].uid = task[t].known
      PROVE  actor[task[t].on].template = task[t].template
  <2>1. /\ pc[t] = "resume" /\ actor[task[t].on].state # "none" /\ Knowledge(t)
    BY <1>1, Wakes DEF Resumes, At, EInv, Tasks
  <2> QED BY <1>1, <2>1 DEF Knowledge, Looked
<1>2. EInv /\ [Next]_vars =>
        [\A t \in Calls :
           LET n == task[t].on IN
           Resumes(t) /\ task[t].op = "create" /\ actor[n].uid = task[t].known =>
             actor[n].template = task[t].template]_vars
  BY <1>1
<1> QED BY <1>2, KnowledgeHolds, PTL DEF Spec, ResumesOwnTemplate

(* The reaper takes the bundle of no actor that exists, whatever happens   *)
(* to the actors between its list and its deletions (reap_orphan_bundles). *)
THEOREM ReapsTheDead == Spec => ReapsOrphansOnly
<1>1. ASSUME EInv, Next, NEW n \in Names, server = "reaping",
             bundle'[n] # bundle[n], server' # "down"
      PROVE  actor[n].state = "none" \/ bundle[n] # actor[n].uid
  <2>1. \E m \in Names : ReapBundle(m)
    <3>1. ASSUME NEW t \in Tasks, Acts(t) PROVE FALSE
      BY <1>1, <3>1, WritesOwn DEF EInv, IInv, Quiet, CallOp
    <3> QED BY <1>1, <3>1 DEF Next, Acts, Call, SpawnAgain, PassOver, ReapFile,
         ReapMark, Settle, Intervene, Deliver, Environment, Poll, Crash, Open, ReapList,
         ReapDone, ReapFails, store
  <2>2. n \notin live
    BY <1>1, <2>1 DEF ReapBundle, Orphans, EInv, IInv, TypeInv, TypeOK
  <2> QED BY <1>1, <2>2 DEF EInv, Bundled
<1>2. EInv /\ [Next]_vars =>
        [\A n \in Names :
           server = "reaping" /\ bundle'[n] # bundle[n] /\ server' # "down" =>
             actor[n].state = "none" \/ bundle[n] # actor[n].uid]_vars
  BY <1>1
<1> QED BY <1>2, KnowledgeHolds, PTL DEF Spec, ReapsOrphansOnly

(* A start whose resume failed and that got through its marking leaves the *)
(* sandbox stopped, on disk and in memory (or on disk, if the driver died  *)
(* just then), with a stop or suspend_again queued behind it or not        *)
(* (start_sandbox's mark_actor_stopped).                                   *)
THEOREM FailedStartsStop == Spec => FailedStartStops
<1>1. ASSUME IInv, Next, NEW t \in Calls, pc[t] = "remark_memory", t \in sole,
             pc'[t] = "idle"
      PROVE  task[t].on \in mark' /\ (server' = "down" \/ task[t].on \in stopped')
  <2>1. /\ t \in Tasks /\ pc \in [Tasks -> Pc]
        /\ OnRoute(task[t].op, pc[t]) /\ AchievedBy(t)
    BY <1>1 DEF IInv, TypeInv, TypeOK, TaskShape, Tasks, Achieved
  <2>2. task[t].on \in mark
    BY <1>1, <2>1 DEF OnRoute, AchievedBy
  <2>3. CASE Crash
    BY <2>2, <2>3 DEF Crash
  <2>4. ASSUME NEW u \in Tasks, Acts(u) PROVE RemarkMemory(t)
    <3>1. u = t
      BY <1>1, <2>1, <2>4, ActsAlone DEF OthersRest
    <3> QED BY <1>1, <2>4, <3>1 DEF Acts, TaskStep, Acquire, Check, GetState,
         MarkDisk, MarkMemory, UnmarkDisk, UnmarkMemory, PutFile, InsertBundle,
         RemoveBundle, UnlinkFile, CreateActor, CheckTemplate, GetUid,
         CreatePolicy, Serve, Reply, RpcError, IoError, Cancel, At, Moving, RpcPc,
         LifecycleRpc
  <2>5. RemarkMemory(t) => task[t].on \in mark' /\ task[t].on \in stopped'
    BY <2>2 DEF RemarkMemory
  <2>6. ASSUME NEW u, NEW n, NEW op \in CallOp, NEW tm, Call(u, op, n, tm)
        PROVE  FALSE
    BY <1>1, <2>1, <2>6 DEF Call, Begin, Move, First, CallOp
  <2>7. ASSUME NEW u, NEW n, SpawnAgain(u, n) PROVE FALSE
    BY <1>1, <2>1, <2>7 DEF SpawnAgain, Begin, Move
  <2>8. ASSUME \/ Poll \/ Open \/ ReapList \/ ReapDone \/ ReapFails
               \/ \E n \in Names : \/ PassOver(n) \/ ReapBundle(n) \/ ReapFile(n)
                                   \/ ReapMark(n) \/ Settle(n) \/ Intervene(n)
               \/ \E r \in wire : Deliver(r)
        PROVE  FALSE
    BY <1>1, <2>8 DEF Poll, Open, ReapList, ReapDone, ReapFails, PassOver,
       ReapBundle, ReapFile, ReapMark, Settle, Intervene, Deliver, Environment
  <2>9. "create" \in CallOp
    BY DEF CallOp
  <2>10. Crash \/ \E u \in Tasks : Acts(u)
    BY <1>1, <2>6, <2>7, <2>8, <2>9 DEF Next, Acts
  <2> QED BY <2>3, <2>4, <2>5, <2>10
<1>2. IInv /\ [Next]_vars =>
        [\A t \in Calls :
           LET n == task[t].on IN
           /\ pc[t] = "remark_memory"
           /\ t \in sole
           /\ pc'[t] = "idle"
           => n \in mark' /\ (server' = "down" \/ n \in stopped')]_vars
  BY <1>1
<1> QED BY <1>2, Inductive, PTL DEF Spec, FailedStartStops

-----------------------------------------------------------------------------
(* The lock                                                                *)

(* Whoever holds the lock of an actor is at work on it, past the lock.     *)
Held(n) == lock[n] # None => Locking(lock[n]) /\ task[lock[n]].on = n

HeldInv == IInv /\ \A n \in Names : Held(n)

LEMMA HolderWorks ==
  ASSUME NEW t \in Tasks, NEW n \in Names, Held(n), lock[n] = t
  PROVE  task[t].op \in {"start", "stop", "again"} /\ pc[t] # "lock"
<1>1. t # None
  BY NoneAssumption
<1> QED BY <1>1 DEF Held, Locking

(* A task that acts takes the lock it waits for, drops what it holds, or   *)
(* goes on to a place past the lock.                                       *)
LEMMA ActsOnLock ==
  ASSUME IInv, NEW t \in Tasks, Acts(t)
  PROVE  \/ Acquire(t)
         \/ lock' = Unlocked(t)
         \/ /\ lock' = lock /\ pc'[t] # "lock"
            /\ task'[t].op = task[t].op /\ task'[t].on = task[t].on
<1> DEFINE GoesOn == /\ lock' = lock /\ pc'[t] # "lock"
                     /\ task'[t].op = task[t].op /\ task'[t].on = task[t].on
<1>0. pc \in [Tasks -> Pc] /\ task \in [Tasks -> Task]
  BY DEF IInv, TypeInv, TypeOK
<1>1. \A p : Goto(t, p) /\ p # "lock" /\ lock' = lock => GoesOn
  BY <1>0 DEF Goto, Move
<1>2. \A ok : Return(t, ok) => lock' = Unlocked(t)
  BY DEF Return
<1>3. \A u : Knows(t, u) /\ lock' = lock => GoesOn
  BY <1>0 DEF Knows, Move, Task
<1> SUFFICES Acquire(t) \/ lock' = Unlocked(t) \/ GoesOn
  OBVIOUS
<1> HIDE DEF GoesOn
<1>4. GiveUp(t) \/ Answered(t) => lock' = Unlocked(t) \/ GoesOn
  BY <1>1, <1>2 DEF GiveUp, Answered
<1>5. CASE Check(t) \/ RemarkMemory(t) \/ UnmarkMemory(t) \/ IoError(t) \/ Cancel(t)
  BY <1>1, <1>2, <1>5 DEF Check, RemarkMemory, UnmarkMemory, IoError, Cancel
<1>6. CASE MarkDisk(t) \/ MarkMemory(t) \/ UnmarkDisk(t) \/ PutFile(t)
           \/ InsertBundle(t) \/ RemoveBundle(t) \/ UnlinkFile(t)
  BY <1>1, <1>6 DEF MarkDisk, MarkMemory, Checkpoint, UnmarkDisk, PutFile,
     InsertBundle, RemoveBundle, UnlinkFile
<1>7. CASE GetState(t)
  <2>1. \A c, p : Move(t, p) /\ p # "lock" /\ lock' = lock
                    /\ task' = [task EXCEPT ![t].crashed = c] => GoesOn
    BY <1>0 DEF Move, Task, GoesOn
  <2> QED BY <1>1, <1>2, <1>7, <2>1 DEF GetState
<1>8. CASE GetUid(t)
  <2>1. \A u, p : Move(t, p) /\ p # "lock" /\ lock' = lock
                    /\ task' = [task EXCEPT ![t].uid = u] => GoesOn
    BY <1>0 DEF Move, Task, GoesOn
  <2> QED BY <1>1, <1>2, <1>8, <2>1 DEF GetUid
<1>9. CASE CreateActor(t) \/ CheckTemplate(t) \/ CreatePolicy(t)
  BY <1>1, <1>2, <1>3, <1>9 DEF CreateActor, CheckTemplate, CreatePolicy
<1>10. CASE Serve(t) \/ Reply(t) \/ RpcError(t)
  BY <1>1, <1>4, <1>10 DEF Serve, Reply, RpcError, Via, LifecycleRpc
<1> QED BY <1>5, <1>6, <1>7, <1>8, <1>9, <1>10 DEF Acts, TaskStep

LEMMA ActsHeld ==
  ASSUME HeldInv, NEW t \in Tasks, Acts(t), NEW n \in Names
  PROVE  Held(n)'
<1>1. /\ lock \in [Names -> Tasks \cup {None}] /\ pc \in [Tasks -> Pc]
      /\ task \in [Tasks -> Task] /\ Held(n)
  BY DEF HeldInv, IInv, TypeInv, TypeOK
<1>2. \A u \in Tasks \ {t} : pc'[u] = pc[u] /\ task'[u] = task[u]
  BY ActsAlone DEF HeldInv, OthersRest
<1>3. CASE Acquire(t)
  <2>1. /\ pc[t] = "lock" /\ task[t].op \in {"start", "stop", "again"}
        /\ task[t].on \in Names
    BY <1>3 DEF Acquire, At, HeldInv, IInv, TypeInv, TaskShape, OnRoute
  <2>2. /\ pc'[t] = BehindLock[task[t].op] /\ pc'[t] # "lock" /\ task' = task
        /\ lock' = [lock EXCEPT ![task[t].on] = t]
    BY <1>1, <1>3, <2>1 DEF Acquire, Goto, Move, BehindLock
  <2>3. CASE task[t].on = n
    BY <1>1, <2>1, <2>2, <2>3 DEF Held, Locking
  <2>4. CASE task[t].on # n
    <3>1. lock'[n] = lock[n]
      BY <1>1, <2>1, <2>2, <2>4
    <3>2. lock[n] # t
      BY <1>1, <2>1, HolderWorks
    <3> QED BY <1>1, <1>2, <3>1, <3>2 DEF Held, Locking
  <2> QED BY <2>3, <2>4
<1>4. CASE lock' = Unlocked(t)
  <2>1. lock'[n] = IF lock[n] = t THEN None ELSE lock[n]
    BY <1>4 DEF Unlocked
  <2> QED BY <1>1, <1>2, <2>1 DEF Held, Locking
<1>5. CASE /\ lock' = lock /\ pc'[t] # "lock"
           /\ task'[t].op = task[t].op /\ task'[t].on = task[t].on
  BY <1>1, <1>2, <1>5 DEF Held, Locking
<1> QED BY <1>3, <1>4, <1>5, ActsOnLock DEF HeldInv

(* A slot that was free held nothing.                                      *)
LEMMA BeginHeld ==
  ASSUME HeldInv, NEW t \in Tasks, pc[t] = "idle", lock' = lock,
         \A u \in Tasks \ {t} : pc'[u] = pc[u] /\ task'[u] = task[u],
         NEW n \in Names
  PROVE  Held(n)'
<1>1. lock[n] \in Tasks \cup {None} /\ Held(n)
  BY DEF HeldInv, IInv, TypeInv, TypeOK
<1>2. lock[n] # t
  <2>1. OnRoute(task[t].op, "idle")
    BY DEF HeldInv, IInv, TypeInv, TaskShape
  <2>2. task[t].op \notin {"start", "stop", "again"}
    BY <2>1 DEF OnRoute
  <2> QED BY <1>1, <2>2, HolderWorks
<1> QED BY <1>1, <1>2 DEF Held, Locking

LEMMA NextHeld == HeldInv /\ [Next]_vars => HeldInv'
<1> SUFFICES ASSUME HeldInv, [Next]_vars, NEW n \in Names
             PROVE  Held(n)'
  BY NextIInv DEF HeldInv
<1>1. Held(n) /\ pc \in [Tasks -> Pc] /\ task \in [Tasks -> Task]
  BY DEF HeldInv, IInv, TypeInv, TypeOK
<1>2. CASE UNCHANGED <<lock, pc, task>>
  BY <1>1, <1>2 DEF Held, Locking
<1>3. ASSUME NEW t \in Tasks, NEW op, NEW m, NEW tm, NEW p, Begin(t, op, m, tm, p),
             pc[t] = "idle", lock' = lock
      PROVE  Held(n)'
  <2>1. \A u \in Tasks \ {t} : pc'[u] = pc[u] /\ task'[u] = task[u]
    BY <1>1, <1>3 DEF Begin, Move
  <2> QED BY <1>3, <2>1, BeginHeld
<1>4. ASSUME NEW t \in Calls, NEW op, NEW m, NEW tm, Call(t, op, m, tm)
      PROVE  Held(n)'
  BY <1>3, <1>4 DEF Call, At, Tasks
<1>5. ASSUME NEW t \in Tasks, NEW m, SpawnAgain(t, m)
      PROVE  Held(n)'
  BY <1>3, <1>5 DEF SpawnAgain, At
<1>6. CASE Crash
  BY <1>6 DEF Crash, Held
<1>7. ASSUME NEW m \in Names,
             \/ PassOver(m) \/ ReapBundle(m) \/ ReapFile(m) \/ ReapMark(m)
             \/ Settle(m) \/ Intervene(m)
      PROVE  UNCHANGED <<lock, pc, task>>
  BY <1>7 DEF PassOver, ReapBundle, ReapFile, ReapMark, Settle, Intervene, Environment
<1>8. CASE Poll \/ Open \/ ReapList \/ ReapDone \/ ReapFails \/ UNCHANGED vars
  BY <1>2, <1>8 DEF Poll, Open, ReapList, ReapDone, ReapFails, vars
<1>9. ASSUME NEW r, Deliver(r) PROVE UNCHANGED <<lock, pc, task>>
  BY <1>9 DEF Deliver, Environment
<1> QED BY <1>2, <1>4, <1>5, <1>6, <1>7, <1>8, <1>9, ActsHeld DEF Next, Acts

(* No lock is left behind: whatever fails, is dropped or crashes, an       *)
(* actor's lock is held only by a start, stop or suspend_again that is at  *)
(* work on it, of which there is one (actor_lock and its guard).  This is  *)
(* what CallsEnd rests on.                                                 *)
THEOREM LocksComeBack ==
  Spec => []\A n \in Names :
            /\ lock[n] # None => Locking(lock[n]) /\ task[lock[n]].on = n
            /\ \A t \in Tasks : Locking(t) /\ task[t].on = n => lock[n] = t
<1>1. Init => HeldInv
  BY InitIInv DEF Init, HeldInv, Held
<1>2. HeldInv => \A n \in Names :
        /\ lock[n] # None => Locking(lock[n]) /\ task[lock[n]].on = n
        /\ \A t \in Tasks : Locking(t) /\ task[t].on = n => lock[n] = t
  BY DEF HeldInv, Held, IInv, Exclusion
<1> QED BY <1>1, <1>2, NextHeld, PTL DEF Spec
=============================================================================
