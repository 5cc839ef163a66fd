---------------------------- MODULE DriverProofs ----------------------------
(***************************************************************************)
(* Proofs about Driver: its type invariant, and the inductive invariant    *)
(* IInv of DriverInv with the safety properties that follow from it.       *)
(*                                                                         *)
(* A step of a task either continues its operation or returns from it.     *)
(* Two lemmas, Continuing and Returning, carry IInv over any such step     *)
(* from what it does to the sandbox; the actions are then instances.       *)
(***************************************************************************)
EXTENDS DriverInv, TLAPS

USE TemplatesAssumption, MaxUidAssumption, SlotsAssumption, NoneAssumption,
    FaultsAssumption

(* What a step does to the control state when task t goes on to p.         *)
Continues(t, p) ==
  /\ pc' = [pc EXCEPT ![t] = p]
  /\ task' \in [Tasks -> Task]
  /\ \A u \in Tasks : /\ task'[u].op = task[u].op
                      /\ task'[u].on = task[u].on
                      /\ task'[u].template = task[u].template

(* The control half and the data half of the type invariant.               *)
ControlOK ==
  /\ lock \in [Names -> Tasks \cup {None}]
  /\ pc \in [Tasks -> Pc]
  /\ task \in [Tasks -> Task]
  /\ sole \subseteq Tasks
  /\ answer \in [Names -> Answer]
  /\ TaskShape

DataOK ==
  /\ actor \in [Names -> Actor]
  /\ wire \subseteq Request
  /\ file \in [Names -> 0..MaxUid]
  /\ bundle \in [Names -> 0..MaxUid]
  /\ mark \subseteq Names
  /\ stopped \subseteq Names
  /\ listed \subseteq Names
  /\ server \in {"down", "opened", "reaping", "serving"}
  /\ live \subseteq Names
  /\ reaped \subseteq Names
  /\ faults \in 0..MaxFaults
  /\ WireShape

LEMMA Halves == TypeInv <=> ControlOK /\ DataOK
BY DEF TypeInv, TypeOK, ControlOK, DataOK

LEMMA HalvesNext == TypeInv' <=> ControlOK' /\ DataOK'
BY DEF TypeInv, TypeOK, ControlOK, DataOK

-----------------------------------------------------------------------------
(* Control                                                                 *)

LEMMA GotoContinues ==
  ASSUME ControlOK, NEW t \in Tasks, NEW p, Goto(t, p)
  PROVE  Continues(t, p)
BY DEF ControlOK, Goto, Move, Continues

LEMMA KnowsContinues ==
  ASSUME ControlOK, NEW t \in Tasks, NEW u \in 0..MaxUid, Knows(t, u)
  PROVE  Continues(t, "get_uid")
<1>1. task' \in [Tasks -> Task]
  BY DEF ControlOK, Knows, Task
<1>2. \A v \in Tasks : /\ task'[v].op = task[v].op
                       /\ task'[v].on = task[v].on
                       /\ task'[v].template = task[v].template
  BY DEF ControlOK, Knows, Task
<1> QED BY <1>1, <1>2 DEF Knows, Move, Continues

LEMMA UidContinues ==
  ASSUME ControlOK, NEW t \in Tasks, NEW u \in 0..MaxUid, NEW p, Move(t, p),
         task' = [task EXCEPT ![t].uid = u]
  PROVE  Continues(t, p)
<1>1. task' \in [Tasks -> Task]
  BY DEF ControlOK, Task
<1>2. \A v \in Tasks : /\ task'[v].op = task[v].op
                       /\ task'[v].on = task[v].on
                       /\ task'[v].template = task[v].template
  BY DEF ControlOK, Task
<1> QED BY <1>1, <1>2 DEF Move, Continues

LEMMA CrashedContinues ==
  ASSUME ControlOK, NEW t \in Tasks, NEW c \in BOOLEAN, NEW p, Move(t, p),
         task' = [task EXCEPT ![t].crashed = c]
  PROVE  Continues(t, p)
<1>1. task' \in [Tasks -> Task]
  BY DEF ControlOK, Task
<1>2. \A v \in Tasks : /\ task'[v].op = task[v].op
                       /\ task'[v].on = task[v].on
                       /\ task'[v].template = task[v].template
  BY DEF ControlOK, Task
<1> QED BY <1>1, <1>2 DEF Move, Continues

LEMMA ContinuesType ==
  ASSUME ControlOK, NEW t \in Tasks, NEW p \in Pc, Continues(t, p),
         OnRoute(task[t].op, p), UNCHANGED <<lock, history>>
  PROVE  ControlOK'
<1>1. TaskShape'
  BY DEF ControlOK, Continues, TaskShape
<1> QED BY <1>1 DEF ControlOK, Continues, history

LEMMA ReturnType ==
  ASSUME ControlOK, NEW t \in Tasks, NEW ok \in BOOLEAN, Return(t, ok)
  PROVE  ControlOK'
<1>1. task[t].op \in CallOp => Concluded(t, ok) \in Answer
  BY DEF ControlOK, TaskShape, Task, Answer, Concluded, Sure, CallOp
<1>2. answer' \in [Names -> Answer]
  BY <1>1 DEF ControlOK, Return
<1>3. /\ pc' \in [Tasks -> Pc] /\ sole' \subseteq Tasks
      /\ lock' \in [Names -> Tasks \cup {None}]
  BY DEF Return, Move, Pc, ControlOK, Unlocked
<1>4. task' \in [Tasks -> Task]
  BY DEF Return, ControlOK, Idle, Task, TaskOp
<1>5. TaskShape'
  BY DEF Return, ControlOK, Idle, Task, TaskOp, TaskShape, Move, OnRoute
<1> QED BY <1>2, <1>3, <1>4, <1>5 DEF ControlOK

-----------------------------------------------------------------------------
(* The invariant over a step of a task                                     *)

(* What the steps of a task leave alone: the other sandboxes, the process, *)
(* and that an actor exists.                                               *)
OwnStore(t) ==
  \A m \in Names : m # task[t].on =>
    /\ file'[m] = file[m] /\ bundle'[m] = bundle[m]
    /\ m \in mark' <=> m \in mark
    /\ m \in stopped' <=> m \in stopped

ActorsStay ==
  \A m \in Names : actor[m].state # "none" => actor'[m].state # "none"

(* Only a call past the lock writes.                                       *)
WritesAsCall(t) == UNCHANGED store \/ (task[t].op \in CallOp /\ pc[t] # "lock")

TaskEffect(t) == /\ task[t].op # "none"
                 /\ OwnStore(t) /\ ActorsStay /\ WritesAsCall(t)
                 /\ UNCHANGED boot /\ DataOK'

(* A task beside a call that is past the lock has yet to get past it, or   *)
(* is not sole.                                                            *)
LEMMA Secluded ==
  ASSUME IInv, NEW t \in Tasks, task[t].op \in CallOp, pc[t] # "lock",
         NEW u \in sole, u # t, task[u].on = task[t].on
  PROVE  task[u].op \in {"start", "stop", "again"} /\ pc[u] = "lock"
<1>1. u \in Tasks /\ task[t].on \in Names
  BY DEF IInv, TypeInv, TypeOK, TaskShape, CallOp
<1>2. task[t].op \in {"start", "stop"} /\ task[u].op \notin {"create", "delete"}
  BY <1>1 DEF IInv, Undisturbed, CallOp
<1>3. task[u].op \in {"start", "stop", "again"}
  BY <1>1, <1>2 DEF IInv, TypeInv, TypeOK, Task, TaskOp, CallOp, Undisturbed
<1>4. pc[u] = "lock"
  BY <1>1, <1>2, <1>3 DEF IInv, Exclusion, Locking
<1> QED BY <1>3, <1>4

(* What a task has achieved is not undone by a step of another.            *)
LEMMA AchievedStays ==
  ASSUME IInv, NEW t \in Tasks, TaskEffect(t), NEW u \in sole, u # t,
         task'[u].op = task[u].op, task'[u].on = task[u].on, pc'[u] = pc[u]
  PROVE  AchievedBy(u)'
<1>1. u \in Tasks /\ task[u].on \in Names
  BY DEF IInv, TypeInv, TypeOK, TaskShape, Undisturbed
<1>2. AchievedBy(u)
  BY DEF IInv, Achieved
<1>3. CASE UNCHANGED store
  BY <1>2, <1>3 DEF AchievedBy, store
<1>4. CASE task[u].on # task[t].on
  BY <1>1, <1>2, <1>4 DEF AchievedBy, TaskEffect, OwnStore
<1>5. CASE task[u].on = task[t].on /\ task[t].op \in CallOp /\ pc[t] # "lock"
  <2>1. task[u].op \in {"start", "stop", "again"} /\ pc[u] = "lock"
    BY <1>5, Secluded
  <2> QED BY <2>1 DEF AchievedBy
<1> QED BY <1>3, <1>4, <1>5 DEF TaskEffect, WritesAsCall

(* What the gateway is sure of stays true of a sandbox whose answer stays. *)
LEMMA AssuredStays ==
  ASSUME IInv, NEW t \in Tasks, TaskEffect(t), NEW n \in Names,
         answer'[n] = answer[n],
         \A u \in Tasks : task'[u].on = n =>
           task'[u].on = task[u].on /\ task'[u].op = task[u].op
  PROVE  Assured(n)'
<1>1. Assured(n)
  BY DEF IInv, Settledness
<1>2. CASE answer[n] \notin {"stopped", "started", "deleted"}
  BY <1>2 DEF Assured
<1>3. CASE answer[n] \in {"stopped", "started", "deleted"}
  <2>1. \A u \in Tasks : task[u].on = n => task[u].op \notin CallOp
    BY <1>1, <1>3 DEF Assured
  <2>2. /\ file'[n] = file[n] /\ bundle'[n] = bundle[n]
        /\ n \in mark' <=> n \in mark
        /\ n \in stopped' <=> n \in stopped
    BY <2>1 DEF TaskEffect, WritesAsCall, OwnStore, store
  <2>3. server' = server /\ live' = live
        /\ (actor[n].state # "none" => actor'[n].state # "none")
    BY DEF TaskEffect, boot, ActorsStay
  <2> QED BY <1>1, <2>1, <2>2, <2>3 DEF Assured
<1> QED BY <1>2, <1>3

(* A task that goes on with its operation keeps the invariant if it has    *)
(* achieved what its next place asks for.                                  *)
LEMMA Continuing ==
  ASSUME IInv, NEW t \in Tasks, NEW p \in Pc, Continues(t, p), TaskEffect(t),
         OnRoute(task[t].op, p), pc[t] # "lock", p # "lock",
         UNCHANGED <<lock, history>>,
         t \in sole => AchievedBy(t)'
  PROVE  IInv'
<1>0. TypeInv /\ ControlOK
  BY Halves DEF IInv
<1>1. TypeInv'
  BY <1>0, ContinuesType, HalvesNext DEF TaskEffect
<1>2. \A u \in Tasks : /\ task'[u].op = task[u].op
                       /\ task'[u].on = task[u].on
                       /\ pc'[u] = IF u = t THEN p ELSE pc[u]
  BY <1>0 DEF Continues, ControlOK
<1>3. UNCHANGED <<lock, sole, answer, server, live, reaped>>
  BY DEF history, TaskEffect, boot
<1>4. Exclusion'
  BY <1>2, <1>3 DEF IInv, Exclusion, Locking
<1>5. Quiet' /\ Reaping'
  BY <1>2, <1>3 DEF IInv, Quiet, Reaping, TaskEffect
<1>6. Undisturbed'
  BY <1>0, <1>2, <1>3 DEF IInv, Undisturbed, TypeInv, TypeOK
<1>7. Achieved'
  <2> SUFFICES ASSUME NEW u \in sole' PROVE AchievedBy(u)'
    BY DEF Achieved
  <2>1. CASE u = t
    BY <2>1, <1>3
  <2>2. CASE u # t
    <3>1. u \in sole /\ u \in Tasks
      BY <1>0, <1>3 DEF ControlOK
    <3> QED BY <2>2, <3>1, <1>2, AchievedStays
  <2> QED BY <2>1, <2>2
<1>8. Settledness'
  <2> SUFFICES ASSUME NEW n \in Names PROVE Assured(n)'
    BY DEF Settledness
  <2> QED BY <1>2, <1>3, AssuredStays
<1> QED BY <1>1, <1>4, <1>5, <1>6, <1>7, <1>8 DEF IInv

(* What a call that had its sandbox to itself must leave for the gateway   *)
(* to be sure.                                                             *)
Concludes(t) ==
  LET n == task[t].on IN
  /\ task[t].op = "stop" =>
       n \in mark' /\ n \in stopped' /\ actor'[n].state # "none"
  /\ task[t].op \in {"start", "create"} => n \notin mark' /\ n \notin stopped'
  /\ task[t].op = "delete" =>
       file'[n] = 0 /\ bundle'[n] = 0 /\ n \notin mark' /\ n \notin stopped'

(* A task that returns keeps the invariant if it leaves what it is said to *)
(* have achieved.                                                          *)
LEMMA Returning ==
  ASSUME IInv, NEW t \in Tasks, NEW ok \in BOOLEAN, Return(t, ok),
         TaskEffect(t), t \in sole /\ ok => Concludes(t)
  PROVE  IInv'
<1>0. TypeInv /\ ControlOK
  BY Halves DEF IInv
<1>1. TypeInv'
  BY <1>0, ReturnType, HalvesNext DEF TaskEffect
<1>2. /\ task[t].on \in Names /\ server = "serving"
      /\ task[t].op \in TaskOp
  BY <1>0 DEF ControlOK, TaskShape, Task, TaskEffect, IInv, Quiet
<1>3. /\ task'[t].op = "none" /\ task'[t].on = None
      /\ \A u \in Tasks : u # t => task'[u] = task[u] /\ pc'[u] = pc[u]
  BY <1>0 DEF Return, Move, ControlOK, Idle
<1>4. /\ sole' = sole \ {t}
      /\ \A u \in Tasks, n \in Names : u # t => (lock'[n] = u <=> lock[n] = u)
      /\ \A n \in Names : n # task[t].on => answer'[n] = answer[n]
      /\ task[t].op \notin CallOp => answer' = answer
      /\ task[t].op \in CallOp => answer'[task[t].on] = Concluded(t, ok)
  BY <1>0, <1>2 DEF Return, Unlocked, ControlOK
<1>5. UNCHANGED <<server, live, reaped>>
  BY DEF TaskEffect, boot
<1>6. Exclusion'
  <2> SUFFICES ASSUME NEW u \in Tasks, Locking(u)' PROVE (lock[task[u].on] = u)'
    BY DEF Exclusion
  <2>1. u # t /\ Locking(u)
    BY <1>3 DEF Locking
  <2>2. lock[task[u].on] = u /\ task[u].on \in Names
    BY <1>0, <2>1 DEF IInv, Exclusion, Locking, ControlOK, TaskShape
  <2> QED BY <1>3, <1>4, <2>1, <2>2
<1>7. Quiet' /\ Reaping'
  BY <1>2, <1>5 DEF IInv, Quiet, Reaping
<1>8. Undisturbed'
  <2> SUFFICES ASSUME NEW u \in sole, u # t
               PROVE
    /\ task'[u].op # "none"
    /\ task'[u].op = "create" => answer'[task'[u].on] = "new"
    /\ task'[u].op = "delete" => answer'[task'[u].on] = "deleting"
    /\ \A v \in Tasks \ {u} : task'[v].on = task'[u].on =>
         /\ task'[v].op \notin {"create", "delete"}
         /\ task'[u].op \in {"create", "delete"} => task'[v].op \notin CallOp
    BY <1>4 DEF Undisturbed
  <2>1. u \in Tasks /\ task'[u] = task[u] /\ task[u].on \in Names
    BY <1>0, <1>3 DEF ControlOK, TaskShape, IInv, Undisturbed
  <2>2. task[u].op \in {"create", "delete"} =>
          answer'[task[u].on] = answer[task[u].on]
    BY <1>4, <2>1 DEF IInv, Undisturbed
  <2>3. \A v \in Tasks \ {u} : task'[v].on = task[u].on =>
         /\ task'[v].op \notin {"create", "delete"}
         /\ task[u].op \in {"create", "delete"} => task'[v].op \notin CallOp
    BY <1>3, <2>1 DEF IInv, Undisturbed, CallOp
  <2> QED BY <2>1, <2>2, <2>3 DEF IInv, Undisturbed
<1>9. Achieved'
  <2> SUFFICES ASSUME NEW u \in sole, u # t PROVE AchievedBy(u)'
    BY <1>4 DEF Achieved
  <2>1. u \in Tasks
    BY <1>0 DEF ControlOK
  <2> QED BY <1>3, <2>1, AchievedStays
<1>10. Settledness'
  <2> SUFFICES ASSUME NEW n \in Names PROVE Assured(n)'
    BY DEF Settledness
  <2>0. \A u \in Tasks : task'[u].on = n =>
           task'[u].on = task[u].on /\ task'[u].op = task[u].op
    BY <1>3
  <2>1. CASE answer'[n] = answer[n]
    BY <2>0, <2>1, AssuredStays
  <2>2. CASE answer'[n] # answer[n]
    <3>1. n = task[t].on /\ task[t].op \in CallOp /\ answer'[n] = Concluded(t, ok)
      BY <1>4, <2>2
    <3>2. CASE ok /\ t \in sole /\ Active(n, CallOp) = {t}
      <4>1. answer'[n] = Sure[task[t].op]
        BY <3>1, <3>2 DEF Concluded
      <4>2. \A u \in Tasks : task'[u].on = n => task'[u].op \notin CallOp
        BY <1>3, <3>2 DEF Active, CallOp
      <4>3. Concludes(t)
        BY <3>2
      <4> QED BY <1>2, <1>5, <3>1, <4>1, <4>2, <4>3
           DEF Assured, Concludes, Sure, CallOp
    <3>3. CASE ~(ok /\ t \in sole /\ Active(n, CallOp) = {t})
      <4>1. answer'[n] \in {"new", "unknown"}
        BY <2>2, <3>1, <3>3 DEF Concluded
      <4> QED BY <4>1 DEF Assured
    <3> QED BY <3>2, <3>3
  <2> QED BY <2>1, <2>2
<1> QED BY <1>1, <1>6, <1>7, <1>8, <1>9, <1>10 DEF IInv

-----------------------------------------------------------------------------
(* The steps of a task                                                     *)

LEMMA TaskFacts ==
  ASSUME IInv, NEW t \in Tasks
  PROVE  /\ ControlOK /\ DataOK
         /\ OnRoute(task[t].op, pc[t])
         /\ task[t].op # "none" => task[t].on \in Names
         /\ t \in sole => AchievedBy(t)
<1>1. ControlOK /\ DataOK
  BY Halves DEF IInv
<1> QED BY <1>1 DEF ControlOK, TaskShape, IInv, Achieved

LEMMA MarkDiskPreserves ==
  ASSUME IInv, NEW t \in Tasks, MarkDisk(t)
  PROVE  IInv'
<1> DEFINE p == IF At(t, "mark_disk") THEN "mark_memory" ELSE "remark_memory"
<1>0. /\ ControlOK /\ DataOK /\ OnRoute(task[t].op, pc[t])
      /\ task[t].op # "none" => task[t].on \in Names
      /\ t \in sole => AchievedBy(t)
  BY TaskFacts
<1>1. Continues(t, p)
  BY <1>0, GotoContinues DEF MarkDisk
<1>2. p \in Pc /\ OnRoute(task[t].op, p) /\ task[t].op \in CallOp
      /\ pc[t] # "lock" /\ p # "lock"
  BY <1>0 DEF MarkDisk, OnRoute, Pc, At, CallOp
<1>3. task'[t] = task[t] /\ pc'[t] = p /\ UNCHANGED <<lock, history>>
  BY <1>0 DEF MarkDisk, Goto, Move, ControlOK
<1>4. TaskEffect(t)
  BY <1>0, <1>2 DEF MarkDisk, TaskEffect, OwnStore, ActorsStay, WritesAsCall,
       DataOK, WireShape, ControlOK, Task, substrate, store, boot, CallOp
<1>5. t \in sole => AchievedBy(t)'
  BY <1>0, <1>2, <1>3 DEF MarkDisk, AchievedBy, OnRoute, At, DataOK, CallOp,
       store
<1> HIDE DEF p
<1> QED BY <1>1, <1>2, <1>3, <1>4, <1>5, Continuing

LEMMA MarkMemoryPreserves ==
  ASSUME IInv, NEW t \in Tasks, MarkMemory(t)
  PROVE  IInv'
<1> DEFINE p == Checkpoint(t)
<1>0. /\ ControlOK /\ DataOK /\ OnRoute(task[t].op, pc[t])
      /\ task[t].op # "none" => task[t].on \in Names
      /\ t \in sole => AchievedBy(t)
  BY TaskFacts
<1>1. Continues(t, p)
  BY <1>0, GotoContinues DEF MarkMemory
<1>2. p \in Pc /\ OnRoute(task[t].op, p) /\ task[t].op \in CallOp
      /\ pc[t] # "lock" /\ p # "lock"
  BY <1>0 DEF MarkMemory, OnRoute, Pc, At, CallOp, Checkpoint
<1>3. task'[t] = task[t] /\ pc'[t] = p /\ UNCHANGED <<lock, history>>
  BY <1>0 DEF MarkMemory, Goto, Move, ControlOK
<1>4. TaskEffect(t)
  BY <1>0, <1>2 DEF MarkMemory, TaskEffect, OwnStore, ActorsStay, WritesAsCall,
       DataOK, WireShape, ControlOK, Task, substrate, store, boot, CallOp
<1>5. t \in sole => AchievedBy(t)'
  BY <1>0, <1>2, <1>3 DEF MarkMemory, AchievedBy, OnRoute, At, DataOK, CallOp,
       store, Checkpoint
<1> HIDE DEF p
<1> QED BY <1>1, <1>2, <1>3, <1>4, <1>5, Continuing

LEMMA UnmarkDiskPreserves ==
  ASSUME IInv, NEW t \in Tasks, UnmarkDisk(t)
  PROVE  IInv'
<1> DEFINE p == "unmark_memory"
<1>0. /\ ControlOK /\ DataOK /\ OnRoute(task[t].op, pc[t])
      /\ task[t].op # "none" => task[t].on \in Names
      /\ t \in sole => AchievedBy(t)
  BY TaskFacts
<1>1. Continues(t, p)
  BY <1>0, GotoContinues DEF UnmarkDisk
<1>2. p \in Pc /\ OnRoute(task[t].op, p) /\ task[t].op \in CallOp
      /\ pc[t] # "lock" /\ p # "lock"
  BY <1>0 DEF UnmarkDisk, OnRoute, Pc, At, CallOp
<1>3. task'[t] = task[t] /\ pc'[t] = p /\ UNCHANGED <<lock, history>>
  BY <1>0 DEF UnmarkDisk, Goto, Move, ControlOK
<1>4. TaskEffect(t)
  BY <1>0, <1>2 DEF UnmarkDisk, TaskEffect, OwnStore, ActorsStay, WritesAsCall,
       DataOK, WireShape, ControlOK, Task, substrate, store, boot, CallOp
<1>5. t \in sole => AchievedBy(t)'
  BY <1>0, <1>2, <1>3 DEF UnmarkDisk, AchievedBy, OnRoute, At, DataOK, CallOp,
       store
<1> HIDE DEF p
<1> QED BY <1>1, <1>2, <1>3, <1>4, <1>5, Continuing

LEMMA PutFilePreserves ==
  ASSUME IInv, NEW t \in Tasks, PutFile(t)
  PROVE  IInv'
<1> DEFINE p == "insert"
<1>0. /\ ControlOK /\ DataOK /\ OnRoute(task[t].op, pc[t])
      /\ task[t].op # "none" => task[t].on \in Names
      /\ t \in sole => AchievedBy(t)
  BY TaskFacts
<1>1. Continues(t, p)
  BY <1>0, GotoContinues DEF PutFile
<1>2. p \in Pc /\ OnRoute(task[t].op, p) /\ task[t].op \in CallOp
      /\ pc[t] # "lock" /\ p # "lock"
  BY <1>0 DEF PutFile, OnRoute, Pc, At, CallOp
<1>3. task'[t] = task[t] /\ pc'[t] = p /\ UNCHANGED <<lock, history>>
  BY <1>0 DEF PutFile, Goto, Move, ControlOK
<1>4. TaskEffect(t)
  BY <1>0, <1>2 DEF PutFile, TaskEffect, OwnStore, ActorsStay, WritesAsCall,
       DataOK, WireShape, ControlOK, Task, substrate, store, boot, CallOp
<1>5. t \in sole => AchievedBy(t)'
  BY <1>0, <1>2, <1>3 DEF PutFile, AchievedBy, OnRoute, At, DataOK, CallOp,
       store
<1> HIDE DEF p
<1> QED BY <1>1, <1>2, <1>3, <1>4, <1>5, Continuing

LEMMA InsertBundlePreserves ==
  ASSUME IInv, NEW t \in Tasks, InsertBundle(t)
  PROVE  IInv'
<1> DEFINE p == "unmark_disk"
<1>0. /\ ControlOK /\ DataOK /\ OnRoute(task[t].op, pc[t])
      /\ task[t].op # "none" => task[t].on \in Names
      /\ t \in sole => AchievedBy(t)
  BY TaskFacts
<1>1. Continues(t, p)
  BY <1>0, GotoContinues DEF InsertBundle
<1>2. p \in Pc /\ OnRoute(task[t].op, p) /\ task[t].op \in CallOp
      /\ pc[t] # "lock" /\ p # "lock"
  BY <1>0 DEF InsertBundle, OnRoute, Pc, At, CallOp
<1>3. task'[t] = task[t] /\ pc'[t] = p /\ UNCHANGED <<lock, history>>
  BY <1>0 DEF InsertBundle, Goto, Move, ControlOK
<1>4. TaskEffect(t)
  BY <1>0, <1>2 DEF InsertBundle, TaskEffect, OwnStore, ActorsStay, WritesAsCall,
       DataOK, WireShape, ControlOK, Task, substrate, store, boot, CallOp
<1>5. t \in sole => AchievedBy(t)'
  BY <1>0, <1>2, <1>3 DEF InsertBundle, AchievedBy, OnRoute, At, DataOK, CallOp,
       store
<1> HIDE DEF p
<1> QED BY <1>1, <1>2, <1>3, <1>4, <1>5, Continuing

LEMMA RemoveBundlePreserves ==
  ASSUME IInv, NEW t \in Tasks, RemoveBundle(t)
  PROVE  IInv'
<1> DEFINE p == "unlink"
<1>0. /\ ControlOK /\ DataOK /\ OnRoute(task[t].op, pc[t])
      /\ task[t].op # "none" => task[t].on \in Names
      /\ t \in sole => AchievedBy(t)
  BY TaskFacts
<1>1. Continues(t, p)
  BY <1>0, GotoContinues DEF RemoveBundle
<1>2. p \in Pc /\ OnRoute(task[t].op, p) /\ task[t].op \in CallOp
      /\ pc[t] # "lock" /\ p # "lock"
  BY <1>0 DEF RemoveBundle, OnRoute, Pc, At, CallOp
<1>3. task'[t] = task[t] /\ pc'[t] = p /\ UNCHANGED <<lock, history>>
  BY <1>0 DEF RemoveBundle, Goto, Move, ControlOK
<1>4. TaskEffect(t)
  BY <1>0, <1>2 DEF RemoveBundle, TaskEffect, OwnStore, ActorsStay, WritesAsCall,
       DataOK, WireShape, ControlOK, Task, substrate, store, boot, CallOp
<1>5. t \in sole => AchievedBy(t)'
  BY <1>0, <1>2, <1>3 DEF RemoveBundle, AchievedBy, OnRoute, At, DataOK, CallOp,
       store
<1> HIDE DEF p
<1> QED BY <1>1, <1>2, <1>3, <1>4, <1>5, Continuing

LEMMA UnlinkFilePreserves ==
  ASSUME IInv, NEW t \in Tasks, UnlinkFile(t)
  PROVE  IInv'
<1> DEFINE p == "unmark_disk"
<1>0. /\ ControlOK /\ DataOK /\ OnRoute(task[t].op, pc[t])
      /\ task[t].op # "none" => task[t].on \in Names
      /\ t \in sole => AchievedBy(t)
  BY TaskFacts
<1>1. Continues(t, p)
  BY <1>0, GotoContinues DEF UnlinkFile
<1>2. p \in Pc /\ OnRoute(task[t].op, p) /\ task[t].op \in CallOp
      /\ pc[t] # "lock" /\ p # "lock"
  BY <1>0 DEF UnlinkFile, OnRoute, Pc, At, CallOp
<1>3. task'[t] = task[t] /\ pc'[t] = p /\ UNCHANGED <<lock, history>>
  BY <1>0 DEF UnlinkFile, Goto, Move, ControlOK
<1>4. TaskEffect(t)
  BY <1>0, <1>2 DEF UnlinkFile, TaskEffect, OwnStore, ActorsStay, WritesAsCall,
       DataOK, WireShape, ControlOK, Task, substrate, store, boot, CallOp
<1>5. t \in sole => AchievedBy(t)'
  BY <1>0, <1>2, <1>3 DEF UnlinkFile, AchievedBy, OnRoute, At, DataOK, CallOp,
       store
<1> HIDE DEF p
<1> QED BY <1>1, <1>2, <1>3, <1>4, <1>5, Continuing

(* What a handler does after an RPC keeps the invariant, if the RPC left   *)
(* the stores alone.                                                       *)
LEMMA GivingUp ==
  ASSUME IInv, NEW t \in Tasks, GiveUp(t), TaskEffect(t), pc[t] # "lock"
  PROVE  IInv'
<1>0. ControlOK /\ OnRoute(task[t].op, pc[t])
  BY TaskFacts
<1>1. CASE task[t].op = "start" /\ pc[t] \in {"resume", "resuming"}
  <2>1. Continues(t, "remark_disk") /\ UNCHANGED <<lock, history>>
    BY <1>0, <1>1, GotoContinues DEF GiveUp
  <2>2. AchievedBy(t)'
    BY <1>0, <1>1, <2>1 DEF GiveUp, Goto, Move, ControlOK, AchievedBy
  <2>3. "remark_disk" \in Pc /\ OnRoute(task[t].op, "remark_disk")
    BY <1>1 DEF Pc, OnRoute
  <2> QED BY <2>1, <2>2, <2>3, Continuing
<1>2. CASE ~(task[t].op = "start" /\ pc[t] \in {"resume", "resuming"})
  BY <1>2, Returning DEF GiveUp
<1> QED BY <1>1, <1>2

LEMMA Answering ==
  ASSUME IInv, NEW t \in Tasks, Answered(t), TaskEffect(t), UNCHANGED store,
         pc[t] \in LifecycleRpc \cup Moving,
         task[t].op = "stop" => actor'[task[t].on].state # "none"
  PROVE  IInv'
<1>0. /\ ControlOK /\ OnRoute(task[t].op, pc[t])
      /\ t \in sole => AchievedBy(t)
  BY TaskFacts
<1>1. CASE task[t].op = "delete"
  <2>1. Continues(t, "remove") /\ UNCHANGED <<lock, history>>
    BY <1>0, <1>1, GotoContinues DEF Answered
  <2>2. AchievedBy(t)'
    BY <1>0, <1>1, <2>1 DEF Answered, Goto, Move, ControlOK, AchievedBy
  <2>3. "remove" \in Pc /\ OnRoute(task[t].op, "remove") /\ pc[t] # "lock"
    BY <1>1 DEF Pc, OnRoute, LifecycleRpc, Moving
  <2> QED BY <2>1, <2>2, <2>3, Continuing
<1>2. CASE task[t].op # "delete"
  <2>1. t \in sole => Concludes(t)
    BY <1>0, <1>2 DEF AchievedBy, Concludes, OnRoute, LifecycleRpc, Moving, store
  <2> QED BY <1>2, <2>1, Returning DEF Answered
<1> QED BY <1>1, <1>2

LEMMA MovedType ==
  ASSUME NEW a \in Actor, NEW rpc \in LifecycleRpc
  PROVE  /\ Moved(rpc, a) \in Actor
         /\ a.state # "none" => Moved(rpc, a).state # "none"
         /\ Runs(rpc, a.state) => Moved(rpc, a).state = Via[rpc]
         /\ ~Runs(rpc, a.state) => Moved(rpc, a) = a
BY DEF Moved, Actor, ActorState, LifecycleRpc, Via, From, Runs

LEMMA PolicyType ==
  ASSUME NEW a \in Actor
  PROVE  WithPolicy(a) \in Actor /\ WithPolicy(a).state = a.state
BY DEF WithPolicy, Actor

LEMMA CreatedType ==
  ASSUME NEW a \in Actor, NEW tm \in Templates, CanCreate(a)
  PROVE  /\ Created(a, tm) \in Actor /\ Created(a, tm).state # "none"
         /\ a.uid + 1 \in 0..MaxUid
BY DEF Created, CanCreate, Actor, ActorState

LEMMA RemarkMemoryPreserves ==
  ASSUME IInv, NEW t \in Tasks, RemarkMemory(t)
  PROVE  IInv'
<1>0. /\ ControlOK /\ DataOK /\ OnRoute(task[t].op, pc[t])
      /\ task[t].op # "none" => task[t].on \in Names
  BY TaskFacts
<1>1. TaskEffect(t)
  BY <1>0 DEF RemarkMemory, TaskEffect, OwnStore, ActorsStay, WritesAsCall, At,
       DataOK, WireShape, OnRoute, substrate, boot, CallOp
<1> QED BY <1>1, Returning DEF RemarkMemory

LEMMA UnmarkMemoryPreserves ==
  ASSUME IInv, NEW t \in Tasks, UnmarkMemory(t)
  PROVE  IInv'
<1>0. /\ ControlOK /\ DataOK /\ OnRoute(task[t].op, pc[t])
      /\ task[t].op # "none" => task[t].on \in Names
      /\ t \in sole => AchievedBy(t)
  BY TaskFacts
<1>1. TaskEffect(t) /\ pc[t] # "lock"
  BY <1>0 DEF UnmarkMemory, TaskEffect, OwnStore, ActorsStay, WritesAsCall, At,
       DataOK, WireShape, OnRoute, substrate, boot, CallOp
<1>2. CASE task[t].op = "delete"
  <2>1. t \in sole => Concludes(t)
    BY <1>0, <1>2 DEF UnmarkMemory, At, AchievedBy, Concludes
  <2> QED BY <1>1, <1>2, <2>1, Returning DEF UnmarkMemory
<1>3. CASE task[t].op # "delete"
  <2>1. Continues(t, "resume") /\ UNCHANGED <<lock, history>>
    BY <1>0, <1>3, GotoContinues DEF UnmarkMemory
  <2>2. t \in sole => AchievedBy(t)'
    BY <1>0, <1>3 DEF UnmarkMemory, Goto, Move, ControlOK, AchievedBy, OnRoute, At
  <2>3. "resume" \in Pc /\ OnRoute(task[t].op, "resume")
    BY <1>0, <1>3 DEF Pc, OnRoute, UnmarkMemory, At
  <2> QED BY <1>1, <2>1, <2>2, <2>3, Continuing
<1> QED BY <1>2, <1>3

(* A step that leaves all data alone.                                      *)
LEMMA OnlyControl ==
  ASSUME IInv, NEW t \in Tasks, task[t].op # "none",
         UNCHANGED <<substrate, store, listed, boot, faults>>
  PROVE  TaskEffect(t)
<1>0. ControlOK /\ DataOK
  BY TaskFacts
<1> QED BY <1>0 DEF TaskEffect, OwnStore, ActorsStay, WritesAsCall, DataOK,
      WireShape, substrate, store, boot

LEMMA CheckPreserves ==
  ASSUME IInv, NEW t \in Tasks, Check(t)
  PROVE  IInv'
<1>0. /\ ControlOK /\ OnRoute(task[t].op, pc[t])
      /\ task[t].op # "none" => task[t].on \in Names
  BY TaskFacts
<1>1. task[t].op = "again" /\ TaskEffect(t) /\ pc[t] # "lock"
  BY <1>0, OnlyControl DEF Check, At, OnRoute
<1>2. CASE task[t].on \in stopped
  <2>1. Continues(t, "get_state") /\ UNCHANGED <<lock, history>>
    BY <1>0, <1>2, GotoContinues DEF Check
  <2>2. AchievedBy(t)'
    BY <1>0, <1>1, <1>2 DEF Check, Goto, Move, ControlOK, AchievedBy, store
  <2>3. "get_state" \in Pc /\ OnRoute(task[t].op, "get_state")
    BY <1>1 DEF Pc, OnRoute
  <2> QED BY <1>1, <2>1, <2>2, <2>3, Continuing
<1>3. CASE task[t].on \notin stopped
  <2>1. Concludes(t)
    BY <1>1 DEF Concludes
  <2> QED BY <1>1, <1>3, <2>1, Returning DEF Check
<1> QED BY <1>2, <1>3

LEMMA GetStatePreserves ==
  ASSUME IInv, NEW t \in Tasks, GetState(t)
  PROVE  IInv'
<1> DEFINE c == actor[task[t].on].state = "crashed"
<1>0. /\ ControlOK /\ OnRoute(task[t].op, pc[t])
      /\ task[t].op # "none" => task[t].on \in Names
      /\ t \in sole => AchievedBy(t)
  BY TaskFacts
<1>1. task[t].op \in {"stop", "again"} /\ TaskEffect(t) /\ pc[t] # "lock"
  BY <1>0, OnlyControl DEF GetState, At, OnRoute
<1>2. CASE Return(t, FALSE)
  BY <1>1, <1>2, Returning
<1>3. CASE /\ task[t].op = "stop" /\ Move(t, "mark_disk")
           /\ task' = [task EXCEPT ![t].crashed = c]
           /\ UNCHANGED <<lock, history>>
  <2>1. Continues(t, "mark_disk")
    BY <1>0, <1>3, CrashedContinues
  <2>2. AchievedBy(t)'
    BY <1>0, <1>3, <2>1 DEF Continues, ControlOK, AchievedBy
  <2>3. "mark_disk" \in Pc /\ OnRoute(task[t].op, "mark_disk")
    BY <1>3 DEF Pc, OnRoute
  <2> QED BY <1>1, <1>3, <2>1, <2>2, <2>3, Continuing
<1>4. CASE /\ task[t].op = "again" /\ Goto(t, "suspend")
           /\ UNCHANGED <<lock, history>>
  <2>1. Continues(t, "suspend")
    BY <1>0, <1>4, GotoContinues
  <2>2. t \in sole => AchievedBy(t)'
    BY <1>0, <1>4 DEF GetState, At, Goto, Move, ControlOK, AchievedBy, store
  <2>3. "suspend" \in Pc /\ OnRoute(task[t].op, "suspend")
    BY <1>4 DEF Pc, OnRoute
  <2> QED BY <1>1, <1>4, <2>1, <2>2, <2>3, Continuing
<1> QED BY <1>2, <1>3, <1>4 DEF GetState

LEMMA Knowing ==
  ASSUME IInv, NEW t \in Tasks, NEW u \in 0..MaxUid, Knows(t, u),
         task[t].op = "create", pc[t] # "lock", TaskEffect(t),
         UNCHANGED <<lock, history>>
  PROVE  IInv'
<1>0. ControlOK
  BY TaskFacts
<1>1. Continues(t, "get_uid")
  BY <1>0, KnowsContinues
<1>2. AchievedBy(t)'
  BY <1>0, <1>1 DEF Continues, ControlOK, AchievedBy
<1>3. "get_uid" \in Pc /\ OnRoute(task[t].op, "get_uid")
  BY DEF Pc, OnRoute
<1> QED BY <1>1, <1>2, <1>3, Continuing

LEMMA CreateActorPreserves ==
  ASSUME IInv, NEW t \in Tasks, CreateActor(t)
  PROVE  IInv'
<1> DEFINE n == task[t].on
<1>0. /\ ControlOK /\ DataOK /\ OnRoute(task[t].op, pc[t])
      /\ task[t].op # "none" => task[t].on \in Names
  BY TaskFacts
<1>1. /\ task[t].op = "create" /\ pc[t] # "lock" /\ n \in Names
      /\ task[t].template \in Templates /\ actor[n] \in Actor
  BY <1>0 DEF CreateActor, At, OnRoute, ControlOK, TaskShape, DataOK
<1>2. CASE CanCreate(actor[n])
  <2>1. /\ Created(actor[n], task[t].template) \in Actor
        /\ Created(actor[n], task[t].template).state # "none"
        /\ actor[n].uid + 1 \in 0..MaxUid
    BY <1>1, <1>2, CreatedType
  <2>2. TaskEffect(t)
    BY <1>0, <1>1, <1>2, <2>1 DEF CreateActor, TaskEffect, OwnStore, ActorsStay,
         WritesAsCall, DataOK, WireShape, store, boot
  <2> QED BY <1>1, <1>2, <2>1, <2>2, Knowing DEF CreateActor
<1>3. CASE ~CanCreate(actor[n])
  <2>1. TaskEffect(t)
    BY <1>1, <1>3, OnlyControl DEF CreateActor, substrate
  <2>2. CASE Return(t, FALSE)
    BY <2>1, <2>2, Returning
  <2>3. CASE Goto(t, "check_template") /\ UNCHANGED <<lock, history>>
    <3>1. Continues(t, "check_template")
      BY <1>0, <2>3, GotoContinues
    <3>2. AchievedBy(t)'
      BY <1>0, <1>1, <2>3 DEF Goto, Move, ControlOK, AchievedBy
    <3>3. "check_template" \in Pc /\ OnRoute(task[t].op, "check_template")
      BY <1>1 DEF Pc, OnRoute
    <3> QED BY <1>1, <2>1, <2>3, <3>1, <3>2, <3>3, Continuing
  <2> QED BY <1>3, <2>2, <2>3 DEF CreateActor
<1> QED BY <1>2, <1>3

LEMMA CheckTemplatePreserves ==
  ASSUME IInv, NEW t \in Tasks, CheckTemplate(t)
  PROVE  IInv'
<1> DEFINE a == actor[task[t].on]
<1>0. /\ ControlOK /\ DataOK /\ OnRoute(task[t].op, pc[t])
      /\ task[t].op # "none" => task[t].on \in Names
  BY TaskFacts
<1>1. /\ task[t].op = "create" /\ pc[t] # "lock" /\ TaskEffect(t)
      /\ a.uid \in 0..MaxUid
  BY <1>0, OnlyControl DEF CheckTemplate, At, OnRoute, DataOK, Actor
<1>2. CASE Return(t, FALSE)
  BY <1>1, <1>2, Returning
<1>3. CASE Knows(t, a.uid) /\ UNCHANGED <<lock, history>>
  BY <1>1, <1>3, Knowing
<1> QED BY <1>2, <1>3 DEF CheckTemplate

LEMMA GetUidPreserves ==
  ASSUME IInv, NEW t \in Tasks, GetUid(t)
  PROVE  IInv'
<1> DEFINE n == task[t].on
           p == IF task[t].op = "create" /\ HasPolicy THEN "policy" ELSE "put"
<1>0. /\ ControlOK /\ DataOK /\ OnRoute(task[t].op, pc[t])
      /\ task[t].op # "none" => task[t].on \in Names
  BY TaskFacts
<1>1. /\ task[t].op \in {"create", "start"} /\ pc[t] # "lock" /\ TaskEffect(t)
      /\ actor[n].uid \in 0..MaxUid
  BY <1>0, OnlyControl DEF GetUid, At, OnRoute, DataOK, Actor
<1>2. CASE Return(t, FALSE)
  BY <1>1, <1>2, Returning
<1>3. CASE /\ task' = [task EXCEPT ![t].uid = actor[n].uid] /\ Move(t, p)
           /\ UNCHANGED <<lock, history>>
  <2>1. Continues(t, p)
    BY <1>0, <1>1, <1>3, UidContinues
  <2>2. AchievedBy(t)'
    BY <1>0, <1>1, <2>1 DEF Continues, ControlOK, AchievedBy
  <2>3. p \in Pc /\ OnRoute(task[t].op, p) /\ p # "lock"
    BY <1>1 DEF Pc, OnRoute
  <2> HIDE DEF p
  <2> QED BY <1>1, <1>3, <2>1, <2>2, <2>3, Continuing
<1> QED BY <1>2, <1>3 DEF GetUid

LEMMA CreatePolicyPreserves ==
  ASSUME IInv, NEW t \in Tasks, CreatePolicy(t)
  PROVE  IInv'
<1> DEFINE n == task[t].on
<1>0. /\ ControlOK /\ DataOK /\ OnRoute(task[t].op, pc[t])
      /\ task[t].op # "none" => task[t].on \in Names
  BY TaskFacts
<1>1. /\ task[t].op = "create" /\ pc[t] # "lock" /\ n \in Names
      /\ actor[n] \in Actor
  BY <1>0 DEF CreatePolicy, At, OnRoute, DataOK
<1>2. WithPolicy(actor[n]) \in Actor /\ WithPolicy(actor[n]).state = actor[n].state
  BY <1>1, PolicyType
<1>3. TaskEffect(t)
  BY <1>0, <1>1, <1>2 DEF CreatePolicy, TaskEffect, OwnStore, ActorsStay,
       WritesAsCall, DataOK, WireShape, store, boot
<1>4. CASE Return(t, FALSE)
  BY <1>3, <1>4, Returning
<1>5. CASE Goto(t, "put") /\ UNCHANGED <<lock, history>>
  <2>1. Continues(t, "put")
    BY <1>0, <1>5, GotoContinues
  <2>2. AchievedBy(t)'
    BY <1>0, <1>1, <1>5 DEF Goto, Move, ControlOK, AchievedBy
  <2>3. "put" \in Pc /\ OnRoute(task[t].op, "put")
    BY <1>1 DEF Pc, OnRoute
  <2> QED BY <1>1, <1>3, <1>5, <2>1, <2>2, <2>3, Continuing
<1> QED BY <1>4, <1>5 DEF CreatePolicy

LEMMA ServePreserves ==
  ASSUME IInv, NEW t \in Tasks, Serve(t)
  PROVE  IInv'
<1> DEFINE n == task[t].on
           rpc == pc[t]
<1>0. /\ ControlOK /\ DataOK /\ OnRoute(task[t].op, pc[t])
      /\ task[t].op # "none" => task[t].on \in Names
      /\ t \in sole => AchievedBy(t)
  BY TaskFacts
<1>1. /\ rpc \in LifecycleRpc /\ rpc # "lock" /\ task[t].op # "none"
      /\ n \in Names /\ actor[n] \in Actor
      /\ actor' = [actor EXCEPT ![n] = Moved(rpc, actor[n])]
      /\ UNCHANGED <<wire, store, listed, boot, faults>>
  BY <1>0 DEF Serve, OnRoute, LifecycleRpc, DataOK
<1>2. /\ Moved(rpc, actor[n]) \in Actor
      /\ actor[n].state # "none" => Moved(rpc, actor[n]).state # "none"
      /\ ~Runs(rpc, actor[n].state) => Moved(rpc, actor[n]) = actor[n]
  BY <1>1, MovedType
<1> HIDE DEF rpc
<1>3. TaskEffect(t)
  BY <1>0, <1>1, <1>2 DEF TaskEffect, OwnStore, ActorsStay,
       WritesAsCall, DataOK, WireShape, store, boot
<1> USE DEF rpc
<1>4. CASE /\ Goto(t, Via[rpc]) /\ UNCHANGED <<lock, history>>
  <2>0. /\ Via[rpc] \in Pc /\ OnRoute(task[t].op, Via[rpc]) /\ Via[rpc] # "lock"
        /\ task[t].op = "stop" => Via[rpc] \in {"suspending", "reverting"}
                                    /\ pc[t] \in {"suspend", "revert"}
        /\ task[t].op = "again" => Via[rpc] = "suspending"
        /\ task[t].op \in {"start", "create"} =>
             Via[rpc] = "resuming" /\ pc[t] = "resume"
        /\ task[t].op = "delete" => Via[rpc] = "deleting"
    BY <1>0, <1>1 DEF Via, LifecycleRpc, OnRoute, Pc
  <2> DEFINE p == Via[rpc]
  <2>1. p \in Pc /\ OnRoute(task[t].op, p) /\ p # "lock"
    BY <2>0
  <2>2. Continues(t, p)
    BY <1>0, <1>4, GotoContinues
  <2>3. pc'[t] = p /\ task' = task
    BY <1>0, <1>4 DEF Goto, Move, ControlOK
  <2> HIDE DEF p
  <2>4. t \in sole => AchievedBy(t)'
    <3>1. p = Via[rpc]
      BY DEF p
    <3> QED BY <1>0, <1>1, <2>0, <2>3, <3>1 DEF AchievedBy, store
  <2> QED BY <1>1, <1>3, <1>4, <2>1, <2>2, <2>4, Continuing
<1>5. CASE /\ ~Runs(rpc, actor[n].state) /\ Done(rpc, actor[n].state)
           /\ Answered(t)
  <2>1. task[t].op = "stop" => actor'[n].state # "none"
    BY <1>0, <1>1, <1>2, <1>5 DEF OnRoute, LifecycleRpc, Done, Goal, DataOK
  <2> QED BY <1>1, <1>3, <1>5, <2>1, Answering DEF store
<1>6. CASE GiveUp(t)
  BY <1>1, <1>3, <1>6, GivingUp
<1> QED BY <1>4, <1>5, <1>6 DEF Serve

LEMMA ReplyPreserves ==
  ASSUME IInv, NEW t \in Tasks, Reply(t)
  PROVE  IInv'
<1>0. /\ ControlOK /\ DataOK /\ OnRoute(task[t].op, pc[t])
      /\ task[t].op # "none" => task[t].on \in Names
  BY TaskFacts
<1>1. TaskEffect(t) /\ pc[t] \in Moving /\ pc[t] # "lock"
  BY <1>0, OnlyControl DEF Reply, OnRoute, Moving
<1>2. CASE actor[task[t].on].state = Settled[pc[t]] /\ Answered(t)
  <2>1. task[t].op = "stop" => actor'[task[t].on].state # "none"
    BY <1>0, <1>1, <1>2 DEF Reply, OnRoute, Moving, Settled, substrate
  <2> QED BY <1>1, <1>2, <2>1, Answering DEF Reply, store
<1>3. CASE GiveUp(t)
  BY <1>1, <1>3, GivingUp
<1> QED BY <1>2, <1>3 DEF Reply

-----------------------------------------------------------------------------
(* Failures of a call                                                      *)

LEMMA LostType ==
  ASSUME ControlOK, NEW t \in Tasks
  PROVE  \A r \in Lost(t) :
           r \in Request /\ (r.rpc = "create" => r.template \in Templates)
<1>1. CASE pc[t] \in LifecycleRpc \cup {"create", "policy"}
  <2>1. /\ task[t].on \in Names /\ task[t].template \in Templates \cup {None}
        /\ pc[t] = "create" => task[t].template \in Templates
    BY <1>1 DEF ControlOK, TaskShape, OnRoute, LifecycleRpc, Task
  <2> QED BY <1>1, <2>1 DEF Lost, Request
<1>2. CASE pc[t] \notin LifecycleRpc \cup {"create", "policy"}
  BY <1>2 DEF Lost
<1> QED BY <1>1, <1>2

LEMMA LateType ==
  ASSUME ControlOK, DataOK, NEW t \in Tasks, NEW late \in SUBSET Lost(t),
         wire' = wire \cup late
  PROVE  wire' \subseteq Request /\ WireShape'
BY LostType DEF DataOK, WireShape

LEMMA FailureEffect ==
  ASSUME IInv, NEW t \in Tasks, task[t].op # "none", Fault,
         \/ UNCHANGED wire
         \/ \E late \in SUBSET Lost(t) : wire' = wire \cup late,
         UNCHANGED <<actor, store, listed, boot>>
  PROVE  TaskEffect(t)
<1>0. ControlOK /\ DataOK
  BY TaskFacts
<1>1. wire' \subseteq Request /\ WireShape'
  BY <1>0, LateType DEF DataOK, WireShape
<1>2. faults' \in 0..MaxFaults
  BY <1>0 DEF Fault, DataOK
<1> QED BY <1>0, <1>1, <1>2 DEF TaskEffect, OwnStore, ActorsStay,
      WritesAsCall, DataOK, store, boot

LEMMA RpcErrorPreserves ==
  ASSUME IInv, NEW t \in Tasks, RpcError(t)
  PROVE  IInv'
<1>0. OnRoute(task[t].op, pc[t])
  BY TaskFacts
<1>1. task[t].op # "none" /\ pc[t] # "lock"
  BY <1>0 DEF RpcError, RpcPc, LifecycleRpc, Moving, OnRoute
<1>2. TaskEffect(t)
  BY <1>1, FailureEffect DEF RpcError
<1> QED BY <1>1, <1>2, GivingUp DEF RpcError

LEMMA IoErrorPreserves ==
  ASSUME IInv, NEW t \in Tasks, IoError(t)
  PROVE  IInv'
<1>0. OnRoute(task[t].op, pc[t])
  BY TaskFacts
<1>1. task[t].op # "none"
  BY <1>0 DEF IoError, OnRoute
<1>2. TaskEffect(t)
  BY <1>1, FailureEffect DEF IoError, substrate
<1> QED BY <1>2, Returning DEF IoError

LEMMA CancelPreserves ==
  ASSUME IInv, NEW t \in Tasks, Cancel(t)
  PROVE  IInv'
<1>0. OnRoute(task[t].op, pc[t])
  BY TaskFacts
<1>1. task[t].op # "none"
  BY <1>0 DEF Cancel, RpcPc, LifecycleRpc, Moving, OnRoute
<1>2. TaskEffect(t)
  BY <1>1, FailureEffect DEF Cancel
<1> QED BY <1>2, Returning DEF Cancel

-----------------------------------------------------------------------------
(* The lock                                                                *)

LEMMA AcquirePreserves ==
  ASSUME IInv, NEW t \in Tasks, Acquire(t)
  PROVE  IInv'
<1> DEFINE n == task[t].on
           p == BehindLock[task[t].op]
<1>0. /\ ControlOK /\ DataOK /\ OnRoute(task[t].op, pc[t])
      /\ task[t].op # "none" => task[t].on \in Names
  BY TaskFacts
<1>1. /\ task[t].op \in {"start", "stop", "again"} /\ pc[t] = "lock"
      /\ n \in Names
  BY <1>0 DEF Acquire, At, OnRoute
<1>2. p \in Pc /\ OnRoute(task[t].op, p) /\ p \in {"get_uid", "get_state", "check"}
      /\ (task[t].op = "again" => p = "check")
  BY <1>1 DEF BehindLock, Pc, OnRoute
<1>3. TaskEffect(t)
  BY <1>1, OnlyControl DEF Acquire
<1> HIDE DEF p
<1>4. /\ lock[n] = None /\ lock' = [lock EXCEPT ![n] = t]
      /\ Goto(t, p) /\ UNCHANGED <<sole, answer, server, live, reaped>>
  BY DEF Acquire, p, history, boot
<1>5. ControlOK'
  BY <1>0, <1>1, <1>2, <1>4 DEF ControlOK, Goto, Move, TaskShape
<1>6. TypeInv'
  BY <1>3, <1>5, HalvesNext DEF TaskEffect
<1>7. /\ task' = task
      /\ \A u \in Tasks : pc'[u] = IF u = t THEN p ELSE pc[u]
  BY <1>0, <1>4 DEF Goto, Move, ControlOK
<1>8. Exclusion'
  <2> SUFFICES ASSUME NEW u \in Tasks, Locking(u)' PROVE (lock[task[u].on] = u)'
    BY DEF Exclusion
  <2>1. CASE u = t
    BY <1>0, <1>1, <1>4, <1>7, <2>1 DEF ControlOK
  <2>2. CASE u # t
    <3>1. lock[task[u].on] = u /\ task[u].on \in Names
      BY <1>0, <1>7, <2>2 DEF IInv, Exclusion, Locking, ControlOK, TaskShape
    <3>2. task[u].on # n
      BY <1>4, <3>1, NoneAssumption
    <3> QED BY <1>0, <1>4, <1>7, <3>1, <3>2 DEF ControlOK
  <2> QED BY <2>1, <2>2
<1>9. Quiet' /\ Reaping' /\ Undisturbed'
  BY <1>3, <1>4, <1>7 DEF IInv, Quiet, Reaping, Undisturbed, TaskEffect
<1>10. Achieved'
  <2> SUFFICES ASSUME NEW u \in sole' PROVE AchievedBy(u)'
    BY DEF Achieved
  <2>1. CASE u = t
    BY <1>1, <1>2, <1>7, <2>1 DEF AchievedBy
  <2>2. CASE u # t
    BY <1>0, <1>3, <1>4, <1>7, <2>2, AchievedStays DEF ControlOK
  <2> QED BY <2>1, <2>2
<1>11. Settledness'
  <2> SUFFICES ASSUME NEW m \in Names PROVE Assured(m)'
    BY DEF Settledness
  <2> QED BY <1>3, <1>4, <1>7, AssuredStays
<1> QED BY <1>6, <1>8, <1>9, <1>10, <1>11 DEF IInv

-----------------------------------------------------------------------------
(* The beginning of a task                                                 *)

LEMMA BeginType ==
  ASSUME ControlOK, NEW t \in Tasks, NEW op \in TaskOp, NEW n \in Names,
         NEW tm \in Templates \cup {None}, NEW p \in Pc, Begin(t, op, n, tm, p),
         OnRoute(op, p), op = "create" => tm \in Templates,
         UNCHANGED lock, answer' \in [Names -> Answer]
  PROVE  /\ ControlOK'
         /\ \A u \in Tasks : u # t => task'[u] = task[u] /\ pc'[u] = pc[u]
         /\ task'[t].op = op /\ task'[t].on = n /\ pc'[t] = p
<1> DEFINE r == [op |-> op, on |-> n, template |-> tm, crashed |-> FALSE,
                 uid |-> 0, known |-> 0]
<1>1. r \in Task
  BY DEF Task
<1>2. /\ r.op = op /\ r.on = n /\ r.template = tm
      /\ task' = [task EXCEPT ![t] = r] /\ pc' = [pc EXCEPT ![t] = p]
  BY DEF Begin, Move
<1> HIDE DEF r
<1>3. pc' \in [Tasks -> Pc] /\ task' \in [Tasks -> Task]
  BY <1>1, <1>2 DEF ControlOK
<1>4. sole' \subseteq Tasks
  BY DEF Begin, ControlOK
<1>5. /\ \A u \in Tasks : u # t => task'[u] = task[u] /\ pc'[u] = pc[u]
      /\ task'[t] = r /\ pc'[t] = p
  BY <1>2 DEF ControlOK
<1>6. TaskShape'
  BY <1>2, <1>5 DEF ControlOK, TaskShape, TaskOp, CallOp
<1> QED BY <1>2, <1>3, <1>4, <1>5, <1>6 DEF ControlOK

LEMMA CallPreserves ==
  ASSUME IInv, NEW t \in Calls, NEW op \in CallOp, NEW n \in Names,
         NEW tm \in Templates \cup {None}, op = "create" => tm \in Templates,
         Call(t, op, n, tm)
  PROVE  IInv'
<1>0. /\ ControlOK /\ DataOK /\ t \in Tasks /\ op \in TaskOp
      /\ OnRoute(task[t].op, pc[t])
  BY TaskFacts DEF Tasks, TaskOp
<1>1. /\ server = "serving" /\ pc[t] = "idle" /\ Admits(op, n)
      /\ Begin(t, op, n, tm, First[op])
      /\ answer' = [answer EXCEPT ![n] = Asked[op]]
      /\ UNCHANGED <<actor, wire, file, bundle, mark, stopped, lock, listed,
                     server, live, reaped, faults>>
  BY DEF Call, At, substrate, store, boot
<1>2. /\ First[op] \in Pc /\ OnRoute(op, First[op])
      /\ First[op] \in {"lock", "create", "delete"}
      /\ op \in {"start", "stop"} => First[op] = "lock"
      /\ Asked[op] \in {"new", "unknown", "deleting"}
      /\ op = "create" => Asked[op] = "new"
      /\ op = "delete" => Asked[op] = "deleting"
  BY DEF First, Asked, Pc, OnRoute, CallOp
<1>3. answer' \in [Names -> Answer]
  BY <1>0, <1>1, <1>2 DEF ControlOK, Answer
<1>4. /\ ControlOK'
      /\ \A u \in Tasks : u # t => task'[u] = task[u] /\ pc'[u] = pc[u]
      /\ task'[t].op = op /\ task'[t].on = n /\ pc'[t] = First[op]
  BY <1>0, <1>1, <1>2, <1>3, BeginType
<1>5. DataOK'
  BY <1>0, <1>1 DEF DataOK, WireShape
<1>6. TypeInv'
  BY <1>4, <1>5, HalvesNext
<1>7. task[t].op = "none" /\ t \notin sole
  BY <1>0, <1>1 DEF OnRoute, IInv, Undisturbed
<1>8. Exclusion'
  <2> SUFFICES ASSUME NEW u \in Tasks, Locking(u)' PROVE (lock[task[u].on] = u)'
    BY DEF Exclusion
  <2>1. CASE u = t
    BY <1>2, <1>4, <2>1 DEF Locking, CallOp
  <2>2. CASE u # t
    BY <1>1, <1>4, <2>2 DEF Locking, IInv, Exclusion
  <2> QED BY <2>1, <2>2
<1>9. Quiet' /\ Reaping'
  BY <1>1 DEF IInv, Quiet, Reaping
<1>10. \A u \in sole' : u # t => u \in sole /\ (task[u].on = n =>
         op \in {"start", "stop"} /\ task[u].op \in {"start", "stop", "again"})
  <2> SUFFICES ASSUME NEW u \in sole', u # t
               PROVE  u \in sole /\ (task[u].on = n =>
                        /\ op \in {"start", "stop"}
                        /\ task[u].op \in {"start", "stop", "again"})
    OBVIOUS
  <2>1. u \in sole /\ u \in Tasks /\ task[u].op \in TaskOp
    BY <1>0, <1>1 DEF Begin, ControlOK, IInv, Undisturbed, Task
  <2>2. ASSUME task[u].on = n PROVE op \in {"start", "stop"}
    BY <1>1, <2>1, <2>2 DEF Begin, Active, CallOp
  <2>3. ASSUME task[u].on = n PROVE task[u].op \notin {"create", "delete"}
    BY <1>1, <2>1, <2>2, <2>3 DEF Admits, IInv, Undisturbed
  <2> QED BY <2>1, <2>2, <2>3 DEF TaskOp, CallOp
<1>11. t \in sole' => \A u \in Tasks \ {t} : task[u].on = n =>
          /\ task[u].op \notin {"create", "delete"}
          /\ op \in {"create", "delete"} => task[u].op \notin CallOp
  BY <1>1, <1>7 DEF Begin, Alone, Active, CallOp
<1>12. Undisturbed'
  <2> SUFFICES ASSUME NEW u \in sole'
               PROVE
    /\ task'[u].op # "none"
    /\ task'[u].op = "create" => answer'[task'[u].on] = "new"
    /\ task'[u].op = "delete" => answer'[task'[u].on] = "deleting"
    /\ \A v \in Tasks \ {u} : task'[v].on = task'[u].on =>
         /\ task'[v].op \notin {"create", "delete"}
         /\ task'[u].op \in {"create", "delete"} => task'[v].op \notin CallOp
    BY DEF Undisturbed
  <2>0. u \in Tasks
    BY <1>4 DEF ControlOK
  <2>1. CASE u = t
    <3>1. answer'[n] = Asked[op]
      BY <1>0, <1>1 DEF ControlOK
    <3>2. task'[t].op # "none"
      BY <1>4 DEF CallOp
    <3> QED BY <1>2, <1>4, <1>11, <2>1, <3>1, <3>2
  <2>2. CASE u # t
    <3>1. /\ u \in sole /\ task'[u] = task[u] /\ task[u].op # "none"
          /\ task[u].on \in Names
      BY <1>0, <1>4, <1>10, <2>0, <2>2 DEF IInv, Undisturbed, ControlOK, TaskShape
    <3>2. task[u].on # n => answer'[task[u].on] = answer[task[u].on]
      BY <1>0, <1>1, <3>1 DEF ControlOK
    <3>3. task[u].op = "create" => answer'[task[u].on] = "new"
      BY <1>10, <2>2, <3>1, <3>2 DEF IInv, Undisturbed
    <3>4. task[u].op = "delete" => answer'[task[u].on] = "deleting"
      BY <1>10, <2>2, <3>1, <3>2 DEF IInv, Undisturbed
    <3>5. ASSUME NEW v \in Tasks \ {u}, task'[v].on = task[u].on
          PROVE  /\ task'[v].op \notin {"create", "delete"}
                 /\ task[u].op \in {"create", "delete"} => task'[v].op \notin CallOp
      <4>1. CASE v = t
        BY <1>4, <1>10, <2>2, <3>1, <3>5, <4>1
      <4>2. CASE v # t
        BY <1>4, <3>1, <3>5, <4>2 DEF IInv, Undisturbed
      <4> QED BY <4>1, <4>2
    <3> QED BY <3>1, <3>3, <3>4, <3>5
  <2> QED BY <2>1, <2>2
<1>13. Achieved'
  <2> SUFFICES ASSUME NEW u \in sole' PROVE AchievedBy(u)'
    BY DEF Achieved
  <2>1. CASE u = t
    BY <1>2, <1>4, <2>1 DEF AchievedBy, CallOp
  <2>2. CASE u # t
    <3>1. u \in Tasks /\ AchievedBy(u)
      BY <1>4, <1>10, <2>2 DEF ControlOK, IInv, Achieved
    <3> QED BY <1>1, <1>4, <2>2, <3>1 DEF AchievedBy
  <2> QED BY <2>1, <2>2
<1>14. Settledness'
  <2> SUFFICES ASSUME NEW m \in Names PROVE Assured(m)'
    BY DEF Settledness
  <2>1. CASE m = n
    <3>1. answer'[m] \in {"new", "unknown", "deleting"}
      BY <1>0, <1>1, <1>2, <2>1 DEF ControlOK
    <3> QED BY <3>1 DEF Assured
  <2>2. CASE m # n
    <3>1. answer'[m] = answer[m] /\ Assured(m)
      BY <1>0, <1>1, <2>2 DEF ControlOK, IInv, Settledness
    <3>2. \A u \in Tasks : task'[u].on = m => task'[u] = task[u]
      BY <1>4, <2>2
    <3> QED BY <1>1, <3>1, <3>2 DEF Assured
  <2> QED BY <2>1, <2>2
<1> QED BY <1>6, <1>8, <1>9, <1>12, <1>13, <1>14 DEF IInv

LEMMA SpawnAgainPreserves ==
  ASSUME IInv, NEW t \in Tasks, NEW n \in Names, SpawnAgain(t, n)
  PROVE  IInv'
<1>0. /\ ControlOK /\ DataOK /\ OnRoute(task[t].op, pc[t])
  BY TaskFacts
<1>1. /\ pc[t] = "idle" /\ Begin(t, "again", n, None, "lock")
      /\ listed' \subseteq listed /\ listed # {}
      /\ UNCHANGED <<actor, wire, file, bundle, mark, stopped, lock,
                     server, live, reaped, answer, faults>>
  BY DEF SpawnAgain, At, substrate, store, boot
<1>2. /\ "lock" \in Pc /\ OnRoute("again", "lock") /\ "again" \in TaskOp
      /\ None \in Templates \cup {None}
  BY DEF Pc, OnRoute, TaskOp
<1>3. answer' \in [Names -> Answer]
  BY <1>0, <1>1 DEF ControlOK
<1>4. /\ ControlOK'
      /\ \A u \in Tasks : u # t => task'[u] = task[u] /\ pc'[u] = pc[u]
      /\ task'[t].op = "again" /\ task'[t].on = n /\ pc'[t] = "lock"
  BY <1>0, <1>1, <1>2, <1>3, BeginType
<1>5. DataOK'
  BY <1>0, <1>1 DEF DataOK, WireShape
<1>6. TypeInv'
  BY <1>4, <1>5, HalvesNext
<1>7. task[t].op = "none" /\ t \notin sole
  BY <1>0, <1>1 DEF OnRoute, IInv, Undisturbed
<1>8. Exclusion'
  BY <1>1, <1>4 DEF Locking, IInv, Exclusion
<1>9. Quiet' /\ Reaping'
  BY <1>1 DEF IInv, Quiet, Reaping
<1>10. \A u \in sole' : u # t => u \in sole
  BY <1>1 DEF Begin
<1>11. t \in sole' => \A u \in Tasks : task[u].on = n =>
          task[u].op \notin {"create", "delete"}
  BY <1>1, <1>7 DEF Begin, Alone, Active
<1>12. Undisturbed'
  <2> SUFFICES ASSUME NEW u \in sole'
               PROVE
    /\ task'[u].op # "none"
    /\ task'[u].op = "create" => answer[task'[u].on] = "new"
    /\ task'[u].op = "delete" => answer[task'[u].on] = "deleting"
    /\ \A v \in Tasks \ {u} : task'[v].on = task'[u].on =>
         /\ task'[v].op \notin {"create", "delete"}
         /\ task'[u].op \in {"create", "delete"} => task'[v].op \notin CallOp
    BY <1>1 DEF Undisturbed
  <2>0. u \in Tasks
    BY <1>4 DEF ControlOK
  <2>1. CASE u = t
    BY <1>4, <1>11, <2>1
  <2>2. CASE u # t
    <3>1. u \in sole /\ task'[u] = task[u]
      BY <1>4, <1>10, <2>0, <2>2
    <3>2. \A v \in Tasks \ {u} : task'[v].on = task[u].on =>
            \/ task'[v].op = "again"
            \/ task'[v] = task[v]
      BY <1>4
    <3> QED BY <3>1, <3>2 DEF IInv, Undisturbed, CallOp
  <2> QED BY <2>1, <2>2
<1>13. Achieved'
  <2> SUFFICES ASSUME NEW u \in sole' PROVE AchievedBy(u)'
    BY DEF Achieved
  <2>1. CASE u = t
    BY <1>4, <2>1 DEF AchievedBy
  <2>2. CASE u # t
    BY <1>1, <1>4, <1>10, <2>2 DEF AchievedBy, ControlOK, IInv, Achieved
  <2> QED BY <2>1, <2>2
<1>14. Settledness'
  <2> SUFFICES ASSUME NEW m \in Names PROVE Assured(m)'
    BY DEF Settledness
  <2>1. Assured(m)
    BY DEF IInv, Settledness
  <2>2. \A u \in Tasks : task'[u].on = m => u = t \/ task'[u] = task[u]
    BY <1>4
  <2> QED BY <1>1, <1>4, <2>1, <2>2 DEF Assured, CallOp
<1> QED BY <1>6, <1>8, <1>9, <1>12, <1>13, <1>14 DEF IInv

-----------------------------------------------------------------------------
(* The process and the environment                                         *)

(* No task moves.                                                          *)
Still == UNCHANGED <<lock, pc, task, sole>>

LEMMA StillControl ==
  ASSUME IInv, Still, answer' \in [Names -> Answer], DataOK'
  PROVE  TypeInv' /\ Exclusion' /\ DataOK /\ ControlOK
<1>1. ControlOK /\ DataOK
  BY Halves DEF IInv
<1>2. ControlOK'
  BY <1>1 DEF ControlOK, Still, TaskShape
<1>3. Exclusion'
  BY DEF IInv, Exclusion, Locking, Still
<1> QED BY <1>1, <1>2, <1>3, HalvesNext

(* While the driver does not serve, no task is sole.                       *)
LEMMA StillDown ==
  ASSUME IInv, server # "serving", Still
  PROVE  /\ sole = {} /\ listed = {} /\ \A t \in Tasks : task[t].op = "none"
         /\ Undisturbed' /\ Achieved'
<1>1. \A t \in Tasks : task[t].op = "none"
  BY DEF IInv, Quiet
<1>2. sole = {}
  BY <1>1 DEF IInv, Undisturbed, TypeInv, TypeOK
<1> QED BY <1>1, <1>2 DEF Still, Undisturbed, Achieved, IInv, Quiet

(* The watch loop only looks.                                              *)
LEMMA WatchPreserves ==
  ASSUME IInv, Poll \/ \E n \in Names : PassOver(n)
  PROVE  IInv'
<1>1. /\ Still
      /\ UNCHANGED <<actor, wire, file, bundle, mark, stopped, server, live,
                     reaped, answer, faults>>
  BY DEF Poll, PassOver, Still, substrate, store, boot, history
<1>2. DataOK /\ ControlOK
  BY Halves DEF IInv
<1>3. listed' \subseteq Names
  BY <1>2 DEF Poll, PassOver, DataOK
<1>4. DataOK' /\ answer' \in [Names -> Answer]
  BY <1>1, <1>2, <1>3 DEF DataOK, WireShape, ControlOK
<1>5. TypeInv' /\ Exclusion'
  BY <1>1, <1>4, StillControl
<1>6. Quiet'
  BY <1>1 DEF IInv, Quiet, Poll, PassOver, Still
<1>7. Reaping' /\ Undisturbed'
  BY <1>1 DEF IInv, Reaping, Undisturbed, Still
<1>8. Achieved'
  BY <1>1 DEF IInv, Achieved, AchievedBy, Still
<1>9. Settledness'
  BY <1>1 DEF IInv, Settledness, Assured, Still
<1> QED BY <1>5, <1>6, <1>7, <1>8, <1>9 DEF IInv

LEMMA CrashPreserves ==
  ASSUME IInv, Crash
  PROVE  IInv'
<1>0. DataOK /\ ControlOK
  BY Halves DEF IInv
<1>1. /\ UNCHANGED <<actor, file, mark, answer>>
      /\ server' = "down" /\ listed' = {} /\ live' = {} /\ reaped' = {}
      /\ sole' = {} /\ stopped' = {}
      /\ bundle' = [n \in Names |-> 0] /\ lock' = [n \in Names |-> None]
      /\ pc' = [t \in Tasks |-> "idle"] /\ task' = [t \in Tasks |-> Idle]
  BY DEF Crash
<1>2. wire' \subseteq Request /\ WireShape'
  <2>1. PICK late \in SUBSET UNION {Lost(t) : t \in Tasks} : wire' = wire \cup late
    BY DEF Crash
  <2>2. \A r \in late : \E t \in Tasks : r \in Lost(t)
    OBVIOUS
  <2>3. \A r \in late : r \in Request /\ (r.rpc = "create" => r.template \in Templates)
    BY <1>0, <2>2, LostType
  <2> QED BY <1>0, <2>1, <2>3 DEF DataOK, WireShape
<1>3. DataOK'
  BY <1>0, <1>1, <1>2 DEF DataOK, Crash, Fault
<1>4. /\ Idle \in Task /\ Idle.op = "none" /\ Idle.on = None
  BY DEF Idle, Task, TaskOp
<1>5. \A t \in Tasks : task'[t] = Idle /\ pc'[t] = "idle"
  BY <1>1
<1>6. ControlOK'
  <2>1. task' \in [Tasks -> Task]
    BY <1>1, <1>4
  <2>2. TaskShape'
    BY <1>4, <1>5 DEF TaskShape, OnRoute
  <2> QED BY <1>0, <1>1, <2>1, <2>2 DEF ControlOK, Pc
<1>7. TypeInv'
  BY <1>3, <1>6, HalvesNext
<1>8. Exclusion' /\ Quiet'
  BY <1>1, <1>4, <1>5 DEF Exclusion, Locking, Quiet
<1>9. Reaping' /\ Undisturbed' /\ Achieved'
  BY <1>1 DEF Reaping, Undisturbed, Achieved
<1>10. Settledness'
  <2> SUFFICES ASSUME NEW n \in Names PROVE Assured(n)'
    BY DEF Settledness
  <2>1. Assured(n) /\ bundle'[n] = 0
    BY <1>1 DEF IInv, Settledness
  <2>2. \A t \in Tasks : task'[t].on # n
    BY <1>4, <1>5
  <2> QED BY <1>1, <2>1, <2>2 DEF Assured
<1> QED BY <1>7, <1>8, <1>9, <1>10 DEF IInv

LEMMA OpenPreserves ==
  ASSUME IInv, Open
  PROVE  IInv'
<1>1. /\ Still /\ server = "down" /\ server' = "opened"
      /\ bundle' = file /\ stopped' = mark
      /\ UNCHANGED <<actor, wire, file, mark, listed, live, reaped, answer,
                     faults>>
  BY DEF Open, Still, substrate, history
<1>2. DataOK /\ ControlOK
  BY Halves DEF IInv
<1>3. DataOK' /\ answer' \in [Names -> Answer]
  BY <1>1, <1>2 DEF DataOK, WireShape, ControlOK
<1>4. TypeInv' /\ Exclusion'
  BY <1>1, <1>3, StillControl
<1>5. Quiet' /\ Reaping'
  BY <1>1 DEF IInv, Quiet, Reaping, Still
<1>6. Undisturbed' /\ Achieved'
  BY <1>1, StillDown
<1>7. Settledness'
  BY <1>1 DEF IInv, Settledness, Assured, Still
<1> QED BY <1>4, <1>5, <1>6, <1>7 DEF IInv

LEMMA ReapListPreserves ==
  ASSUME IInv, ReapList
  PROVE  IInv'
<1>1. /\ Still /\ server = "opened" /\ server' = "reaping"
      /\ live' = {n \in Names : actor[n].state # "none"}
      /\ UNCHANGED <<actor, wire, file, bundle, mark, stopped, listed, reaped,
                     answer, faults>>
  BY DEF ReapList, Still, substrate, store, history
<1>2. DataOK /\ ControlOK
  BY Halves DEF IInv
<1>3. DataOK' /\ answer' \in [Names -> Answer]
  BY <1>1, <1>2 DEF DataOK, WireShape, ControlOK
<1>4. TypeInv' /\ Exclusion'
  BY <1>1, <1>3, StillControl
<1>5. Quiet' /\ Reaping'
  BY <1>1 DEF IInv, Quiet, Reaping, Still
<1>6. Undisturbed' /\ Achieved'
  BY <1>1, StillDown
<1>7. Settledness'
  BY <1>1 DEF IInv, Settledness, Assured, Still
<1> QED BY <1>4, <1>5, <1>6, <1>7 DEF IInv

(* A bundle that is reaped is none of a sandbox that is stopped, a mark    *)
(* that is removed neither: those are of live actors.                      *)
LEMMA ReapBundlePreserves ==
  ASSUME IInv, NEW n \in Names, ReapBundle(n)
  PROVE  IInv'
<1>1. /\ Still /\ server = "reaping" /\ n \notin live
      /\ bundle' = [bundle EXCEPT ![n] = 0]
      /\ reaped' = reaped \cup {n}
      /\ UNCHANGED <<actor, wire, file, mark, stopped, listed, server, live,
                     answer, faults>>
  BY DEF ReapBundle, Orphans, Still, substrate, history
<1>2. DataOK /\ ControlOK
  BY Halves DEF IInv
<1>3. DataOK' /\ answer' \in [Names -> Answer]
  BY <1>1, <1>2 DEF DataOK, WireShape, ControlOK
<1>4. TypeInv' /\ Exclusion'
  BY <1>1, <1>3, StillControl
<1>5. Quiet' /\ Reaping'
  BY <1>1 DEF IInv, Quiet, Reaping, Still
<1>6. Undisturbed' /\ Achieved'
  BY <1>1, StillDown
<1>7. \A m \in Names : bundle[m] = 0 => bundle'[m] = 0
  BY <1>1, <1>2 DEF DataOK
<1>8. Settledness'
  BY <1>1, <1>7 DEF IInv, Settledness, Assured, Still
<1> QED BY <1>4, <1>5, <1>6, <1>8 DEF IInv

LEMMA ReapFilePreserves ==
  ASSUME IInv, NEW n \in Names, ReapFile(n)
  PROVE  IInv'
<1>1. /\ Still /\ server = "reaping"
      /\ file' = [file EXCEPT ![n] = 0]
      /\ UNCHANGED <<actor, wire, bundle, mark, stopped, listed, server, live,
                     reaped, answer, faults>>
  BY DEF ReapFile, Still, substrate, boot, history
<1>2. DataOK /\ ControlOK
  BY Halves DEF IInv
<1>3. DataOK' /\ answer' \in [Names -> Answer]
  BY <1>1, <1>2 DEF DataOK, WireShape, ControlOK
<1>4. TypeInv' /\ Exclusion'
  BY <1>1, <1>3, StillControl
<1>5. Quiet' /\ Reaping'
  BY <1>1 DEF IInv, Quiet, Reaping, Still
<1>6. Undisturbed' /\ Achieved'
  BY <1>1, StillDown
<1>7. \A m \in Names : file[m] = 0 => file'[m] = 0
  BY <1>1, <1>2 DEF DataOK
<1>8. Settledness'
  BY <1>1, <1>7 DEF IInv, Settledness, Assured, Still
<1> QED BY <1>4, <1>5, <1>6, <1>8 DEF IInv

LEMMA ReapMarkPreserves ==
  ASSUME IInv, NEW n \in Names, ReapMark(n)
  PROVE  IInv'
<1>1. /\ Still /\ server = "reaping" /\ n \in reaped
      /\ mark' = mark \ {n}
      /\ UNCHANGED <<actor, wire, file, bundle, stopped, listed, server, live,
                     reaped, answer, faults>>
  BY DEF ReapMark, Still, substrate, boot, history
<1>2. DataOK /\ ControlOK
  BY Halves DEF IInv
<1>3. DataOK' /\ answer' \in [Names -> Answer]
  BY <1>1, <1>2 DEF DataOK, WireShape, ControlOK
<1>4. TypeInv' /\ Exclusion'
  BY <1>1, <1>3, StillControl
<1>5. Quiet' /\ Reaping'
  BY <1>1 DEF IInv, Quiet, Reaping, Still
<1>6. Undisturbed' /\ Achieved'
  BY <1>1, StillDown
<1>7. n \notin live
  BY <1>1 DEF IInv, Reaping
<1>8. Settledness'
  BY <1>1, <1>7 DEF IInv, Settledness, Assured, Still
<1> QED BY <1>4, <1>5, <1>6, <1>8 DEF IInv

LEMMA ServingPreserves ==
  ASSUME IInv, ReapDone \/ ReapFails
  PROVE  IInv'
<1>1. /\ Still /\ server \in {"opened", "reaping"} /\ server' = "serving"
      /\ live' = {} /\ reaped' = {} /\ stopped' \subseteq stopped
      /\ server = "opened" => stopped' = stopped
      /\ stopped \ reaped \subseteq stopped'
      /\ UNCHANGED <<actor, wire, file, bundle, mark, listed, answer>>
  BY DEF ReapDone, ReapFails, Serving, Still, substrate, store, history
<1>2. DataOK /\ ControlOK
  BY Halves DEF IInv
<1>3. faults' \in 0..MaxFaults
  BY <1>2 DEF ReapDone, ReapFails, Fault, DataOK
<1>4. DataOK' /\ answer' \in [Names -> Answer]
  BY <1>1, <1>2, <1>3 DEF DataOK, WireShape, ControlOK
<1>5. TypeInv' /\ Exclusion'
  BY <1>1, <1>4, StillControl
<1>6. Quiet' /\ Reaping'
  BY <1>1 DEF IInv, Quiet, Reaping, Still
<1>7. Undisturbed' /\ Achieved'
  BY <1>1, StillDown
<1>8. Settledness'
  <2> SUFFICES ASSUME NEW n \in Names PROVE Assured(n)'
    BY DEF Settledness
  <2>1. Assured(n) /\ (answer[n] = "stopped" => n \in stopped')
    BY <1>1 DEF IInv, Settledness, Assured, Reaping
  <2> QED BY <1>1, <2>1 DEF Assured, Still
<1> QED BY <1>5, <1>6, <1>7, <1>8 DEF IInv

(* The environment moves actors and takes none away unasked.               *)
LEMMA EnvironmentPreserves ==
  ASSUME IInv, Environment, DataOK', answer' \in [Names -> Answer],
         \A m \in Names :
           \/ answer'[m] = answer[m]
                /\ (actor[m].state # "none" => actor'[m].state # "none")
           \/ answer[m] \in {"started", "stopped"} /\ answer'[m] = "unknown"
           \/ answer[m] \notin {"started", "stopped"} /\ answer'[m] = answer[m]
  PROVE  IInv'
<1>1. /\ Still
      /\ UNCHANGED <<file, bundle, mark, stopped, listed, server, live, reaped>>
  BY DEF Environment, Still, store, boot
<1>2. TypeInv' /\ Exclusion' /\ DataOK /\ ControlOK
  BY <1>1, StillControl
<1>3. Quiet' /\ Reaping'
  BY <1>1 DEF IInv, Quiet, Reaping, Still
<1>4. \A t \in sole : t \in Tasks /\ task[t].on \in Names
  BY <1>2 DEF ControlOK, TaskShape, IInv, Undisturbed
<1>5. Undisturbed'
  BY <1>1, <1>4 DEF IInv, Undisturbed, Still
<1>6. Achieved'
  BY <1>1 DEF IInv, Achieved, AchievedBy, Still
<1>7. Settledness'
  <2> SUFFICES ASSUME NEW n \in Names PROVE Assured(n)'
    BY DEF Settledness
  <2>1. Assured(n)
    BY DEF IInv, Settledness
  <2> QED BY <1>1, <2>1 DEF Assured, Still
<1> QED BY <1>2, <1>3, <1>5, <1>6, <1>7 DEF IInv

LEMMA TurnType ==
  ASSUME DataOK, NEW n \in Names, NEW s \in ActorState,
         actor' = [actor EXCEPT ![n].state = s]
  PROVE  /\ actor' \in [Names -> Actor] /\ actor'[n].state = s
         /\ \A m \in Names : m # n => actor'[m] = actor[m]
<1>1. actor' \in [Names -> Actor]
  BY DEF DataOK, Actor
<1>2. actor'[n].state = s
  BY DEF DataOK, Actor
<1>3. \A m \in Names : m # n => actor'[m] = actor[m]
  BY DEF DataOK
<1> QED BY <1>1, <1>2, <1>3

LEMMA SettlePreserves ==
  ASSUME IInv, NEW n \in Names, Settle(n)
  PROVE  IInv'
<1>0. DataOK /\ ControlOK
  BY Halves DEF IInv
<1>1. /\ Environment /\ UNCHANGED <<wire, faults>> /\ actor[n].state \in Moving
      /\ UNCHANGED <<file, bundle, mark, stopped, listed, server, live, reaped>>
  BY DEF Settle, Environment, store, boot
<1>2. CASE actor[n].state = "deleting"
  <2>1. actor' = [actor EXCEPT ![n] = NoActor(actor[n].uid)] /\ answer' = Gone(n)
    BY <1>2 DEF Settle
  <2>2. NoActor(actor[n].uid) \in Actor
    BY <1>0 DEF NoActor, Actor, ActorState, DataOK
  <2>3. actor' \in [Names -> Actor] /\ \A m \in Names : m # n => actor'[m] = actor[m]
    BY <1>0, <2>1, <2>2 DEF DataOK
  <2>4. DataOK'
    BY <1>0, <1>1, <2>3 DEF DataOK, WireShape
  <2>5. answer' \in [Names -> Answer]
    BY <1>0, <2>1 DEF Gone, ControlOK, Answer
  <2>6. /\ \A m \in Names : m # n => answer'[m] = answer[m]
        /\ answer[n] \in {"started", "stopped"} => answer'[n] = "unknown"
        /\ answer[n] \notin {"started", "stopped"} => answer'[n] = answer[n]
    BY <1>0, <2>1 DEF Gone, ControlOK
  <2> QED BY <1>1, <2>3, <2>4, <2>5, <2>6, EnvironmentPreserves
<1>3. CASE actor[n].state # "deleting"
  <2> DEFINE s == Settled[actor[n].state]
  <2>1. actor' = [actor EXCEPT ![n].state = s] /\ answer' = answer
    BY <1>3 DEF Settle
  <2>2. s \in ActorState /\ s # "none"
    BY <1>1, <1>3 DEF Moving, Settled, ActorState
  <2> HIDE DEF s
  <2>3. /\ actor' \in [Names -> Actor] /\ actor'[n].state = s
        /\ \A m \in Names : m # n => actor'[m] = actor[m]
    BY <1>0, <2>1, <2>2, TurnType
  <2>4. DataOK'
    BY <1>0, <1>1, <2>3 DEF DataOK, WireShape
  <2> QED BY <1>0, <1>1, <2>1, <2>2, <2>3, <2>4, EnvironmentPreserves DEF ControlOK
<1> QED BY <1>2, <1>3

LEMMA IntervenePreserves ==
  ASSUME IInv, NEW n \in Names, Intervene(n)
  PROVE  IInv'
<1>0. DataOK /\ ControlOK
  BY Halves DEF IInv
<1>1. /\ Environment /\ UNCHANGED <<wire, answer>> /\ faults' \in 0..MaxFaults
      /\ UNCHANGED <<file, bundle, mark, stopped, listed, server, live, reaped>>
  BY <1>0 DEF Intervene, Environment, Fault, DataOK, store, boot
<1>2. PICK s \in ActorState : /\ <<actor[n].state, s>> \in Interventions
                              /\ actor' = [actor EXCEPT ![n].state = s]
  BY DEF Intervene
<1>3. s # "none"
  BY <1>2 DEF Interventions
<1>4. /\ actor' \in [Names -> Actor] /\ actor'[n].state = s
      /\ \A m \in Names : m # n => actor'[m] = actor[m]
  BY <1>0, <1>2, TurnType
<1>5. DataOK'
  BY <1>0, <1>1, <1>4 DEF DataOK, WireShape
<1> QED BY <1>0, <1>1, <1>3, <1>4, <1>5, EnvironmentPreserves DEF ControlOK

LEMMA DeliverPreserves ==
  ASSUME IInv, NEW r \in wire, Deliver(r)
  PROVE  IInv'
<1> DEFINE n == r.on
           a == After(r.rpc, actor[n], r.template)
<1>0. DataOK /\ ControlOK
  BY Halves DEF IInv
<1>1. /\ Environment /\ UNCHANGED <<answer, faults>> /\ wire' \subseteq wire
      /\ UNCHANGED <<file, bundle, mark, stopped, listed, server, live, reaped>>
      /\ actor' = actor \/ actor' = [actor EXCEPT ![n] = a]
  BY DEF Deliver, Environment, store, boot
<1>2. /\ r \in Request /\ n \in Names /\ actor[n] \in Actor
      /\ r.rpc \in LifecycleRpc \cup {"create", "policy"}
      /\ r.rpc = "create" => r.template \in Templates
  BY <1>0 DEF DataOK, WireShape, Request
<1>3. a \in Actor /\ (actor[n].state # "none" => a.state # "none")
  <2>1. CASE r.rpc = "create"
    BY <1>2, <2>1, CreatedType DEF After
  <2>2. CASE r.rpc = "policy"
    BY <1>2, <2>2, PolicyType DEF After
  <2>3. CASE r.rpc \in LifecycleRpc
    <3>1. r.rpc # "create" /\ r.rpc # "policy"
      BY <2>3 DEF LifecycleRpc
    <3> QED BY <1>2, <2>3, <3>1, MovedType DEF After
  <2> QED BY <1>2, <2>1, <2>2, <2>3
<1> HIDE DEF a
<1>4. /\ actor' \in [Names -> Actor]
      /\ \A m \in Names : actor[m].state # "none" => actor'[m].state # "none"
  BY <1>0, <1>1, <1>2, <1>3 DEF DataOK
<1>5. DataOK'
  BY <1>0, <1>1, <1>4 DEF DataOK, WireShape
<1> QED BY <1>0, <1>1, <1>4, <1>5, EnvironmentPreserves DEF ControlOK

-----------------------------------------------------------------------------
(* The invariant, and what follows from it                                 *)

LEMMA InitIInv == Init => IInv
<1> SUFFICES ASSUME Init PROVE IInv
  OBVIOUS
<1>1. ASSUME NEW n \in Names
      PROVE  actor[n] \in Actor
  <2>1. PICK u \in 0..MaxUid : actor[n] = NoActor(u)
    BY <1>1 DEF Init
  <2>2. (CHOOSE tm \in Templates : TRUE) \in Templates
    OBVIOUS
  <2> QED BY <2>1, <2>2 DEF NoActor, Actor, ActorState
<1>2. Idle \in Task /\ Idle.op = "none" /\ Idle.on = None
  BY DEF Idle, Task, TaskOp
<1>3. DataOK
  BY <1>1 DEF Init, DataOK, WireShape
<1>4. ControlOK
  BY <1>2 DEF Init, ControlOK, Pc, Answer, TaskShape, OnRoute
<1>5. TypeInv
  BY <1>3, <1>4, Halves
<1> QED BY <1>2, <1>5 DEF Init, IInv, Exclusion, Locking, Quiet, Reaping,
     Undisturbed, Achieved, Settledness, Assured

LEMMA TaskStepPreserves ==
  ASSUME IInv, NEW t \in Tasks, TaskStep(t)
  PROVE  IInv'
BY AcquirePreserves, CheckPreserves, GetStatePreserves, MarkDiskPreserves,
   MarkMemoryPreserves, RemarkMemoryPreserves, UnmarkDiskPreserves,
   UnmarkMemoryPreserves, PutFilePreserves, InsertBundlePreserves,
   RemoveBundlePreserves, UnlinkFilePreserves, CreateActorPreserves,
   CheckTemplatePreserves, GetUidPreserves, CreatePolicyPreserves,
   ServePreserves, ReplyPreserves DEF TaskStep

LEMMA StutterPreserves ==
  ASSUME IInv, UNCHANGED vars
  PROVE  IInv'
BY DEF vars, IInv, TypeInv, TypeOK, TaskShape, WireShape, Exclusion, Locking,
   Quiet, Reaping, Undisturbed, Achieved, AchievedBy, Settledness, Assured

LEMMA NextIInv == IInv /\ [Next]_vars => IInv'
<1> SUFFICES ASSUME IInv, [Next]_vars PROVE IInv'
  OBVIOUS
<1>1. ASSUME NEW t \in Calls, NEW n \in Names, NEW tm \in Templates,
             Call(t, "create", n, tm)
      PROVE  IInv'
  BY <1>1, CallPreserves DEF CallOp
<1>2. ASSUME NEW t \in Calls, NEW n \in Names, NEW op \in CallOp \ {"create"},
             Call(t, op, n, None)
      PROVE  IInv'
  BY <1>2, CallPreserves
<1>3. ASSUME NEW t \in Tasks,
             \/ TaskStep(t) \/ RpcError(t) \/ IoError(t) \/ Cancel(t)
             \/ \E n \in Names : SpawnAgain(t, n)
      PROVE  IInv'
  BY <1>3, TaskStepPreserves, RpcErrorPreserves, IoErrorPreserves,
     CancelPreserves, SpawnAgainPreserves
<1>4. ASSUME NEW n \in Names,
             \/ PassOver(n) \/ ReapBundle(n) \/ ReapFile(n) \/ ReapMark(n)
             \/ Settle(n) \/ Intervene(n)
      PROVE  IInv'
  BY <1>4, WatchPreserves, ReapBundlePreserves, ReapFilePreserves,
     ReapMarkPreserves, SettlePreserves, IntervenePreserves
<1>5. ASSUME NEW r \in wire, Deliver(r) PROVE IInv'
  BY <1>5, DeliverPreserves
<1>6. ASSUME Poll \/ Crash \/ Open \/ ReapList \/ ReapDone \/ ReapFails
      PROVE  IInv'
  BY <1>6, WatchPreserves, CrashPreserves, OpenPreserves, ReapListPreserves,
     ServingPreserves
<1>7. ASSUME UNCHANGED vars PROVE IInv'
  BY <1>7, StutterPreserves
<1> QED BY <1>1, <1>2, <1>3, <1>4, <1>5, <1>6, <1>7 DEF Next

(* IInv holds in every state of the driver, whatever the number of         *)
(* sandboxes, calls, suspend_again tasks, actors of a name and failures.   *)
THEOREM Inductive == Spec => []IInv
<1>1. Init => IInv
  BY InitIInv
<1>2. IInv /\ [Next]_vars => IInv'
  BY NextIInv
<1> QED BY <1>1, <1>2, PTL DEF Spec

(* Every variable keeps its type.                                          *)
THEOREM TypeCorrect == Spec => []TypeOK
<1>1. IInv => TypeOK
  BY DEF IInv, TypeInv
<1> QED BY <1>1, Inductive, PTL

(* A stop the gateway was sure of holds (mark_stopped before the suspend,  *)
(* start_sandbox's mark put back, the cache read back on a restart).       *)
THEOREM StopsHold == Spec => []StopHolds
<1>1. IInv => StopHolds
  BY DEF IInv, Settledness, Assured, StopHolds
<1> QED BY <1>1, Inductive, PTL

(* A create or start the gateway was sure of leaves no mark.               *)
THEOREM StartsHold == Spec => []StartHolds
<1>1. IInv => StartHolds
  BY DEF IInv, Settledness, Assured, StartHolds
<1> QED BY <1>1, Inductive, PTL

(* A delete the gateway was sure of leaves no bundle and no mark.          *)
THEOREM DeletesHold == Spec => []DeleteHolds
<1>1. IInv => DeleteHolds
  BY DEF IInv, Settledness, Assured, DeleteHolds
<1> QED BY <1>1, Inductive, PTL

(* The driver suspends only a sandbox that reads as stopped.               *)
THEOREM SuspendsOnlyMarked == Spec => SuspendsMarked
<1> DEFINE A == \A t \in Tasks :
       LET n == task[t].on IN
       /\ pc[t] \in {"suspend", "revert"}
       /\ t \in sole
       /\ pc'[t] \in {"suspending", "reverting"}
       => n \in stopped
<1>1. IInv => A
  BY DEF IInv, TypeInv, TaskShape, OnRoute, Achieved, AchievedBy
<1>2. IInv /\ [Next]_vars => [A]_vars
  BY <1>1
<1> QED BY <1>2, Inductive, PTL DEF Spec, SuspendsMarked
=============================================================================
