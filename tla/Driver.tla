------------------------------- MODULE Driver -------------------------------
(***************************************************************************)
(* The sandbox lifecycle of the compute driver (src/src/lib.rs): its       *)
(* handlers for the gateway's create, start, stop, suspend and delete      *)
(* calls, the suspend_again task its watch loop spawns, the stopped marks  *)
(* on disk with their cache in memory, the bundle files with theirs, the   *)
(* per-actor lock, and a crash, restart and reap of the process.           *)
(*                                                                         *)
(* A handler is an asynchronous function on a multi-threaded runtime: one  *)
(* action per stretch between two points where another task can run, be    *)
(* it an await or a write to shared state.  Substrate (module Substrate),  *)
(* its operators and the gateway are the environment.                      *)
(***************************************************************************)
EXTENDS Substrate, FiniteSets

CONSTANTS
  Names,        (* Actor names: the ids of the sandboxes.                  *)
  Calls,        (* Slots for gateway calls served at the same time.        *)
  Again,        (* Slots for suspend_again tasks.                          *)
  None,         (* Neither a name nor a task: no holder, no target.        *)
  HasPolicy,    (* Is config.egress_rules non-empty?                       *)
  MaxFaults     (* Bound: failures and interventions in one behaviour.     *)

Tasks == Calls \cup Again

ASSUME SlotsAssumption  == Calls \cap Again = {}
ASSUME NoneAssumption   == None \notin Names \cup Tasks \cup Templates
ASSUME PolicyAssumption == HasPolicy \in BOOLEAN
ASSUME FaultsAssumption == MaxFaults \in Nat

VARIABLES
  actor,    (* Substrate's record of each name.                            *)
  wire,     (* Requests whose sender is gone and that may still be served. *)
  file,     (* uid each <name>.json on disk is bound to, 0 for no file.    *)
  bundle,   (* The same for the store's map in memory.                     *)
  mark,     (* Names with a <name>.stopped file.                           *)
  stopped,  (* The cache of those in memory.                               *)
  lock,     (* Holder of each actor's lock.                                *)
  pc,       (* Where each slot stands.                                     *)
  task,     (* What it is doing: the locals of the handler.                *)
  listed,   (* Names the watch loop's last poll saw RUNNING, not yet       *)
            (* compared with the stopped set.                              *)
  server,   (* Where the driver process is: down, reaping or serving.      *)
  live,     (* Names the reaper's ListActors returned.                     *)
  reaped,   (* Names whose bundle the reaper has dropped from the map.     *)
  sole,     (* History: tasks that no create or delete of the same sandbox *)
            (* has overlapped so far.                                      *)
  answer,   (* History: what the gateway was last told of each sandbox.    *)
  faults    (* Failures so far.                                            *)

substrate == <<actor, wire>>
store     == <<file, bundle, mark, stopped>>
boot      == <<server, live, reaped>>
history   == <<sole, answer>>
vars      == <<actor, wire, file, bundle, mark, stopped, lock, pc, task,
               listed, server, live, reaped, sole, answer, faults>>

CallOp == {"create", "start", "stop", "delete"}
TaskOp == CallOp \cup {"again"}

(* Where a task stands.  A lifecycle RPC has two places: the request may   *)
(* not have been served yet, or the actor is moving and the reply is due   *)
(* when it settles.                                                        *)
Pc == {"idle", "lock", "check", "get_state", "mark_disk", "mark_memory",
       "suspend", "suspending", "revert", "reverting", "resume", "resuming",
       "delete", "deleting", "create", "check_template", "get_uid", "policy",
       "put", "insert", "unmark_disk", "unmark_memory", "remove", "unlink",
       "remark_disk", "remark_memory"}

(* A task's locals.  crashed is the actor state checkpoint read, uid the   *)
(* incarnation create and start looked up, known (history) the one whose   *)
(* template a create knows.                                                *)
Idle == [op |-> "none", on |-> None, template |-> None,
         crashed |-> FALSE, uid |-> 0, known |-> 0]

Task == [op: TaskOp \cup {"none"}, on: Names \cup {None},
         template: Templates \cup {None}, crashed: BOOLEAN, uid: 0..MaxUid,
         known: 0..MaxUid]

(* What the gateway was last told, and whether it could be sure of it.     *)
(* "new" is a sandbox the gateway does not hold, "deleted" one it knows to *)
(* be gone.                                                                *)
Answer == {"new", "started", "stopped", "unknown", "deleting", "deleted"}

Request == [rpc: LifecycleRpc \cup {"create", "policy"}, on: Names,
            template: Templates \cup {None}]

(* The driver first starts with an empty store, whatever actors each name  *)
(* has had before.                                                         *)
Init ==
  /\ actor \in [Names -> {NoActor(u) : u \in 0..MaxUid}]
  /\ wire = {}
  /\ file = [n \in Names |-> 0]
  /\ bundle = [n \in Names |-> 0]
  /\ mark = {}
  /\ stopped = {}
  /\ lock = [n \in Names |-> None]
  /\ pc = [t \in Tasks |-> "idle"]
  /\ task = [t \in Tasks |-> Idle]
  /\ listed = {}
  /\ server = "serving"
  /\ live = {}
  /\ reaped = {}
  /\ sole = {}
  /\ answer = [n \in Names |-> "new"]
  /\ faults = 0

-----------------------------------------------------------------------------
(* Helpers                                                                 *)

Fault == faults < MaxFaults /\ faults' = faults + 1

At(t, p) == pc[t] = p

Move(t, p) == pc' = [pc EXCEPT ![t] = p]

Goto(t, p) == Move(t, p) /\ UNCHANGED task

Active(n, ops) == {t \in Tasks : task[t].on = n /\ task[t].op \in ops}

(* Mutant: the guard outlives the handler.                                 *)
UnlockedLeak(t) == lock

(* Dropping the guard of actor_lock, when the task has it.                 *)
Unlocked(t) == [n \in Names |-> IF lock[n] = t THEN None ELSE lock[n]]

(* What the gateway may conclude when a call ends.  It is sure of a state  *)
(* only if no other call on the sandbox was in flight along the way.       *)
Sure == [create |-> "started", start |-> "started", stop |-> "stopped",
         delete |-> "deleted"]

Concluded(t, ok) ==
  LET n == task[t].on  op == task[t].op IN
  IF ok /\ t \in sole /\ Active(n, CallOp) = {t} THEN Sure[op]
  ELSE IF ok /\ op = "delete" THEN "new"
  ELSE IF ok /\ op = "create" /\ answer[n] = "new" THEN "unknown"
  ELSE answer[n]

(* The end of a handler, or of the future that runs it: the locals and the *)
(* guard are dropped and the gateway gets its answer.                      *)
Return(t, ok) ==
  /\ Move(t, "idle")
  /\ task' = [task EXCEPT ![t] = Idle]
  /\ sole' = sole \ {t}
  /\ lock' = Unlocked(t)
  /\ answer' = IF task[t].op \in CallOp
                 THEN [answer EXCEPT ![task[t].on] = Concluded(t, ok)]
                 ELSE answer

(* An error from an RPC.  Every handler gives up with `?`, but a start     *)
(* whose resume failed first puts the mark back.                           *)
GiveUp(t) ==
  IF task[t].op = "start" /\ pc[t] \in {"resume", "resuming"}
  THEN Goto(t, "remark_disk") /\ UNCHANGED <<lock, history>>
  ELSE Return(t, FALSE)

-----------------------------------------------------------------------------
(* Gateway calls                                                           *)

First == [create |-> "create", start |-> "lock", stop |-> "lock",
          delete |-> "delete"]

(* The gateway creates a sandbox it does not hold (again, if a create      *)
(* failed), stops and starts one whose create has answered, and once it    *)
(* has asked for a delete does nothing but repeat it.                      *)
Admits(op, n) ==
  \/ op = "create" /\ answer[n] \in {"new", "deleted"}
  \/ op = "delete" /\ answer[n] # "deleted"
  \/ op \in {"start", "stop"} /\ answer[n] \in {"started", "stopped", "unknown"}

Asked == [create |-> "new", start |-> "unknown", stop |-> "unknown",
          delete |-> "deleting"]

(* Does a call that begins now have its sandbox to itself?                 *)
Alone(op, n) ==
  IF op \in {"create", "delete"} THEN Active(n, CallOp) = {}
                                 ELSE Active(n, {"create", "delete"}) = {}

Begin(t, op, n, tm, p) ==
  /\ Move(t, p)
  /\ task' = [task EXCEPT ![t] =
       [op |-> op, on |-> n, template |-> tm, crashed |-> FALSE, uid |-> 0,
        known |-> 0]]
  /\ sole' =
       (IF op \in {"create", "delete"} THEN sole \ Active(n, TaskOp) ELSE sole)
         \cup (IF Alone(op, n) THEN {t} ELSE {})

Call(t, op, n, tm) ==
  /\ server = "serving"
  /\ At(t, "idle")
  /\ Admits(op, n)
  /\ Begin(t, op, n, tm, First[op])
  /\ answer' = [answer EXCEPT ![n] = Asked[op]]
  /\ UNCHANGED <<substrate, store, lock, listed, boot, faults>>

-----------------------------------------------------------------------------
(* Steps of the handlers: the lock                                         *)

BehindLock == [start |-> "get_uid", stop |-> "get_state", again |-> "check"]

(* Mutant: the lock is taken by whoever comes.                             *)
AcquireHeld(t) ==
  /\ At(t, "lock")
  /\ lock' = [lock EXCEPT ![task[t].on] = t]
  /\ Goto(t, BehindLock[task[t].op])
  /\ UNCHANGED <<substrate, store, listed, boot, history, faults>>

Acquire(t) ==
  LET n == task[t].on IN
  /\ At(t, "lock")
  /\ lock[n] = None
  /\ lock' = [lock EXCEPT ![n] = t]
  /\ Goto(t, BehindLock[task[t].op])
  /\ UNCHANGED <<substrate, store, listed, boot, history, faults>>

(* Mutant: suspend_again trusts the poll that spawned it.                  *)
CheckNothing(t) ==
  /\ At(t, "check")
  /\ Goto(t, "get_state")
  /\ UNCHANGED <<substrate, store, lock, listed, boot, history, faults>>

(* suspend_again: the stop may have been lifted since the poll.            *)
Check(t) ==
  /\ At(t, "check")
  /\ IF task[t].on \in stopped
       THEN Goto(t, "get_state") /\ UNCHANGED <<lock, history>>
       ELSE Return(t, TRUE)
  /\ UNCHANGED <<substrate, store, listed, boot, faults>>

(* GetActor of checkpoint, which keeps whether the actor has crashed, and  *)
(* of suspend_again, which goes on only with a running one.                *)
GetState(t) ==
  LET s == actor[task[t].on].state IN
  /\ At(t, "get_state")
  /\ IF task[t].op = "stop" /\ s # "none"
       THEN /\ Move(t, "mark_disk")
            /\ task' = [task EXCEPT ![t].crashed = (s = "crashed")]
            /\ UNCHANGED <<lock, history>>
       ELSE IF task[t].op = "again" /\ s = "running"
         THEN Goto(t, "suspend") /\ UNCHANGED <<lock, history>>
         ELSE Return(t, FALSE)
  /\ UNCHANGED <<substrate, store, listed, boot, faults>>

-----------------------------------------------------------------------------
(* mark_stopped: first the file, then the cache                            *)

(* A crashed actor can only be reverted, any other is suspended.           *)
Checkpoint(t) == IF task[t].crashed THEN "revert" ELSE "suspend"

(* Mutant: a start whose resume failed has only the cache put back.        *)
MarkDiskOnce(t) ==
  /\ pc[t] \in {"mark_disk", "remark_disk"}
  /\ mark' = IF At(t, "mark_disk") THEN mark \cup {task[t].on} ELSE mark
  /\ Goto(t, IF At(t, "mark_disk") THEN "mark_memory" ELSE "remark_memory")
  /\ UNCHANGED <<substrate, file, bundle, stopped, lock, listed, boot, history,
                 faults>>

MarkDisk(t) ==
  /\ pc[t] \in {"mark_disk", "remark_disk"}
  /\ mark' = mark \cup {task[t].on}
  /\ Goto(t, IF At(t, "mark_disk") THEN "mark_memory" ELSE "remark_memory")
  /\ UNCHANGED <<substrate, file, bundle, stopped, lock, listed, boot, history,
                 faults>>

MarkMemory(t) ==
  /\ At(t, "mark_memory")
  /\ stopped' = stopped \cup {task[t].on}
  /\ Goto(t, Checkpoint(t))
  /\ UNCHANGED <<substrate, file, bundle, mark, lock, listed, boot, history,
                 faults>>

(* start_sandbox: the resume failed, the sandbox stays stopped.            *)
RemarkMemory(t) ==
  /\ At(t, "remark_memory")
  /\ stopped' = stopped \cup {task[t].on}
  /\ Return(t, FALSE)
  /\ UNCHANGED <<substrate, file, bundle, mark, listed, boot, faults>>

(* Mutant: the marker file stays, only the cache forgets.                  *)
UnmarkDiskKeeps(t) ==
  /\ At(t, "unmark_disk")
  /\ Goto(t, "unmark_memory")
  /\ UNCHANGED <<substrate, store, lock, listed, boot, history, faults>>

UnmarkDisk(t) ==
  /\ At(t, "unmark_disk")
  /\ mark' = mark \ {task[t].on}
  /\ Goto(t, "unmark_memory")
  /\ UNCHANGED <<substrate, file, bundle, stopped, lock, listed, boot, history,
                 faults>>

(* The mark is off before the resume; for a delete this is the last step.  *)
UnmarkMemory(t) ==
  /\ At(t, "unmark_memory")
  /\ stopped' = stopped \ {task[t].on}
  /\ IF task[t].op = "delete"
       THEN Return(t, TRUE)
       ELSE Goto(t, "resume") /\ UNCHANGED <<lock, history>>
  /\ UNCHANGED <<substrate, file, bundle, mark, listed, boot, faults>>

-----------------------------------------------------------------------------
(* The bundle store                                                        *)

(* BundleStore::put: the file is renamed into place, then the map's lock   *)
(* is awaited and the map updated.                                         *)
PutFile(t) ==
  /\ At(t, "put")
  /\ file' = [file EXCEPT ![task[t].on] = task[t].uid]
  /\ Goto(t, "insert")
  /\ UNCHANGED <<substrate, bundle, mark, stopped, lock, listed, boot, history,
                 faults>>

InsertBundle(t) ==
  /\ At(t, "insert")
  /\ bundle' = [bundle EXCEPT ![task[t].on] = task[t].uid]
  /\ Goto(t, "unmark_disk")
  /\ UNCHANGED <<substrate, file, mark, stopped, lock, listed, boot, history,
                 faults>>

(* BundleStore::remove: the map first, then the file.                      *)
RemoveBundle(t) ==
  /\ At(t, "remove")
  /\ bundle' = [bundle EXCEPT ![task[t].on] = 0]
  /\ Goto(t, "unlink")
  /\ UNCHANGED <<substrate, file, mark, stopped, lock, listed, boot, history,
                 faults>>

UnlinkFile(t) ==
  /\ At(t, "unlink")
  /\ file' = [file EXCEPT ![task[t].on] = 0]
  /\ Goto(t, "unmark_disk")
  /\ UNCHANGED <<substrate, bundle, mark, stopped, lock, listed, boot, history,
                 faults>>

-----------------------------------------------------------------------------
(* RPCs of create                                                          *)

Knows(t, u) ==
  Move(t, "get_uid") /\ task' = [task EXCEPT ![t].known = u]

(* CreateActor.  A name that is taken sends the handler to look at the     *)
(* template of the actor that has it; past MaxUid Substrate refuses.       *)
CreateActor(t) ==
  LET n == task[t].on IN
  /\ At(t, "create")
  /\ IF CanCreate(actor[n])
       THEN /\ actor' = [actor EXCEPT ![n] = Created(@, task[t].template)]
            /\ Knows(t, actor[n].uid + 1)
            /\ UNCHANGED <<lock, history>>
       ELSE /\ UNCHANGED actor
            /\ IF actor[n].state = "none"
                 THEN Return(t, FALSE)
                 ELSE Goto(t, "check_template") /\ UNCHANGED <<lock, history>>
  /\ UNCHANGED <<wire, store, listed, boot, faults>>

(* Mutant: an actor that exists is as good as a new one.                   *)
CheckTemplateNot(t) ==
  LET a == actor[task[t].on] IN
  /\ At(t, "check_template")
  /\ IF a.state # "none"
       THEN Knows(t, a.uid) /\ UNCHANGED <<lock, history>>
       ELSE Return(t, FALSE)
  /\ UNCHANGED <<substrate, store, listed, boot, faults>>

(* Only an actor of the template this create asked for may be resumed.     *)
CheckTemplate(t) ==
  LET a == actor[task[t].on] IN
  /\ At(t, "check_template")
  /\ IF a.state # "none" /\ a.template = task[t].template
       THEN Knows(t, a.uid) /\ UNCHANGED <<lock, history>>
       ELSE Return(t, FALSE)
  /\ UNCHANGED <<substrate, store, listed, boot, faults>>

(* Mutant: a name with a bundle is taken to have its egress policy.        *)
GetUidSkipsPolicy(t) ==
  LET n == task[t].on IN
  /\ At(t, "get_uid")
  /\ IF actor[n].state = "none"
       THEN Return(t, FALSE)
       ELSE /\ task' = [task EXCEPT ![t].uid = actor[n].uid]
            /\ Move(t, IF task[t].op = "create" /\ HasPolicy /\ bundle[n] = 0
                         THEN "policy" ELSE "put")
            /\ UNCHANGED <<lock, history>>
  /\ UNCHANGED <<substrate, store, listed, boot, faults>>

(* actor_uid, for create and start.                                        *)
GetUid(t) ==
  LET n == task[t].on IN
  /\ At(t, "get_uid")
  /\ IF actor[n].state = "none"
       THEN Return(t, FALSE)
       ELSE /\ task' = [task EXCEPT ![t].uid = actor[n].uid]
            /\ Move(t, IF task[t].op = "create" /\ HasPolicy
                         THEN "policy" ELSE "put")
            /\ UNCHANGED <<lock, history>>
  /\ UNCHANGED <<substrate, store, listed, boot, faults>>

(* CreateActorEgressPolicy; one that exists already is as good.            *)
CreatePolicy(t) ==
  LET n == task[t].on IN
  /\ At(t, "policy")
  /\ actor' = [actor EXCEPT ![n] = WithPolicy(@)]
  /\ IF actor[n].state \in {"none", "deleting"}
       THEN Return(t, FALSE)
       ELSE Goto(t, "put") /\ UNCHANGED <<lock, history>>
  /\ UNCHANGED <<wire, store, listed, boot, faults>>

-----------------------------------------------------------------------------
(* Lifecycle RPCs                                                          *)

(* Mutant: a delete that finds no actor returns at once.                   *)
AnsweredEarly(t) ==
  IF At(t, "deleting") THEN Goto(t, "remove") /\ UNCHANGED <<lock, history>>
                       ELSE Return(t, TRUE)

(* What a handler does when its last RPC has been answered.                *)
Answered(t) ==
  IF task[t].op = "delete" THEN Goto(t, "remove") /\ UNCHANGED <<lock, history>>
                           ELSE Return(t, TRUE)

(* The request is served: it moves the actor, finds nothing to do, or is   *)
(* refused.  A delete of an actor that is not there counts as done.        *)
Serve(t) ==
  LET n == task[t].on  rpc == pc[t] IN
  /\ rpc \in LifecycleRpc
  /\ actor' = [actor EXCEPT ![n] = Moved(rpc, @)]
  /\ IF Runs(rpc, actor[n].state)
       THEN Goto(t, Via[rpc]) /\ UNCHANGED <<lock, history>>
       ELSE IF Done(rpc, actor[n].state) THEN Answered(t) ELSE GiveUp(t)
  /\ UNCHANGED <<wire, store, listed, boot, faults>>

(* The reply, once the actor no longer moves the way the request moved it. *)
Reply(t) ==
  LET n == task[t].on IN
  /\ pc[t] \in Moving
  /\ actor[n].state # pc[t]
  /\ IF actor[n].state = Settled[pc[t]] THEN Answered(t) ELSE GiveUp(t)
  /\ UNCHANGED <<substrate, store, listed, boot, faults>>

-----------------------------------------------------------------------------
(* Failures of a call                                                      *)

RpcPc == LifecycleRpc \cup Moving
           \cup {"create", "check_template", "policy", "get_uid", "get_state"}

(* A request can be served after its sender has given it up.               *)
Lost(t) ==
  IF pc[t] \in LifecycleRpc \cup {"create", "policy"}
  THEN {[rpc |-> pc[t], on |-> task[t].on, template |-> task[t].template]}
  ELSE {}

(* An RPC fails: the control plane cannot be dialed, refuses for want of   *)
(* capacity, or the connection breaks before or after it acted.            *)
RpcError(t) ==
  /\ pc[t] \in RpcPc
  /\ Fault
  /\ \E late \in SUBSET Lost(t) : wire' = wire \cup late
  /\ GiveUp(t)
  /\ UNCHANGED <<actor, store, listed, boot>>

(* A write to the state directory fails before it changed anything.        *)
IoError(t) ==
  /\ pc[t] \in {"mark_disk", "remark_disk", "unmark_disk", "put", "unlink"}
  /\ Fault
  /\ Return(t, FALSE)
  /\ UNCHANGED <<substrate, store, listed, boot>>

(* The gateway drops a call: its future is dropped at an await.            *)
Cancel(t) ==
  /\ t \in Calls
  /\ pc[t] \in RpcPc \cup {"lock", "insert", "remove"}
  /\ Fault
  /\ \E late \in SUBSET Lost(t) : wire' = wire \cup late
  /\ Return(t, FALSE)
  /\ UNCHANGED <<actor, store, listed, boot>>

-----------------------------------------------------------------------------
(* The watch loop, as far as it guards a stop                              *)

(* Mutant: the loop looks for actors that are being resumed.               *)
PollResuming ==
  /\ server = "serving"
  /\ listed = {}
  /\ listed' = {n \in Names : actor[n].state = "resuming"}
  /\ listed' # {}
  /\ UNCHANGED <<substrate, store, lock, pc, task, boot, history, faults>>

Poll ==
  /\ server = "serving"
  /\ listed = {}
  /\ listed' = {n \in Names : actor[n].state = "running"}
  /\ listed' # {}
  /\ UNCHANGED <<substrate, store, lock, pc, task, boot, history, faults>>

(* A name seen RUNNING is compared with the stopped set as it is by then.  *)
SpawnAgain(t, n) ==
  /\ t \in Again
  /\ At(t, "idle")
  /\ n \in listed \cap stopped
  /\ listed' = listed \ {n}
  /\ Begin(t, "again", n, None, "lock")
  /\ UNCHANGED <<substrate, store, lock, boot, answer, faults>>

PassOver(n) ==
  /\ n \in listed \ stopped
  /\ listed' = listed \ {n}
  /\ UNCHANGED <<substrate, store, lock, pc, task, boot, history, faults>>

-----------------------------------------------------------------------------
(* The process                                                             *)

Crash ==
  /\ server # "down"
  /\ Fault
  /\ server' = "down"
  /\ \E late \in SUBSET UNION {Lost(t) : t \in Tasks} : wire' = wire \cup late
  /\ pc' = [t \in Tasks |-> "idle"]
  /\ task' = [t \in Tasks |-> Idle]
  /\ lock' = [n \in Names |-> None]
  /\ bundle' = [n \in Names |-> 0]
  /\ stopped' = {}
  /\ listed' = {}
  /\ live' = {}
  /\ reaped' = {}
  /\ sole' = {}
  /\ UNCHANGED <<actor, file, mark, answer>>

(* Mutant: the marks on disk are not read back.                            *)
OpenUnmarked ==
  /\ server = "down"
  /\ server' = "opened"
  /\ bundle' = file
  /\ UNCHANGED <<substrate, file, mark, stopped, lock, pc, task, listed, live,
                 reaped, history, faults>>

(* main: the store is read back, the cache of the marks with it.           *)
Open ==
  /\ server = "down"
  /\ server' = "opened"
  /\ bundle' = file
  /\ stopped' = mark
  /\ UNCHANGED <<substrate, file, mark, lock, pc, task, listed, live, reaped,
                 history, faults>>

(* Mutant: only a running actor counts as live.                            *)
ReapListRunning ==
  /\ server = "opened"
  /\ server' = "reaping"
  /\ live' = {n \in Names : actor[n].state = "running"}
  /\ UNCHANGED <<substrate, store, lock, pc, task, listed, reaped, history,
                 faults>>

ReapList ==
  /\ server = "opened"
  /\ server' = "reaping"
  /\ live' = {n \in Names : actor[n].state # "none"}
  /\ UNCHANGED <<substrate, store, lock, pc, task, listed, reaped, history,
                 faults>>

Orphans == {n \in Names : bundle[n] # 0} \ live

(* The name that reap_orphans is not through with: it takes one after the  *)
(* other, its entry in the map, its file and then its mark.                *)
HalfReaped == {n \in reaped : file[n] # 0 \/ n \in mark}

ReapBundle(n) ==
  /\ server = "reaping"
  /\ n \in Orphans
  /\ HalfReaped = {}
  /\ bundle' = [bundle EXCEPT ![n] = 0]
  /\ reaped' = reaped \cup {n}
  /\ UNCHANGED <<substrate, file, mark, stopped, lock, pc, task, listed, server,
                 live, history, faults>>

ReapFile(n) ==
  /\ server = "reaping"
  /\ n \in reaped
  /\ file[n] # 0
  /\ file' = [file EXCEPT ![n] = 0]
  /\ UNCHANGED <<substrate, bundle, mark, stopped, lock, pc, task, listed, boot,
                 history, faults>>

ReapMark(n) ==
  /\ server = "reaping"
  /\ n \in reaped \cap mark
  /\ file[n] = 0
  /\ mark' = mark \ {n}
  /\ UNCHANGED <<substrate, file, bundle, stopped, lock, pc, task, listed, boot,
                 history, faults>>

Serving == server' = "serving" /\ live' = {} /\ reaped' = {}

(* reap_orphan_bundles clears the cache at the end.                        *)
ReapDone ==
  /\ server = "reaping"
  /\ Orphans = {}
  /\ HalfReaped = {}
  /\ stopped' = stopped \ reaped
  /\ Serving
  /\ UNCHANGED <<substrate, file, bundle, mark, lock, pc, task, listed, history,
                 faults>>

(* An error of the list or of a removal is logged and the driver serves    *)
(* what it has, be a name half reaped by then: out of the map, but with    *)
(* its file or its mark still there.                                       *)
ReapFails ==
  /\ server \in {"opened", "reaping"}
  /\ Fault
  /\ Serving
  /\ UNCHANGED <<substrate, store, lock, pc, task, listed, history>>

-----------------------------------------------------------------------------
(* Substrate and its operators                                             *)

Environment == UNCHANGED <<store, lock, pc, task, listed, boot, sole>>

(* The watch tells the gateway of an actor that is gone: what it was sure  *)
(* of is no more.                                                          *)
Gone(n) == IF answer[n] \in {"started", "stopped"}
             THEN [answer EXCEPT ![n] = "unknown"] ELSE answer

Settle(n) ==
  /\ actor[n].state \in Moving
  /\ IF actor[n].state = "deleting"
       THEN /\ actor' = [actor EXCEPT ![n] = NoActor(@.uid)]
            /\ answer' = Gone(n)
       ELSE /\ actor' = [actor EXCEPT ![n].state = Settled[@]]
            /\ UNCHANGED answer
  /\ UNCHANGED <<wire, faults>>
  /\ Environment

(* A worker takes its actor down, an operator suspends one, an operator or *)
(* a request through the router resumes one, and a deletion or a rebuilt   *)
(* cluster leaves none under the name.                                     *)
Interventions ==
  {<<"running", "crashed">>, <<"running", "suspending">>,
   <<"suspended", "resuming">>}
    \cup ((ActorState \ {"none", "deleting"}) \X {"deleting"})

Intervene(n) ==
  /\ Fault
  /\ \E s \in ActorState :
       /\ <<actor[n].state, s>> \in Interventions
       /\ actor' = [actor EXCEPT ![n].state = s]
  /\ UNCHANGED <<wire, answer>>
  /\ Environment

(* A request whose sender is gone is served after all, or never.           *)
Deliver(r) ==
  /\ wire' = wire \ {r}
  /\ \/ UNCHANGED actor
     \/ actor' = [actor EXCEPT ![r.on] = After(r.rpc, @, r.template)]
  /\ UNCHANGED <<answer, faults>>
  /\ Environment

-----------------------------------------------------------------------------
(* Next-state relation                                                     *)

TaskStep(t) ==
  \/ Acquire(t) \/ Check(t) \/ GetState(t)
  \/ MarkDisk(t) \/ MarkMemory(t) \/ RemarkMemory(t)
  \/ UnmarkDisk(t) \/ UnmarkMemory(t)
  \/ PutFile(t) \/ InsertBundle(t) \/ RemoveBundle(t) \/ UnlinkFile(t)
  \/ CreateActor(t) \/ CheckTemplate(t) \/ GetUid(t) \/ CreatePolicy(t)
  \/ Serve(t) \/ Reply(t)

Next ==
  \/ \E t \in Calls, n \in Names :
       \/ \E tm \in Templates : Call(t, "create", n, tm)
       \/ \E op \in CallOp \ {"create"} : Call(t, op, n, None)
  \/ \E t \in Tasks :
       \/ TaskStep(t) \/ RpcError(t) \/ IoError(t) \/ Cancel(t)
       \/ \E n \in Names : SpawnAgain(t, n)
  \/ \E n \in Names :
       \/ PassOver(n) \/ ReapBundle(n) \/ ReapFile(n) \/ ReapMark(n)
       \/ Settle(n) \/ Intervene(n)
  \/ \E r \in wire : Deliver(r)
  \/ Poll \/ Crash \/ Open \/ ReapList \/ ReapDone \/ ReapFails

Spec == Init /\ [][Next]_vars

(* What runs on its own runs on: the runtime polls every task that is not  *)
(* waiting, the lock is granted in order of arrival, the watch loop polls  *)
(* while the gateway holds its stream, a process that went down is started *)
(* again, and Substrate settles what it has begun and answers every RPC    *)
(* once what it asked for is over, be the next one under way by then.      *)
(* Nothing is assumed of the gateway, the operators or failures.           *)
Fairness ==
  /\ \A t \in Tasks : WF_vars(TaskStep(t)) /\ SF_vars(Acquire(t) \/ Reply(t))
  /\ \A n \in Names : /\ WF_vars(Settle(n))
                       /\ SF_vars(\E t \in Again : SpawnAgain(t, n))
                       /\ WF_vars(\/ PassOver(n) \/ ReapBundle(n)
                                  \/ ReapFile(n) \/ ReapMark(n))
  /\ WF_vars(Poll)
  /\ WF_vars(Open \/ ReapList \/ ReapDone)

FairSpec == Spec /\ Fairness

-----------------------------------------------------------------------------
(* Properties                                                              *)

(* Every variable has its type.                                            *)
TypeOK ==
  /\ actor \in [Names -> Actor]
  /\ wire \subseteq Request
  /\ file \in [Names -> 0..MaxUid]
  /\ bundle \in [Names -> 0..MaxUid]
  /\ mark \subseteq Names
  /\ stopped \subseteq Names
  /\ lock \in [Names -> Tasks \cup {None}]
  /\ pc \in [Tasks -> Pc]
  /\ task \in [Tasks -> Task]
  /\ sole \subseteq Tasks
  /\ listed \subseteq Names
  /\ server \in {"down", "opened", "reaping", "serving"}
  /\ live \subseteq Names
  /\ reaped \subseteq Names
  /\ answer \in [Names -> Answer]
  /\ faults \in 0..MaxFaults

(* A stop the gateway was sure of holds until the gateway asks for         *)
(* something else: whatever operators, late requests, suspend_again tasks  *)
(* and restarts of the driver do, the sandbox stays marked, on disk and in *)
(* every process that has read the marks (lib.rs:671-676).                 *)
StopHolds ==
  \A n \in Names : answer[n] = "stopped" =>
    n \in mark /\ (server = "down" \/ n \in stopped)

(* A create or start the gateway was sure of leaves no mark that a later   *)
(* poll or restart could bring back: the sandbox is not reported Stopped   *)
(* and not suspended again.                                                *)
StartHolds ==
  \A n \in Names : answer[n] = "started" => n \notin mark \cup stopped

(* A delete the gateway was sure of leaves nothing behind: no bundle with  *)
(* its secrets and no mark, on disk or in memory.                          *)
DeleteHolds ==
  \A n \in Names : answer[n] = "deleted" =>
    file[n] = 0 /\ bundle[n] = 0 /\ n \notin mark \cup stopped

(* A start whose resume fails puts the mark back before it says so         *)
(* (lib.rs:1188-1191): the sandbox is stopped on disk and in memory again, *)
(* whatever else was at work on it, but for a create or delete.            *)
FailedStartStops ==
  [][\A t \in Calls :
       LET n == task[t].on IN
       /\ pc[t] = "remark_memory"
       /\ t \in sole
       /\ pc'[t] = "idle"
       => n \in mark' /\ (server' = "down" \/ n \in stopped')]_vars

(* Whom the resume of a create or start may wake: the incarnation the      *)
(* handler looked up has its own bundle waiting, on disk too, and after a  *)
(* create the egress policy, which the egress would otherwise cache as     *)
(* missing (lib.rs:1125), before it first runs.                            *)
Resumes(t) == At(t, "resume") /\ actor'[task[t].on] # actor[task[t].on]
                             /\ pc'[t] = "resuming"

ResumesEquipped ==
  [][\A t \in Calls :
       LET n == task[t].on IN
       Resumes(t) /\ t \in sole /\ actor[n].uid = task[t].uid =>
         /\ bundle[n] = task[t].uid /\ file[n] = task[t].uid
         /\ task[t].op = "create" /\ HasPolicy => actor[n].policy]_vars

(* A create resumes only an actor of the template it asked for, however    *)
(* the name came to be taken (lib.rs:1099-1117), unless the actor it knew  *)
(* was replaced since.                                                     *)
ResumesOwnTemplate ==
  [][\A t \in Calls :
       LET n == task[t].on IN
       Resumes(t) /\ task[t].op = "create" /\ actor[n].uid = task[t].known =>
         actor[n].template = task[t].template]_vars

(* The driver suspends only what reads as stopped: at the moment a stop's  *)
(* or suspend_again's request takes effect the sandbox is in the stopped   *)
(* set, so the suspension is never reported as Substrate's own and a       *)
(* sandbox the gateway has started since is left alone.                    *)
SuspendsMarked ==
  [][\A t \in Tasks :
       LET n == task[t].on IN
       /\ pc[t] \in {"suspend", "revert"}
       /\ t \in sole
       /\ pc'[t] \in {"suspending", "reverting"}
       => n \in stopped]_vars

(* The reaper never takes the bundle of an actor that exists.              *)
ReapsOrphansOnly ==
  [][\A n \in Names :
       server = "reaping" /\ bundle'[n] # bundle[n] /\ server' # "down" =>
         actor[n].state = "none" \/ bundle[n] # actor[n].uid]_vars

(* The record of a stop is the marker and, while the driver runs, its      *)
(* cached copy.                                                            *)
Record(n) ==
  LET cached == n \in IF server = "down" THEN mark ELSE stopped IN
  IF n \in mark /\ cached THEN "held"
  ELSE IF n \notin mark /\ ~cached THEN "free" ELSE "torn"

(* The marker, its cache, their rewriting by halves in handlers that can   *)
(* crash or be cancelled at any step, and their reading back at start are  *)
(* one record to the gateway (lib.rs:248-252).                             *)
Stops == INSTANCE StopRecord WITH record <- [n \in Names |-> Record(n)],
                                  told <- answer

OneRecord == Stops!Spec

(* A sandbox found running while it is marked does not stay so: it is      *)
(* suspended again, or the gateway starts or deletes it.                   *)
StoppedGoesDown ==
  \A n \in Names :
    (server = "serving" /\ n \in stopped /\ actor[n].state = "running")
      ~> (n \notin stopped \/ actor[n].state # "running")

(* Every call ends: no handler waits for a lock that is never released.    *)
CallsEnd == \A t \in Calls : task[t].op # "none" ~> task[t].op = "none"

(* The reaper drops the marks of actors that do not exist (lib.rs:567).    *)
ReapDropsMarks ==
  [][server = "reaping" /\ server' = "serving" /\ faults' = faults
       => mark' \subseteq live]_vars
=============================================================================
