----------------------------- MODULE DriverInv -----------------------------
(***************************************************************************)
(* The inductive invariant behind the safety properties of Driver, in      *)
(* named parts: what a task can be doing, who holds the lock, what a task  *)
(* that has its sandbox to itself has achieved so far, and what must be    *)
(* true for the gateway to be sure of a state.                             *)
(***************************************************************************)
EXTENDS Driver

(* The places each operation passes through.                               *)
OnRoute(op, p) ==
  \/ op = "create" /\ p \in {"create", "check_template", "get_uid", "policy",
                               "put", "insert", "unmark_disk",
                               "unmark_memory", "resume", "resuming"}
  \/ op = "start"  /\ p \in {"lock", "get_uid", "put", "insert",
                               "unmark_disk", "unmark_memory", "resume",
                               "resuming", "remark_disk", "remark_memory"}
  \/ op = "stop"   /\ p \in {"lock", "get_state", "mark_disk",
                               "mark_memory", "suspend", "suspending",
                               "revert", "reverting"}
  \/ op = "delete" /\ p \in {"delete", "deleting", "remove", "unlink",
                               "unmark_disk", "unmark_memory"}
  \/ op = "again"  /\ p \in {"lock", "check", "get_state", "suspend",
                               "suspending"}
  \/ op = "none"   /\ p = "idle"

(* Every task is on the route of its operation and has a sandbox, and a    *)
(* CreateActor names a template.                                           *)
TaskShape ==
  \A t \in Tasks :
    /\ OnRoute(task[t].op, pc[t])
    /\ task[t].op # "none" => task[t].on \in Names
    /\ task[t].op = "create" => task[t].template \in Templates

WireShape == \A r \in wire : r.rpc = "create" => r.template \in Templates

TypeInv == TypeOK /\ TaskShape /\ WireShape

(* The lock is held from the moment a stop, a start or a suspend_again has *)
(* got past it: two of them never work on one sandbox.                     *)
Locking(t) == task[t].op \in {"start", "stop", "again"}
                /\ pc[t] # "lock"

Exclusion == \A t \in Tasks : Locking(t) => lock[task[t].on] = t

(* Nothing runs while the driver does not serve.                           *)
Quiet == server # "serving" =>
           listed = {} /\ \A t \in Tasks : task[t].op = "none"

(* The reaper's victims are not among the live.                            *)
Reaping == /\ reaped \cap live = {}
           /\ server \in {"down", "opened"} => reaped = {}

(* What sole promises: no create or delete beside it, nothing at all       *)
(* beside a create or delete, and a gateway that waits for the answer.     *)
Undisturbed ==
  \A t \in sole :
    /\ task[t].op # "none"
    /\ task[t].op = "create" => answer[task[t].on] = "new"
    /\ task[t].op = "delete" => answer[task[t].on] = "deleting"
    /\ \A u \in Tasks \ {t} : task[u].on = task[t].on =>
         /\ task[u].op \notin {"create", "delete"}
         /\ task[t].op \in {"create", "delete"} => task[u].op \notin CallOp

(* What such a task has achieved by each place of its route.               *)
AchievedBy(t) ==
  LET n == task[t].on IN
  /\ task[t].op = "stop" =>
       /\ pc[t] = "mark_memory" => n \in mark
       /\ pc[t] \in {"suspend", "suspending", "revert", "reverting"} =>
            n \in mark /\ n \in stopped
  /\ task[t].op = "again" /\ pc[t] \in {"get_state", "suspend"} =>
       n \in stopped
  /\ task[t].op \in {"start", "create"} =>
       /\ pc[t] = "unmark_memory" => n \notin mark
       /\ pc[t] = "remark_memory" => n \in mark
       /\ pc[t] \in {"resume", "resuming"} => n \notin mark /\ n \notin stopped
  /\ task[t].op = "delete" =>
       /\ pc[t] \in {"unlink", "unmark_disk", "unmark_memory"} => bundle[n] = 0
       /\ pc[t] \in {"unmark_disk", "unmark_memory"} => file[n] = 0
       /\ pc[t] = "unmark_memory" => n \notin mark

Achieved == \A t \in sole : AchievedBy(t)

(* What the gateway is sure of is so, and no call is about to change it.   *)
Assured(n) ==
  /\ answer[n] \in {"stopped", "started", "deleted"} =>
       \A t \in Tasks : task[t].on = n => task[t].op \notin CallOp
  /\ answer[n] = "stopped" =>
       /\ n \in mark
       /\ server = "down" \/ n \in stopped
       /\ actor[n].state # "none"
       /\ server = "reaping" => n \in live
  /\ answer[n] = "started" => n \notin mark /\ n \notin stopped
  /\ answer[n] = "deleted" => /\ file[n] = 0 /\ bundle[n] = 0
                              /\ n \notin mark /\ n \notin stopped

Settledness == \A n \in Names : Assured(n)

(* The inductive invariant of the driver: type, locking, reaping, and the  *)
(* three parts that carry a call's effect to the gateway's certainty.      *)
IInv == /\ TypeInv /\ Exclusion /\ Quiet /\ Reaping
        /\ Undisturbed /\ Achieved /\ Settledness
=============================================================================
