---------------------------- MODULE WatchStream -----------------------------
(***************************************************************************)
(* watch_sandboxes (src/src/lib.rs): each stream has a task that polls     *)
(* ListActors, compares with what it found before, and sends the gateway   *)
(* what changed through a bounded channel.  A poll lists the actors page   *)
(* by page and reads the driver's stopped marks after it, while both       *)
(* change; the gateway may drop a stream and open another at any time.     *)
(***************************************************************************)
EXTENDS Integers, Sequences, FiniteSets

CONSTANTS
  Names,       (* Sandbox ids, the actors' names.                          *)
  Streams,     (* Slots for watch streams.                                 *)
  None,        (* The id of an event that is an error.                     *)
  Buffer,      (* WATCH_CHANNEL_BUFFER.                                    *)
  StartStates, (* Bound: states the actors are in to begin with.           *)
  MaxChanges,  (* Bound: changes of actors and marks.                      *)
  MaxFaults    (* Bound: failed dials and polls.                           *)

ASSUME NoneAssumption == None \notin Names

Control == INSTANCE Substrate WITH Templates <- {1}, MaxUid <- 1

ASSUME BoundsAssumption ==
  /\ Buffer \in Nat \ {0}
  /\ StartStates \subseteq Control!ActorState
  /\ MaxChanges \in Nat /\ MaxFaults \in Nat

VARIABLES
  state,    (* Each actor's state on Substrate.                            *)
  stopped,  (* The sandboxes with a stopped mark.                          *)
  stream,   (* Each stream's channel and what the gateway has read off it. *)
  task,     (* Each stream's polling task.                                 *)
  changes, faults

world  == <<state, stopped, changes>>
vars   == <<world, stream, task, faults>>

-----------------------------------------------------------------------------
(* What an actor is shown as                                               *)

(* Mutant: a state the table has no row for is shown as it is.             *)
ShownUnmarked(s, mark) ==
  IF s = "none" THEN "gone" ELSE IF mark THEN "Stopped" ELSE s

(* The conditions of an actor, by the row of the table; an actor that is   *)
(* not listed is gone.                                                     *)
Shown(s, mark) ==
  CASE s = "none"             -> "gone"
    [] mark /\ s \in {"running", "resuming", "reverting", "suspended"}
                              -> "Stopped"
    [] mark /\ s = "suspending" -> "Terminating"
    [] ~mark /\ s = "running"   -> "Ready"
    [] ~mark /\ s \in {"suspending", "suspended"} -> "Checkpointed"
    [] ~mark /\ s = "resuming"  -> "Restoring"
    [] ~mark /\ s = "reverting" -> "Reverting"
    [] s = "crashed"          -> "Exited"
    [] s = "deleting"         -> "Deleting"

Views == {"gone", "Stopped", "Terminating", "Ready", "Checkpointed",
          "Restoring", "Reverting", "Exited", "Deleting"}

Gone == [n \in Names |-> "gone"]

Event == [id: Names \cup {None}, shown: Views]

Error == [id |-> None, shown |-> "gone"]

-----------------------------------------------------------------------------
(* State                                                                   *)

(* A stream's channel, and the view the gateway has from its events.       *)
Stream == [open: BOOLEAN, queue: Seq(Event), told: [Names -> Views]]

Fresh == [open |-> TRUE, queue |-> <<>>, told |-> Gone]
Shut == [open |-> FALSE, queue |-> <<>>, told |-> Gone]

(* A polling task.  unread are the names on pages not listed yet; stayed   *)
(* (history) those that have existed since the poll began.                 *)
Task == [at: {"off", "top", "dial", "error", "list", "read", "send", "sleep"},
         client: BOOLEAN, unread: SUBSET Names,
         listed: [Names -> Control!ActorState],
         prior: [Names -> Views], current: [Names -> Views],
         todo: SUBSET Names, stayed: SUBSET Names]

Off == [at |-> "off", client |-> FALSE, unread |-> {},
        listed |-> [n \in Names |-> "none"], prior |-> Gone, current |-> Gone,
        todo |-> {}, stayed |-> {}]

Init ==
  /\ state \in [Names -> StartStates]
  /\ stopped \in SUBSET {n \in Names : state[n] # "none"}
  /\ stream = [s \in Streams |-> Shut]
  /\ task = [s \in Streams |-> Off]
  /\ changes = 0
  /\ faults = 0

-----------------------------------------------------------------------------
(* The world                                                               *)

(* A state's next states: RPCs begin and settle, an actor crashes, one is  *)
(* created.                                                                *)
NextStates(s) ==
  {Control!Via[rpc] : rpc \in {r \in Control!LifecycleRpc : s \in Control!From[r]}}
    \cup (IF s \in Control!Moving THEN {Control!Settled[s]} ELSE {})
    \cup (IF s \in {"running", "resuming", "suspending"} THEN {"crashed"} ELSE {})
    \cup (IF s = "none" THEN {"suspended"} ELSE {})

Move(n) ==
  /\ changes < MaxChanges
  /\ changes' = changes + 1
  /\ \E s \in NextStates(state[n]) \ {state[n]} :
       /\ state' = [state EXCEPT ![n] = s]
       /\ task' = [t \in Streams |->
            IF s = "none" /\ task[t].at = "list"
            THEN [task[t] EXCEPT !.stayed = @ \ {n}] ELSE task[t]]
  /\ UNCHANGED <<stopped, stream, faults>>

(* A gateway call marks the sandbox stopped, or no longer.                 *)
Mark(n) ==
  /\ changes < MaxChanges
  /\ changes' = changes + 1
  /\ stopped' = IF n \in stopped THEN stopped \ {n} ELSE stopped \cup {n}
  /\ UNCHANGED <<state, stream, task, faults>>

-----------------------------------------------------------------------------
(* The gateway                                                             *)

Open(s) ==
  /\ \A t \in Streams : ~stream[t].open
  /\ task[s].at = "off"
  /\ stream' = [stream EXCEPT ![s] = Fresh]
  /\ task' = [task EXCEPT ![s] = [Off EXCEPT !.at = "top"]]
  /\ UNCHANGED <<world, faults>>

Closed(s) == [stream EXCEPT ![s] = Shut]

Drop(s) ==
  /\ stream[s].open
  /\ stream' = Closed(s)
  /\ UNCHANGED <<world, task, faults>>

(* The gateway reads an event, and drops the stream that ends in an error. *)
Receive(s) ==
  /\ stream[s].queue # <<>>
  /\ LET e == Head(stream[s].queue) IN
       stream' = IF e = Error THEN Closed(s)
                 ELSE [stream EXCEPT ![s].queue = Tail(@),
                                     ![s].told[e.id] = e.shown]
  /\ UNCHANGED <<world, task, faults>>

-----------------------------------------------------------------------------
(* The polling task                                                        *)

Goto(s, p) == task' = [task EXCEPT ![s].at = p]

End(s) == task' = [task EXCEPT ![s] = Off]

Fault == faults < MaxFaults /\ faults' = faults + 1

(* Begin to list: what the pages will show is read page by page.           *)
Listing(t) ==
  [t EXCEPT !.at = "list", !.client = TRUE, !.unread = Names,
            !.stayed = {n \in Names : state[n] # "none"}]

(* The loop begins: end if the stream is dropped, dial if there is no      *)
(* client.                                                                 *)
Top(s) ==
  /\ task[s].at = "top"
  /\ IF ~stream[s].open THEN End(s)
     ELSE IF task[s].client THEN task' = [task EXCEPT ![s] = Listing(@)]
     ELSE Goto(s, "dial")
  /\ UNCHANGED <<world, stream, faults>>

Dial(s) ==
  /\ task[s].at = "dial"
  /\ task' = [task EXCEPT ![s] = Listing(@)]
  /\ UNCHANGED <<world, stream, faults>>

DialFails(s) ==
  /\ task[s].at = "dial"
  /\ Fault
  /\ Goto(s, "error")
  /\ UNCHANGED <<world, stream>>

(* Hand an event to the channel once it has room, or learn that the stream *)
(* is dropped: there it ends the task.                                     *)
Hand(s, e) == /\ Len(stream[s].queue) < Buffer
              /\ stream' = [stream EXCEPT ![s].queue = Append(@, e)]

(* The stream ends with the error of the dial.                             *)
SendError(s) ==
  /\ task[s].at = "error"
  /\ \/ ~stream[s].open /\ UNCHANGED stream
     \/ stream[s].open /\ Hand(s, Error)
  /\ End(s)
  /\ UNCHANGED <<world, faults>>

(* A page is listed; with the last one the list is complete.               *)
Page(s, n) ==
  /\ task[s].at = "list"
  /\ n \in task[s].unread
  /\ task' = [task EXCEPT ![s].unread = @ \ {n}, ![s].listed[n] = state[n],
       ![s].at = IF task[s].unread = {n} THEN "read" ELSE "list"]
  /\ UNCHANGED <<world, stream, faults>>

(* Mutant: the poll goes on with the pages it has.                         *)
PageFailsShort(s) ==
  /\ task[s].at = "list"
  /\ Fault
  /\ task' = [task EXCEPT ![s].at = "read", ![s].unread = {},
       ![s].listed = [n \in Names |->
          IF n \in task[s].unread THEN "none" ELSE task[s].listed[n]]]
  /\ UNCHANGED <<world, stream>>

(* Mutant: a failed poll forgets what the stream has shown.                *)
PageFailsForgets(s) ==
  /\ task[s].at = "list"
  /\ Fault
  /\ task' = [task EXCEPT ![s].at = "sleep", ![s].client = FALSE,
                          ![s].unread = {}, ![s].prior = Gone]
  /\ UNCHANGED <<world, stream>>

(* The poll fails as a whole, and the client goes with it.                 *)
PageFails(s) ==
  /\ task[s].at = "list"
  /\ Fault
  /\ task' = [task EXCEPT ![s].at = "sleep", ![s].client = FALSE,
                          ![s].unread = {}]
  /\ UNCHANGED <<world, stream>>

(* The marks are read, and the differences to the last poll are to be sent.*)
Read(s) ==
  /\ task[s].at = "read"
  /\ LET now == [n \in Names |-> Shown(task[s].listed[n], n \in stopped)] IN
       task' = [task EXCEPT ![s].at = "send", ![s].current = now,
         ![s].todo = {n \in Names : now[n] # task[s].prior[n]}]
  /\ UNCHANGED <<world, stream, faults>>

Vanished(s) == {n \in task[s].todo : task[s].current[n] = "gone"}

(* Mutant: a send that failed is tried again.                              *)
SendAgain(s, n) ==
  /\ task[s].at = "send"
  /\ n \in IF Vanished(s) # {} THEN Vanished(s) ELSE task[s].todo
  /\ \/ ~stream[s].open /\ UNCHANGED <<stream, task>>
     \/ /\ stream[s].open
        /\ Hand(s, [id |-> n, shown |-> task[s].current[n]])
        /\ task' = [task EXCEPT ![s].todo = @ \ {n}]
  /\ UNCHANGED <<world, faults>>

(* One event, of those of the vanished sandboxes first; a send into a      *)
(* dropped stream ends the task.                                           *)
Send(s, n) ==
  /\ task[s].at = "send"
  /\ n \in IF Vanished(s) # {} THEN Vanished(s) ELSE task[s].todo
  /\ \/ ~stream[s].open /\ End(s) /\ UNCHANGED stream
     \/ /\ stream[s].open
        /\ Hand(s, [id |-> n, shown |-> task[s].current[n]])
        /\ task' = [task EXCEPT ![s].todo = @ \ {n}]
  /\ UNCHANGED <<world, faults>>

(* Mutant: what the first poll found stays what later ones compare with.   *)
SentOnce(s) ==
  /\ task[s].at = "send"
  /\ task[s].todo = {}
  /\ task' = [task EXCEPT ![s].at = "sleep",
       ![s].prior = IF @ = Gone THEN task[s].current ELSE @]
  /\ UNCHANGED <<world, stream, faults>>

(* All is sent, and is what the next poll compares with.                   *)
Sent(s) ==
  /\ task[s].at = "send"
  /\ task[s].todo = {}
  /\ task' = [task EXCEPT ![s].at = "sleep", ![s].prior = task[s].current]
  /\ UNCHANGED <<world, stream, faults>>

(* The sleep ends with WATCH_POLL_INTERVAL or with the stream.             *)
Sleep(s) ==
  /\ task[s].at = "sleep"
  /\ IF stream[s].open THEN Goto(s, "top") ELSE End(s)
  /\ UNCHANGED <<world, stream, faults>>

Run(s) ==
  \/ Top(s) \/ Dial(s) \/ SendError(s) \/ Read(s) \/ Sent(s) \/ Sleep(s)
  \/ \E n \in Names : Page(s, n) \/ Send(s, n)

Next ==
  \/ \E n \in Names : Move(n) \/ Mark(n)
  \/ \E s \in Streams :
       \/ Open(s) \/ Drop(s) \/ Receive(s)
       \/ Run(s) \/ DialFails(s) \/ PageFails(s)

Spec == Init /\ [][Next]_vars

(* Every RPC is answered, the task is scheduled, and the gateway reads the *)
(* stream it holds open.                                                   *)
FairSpec ==
  Spec /\ \A s \in Streams : WF_vars(Run(s)) /\ WF_vars(Receive(s))

-----------------------------------------------------------------------------
(* Properties                                                              *)

(* Every variable has its type.                                            *)
TypeOK ==
  /\ state \in [Names -> Control!ActorState]
  /\ stopped \subseteq Names
  /\ \A s \in Streams :
       /\ stream[s].open \in BOOLEAN
       /\ stream[s].told \in [Names -> Views]
       /\ Len(stream[s].queue) <= Buffer
       /\ \A i \in DOMAIN stream[s].queue : stream[s].queue[i] \in Event
  /\ task \in [Streams -> Task]
  /\ changes \in 0..MaxChanges /\ faults \in 0..MaxFaults

(* A sandbox that existed throughout a poll is never reported deleted by   *)
(* it, although pages fail and actors come and go between them: the        *)
(* gateway drops what it holds of a sandbox reported deleted.              *)
DeletesOnlyGone ==
  \A s \in Streams : task[s].at = "send" =>
    Vanished(s) \cap task[s].stayed = {}

(* Place i of a channel q speaks of n; at 0 is what its reader holds.       *)
Speaks(q, n, i) == i = 0 \/ q[i].id = n

View(q, held, n, i) == IF i = 0 THEN held[n] ELSE q[i].shown

(* No event of q says of n what was said of it last.                       *)
OnlyNews(q, held, n) ==
  \A i, j \in 0..Len(q) :
    /\ i < j /\ Speaks(q, n, i) /\ Speaks(q, n, j)
    /\ \A k \in (i + 1)..(j - 1) : ~Speaks(q, n, k)
    => View(q, held, n, i) # View(q, held, n, j)

(* Only changes are sent: no event repeats what the stream last said of    *)
(* its sandbox, whatever polls failed between them, and none says deleted  *)
(* of a sandbox it never showed.                                           *)
SendsChanges ==
  \A s \in Streams : \A n \in Names :
    OnlyNews(stream[s].queue, stream[s].told, n)

(* Once the world stays as it is, the gateway comes to know every sandbox  *)
(* from the stream it keeps open for what it is, and none that is gone,    *)
(* although it reads slowly, polls fail, pages were listed at different    *)
(* times and the marks later.                                              *)
Converges ==
  \A s \in Streams : <>[]stream[s].open =>
    <>[](\A n \in Names :
           stream[s].told[n] = Shown(state[n], n \in stopped))

(* The task of a stream the gateway dropped ends (architecture.md:140, "It *)
(* stops when the gateway drops the stream").                              *)
TasksEnd ==
  \A s \in Streams :
    (task[s].at # "off" /\ ~stream[s].open) ~> task[s].at = "off"
=============================================================================
