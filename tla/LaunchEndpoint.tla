--------------------------- MODULE LaunchEndpoint ---------------------------
(***************************************************************************)
(* The launch endpoint (launch in src/src/launch.rs) over the bundle store *)
(* and the supervisor launchers that poll it (src/runtime/launcher.py).    *)
(* A launcher asks for its sandbox's bundle and names the generation it    *)
(* runs; the handler answers with another generation at once, or waits for *)
(* a put and answers "no content" after LONG_POLL.  The handler's access   *)
(* to the store and what it makes of it are two actions: a put on another  *)
(* thread can fall between them.                                           *)
(***************************************************************************)
EXTENDS BundleStore

CONSTANTS
  Launchers,    (* Supervisor launchers, one per incarnation of an actor.  *)
  Sandbox,      (* The sandbox each of them belongs to.                    *)
  Uid,          (* The incarnation it is.                                  *)
  For,          (* The incarnation each bundle is for.                     *)
  Generation    (* Its generation.                                         *)

ASSUME LaunchersAssumption ==
  /\ Sandbox \in [Launchers -> Names]
  /\ DOMAIN Uid = Launchers
  /\ DOMAIN For = Bundles /\ DOMAIN Generation = Bundles

VARIABLES
  poll,     (* Where each launcher's request is.                           *)
  found,    (* The bundle its handler has read, None for none.             *)
  reply,    (* The answer under way to it.                                 *)
  missed,   (* Launchers whose handler has a version of the store to see.  *)
  running   (* The generation each launcher runs: `running`.               *)

endpoint == <<poll, found, reply, missed, running>>
all      == <<stores, endpoint>>

PollState == {"idle", "verify", "look", "decide", "wait", "reply"}

Refusals == {"unauthorized", "forbidden", "no content"}

ASSUME RefusalsAssumption == Bundles \cap Refusals = {}

Generations == {Generation[b] : b \in Bundles}

Init ==
  /\ StoreInit
  /\ poll = [l \in Launchers |-> "idle"]
  /\ found = [l \in Launchers |-> None]
  /\ reply = [l \in Launchers |-> None]
  /\ missed = {}
  /\ running = [l \in Launchers |-> None]

-----------------------------------------------------------------------------
(* The handler                                                             *)

Answer(l, r) ==
  /\ poll' = [poll EXCEPT ![l] = "reply"]
  /\ reply' = [reply EXCEPT ![l] = r]
  /\ found' = [found EXCEPT ![l] = None]

(* fetch: the request leaves with the generation that runs.                *)
Fetch(l) ==
  /\ up
  /\ poll[l] = "idle"
  /\ poll' = [poll EXCEPT ![l] = "verify"]
  /\ UNCHANGED <<stores, found, reply, missed, running>>

(* The token has been verified (module JwksCache), and the handler         *)
(* subscribes to the changes of the store before it looks at it.           *)
Subscribe(l) ==
  /\ poll[l] = "verify"
  /\ poll' = [poll EXCEPT ![l] = "look"]
  /\ missed' = missed \ {l}
  /\ UNCHANGED <<stores, found, reply, running>>

(* The keys could not be fetched, or do not have the token's; or the       *)
(* request names the actor of the golden snapshot, in which it was begun.  *)
Refuse(l) ==
  /\ poll[l] = "verify"
  /\ Fault
  /\ \E refusal \in {"unauthorized", "forbidden"} : Answer(l, refusal)
  /\ UNCHANGED <<disk, map, up, job, promised, raced, missed,
                 running>>

(* store.get, under the lock of the map.                                   *)
Look(l) ==
  /\ poll[l] = "look"
  /\ poll' = [poll EXCEPT ![l] = "decide"]
  /\ found' = [found EXCEPT ![l] = map[Sandbox[l]]]
  /\ UNCHANGED <<stores, reply, missed, running>>

(* Is the bundle one to hand out to this launcher?                         *)
News(l, b) == b # None /\ For[b] = Uid[l] /\ Generation[b] # running[l]

Wait(l) ==
  /\ poll' = [poll EXCEPT ![l] = "wait"]
  /\ found' = [found EXCEPT ![l] = None]
  /\ UNCHANGED reply

(* Mutant: the incarnation is not compared.                                *)
DecideAnyUid(l) ==
  LET b == found[l] IN
  /\ poll[l] = "decide"
  /\ IF b # None /\ Generation[b] # running[l] THEN Answer(l, b) ELSE Wait(l)
  /\ UNCHANGED <<stores, missed, running>>

Decide(l) ==
  LET b == found[l] IN
  /\ poll[l] = "decide"
  /\ IF News(l, b) THEN Answer(l, b)
     ELSE IF b # None /\ For[b] # Uid[l] THEN Answer(l, "forbidden")
     ELSE Wait(l)
  /\ UNCHANGED <<stores, missed, running>>

(* changed() returns, and has seen the newest version.                     *)
Wake(l) ==
  /\ poll[l] = "wait"
  /\ l \in missed
  /\ poll' = [poll EXCEPT ![l] = "look"]
  /\ missed' = missed \ {l}
  /\ UNCHANGED <<stores, found, reply, running>>

(* The deadline passes; select! may pick it although a change is due.      *)
Deadline(l) ==
  /\ poll[l] = "wait"
  /\ Answer(l, "no content")
  /\ UNCHANGED <<stores, missed, running>>

-----------------------------------------------------------------------------
(* The launcher                                                            *)

(* The answer arrives: a bundle is applied (module Launcher), anything     *)
(* else sends the launcher back to asking.                                 *)
Receive(l) ==
  /\ poll[l] = "reply"
  /\ running' = IF reply[l] \in Bundles
                  THEN [running EXCEPT ![l] = Generation[reply[l]]] ELSE running
  /\ poll' = [poll EXCEPT ![l] = "idle"]
  /\ reply' = [reply EXCEPT ![l] = None]
  /\ UNCHANGED <<stores, found, missed>>

Abandon(L) ==
  /\ poll' = [l \in Launchers |-> IF l \in L THEN "idle" ELSE poll[l]]
  /\ found' = [l \in Launchers |-> IF l \in L THEN None ELSE found[l]]
  /\ reply' = [l \in Launchers |-> IF l \in L THEN None ELSE reply[l]]
  /\ missed' = missed \ L

(* The connection breaks: an actor restored from a snapshot finds it dead, *)
(* and urlopen gives up after 25 s.                                        *)
Lose(l) ==
  /\ poll[l] # "idle"
  /\ Fault
  /\ Abandon({l})
  /\ UNCHANGED <<disk, map, up, job, promised, raced, running>>

-----------------------------------------------------------------------------
(* The store's steps, as the requests notice them                          *)

(* Mutant: a put wakes the requests that wait, and no other learns of it.  *)
NotifyWaiting(w) ==
  /\ PutNotify(w)
  /\ missed' = missed \cup {l \in Launchers : poll[l] = "wait"}
  /\ UNCHANGED <<poll, found, reply, running>>

Notify(w) ==
  /\ PutNotify(w)
  /\ missed' = missed \cup
       {l \in Launchers : poll[l] \in {"look", "decide", "wait"}}
  /\ UNCHANGED <<poll, found, reply, running>>

CrashAll ==
  /\ Crash
  /\ Abandon(Launchers)
  /\ UNCHANGED running

LauncherStep(l) ==
  \/ Fetch(l) \/ Subscribe(l) \/ Look(l) \/ Decide(l) \/ Wake(l)
  \/ Receive(l)

Next ==
  \/ QuietStep /\ UNCHANGED endpoint
  \/ CrashAll
  \/ \E w \in Writers : Notify(w)
  \/ \E l \in Launchers :
       LauncherStep(l) \/ Refuse(l) \/ Deadline(l) \/ Lose(l)

Spec == Init /\ [][Next]_all

(* A launcher never stops asking, the runtime polls the tasks that can go  *)
(* on, a call to the store that has begun ends, and the driver is started  *)
(* again.  No deadline need ever pass.                                     *)
Fairness ==
  /\ \A l \in Launchers : WF_all(LauncherStep(l))
  /\ \A w \in Writers : WF_all(Notify(w) \/ (PutStep(w) /\ UNCHANGED endpoint))
  /\ \A r \in Removers : WF_all(RemoveStep(r) /\ UNCHANGED endpoint)
  /\ WF_all(Open /\ UNCHANGED endpoint)

FairSpec == Spec /\ Fairness

-----------------------------------------------------------------------------
(* Properties                                                              *)

(* Every variable has its type.                                            *)
TypeOK ==
  /\ StoreTypeOK
  /\ poll \in [Launchers -> PollState]
  /\ found \in [Launchers -> Bundles \cup {None}]
  /\ reply \in [Launchers -> Bundles \cup Refusals \cup {None}]
  /\ missed \subseteq Launchers
  /\ running \in [Launchers -> Generations \cup {None}]

(* A request never sleeps through a bundle it should get: when it waits,   *)
(* and nothing is there to wake it, the store has no news for it, but for  *)
(* a put that is about to notify it.                                       *)
NoLostWakeup ==
  \A l \in Launchers :
    poll[l] = "wait" /\ l \notin missed /\ News(l, map[Sandbox[l]]) =>
      \E w \in Writers : job[w].at = "notify" /\ job[w].on = Sandbox[l]

(* No incarnation of an actor ever runs a bundle that was made for another *)
(* one, whichever bundles come and go under its name while it asks.        *)
OwnIncarnation ==
  \A l \in Launchers : reply[l] \in Bundles =>
    For[reply[l]] = Uid[l] /\ Generation[reply[l]] # running[l]

(* A bundle that stays is run in the end by the incarnation it is for,     *)
(* though answers are lost and the driver restarts in between.             *)
Delivered ==
  \A l \in Launchers, b \in Bundles :
    For[b] = Uid[l] /\ <>[](map[Sandbox[l]] = b) => <>(running[l] = Generation[b])
=============================================================================
