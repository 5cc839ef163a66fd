------------------------------ MODULE Launcher ------------------------------
(***************************************************************************)
(* The two launchers of an actor (src/runtime/launcher.py) once it has     *)
(* been restored: the supervisor role applies the newest bundle, the       *)
(* sandbox role follows the generation that is published on the directory  *)
(* the containers share.  They have only that directory and the            *)
(* supervisor's listener between them.  Generations are numbered in the    *)
(* order the driver stores them.  A suspend and a resume leave all this as *)
(* it is, and a revert takes it back to where it once was.                 *)
(***************************************************************************)
EXTENDS Naturals

CONSTANTS
  MaxGeneration,  (* Bound: bundles stored for the actor.                  *)
  MayFail         (* Do children exit, listeners stay away, signals come?  *)

ASSUME LauncherAssumption == MaxGeneration \in Nat /\ MayFail \in BOOLEAN

VARIABLES
  latest,      (* The driver's newest bundle, 0 for none.                  *)
  sup,         (* The supervisor role, the generation it runs and applies. *)
  supervisor,  (* Its child and the generation of its files.               *)
  current,     (* CURRENT: the published generation, 0 for no such file.   *)
  bundles,     (* The generations laid out in SANDBOX_BUNDLES.             *)
  box,         (* The sandbox role, the generation it runs and takes up.   *)
  files,       (* The generation of each file in SANDBOX_DIR.              *)
  sandbox      (* Its child, its files' generation and the supervisor's.   *)

supRole == <<sup, supervisor>>
boxRole == <<box, files, sandbox>>
vars    == <<latest, supRole, current, bundles, boxRole>>

Generations == 1..MaxGeneration

(* bootstrap.json, server.crt and server.key, in the order they are copied.*)
Files == 1..3

NoChild == [is |-> "none", of |-> 0, against |-> 0]

Child == [is: {"none", "starting", "listening", "running", "exited"},
          of: 0..MaxGeneration, against: 0..MaxGeneration]

Alive(c) == c.is \in {"starting", "listening", "running"}

Init ==
  /\ latest = 0
  /\ sup = [at |-> "poll", running |-> 0, next |-> 0]
  /\ supervisor = NoChild
  /\ current = 0
  /\ bundles = {}
  /\ box = [at |-> "poll", running |-> 0, next |-> 0, copied |-> 0]
  /\ files = [f \in Files |-> 0]
  /\ sandbox = NoChild

-----------------------------------------------------------------------------
(* The supervisor role                                                     *)

SupGoto(p) == sup' = [sup EXCEPT !.at = p]

(* While its child runs the role asks for news.                            *)
Ask ==
  /\ sup.at = "poll"
  /\ supervisor.is # "exited"
  /\ SupGoto("fetch")
  /\ UNCHANGED <<latest, supervisor, current, bundles, boxRole>>

(* Mutant: any stored bundle may be handed over.                           *)
FetchAny ==
  /\ sup.at = "fetch"
  /\ \E g \in 1..latest \ {sup.running} :
       sup' = [sup EXCEPT !.at = "write", !.next = g]
  /\ UNCHANGED <<latest, supervisor, current, bundles, boxRole>>

(* The newest bundle is handed over, unless it is the running one, and is  *)
(* applied even if the child has exited since the role asked.              *)
Fetch ==
  /\ sup.at = "fetch"
  /\ latest \notin {0, sup.running}
  /\ sup' = [sup EXCEPT !.at = "write", !.next = latest]
  /\ UNCHANGED <<latest, supervisor, current, bundles, boxRole>>

(* Nothing new in time, a refusal, or no answer that can be read.          *)
NoNews ==
  /\ sup.at = "fetch"
  /\ SupGoto("poll")
  /\ UNCHANGED <<latest, supervisor, current, bundles, boxRole>>

(* Both roles' files of the generation are laid out.                       *)
Write ==
  /\ sup.at = "write"
  /\ bundles' = bundles \cup {sup.next}
  /\ SupGoto("unlink")
  /\ UNCHANGED <<latest, supervisor, current, boxRole>>

(* Mutant: the old generation stays published while the listener changes   *)
(* hands.                                                                  *)
UnlinkNot ==
  /\ sup.at = "unlink"
  /\ SupGoto("replace")
  /\ UNCHANGED <<latest, supervisor, current, bundles, boxRole>>

(* No generation is current while the listener changes hands.              *)
Unlink ==
  /\ sup.at = "unlink"
  /\ current' = IF sup.running = 0 THEN current ELSE 0
  /\ SupGoto("replace")
  /\ UNCHANGED <<latest, supervisor, bundles, boxRole>>

(* The old supervisor is terminated, and has ended when the new one starts.*)
Terminate ==
  /\ sup.at = "replace"
  /\ supervisor' = [supervisor EXCEPT !.is = "none"]
  /\ SupGoto("start")
  /\ UNCHANGED <<latest, current, bundles, boxRole>>

Start ==
  /\ sup.at = "start"
  /\ supervisor' = [NoChild EXCEPT !.is = "starting", !.of = sup.next]
  /\ SupGoto("wait")
  /\ UNCHANGED <<latest, current, bundles, boxRole>>

WaitForListener ==
  /\ sup.at = "wait"
  /\ supervisor.is = "listening"
  /\ SupGoto("publish")
  /\ UNCHANGED <<latest, supervisor, current, bundles, boxRole>>

Publish ==
  /\ sup.at = "publish"
  /\ current' = sup.next
  /\ SupGoto("clean")
  /\ UNCHANGED <<latest, supervisor, bundles, boxRole>>

(* Mutant: the generation just published is cleaned up.                    *)
CleanNew ==
  /\ sup.at = "clean"
  /\ bundles' = bundles \ {sup.next}
  /\ sup' = [sup EXCEPT !.at = "poll", !.running = sup.next]
  /\ UNCHANGED <<latest, supervisor, current, boxRole>>

(* The generation that ran before is cleaned up, whether or not the        *)
(* sandbox role still copies it.                                           *)
Clean ==
  /\ sup.at = "clean"
  /\ bundles' = bundles \ {sup.running}
  /\ sup' = [sup EXCEPT !.at = "poll", !.running = sup.next]
  /\ UNCHANGED <<latest, supervisor, current, boxRole>>

(* The role sees its child's exit at its next poll; the listener does not  *)
(* come up in its time; a signal comes, and the child ends with the role.  *)
SupExit ==
  /\ \/ sup.at = "poll" /\ supervisor.is = "exited" /\ UNCHANGED supervisor
     \/ MayFail /\ sup.at = "wait" /\ UNCHANGED supervisor
     \/ /\ MayFail /\ sup.at # "exited"
        /\ supervisor' = IF Alive(supervisor)
                         THEN [supervisor EXCEPT !.is = "exited"] ELSE supervisor
  /\ SupGoto("exited")
  /\ UNCHANGED <<latest, current, bundles, boxRole>>

-----------------------------------------------------------------------------
(* The sandbox role                                                        *)

BoxGoto(p) == box' = [box EXCEPT !.at = p]

(* Mutant: only the first generation is taken up.                          *)
SeeOnce ==
  /\ box.at = "poll"
  /\ sandbox.is # "exited"
  /\ current # 0 /\ box.running = 0
  /\ box' = [box EXCEPT !.at = "stop", !.next = current]
  /\ UNCHANGED <<latest, supRole, current, bundles, files, sandbox>>

(* A generation other than the running one is published.                   *)
See ==
  /\ box.at = "poll"
  /\ sandbox.is # "exited"
  /\ current \notin {0, box.running}
  /\ box' = [box EXCEPT !.at = "stop", !.next = current]
  /\ UNCHANGED <<latest, supRole, current, bundles, files, sandbox>>

(* Mutant: the old sandbox is left to end by itself.                       *)
StopNot ==
  /\ box.at = "stop"
  /\ box' = [box EXCEPT !.at = "copy", !.copied = 0]
  /\ UNCHANGED <<latest, supRole, current, bundles, files, sandbox>>

Stop ==
  /\ box.at = "stop"
  /\ sandbox' = NoChild
  /\ box' = [box EXCEPT !.at = "copy", !.copied = 0]
  /\ UNCHANGED <<latest, supRole, current, bundles, files>>

(* One file is copied.                                                     *)
Copy ==
  /\ box.at = "copy"
  /\ box.next \in bundles
  /\ files' = [files EXCEPT ![box.copied + 1] = box.next]
  /\ box' = [box EXCEPT !.copied = @ + 1,
                        !.at = IF box.copied = 2 THEN "drop" ELSE "copy"]
  /\ UNCHANGED <<latest, supRole, current, bundles, sandbox>>

(* The generation has been cleaned up before it was copied.                *)
CopyFails ==
  /\ box.at = "copy"
  /\ box.next \notin bundles
  /\ BoxGoto("exited")
  /\ UNCHANGED <<latest, supRole, current, bundles, files, sandbox>>

DropCopied ==
  /\ box.at = "drop"
  /\ bundles' = bundles \ {box.next}
  /\ BoxGoto("wait")
  /\ UNCHANGED <<latest, supRole, current, files, sandbox>>

(* The wait is for a listener, whichever supervisor's it is.               *)
AwaitSupervisor ==
  /\ box.at = "wait"
  /\ supervisor.is = "listening"
  /\ BoxGoto("spawn")
  /\ UNCHANGED <<latest, supRole, current, bundles, files, sandbox>>

Spawn ==
  /\ box.at = "spawn"
  /\ sandbox' = [is |-> "running", of |-> box.next, against |-> supervisor.of]
  /\ box' = [box EXCEPT !.at = "poll", !.running = box.next]
  /\ UNCHANGED <<latest, supRole, current, bundles, files>>

BoxExit ==
  /\ \/ box.at = "poll" /\ sandbox.is = "exited" /\ UNCHANGED sandbox
     \/ MayFail /\ box.at = "wait" /\ UNCHANGED sandbox
     \/ /\ MayFail /\ box.at # "exited"
        /\ sandbox' = IF Alive(sandbox)
                      THEN [sandbox EXCEPT !.is = "exited"] ELSE sandbox
  /\ BoxGoto("exited")
  /\ UNCHANGED <<latest, supRole, current, bundles, files>>

-----------------------------------------------------------------------------
(* The driver and the children                                             *)

Put ==
  /\ latest < MaxGeneration
  /\ latest' = latest + 1
  /\ UNCHANGED <<supRole, current, bundles, boxRole>>

Listen ==
  /\ supervisor.is = "starting"
  /\ supervisor' = [supervisor EXCEPT !.is = "listening"]
  /\ UNCHANGED <<latest, sup, current, bundles, boxRole>>

(* A child exits by itself.                                                *)
ChildExits ==
  /\ MayFail
  /\ \/ /\ Alive(supervisor)
        /\ supervisor' = [supervisor EXCEPT !.is = "exited"]
        /\ UNCHANGED sandbox
     \/ /\ Alive(sandbox)
        /\ sandbox' = [sandbox EXCEPT !.is = "exited"]
        /\ UNCHANGED supervisor
  /\ UNCHANGED <<latest, sup, current, bundles, box, files>>

SupRun ==
  \/ Ask \/ Fetch \/ NoNews \/ Write \/ Unlink \/ Terminate \/ Start
  \/ WaitForListener \/ Publish \/ Clean

BoxRun ==
  See \/ Stop \/ Copy \/ CopyFails \/ DropCopied \/ AwaitSupervisor \/ Spawn

Next ==
  SupRun \/ SupExit \/ BoxRun \/ BoxExit \/ Put \/ Listen \/ ChildExits

Spec == Init /\ [][Next]_vars

(* Both launchers run, a supervisor that is left alone comes to listen,    *)
(* and of the polls that could bring news not all fail (Delivered, module  *)
(* LaunchEndpoint).                                                        *)
FairSpec ==
  Spec /\ WF_vars(SupRun) /\ SF_vars(Fetch) /\ WF_vars(BoxRun) /\ WF_vars(Listen)

-----------------------------------------------------------------------------
(* Properties                                                              *)

(* Every variable has its type.                                            *)
TypeOK ==
  /\ latest \in 0..MaxGeneration
  /\ sup \in [at: {"poll", "fetch", "write", "unlink", "replace", "start",
                   "wait", "publish", "clean", "exited"},
              running: 0..MaxGeneration, next: 0..MaxGeneration]
  /\ supervisor \in Child /\ sandbox \in Child
  /\ current \in 0..MaxGeneration
  /\ bundles \subseteq Generations
  /\ box \in [at: {"poll", "stop", "copy", "drop", "wait", "spawn", "exited"},
              running: 0..MaxGeneration, next: 0..MaxGeneration,
              copied: 0..3]
  /\ files \in [Files -> 0..MaxGeneration]

(* The published generation is that of the supervisor that listens, or of  *)
(* one that has exited since: what the sandbox role reads never names a    *)
(* generation whose supervisor is not up yet or is being replaced.         *)
CurrentIsServed ==
  current # 0 =>
    supervisor.of = current /\ supervisor.is \in {"listening", "exited"}

(* The published generation can be taken up: its files are laid out until  *)
(* the sandbox role has copied them.                                       *)
CurrentIsLaid ==
  current # 0 /\ (current # box.next \/ box.at \in {"stop", "copy"}) =>
    current \in bundles

(* While a sandbox runs, the files it was started on are all of its own    *)
(* generation, although the launchers replace them without a lock.         *)
FilesAreWhole ==
  Alive(sandbox) => \A f \in Files : files[f] = sandbox.of

(* Neither role ever goes back: what it comes to run is newer than what it *)
(* ran before, however often it is overtaken between seeing a generation   *)
(* and running it, and whatever is cleaned up meanwhile.                   *)
OnlyNewer ==
  [][/\ sup'.running # sup.running => sup'.running > sup.running
     /\ box'.running # box.running => box'.running > box.running]_vars

(* A sandbox starts against the supervisor of its own generation           *)
(* (launcher.py:137, "No current generation while the listener changes     *)
(* hands, so the sandbox role does not start on the old files against the  *)
(* new supervisor").                                                       *)
StartsOnItsOwn ==
  [][box.at = "spawn" /\ box'.at = "poll" => sandbox'.of = sandbox'.against]_vars

(* Bundles may follow each other at any moment: in the end both containers *)
(* run the newest, unless a child or a role exits, the sandbox role of     *)
(* what it copied being cleaned up, for one.                               *)
RunsLatest ==
  \/ [](latest = 0)
  \/ <>("exited" \in {sup.at, box.at, supervisor.is, sandbox.is})
  \/ <>[](/\ supervisor.is = "listening" /\ supervisor.of = latest
          /\ sandbox.is = "running" /\ sandbox.of = latest)
=============================================================================
