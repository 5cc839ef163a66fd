--------------------------- MODULE LauncherProofs ---------------------------
(* What TLAPS proves of Launcher, for any number of generations and with   *)
(* failures or without: its types, its three safety invariants, and that   *)
(* neither role ever goes back to an older generation.                     *)
EXTENDS Launcher, TLAPS

-----------------------------------------------------------------------------
(* The inductive invariant                                                 *)

(* The types of the two roles, as in TypeOK.                               *)
SupType ==
  [at: {"poll", "fetch", "write", "unlink", "replace", "start", "wait",
        "publish", "clean", "exited"},
   running: 0..MaxGeneration, next: 0..MaxGeneration]

BoxType ==
  [at: {"poll", "stop", "copy", "drop", "wait", "spawn", "exited"},
   running: 0..MaxGeneration, next: 0..MaxGeneration, copied: 0..3]

(* Where the supervisor role is tells what is published and who serves it. *)
Publishes ==
  /\ sup.at \in {"replace", "start", "wait", "publish"} => current = 0
  /\ sup.at \in {"poll", "fetch", "write", "unlink"} => current \in {0, sup.running}
  /\ sup.at = "clean" => current = sup.next
  /\ sup.at \in {"wait", "publish"} =>
       supervisor.of = sup.next
         /\ supervisor.is \in {"starting", "listening", "exited"}
  /\ sup.at = "publish" => supervisor.is # "starting"

(* Generations only ever follow older ones, so that none that is cleaned   *)
(* up or dropped is the one that is published or about to be.              *)
Follows ==
  /\ sup.running <= latest
  /\ sup.at \in {"write", "unlink", "replace", "start", "wait", "publish", "clean"} =>
       sup.running < sup.next /\ sup.next <= latest
  /\ sup.at \in {"unlink", "replace", "start", "wait", "publish"} =>
       sup.next \in bundles
  /\ sup.at \in {"poll", "fetch", "write", "unlink", "replace", "start", "wait",
                "publish"} =>
       box.next <= sup.running
  /\ sup.at = "clean" => box.next <= sup.next
  /\ box.at = "poll" => box.next = box.running

(* How far the sandbox role is tells whose files are in SANDBOX_DIR.       *)
Copies ==
  /\ Alive(sandbox) => box.at \in {"poll", "stop"}
  /\ box.at = "copy" =>
       box.copied < 3 /\ \A f \in Files : f <= box.copied => files[f] = box.next
  /\ box.at \in {"drop", "wait", "spawn"} => \A f \in Files : files[f] = box.next

IInv ==
  /\ TypeOK
  /\ Publishes /\ CurrentIsServed
  /\ Follows /\ CurrentIsLaid
  /\ Copies /\ FilesAreWhole

-----------------------------------------------------------------------------

LEMMA InitIInv == Init => IInv
  BY LauncherAssumption
  DEF Init, IInv, TypeOK, Publishes, CurrentIsServed, Follows, CurrentIsLaid,
      Copies, FilesAreWhole, Child, NoChild, Alive, Files, Generations

(* What the steps that set several fields of a role do to them.            *)
LEMMA FetchDoes ==
  ASSUME TypeOK, Fetch
  PROVE  /\ sup.at = "fetch" /\ latest \notin {0, sup.running}
         /\ sup' \in SupType
         /\ sup'.at = "write" /\ sup'.next = latest /\ sup'.running = sup.running
         /\ UNCHANGED <<latest, supervisor, current, bundles, boxRole>>
  BY DEF Fetch, TypeOK, SupType

LEMMA CleanDoes ==
  ASSUME TypeOK, Clean
  PROVE  /\ sup.at = "clean" /\ bundles' = bundles \ {sup.running}
         /\ sup' \in SupType
         /\ sup'.at = "poll" /\ sup'.next = sup.next /\ sup'.running = sup.next
         /\ UNCHANGED <<latest, supervisor, current, boxRole>>
  BY DEF Clean, TypeOK, SupType

LEMMA SeeDoes ==
  ASSUME TypeOK, See
  PROVE  /\ box.at = "poll" /\ current \notin {0, box.running}
         /\ box' \in BoxType
         /\ box'.at = "stop" /\ box'.next = current /\ box'.running = box.running
         /\ UNCHANGED <<latest, supRole, current, bundles, files, sandbox>>
  BY DEF See, TypeOK, BoxType

(* What setting where the sandbox role is and how much it copied does.     *)
LEMMA BoxSet ==
  ASSUME TypeOK, NEW p \in {"copy", "drop"}, NEW c \in 0..3,
         box' = [box EXCEPT !.at = p, !.copied = c]
  PROVE  /\ box' \in BoxType
         /\ box'.at = p /\ box'.next = box.next /\ box'.running = box.running
         /\ box'.copied = c
  BY DEF TypeOK, BoxType

LEMMA StopDoes ==
  ASSUME TypeOK, Stop
  PROVE  /\ box.at = "stop" /\ sandbox' = NoChild
         /\ box' \in BoxType
         /\ box'.at = "copy" /\ box'.next = box.next
         /\ box'.running = box.running /\ box'.copied = 0
         /\ UNCHANGED <<latest, supRole, current, bundles, files>>
<1>1. 0 \in 0..3
  OBVIOUS
<1>2. box' = [box EXCEPT !.at = "copy", !.copied = 0]
  BY DEF Stop
<1>3. /\ box' \in BoxType
      /\ box'.at = "copy" /\ box'.next = box.next
      /\ box'.running = box.running /\ box'.copied = 0
  BY <1>1, <1>2, BoxSet
<1> QED
  BY <1>3 DEF Stop

LEMMA CopyDoes ==
  ASSUME TypeOK, Copy, box.copied < 3
  PROVE  /\ box.at = "copy" /\ box.next \in bundles
         /\ files' = [files EXCEPT ![box.copied + 1] = box.next]
         /\ box' \in BoxType
         /\ box'.at = IF box.copied = 2 THEN "drop" ELSE "copy"
         /\ box'.next = box.next /\ box'.running = box.running
         /\ box'.copied = box.copied + 1
         /\ UNCHANGED <<latest, supRole, current, bundles, sandbox>>
<1> DEFINE p == IF box.copied = 2 THEN "drop" ELSE "copy"
<1> DEFINE c == box.copied + 1
<1>1. box.copied \in 0..3 /\ box = [box EXCEPT !.copied = box.copied]
  BY DEF TypeOK
<1>2. c \in 0..3 /\ p \in {"copy", "drop"}
  BY <1>1
<1>3. box' = [box EXCEPT !.at = p, !.copied = c]
  BY <1>1 DEF Copy, TypeOK
<1>4. /\ box' \in BoxType
      /\ box'.at = p /\ box'.next = box.next
      /\ box'.running = box.running /\ box'.copied = c
  <2> HIDE DEF p, c
  <2> QED BY <1>2, <1>3, BoxSet
<1> QED
  BY <1>4 DEF Copy

LEMMA FetchPreserves == ASSUME IInv, Fetch PROVE IInv'
<1>1. TypeOK /\ Publishes /\ CurrentIsServed /\ Follows /\ CurrentIsLaid /\ Copies /\ FilesAreWhole
  BY DEF IInv
<1>2. TypeOK'
  BY <1>1, FetchDoes, LauncherAssumption DEF TypeOK, SupType, supRole, boxRole
<1>3. Publishes'
  BY <1>1, FetchDoes DEF Publishes, TypeOK, Child, supRole, boxRole
<1>4. CurrentIsServed'
  BY <1>1, FetchDoes DEF CurrentIsServed, TypeOK, supRole, boxRole
<1>5. Follows'
  BY <1>1, FetchDoes, LauncherAssumption DEF Follows, Publishes, TypeOK, Generations, supRole, boxRole
<1>6. CurrentIsLaid'
  BY <1>1, FetchDoes, LauncherAssumption DEF CurrentIsLaid, Follows, Publishes, TypeOK, Generations, supRole, boxRole
<1>7. Copies'
  BY <1>1, FetchDoes DEF Copies, TypeOK, Files, Alive, NoChild, supRole, boxRole
<1>8. FilesAreWhole'
  BY <1>1, FetchDoes DEF FilesAreWhole, Copies, TypeOK, Files, Alive, NoChild, supRole, boxRole
<1> QED
  BY <1>2, <1>3, <1>4, <1>5, <1>6, <1>7, <1>8 DEF IInv

LEMMA CleanPreserves == ASSUME IInv, Clean PROVE IInv'
<1>1. TypeOK /\ Publishes /\ CurrentIsServed /\ Follows /\ CurrentIsLaid /\ Copies /\ FilesAreWhole
  BY DEF IInv
<1>2. TypeOK'
  BY <1>1, CleanDoes, LauncherAssumption DEF TypeOK, SupType, supRole, boxRole
<1>3. Publishes'
  BY <1>1, CleanDoes DEF Publishes, TypeOK, Child, supRole, boxRole
<1>4. CurrentIsServed'
  BY <1>1, CleanDoes DEF CurrentIsServed, TypeOK, supRole, boxRole
<1>5. Follows'
  BY <1>1, CleanDoes, LauncherAssumption DEF Follows, Publishes, TypeOK, Generations, supRole, boxRole
<1>6. CurrentIsLaid'
  BY <1>1, CleanDoes, LauncherAssumption DEF CurrentIsLaid, Follows, Publishes, TypeOK, Generations, supRole, boxRole
<1>7. Copies'
  BY <1>1, CleanDoes DEF Copies, TypeOK, Files, Alive, NoChild, supRole, boxRole
<1>8. FilesAreWhole'
  BY <1>1, CleanDoes DEF FilesAreWhole, Copies, TypeOK, Files, Alive, NoChild, supRole, boxRole
<1> QED
  BY <1>2, <1>3, <1>4, <1>5, <1>6, <1>7, <1>8 DEF IInv

LEMMA SeePreserves == ASSUME IInv, See PROVE IInv'
<1>1. TypeOK /\ Publishes /\ CurrentIsServed /\ Follows /\ CurrentIsLaid /\ Copies /\ FilesAreWhole
  BY DEF IInv
<1>2. TypeOK'
  BY <1>1, SeeDoes, LauncherAssumption DEF TypeOK, BoxType, supRole, boxRole
<1>3. Publishes'
  BY <1>1, SeeDoes DEF Publishes, TypeOK, Child, supRole, boxRole
<1>4. CurrentIsServed'
  BY <1>1, SeeDoes DEF CurrentIsServed, TypeOK, supRole, boxRole
<1>5. Follows'
  BY <1>1, SeeDoes, LauncherAssumption DEF Follows, Publishes, TypeOK, Generations, supRole, boxRole
<1>6. CurrentIsLaid'
  BY <1>1, SeeDoes, LauncherAssumption DEF CurrentIsLaid, Follows, Publishes, TypeOK, Generations, supRole, boxRole
<1>7. Copies'
  BY <1>1, SeeDoes DEF Copies, TypeOK, Files, Alive, NoChild, supRole, boxRole
<1>8. FilesAreWhole'
  BY <1>1, SeeDoes DEF FilesAreWhole, Copies, TypeOK, Files, Alive, NoChild, supRole, boxRole
<1> QED
  BY <1>2, <1>3, <1>4, <1>5, <1>6, <1>7, <1>8 DEF IInv

LEMMA StopPreserves == ASSUME IInv, Stop PROVE IInv'
<1>1. TypeOK /\ Publishes /\ CurrentIsServed /\ Follows /\ CurrentIsLaid /\ Copies /\ FilesAreWhole
  BY DEF IInv
<1>2. TypeOK'
  BY <1>1, StopDoes, LauncherAssumption DEF TypeOK, BoxType, supRole, boxRole, NoChild, Child
<1>3. Publishes'
  BY <1>1, StopDoes DEF Publishes, TypeOK, Child, supRole, boxRole
<1>4. CurrentIsServed'
  BY <1>1, StopDoes DEF CurrentIsServed, TypeOK, supRole, boxRole
<1>5. Follows'
  BY <1>1, StopDoes, LauncherAssumption DEF Follows, Publishes, TypeOK, Generations, supRole, boxRole
<1>6. CurrentIsLaid'
  BY <1>1, StopDoes, LauncherAssumption DEF CurrentIsLaid, Follows, Publishes, TypeOK, Generations, supRole, boxRole
<1>7. Copies'
  BY <1>1, StopDoes DEF Copies, TypeOK, Files, Alive, NoChild, supRole, boxRole
<1>8. FilesAreWhole'
  BY <1>1, StopDoes DEF FilesAreWhole, Copies, TypeOK, Files, Alive, NoChild, supRole, boxRole
<1> QED
  BY <1>2, <1>3, <1>4, <1>5, <1>6, <1>7, <1>8 DEF IInv

LEMMA CopyPreserves == ASSUME IInv, Copy PROVE IInv'
<1>1. TypeOK /\ Publishes /\ CurrentIsServed /\ Follows /\ CurrentIsLaid /\ Copies /\ FilesAreWhole
  BY DEF IInv
<1>2. box.copied < 3
  BY <1>1 DEF Copy, Copies
<1>3. /\ box.at = "copy" /\ box.next \in bundles
      /\ files' = [files EXCEPT ![box.copied + 1] = box.next]
      /\ box' \in BoxType
      /\ box'.at = IF box.copied = 2 THEN "drop" ELSE "copy"
      /\ box'.next = box.next /\ box'.running = box.running
      /\ box'.copied = box.copied + 1
      /\ UNCHANGED <<latest, supRole, current, bundles, sandbox>>
  BY <1>1, <1>2, CopyDoes
<1>4. /\ box.copied \in 0..2 /\ box.copied + 1 \in Files
      /\ box.next \in 0..MaxGeneration /\ files \in [Files -> 0..MaxGeneration]
  BY <1>1, <1>2 DEF TypeOK, Files
<1>5. /\ files' \in [Files -> 0..MaxGeneration]
      /\ \A f \in Files : files'[f] = IF f = box.copied + 1 THEN box.next ELSE files[f]
  BY <1>3, <1>4
<1>6. TypeOK'
  BY <1>1, <1>3, <1>5 DEF TypeOK, BoxType, supRole
<1>7. Publishes' /\ CurrentIsServed'
  BY <1>1, <1>3 DEF Publishes, CurrentIsServed, supRole
<1>8. Follows'
  BY <1>1, <1>3 DEF Follows, supRole
<1>9. CurrentIsLaid'
  BY <1>1, <1>3 DEF CurrentIsLaid, supRole
<1>10. Copies'
  <2>1. ~Alive(sandbox)'
    BY <1>1, <1>3 DEF Copies, Alive
  <2>2. \A f \in Files : f <= box.copied + 1 => files'[f] = box.next
    BY <1>1, <1>3, <1>4, <1>5 DEF Copies, Files
  <2>3. CASE box.copied = 2
    BY <2>1, <2>2, <2>3, <1>3 DEF Copies, Files
  <2>4. CASE box.copied < 2
    BY <2>1, <2>2, <2>4, <1>3, <1>4 DEF Copies, Files
  <2> QED
    BY <2>3, <2>4, <1>4
<1>11. FilesAreWhole'
  BY <1>1, <1>3 DEF FilesAreWhole, Copies, Alive
<1> QED
  BY <1>6, <1>7, <1>8, <1>9, <1>10, <1>11 DEF IInv

USE LauncherAssumption
    DEF IInv, TypeOK, Publishes, CurrentIsServed, Follows, CurrentIsLaid,
        Copies, FilesAreWhole, Child, NoChild, Alive, Files, Generations,
        supRole, boxRole, SupGoto, BoxGoto

LEMMA AskPreserves == ASSUME IInv, Ask PROVE IInv'
  BY DEF Ask
LEMMA NoNewsPreserves == ASSUME IInv, NoNews PROVE IInv'
  BY DEF NoNews
LEMMA WritePreserves == ASSUME IInv, Write PROVE IInv'
  BY DEF Write
LEMMA UnlinkPreserves == ASSUME IInv, Unlink PROVE IInv'
  BY DEF Unlink
LEMMA TerminatePreserves == ASSUME IInv, Terminate PROVE IInv'
  BY DEF Terminate
LEMMA StartPreserves == ASSUME IInv, Start PROVE IInv'
  BY DEF Start
LEMMA WaitPreserves == ASSUME IInv, WaitForListener PROVE IInv'
  BY DEF WaitForListener
LEMMA PublishPreserves == ASSUME IInv, Publish PROVE IInv'
  BY DEF Publish
LEMMA SupExitPreserves == ASSUME IInv, SupExit PROVE IInv'
  BY DEF SupExit
LEMMA CopyFailsPreserves == ASSUME IInv, CopyFails PROVE IInv'
  BY DEF CopyFails
LEMMA DropPreserves == ASSUME IInv, DropCopied PROVE IInv'
  BY DEF DropCopied
LEMMA AwaitPreserves == ASSUME IInv, AwaitSupervisor PROVE IInv'
  BY DEF AwaitSupervisor
LEMMA SpawnPreserves == ASSUME IInv, Spawn PROVE IInv'
  BY DEF Spawn
LEMMA BoxExitPreserves == ASSUME IInv, BoxExit PROVE IInv'
  BY DEF BoxExit
LEMMA PutPreserves == ASSUME IInv, Put PROVE IInv'
  BY DEF Put
LEMMA ListenPreserves == ASSUME IInv, Listen PROVE IInv'
  BY DEF Listen
LEMMA ChildExitsPreserves == ASSUME IInv, ChildExits PROVE IInv'
  BY DEF ChildExits

HIDE DEF IInv, TypeOK, Publishes, CurrentIsServed, Follows, CurrentIsLaid,
         Copies, FilesAreWhole

LEMMA NextIInv == IInv /\ [Next]_vars => IInv'
<1> SUFFICES ASSUME IInv, [Next]_vars PROVE IInv'
  OBVIOUS
<1>1. CASE UNCHANGED vars
  BY <1>1
  DEF vars, IInv, TypeOK, Publishes, CurrentIsServed, Follows, CurrentIsLaid,
      Copies, FilesAreWhole
<1>2. CASE SupRun
  BY <1>2, AskPreserves, FetchPreserves, NoNewsPreserves, WritePreserves,
     UnlinkPreserves, TerminatePreserves, StartPreserves, WaitPreserves, PublishPreserves, CleanPreserves
  DEF SupRun
<1>3. CASE BoxRun
  BY <1>3, SeePreserves, StopPreserves, CopyPreserves, CopyFailsPreserves,
     DropPreserves, AwaitPreserves, SpawnPreserves
  DEF BoxRun
<1> QED
  BY <1>1, <1>2, <1>3, SupExitPreserves, BoxExitPreserves, PutPreserves,
     ListenPreserves, ChildExitsPreserves
  DEF Next

(* The inductive invariant holds of every behaviour of the launchers.      *)
THEOREM Invariant == Spec => []IInv
<1>1. Init => IInv
  BY InitIInv
<1>2. IInv /\ [Next]_vars => IInv'
  BY NextIInv
<1> QED
  BY <1>1, <1>2, PTL DEF Spec

(* Every variable of the launchers keeps its type.                         *)
THEOREM TypeCorrect == Spec => []TypeOK
<1>1. IInv => TypeOK
  BY DEF IInv
<1> QED
  BY <1>1, Invariant, PTL

(* CURRENT never names a generation whose supervisor is not up yet or is   *)
(* being replaced (launcher.py:137-155).                                   *)
THEOREM PublishedIsServed == Spec => []CurrentIsServed
<1>1. IInv => CurrentIsServed
  BY DEF IInv
<1> QED
  BY <1>1, Invariant, PTL

(* The clean-up of the generation that ran before (launcher.py:154) and of *)
(* what was copied (launcher.py:239) never take a published generation     *)
(* away from a sandbox role that has yet to take it up.                    *)
THEOREM PublishedIsLaid == Spec => []CurrentIsLaid
<1>1. IInv => CurrentIsLaid
  BY DEF IInv
<1> QED
  BY <1>1, Invariant, PTL

(* The files under a running sandbox are all of its own generation         *)
(* (launcher.py:232-239).                                                  *)
THEOREM FilesStayWhole == Spec => []FilesAreWhole
<1>1. IInv => FilesAreWhole
  BY DEF IInv
<1> QED
  BY <1>1, Invariant, PTL

-----------------------------------------------------------------------------
(* No role goes back                                                       *)

(* The sandbox role takes up what is newer than what it runs, and what is  *)
(* published is never older than what it takes up.                         *)
Ahead == /\ box.running <= box.next
         /\ current # 0 => box.next <= current

Fields ==
  /\ sup.running \in Nat /\ sup.next \in Nat /\ box.running \in Nat
  /\ box.next \in Nat /\ current \in Nat

LEMMA FieldsAreNumbers == TypeOK => Fields
BY LauncherAssumption DEF TypeOK, Fields

(* What the steps do to the generations the roles run and take up.         *)
LEMMA SupRunMoves ==
  ASSUME TypeOK, SupRun \/ SupExit
  PROVE  /\ box' = box
         /\ \/ sup'.running = sup.running
            \/ sup.at = "clean" /\ sup'.running = sup.next
         /\ \/ current' \in {current, 0}
            \/ sup.at = "publish" /\ current' = sup.next
BY DEF SupRun, SupExit, Ask, Fetch, NoNews, Write, Unlink, Terminate, Start,
   WaitForListener, Publish, Clean, SupGoto, TypeOK, boxRole

LEMMA BoxRunMoves ==
  ASSUME TypeOK, Copies, BoxRun \/ BoxExit
  PROVE  /\ sup' = sup /\ current' = current
         /\ \/ box'.running = box.running /\ box'.next = box.next
            \/ /\ box.at = "poll" /\ current \notin {0, box.running}
               /\ box'.running = box.running /\ box'.next = current
            \/ /\ box.at = "spawn"
               /\ box'.running = box.next /\ box'.next = box.next
<1>1. box \in BoxType
  BY DEF TypeOK, BoxType
<1>2. CASE See
  BY <1>2, SeeDoes DEF supRole
<1>3. CASE Stop
  BY <1>3, StopDoes DEF supRole
<1>4. CASE Copy
  BY <1>4, CopyDoes DEF supRole, Copies, Copy
<1>5. CASE CopyFails \/ DropCopied \/ AwaitSupervisor \/ Spawn
  BY <1>1, <1>5 DEF CopyFails, DropCopied, AwaitSupervisor, Spawn, BoxGoto,
     BoxType, supRole
<1>6. CASE BoxExit
  BY <1>1, <1>6 DEF BoxExit, BoxGoto, BoxType, supRole
<1> QED BY <1>2, <1>3, <1>4, <1>5, <1>6 DEF BoxRun

LEMMA AheadStep ==
  ASSUME IInv, Ahead, [Next]_vars
  PROVE  /\ Ahead'
         /\ sup'.running # sup.running => sup'.running > sup.running
         /\ box'.running # box.running => box'.running > box.running
<1>1. TypeOK /\ Follows /\ Copies /\ Fields
  BY FieldsAreNumbers DEF IInv
<1>2. CASE SupRun \/ SupExit
  <2>1. sup.at \in {"clean", "publish"} => sup.running < sup.next
    BY <1>1 DEF Follows
  <2>2. sup.at = "publish" => box.next <= sup.running
    BY <1>1 DEF Follows
  <2> QED BY <1>1, <1>2, <2>1, <2>2, SupRunMoves DEF Ahead, Fields
<1>3. CASE BoxRun \/ BoxExit
  <2>1. box.at = "poll" => box.next = box.running
    BY <1>1 DEF Follows
  <2> QED BY <1>1, <1>3, <2>1, BoxRunMoves DEF Ahead, Fields
<1>4. CASE Put \/ Listen \/ ChildExits \/ UNCHANGED vars
  BY <1>4 DEF Put, Listen, ChildExits, vars, supRole, boxRole, Ahead
<1> QED BY <1>2, <1>3, <1>4 DEF Next

(* Bundles may be stored, launchers overtaken and children lost as they    *)
(* like: what a role comes to run is newer than what it ran before, and no *)
(* clean-up or late copy takes it back (launcher.py:137-156, :213-243).    *)
THEOREM NeverBack == Spec => OnlyNewer
<1>1. Init => Ahead
  BY DEF Init, Ahead
<1>2. IInv /\ Ahead /\ [Next]_vars => Ahead'
  BY AheadStep
<1>3. IInv /\ Ahead /\ [Next]_vars =>
        [/\ sup'.running # sup.running => sup'.running > sup.running
         /\ box'.running # box.running => box'.running > box.running]_vars
  BY AheadStep
<1> QED BY <1>1, <1>2, <1>3, Invariant, PTL DEF Spec, OnlyNewer
=============================================================================
