---------------------------- MODULE BundleStore -----------------------------
(***************************************************************************)
(* The bundle store of the driver (BundleStore in src/src/launch.rs): one  *)
(* <name>.json file per sandbox, replaced by writing <name>.json.tmp and   *)
(* renaming it, and a map in memory that is read back when the driver      *)
(* starts.  put and remove run on a multi-threaded runtime: one action per *)
(* system call or access to the map.                                       *)
(*                                                                         *)
(* A file is known by what is in it.  Two puts of one sandbox share the    *)
(* temporary file's name, so a put that has it open can find its file      *)
(* truncated, overwritten or renamed by the other.                         *)
(***************************************************************************)
EXTENDS Naturals, FiniteSets

CONSTANTS
  Names,        (* Sandboxes.                                              *)
  Bundles,      (* What can be stored for one.                             *)
  Writers,      (* Slots for calls of put.                                 *)
  Removers,     (* Slots for calls of remove.                              *)
  None,         (* No file, no bundle, no sandbox.                         *)
  Empty,        (* The content of a file that has just been opened.        *)
  Mixed,        (* The content of a file that does not parse.              *)
  Unknown,      (* No promise about a sandbox's bundle.                    *)
  MaxFaults     (* Bound: crashes, failed writes and cancellations.        *)

ASSUME ContentAssumption ==
  /\ None \notin Bundles \cup {Empty, Mixed, Unknown} \cup Names
  /\ Bundles \cap {Empty, Mixed, Unknown} = {}
  /\ Empty # Mixed
ASSUME SlotsAssumption == Writers \cap Removers = {}
ASSUME FaultsAssumption == MaxFaults \in Nat

VARIABLES
  tmp,       (* Content of each <name>.json.tmp, None for no file.         *)
  json,      (* Content of each <name>.json.                               *)
  map,       (* The bundles in memory.                                     *)
  up,        (* Has the store been opened?                                 *)
  job,       (* What each slot is doing.                                   *)
  promised,  (* History: the bundle, or None for its absence, that the     *)
             (* last call for a sandbox promised when it returned.         *)
  raced,     (* History: sandboxes that two puts have been for at once.    *)
  faults     (* Failures so far.                                           *)

disk   == <<tmp, json>>
stores == <<tmp, json, map, up, job, promised, raced, faults>>

(* A slot's locals.  fd tells which file the put has open: the temporary   *)
(* one, the one it has been renamed to, or one that is no longer there.    *)
(* alone (history) tells whether no other call for the sandbox has         *)
(* overlapped this one.                                                    *)
Idle == [at |-> "idle", on |-> None, bundle |-> None, fd |-> "gone",
         alone |-> FALSE]

Job == [at: {"idle", "open", "write", "rename", "insert", "notify", "drop",
             "unlink"},
        on: Names \cup {None}, bundle: Bundles \cup {None},
        fd: {"tmp", "json", "gone"}, alone: BOOLEAN]

StoreInit ==
  /\ tmp = [n \in Names |-> None]
  /\ json = [n \in Names |-> None]
  /\ map = [n \in Names |-> None]
  /\ up = TRUE
  /\ job = [s \in Writers \cup Removers |-> Idle]
  /\ promised = [n \in Names |-> None]
  /\ raced = {}
  /\ faults = 0

Fault == faults < MaxFaults /\ faults' = faults + 1

Busy(n) == {s \in Writers \cup Removers : job[s].on = n}

Goto(s, p) == job' = [job EXCEPT ![s].at = p]

Begin(s, p, n, b) ==
  /\ job' = [r \in DOMAIN job |->
       IF r = s THEN [at |-> p, on |-> n, bundle |-> b, fd |-> "gone",
                      alone |-> Busy(n) = {}]
       ELSE IF r \in Busy(n) THEN [job[r] EXCEPT !.alone = FALSE]
       ELSE job[r]]
  /\ promised' = [promised EXCEPT ![n] = Unknown]

(* The end of a call that went well.                                       *)
Promise(s, b) ==
  promised' = IF job[s].alone THEN [promised EXCEPT ![job[s].on] = b]
                              ELSE promised

(* The end of one that did not.                                            *)
Stop(s) == job' = [job EXCEPT ![s] = Idle] /\ UNCHANGED promised

-----------------------------------------------------------------------------
(* put                                                                     *)

Put(w, n, b) ==
  /\ up
  /\ job[w].at = "idle"
  /\ Begin(w, "open", n, b)
  /\ raced' = IF Busy(n) \cap Writers = {} THEN raced ELSE raced \cup {n}
  /\ UNCHANGED <<disk, map, up, faults>>

(* Mutant: the file itself is opened and truncated.                        *)
PutOpenInPlace(w) ==
  LET n == job[w].on IN
  /\ job[w].at = "open"
  /\ json' = [json EXCEPT ![n] = Empty]
  /\ tmp' = [tmp EXCEPT ![n] = json[n]]
  /\ job' = [job EXCEPT ![w].at = "write", ![w].fd = "json"]
  /\ UNCHANGED <<map, up, promised, faults, raced>>

(* Opened for writing, created if need be, truncated if not.               *)
PutOpen(w) ==
  /\ job[w].at = "open"
  /\ tmp' = [tmp EXCEPT ![job[w].on] = Empty]
  /\ job' = [job EXCEPT ![w].at = "write", ![w].fd = "tmp"]
  /\ UNCHANGED <<json, map, up, promised, faults, raced>>

(* A file once b has been written over c from its start: what is longer    *)
(* sticks out at the end.                                                  *)
Over(c, b) == IF c \in {Empty, b} THEN {b} ELSE {b, Mixed}

PutWrite(w) ==
  LET n == job[w].on  b == job[w].bundle IN
  /\ job[w].at = "write"
  /\ CASE job[w].fd = "tmp"  -> /\ \E c \in Over(tmp[n], b) :
                                     tmp' = [tmp EXCEPT ![n] = c]
                                /\ UNCHANGED json
       [] job[w].fd = "json" -> /\ \E c \in Over(json[n], b) :
                                     json' = [json EXCEPT ![n] = c]
                                /\ UNCHANGED tmp
       [] OTHER              -> UNCHANGED disk
  /\ Goto(w, "rename")
  /\ UNCHANGED <<map, up, promised, faults, raced>>

(* Where a file that another put has open is after the rename.             *)
Renamed == [tmp |-> "json", json |-> "gone", gone |-> "gone"]

(* The rename takes whatever has the temporary name by now.                *)
PutRename(w) ==
  LET n == job[w].on IN
  /\ job[w].at = "rename"
  /\ IF tmp[n] = None
       THEN Stop(w) /\ UNCHANGED disk
       ELSE /\ json' = [json EXCEPT ![n] = tmp[n]]
            /\ tmp' = [tmp EXCEPT ![n] = None]
            /\ job' = [s \in DOMAIN job |->
                 IF s = w THEN [job[s] EXCEPT !.at = "insert"]
                 ELSE IF s \in Busy(n) THEN [job[s] EXCEPT !.fd = Renamed[@]]
                 ELSE job[s]]
            /\ UNCHANGED promised
  /\ UNCHANGED <<map, up, faults, raced>>

PutInsert(w) ==
  /\ job[w].at = "insert"
  /\ map' = [map EXCEPT ![job[w].on] = job[w].bundle]
  /\ Goto(w, "notify")
  /\ UNCHANGED <<disk, up, promised, faults, raced>>

(* send_modify wakes the launch requests (module LaunchEndpoint).          *)
PutNotify(w) ==
  /\ job[w].at = "notify"
  /\ Promise(w, job[w].bundle)
  /\ job' = [job EXCEPT ![w] = Idle]
  /\ UNCHANGED <<disk, map, up, faults, raced>>

(* A write fails part of the way, an open or a rename at once, or the call *)
(* is dropped while it waits for the map.                                  *)
PutFails(w) ==
  /\ job[w].at \in {"open", "write", "rename", "insert"}
  /\ Fault
  /\ IF job[w].at = "write" /\ job[w].fd # "gone"
       THEN IF job[w].fd = "tmp"
              THEN tmp' = [tmp EXCEPT ![job[w].on] = Mixed] /\ UNCHANGED json
              ELSE json' = [json EXCEPT ![job[w].on] = Mixed] /\ UNCHANGED tmp
       ELSE UNCHANGED disk
  /\ Stop(w)
  /\ UNCHANGED <<map, up, raced>>

-----------------------------------------------------------------------------
(* remove                                                                  *)

Remove(r, n) ==
  /\ up
  /\ job[r].at = "idle"
  /\ Begin(r, "drop", n, None)
  /\ UNCHANGED <<disk, map, up, faults, raced>>

RemoveDrop(r) ==
  /\ job[r].at = "drop"
  /\ map' = [map EXCEPT ![job[r].on] = None]
  /\ Goto(r, "unlink")
  /\ UNCHANGED <<disk, up, promised, faults, raced>>

(* Mutant: only the map forgets.                                           *)
RemoveKeepsFile(r) ==
  /\ job[r].at = "unlink"
  /\ Promise(r, None)
  /\ job' = [job EXCEPT ![r] = Idle]
  /\ UNCHANGED <<disk, map, up, faults, raced>>

(* A put that had the file open writes to one nobody will find.            *)
RemoveUnlink(r) ==
  LET n == job[r].on IN
  /\ job[r].at = "unlink"
  /\ json' = [json EXCEPT ![n] = None]
  /\ Promise(r, None)
  /\ job' = [s \in DOMAIN job |->
       IF s = r THEN Idle
       ELSE IF s \in Busy(n) /\ job[s].fd = "json" /\ json[n] # None
         THEN [job[s] EXCEPT !.fd = "gone"]
       ELSE job[s]]
  /\ UNCHANGED <<tmp, map, up, faults, raced>>

RemoveFails(r) ==
  /\ job[r].at \in {"drop", "unlink"}
  /\ Fault
  /\ Stop(r)
  /\ UNCHANGED <<disk, map, up, raced>>

-----------------------------------------------------------------------------
(* The process                                                             *)

Crash ==
  /\ up
  /\ Fault
  /\ up' = FALSE
  /\ job' = [s \in DOMAIN job |-> Idle]
  /\ map' = [n \in Names |-> None]
  /\ UNCHANGED <<disk, promised, raced>>

Readable(n) == json[n] \in Bundles \cup {None}

(* A file that does not parse fails the whole open, and the driver exits.  *)
Open ==
  /\ ~up
  /\ \A n \in Names : Readable(n)
  /\ up' = TRUE
  /\ map' = json
  /\ UNCHANGED <<disk, job, promised, faults, raced>>

-----------------------------------------------------------------------------

PutStep(w) == \/ PutOpen(w) \/ PutWrite(w) \/ PutRename(w) \/ PutInsert(w)
              \/ PutFails(w)

RemoveStep(r) == RemoveDrop(r) \/ RemoveUnlink(r) \/ RemoveFails(r)

(* Every step but PutNotify and Crash, which launch requests notice.       *)
QuietStep ==
  \/ \E w \in Writers : PutStep(w) \/ \E n \in Names, b \in Bundles : Put(w, n, b)
  \/ \E r \in Removers : RemoveStep(r) \/ \E n \in Names : Remove(r, n)
  \/ Open

StoreNext == QuietStep \/ Crash \/ \E w \in Writers : PutNotify(w)

StoreSpec == StoreInit /\ [][StoreNext]_stores

-----------------------------------------------------------------------------
(* Properties                                                              *)

(* Every variable has its type.                                            *)
StoreTypeOK ==
  /\ tmp \in [Names -> Bundles \cup {None, Empty, Mixed}]
  /\ json \in [Names -> Bundles \cup {None, Empty, Mixed}]
  /\ map \in [Names -> Bundles \cup {None}]
  /\ up \in BOOLEAN
  /\ job \in [Writers \cup Removers -> Job]
  /\ promised \in [Names -> Bundles \cup {None, Unknown}]
  /\ raced \subseteq Names
  /\ faults \in 0..MaxFaults

(* What a call that was alone promised stands, in memory and on disk,      *)
(* until another call for the sandbox begins, through any crash: a put     *)
(* leaves its bundle, a remove none.                                       *)
Kept ==
  \A n \in Names : promised[n] # Unknown =>
    json[n] = promised[n] /\ (up => map[n] = promised[n])

(* Whatever step a crash follows, the driver can start again: every file   *)
(* under its final name is a whole bundle.  Two puts of one sandbox that   *)
(* overlap, which the gateway's repetition of a create could make, share   *)
(* the temporary file and are not promised that.                           *)
AlwaysReadable == \A n \in Names \ raced : Readable(n)

(* The store as module StoreSteps has it: the temporary file is not seen,  *)
(* everything up to the rename is one step, and nothing is known of a      *)
(* sandbox that two puts have been for at once.                            *)
Known(f) == [n \in Names |-> IF n \in raced THEN Unknown ELSE f[n]]

Stage(p) == IF p \in {"open", "write", "rename"} THEN "put" ELSE p

Calls == [s \in Writers \cup Removers |->
            [at |-> Stage(job[s].at), on |-> job[s].on,
             bundle |-> job[s].bundle]]

Steps == INSTANCE StoreSteps
           WITH file <- Known(json), map <- Known(map), call <- Calls

(* The system calls of put and remove, with any interleaving of other      *)
(* calls, failures and crashes, look to the driver like the atomic steps   *)
(* it is written for: a file is replaced as a whole or not at all, the     *)
(* map follows, and a restart finds what the files hold.                   *)
TwoSteps == Steps!Spec
=============================================================================
