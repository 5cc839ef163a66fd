---------------------------- MODULE LaunchProofs ----------------------------
(***************************************************************************)
(* Proofs about BundleStore and, over it, LaunchEndpoint.                  *)
(*                                                                         *)
(* The store: what a call that was alone promised is kept, and without     *)
(* overlapping puts every file can be read.  The invariant says of a put   *)
(* that nobody can disturb, because it has its sandbox to itself or no     *)
(* puts of the sandbox ever overlapped (Fresh), what is in its temporary   *)
(* file, and of a call that is alone what it has achieved by each of its   *)
(* places (Achieves).  Of a put that nobody can disturb the rename is then *)
(* the whole step StoreSteps has for it, and each other step one of its    *)
(* own or none, so that BundleStore implements it.                         *)
(*                                                                         *)
(* The endpoint: a launcher is only ever answered with a bundle of its own *)
(* incarnation, and no request sleeps through one.  The handler reads the  *)
(* store, and then decides to wait.  What holds while it waits must hold   *)
(* before, while it decides: if the store is no longer as it was read, and *)
(* has news for the launcher, then the request has a change to see, or the *)
(* put that made it is about to notify (Told).                             *)
(***************************************************************************)
EXTENDS LaunchEndpoint, TLAPS

USE ContentAssumption, SlotsAssumption, FaultsAssumption

Slots == Writers \cup Removers

USE DEF Slots

(* Where puts and removes can be, that they are for a sandbox, and that    *)
(* there are none while the store is not open.                             *)
Places ==
  /\ \A s \in Slots : job[s].at # "idle" => up
  /\ \A s \in Slots : job[s].at # "idle" => job[s].on \in Names
  /\ \A s \in Slots : job[s].at = "idle" => job[s].on = None /\ ~job[s].alone
  /\ \A w \in Writers : /\ job[w].at \notin {"drop", "unlink"}
                        /\ job[w].at # "idle" => job[w].bundle \in Bundles
  /\ \A r \in Removers : job[r].at \in {"idle", "drop", "unlink"}

(* A call that is alone has no other beside it, and nothing is promised    *)
(* while there is any.                                                     *)
Solitude ==
  /\ \A s \in Slots : job[s].alone =>
       \A r \in Slots : job[r].on = job[s].on => r = s
  /\ \A n \in Names : promised[n] # Unknown => \A s \in Slots : job[s].on # n

Fresh(w) == job[w].alone \/ job[w].on \notin raced

(* A fresh put has its temporary file to itself.                           *)
Private ==
  \A w \in Writers : job[w].at # "idle" /\ Fresh(w) =>
    /\ \A v \in Writers : job[v].on = job[w].on => v = w
    /\ job[w].at = "write" => job[w].fd = "tmp" /\ tmp[job[w].on] = Empty
    /\ job[w].at = "rename" => tmp[job[w].on] = job[w].bundle

Achieves ==
  \A s \in Slots : job[s].alone =>
    /\ job[s].at \in {"insert", "notify"} => json[job[s].on] = job[s].bundle
    /\ job[s].at = "notify" => map[job[s].on] = job[s].bundle
    /\ job[s].at = "unlink" => map[job[s].on] = None

SInv == /\ StoreTypeOK /\ Places /\ Solitude /\ Private /\ Achieves
        /\ Kept /\ AlwaysReadable

-----------------------------------------------------------------------------

LEMMA InitSInv == StoreInit => SInv
BY DEF StoreInit, SInv, StoreTypeOK, Places, Solitude, Private, Achieves, Kept,
   AlwaysReadable, Readable, Idle, Job

LEMMA JobAlone ==
  ASSUME NEW j, NEW p, NEW n, NEW b, NEW a \in BOOLEAN,
         j = [at |-> p, on |-> n, bundle |-> b, fd |-> "gone", alone |-> a],
         j.alone
  PROVE  a
BY SMT

(* A call begins: those beside it are alone no longer.                     *)
LEMMA BeginSInv ==
  ASSUME SInv, NEW s \in Slots, NEW p, NEW n \in Names,
         NEW b \in Bundles \cup {None},
         up, job[s].at = "idle", Begin(s, p, n, b),
         UNCHANGED <<disk, map, up, faults>>,
         \/ s \in Writers /\ p = "open" /\ b \in Bundles
              /\ raced' = IF Busy(n) \cap Writers = {} THEN raced ELSE raced \cup {n}
         \/ s \in Removers /\ p = "drop" /\ raced' = raced
  PROVE  SInv'
<1>1. /\ job \in [Slots -> Job] /\ raced \subseteq Names
      /\ promised \in [Names -> Bundles \cup {None, Unknown}]
  BY DEF SInv, StoreTypeOK
<1>2. /\ job'[s].at = p /\ job'[s].on = n /\ job'[s].bundle = b
      /\ job'[s].alone => Busy(n) = {}
      /\ job' \in [Slots -> Job]
      /\ \A r \in Slots \ {s} :
           /\ job'[r].at = job[r].at /\ job'[r].on = job[r].on
           /\ job'[r].bundle = job[r].bundle /\ job'[r].fd = job[r].fd
           /\ job'[r].alone => job[r].alone /\ job[r].on # n
  <2>1. \A r \in Slots : job'[r] =
          IF r = s THEN [at |-> p, on |-> n, bundle |-> b, fd |-> "gone",
                         alone |-> Busy(n) = {}]
          ELSE IF r \in Busy(n) THEN [job[r] EXCEPT !.alone = FALSE]
          ELSE job[r]
    BY <1>1 DEF Begin
  <2>2. job' = [r \in Slots |-> job'[r]]
    BY <1>1 DEF Begin
  <2>3. [at |-> p, on |-> n, bundle |-> b, fd |-> "gone",
         alone |-> Busy(n) = {}] \in Job
    BY DEF Job
  <2>4. ASSUME NEW r \in Slots \ {s}
        PROVE  /\ job'[r] \in Job
               /\ job'[r].at = job[r].at /\ job'[r].on = job[r].on
               /\ job'[r].bundle = job[r].bundle /\ job'[r].fd = job[r].fd
               /\ job'[r].alone => job[r].alone /\ job[r].on # n
    <3>1. CASE r \in Busy(n)
      BY <1>1, <2>1, <2>4, <3>1 DEF Job
    <3>2. CASE r \notin Busy(n)
      BY <1>1, <2>1, <2>4, <3>2 DEF Busy
    <3> QED BY <3>1, <3>2
  <2>5. /\ job'[s].at = p /\ job'[s].on = n /\ job'[s].bundle = b
        /\ job'[s].alone => Busy(n) = {}
    <3>1. job'[s] = [at |-> p, on |-> n, bundle |-> b, fd |-> "gone",
                     alone |-> Busy(n) = {}]
      BY <2>1, Zenon
    <3>2. job'[s].alone => Busy(n) = {}
      BY <3>1, JobAlone
    <3>3. job'[s].at = p /\ job'[s].on = n /\ job'[s].bundle = b
      BY <3>1
    <3> QED BY <3>2, <3>3
  <2> QED BY <2>1, <2>2, <2>3, <2>4, <2>5
<1>3. /\ promised' = [promised EXCEPT ![n] = Unknown]
      /\ UNCHANGED <<tmp, json, map, up, faults>>
      /\ raced \subseteq raced' /\ raced' \subseteq Names
  BY <1>1 DEF Begin, disk
<1>4. StoreTypeOK'
  BY <1>1, <1>2, <1>3 DEF SInv, StoreTypeOK
<1>5. Places'
  BY <1>1, <1>2 DEF SInv, Places
<1>6. Solitude'
  <2>1. job'[s].alone => \A r \in Slots \ {s} : job[r].on # n
    BY <1>2 DEF Busy
  <2>2. \A r \in Slots \ {s} : job'[r].alone =>
          \A q \in Slots : job'[q].on = job'[r].on => q = r
    <3> SUFFICES ASSUME NEW r \in Slots \ {s}, job'[r].alone,
                        NEW q \in Slots, job'[q].on = job'[r].on
                 PROVE  q = r
      OBVIOUS
    <3>1. job[r].alone /\ job[r].on # n /\ job'[r].on = job[r].on
      BY <1>2
    <3>2. q # s
      BY <1>2, <3>1
    <3>3. job[q].on = job[r].on
      BY <1>2, <3>1, <3>2
    <3> QED BY <3>1, <3>3 DEF SInv, Solitude
  <2>3. \A m \in Names : promised'[m] # Unknown => m # n /\ promised[m] # Unknown
    BY <1>1, <1>3
  <2> QED BY <1>2, <2>1, <2>2, <2>3 DEF SInv, Solitude
<1>7. Private'
  <2> SUFFICES ASSUME NEW w \in Writers, job'[w].at # "idle", Fresh(w)'
               PROVE  /\ \A v \in Writers : job'[v].on = job'[w].on => v = w
                      /\ job'[w].at = "write" =>
                           job'[w].fd = "tmp" /\ tmp[job'[w].on] = Empty
                      /\ job'[w].at = "rename" => tmp[job'[w].on] = job'[w].bundle
    BY <1>3 DEF Private
  <2>1. CASE w = s
    <3>1. \A v \in Writers : job[v].on # n
      <4>1. Busy(n) \cap Writers = {}
        BY <1>2, <2>1 DEF Fresh
      <4> QED BY <4>1 DEF Busy
    <3> QED BY <1>2, <2>1, <3>1
  <2>2. CASE w # s
    <3>1. Fresh(w) /\ job[w].at # "idle"
      BY <1>2, <1>3, <2>2 DEF Fresh
    <3>2. s \in Writers /\ job[w].on = n => FALSE
      BY <1>2, <1>3, <2>2 DEF Fresh, Busy
    <3> QED BY <1>2, <2>2, <3>1, <3>2 DEF SInv, Private
  <2> QED BY <2>1, <2>2
<1>8. Achieves'
  BY <1>2, <1>3 DEF SInv, Achieves
<1>9. Kept' /\ AlwaysReadable'
  BY <1>1, <1>3 DEF SInv, Kept, AlwaysReadable, Readable
<1> QED BY <1>4, <1>5, <1>6, <1>7, <1>8, <1>9 DEF SInv

-----------------------------------------------------------------------------
(* The steps of a call                                                     *)

(* What the step of one call leaves of the others: at most a file they     *)
(* have open has gone elsewhere.                                           *)
Others(s) ==
  \A r \in Slots \ {s} :
    /\ job'[r].at = job[r].at /\ job'[r].on = job[r].on
    /\ job'[r].bundle = job[r].bundle /\ job'[r].alone = job[r].alone

Goes(s) ==
  /\ job' \in [Slots -> Job] /\ Others(s)
  /\ job'[s].on = job[s].on /\ job'[s].bundle = job[s].bundle
  /\ job'[s].alone = job[s].alone
  /\ UNCHANGED <<up, promised, raced>>

Leaves(s) == job' \in [Slots -> Job] /\ Others(s) /\ job'[s] = Idle
               /\ UNCHANGED <<up, raced>>

LEMMA Typed ==
  ASSUME SInv, NEW s \in Slots
  PROVE  /\ job \in [Slots -> Job] /\ job[s] \in Job
         /\ tmp \in [Names -> Bundles \cup {None, Empty, Mixed}]
         /\ json \in [Names -> Bundles \cup {None, Empty, Mixed}]
         /\ map \in [Names -> Bundles \cup {None}]
         /\ promised \in [Names -> Bundles \cup {None, Unknown}]
         /\ raced \subseteq Names
         /\ job[s].at # "idle" => job[s].on \in Names
         /\ s \in Writers /\ job[s].at # "idle" => job[s].bundle \in Bundles
BY DEF SInv, StoreTypeOK, Places

LEMMA GotoGoes ==
  ASSUME SInv, NEW s \in Slots,
         NEW p \in {"write", "rename", "insert", "notify", "unlink"}, Goto(s, p),
         UNCHANGED <<up, promised, raced>>
  PROVE  Goes(s) /\ job'[s].at = p /\ \A r \in Slots : job'[r].fd = job[r].fd
BY Typed DEF Goto, Goes, Others, Job

LEMMA GoesControl ==
  ASSUME SInv, NEW s \in Slots, job[s].at # "idle", Goes(s),
         job'[s].at \in IF s \in Writers THEN {"write", "rename", "insert", "notify"}
                                         ELSE {"unlink"}
  PROVE  Places' /\ Solitude'
<1>1. /\ \A r \in Slots : /\ job'[r].on = job[r].on
                          /\ job'[r].bundle = job[r].bundle
                          /\ job'[r].alone = job[r].alone
                          /\ job'[r].at = "idle" <=> job[r].at = "idle"
      /\ \A r \in Slots \ {s} : job'[r].at = job[r].at
      /\ promised' = promised /\ up' = up
  BY DEF Goes, Others
<1>2. Places'
  BY <1>1 DEF SInv, Places
<1>3. Solitude'
  BY <1>1 DEF SInv, Solitude
<1> QED BY <1>2, <1>3

LEMMA LeavesControl ==
  ASSUME SInv, NEW s \in Slots, job[s].at # "idle", Leaves(s),
         \/ promised' = promised
         \/ /\ job[s].alone
            /\ \E b \in Bundles \cup {None} :
                 promised' = [promised EXCEPT ![job[s].on] = b]
  PROVE  Places' /\ Solitude'
<1>1. /\ job'[s].at = "idle" /\ job'[s].on = None /\ ~job'[s].alone
      /\ \A r \in Slots \ {s} : job'[r].on = job[r].on
                             /\ job'[r].bundle = job[r].bundle
                             /\ job'[r].alone = job[r].alone
                             /\ job'[r].at = job[r].at
      /\ up' = up
  BY DEF Leaves, Others, Idle
<1>2. Places'
  BY <1>1 DEF SInv, Places
<1>3. \A r \in Slots : job'[r].alone =>
        \A q \in Slots : job'[q].on = job'[r].on => q = r
  <2> SUFFICES ASSUME NEW r \in Slots, job'[r].alone,
                      NEW q \in Slots, job'[q].on = job'[r].on
               PROVE  q = r
    OBVIOUS
  <2>1. r # s /\ job[r].alone /\ job'[r].on = job[r].on
    BY <1>1
  <2>2. job[r].on \in Names
    BY <2>1 DEF SInv, Places
  <2>3. q # s
    BY <1>1, <2>1, <2>2
  <2> QED BY <1>1, <2>1, <2>3 DEF SInv, Solitude
<1>4. \A n \in Names : promised'[n] # Unknown => \A r \in Slots : job'[r].on # n
  <2> SUFFICES ASSUME NEW n \in Names, promised'[n] # Unknown, NEW r \in Slots
               PROVE  job'[r].on # n
    OBVIOUS
  <2>1. CASE r = s
    BY <1>1, <2>1
  <2>2. CASE r # s /\ promised[n] # Unknown
    BY <1>1, <2>2 DEF SInv, Solitude
  <2>3. CASE r # s /\ promised[n] = Unknown
    <3>1. job[s].alone /\ n = job[s].on
      BY <2>3, Typed
    <3> QED BY <1>1, <2>3, <3>1 DEF SInv, Solitude
  <2> QED BY <2>1, <2>2, <2>3
<1> QED BY <1>2, <1>3, <1>4 DEF Solitude

(* A step that writes under its own sandbox's name only keeps all promises.*)
LEMMA WritesOwn ==
  ASSUME SInv, NEW s \in Slots, job[s].at # "idle",
         \A n \in Names \ {job[s].on} : json'[n] = json[n] /\ map'[n] = map[n],
         UNCHANGED <<up, promised>>
  PROVE  Kept'
<1>1. \A n \in Names : promised[n] # Unknown => n # job[s].on
  BY DEF SInv, Solitude
<1> QED BY <1>1 DEF SInv, Kept

(* The others' part of the invariant, when a call's step touches only what *)
(* goes by its own sandbox's name.                                         *)
OwnFiles(s) ==
  \A n \in Names \ {job[s].on} :
    tmp'[n] = tmp[n] /\ json'[n] = json[n] /\ map'[n] = map[n]

LEMMA OthersPrivate ==
  ASSUME SInv, NEW w \in Writers, job[w].at # "idle", Others(w), OwnFiles(w),
         raced' = raced,
         \A v \in Writers : job[v].on # job[w].on => job'[v].fd = job[v].fd,
         NEW u \in Writers \ {w}, job'[u].at # "idle", Fresh(u)'
  PROVE  /\ job[u].on # job[w].on
         /\ \A v \in Writers \ {w} : job'[v].on = job'[u].on => v = u
         /\ job'[u].at = "write" => job'[u].fd = "tmp" /\ tmp'[job'[u].on] = Empty
         /\ job'[u].at = "rename" => tmp'[job'[u].on] = job'[u].bundle
<1>1. Fresh(u) /\ job[u].at # "idle" /\ job'[u].on = job[u].on
  BY DEF Others, Fresh
<1>2. job[u].on # job[w].on
  BY <1>1 DEF SInv, Private
<1>3. job[u].on \in Names \ {job[w].on}
  BY <1>1, <1>2, Typed
<1>4. tmp'[job[u].on] = tmp[job[u].on] /\ job'[u].fd = job[u].fd
  BY <1>2, <1>3 DEF OwnFiles
<1>5. \A v \in Writers \ {w} : job'[v].on = job[v].on
  BY DEF Others
<1> QED BY <1>1, <1>2, <1>4, <1>5 DEF SInv, Private, Others

LEMMA OthersAchieve ==
  ASSUME SInv, NEW s \in Slots, job[s].at # "idle", Others(s), OwnFiles(s),
         NEW q \in Slots \ {s}, job'[q].alone
  PROVE  /\ job'[q].at \in {"insert", "notify"} => json'[job'[q].on] = job'[q].bundle
         /\ job'[q].at = "notify" => map'[job'[q].on] = job'[q].bundle
         /\ job'[q].at = "unlink" => map'[job'[q].on] = None
<1>1. /\ job[q].alone /\ job'[q].on = job[q].on /\ job'[q].at = job[q].at
      /\ job'[q].bundle = job[q].bundle
  BY DEF Others
<1>2. job[q].on \in Names \ {job[s].on}
  BY <1>1 DEF SInv, Solitude, Places
<1> QED BY <1>1, <1>2 DEF SInv, Achieves, OwnFiles

LEMMA PutOpenSInv ==
  ASSUME SInv, NEW w \in Writers, PutOpen(w)
  PROVE  SInv'
<1>1. job[w].at = "open" /\ job[w] \in Job /\ job[w].on \in Names
  BY Typed DEF PutOpen
<1>2. /\ Goes(w) /\ job'[w].at = "write" /\ job'[w].fd = "tmp"
      /\ \A v \in Slots \ {w} : job'[v].fd = job[v].fd
  BY Typed DEF PutOpen, Goes, Others, Job
<1>3. tmp' = [tmp EXCEPT ![job[w].on] = Empty] /\ UNCHANGED <<json, map, faults>>
  BY DEF PutOpen
<1>4. StoreTypeOK'
  BY <1>1, <1>2, <1>3 DEF SInv, StoreTypeOK, Goes
<1>5. Places' /\ Solitude'
  BY <1>1, <1>2, GoesControl
<1>6. OwnFiles(w)
  BY <1>3, Typed DEF OwnFiles
<1>7. Private'
  <2>1. ASSUME NEW u \in Writers \ {w}, job'[u].at # "idle", Fresh(u)'
        PROVE  /\ \A v \in Writers : job'[v].on = job'[u].on => v = u
               /\ job'[u].at = "write" => job'[u].fd = "tmp" /\ tmp'[job'[u].on] = Empty
               /\ job'[u].at = "rename" => tmp'[job'[u].on] = job'[u].bundle
    BY <1>1, <1>2, <1>6, <2>1, OthersPrivate DEF Goes, Others
  <2>2. ASSUME Fresh(w)' PROVE \A v \in Writers : job'[v].on = job'[w].on => v = w
    BY <1>1, <1>2, <2>2 DEF SInv, Private, Fresh, Goes, Others
  <2>3. tmp'[job'[w].on] = Empty
    BY <1>1, <1>2, <1>3, Typed DEF Goes
  <2> QED BY <1>2, <2>1, <2>2, <2>3 DEF Private
<1>8. Achieves'
  BY <1>1, <1>2, <1>6, OthersAchieve DEF Achieves, Goes
<1>9. Kept'
  BY <1>1, <1>2, <1>3, WritesOwn DEF Goes
<1>10. AlwaysReadable'
  BY <1>2, <1>3 DEF SInv, AlwaysReadable, Readable, Goes
<1> QED BY <1>4, <1>5, <1>7, <1>8, <1>9, <1>10 DEF SInv

(* A put that stays: the private part, from what is so of its own file.    *)
LEMMA StaysPrivate ==
  ASSUME SInv, NEW w \in Writers, job[w].at # "idle", Goes(w), OwnFiles(w),
         \A v \in Writers : job[v].on # job[w].on => job'[v].fd = job[v].fd,
         job'[w].at # "write",
         Fresh(w) /\ job'[w].at = "rename" => tmp'[job[w].on] = job[w].bundle
  PROVE  Private'
<1>1. ASSUME NEW u \in Writers \ {w}, job'[u].at # "idle", Fresh(u)'
      PROVE  /\ \A v \in Writers : job'[v].on = job'[u].on => v = u
             /\ job'[u].at = "write" => job'[u].fd = "tmp" /\ tmp'[job'[u].on] = Empty
             /\ job'[u].at = "rename" => tmp'[job'[u].on] = job'[u].bundle
  BY <1>1, OthersPrivate DEF Goes, Others
<1>2. ASSUME Fresh(w)' PROVE Fresh(w) /\ \A v \in Writers : job'[v].on = job'[w].on => v = w
  BY <1>2 DEF SInv, Private, Fresh, Goes, Others
<1> QED BY <1>1, <1>2 DEF Private, Goes

LEMMA PutWriteSInv ==
  ASSUME SInv, NEW w \in Writers, PutWrite(w)
  PROVE  SInv'
<1> DEFINE n == job[w].on
           b == job[w].bundle
<1>1. job[w].at = "write" /\ job[w] \in Job /\ n \in Names /\ b \in Bundles
  BY Typed DEF PutWrite
<1>2. /\ Goes(w) /\ job'[w].at = "rename"
      /\ \A v \in Slots : job'[v].fd = job[v].fd
  BY GotoGoes DEF PutWrite
<1>3. UNCHANGED <<map, faults>>
  BY DEF PutWrite
<1>4. \/ /\ job[w].fd = "tmp" /\ json' = json
         /\ \E c \in Over(tmp[n], b) : tmp' = [tmp EXCEPT ![n] = c]
      \/ /\ job[w].fd = "json" /\ tmp' = tmp
         /\ \E c \in Over(json[n], b) : json' = [json EXCEPT ![n] = c]
      \/ job[w].fd = "gone" /\ tmp' = tmp /\ json' = json
  BY <1>1 DEF PutWrite, Job, disk
<1>5. \A c, d : c \in Over(d, b) => c \in Bundles \cup {Mixed}
  BY <1>1 DEF Over
<1>6. StoreTypeOK'
  <2>1. /\ tmp' \in [Names -> Bundles \cup {None, Empty, Mixed}]
        /\ json' \in [Names -> Bundles \cup {None, Empty, Mixed}]
    BY <1>1, <1>4, <1>5, Typed
  <2> QED BY <1>2, <1>3, <2>1 DEF SInv, StoreTypeOK, Goes
<1>7. Places' /\ Solitude'
  BY <1>1, <1>2, GoesControl
<1>8. OwnFiles(w)
  BY <1>1, <1>3, <1>4, Typed DEF OwnFiles
<1>9. Fresh(w) => job[w].fd = "tmp" /\ tmp'[n] = b /\ json' = json
  BY <1>1, <1>4, Typed DEF SInv, Private, Over
<1>10. Private'
  BY <1>1, <1>2, <1>8, <1>9, StaysPrivate
<1>11. Achieves'
  BY <1>1, <1>2, <1>8, OthersAchieve DEF Achieves, Goes
<1>12. Kept'
  BY <1>1, <1>2, <1>8, WritesOwn DEF Goes, OwnFiles
<1>13. AlwaysReadable'
  BY <1>2, <1>8, <1>9 DEF SInv, AlwaysReadable, Readable, Goes, OwnFiles, Fresh
<1> QED BY <1>6, <1>7, <1>10, <1>11, <1>12, <1>13 DEF SInv

LEMMA PutInsertSInv ==
  ASSUME SInv, NEW w \in Writers, PutInsert(w)
  PROVE  SInv'
<1> DEFINE n == job[w].on
           b == job[w].bundle
<1>1. job[w].at = "insert" /\ job[w] \in Job /\ n \in Names /\ b \in Bundles
  BY Typed DEF PutInsert
<1>2. /\ Goes(w) /\ job'[w].at = "notify"
      /\ \A v \in Slots : job'[v].fd = job[v].fd
  BY GotoGoes DEF PutInsert
<1>3. map' = [map EXCEPT ![n] = b] /\ UNCHANGED <<tmp, json, faults>>
  BY DEF PutInsert, disk
<1>4. StoreTypeOK'
  BY <1>1, <1>2, <1>3 DEF SInv, StoreTypeOK, Goes
<1>5. Places' /\ Solitude'
  BY <1>1, <1>2, GoesControl
<1>6. OwnFiles(w)
  BY <1>3, Typed DEF OwnFiles
<1>7. Private'
  BY <1>1, <1>2, <1>6, StaysPrivate
<1>8. Achieves'
  <2>1. map'[n] = b
    BY <1>1, <1>3, Typed
  <2> QED BY <1>1, <1>2, <1>3, <1>6, <2>1, OthersAchieve DEF SInv, Achieves, Goes
<1>9. Kept'
  BY <1>1, <1>2, <1>6, WritesOwn DEF Goes, OwnFiles
<1>10. AlwaysReadable'
  BY <1>2, <1>3 DEF SInv, AlwaysReadable, Readable, Goes
<1> QED BY <1>4, <1>5, <1>7, <1>8, <1>9, <1>10 DEF SInv

(* A call ends, with a promise or without.                                 *)
LEMMA LeavesSInv ==
  ASSUME SInv, NEW s \in Slots, job[s].at # "idle", Leaves(s), OwnFiles(s),
         StoreTypeOK',
         \A v \in Writers : job[v].on # job[s].on => job'[v].fd = job[v].fd,
         s \in Removers => /\ tmp' = tmp
                           /\ \A v \in Writers : job[v].fd = "tmp" => job'[v].fd = "tmp",
         job[s].on \notin raced => json'[job[s].on] \in Bundles \cup {None},
         \/ promised' = promised
         \/ /\ job[s].alone
            /\ \E b \in Bundles \cup {None} :
                 /\ promised' = [promised EXCEPT ![job[s].on] = b]
                 /\ json'[job[s].on] = b /\ map'[job[s].on] = b
  PROVE  SInv'
<1>1. Places' /\ Solitude'
  BY LeavesControl
<1>2. job'[s].at = "idle" /\ job'[s].on = None /\ ~job'[s].alone
  BY DEF Leaves, Idle
<1>3. Private'
  <2> SUFFICES ASSUME NEW u \in Writers, job'[u].at # "idle", Fresh(u)'
               PROVE  /\ \A v \in Writers : job'[v].on = job'[u].on => v = u
                      /\ job'[u].at = "write" =>
                           job'[u].fd = "tmp" /\ tmp'[job'[u].on] = Empty
                      /\ job'[u].at = "rename" => tmp'[job'[u].on] = job'[u].bundle
    BY DEF Private
  <2>1. u # s /\ Fresh(u) /\ job[u].at # "idle" /\ job'[u].on = job[u].on
        /\ job'[u].at = job[u].at /\ job'[u].bundle = job[u].bundle
        /\ job[u].on \in Names
    BY <1>2, Typed DEF Leaves, Others, Fresh
  <2>2. \A v \in Writers : job'[v].on = job'[u].on => v = u
    BY <1>2, <2>1 DEF SInv, Private, Leaves, Others
  <2>3. CASE s \in Writers
    BY <2>1, <2>3, OthersPrivate, <2>2 DEF Leaves
  <2>4. CASE s \in Removers
    BY <2>1, <2>2, <2>4 DEF SInv, Private
  <2> QED BY <2>3, <2>4
<1>4. Achieves'
  BY <1>2, OthersAchieve DEF Achieves, Leaves
<1>5. Kept'
  <2>1. CASE promised' = promised
    BY <2>1, WritesOwn DEF OwnFiles, Leaves
  <2>2. CASE promised' # promised
    <3>1. PICK b \in Bundles \cup {None} :
            /\ promised' = [promised EXCEPT ![job[s].on] = b]
            /\ json'[job[s].on] = b /\ map'[job[s].on] = b
      BY <2>2
    <3> QED BY <3>1, Typed DEF SInv, Kept, OwnFiles, Leaves
  <2> QED BY <2>1, <2>2
<1>6. AlwaysReadable'
  <2> SUFFICES ASSUME NEW n \in Names \ raced PROVE Readable(n)'
    BY DEF AlwaysReadable, Leaves
  <2>1. CASE n = job[s].on
    BY <2>1 DEF Readable
  <2>2. CASE n # job[s].on
    BY <2>2 DEF SInv, AlwaysReadable, Readable, OwnFiles
  <2> QED BY <2>1, <2>2
<1> QED BY <1>1, <1>3, <1>4, <1>5, <1>6 DEF SInv

LEMMA PutRenameSInv ==
  ASSUME SInv, NEW w \in Writers, PutRename(w)
  PROVE  SInv'
<1> DEFINE n == job[w].on
           b == job[w].bundle
<1>1. /\ job[w].at = "rename" /\ job[w] \in Job /\ n \in Names /\ b \in Bundles
      /\ UNCHANGED <<map, up, faults, raced>>
  BY Typed DEF PutRename
<1>2. CASE tmp[n] = None
  <2>1. Stop(w) /\ UNCHANGED <<tmp, json>>
    BY <1>2 DEF PutRename, disk
  <2>2. Leaves(w) /\ \A v \in Slots \ {w} : job'[v] = job[v]
    BY <1>1, <2>1, Typed DEF Stop, Leaves, Others, Idle, Job
  <2>3. StoreTypeOK'
    BY <1>1, <2>1, <2>2 DEF SInv, StoreTypeOK, Stop, Leaves
  <2>4. n \notin raced => json'[n] \in Bundles \cup {None}
    BY <1>1, <2>1 DEF SInv, AlwaysReadable, Readable
  <2> QED BY <1>1, <2>1, <2>2, <2>3, <2>4, LeavesSInv DEF Stop, OwnFiles
<1>3. CASE tmp[n] # None
  <2>1. /\ json' = [json EXCEPT ![n] = tmp[n]]
        /\ tmp' = [tmp EXCEPT ![n] = None]
        /\ job' = [s \in DOMAIN job |->
             IF s = w THEN [job[s] EXCEPT !.at = "insert"]
             ELSE IF s \in Busy(n) THEN [job[s] EXCEPT !.fd = Renamed[@]]
             ELSE job[s]]
        /\ UNCHANGED promised
    BY <1>3 DEF PutRename
  <2>2. /\ Goes(w) /\ job'[w].at = "insert"
        /\ \A v \in Writers : job[v].on # n => job'[v].fd = job[v].fd
    <3>1. /\ job' = [s \in Slots |-> job'[s]]
          /\ job'[w] = [job[w] EXCEPT !.at = "insert"]
      BY <2>1, Typed
    <3>2. ASSUME NEW s \in Slots \ {w}
          PROVE  /\ job'[s] \in Job
                 /\ job'[s].at = job[s].at /\ job'[s].on = job[s].on
                 /\ job'[s].bundle = job[s].bundle /\ job'[s].alone = job[s].alone
                 /\ job[s].on # n => job'[s].fd = job[s].fd
      <4>1. job[s] \in Job
        BY Typed
      <4>2. CASE s \in Busy(n)
        <5>1. job'[s] = [job[s] EXCEPT !.fd = Renamed[job[s].fd]]
          BY <2>1, <3>2, <4>2, Typed
        <5>2. Renamed[job[s].fd] \in {"tmp", "json", "gone"}
          BY <4>1 DEF Job, Renamed
        <5>3. job[s].on = n
          BY <4>2 DEF Busy
        <5> QED BY <4>1, <5>1, <5>2, <5>3 DEF Job
      <4>3. CASE s \notin Busy(n)
        BY <2>1, <3>2, <4>1, <4>3, Typed
      <4> QED BY <4>2, <4>3
    <3>3. /\ job'[w] \in Job /\ job'[w].at = "insert" /\ job'[w].on = n
          /\ job'[w].bundle = b /\ job'[w].alone = job[w].alone
          /\ job'[w].fd = job[w].fd
      BY <1>1, <3>1 DEF Job
    <3>4. job' \in [Slots -> Job]
      BY <3>1, <3>2, <3>3
    <3> QED BY <1>1, <2>1, <3>2, <3>3, <3>4 DEF Goes, Others
  <2>3. StoreTypeOK'
    BY <1>1, <2>1, <2>2 DEF SInv, StoreTypeOK, Goes
  <2>4. Places' /\ Solitude'
    BY <1>1, <2>2, GoesControl
  <2>5. OwnFiles(w)
    BY <1>1, <2>1, Typed DEF OwnFiles
  <2>6. Private'
    BY <1>1, <2>2, <2>5, StaysPrivate
  <2>7. Fresh(w) => json'[n] = b
    BY <1>1, <2>1, Typed DEF SInv, Private
  <2>8. Achieves'
    BY <1>1, <2>2, <2>5, <2>7, OthersAchieve DEF Achieves, Goes, Fresh
  <2>9. Kept'
    BY <1>1, <2>2, <2>5, WritesOwn DEF Goes, OwnFiles
  <2>10. AlwaysReadable'
    BY <1>1, <2>2, <2>5, <2>7 DEF SInv, AlwaysReadable, Readable, Goes, OwnFiles,
       Fresh
  <2> QED BY <2>3, <2>4, <2>6, <2>8, <2>9, <2>10 DEF SInv
<1> QED BY <1>2, <1>3

LEMMA PutNotifySInv ==
  ASSUME SInv, NEW w \in Writers, PutNotify(w)
  PROVE  SInv'
<1> DEFINE n == job[w].on
           b == job[w].bundle
<1>1. /\ job[w].at = "notify" /\ n \in Names /\ b \in Bundles
      /\ UNCHANGED <<tmp, json, map, up, faults, raced>>
  BY Typed DEF PutNotify, disk
<1>2. Leaves(w) /\ \A v \in Slots \ {w} : job'[v] = job[v]
  BY <1>1, Typed DEF PutNotify, Leaves, Others, Idle, Job
<1>3. \/ promised' = promised
      \/ /\ job[w].alone /\ promised' = [promised EXCEPT ![n] = b]
         /\ json'[n] = b /\ map'[n] = b
  BY <1>1 DEF PutNotify, Promise, SInv, Achieves
<1>4. StoreTypeOK'
  BY <1>1, <1>2, <1>3 DEF SInv, StoreTypeOK, Leaves
<1>5. n \notin raced => json'[n] \in Bundles \cup {None}
  BY <1>1 DEF SInv, AlwaysReadable, Readable
<1> QED BY <1>1, <1>2, <1>3, <1>4, <1>5, LeavesSInv DEF OwnFiles

LEMMA PutFailsSInv ==
  ASSUME SInv, NEW w \in Writers, PutFails(w)
  PROVE  SInv'
<1> DEFINE n == job[w].on
<1>1. /\ job[w].at # "idle" /\ job[w] \in Job /\ n \in Names
      /\ UNCHANGED <<map, up, promised, raced>>
  BY Typed DEF PutFails, Stop
<1>2. faults' \in 0..MaxFaults
  BY DEF PutFails, Fault, SInv, StoreTypeOK
<1>3. Leaves(w) /\ \A v \in Slots \ {w} : job'[v] = job[v]
  BY <1>1, Typed DEF PutFails, Stop, Leaves, Others, Idle, Job
<1>4. \/ tmp' = [tmp EXCEPT ![n] = Mixed] /\ json' = json
      \/ /\ job[w].at = "write" /\ job[w].fd # "tmp"
         /\ json' = [json EXCEPT ![n] = Mixed] /\ tmp' = tmp
      \/ tmp' = tmp /\ json' = json
  BY DEF PutFails, disk
<1>5. StoreTypeOK'
  BY <1>1, <1>2, <1>3, <1>4 DEF SInv, StoreTypeOK, Leaves
<1>6. n \notin raced => json'[n] \in Bundles \cup {None}
  BY <1>1, <1>4 DEF SInv, AlwaysReadable, Readable, Private, Fresh
<1>7. OwnFiles(w)
  BY <1>1, <1>4, Typed DEF OwnFiles
<1> QED BY <1>1, <1>3, <1>5, <1>6, <1>7, LeavesSInv

LEMMA RemoveDropSInv ==
  ASSUME SInv, NEW r \in Removers, RemoveDrop(r)
  PROVE  SInv'
<1> DEFINE n == job[r].on
<1>1. /\ job[r].at = "drop" /\ n \in Names
      /\ map' = [map EXCEPT ![n] = None] /\ UNCHANGED <<tmp, json, faults>>
  BY Typed DEF RemoveDrop, disk
<1>2. /\ Goes(r) /\ job'[r].at = "unlink"
      /\ \A v \in Slots : job'[v].fd = job[v].fd
  BY GotoGoes DEF RemoveDrop
<1>3. StoreTypeOK'
  BY <1>1, <1>2 DEF SInv, StoreTypeOK, Goes
<1>4. Places' /\ Solitude'
  BY <1>1, <1>2, GoesControl
<1>5. OwnFiles(r)
  BY <1>1, Typed DEF OwnFiles
<1>6. \A w \in Writers : job'[w] = job[w]
  BY <1>1, <1>2 DEF RemoveDrop, Goto, SInv, Places
<1>7. Private'
  BY <1>1, <1>2, <1>6 DEF SInv, Private, Fresh, Goes
<1>8. Achieves'
  <2>1. map'[n] = None
    BY <1>1, Typed
  <2> QED BY <1>1, <1>2, <1>5, <2>1, OthersAchieve DEF Achieves, Goes
<1>9. Kept'
  BY <1>1, <1>2, <1>5, WritesOwn DEF Goes, OwnFiles
<1>10. AlwaysReadable'
  BY <1>1, <1>2 DEF SInv, AlwaysReadable, Readable, Goes
<1> QED BY <1>3, <1>4, <1>7, <1>8, <1>9, <1>10 DEF SInv

LEMMA RemoveUnlinkSInv ==
  ASSUME SInv, NEW r \in Removers, RemoveUnlink(r)
  PROVE  SInv'
<1> DEFINE n == job[r].on
<1>1. /\ job[r].at = "unlink" /\ n \in Names
      /\ json' = [json EXCEPT ![n] = None]
      /\ UNCHANGED <<tmp, map, up, faults, raced>>
      /\ job' = [s \in DOMAIN job |->
           IF s = r THEN Idle
           ELSE IF s \in Busy(n) /\ job[s].fd = "json" /\ json[n] # None
             THEN [job[s] EXCEPT !.fd = "gone"]
           ELSE job[s]]
  BY Typed DEF RemoveUnlink
<1>2. ASSUME NEW s \in Slots \ {r}
      PROVE  /\ job'[s] \in Job
             /\ job'[s].at = job[s].at /\ job'[s].on = job[s].on
             /\ job'[s].bundle = job[s].bundle /\ job'[s].alone = job[s].alone
             /\ job[s].on # n \/ job[s].fd = "tmp" => job'[s].fd = job[s].fd
  <2>1. job[s] \in Job
    BY Typed
  <2>2. CASE s \in Busy(n) /\ job[s].fd = "json" /\ json[n] # None
    <3>1. job'[s] = [job[s] EXCEPT !.fd = "gone"]
      BY <1>1, <1>2, <2>2, Typed
    <3> QED BY <2>1, <2>2, <3>1 DEF Job, Busy
  <2>3. CASE ~(s \in Busy(n) /\ job[s].fd = "json" /\ json[n] # None)
    BY <1>1, <1>2, <2>1, <2>3, Typed
  <2> QED BY <2>2, <2>3
<1>3. job'[r] = Idle /\ Idle \in Job /\ job' = [s \in Slots |-> job'[s]]
  BY <1>1, Typed DEF Idle, Job
<1>4. Leaves(r)
  BY <1>1, <1>2, <1>3 DEF Leaves, Others
<1>5. json'[n] = None /\ OwnFiles(r)
  BY <1>1, Typed DEF OwnFiles
<1>6. \/ promised' = promised
      \/ /\ job[r].alone /\ promised' = [promised EXCEPT ![n] = None]
         /\ map'[n] = None
  BY <1>1 DEF RemoveUnlink, Promise, SInv, Achieves
<1>7. StoreTypeOK'
  BY <1>1, <1>4, <1>6 DEF SInv, StoreTypeOK, Leaves
<1>8. \A v \in Writers : /\ job[v].on # n => job'[v].fd = job[v].fd
                         /\ job[v].fd = "tmp" => job'[v].fd = "tmp"
  BY <1>2
<1>9. n \notin raced => json'[n] \in Bundles \cup {None}
  BY <1>5
<1>10. \/ promised' = promised
       \/ /\ job[r].alone
          /\ \E b \in Bundles \cup {None} :
               /\ promised' = [promised EXCEPT ![n] = b]
               /\ json'[n] = b /\ map'[n] = b
  BY <1>5, <1>6
<1>11. job[r].at # "idle" /\ tmp' = tmp /\ OwnFiles(r)
  BY <1>1, <1>5
<1> QED BY <1>4, <1>7, <1>8, <1>9, <1>10, <1>11, LeavesSInv

LEMMA RemoveFailsSInv ==
  ASSUME SInv, NEW r \in Removers, RemoveFails(r)
  PROVE  SInv'
<1> DEFINE n == job[r].on
<1>1. /\ job[r].at # "idle" /\ job[r] \in Job /\ n \in Names
      /\ UNCHANGED <<tmp, json, map, up, promised, raced>>
  BY Typed DEF RemoveFails, Stop, disk
<1>2. faults' \in 0..MaxFaults
  BY DEF RemoveFails, Fault, SInv, StoreTypeOK
<1>3. Leaves(r) /\ \A v \in Slots \ {r} : job'[v] = job[v]
  BY <1>1, Typed DEF RemoveFails, Stop, Leaves, Others, Idle, Job
<1>4. StoreTypeOK'
  BY <1>1, <1>2, <1>3 DEF SInv, StoreTypeOK, Leaves
<1>5. n \notin raced => json'[n] \in Bundles \cup {None}
  BY <1>1 DEF SInv, AlwaysReadable, Readable
<1> QED BY <1>1, <1>3, <1>4, <1>5, LeavesSInv DEF OwnFiles

-----------------------------------------------------------------------------
(* The process                                                             *)

LEMMA CrashSInv ==
  ASSUME SInv, Crash
  PROVE  SInv'
<1>1. /\ job' = [s \in Slots |-> Idle] /\ up' = FALSE
      /\ map' = [n \in Names |-> None]
      /\ UNCHANGED <<tmp, json, promised, raced>> /\ faults' \in 0..MaxFaults
  BY DEF Crash, Fault, disk, SInv, StoreTypeOK
<1>2. /\ Idle \in Job /\ Idle.at = "idle" /\ Idle.on = None /\ ~Idle.alone
  BY DEF Idle, Job
<1>3. \A s \in Slots : job'[s] = Idle
  BY <1>1
<1>4. StoreTypeOK'
  BY <1>1, <1>2 DEF SInv, StoreTypeOK
<1>5. Places' /\ Private' /\ Achieves'
  BY <1>2, <1>3 DEF Places, Private, Achieves
<1>6. Solitude'
  BY <1>2, <1>3 DEF Solitude
<1>7. Kept' /\ AlwaysReadable'
  BY <1>1 DEF SInv, Kept, AlwaysReadable, Readable
<1> QED BY <1>4, <1>5, <1>6, <1>7 DEF SInv

LEMMA OpenSInv ==
  ASSUME SInv, Open
  PROVE  SInv'
<1>1. /\ ~up /\ up' = TRUE /\ map' = json
      /\ UNCHANGED <<tmp, json, job, promised, faults, raced>>
      /\ \A n \in Names : json[n] \in Bundles \cup {None}
  BY DEF Open, disk, Readable
<1>2. \A s \in Slots : job[s].at = "idle" /\ ~job[s].alone
  BY <1>1 DEF SInv, Places
<1>3. StoreTypeOK'
  BY <1>1 DEF SInv, StoreTypeOK
<1>4. Places' /\ Solitude'
  BY <1>1 DEF SInv, Places, Solitude
<1>5. Private' /\ Achieves'
  BY <1>1, <1>2 DEF Private, Achieves
<1>6. Kept' /\ AlwaysReadable'
  BY <1>1 DEF SInv, Kept, AlwaysReadable, Readable
<1> QED BY <1>3, <1>4, <1>5, <1>6 DEF SInv

LEMMA PutSInv ==
  ASSUME SInv, NEW w \in Writers, NEW n \in Names, NEW b \in Bundles, Put(w, n, b)
  PROVE  SInv'
BY BeginSInv DEF Put

LEMMA RemoveSInv ==
  ASSUME SInv, NEW r \in Removers, NEW n \in Names, Remove(r, n)
  PROVE  SInv'
BY BeginSInv DEF Remove

LEMMA NextSInv == SInv /\ [StoreNext]_stores => SInv'
<1> SUFFICES ASSUME SInv, [StoreNext]_stores PROVE SInv'
  OBVIOUS
<1>1. CASE UNCHANGED stores
  BY <1>1 DEF stores, disk, SInv, StoreTypeOK, Places, Solitude, Private, Fresh,
     Achieves, Kept, AlwaysReadable, Readable
<1>2. ASSUME NEW w \in Writers,
             \/ PutStep(w) \/ PutNotify(w)
             \/ \E n \in Names, b \in Bundles : Put(w, n, b)
      PROVE  SInv'
  BY <1>2, PutSInv, PutOpenSInv, PutWriteSInv, PutRenameSInv, PutInsertSInv,
     PutNotifySInv, PutFailsSInv DEF PutStep
<1>3. ASSUME NEW r \in Removers, RemoveStep(r) \/ \E n \in Names : Remove(r, n)
      PROVE  SInv'
  BY <1>3, RemoveSInv, RemoveDropSInv, RemoveUnlinkSInv, RemoveFailsSInv
     DEF RemoveStep
<1> QED BY <1>1, <1>2, <1>3, CrashSInv, OpenSInv DEF StoreNext, QuietStep

THEOREM StoreInvariant == StoreSpec => []SInv
BY InitSInv, NextSInv, PTL DEF StoreSpec

(* What a put or a remove that was alone promised when it returned is so   *)
(* on disk, and in memory while the store is open, until another call for  *)
(* the sandbox begins, whatever crashes and failures come between          *)
(* (BundleStore::put, ::remove and ::open).                                *)
THEOREM PromisesKept == StoreSpec => []Kept
<1>1. SInv => Kept
  BY DEF SInv
<1> QED BY <1>1, StoreInvariant, PTL

(* A sandbox whose puts never overlapped has a file the next open reads,   *)
(* or none: no crash or failed write leaves half a bundle under the final  *)
(* name (the temporary file and the rename in BundleStore::put).           *)
THEOREM FilesReadable == StoreSpec => []AlwaysReadable
<1>1. SInv => AlwaysReadable
  BY DEF SInv
<1> QED BY <1>1, StoreInvariant, PTL

-----------------------------------------------------------------------------
(* The refinement                                                          *)

(* A call that goes on, or ends, as StoreSteps sees it.                    *)
LEMMA CallGoes ==
  ASSUME NEW s \in Slots, Others(s), job'[s].on = job[s].on,
         job'[s].bundle = job[s].bundle
  PROVE  Calls' = [Calls EXCEPT ![s].at = Stage(job'[s].at)]
BY DEF Others, Calls

LEMMA CallEnds ==
  ASSUME NEW s \in Slots, Others(s), job'[s] = Idle
  PROVE  Calls' = [Calls EXCEPT ![s] = Steps!NoCall]
<1>1. job'[s].at = "idle" /\ job'[s].on = None /\ job'[s].bundle = None
  BY DEF Idle
<1> QED BY <1>1 DEF Others, Calls, Stage, Steps!NoCall

(* What StoreSteps sees of a call.                                         *)
LEMMA CallSeen ==
  ASSUME NEW s \in Slots
  PROVE  /\ Calls[s].at = Stage(job[s].at) /\ Calls[s].on = job[s].on
         /\ Calls[s].bundle = job[s].bundle
BY DEF Calls

LEMMA FileKnown ==
  ASSUME SInv, NEW s \in Slots, NEW b, job[s].at # "idle", raced' = raced,
         json' = [json EXCEPT ![job[s].on] = b]
  PROVE  Known(json)' = Steps!With(Known(json), s, b)
<1>1. job[s].on \in Names
  BY Typed
<1>2. \A n \in Names : json'[n] = IF n = job[s].on THEN b ELSE json[n]
  BY Typed
<1>3. job[s].on \notin raced => json[job[s].on] # Unknown
  BY <1>1 DEF SInv, AlwaysReadable, Readable
<1> QED BY <1>1, <1>2, <1>3, CallSeen DEF Known, Steps!With

LEMMA MapKnown ==
  ASSUME SInv, NEW s \in Slots, NEW b, job[s].at # "idle", raced' = raced,
         map' = [map EXCEPT ![job[s].on] = b]
  PROVE  Known(map)' = Steps!With(Known(map), s, b)
<1>1. job[s].on \in Names
  BY Typed
<1>2. \A n \in Names : map'[n] = IF n = job[s].on THEN b ELSE map[n]
  BY Typed
<1>3. map[job[s].on] # Unknown
  BY <1>1, Typed
<1> QED BY <1>1, <1>2, <1>3, CallSeen DEF Known, Steps!With

(* The files and the map, unseen, or unmoved.                              *)
LEMMA SameKnown ==
  ASSUME raced' = raced
  PROVE  /\ (\A n \in Names \ raced : json'[n] = json[n])
              => Known(json)' = Known(json)
         /\ map' = map => Known(map)' = Known(map)
BY DEF Known

LEMMA GotoSeen ==
  ASSUME SInv, NEW s \in Slots, NEW p, Goto(s, p)
  PROVE  Calls' = [Calls EXCEPT ![s].at = Stage(p)]
<1>1. /\ Others(s) /\ job'[s].on = job[s].on /\ job'[s].bundle = job[s].bundle
      /\ job'[s].at = p
  BY Typed DEF Goto, Others, Job
<1> QED BY <1>1, CallGoes

LEMMA StopSeen ==
  ASSUME SInv, NEW s \in Slots, job' = [job EXCEPT ![s] = Idle]
  PROVE  Calls' = [Calls EXCEPT ![s] = Steps!NoCall]
<1>1. Others(s) /\ job'[s] = Idle
  BY Typed DEF Others
<1> QED BY <1>1, CallEnds

(* A call that fails has changed nothing that StoreSteps sees.             *)
LEMMA FailsSeen ==
  ASSUME SInv, NEW s \in Slots, Stop(s), UNCHANGED <<map, up, raced>>,
         job[s].at \in {"open", "write", "rename", "insert", "drop", "unlink"},
         \A n \in Names \ raced : json'[n] = json[n]
  PROVE  Steps!Fails(s)
<1>1. Calls' = [Calls EXCEPT ![s] = Steps!NoCall]
  BY StopSeen DEF Stop
<1>2. UNCHANGED <<Known(json), Known(map), up>>
  BY SameKnown
<1>3. Calls[s].at \in {"put", "insert", "drop", "unlink"}
  BY CallSeen DEF Stage
<1> QED BY <1>1, <1>2, <1>3 DEF Steps!Fails, Steps!Ends

-----------------------------------------------------------------------------

LEMMA BeginSeen ==
  ASSUME SInv, NEW s \in Slots, NEW p, NEW n, NEW b, up, job[s].at = "idle",
         Begin(s, p, n, b)
  PROVE  Steps!Begins(s, Stage(p), n, b)
<1>1. \A r \in Slots : /\ r # s => job'[r].at = job[r].at /\ job'[r].on = job[r].on
                                   /\ job'[r].bundle = job[r].bundle
                       /\ r = s => job'[r].at = p /\ job'[r].on = n
                                   /\ job'[r].bundle = b
  <2>1. \A r \in Slots : job'[r] =
          IF r = s THEN [at |-> p, on |-> n, bundle |-> b, fd |-> "gone",
                         alone |-> Busy(n) = {}]
          ELSE IF r \in Busy(n) THEN [job[r] EXCEPT !.alone = FALSE]
          ELSE job[r]
    BY Typed DEF Begin
  <2>2. job'[s].at = p /\ job'[s].on = n /\ job'[s].bundle = b
    <3>1. job'[s] = [at |-> p, on |-> n, bundle |-> b, fd |-> "gone",
                     alone |-> Busy(n) = {}]
      BY <2>1, Zenon
    <3> QED BY <3>1
  <2>3. ASSUME NEW r \in Slots, r # s
        PROVE  /\ job'[r].at = job[r].at /\ job'[r].on = job[r].on
               /\ job'[r].bundle = job[r].bundle
    <3>1. job[r] \in Job
      BY Typed
    <3>2. CASE r \in Busy(n)
      BY <2>1, <2>3, <3>1, <3>2 DEF Job
    <3>3. CASE r \notin Busy(n)
      BY <2>1, <2>3, <3>3
    <3> QED BY <3>2, <3>3
  <2> QED BY <2>2, <2>3
<1>2. Calls' = [Calls EXCEPT ![s] = [at |-> Stage(p), on |-> n, bundle |-> b]]
  BY <1>1 DEF Calls
<1>3. Calls[s].at = "idle"
  BY CallSeen DEF Stage
<1> QED BY <1>2, <1>3 DEF Steps!Begins

LEMMA PutSeen ==
  ASSUME SInv, NEW w \in Writers, NEW n \in Names, NEW b \in Bundles, Put(w, n, b)
  PROVE  Steps!Put(w, n, b)
<1>1. Steps!Begins(w, "put", n, b)
  BY BeginSeen DEF Put, Stage
<1>2. (\E v \in Writers : Calls[v].on = n) <=> Busy(n) \cap Writers # {}
  BY CallSeen DEF Busy
<1>3. CASE Busy(n) \cap Writers = {}
  <2>1. raced' = raced /\ UNCHANGED <<json, map, up>>
    BY <1>3 DEF Put, disk
  <2>2. UNCHANGED <<Known(json), Known(map), up>>
    BY <2>1, SameKnown
  <2> QED BY <1>1, <1>2, <1>3, <2>2 DEF Steps!Put
<1>4. CASE Busy(n) \cap Writers # {}
  <2>1. raced' = raced \cup {n} /\ UNCHANGED <<json, map, up>>
    BY <1>4 DEF Put, disk
  <2>2. /\ Known(json)' = [Known(json) EXCEPT ![n] = Unknown]
        /\ Known(map)' = [Known(map) EXCEPT ![n] = Unknown]
    BY <2>1 DEF Known
  <2> QED BY <1>1, <1>2, <1>4, <2>1, <2>2 DEF Steps!Put
<1> QED BY <1>3, <1>4

(* Neither the open nor the write shows.                                   *)
LEMMA OpenUnseen ==
  ASSUME SInv, NEW w \in Writers, PutOpen(w)
  PROVE  UNCHANGED Steps!steps
<1>1. job[w].at = "open" /\ UNCHANGED <<json, map, up, raced>>
  BY DEF PutOpen
<1>2. /\ Others(w) /\ job'[w].on = job[w].on /\ job'[w].bundle = job[w].bundle
      /\ job'[w].at = "write"
  BY Typed DEF PutOpen, Others, Job
<1>3. Calls' = [Calls EXCEPT ![w].at = "put"]
  BY <1>2, CallGoes DEF Stage
<1>4. Calls' = Calls
  BY <1>1, <1>3 DEF Calls, Stage
<1> QED BY <1>1, <1>4, SameKnown DEF Steps!steps

LEMMA WriteUnseen ==
  ASSUME SInv, NEW w \in Writers, PutWrite(w)
  PROVE  UNCHANGED Steps!steps
<1>1. job[w].at = "write" /\ Goto(w, "rename") /\ UNCHANGED <<map, up, raced>>
  BY DEF PutWrite
<1>2. Calls' = [Calls EXCEPT ![w].at = "put"]
  BY <1>1, GotoSeen DEF Stage
<1>3. Calls' = Calls
  BY <1>1, <1>2 DEF Calls, Stage
<1>4. ASSUME NEW n \in Names \ raced
      PROVE  json'[n] = json[n]
  <2>1. CASE job[w].fd = "json"
    <3>1. job[w].on # n
      BY <1>1, <2>1 DEF SInv, Private, Fresh
    <3>2. \E c : json' = [json EXCEPT ![job[w].on] = c]
      BY <2>1 DEF PutWrite
    <3> QED BY <3>1, <3>2, Typed
  <2>2. CASE job[w].fd # "json"
    BY <2>2 DEF PutWrite, disk
  <2> QED BY <2>1, <2>2
<1> QED BY <1>1, <1>3, <1>4, SameKnown DEF Steps!steps

(* The rename is the whole put of the file, unless there was none left to  *)
(* rename.                                                                 *)
LEMMA RenameSeen ==
  ASSUME SInv, NEW w \in Writers, PutRename(w)
  PROVE  Steps!PutFile(w) \/ Steps!Fails(w)
<1> DEFINE n == job[w].on
<1>1. job[w].at = "rename" /\ n \in Names /\ UNCHANGED <<map, up, raced>>
  BY Typed DEF PutRename
<1>2. CASE tmp[n] = None
  <2>1. Stop(w) /\ UNCHANGED json
    BY <1>2 DEF PutRename, disk
  <2> QED BY <1>1, <2>1, FailsSeen
<1>3. CASE tmp[n] # None
  <2>1. /\ json' = [json EXCEPT ![n] = tmp[n]]
        /\ \A s \in Slots : job'[s] =
             IF s = w THEN [job[s] EXCEPT !.at = "insert"]
             ELSE IF s \in Busy(n) THEN [job[s] EXCEPT !.fd = Renamed[@]]
             ELSE job[s]
    BY <1>3, Typed DEF PutRename
  <2>2. /\ Others(w) /\ job'[w].on = n /\ job'[w].bundle = job[w].bundle
        /\ job'[w].at = "insert"
    <3>1. job[w] \in Job /\ job'[w] = [job[w] EXCEPT !.at = "insert"]
      BY <2>1, Typed
    <3>2. job'[w].on = n /\ job'[w].bundle = job[w].bundle /\ job'[w].at = "insert"
      BY <3>1 DEF Job
    <3>3. ASSUME NEW s \in Slots \ {w}
          PROVE  /\ job'[s].at = job[s].at /\ job'[s].on = job[s].on
                 /\ job'[s].bundle = job[s].bundle /\ job'[s].alone = job[s].alone
      <4>1. job[s] \in Job
        BY Typed
      <4>2. CASE s \in Busy(n)
        <5>1. job'[s] = [job[s] EXCEPT !.fd = Renamed[@]]
          BY <2>1, <4>2
        <5> QED BY <4>1, <5>1 DEF Job
      <4>3. CASE s \notin Busy(n)
        BY <2>1, <4>3
      <4> QED BY <4>2, <4>3
    <3> QED BY <3>2, <3>3 DEF Others
  <2>3. Calls' = [Calls EXCEPT ![w].at = "insert"] /\ Calls[w].at = "put"
    BY <1>1, <2>2, CallGoes, CallSeen DEF Stage
  <2>4. Known(json)' = Steps!With(Known(json), w, Calls[w].bundle)
    <3>1. CASE n \in raced
      <4>1. Known(json)' = Known(json)
        BY <1>1, <2>1, <3>1, SameKnown, Typed
      <4>2. Known(json)[n] = Unknown /\ Calls[w].on = n
        BY <1>1, <3>1, CallSeen DEF Known
      <4> QED BY <4>1, <4>2 DEF Steps!With, Known
    <3>2. CASE n \notin raced
      <4>1. tmp[n] = job[w].bundle
        BY <1>1, <3>2 DEF SInv, Private, Fresh
      <4> QED BY <1>1, <2>1, <4>1, FileKnown, CallSeen
    <3> QED BY <3>1, <3>2
  <2>5. UNCHANGED <<Known(map), up>>
    BY <1>1, SameKnown
  <2> QED BY <2>3, <2>4, <2>5 DEF Steps!PutFile, Steps!Continues
<1> QED BY <1>2, <1>3

LEMMA InsertSeen ==
  ASSUME SInv, NEW w \in Writers, PutInsert(w)
  PROVE  Steps!InsertBundle(w)
<1>1. /\ job[w].at = "insert" /\ Goto(w, "notify") /\ UNCHANGED <<json, up, raced>>
      /\ map' = [map EXCEPT ![job[w].on] = job[w].bundle]
  BY DEF PutInsert, disk
<1>2. Calls' = [Calls EXCEPT ![w].at = "notify"] /\ Calls[w].at = "insert"
  BY <1>1, GotoSeen, CallSeen DEF Stage
<1>3. Known(map)' = Steps!With(Known(map), w, Calls[w].bundle)
  BY <1>1, MapKnown, CallSeen
<1>4. UNCHANGED <<Known(json), up>>
  BY <1>1, SameKnown
<1> QED BY <1>2, <1>3, <1>4 DEF Steps!InsertBundle, Steps!Continues

LEMMA NotifySeen ==
  ASSUME SInv, NEW w \in Writers, PutNotify(w)
  PROVE  Steps!Notify(w)
<1>1. /\ job[w].at = "notify" /\ job' = [job EXCEPT ![w] = Idle]
      /\ UNCHANGED <<json, map, up, raced>>
  BY DEF PutNotify, disk
<1>2. Calls' = [Calls EXCEPT ![w] = Steps!NoCall] /\ Calls[w].at = "notify"
  BY <1>1, StopSeen, CallSeen DEF Stage
<1> QED BY <1>1, <1>2, SameKnown DEF Steps!Notify, Steps!Ends

LEMMA PutFailsSeen ==
  ASSUME SInv, NEW w \in Writers, PutFails(w)
  PROVE  Steps!Fails(w)
<1>1. /\ job[w].at \in {"open", "write", "rename", "insert"}
      /\ Stop(w) /\ UNCHANGED <<map, up, raced>>
  BY DEF PutFails
<1>2. ASSUME NEW n \in Names \ raced
      PROVE  json'[n] = json[n]
  <2>1. CASE job[w].at = "write" /\ job[w].fd = "json"
    <3>1. job[w].on # n
      BY <1>1, <2>1 DEF SInv, Private, Fresh
    <3>2. json' = [json EXCEPT ![job[w].on] = Mixed]
      BY <2>1 DEF PutFails
    <3> QED BY <3>1, <3>2, Typed
  <2>2. CASE ~(job[w].at = "write" /\ job[w].fd = "json")
    <3>1. job[w].fd \in {"tmp", "json", "gone"}
      BY Typed DEF Job
    <3> QED BY <2>2, <3>1 DEF PutFails, disk
  <2> QED BY <2>1, <2>2
<1> QED BY <1>1, <1>2, FailsSeen

LEMMA RemoveSeen ==
  ASSUME SInv, NEW r \in Removers, NEW n \in Names, Remove(r, n)
  PROVE  Steps!Remove(r, n)
<1>1. Steps!Begins(r, "drop", n, None) /\ UNCHANGED <<json, map, up, raced>>
  BY BeginSeen DEF Remove, Stage, disk
<1> QED BY <1>1, SameKnown DEF Steps!Remove

LEMMA DropSeen ==
  ASSUME SInv, NEW r \in Removers, RemoveDrop(r)
  PROVE  Steps!RemoveBundle(r)
<1>1. /\ job[r].at = "drop" /\ Goto(r, "unlink") /\ UNCHANGED <<json, up, raced>>
      /\ map' = [map EXCEPT ![job[r].on] = None]
  BY DEF RemoveDrop, disk
<1>2. Calls' = [Calls EXCEPT ![r].at = "unlink"] /\ Calls[r].at = "drop"
  BY <1>1, GotoSeen, CallSeen DEF Stage
<1>3. Known(map)' = Steps!With(Known(map), r, None)
  BY <1>1, MapKnown
<1>4. UNCHANGED <<Known(json), up>>
  BY <1>1, SameKnown
<1> QED BY <1>2, <1>3, <1>4 DEF Steps!RemoveBundle, Steps!Continues

LEMMA UnlinkSeen ==
  ASSUME SInv, NEW r \in Removers, RemoveUnlink(r)
  PROVE  Steps!UnlinkFile(r)
<1>1. /\ job[r].at = "unlink" /\ UNCHANGED <<map, up, raced>>
      /\ json' = [json EXCEPT ![job[r].on] = None]
  BY DEF RemoveUnlink
<1>2. Others(r) /\ job'[r] = Idle
  BY Typed DEF RemoveUnlink, Others, Job
<1>3. Calls' = [Calls EXCEPT ![r] = Steps!NoCall] /\ Calls[r].at = "unlink"
  BY <1>1, <1>2, CallEnds, CallSeen DEF Stage
<1>4. Known(json)' = Steps!With(Known(json), r, None)
  BY <1>1, FileKnown
<1>5. UNCHANGED <<Known(map), up>>
  BY <1>1, SameKnown
<1> QED BY <1>3, <1>4, <1>5 DEF Steps!UnlinkFile, Steps!Ends

LEMMA RemoveFailsSeen ==
  ASSUME SInv, NEW r \in Removers, RemoveFails(r)
  PROVE  Steps!Fails(r)
BY FailsSeen DEF RemoveFails, disk

LEMMA StoreTypes ==
  ASSUME SInv
  PROVE  /\ DOMAIN job = Slots
         /\ map \in [Names -> Bundles \cup {None}]
BY DEF SInv, StoreTypeOK

LEMMA CrashSeen ==
  ASSUME SInv, Crash
  PROVE  Steps!Crash
<1>1. /\ up /\ up' = FALSE /\ raced' = raced /\ json' = json
      /\ map' = [n \in Names |-> None]
      /\ \A s \in Slots : job'[s] = Idle
  BY StoreTypes DEF Crash, disk
<1>2. Calls' = [s \in Slots |-> Steps!NoCall]
  BY <1>1 DEF Calls, Idle, Stage, Steps!NoCall
<1>3. Known(map)' = [n \in Names |->
                       IF Known(map)[n] = Unknown THEN Unknown ELSE None]
  BY <1>1, StoreTypes DEF Known
<1>4. UNCHANGED Known(json)
  BY <1>1, SameKnown
<1> QED BY <1>1, <1>2, <1>3, <1>4 DEF Steps!Crash

LEMMA OpenSeen ==
  ASSUME SInv, Open
  PROVE  Steps!Open
<1>1. ~up /\ up' = TRUE /\ map' = json /\ UNCHANGED <<json, job, raced>>
  BY DEF Open, disk
<1>2. Known(map)' = Known(json) /\ UNCHANGED <<Known(json), Calls>>
  BY <1>1 DEF Known, Calls
<1> QED BY <1>1, <1>2 DEF Steps!Open

LEMMA StoreStepSeen ==
  SInv /\ [StoreNext]_stores => [Steps!Next]_Steps!steps
<1> SUFFICES ASSUME SInv, [StoreNext]_stores
             PROVE  [Steps!Next]_Steps!steps
  OBVIOUS
<1>1. CASE UNCHANGED stores
  BY <1>1 DEF stores, Steps!steps, Known, Calls
<1>2. ASSUME NEW w \in Writers,
             \/ PutStep(w) \/ PutNotify(w)
             \/ \E n \in Names, b \in Bundles : Put(w, n, b)
      PROVE  [Steps!Next]_Steps!steps
  BY <1>2, PutSeen, OpenUnseen, WriteUnseen, RenameSeen, InsertSeen, NotifySeen,
     PutFailsSeen DEF PutStep, Steps!Next
<1>3. ASSUME NEW r \in Removers, RemoveStep(r) \/ \E n \in Names : Remove(r, n)
      PROVE  [Steps!Next]_Steps!steps
  BY <1>3, RemoveSeen, DropSeen, UnlinkSeen, RemoveFailsSeen
     DEF RemoveStep, Steps!Next
<1>4. CASE Crash \/ Open
  BY <1>4, CrashSeen, OpenSeen DEF Steps!Next
<1> QED BY <1>1, <1>2, <1>3, <1>4 DEF StoreNext, QuietStep

LEMMA StoreInitSeen == StoreInit => Steps!Init
BY DEF StoreInit, Steps!Init, Known, Calls, Idle, Stage, Steps!NoCall

(* The system calls of BundleStore::put and ::remove, under any            *)
(* interleaving, failure and crash, implement the atomic steps of          *)
(* StoreSteps, which are those that module Driver takes its calls through. *)
THEOREM StoreImplements == StoreSpec => TwoSteps
<1>1. StoreInit => Steps!Init
  BY StoreInitSeen
<1>2. SInv /\ [StoreNext]_stores => [Steps!Next]_Steps!steps
  BY StoreStepSeen
<1> QED BY <1>1, <1>2, StoreInvariant, PTL DEF StoreSpec, TwoSteps, Steps!Spec
-----------------------------------------------------------------------------
(***************************************************************************)
(* The endpoint                                                            *)
(***************************************************************************)

USE LaunchersAssumption, RefusalsAssumption

EndpointTypeOK ==
  /\ poll \in [Launchers -> PollState]
  /\ found \in [Launchers -> Bundles \cup {None}]
  /\ reply \in [Launchers -> Bundles \cup Refusals \cup {None}]
  /\ missed \subseteq Launchers
  /\ running \in [Launchers -> Generations \cup {None}]

(* No request is under way while the driver is down.                       *)
Attended == ~up => \A l \in Launchers : poll[l] = "idle"

Notifying(n) == \E w \in Writers : job[w].at = "notify" /\ job[w].on = n

(* A request that has looked, and has no change to see, knows what the     *)
(* store has for it, or is about to be notified.                           *)
Told ==
  \A l \in Launchers :
    /\ l \notin missed /\ News(l, map[Sandbox[l]])
    /\ \/ poll[l] = "wait"
       \/ poll[l] = "decide" /\ found[l] # map[Sandbox[l]]
    => Notifying(Sandbox[l])

EInv == SInv /\ EndpointTypeOK /\ Attended /\ Told /\ OwnIncarnation

LEMMA InitEInv == Init => EInv
BY InitSInv DEF Init, EInv, StoreInit, EndpointTypeOK, Attended, Told,
   OwnIncarnation, PollState

-----------------------------------------------------------------------------
(* What the store's steps do to the map and to puts about to notify        *)

(* A quiet step leaves a put that is about to notify where it is.          *)
LEMMA NotifierStays ==
  ASSUME SInv, QuietStep, NEW w \in Writers, job[w].at = "notify"
  PROVE  job'[w].at = "notify" /\ job'[w].on = job[w].on
<1>1. job \in [Slots -> Job] /\ job[w] \in Job /\ w \in Slots /\ w \notin Removers
  BY Typed
<1>2. ASSUME NEW v \in Slots, NEW p, NEW n, NEW b, job[v].at = "idle",
             Begin(v, p, n, b)
      PROVE  job'[w].at = "notify" /\ job'[w].on = job[w].on
  <2>1. job'[w] = IF w \in Busy(n) THEN [job[w] EXCEPT !.alone = FALSE] ELSE job[w]
    BY <1>1, <1>2 DEF Begin
  <2>2. CASE w \in Busy(n)
    BY <1>1, <2>1, <2>2 DEF Job
  <2>3. CASE w \notin Busy(n)
    BY <2>1, <2>3
  <2> QED BY <2>2, <2>3
<1>3. ASSUME NEW v \in Writers, PutStep(v)
      PROVE  job'[w].at = "notify" /\ job'[w].on = job[w].on
  <2>1. v # w
    BY <1>3 DEF PutStep, PutOpen, PutWrite, PutRename, PutInsert, PutFails
  <2>2. CASE PutOpen(v) \/ PutWrite(v) \/ PutInsert(v) \/ PutFails(v)
    BY <1>1, <2>1, <2>2 DEF PutOpen, PutWrite, PutInsert, PutFails, Goto, Stop
  <2>3. CASE PutRename(v)
    <3>1. CASE Stop(v)
      BY <1>1, <2>1, <3>1 DEF Stop
    <3>2. CASE job'[w] = job[w]
      BY <3>2
    <3>3. CASE job'[w] = [job[w] EXCEPT !.fd = Renamed[@]]
      BY <1>1, <3>3 DEF Job
    <3>4. Stop(v) \/ job'[w] = IF w \in Busy(job[v].on)
                               THEN [job[w] EXCEPT !.fd = Renamed[@]] ELSE job[w]
      BY <1>1, <2>1, <2>3 DEF PutRename
    <3> QED BY <3>1, <3>2, <3>3, <3>4
  <2> QED BY <1>3, <2>2, <2>3 DEF PutStep
<1>4. ASSUME NEW r \in Removers, RemoveStep(r)
      PROVE  job'[w].at = "notify" /\ job'[w].on = job[w].on
  <2>1. CASE RemoveDrop(r) \/ RemoveFails(r)
    BY <1>1, <2>1 DEF RemoveDrop, RemoveFails, Goto, Stop
  <2>2. CASE RemoveUnlink(r)
    <3>1. job'[w] = job[w] \/ job'[w] = [job[w] EXCEPT !.fd = "gone"]
      BY <1>1, <2>2 DEF RemoveUnlink
    <3> QED BY <1>1, <3>1 DEF Job
  <2> QED BY <1>4, <2>1, <2>2 DEF RemoveStep
<1>5. CASE Open
  BY <1>5 DEF Open
<1>6. ASSUME NEW v \in Writers, NEW n \in Names, NEW b \in Bundles, Put(v, n, b)
      PROVE  job'[w].at = "notify" /\ job'[w].on = job[w].on
  BY <1>2, <1>6 DEF Put
<1>7. ASSUME NEW r \in Removers, NEW n \in Names, Remove(r, n)
      PROVE  job'[w].at = "notify" /\ job'[w].on = job[w].on
  BY <1>2, <1>7 DEF Remove
<1> QED BY <1>3, <1>4, <1>5, <1>6, <1>7 DEF QuietStep

(* What a quiet step puts into the map of an open store, a put is about to *)
(* notify.                                                                 *)
LEMMA MapMoves ==
  ASSUME SInv, QuietStep, up, NEW n \in Names
  PROVE  \/ map'[n] = map[n]
         \/ map'[n] = None
         \/ Notifying(n)'
<1>1. ASSUME NEW w \in Writers, PutInsert(w), map'[n] # map[n]
      PROVE  Notifying(n)'
  <2>1. job[w].on = n
    BY <1>1, Typed DEF PutInsert
  <2>2. job'[w].at = "notify" /\ job'[w].on = n
    BY <1>1, <2>1, Typed DEF PutInsert, Goto, Job
  <2> QED BY <2>2 DEF Notifying
<1>2. ASSUME NEW r \in Removers, RemoveDrop(r)
      PROVE  map'[n] = map[n] \/ map'[n] = None
  BY <1>2, Typed DEF RemoveDrop
<1> QED BY <1>1, <1>2 DEF QuietStep, PutStep, RemoveStep, Put, PutOpen, PutWrite,
        PutRename, PutFails, Remove, RemoveUnlink, RemoveFails, Open

(* The step of the store is one of its specification.                      *)
LEMMA StoreStep ==
  ASSUME SInv, QuietStep \/ Crash \/ \E w \in Writers : PutNotify(w)
  PROVE  SInv'
BY NextSInv DEF StoreNext

LEMMA UpStays ==
  ASSUME QuietStep
  PROVE  up => up'
BY DEF QuietStep, PutStep, RemoveStep, Put, PutOpen, PutWrite, PutRename,
   PutInsert, PutFails, Remove, RemoveDrop, RemoveUnlink, RemoveFails, Open

(* A failure that is not the store's leaves it as it is.                   *)
LEMMA FaultSInv ==
  ASSUME SInv, Fault, UNCHANGED <<disk, map, up, job, promised, raced>>
  PROVE  SInv'
BY DEF Fault, disk, SInv, StoreTypeOK, Places, Solitude, Private, Fresh, Achieves,
   Kept, AlwaysReadable, Readable

-----------------------------------------------------------------------------
(* The steps                                                               *)

LEMMA QuietEInv ==
  ASSUME EInv, QuietStep, UNCHANGED endpoint
  PROVE  EInv'
<1>1. SInv' /\ UNCHANGED <<poll, found, reply, missed, running>>
  BY StoreStep DEF EInv, endpoint
<1>2. EndpointTypeOK' /\ OwnIncarnation'
  BY <1>1 DEF EInv, EndpointTypeOK, OwnIncarnation
<1>3. Attended'
  BY <1>1, UpStays DEF EInv, Attended
<1>4. Told'
  <2> SUFFICES ASSUME NEW l \in Launchers, l \notin missed,
                      News(l, map[Sandbox[l]])',
                      \/ poll[l] = "wait"
                      \/ poll[l] = "decide" /\ found[l] # map'[Sandbox[l]]
               PROVE  Notifying(Sandbox[l])'
    BY <1>1 DEF Told
  <2>1. up
    BY DEF EInv, Attended
  <2>2. map'[Sandbox[l]] # None
    BY DEF News
  <2>3. CASE map'[Sandbox[l]] = map[Sandbox[l]]
    <3>1. Notifying(Sandbox[l])
      BY <1>1, <2>3 DEF EInv, Told, News
    <3> QED BY <3>1, NotifierStays DEF EInv, Notifying
  <2> QED BY <2>1, <2>2, <2>3, MapMoves DEF EInv
<1> QED BY <1>1, <1>2, <1>3, <1>4 DEF EInv

LEMMA CrashEInv ==
  ASSUME EInv, CrashAll
  PROVE  EInv'
<1>1. SInv'
  BY StoreStep DEF EInv, CrashAll
<1>2. /\ \A l \in Launchers : poll'[l] = "idle" /\ reply'[l] = None
      /\ EndpointTypeOK'
  BY DEF EInv, EndpointTypeOK, CrashAll, Abandon, PollState
<1> QED BY <1>1, <1>2 DEF EInv, Attended, Told, OwnIncarnation

LEMMA NotifyEInv ==
  ASSUME EInv, NEW w \in Writers, Notify(w)
  PROVE  EInv'
<1>1. SInv' /\ UNCHANGED <<map, up, poll, found, reply, running>>
  BY StoreStep DEF EInv, Notify, PutNotify
<1>2. EndpointTypeOK' /\ Attended' /\ OwnIncarnation'
  BY <1>1 DEF EInv, EndpointTypeOK, Attended, OwnIncarnation, Notify
<1>3. Told'
  BY <1>1 DEF Told, Notify
<1> QED BY <1>1, <1>2, <1>3 DEF EInv

(* A step of one request keeps what is so of the others'.                  *)
LEMMA RequestEInv ==
  ASSUME EInv, SInv', EndpointTypeOK', Attended', NEW l \in Launchers,
         UNCHANGED <<map, job>>,
         missed' \in {missed, missed \ {l}},
         \A k \in Launchers \ {l} : /\ poll'[k] = poll[k] /\ found'[k] = found[k]
                                    /\ reply'[k] = reply[k]
                                    /\ running'[k] = running[k],
         reply'[l] \in Bundles =>
           For[reply'[l]] = Uid[l] /\ Generation[reply'[l]] # running'[l],
         poll'[l] = "decide" => found'[l] = map[Sandbox[l]],
         poll'[l] = "wait" => poll[l] = "decide" /\ ~News(l, found[l])
                                /\ missed' = missed /\ running'[l] = running[l]
  PROVE  EInv'
<1>1. OwnIncarnation'
  BY DEF EInv, OwnIncarnation
<1>2. \A n : Notifying(n)' = Notifying(n)
  BY DEF Notifying
<1>3. Told'
  <2> SUFFICES ASSUME NEW k \in Launchers, k \notin missed',
                      News(k, map[Sandbox[k]])',
                      \/ poll'[k] = "wait"
                      \/ poll'[k] = "decide" /\ found'[k] # map[Sandbox[k]]
               PROVE  Notifying(Sandbox[k])
    BY <1>2 DEF Told
  <2>1. CASE k # l
    BY <2>1 DEF EInv, Told, News
  <2>2. CASE k = l
    BY <2>2 DEF EInv, Told, News
  <2> QED BY <2>1, <2>2
<1> QED BY <1>1, <1>3 DEF EInv

LEMMA LauncherEInv ==
  ASSUME EInv, NEW l \in Launchers, LauncherStep(l)
  PROVE  EInv'
<1>1. UNCHANGED stores
  BY DEF LauncherStep, Fetch, Subscribe, Look, Decide, Wake, Receive
<1>2. SInv'
  BY <1>1, NextSInv DEF EInv
<1>3. UNCHANGED <<map, job, up>>
  BY <1>1 DEF stores
<1>4. /\ EndpointTypeOK /\ Sandbox[l] \in Names
      /\ map[Sandbox[l]] \in Bundles \cup {None}
      /\ \A b \in Bundles : Generation[b] \in Generations
  BY Typed DEF EInv, SInv, StoreTypeOK, Generations
<1>5. poll[l] # "idle" \/ up
  BY DEF LauncherStep, Fetch, Subscribe, Look, Decide, Wake, Receive
<1>6. up
  BY <1>5 DEF EInv, Attended
<1>7. Attended'
  BY <1>3, <1>6 DEF Attended
<1>8. CASE Fetch(l)
  <2>1. EndpointTypeOK'
    BY <1>4, <1>8 DEF Fetch, EndpointTypeOK, PollState
  <2> QED BY <1>2, <1>3, <1>4, <1>7, <1>8, <2>1, RequestEInv
          DEF Fetch, EndpointTypeOK, EInv, OwnIncarnation
<1>9. CASE Subscribe(l)
  <2>1. EndpointTypeOK'
    BY <1>4, <1>9 DEF Subscribe, EndpointTypeOK, PollState
  <2> QED BY <1>2, <1>3, <1>4, <1>7, <1>9, <2>1, RequestEInv
          DEF Subscribe, EndpointTypeOK, EInv, OwnIncarnation
<1>10. CASE Look(l)
  <2>1. EndpointTypeOK'
    BY <1>4, <1>10 DEF Look, EndpointTypeOK, PollState
  <2> QED BY <1>2, <1>3, <1>4, <1>7, <1>10, <2>1, RequestEInv
          DEF Look, EndpointTypeOK, EInv, OwnIncarnation
<1>11. CASE Decide(l)
  <2>1. poll[l] = "decide" /\ UNCHANGED <<missed, running>>
    BY <1>11 DEF Decide
  <2>2. CASE \E a \in Bundles \cup Refusals :
               /\ Answer(l, a)
               /\ a \in Bundles => For[a] = Uid[l] /\ Generation[a] # running[l]
    <3>1. PICK a \in Bundles \cup Refusals :
               /\ Answer(l, a)
               /\ a \in Bundles => For[a] = Uid[l] /\ Generation[a] # running[l]
      BY <2>2
    <3>2. EndpointTypeOK'
      BY <1>4, <2>1, <3>1 DEF Answer, EndpointTypeOK, PollState
    <3> QED BY <1>2, <1>3, <1>4, <1>7, <2>1, <3>1, <3>2, RequestEInv
            DEF Answer, EndpointTypeOK
  <2>3. CASE Wait(l) /\ ~News(l, found[l])
    <3>1. EndpointTypeOK'
      BY <1>4, <2>1, <2>3 DEF Wait, EndpointTypeOK, PollState
    <3> QED BY <1>2, <1>3, <1>4, <1>7, <2>1, <2>3, <3>1, RequestEInv
            DEF Wait, EndpointTypeOK, EInv, OwnIncarnation
  <2>4. \/ /\ Answer(l, found[l]) /\ News(l, found[l]) /\ found[l] \in Bundles
        \/ Answer(l, "forbidden")
        \/ Wait(l) /\ ~News(l, found[l])
    BY <1>4, <1>11 DEF Decide, News, EndpointTypeOK
  <2> QED BY <2>2, <2>3, <2>4 DEF News, Refusals
<1>12. CASE Wake(l)
  <2>1. EndpointTypeOK'
    BY <1>4, <1>12 DEF Wake, EndpointTypeOK, PollState
  <2> QED BY <1>2, <1>3, <1>4, <1>7, <1>12, <2>1, RequestEInv
          DEF Wake, EndpointTypeOK, EInv, OwnIncarnation
<1>13. CASE Receive(l)
  <2>1. EndpointTypeOK'
    BY <1>4, <1>13 DEF Receive, EndpointTypeOK, PollState
  <2> QED BY <1>2, <1>3, <1>4, <1>7, <1>13, <2>1, RequestEInv
          DEF Receive, EndpointTypeOK
<1> QED BY <1>8, <1>9, <1>10, <1>11, <1>12, <1>13 DEF LauncherStep

LEMMA EndedEInv ==
  ASSUME EInv, NEW l \in Launchers, Refuse(l) \/ Deadline(l) \/ Lose(l)
  PROVE  EInv'
<1>1. SInv'
  <2>1. CASE Refuse(l) \/ Lose(l)
    BY <2>1, FaultSInv DEF EInv, Refuse, Lose
  <2>2. CASE Deadline(l)
    BY <2>2, NextSInv DEF EInv, Deadline
  <2> QED BY <2>1, <2>2
<1>2. UNCHANGED <<map, job, up, running>>
  BY DEF Refuse, Deadline, Lose, stores
<1>3. poll[l] # "idle"
  BY DEF Refuse, Deadline, Lose
<1>4. Attended'
  BY <1>2, <1>3 DEF EInv, Attended
<1>5. \/ missed' = missed /\ \E a \in Refusals : Answer(l, a)
      \/ Abandon({l})
  BY DEF Refuse, Deadline, Lose, Refusals
<1>6. /\ EndpointTypeOK'
      /\ \A k \in Launchers \ {l} : /\ poll'[k] = poll[k] /\ found'[k] = found[k]
                                    /\ reply'[k] = reply[k]
      /\ reply'[l] \notin Bundles /\ poll'[l] \in {"reply", "idle"}
      /\ missed' \in {missed, missed \ {l}}
  <2>1. CASE Abandon({l})
    BY <1>2, <2>1 DEF Abandon, EInv, EndpointTypeOK, PollState
  <2>2. ASSUME missed' = missed, NEW a \in Refusals, Answer(l, a)
        PROVE  <1>6!1 /\ <1>6!2 /\ <1>6!3 /\ <1>6!4
    BY <1>2, <2>2 DEF Answer, EInv, EndpointTypeOK, PollState
  <2> QED BY <1>5, <2>1, <2>2
<1> QED BY <1>1, <1>2, <1>4, <1>6, RequestEInv

LEMMA NextEInv == EInv /\ [Next]_all => EInv'
<1> SUFFICES ASSUME EInv, [Next]_all PROVE EInv'
  OBVIOUS
<1>1. CASE UNCHANGED all
  <2>1. SInv'
    BY <1>1, NextSInv DEF EInv, all
  <2>2. UNCHANGED <<up, map, job, poll, found, reply, missed, running>>
    BY <1>1 DEF all, stores, endpoint
  <2> QED BY <2>1, <2>2 DEF EInv, EndpointTypeOK, Attended, Told, Notifying, News,
          OwnIncarnation
<1> QED BY <1>1, QuietEInv, CrashEInv, NotifyEInv, LauncherEInv, EndedEInv DEF Next

THEOREM EndpointInvariant == Spec => []EInv
BY InitEInv, NextEInv, PTL DEF Spec

(* Every variable of the store and the endpoint has its type.              *)
THEOREM TypeCorrect == Spec => []TypeOK
<1>1. EInv => TypeOK
  BY DEF EInv, SInv, EndpointTypeOK, TypeOK
<1> QED BY <1>1, EndpointInvariant, PTL

(* However many incarnations of however many actors ask, whatever bundles  *)
(* are put and removed meanwhile and wherever the driver crashes, a        *)
(* launcher is only answered with a bundle that is for its own incarnation *)
(* and that it does not run (the comparisons in launch).                   *)
THEOREM OnlyItsOwn == Spec => []OwnIncarnation
<1>1. EInv => OwnIncarnation
  BY DEF EInv
<1> QED BY <1>1, EndpointInvariant, PTL

(* No request waits while the store has a bundle for it that it has not    *)
(* been, or is not about to be, woken for: launch subscribes before it     *)
(* looks, so a put between the look and the wait is seen.                  *)
THEOREM NeverSleepsThrough == Spec => []NoLostWakeup
<1>1. EInv => NoLostWakeup
  BY DEF EInv, Told, NoLostWakeup, Notifying
<1> QED BY <1>1, EndpointInvariant, PTL
=============================================================================
