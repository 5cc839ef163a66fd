---------------------------- MODULE WatchProofs -----------------------------
(***************************************************************************)
(* Proofs about WatchStream: what existed throughout a poll is never       *)
(* reported deleted by it, and only changes are sent.                      *)
(*                                                                         *)
(* The invariant follows a sandbox that stays from the page it is on to    *)
(* the comparison (Seen), and says what the stream has said of a sandbox   *)
(* last (Base): what the last complete poll found, or the one whose        *)
(* differences are being sent, for those that have been (UpToDate).        *)
(***************************************************************************)
EXTENDS WatchStream, TLAPS

USE NoneAssumption, BoundsAssumption

StreamsTyped ==
  /\ state \in [Names -> Control!ActorState]
  /\ stopped \subseteq Names
  /\ stream \in [Streams -> Stream]
  /\ \A s \in Streams : Len(stream[s].queue) <= Buffer
  /\ task \in [Streams -> Task]
  /\ changes \in 0..MaxChanges /\ faults \in 0..MaxFaults

(* A sandbox that stays is there, and on its page, in the list and in the  *)
(* view made of it.                                                        *)
SeenBy(t) ==
  /\ t.at = "list" => \A n \in t.stayed :
       state[n] # "none" /\ (n \notin t.unread => t.listed[n] # "none")
  /\ t.at = "read" => \A n \in t.stayed : t.listed[n] # "none"
  /\ t.at = "send" => \A n \in t.stayed : t.current[n] # "gone"

Seen == \A s \in Streams : SeenBy(task[s])

(* What is left to send are differences.                                   *)
Differs(t) == t.at = "send" => \A n \in t.todo : t.current[n] # t.prior[n]

Base(t, n) == IF t.at = "send" /\ n \notin t.todo THEN t.current[n] ELSE t.prior[n]

(* The last of q to speak of n says v.                                     *)
Latest(q, held, n, v) ==
  \A i \in 0..Len(q) :
    /\ Speaks(q, n, i)
    /\ \A k \in (i + 1)..Len(q) : ~Speaks(q, n, k)
    => View(q, held, n, i) = v

UpToDate ==
  \A s \in Streams : \A n \in Names :
    stream[s].open /\ task[s].at # "off" =>
      Latest(stream[s].queue, stream[s].told, n, Base(task[s], n))

WInv == /\ StreamsTyped /\ Seen /\ (\A s \in Streams : Differs(task[s]))
        /\ UpToDate /\ SendsChanges

-----------------------------------------------------------------------------
(* Channels                                                                *)

LEMMA EmptyChannel ==
  ASSUME NEW held, NEW n
  PROVE  OnlyNews(<<>>, held, n) /\ Latest(<<>>, held, n, held[n])
BY DEF OnlyNews, Latest, View

(* An event appended that is news stays the last of its sandbox.           *)
LEMMA Appended ==
  ASSUME NEW q \in Seq(Event), NEW held, NEW n, NEW v, NEW e \in Event,
         OnlyNews(q, held, n), Latest(q, held, n, v), e.id = n => e.shown # v
  PROVE  /\ OnlyNews(Append(q, e), held, n)
         /\ Latest(Append(q, e), held, n, IF e.id = n THEN e.shown ELSE v)
<1> DEFINE p == Append(q, e)
<1>1. /\ Len(q) \in Nat /\ Len(p) = Len(q) + 1 /\ p[Len(q) + 1] = e
      /\ \A i \in 1..Len(q) : p[i] = q[i]
  OBVIOUS
<1>2. \A i \in 0..Len(q) : /\ Speaks(p, n, i) <=> Speaks(q, n, i)
                           /\ View(p, held, n, i) = View(q, held, n, i)
  BY <1>1 DEF Speaks, View
<1>3. /\ Speaks(p, n, Len(q) + 1) <=> e.id = n
      /\ View(p, held, n, Len(q) + 1) = e.shown
  BY <1>1 DEF Speaks, View
<1> HIDE DEF p
<1>4. ASSUME NEW i \in 0..Len(p), NEW j \in 0..Len(p),
             i < j, Speaks(p, n, i), Speaks(p, n, j),
             \A k \in (i + 1)..(j - 1) : ~Speaks(p, n, k)
      PROVE  View(p, held, n, i) # View(p, held, n, j)
  <2>1. i \in 0..Len(q) /\ \A k \in (i + 1)..(j - 1) : k \in 0..Len(q)
    BY <1>1, <1>4
  <2>2. CASE j \in 0..Len(q)
    BY <1>2, <1>4, <2>1, <2>2 DEF OnlyNews
  <2>3. CASE j = Len(q) + 1
    <3>1. \A k \in (i + 1)..Len(q) : ~Speaks(q, n, k)
      BY <1>1, <1>2, <1>4, <2>1, <2>3
    <3>2. View(q, held, n, i) = v
      BY <1>2, <1>4, <2>1, <3>1 DEF Latest
    <3> QED BY <1>2, <1>3, <1>4, <2>1, <2>3, <3>2
  <2> QED BY <1>1, <2>2, <2>3
<1>5. ASSUME NEW i \in 0..Len(p), Speaks(p, n, i),
             \A k \in (i + 1)..Len(p) : ~Speaks(p, n, k)
      PROVE  View(p, held, n, i) = IF e.id = n THEN e.shown ELSE v
  <2>1. CASE i = Len(q) + 1
    BY <1>3, <1>5, <2>1
  <2>2. CASE i \in 0..Len(q)
    <3>1. Len(q) + 1 \in (i + 1)..Len(p) /\ \A k \in (i + 1)..Len(q) : k \in 0..Len(q) /\ k \in (i + 1)..Len(p)
      BY <1>1, <2>2
    <3>2. e.id # n
      BY <1>3, <1>5, <3>1
    <3>3. \A k \in (i + 1)..Len(q) : ~Speaks(q, n, k)
      BY <1>2, <1>5, <3>1
    <3> QED BY <1>2, <1>5, <2>2, <3>2, <3>3 DEF Latest
  <2> QED BY <1>1, <2>1, <2>2
<1> QED BY <1>4, <1>5 DEF OnlyNews, Latest, p

(* An event that is read speaks for itself in what the reader holds.       *)
LEMMA Taken ==
  ASSUME NEW q \in Seq(Event), q # <<>>, NEW held \in [Names -> Views], NEW v,
         NEW n \in Names, OnlyNews(q, held, n)
  PROVE  LET now == [held EXCEPT ![Head(q).id] = Head(q).shown] IN
         /\ OnlyNews(Tail(q), now, n)
         /\ Latest(q, held, n, v) => Latest(Tail(q), now, n, v)
<1> DEFINE now == [held EXCEPT ![Head(q).id] = Head(q).shown]
           p == Tail(q)
           one == IF q[1].id = n THEN 1 ELSE 0
           back(i) == IF i = 0 THEN one ELSE i + 1
<1>1. /\ Len(q) \in Nat \ {0} /\ Len(p) = Len(q) - 1 /\ Head(q) = q[1]
      /\ \A i \in 1..Len(p) : p[i] = q[i + 1]
  OBVIOUS
<1>2. \A i \in 0..Len(p) : /\ back(i) \in 0..Len(q)
                           /\ Speaks(p, n, i) => Speaks(q, n, back(i))
                           /\ View(p, now, n, i) = View(q, held, n, back(i))
  BY <1>1 DEF Speaks, View
<1>3. ASSUME NEW i \in 0..Len(p), NEW b \in Nat, NEW k \in (back(i) + 1)..b,
             b <= Len(q), \A l \in (i + 1)..(b - 1) : ~Speaks(p, n, l)
      PROVE  ~Speaks(q, n, k)
  <2>1. CASE k = 1
    BY <1>1, <2>1, <1>3 DEF Speaks
  <2>2. CASE k > 1
    <3>1. k - 1 \in (i + 1)..(b - 1) /\ k - 1 \in 1..Len(p)
      BY <1>1, <1>3, <2>2
    <3>2. p[k - 1] = q[k] /\ ~Speaks(p, n, k - 1)
      BY <1>1, <1>3, <3>1
    <3> QED BY <3>1, <3>2 DEF Speaks
  <2> QED BY <1>1, <1>3, <2>1, <2>2
<1> HIDE DEF now, p
<1>4. ASSUME NEW i \in 0..Len(p), NEW j \in 0..Len(p),
             i < j, Speaks(p, n, i), Speaks(p, n, j),
             \A k \in (i + 1)..(j - 1) : ~Speaks(p, n, k)
      PROVE  View(p, now, n, i) # View(p, now, n, j)
  <2>1. /\ back(i) \in 0..Len(q) /\ back(j) \in 0..Len(q) /\ back(j) = j + 1
        /\ back(i) < back(j)
    BY <1>1, <1>4
  <2>2. \A k \in (back(i) + 1)..(back(j) - 1) : ~Speaks(q, n, k)
    <3>1. SUFFICES ASSUME NEW k \in (back(i) + 1)..j PROVE ~Speaks(q, n, k)
      BY <2>1, <1>1
    <3>2. j \in Nat /\ j <= Len(q)
      BY <1>1
    <3> QED BY <1>3, <1>4, <3>1, <3>2
  <2> QED BY <1>2, <1>4, <2>1, <2>2 DEF OnlyNews
<1>5. ASSUME Latest(q, held, n, v), NEW i \in 0..Len(p), Speaks(p, n, i),
             \A k \in (i + 1)..Len(p) : ~Speaks(p, n, k)
      PROVE  View(p, now, n, i) = v
  <2>1. \A k \in (back(i) + 1)..Len(q) : ~Speaks(q, n, k)
    <3>1. Len(q) - 1 = Len(p) /\ Len(q) \in Nat /\ Len(q) <= Len(q)
      BY <1>1
    <3> QED BY <1>3, <1>5, <3>1
  <2> QED BY <1>2, <1>5, <2>1 DEF Latest
<1> QED BY <1>4, <1>5 DEF OnlyNews, Latest, now, p

-----------------------------------------------------------------------------
(* The steps                                                               *)

LEMMA Streamlets ==
  Gone \in [Names -> Views] /\ Fresh \in Stream /\ Shut \in Stream /\ Off \in Task
<1>1. Gone \in [Names -> Views]
  BY DEF Gone, Views
<1>2. Fresh \in Stream /\ Shut \in Stream
  BY <1>1 DEF Fresh, Shut, Stream
<1>3. Off \in Task
  BY <1>1 DEF Off, Task, Control!ActorState
<1> QED BY <1>1, <1>2, <1>3

LEMMA InitWInv == Init => WInv
<1> SUFFICES ASSUME Init PROVE WInv
  OBVIOUS
<1>1. \A s \in Streams : /\ stream[s] \in Stream /\ stream[s].queue = <<>>
                         /\ ~stream[s].open
                         /\ task[s] = Off
  BY Streamlets DEF Init, Shut
<1>2. StreamsTyped
  <2>1. state \in [Names -> Control!ActorState] /\ stopped \subseteq Names
    BY DEF Init
  <2>2. stream \in [Streams -> Stream] /\ task \in [Streams -> Task]
    BY Streamlets DEF Init
  <2>3. \A s \in Streams : Len(stream[s].queue) <= Buffer
    BY <1>1
  <2>4. changes \in 0..MaxChanges /\ faults \in 0..MaxFaults
    BY DEF Init
  <2> QED BY <2>1, <2>2, <2>3, <2>4 DEF StreamsTyped
<1>3. Seen /\ (\A s \in Streams : Differs(task[s])) /\ UpToDate
  BY <1>1 DEF Seen, SeenBy, Differs, UpToDate, Off
<1>4. SendsChanges
  <2>1. ASSUME NEW s \in Streams, NEW n
        PROVE  OnlyNews(stream[s].queue, stream[s].told, n)
    <3>1. OnlyNews(<<>>, stream[s].told, n)
      BY EmptyChannel
    <3> QED BY <1>1, <3>1
  <2> QED BY <2>1 DEF SendsChanges
<1> QED BY <1>2, <1>3, <1>4 DEF WInv

(* A stream that is dropped has said nothing.                              *)
LEMMA DropWInv ==
  ASSUME WInv, NEW s \in Streams, stream' = Closed(s),
         UNCHANGED <<world, task, faults>>
  PROVE  WInv'
<1>1. stream \in [Streams -> Stream] /\ Buffer \in Nat
  BY DEF WInv, StreamsTyped
<1>2. /\ stream' \in [Streams -> Stream]
      /\ stream'[s].queue = <<>> /\ ~stream'[s].open
      /\ \A t \in Streams : t # s => stream'[t] = stream[t]
  BY <1>1, Streamlets DEF Closed, Shut
<1>3. StreamsTyped'
  BY <1>1, <1>2 DEF WInv, StreamsTyped, world
<1>4. Seen' /\ (\A t \in Streams : Differs(task[t]))'
  BY DEF WInv, Seen, SeenBy, world
<1>5. UpToDate'
  BY <1>2 DEF WInv, UpToDate
<1>6. SendsChanges'
  <2>1. ASSUME NEW n \in Names PROVE OnlyNews(stream'[s].queue, stream'[s].told, n)
    <3>1. OnlyNews(<<>>, stream'[s].told, n)
      BY EmptyChannel
    <3> QED BY <1>2, <3>1
  <2> QED BY <1>2, <2>1 DEF WInv, SendsChanges
<1> QED BY <1>3, <1>4, <1>5, <1>6 DEF WInv

LEMMA OpenWInv ==
  ASSUME WInv, NEW s \in Streams, Open(s)
  PROVE  WInv'
<1>1. /\ stream \in [Streams -> Stream] /\ task \in [Streams -> Task]
  BY DEF WInv, StreamsTyped
<1>2. /\ stream' \in [Streams -> Stream]
      /\ stream'[s].queue = <<>> /\ stream'[s].told = Gone
      /\ \A t \in Streams : t # s => stream'[t] = stream[t]
  BY <1>1 DEF Open, Fresh, Stream, Gone, Views
<1>3. /\ task' \in [Streams -> Task] /\ task'[s].at = "top" /\ task'[s].prior = Gone
      /\ \A t \in Streams : t # s => task'[t] = task[t]
  BY <1>1 DEF Open, Off, Task, Gone, Views, Control!ActorState
<1>4. StreamsTyped'
  BY <1>2, <1>3 DEF WInv, StreamsTyped, Open, world
<1>5. Seen' /\ (\A t \in Streams : Differs(task[t]))'
  BY <1>3 DEF WInv, Seen, SeenBy, Differs, Open, world
<1>6. UpToDate'
  <2>1. \A n \in Names : Base(task'[s], n) = Gone[n]
    BY <1>3 DEF Base
  <2> QED BY <1>2, <1>3, <2>1, EmptyChannel DEF WInv, UpToDate
<1>7. SendsChanges'
  BY <1>2, EmptyChannel DEF WInv, SendsChanges
<1> QED BY <1>4, <1>5, <1>6, <1>7 DEF WInv

LEMMA ReceiveWInv ==
  ASSUME WInv, NEW s \in Streams, Receive(s)
  PROVE  WInv'
<1> DEFINE q == stream[s].queue  e == Head(q)
           now == [stream[s].told EXCEPT ![e.id] = e.shown]
<1>1. CASE stream' = Closed(s)
  BY <1>1, DropWInv DEF Receive
<1>2. CASE stream' = [stream EXCEPT ![s].queue = Tail(@), ![s].told[e.id] = e.shown]
  <2>1. /\ stream \in [Streams -> Stream] /\ Len(q) <= Buffer /\ Buffer \in Nat
        /\ q \in Seq(Event) /\ q # <<>> /\ stream[s].told \in [Names -> Views]
    BY DEF WInv, StreamsTyped, Stream, Receive
  <2>2. /\ e \in Event /\ Tail(q) \in Seq(Event) /\ Len(Tail(q)) <= Buffer
    BY <2>1
  <2>3. now \in [Names -> Views]
    BY <2>1, <2>2 DEF Event
  <2>4. /\ stream'[s] = [stream[s] EXCEPT !.queue = Tail(q), !.told = now]
        /\ stream' \in [Streams -> Stream]
        /\ stream'[s].queue = Tail(q) /\ stream'[s].told = now
        /\ stream'[s].open = stream[s].open
        /\ \A t \in Streams : t # s => stream'[t] = stream[t]
    BY <1>2, <2>1, <2>2, <2>3 DEF Stream
  <2>5. StreamsTyped'
    BY <2>2, <2>4 DEF WInv, StreamsTyped, Receive, world
  <2>6. Seen' /\ (\A t \in Streams : Differs(task[t]))'
    BY DEF WInv, Seen, SeenBy, Receive, world
  <2>7. ASSUME NEW n \in Names
        PROVE  /\ OnlyNews(Tail(q), now, n)
               /\ stream[s].open /\ task[s].at # "off" =>
                    Latest(Tail(q), now, n, Base(task[s], n))
    <3>1. OnlyNews(q, stream[s].told, n)
      BY DEF WInv, SendsChanges
    <3>2. stream[s].open /\ task[s].at # "off" =>
            Latest(q, stream[s].told, n, Base(task[s], n))
      BY DEF WInv, UpToDate
    <3> HIDE DEF q, e
    <3>3. OnlyNews(Tail(q), [stream[s].told EXCEPT ![Head(q).id] = Head(q).shown], n)
      BY <2>1, <3>1, Taken
    <3>4. Latest(q, stream[s].told, n, Base(task[s], n)) =>
            Latest(Tail(q), [stream[s].told EXCEPT ![Head(q).id] = Head(q).shown],
                   n, Base(task[s], n))
      BY <2>1, <3>1, Taken
    <3> QED BY <3>2, <3>3, <3>4 DEF e
  <2> HIDE DEF now, q, e
  <2>8. UpToDate'
    <3>1. task' = task
      BY DEF Receive
    <3>2. SUFFICES ASSUME NEW t \in Streams, NEW n \in Names,
                          stream'[t].open, task[t].at # "off"
                   PROVE  Latest(stream'[t].queue, stream'[t].told, n, Base(task[t], n))
      BY <3>1 DEF UpToDate
    <3>3. CASE t = s
      <4>1. Latest(Tail(q), now, n, Base(task[s], n))
        BY <2>4, <2>7, <3>2, <3>3
      <4> QED BY <2>4, <3>3, <4>1
    <3>4. CASE t # s
      BY <2>4, <3>2, <3>4 DEF WInv, UpToDate
    <3> QED BY <3>3, <3>4
  <2>9. SendsChanges'
    <3>1. SUFFICES ASSUME NEW t \in Streams, NEW n \in Names
                   PROVE  OnlyNews(stream'[t].queue, stream'[t].told, n)
      BY DEF SendsChanges
    <3>2. CASE t = s
      <4>1. OnlyNews(Tail(q), now, n)
        BY <2>7
      <4> QED BY <2>4, <3>2, <4>1
    <3>3. CASE t # s
      BY <2>4, <3>3 DEF WInv, SendsChanges
    <3> QED BY <3>2, <3>3
  <2> QED BY <2>5, <2>6, <2>8, <2>9 DEF WInv
<1> QED BY <1>1, <1>2 DEF Receive

(* The world moves on.                                                     *)
LEMMA WorldWInv ==
  ASSUME WInv, NEW n \in Names, Move(n) \/ Mark(n)
  PROVE  WInv'
<1>1. CASE Mark(n)
  <2>1. StreamsTyped'
    BY <1>1 DEF WInv, StreamsTyped, Mark
  <2> QED BY <1>1, <2>1 DEF WInv, Seen, SeenBy, UpToDate, SendsChanges, Mark
<1>2. CASE Move(n)
  <2>1. PICK s \in NextStates(state[n]) \ {state[n]} :
          /\ state' = [state EXCEPT ![n] = s]
          /\ task' = [t \in Streams |->
               IF s = "none" /\ task[t].at = "list"
               THEN [task[t] EXCEPT !.stayed = @ \ {n}] ELSE task[t]]
    BY <1>2 DEF Move
  <2>2. /\ state \in [Names -> Control!ActorState] /\ task \in [Streams -> Task]
    BY DEF WInv, StreamsTyped
  <2>3. s \in Control!ActorState
    BY <2>1, <2>2 DEF NextStates, Control!ActorState, Control!Via, Control!Settled,
       Control!LifecycleRpc, Control!Moving, Control!From
  <2>4. ASSUME NEW t \in Streams
        PROVE  /\ task'[t] \in Task /\ task'[t].at = task[t].at
               /\ task'[t].unread = task[t].unread /\ task'[t].listed = task[t].listed
               /\ task'[t].prior = task[t].prior /\ task'[t].current = task[t].current
               /\ task'[t].todo = task[t].todo
               /\ task'[t].stayed \subseteq task[t].stayed
               /\ s = "none" /\ task[t].at = "list" => n \notin task'[t].stayed
    <3>1. task[t] \in Task
      BY <2>2
    <3>2. CASE s = "none" /\ task[t].at = "list"
      <4>1. task'[t] = [task[t] EXCEPT !.stayed = task[t].stayed \ {n}]
        BY <2>1, <3>2
      <4> QED BY <3>1, <4>1 DEF Task
    <3>3. CASE ~(s = "none" /\ task[t].at = "list")
      <4>1. task'[t] = task[t]
        BY <2>1, <3>3
      <4> QED BY <3>1, <3>3, <4>1
    <3> QED BY <3>2, <3>3
  <2>5. StreamsTyped'
    <3>1. task' \in [Streams -> Task]
      BY <2>1, <2>4
    <3>2. state' \in [Names -> Control!ActorState]
      BY <2>1, <2>2, <2>3
    <3> QED BY <1>2, <3>1, <3>2 DEF WInv, StreamsTyped, Move
  <2>6. Seen'
    <3>1. SUFFICES ASSUME NEW t \in Streams PROVE SeenBy(task[t])'
      BY DEF Seen
    <3>2. SeenBy(task[t])
      BY DEF WInv, Seen
    <3>3. \A m \in Names : state'[m] = IF m = n THEN s ELSE state[m]
      BY <2>1, <2>2
    <3>4. task'[t].stayed \subseteq Names
      BY <2>4 DEF Task
    <3> QED BY <2>4, <3>2, <3>3, <3>4 DEF SeenBy
  <2>7. (\A t \in Streams : Differs(task[t]))'
    BY <2>4 DEF WInv, Differs
  <2>8. UpToDate'
    <3>1. \A t \in Streams : \A m \in Names : Base(task'[t], m) = Base(task[t], m)
      BY <2>4 DEF Base
    <3> QED BY <1>2, <2>4, <3>1 DEF WInv, UpToDate, Move
  <2>9. SendsChanges'
    BY <1>2 DEF WInv, SendsChanges, Move
  <2> QED BY <2>5, <2>6, <2>7, <2>8, <2>9 DEF WInv
<1> QED BY <1>1, <1>2

(* The task goes on without a word.                                        *)
LEMMA QuietWInv ==
  ASSUME WInv, NEW s \in Streams, NEW t \in Task,
         task' = [task EXCEPT ![s] = t],
         UNCHANGED <<world, stream>>, faults' \in 0..MaxFaults,
         SeenBy(t), Differs(t),
         t.at # "off" => /\ task[s].at # "off"
                         /\ \A n \in Names : Base(t, n) = Base(task[s], n)
  PROVE  WInv'
<1>1. /\ task' \in [Streams -> Task] /\ task'[s] = t
      /\ \A r \in Streams : r # s => task'[r] = task[r]
  BY DEF WInv, StreamsTyped
<1>2. StreamsTyped'
  BY <1>1 DEF WInv, StreamsTyped, world
<1>3. Seen'
  <2>1. state' = state
    BY DEF world
  <2> QED BY <1>1, <2>1 DEF WInv, Seen, SeenBy
<1>4. (\A r \in Streams : Differs(task[r]))'
  BY <1>1 DEF WInv, Differs
<1>5. UpToDate'
  BY <1>1 DEF WInv, UpToDate
<1>6. SendsChanges'
  BY DEF WInv, SendsChanges
<1> QED BY <1>2, <1>3, <1>4, <1>5, <1>6 DEF WInv

LEMMA EndWInv ==
  ASSUME WInv, NEW s \in Streams, End(s), UNCHANGED <<world, stream, faults>>
  PROVE  WInv'
<1>1. SeenBy(Off) /\ Differs(Off) /\ Off.at = "off"
  BY DEF SeenBy, Differs, Off
<1>2. faults' \in 0..MaxFaults
  BY DEF WInv, StreamsTyped
<1> QED BY <1>1, <1>2, Streamlets, QuietWInv DEF End

LEMMA GotoWInv ==
  ASSUME WInv, NEW s \in Streams, NEW p \in {"top", "dial", "error", "sleep"},
         task[s].at \notin {"off", "send"}, Goto(s, p),
         UNCHANGED <<world, stream>>, faults' \in 0..MaxFaults
  PROVE  WInv'
<1> DEFINE t == [task[s] EXCEPT !.at = p]
<1>1. task \in [Streams -> Task] /\ task[s] \in Task
  BY DEF WInv, StreamsTyped
<1>2. t \in Task /\ t.at = p /\ t.prior = task[s].prior
  BY <1>1 DEF Task
<1>3. SeenBy(t) /\ Differs(t) /\ \A n \in Names : Base(t, n) = Base(task[s], n)
  BY <1>2 DEF SeenBy, Differs, Base
<1>4. task' = [task EXCEPT ![s] = t]
  BY <1>1 DEF Goto
<1> HIDE DEF t
<1> QED BY <1>2, <1>3, <1>4, QuietWInv

LEMMA ListingWInv ==
  ASSUME WInv, NEW s \in Streams, task[s].at \in {"top", "dial"},
         task' = [task EXCEPT ![s] = Listing(@)], UNCHANGED <<world, stream, faults>>
  PROVE  WInv'
<1> DEFINE t == Listing(task[s])
<1>1. task \in [Streams -> Task] /\ task[s] \in Task /\ faults' \in 0..MaxFaults
  BY DEF WInv, StreamsTyped
<1>2. /\ t \in Task /\ t.at = "list" /\ t.prior = task[s].prior
      /\ t.unread = Names /\ t.stayed = {n \in Names : state[n] # "none"}
  BY <1>1 DEF Task, Listing
<1>3. SeenBy(t) /\ Differs(t) /\ \A n \in Names : Base(t, n) = Base(task[s], n)
  BY <1>2 DEF SeenBy, Differs, Base
<1>4. task' = [task EXCEPT ![s] = t]
  BY <1>1
<1> HIDE DEF t
<1> QED BY <1>1, <1>2, <1>3, <1>4, QuietWInv

LEMMA PageWInv ==
  ASSUME WInv, NEW s \in Streams, NEW n \in Names, Page(s, n)
  PROVE  WInv'
<1> DEFINE p == IF task[s].unread = {n} THEN "read" ELSE "list"
           t == [task[s] EXCEPT !.unread = task[s].unread \ {n},
                                !.listed = [task[s].listed EXCEPT ![n] = state[n]],
                                !.at = p]
<1>1. /\ task \in [Streams -> Task] /\ task[s] \in Task /\ faults' \in 0..MaxFaults
      /\ state[n] \in Control!ActorState
  BY DEF WInv, StreamsTyped, Page
<1>2. [task[s].listed EXCEPT ![n] = state[n]] \in [Names -> Control!ActorState]
  BY <1>1 DEF Task
<1>3. /\ t \in Task /\ t.at = p /\ t.prior = task[s].prior
      /\ t.unread = task[s].unread \ {n} /\ t.stayed = task[s].stayed
      /\ t.listed = [task[s].listed EXCEPT ![n] = state[n]]
  BY <1>1, <1>2 DEF Task
<1>4. \A m \in Names : t.listed[m] = IF m = n THEN state[n] ELSE task[s].listed[m]
  BY <1>1, <1>3 DEF Task
<1>5. /\ task[s].at = "list" /\ UNCHANGED <<world, stream, faults>>
      /\ task' = [task EXCEPT ![s] = t]
  BY <1>1 DEF Page
<1>6. SeenBy(task[s]) /\ task[s].stayed \subseteq Names
  BY <1>1 DEF WInv, Seen, Task
<1> HIDE DEF t
<1>7. SeenBy(t)
  BY <1>3, <1>4, <1>5, <1>6 DEF SeenBy
<1>8. Differs(t) /\ \A m \in Names : Base(t, m) = Base(task[s], m)
  BY <1>3, <1>5 DEF Differs, Base
<1> QED BY <1>1, <1>3, <1>5, <1>7, <1>8, QuietWInv

LEMMA PageFailsWInv ==
  ASSUME WInv, NEW s \in Streams, PageFails(s)
  PROVE  WInv'
<1> DEFINE t == [task[s] EXCEPT !.at = "sleep", !.client = FALSE, !.unread = {}]
<1>1. task \in [Streams -> Task] /\ task[s] \in Task
  BY DEF WInv, StreamsTyped
<1>2. t \in Task /\ t.at = "sleep" /\ t.prior = task[s].prior
  BY <1>1 DEF Task
<1>3. /\ task[s].at = "list" /\ UNCHANGED <<world, stream>>
      /\ task' = [task EXCEPT ![s] = t]
  BY <1>1 DEF PageFails
<1>4. faults' \in 0..MaxFaults
  BY DEF WInv, StreamsTyped, PageFails, Fault
<1> HIDE DEF t
<1>5. SeenBy(t) /\ Differs(t) /\ \A n \in Names : Base(t, n) = Base(task[s], n)
  BY <1>2, <1>3 DEF SeenBy, Differs, Base
<1> QED BY <1>2, <1>3, <1>4, <1>5, QuietWInv

LEMMA ShownAsIs ==
  ASSUME NEW a \in Control!ActorState, NEW m \in BOOLEAN
  PROVE  Shown(a, m) \in Views /\ (a # "none" => Shown(a, m) # "gone")
BY DEF Shown, Views, Control!ActorState

LEMMA ReadWInv ==
  ASSUME WInv, NEW s \in Streams, Read(s)
  PROVE  WInv'
<1> DEFINE now == [n \in Names |-> Shown(task[s].listed[n], n \in stopped)]
           todo == {n \in Names : now[n] # task[s].prior[n]}
           t == [task[s] EXCEPT !.at = "send", !.current = now, !.todo = todo]
<1>1. task \in [Streams -> Task] /\ task[s] \in Task /\ faults' \in 0..MaxFaults
  BY DEF WInv, StreamsTyped, Read
<1>2. /\ now \in [Names -> Views]
      /\ \A n \in Names : task[s].listed[n] # "none" => now[n] # "gone"
  <2>1. \A n \in Names : task[s].listed[n] \in Control!ActorState
    BY <1>1 DEF Task
  <2>2. ASSUME NEW n \in Names
        PROVE  /\ Shown(task[s].listed[n], n \in stopped) \in Views
               /\ task[s].listed[n] # "none" =>
                    Shown(task[s].listed[n], n \in stopped) # "gone"
    <3>1. (n \in stopped) \in BOOLEAN
      OBVIOUS
    <3>2. task[s].listed[n] \in Control!ActorState
      BY <2>1
    <3> QED BY <3>1, <3>2, ShownAsIs
  <2> QED BY <2>2
<1>3. todo \subseteq Names /\ \A n \in Names : n \notin todo => now[n] = task[s].prior[n]
  OBVIOUS
<1>4. \A n \in todo : now[n] # task[s].prior[n]
  OBVIOUS
<1>5. /\ task[s].at = "read" /\ UNCHANGED <<world, stream, faults>>
      /\ task' = [task EXCEPT ![s] = t]
  BY <1>1 DEF Read
<1> HIDE DEF now, todo
<1>6. /\ t \in Task /\ t.at = "send" /\ t.prior = task[s].prior
      /\ t.current = now /\ t.todo = todo /\ t.stayed = task[s].stayed
  BY <1>1, <1>2, <1>3 DEF Task
<1>7. SeenBy(task[s]) /\ task[s].stayed \subseteq Names
  BY <1>1 DEF WInv, Seen, Task
<1> HIDE DEF t
<1>8. SeenBy(t)
  BY <1>2, <1>5, <1>6, <1>7 DEF SeenBy
<1>9. Differs(t) /\ \A n \in Names : Base(t, n) = Base(task[s], n)
  BY <1>3, <1>4, <1>5, <1>6 DEF Differs, Base
<1> QED BY <1>1, <1>5, <1>6, <1>8, <1>9, QuietWInv

LEMMA SentWInv ==
  ASSUME WInv, NEW s \in Streams, Sent(s)
  PROVE  WInv'
<1> DEFINE t == [task[s] EXCEPT !.at = "sleep", !.prior = task[s].current]
<1>1. task \in [Streams -> Task] /\ task[s] \in Task /\ faults' \in 0..MaxFaults
  BY DEF WInv, StreamsTyped, Sent
<1>2. t \in Task /\ t.at = "sleep" /\ t.prior = task[s].current
  BY <1>1 DEF Task
<1>3. /\ task[s].at = "send" /\ task[s].todo = {} /\ UNCHANGED <<world, stream, faults>>
      /\ task' = [task EXCEPT ![s] = t]
  BY <1>1 DEF Sent
<1> HIDE DEF t
<1>4. SeenBy(t) /\ Differs(t) /\ \A n \in Names : Base(t, n) = Base(task[s], n)
  BY <1>2, <1>3 DEF SeenBy, Differs, Base
<1> QED BY <1>1, <1>2, <1>3, <1>4, QuietWInv

(* An event goes into the channel of an open stream: one of which the      *)
(* stream said something else last, or the error, after which the task is  *)
(* no more.                                                                *)
LEMMA HandWInv ==
  ASSUME WInv, NEW s \in Streams, NEW e \in Event, NEW t \in Task,
         stream[s].open, Hand(s, e),
         task' = [task EXCEPT ![s] = t], UNCHANGED <<world, faults>>,
         SeenBy(t), Differs(t), task[s].at # "off",
         e.id # None => e.shown # Base(task[s], e.id),
         \/ t.at = "off"
         \/ \A n \in Names : Base(t, n) = IF e.id = n THEN e.shown ELSE Base(task[s], n)
  PROVE  WInv'
<1> DEFINE q == stream[s].queue
<1>1. /\ stream \in [Streams -> Stream] /\ q \in Seq(Event) /\ Len(q) \in Nat
      /\ Buffer \in Nat /\ Len(q) < Buffer
  BY DEF WInv, StreamsTyped, Stream, Hand
<1>2. Append(q, e) \in Seq(Event) /\ Len(Append(q, e)) <= Buffer
  BY <1>1
<1>3. /\ stream' \in [Streams -> Stream]
      /\ stream'[s].queue = Append(q, e) /\ stream'[s].told = stream[s].told
      /\ \A r \in Streams : r # s => stream'[r] = stream[r]
  BY <1>1, <1>2 DEF Hand, Stream
<1>4. /\ task' \in [Streams -> Task] /\ task'[s] = t
      /\ \A r \in Streams : r # s => task'[r] = task[r]
  BY DEF WInv, StreamsTyped
<1>5. ASSUME NEW n \in Names
      PROVE  /\ OnlyNews(Append(q, e), stream[s].told, n)
             /\ t.at # "off" =>
                  Latest(Append(q, e), stream[s].told, n, Base(t, n))
  <2>1. OnlyNews(q, stream[s].told, n)
    BY DEF WInv, SendsChanges
  <2>2. Latest(q, stream[s].told, n, Base(task[s], n))
    BY DEF WInv, UpToDate
  <2>3. e.id = n => e.shown # Base(task[s], n)
    OBVIOUS
  <2> HIDE DEF q
  <2>4. /\ OnlyNews(Append(q, e), stream[s].told, n)
        /\ Latest(Append(q, e), stream[s].told, n,
                  IF e.id = n THEN e.shown ELSE Base(task[s], n))
    BY <1>1, <2>1, <2>2, <2>3, Appended
  <2> QED BY <2>4
<1> HIDE DEF q
<1>6. StreamsTyped'
  BY <1>2, <1>3, <1>4 DEF WInv, StreamsTyped, world
<1>7. Seen'
  <2>1. state' = state
    BY DEF world
  <2> QED BY <1>4, <2>1 DEF WInv, Seen, SeenBy
<1>8. (\A r \in Streams : Differs(task[r]))'
  BY <1>4 DEF WInv, Differs
<1>9. UpToDate'
  <2>1. SUFFICES ASSUME NEW r \in Streams, NEW n \in Names,
                        stream'[r].open, task'[r].at # "off"
                 PROVE  Latest(stream'[r].queue, stream'[r].told, n, Base(task'[r], n))
    BY DEF UpToDate
  <2>2. CASE r = s
    <3>1. Latest(Append(q, e), stream[s].told, n, Base(t, n))
      BY <1>4, <1>5, <2>1, <2>2
    <3> QED BY <1>3, <1>4, <2>2, <3>1
  <2>3. CASE r # s
    BY <1>3, <1>4, <2>1, <2>3 DEF WInv, UpToDate
  <2> QED BY <2>2, <2>3
<1>10. SendsChanges'
  BY <1>3, <1>5 DEF WInv, SendsChanges
<1> QED BY <1>6, <1>7, <1>8, <1>9, <1>10 DEF WInv

LEMMA SendErrorWInv ==
  ASSUME WInv, NEW s \in Streams, SendError(s)
  PROVE  WInv'
<1>1. CASE UNCHANGED stream
  BY <1>1, EndWInv DEF SendError
<1>2. CASE stream[s].open /\ Hand(s, Error)
  <2>1. SeenBy(Off) /\ Differs(Off) /\ Off.at = "off"
    BY DEF SeenBy, Differs, Off
  <2>2. Error \in Event /\ Error.id = None
    BY DEF Error, Event, Views
  <2> QED BY <1>2, <2>1, <2>2, Streamlets, HandWInv DEF SendError, End
<1> QED BY <1>1, <1>2 DEF SendError

LEMMA SendWInv ==
  ASSUME WInv, NEW s \in Streams, NEW n \in Names, Send(s, n)
  PROVE  WInv'
<1>1. CASE ~stream[s].open
  BY <1>1, EndWInv DEF Send
<1>2. CASE stream[s].open
  <2> DEFINE e == [id |-> n, shown |-> task[s].current[n]]
             t == [task[s] EXCEPT !.todo = task[s].todo \ {n}]
  <2>1. task \in [Streams -> Task] /\ task[s] \in Task
    BY DEF WInv, StreamsTyped
  <2>2. /\ task[s].at = "send" /\ n \in task[s].todo
        /\ Hand(s, e) /\ UNCHANGED <<world, faults>>
        /\ task' = [task EXCEPT ![s] = t]
    BY <1>2, <2>1 DEF Send, Vanished
  <2>3. e \in Event
    BY <2>1 DEF Event, Task
  <2>4. /\ t \in Task /\ t.at = "send" /\ t.prior = task[s].prior
        /\ t.current = task[s].current /\ t.todo = task[s].todo \ {n}
        /\ t.stayed = task[s].stayed
    BY <2>1, <2>2 DEF Task
  <2>5. SeenBy(task[s]) /\ Differs(task[s])
    BY DEF WInv, Seen
  <2>6. e.id = n /\ e.shown = task[s].current[n]
    OBVIOUS
  <2> HIDE DEF t, e
  <2>7. SeenBy(t) /\ Differs(t)
    BY <2>2, <2>4, <2>5 DEF SeenBy, Differs
  <2>8. e.shown # Base(task[s], n)
    BY <2>2, <2>5, <2>6 DEF Base, Differs
  <2>9. \A m \in Names : Base(t, m) = IF e.id = m THEN e.shown ELSE Base(task[s], m)
    BY <2>2, <2>4, <2>6 DEF Base
  <2> QED BY <1>2, <2>2, <2>3, <2>4, <2>6, <2>7, <2>8, <2>9, HandWInv
<1> QED BY <1>1, <1>2

LEMMA RunWInv ==
  ASSUME WInv, NEW s \in Streams, Run(s) \/ DialFails(s) \/ PageFails(s)
  PROVE  WInv'
<1>0. faults \in 0..MaxFaults
  BY DEF WInv, StreamsTyped
<1>1. CASE Top(s)
  <2>1. CASE End(s)
    BY <1>1, <2>1, EndWInv DEF Top
  <2>2. CASE task' = [task EXCEPT ![s] = Listing(@)]
    BY <1>1, <2>2, ListingWInv DEF Top
  <2>3. CASE Goto(s, "dial")
    BY <1>0, <1>1, <2>3, GotoWInv DEF Top
  <2> QED BY <1>1, <2>1, <2>2, <2>3 DEF Top
<1>2. CASE Dial(s)
  BY <1>2, ListingWInv DEF Dial
<1>3. CASE SendError(s)
  BY <1>3, SendErrorWInv
<1>4. CASE Read(s)
  BY <1>4, ReadWInv
<1>5. CASE Sent(s)
  BY <1>5, SentWInv
<1>6. CASE Sleep(s)
  <2>1. CASE End(s)
    BY <1>6, <2>1, EndWInv DEF Sleep
  <2>2. CASE Goto(s, "top")
    BY <1>0, <1>6, <2>2, GotoWInv DEF Sleep
  <2> QED BY <1>6, <2>1, <2>2 DEF Sleep
<1>7. CASE \E n \in Names : Page(s, n) \/ Send(s, n)
  BY <1>7, PageWInv, SendWInv
<1>8. CASE DialFails(s)
  <2>1. faults' \in 0..MaxFaults
    BY <1>0, <1>8 DEF DialFails, Fault
  <2> QED BY <1>8, <2>1, GotoWInv DEF DialFails
<1>9. CASE PageFails(s)
  BY <1>9, PageFailsWInv
<1> QED BY <1>1, <1>2, <1>3, <1>4, <1>5, <1>6, <1>7, <1>8, <1>9 DEF Run

LEMMA NextWInv == WInv /\ [Next]_vars => WInv'
<1> SUFFICES ASSUME WInv, [Next]_vars PROVE WInv'
  OBVIOUS
<1>1. CASE UNCHANGED vars
  BY <1>1 DEF WInv, StreamsTyped, Seen, SeenBy, UpToDate, SendsChanges, vars, world
<1>2. CASE \E n \in Names : Move(n) \/ Mark(n)
  BY <1>2, WorldWInv
<1>3. CASE \E s \in Streams : Drop(s)
  BY <1>3, DropWInv DEF Drop
<1>4. CASE \E s \in Streams : Open(s) \/ Receive(s)
  BY <1>4, OpenWInv, ReceiveWInv
<1>5. CASE \E s \in Streams : Run(s) \/ DialFails(s) \/ PageFails(s)
  BY <1>5, RunWInv
<1> QED BY <1>1, <1>2, <1>3, <1>4, <1>5 DEF Next

LEMMA InductiveWInv == Spec => []WInv
BY InitWInv, NextWInv, PTL DEF Spec

-----------------------------------------------------------------------------
(* The theorems                                                            *)

(* Every variable has its type.                                            *)
THEOREM TypeCorrect == Spec => []TypeOK
<1>1. WInv => TypeOK
  BY DEF WInv, StreamsTyped, TypeOK, Stream
<1> QED BY <1>1, InductiveWInv, PTL

(* However many sandboxes and pages a list has, whatever changes while it  *)
(* is read and wherever it breaks off, a sandbox that existed throughout   *)
(* is never reported deleted (watch_sandboxes, list_actors).               *)
THEOREM NeverLosesTheLiving == Spec => []DeletesOnlyGone
<1>1. WInv => DeletesOnlyGone
  BY DEF WInv, Seen, SeenBy, DeletesOnlyGone, Vanished
<1> QED BY <1>1, InductiveWInv, PTL

(* A stream never says twice in a row the same of a sandbox, through       *)
(* failed polls and full channels (watch_sandboxes' prior).                *)
THEOREM NothingTwice == Spec => []SendsChanges
<1>1. WInv => SendsChanges
  BY DEF WInv
<1> QED BY <1>1, InductiveWInv, PTL
=============================================================================
