# Verification of openshell-driver-substrate

TLA+ models of the OpenShell compute driver for Agent Substrate, the TLC runs
that check them and the TLAPS proofs about them. Line numbers refer to the
repository's `src/` directory (`lib.rs` is `src/src/lib.rs`, `launcher.py` is
`src/runtime/launcher.py`). `PROJECT.json` lists the same material for tools:
components, runs, the source lines of every definition, hazards, theorems.

## 1. The system

The OpenShell gateway calls the driver over a Unix socket to create, start,
stop, suspend and delete sandboxes and to watch them. Each sandbox is an *actor*
of Agent Substrate; the driver moves it with the RPCs of `ateapi.Control`.
Inside an actor two launchers wait: the supervisor role asks the driver's
launch endpoint for a *bundle*, the credentials of one *generation* of the
sandbox, and the sandbox role takes up what the supervisor role publishes.

| Component | State it keeps | Operations | Talks to |
|---|---|---|---|
| Lifecycle handlers (`lib.rs` 483-565, 1051-1244) | one lock per actor | `create`, `start`, `stop`, `suspend`, `delete`, `suspend_again` | Control RPCs; bundle store; marks |
| Stopped marks (`lib.rs` 288-309, `launch.rs` 104-116) | `<name>.stopped` files, cache in memory | `mark_stopped`, read at start | written by handlers and reap, read by watch and `suspend_again` |
| Start and reap (`main.rs`, `lib.rs` 567-600) | none | open the store, drop orphans, serve | store, marks, ListActors |
| Bundle store (`launch.rs` 59-162) | `<name>.json` files, map in memory, a version counter | `open`, `put`, `get`, `names`, `remove` | handlers, launch endpoint |
| Launch endpoint (`launch.rs` 277-337) | requests that wait | `launch`, a long poll | store, verifier, supervisor launchers |
| Token verifier (`launch.rs` 165-275) | the JWKS and its age, under a lock | `verify`, `key` | the IdP |
| Template preparation (`template.rs` 334-413) | none of its own | `ensure_ready` | Control RPCs, the template reconciler |
| Template synthesis (`template.rs` 42-304) | none | `Fragment::new`, `resources_for`, `synthesize`, `name_for` | pure; called by `create` |
| Watch stream (`lib.rs` 860-923, 1246-1346) | per stream: client, `prior`, a channel of bounded size | the polling task | ListActors, marks, gateway, `suspend_again` |
| Reads, workspaces, capabilities (`lib.rs` 1003-1049, 1348-1383) | none | `get`, `list`, `ensure_workspace`, ... | Control RPCs |
| Validation (`lib.rs` 792-857, 1055-1066) | none | `validate_substrate_sandbox`, `require_actor_name` | every handler |
| Control client (`lib.rs` 340-476) | one channel, dialed once, under a lock | `control_client` | ate-api-server; every call that needs it |
| Launchers (`launcher.py`) | child processes, `CURRENT`, bundle directories | supervisor role, sandbox role | launch endpoint; each other through the shared directory |
| Bundle contents (`bundle.rs`) | none | `build`, `child_env` | pure; called by `create` and `start` |
| Configuration and fragment (`configfile.rs`, `fragment.rs`) | none | `load` | read once, at the start |

What is hard, by component, and what makes it correct:

* **Lifecycle.** Handlers are futures on several threads, cut at any await when
  the gateway cancels; `create` and `delete` take no lock; `suspend_again` runs
  off a list that may be old; dropped requests are still served by Substrate.
  Correct: what the gateway was surely told (stopped, started, deleted) stays
  true on disk and in memory, a resume finds its bundle and policy, only what
  is marked is suspended, what is marked does not stay up, every call ends.
* **Marks and store.** Two copies, on disk and in memory, changed one after the
  other, and a process that can end between. Correct: a restart can always read
  what it finds and keeps what was promised.
* **Launch endpoint.** A put between look and wait; an old incarnation of the
  actor under the same name. Correct: no lost wakeup, no bundle for another.
* **Verifier.** A key set is used while it ages, and fetched under a lock.
  Correct: bounds on how old a key may be that verifies and how new one may be
  that does not. How often the set is fetched is bounded only while fetches
  succeed: the comment at `launch.rs` 173 says an unknown key id refetches it at
  most every `JWKS_REFRESH_INTERVAL`, but a fetch that fails leaves its age as it was
  (256-266), and the next such request fetches again. No property states this bound.
* **Template.** Several creates share one template by name, and a failed one is
  deleted. Correct: a failure whose template was deleted is not found again, one
  whose delete failed is removed by the next call, and every wait ends.
* **Watch.** Pages, marks and names are read at different moments; polls fail;
  the reader is slow or gone. Correct: no false deletion, no repetition, the
  gateway converges, the task of a dropped stream ends.
* **Control client.** Every call finds its channel under one lock, taken twice,
  and whoever finds none dials while the others wait. Correct: one channel, and
  nobody waits for longer than a dial, though calls are dropped in it.
* **Template synthesis, bundles.** A template goes by a hash of what it says and
  outlives the request and the configuration it was made for; limits are decimal
  text turned into integers. Correct: no limit is rounded, actors share a
  template just when they ask for the same, a retry finds its own actor. What a
  bundle contains is a pure function of one request and the configuration; it is
  translated, and no property restates it.
* **Launchers.** Two processes with no lock share a directory in which one
  removes what the other copies. Correct: what is published is served and can
  be taken up, no mixture of files, both end at the newest generation.

`PROJECT.json` lists the hazards with their lines and the properties for each;
section 5 says which have none.

## 2. The modules

```
Substrate ──┬── Driver ── DriverInv ──┬── MCDriver ── MCDriverSafety
            │     │                   └── DriverProofs ── DriverSteps
            │     └ (INSTANCE) StopRecord
            └── (INSTANCE) WatchStream ──┬── MCWatchStream
                                         └── WatchProofs
BundleStore ──┬── MCBundleStore
      │       └── LaunchEndpoint ──┬── MCLaunchEndpoint
      │                            └── LaunchProofs
      └ (INSTANCE) StoreSteps
ActorTemplates ── LaunchBundle ──┬── Requests ──┬── MCRequests
ControlClient ───────────────────┘              └── RequestsProofs
JwksCache ──┬── MCJwksCache
            └── JwksProofs
TemplateReady ──┬── MCTemplateReady
                └── TemplateProofs
Launcher ──┬── MCLauncher
           └── LauncherProofs
```

The MC modules hold only the definitions of an instance: symmetry sets,
constant functions, in `MCRequests` the requests and configurations, and in
`MCDriverSafety` sets of bounds, one of which a behaviour keeps to.

**Substrate** is the control plane as the driver meets it: the states of an
actor, the states each RPC starts from, holds and ends in, and what a request
does to the record. It is external; its source is `ateapi.proto`, the diagram in
`docs/architecture.md` and the driver's own use of the RPCs.

**Driver** is the lifecycle core. A handler is a slot with a place (`pc`) and
its locals (`task`); one action per stretch between two points at which another
task can run, that is, an await or a write to shared state. A lifecycle RPC is
two actions, `Serve` (the request takes effect and the actor moves) and `Reply`
(the actor has settled). `mark_stopped` is two, the file (`MarkDisk`,
`UnmarkDisk`) and the cache (`MarkMemory`, `UnmarkMemory`); a put is two, file
and map; a remove the other two. `RpcError`, `IoError`, `Cancel` and `Crash`
fail a handler at any place, and a request cut off goes to `wire`, from which
`Deliver` serves it later or never. `Poll` and `SpawnAgain` are the half of the
watch loop that suspends; `Open`, `ReapList`, `ReapBundle`, `ReapFile`,
`ReapMark`, `ReapDone` are the start: the reap forgets a bundle, unlinks its file and
drops the mark in three steps, between any two of which the process can end or an
error end it (`ReapFails`). The files of a put and its map are one step each
here; `BundleStore` opens them up. Suspend is stop under another name, so
`stop` stands for both.

Two history variables say what the gateway may rely on. `sole` holds the tasks
that no create or delete of the same sandbox has overlapped; `answer` is what the
gateway was last told by a call it had alone. The properties speak of those
calls because the code makes no promise for others: `delete` and `create` take
no lock.

**StopRecord** is what all this is for, without the driver: one record per
sandbox that says whether it is stopped. It is held, free, or torn while it is
rewritten, and once the gateway has been told of a stop, start or delete it
keeps what it was told until the gateway asks for something else. `Driver`
implements it (`Record`, `Stops`, `OneRecord`): the record is the marker together
with its cache, or, while there is no driver, with what a start will read into
it. A record can stay torn for as long as nothing is promised of it, when a stop
overlaps a create or delete (`lib.rs` 1242), so the abstract specification has no
liveness.

**BundleStore** has the file operations of `put` and `remove`: open with
truncation, write, rename, map, notification; a file is identified by
what it contains, and a put holds its temporary file open by descriptor, so another put
can truncate, overwrite or rename it. `raced` remembers which sandboxes had
two puts at once: those share a temporary file, and the file they leave need
not parse.

**StoreSteps** is the store as its callers have it, and as `Driver` takes its calls
through it: a put replaces the file in one step and the bundle in memory in
the next, a remove forgets the bundle and then unlinks the file, any step can be the
last before a failure or a crash, and opening reads back what the files hold.
`BundleStore` implements it (`Known`, `Calls`, `TwoSteps`): open, write and rename are
one step, and the temporary file is not seen. Once two puts of a sandbox have
overlapped StoreSteps says nothing of it any more (`Unknown`); `Driver` gives such a
sandbox the bundle of the last put, and promises the gateway nothing of calls
that overlap either.

**LaunchEndpoint** composes the store with the handler of the endpoint and the
fetch loop of the launchers. `missed` is the watch channel's unseen version;
the look into the map and the decision on it are two actions. A request is refused for
its token (401), or because the token is another actor's than the one it names (403),
as one is that was begun in a golden snapshot.

**JwksCache** is the verifier's key cache with discrete time. Time passes only
while a fetch is under way or nothing is due, so that a step costs nothing and a
fetch at most the client's timeout. A request that is refused because its fetch
failed, and one whose connection goes while it fetches, are one action. A key that is
found may be `Unusable`, of a kind no verifier can be made from: its tokens are refused
(`launch.rs` 271), and not called unknown.

**ActorTemplates** and **LaunchBundle** are pure functions: what a request and the
configuration become as a template, its name and its limits, which requests and
configurations are refused, and what a request becomes as a bundle. Quantities
are modelled by their digits, since how they are turned into integers is the
point; a name stands for the encoding it is the hash of, and the eight bytes of
SHA-256 it keeps are taken not to collide. The boundary's and the descriptor's
fields are written out one by one, as the code does; keys and certificates are known
by the session they are made for.

**ControlClient** is `control_client`: the first look, the second look under the lock
that is kept for the dial, and what refuses a call on the way: settings that cannot be
used (`failed_precondition`), a TLS configuration the transport does not take and a dial
that fails (`unavailable`). **Requests** composes
the three: `create`, `start`, `get`, `list` and `ensure_workspace` on their way
through the client to templates, actors, policies and bundles, several at a
time, with failing RPCs that may have been served, cancelled calls and restarts
under other configurations. It leaves out what `Driver` has, the locks, marks
and resumes, and takes the wait for a golden snapshot, which is
`TemplateReady`, as one step. `store_bundle` is two steps: the bundle is built
(`BuildBundle`), and the store takes it (`PutBundle`) or fails (`PutFails`, an
internal error). `made` is the history of whose
request, under which configuration, is behind each actor.

**TemplateReady** is `ensure_ready`, several calls on one template, with the
reconciler that builds golden snapshots. Builds are numbered, so that a call
can be said to have met a failure whose template was deleted before it began.

**WatchStream** is the polling task of a stream with its pages, `prior`, bounded
channel and end; `Shown` is the condition table of `actor_state_conditions`.
The spawn of `suspend_again` is in `Driver`.

**Launcher** is both launcher roles, step by step, with the shared directory and
their children. The look at the child and the long poll are two steps (`Ask`, then
`Fetch` or `NoNews`), and the child can exit in the poll, before the bundle that comes of
it is applied. A suspend and a resume freeze and thaw both, which changes no
variable; a revert takes them back to a state they were in, with newer bundles
stored since, which is a reachable state. Generations are numbered in the order
in which they are stored.

## 3. The runs

| Run | Instance | Checks |
|---|---|---|
| `driver_safety` | 1 sandbox, 1 `suspend_again`, and either 2 calls that overlap and 1 failure (none beside two creates), or calls one at a time and 3 failures, or 2 failures, 2 incarnations and 2 templates | in every interleaving, across crashes, restarts and late requests: `IInv`, `SuspendsMarked`, `OneRecord`, `FailedStartStops`, `StopHolds`, `StartHolds`, `DeleteHolds`, `ResumesEquipped`, `ResumesOwnTemplate`, `ReapsOrphansOnly` |
| `driver_liveness` | 1 sandbox, 1 call, 1 `suspend_again`, 2 failures | `StoppedGoesDown`, `CallsEnd` |
| `store` | 1 sandbox, 2 puts and 1 remove that overlap, 2 failures | `Kept` for the call that overlaps no other, `AlwaysReadable` and `TwoSteps` unless puts overlapped |
| `endpoint` | 1 sandbox, an old and a new incarnation, 3 bundles, 1 failure | `NoLostWakeup`, `OwnIncarnation`; `Delivered`, with no deadline assumed |
| `jwks` | 2 keys, one of them unusable, 2 requests, fetches fail | `VerifiesRecent`, `UnknownIsNew`; `Judged` |
| `requests` | 2 sandboxes, 2 calls, 6 configurations, 8 creates, 2 failures | `OneChannel`, `LimitsExact`, `SharesByInputs`, `RetryFindsItsOwn`; `CallsAnswered` |
| `template` | 2 calls, 3 builds, 2 failures | `FailsAnew`, `Rebuilds`, `EnsuresEnd` |
| `watch` | 2 sandboxes on 2 pages, a buffer of 2, 1 failure | `DeletesOnlyGone`, `SendsChanges`, `Converges`, `TasksEnd` |
| `launcher` | 4 generations, exits and signals | `CurrentIsServed`, `CurrentIsLaid`, `FilesAreWhole`, `OnlyNewer`, `RunsLatest` |

`requests` and `watch` also check their module's type invariant; all
type invariants are proved, as theorems of their own or as parts of the
inductive invariants, and `driver_safety` checks `IInv`, which holds the driver's
and the three promises besides. What the runs show:

* `driver_*`: under the lock, and beside `create` and `delete`, which take none,
  a call the gateway had alone leaves what it promises, on disk and in memory,
  and no later failure, crash, restart, late request or `suspend_again` undoes
  it. To the gateway a stop is one record, whatever is done to its two halves
  and however often a start reads them back. A resume wakes only an actor that
  has its bundle and policy. A start whose resume fails leaves its sandbox stopped.
  A stopped sandbox somebody resumed goes down again.
* `store`: the order of the writes in `put` and `remove` survives a crash at any
  step, and nobody who uses the store sees more of them than two steps.
* `endpoint`: subscribing before the first look is enough.
* `jwks`: a removed key verifies for less than the age limit and one fetch, a new
  one is unknown for less than the refresh interval and one fetch. The second
  half of each bound is there because a set is dated when it arrives; the code and
  `docs/shortcomings.md` promise the first half alone of a removed key, which
  `jwks_age` finds violated. A token that is refused because a fetch failed is not
  called unknown, and nothing bounds how long fetches may fail. And every token is
  judged, although one request's fetch holds the lock all others need
  and the set may have aged again when the next one has it.
* `requests`: calls that find no channel at once open one; limits written in two
  ways come to the same integer and one that cannot be said exactly is
  refused; two sandboxes share a template just when they ask for the same, under
  one configuration or two; a repeated call, after an answer that was lost or
  beside the one it repeats, is not told that what it made is somebody else's.
* `template`: a failure whose template was deleted is gone for whoever begins
  after. A delete that fails is logged and no more (`template.rs` 392-399), so the
  failure it leaves is reported once more, by the next call, which takes the
  template away when RPCs succeed. The timeout ends every wait.
* `watch`: reading marks and pages at different moments can show a passing
  state, but not for good, and not a deletion.
* `launcher`: with no lock between the roles, unlinking `CURRENT` first and
  publishing last keep what is published consistent, and neither role goes back
  to an older generation however it is overtaken.

Three more runs check one statement of the repository each and find it violated;
`findings` in `PROJECT.json` quotes the statement.

| Run | What happens |
|---|---|
| `driver_reap_marks` | a crash between a delete's two removals leaves a marker no reap drops, since the reap walks the bundles (`ReapDropsMarks`) |
| `jwks_age` | the IdP removes a key while a fetch that still has it is on its way; the set is dated when it arrives (`launch.rs` 266), so the key verifies for longer than `JWKS_MAX_AGE` (`StopsInTime`) |
| `launcher_starts` | the sandbox role read `CURRENT` before it was unlinked: old files, new supervisor (`StartsOnItsOwn`) |

### Bounds

Bounds are CONSTANTS (`Max...`) in the guards. Two calls and one
`suspend_again` are enough for every pair of handlers to interleave under and
beside the lock; a third call adds no new pair, and the proofs of section 4 hold
for any number. Three failures let a call be cut, the process crash and an
operator intervene in one behaviour. All at once are too many states, so
`driver_safety` chooses between four sets of bounds at the start, and checks every
property under each: overlapping calls without a failure; the same with one, of which
no two are creates (the longest route, and nothing is promised of creates that
overlap); calls one at a time with three; and with two, on two incarnations and
templates. One sandbox is enough where sandboxes
share nothing but the sets they are members of; the proofs cover any number.
Two incarnations are what an old launcher
or a late request can confuse; two templates what a create can mistake. Two
puts and a remove are every pair of the store's operations. A refresh interval
of 1, an age limit of 3 and a timeout of 1 unit keep the order of the real
constants (the timeout is of the interval's length, the limit longer), and a
clock of 4 leaves room for a refetch before the limit and for one after it; the
proofs cover all durations and clocks. `jwks_age` has a timeout of 2 and a clock of
6, because in whole units a fetch of one unit cannot tell its bound from the other. Two calls are what it takes for two
dials, two templates, a retry or a start beside a create, and two failures for
a lost answer and a restart under another configuration before the retry. Of the
eight creates three are granted: two that say the same to the template in other
words and one that says something else; five are refused, each for one
reason. Of the six configurations the driver refuses to start with two; one has
TLS settings no dial is possible with, one another placement, one other
egress rules and gateway. `MaxInt` stands for the largest `i64` and is 5000, so that
the quantities reach it, pass it by one and overflow it by a factor. Two names on two pages are the least on
which a walk can break off; their actors start absent, running or being
deleted, and every other state is a change away. The endpoint's run has no
`remove`: it wakes nobody, and a removed bundle is for a request what none is.
Four generations let a launcher be overtaken twice.

`CHECK_DEADLOCK FALSE` is used where the system may rest for good: in
`requests`, where the gateway has made its calls and has its answers, in
`store`, where a file that does not parse keeps the driver from
starting, and in the launcher runs, where both roles exit or polls change nothing.

### Fairness

* `Driver`: each task that can go on does (the tokio runtime polls woken
  tasks); the lock and a reply are granted strongly, because tokio's mutex
  queues waiters in order and Substrate answers an RPC when its work is over
  even if the next one is under way by then; Substrate settles what it began; the
  watch loop polls; a process that went down is started again. Nothing is
  assumed of the gateway, operators or failures. That Substrate answers is an
  assumption about a service: the driver sets no deadlines (`docs/shortcomings.md`,
  State 5).
* `LaunchEndpoint`: launchers keep asking (`launcher.py` 177), calls of the store
  that have begun end, the driver is started again. Deadlines need not pass.
* `JwksCache`: the lock is granted in order of arrival (tokio's mutex), which a
  request sees as strong fairness, and a fetch ends, at the latest at the HTTP
  client's timeout of 10 s (`launch.rs` 202). Nothing is assumed of the IdP.
* `Requests`: what a call can do next, it does: the runtime polls it, a dial and
  an RPC end, well or not, and the channel's lock, the one thing that makes a call
  wait for another, is granted in order (strong fairness). A server that takes
  a connection and never answers is outside of it, as above.
* `TemplateReady`: a call's RPCs are answered and its sleeps end; the reconciler
  need settle nothing.
* `WatchStream`: the task runs and the gateway reads from a stream it keeps open.
* `Launcher`: both roles run; a supervisor that is left alone comes to listen; and of
  the polls that could bring a newer generation not all fail, which is `Delivered` of
  `LaunchEndpoint`.

## 4. The proofs

**DriverProofs** proves for any sets of sandboxes, calls, `suspend_again` slots
and templates, and any bounds, that `Spec` implies

* `Inductive`: `[]IInv`;
* `TypeCorrect`: `[]TypeOK`;
* `StopsHold`, `StartsHold`, `DeletesHold`: `[]StopHolds`, `[]StartHolds`, `[]DeleteHolds`;
* `SuspendsOnlyMarked`: `SuspendsMarked`.

It assumes what `Driver` and `Substrate` assume of their constants: disjoint
slots, a `None` that is nothing else, at least one template, natural bounds.
`StopHolds` and the others are not inductive: they say what holds after an
answer, and nothing of how a call gets there. `IInv` (module `DriverInv`)
adds, part by part:

* `TaskShape`, `WireShape`: a task is on the route of its operation;
* `Exclusion`: whoever is past the lock's place has the lock, so a stop, a start
  and a `suspend_again` of one sandbox never run at once;
* `Quiet`, `Reaping`: no task without a serving driver; the reaper's victims are
  not alive;
* `Undisturbed`: what a member of `sole` can count on: no create or delete
  beside it, and a gateway that waits for it;
* `Achieved`: what such a call has done by each place of its route, such as
  "the marker is on disk" between the halves of a stop;
* `Settledness`: for each thing the gateway is sure of, the state of disk and
  memory that makes it so, and that no call is left to change it.

Each action has lemmas for the parts it can disturb. `driver_safety` checks
`IInv` with TLC, the proofs show that every step preserves it.

**TemplateProofs** proves `[]TypeOK` and `[]FailsAnew` (`ClearedStaysCleared`) for any
number of calls, polls, builds and failures. A failure is *cleared* when its template
was deleted after it was reported. The invariant says that a cleared failure is of a
template that is gone, and of no later build than the present one (`Behind`), and that
what was cleared before a call began still is (`Remembers`).

**LauncherProofs** proves `[]TypeOK`, `[]CurrentIsServed`, `[]CurrentIsLaid`,
`[]FilesAreWhole` and `OnlyNewer` for any number of generations, with failures or without. The
invariant ties the supervisor role's place to what is published and who serves
it (`Publishes`), orders the generations (`Follows`: running before next, the
sandbox role never ahead of what was published, so that no clean-up reaches a
generation still to be taken up), and says how much of a copy is done (`Copies`).
For `OnlyNewer` it takes what `Ahead` adds: what is published is never older than what
the sandbox role takes up, nor that than what it runs, in a role that has exited too.

**DriverSteps** proves what the steps of `Driver` may do. `OneRecord`, that `Driver`
implements `StopRecord`, follows from `[]IInv`: no step changes both halves of a
sandbox's record (`OneHalf`), what the gateway is sure of is what the record says
(`Means`, a consequence of `Settledness`), and a step after which it is no longer
sure leaves the record alone (`Asks`). Each step of `Driver` is then one of the
abstract specification's, for all sandboxes at once.

`ResumesEquipped`, `ResumesOwnTemplate` and `ReapsOrphansOnly` need more than `IInv`.
`EInv` adds what a task knows of its sandbox's actor and bundle by each of its
places (`Knowledge`: past `CheckTemplate` the actor with the uid it saw is of its own
template, past the policy step the one with the uid it looked up has a policy, past
the two halves of a put file and map have that uid), and that no bundle is of an actor
yet to come and no victim of the reaper of one that is (`Bundled`). Operators, late
requests and other calls may do what they like to the actor meanwhile: an actor keeps
template and policy, and the next one under its name has the next uid (`Evolves`).
That another call writes no bundle in between is `Secluded`, from `IInv`. The only step
that wakes an actor is the serving of a resume (`Wakes`).

`LocksComeBack` is about the actors' locks. `IInv` says that whoever is past the lock's
place has the lock; `Held` says the converse, that a lock is held only by a call or task
that is past that place and of that actor, so that every `?`, early return,
cancellation and crash between has dropped it. It is what `CallsEnd` rests on.

`FailedStartStops` is the step that ends a start whose resume failed: by then the marker
is on disk (`AchievedBy`, in `IInv`), and under the lock and with no delete beside it
nobody takes it away again.

**LaunchProofs** is about the store and the endpoint over it. It first proves `[]Kept` and `[]AlwaysReadable` of `BundleStore`, for any
sandboxes, bundles, puts and removes that overlap as they like. Its invariant
`SInv` says that nothing is at work while the store is not open (`Places`), that
a call that is alone has none beside it and that nothing is promised while one
runs (`Solitude`), that a put nobody can disturb, being alone or on a sandbox
whose puts never overlapped, has its temporary file to itself (`Private`), and
what a lone call has done by each place (`Achieves`).

From `SInv` follows that `BundleStore` implements `StoreSteps` (`StoreImplements`), one
lemma for each system call: the open and the write show nothing, because a sandbox of
which something is known has a put of its own (`Private`); the rename is the put of the
file, since it moves that put's whole bundle, or a failed one when a racing put has taken
the temporary file; map, unlink, crash and open are the steps of the same name.

It then proves `[]TypeOK`, `[]OwnIncarnation` and `[]NoLostWakeup` of
`LaunchEndpoint`, over `SInv`. `NoLostWakeup` speaks of requests that wait; to be
inductive it must hold of one that has looked and has yet to decide, too:
if the store is no longer as it was read and has news for the launcher, the
request has a change to see or a put is about to notify (`Told`). It assumes of the
constants that refusals are no bundles.

**JwksProofs** proves `[]VerifiesRecent` and `[]UnknownIsNew` of `JwksCache`, for
any keys, requests, intervals, age limits, timeouts and clocks. `KInv` says who
holds the lock (`Locks`), that no fetch is older than the timeout (`Clock`), that a
response is what was published at some moment of its fetch (`Responds`), so that
the set in the cache is of some moment less than a timeout before its date
(`Dates`). `LockIsBrief` is a consequence: the lock is held by a request that fetches,
and for no longer than the timeout. Time does not pass while a verdict is due, so that what holds of it
when it is reached holds until it is given. `StopsInTime`, the bound the code states, is not true.

**RequestsProofs** proves `[]TypeOK`, `[]OneChannel`, `[]SharesByInputs`,
`[]RetryFindsItsOwn` and `[]LimitsExact` of `Requests`, for any requests, configurations and
number of calls. `RInv` says that only the lock's holder dials and only without a channel
(`Dialing`), from what each actor was made (`ActorsMade`), that a bundle has its actor
(`BundlesMade`), and what a call can count on at each of its places (`CallsFit`). That
equal templates come of equal images is a fact about `Containers`: a fragment that
is accepted has a container called `sandbox`, the first of them takes the image,
and there is a first by well-foundedness. It assumes that a fragment's
containers are a sequence and that names and actors are no `Blank` and no `None`.
`LockDials` says that the channel's lock is held only by a call that is dialing, while there
is no channel: what `CallsAnswered` rests on.

`LimitsExact` is about the two quantity parsers, for quantities of any number of digits
and any largest integer. How digits become a number is a recursive function over
them; a quantity that is accepted has at most three places (`CpuAccepted`,
`MemoryAccepted`), and for no more than three the function can be unrolled (`DigitsOf`),
which makes the rest arithmetic: the padding to thousandths (`Padded`), the factors
(`ScaleType`), the comparison with what was asked for, cross-multiplied so that nothing
is divided (`CpuExact`, `MemoryExact`), and that what is refused fits no positive integer
(`LimitsRefused`). It assumes that digits are digits and that the configuration's own
limits are integers that fit (`LimitsAssumption`).

**WatchProofs** proves `[]TypeOK`, `[]DeletesOnlyGone` and `[]SendsChanges` of
`WatchStream`, for any sandboxes, streams, page size, channel length and number
of faults. `WInv` follows a sandbox that stays from the page it is on to the list
and to the view it is compared in (`Seen`), and says what a stream has said last
of a sandbox (`Base`, `UpToDate`): what the last complete poll found, or the one
whose differences are being sent, for those that have been. What is left to
send differs from it (`Differs`), so what is sent is news behind whatever waits in
the channel.

Only model-checked:

* liveness, since it needs fairness and ENABLED: `StoppedGoesDown`, `CallsEnd`,
  `Delivered`, `Judged`, `CallsAnswered`, `Rebuilds`, `EnsuresEnd`, `Converges`, `TasksEnd` and
  `RunsLatest`. Of what could stand in its way the proofs rule out locks that are
  kept (`LocksComeBack`, `LockDials`, `LockIsBrief`) and wakeups that are lost
  (`NoLostWakeup`).

Every safety invariant and action property of a passing run is proved. The findings are TLC counterexamples.

## 5. Not modelled

* Tokens themselves: signature, issuer, audience and expiry are checked by the
  JWT library. Which bearer token a Control call carries: the one it has just
  read.
* Keys, certificates and the encoding of bundles: OpenShell's libraries make
  them. Parsing of TOML, YAML and protojson.
* SHA-256: two templates are taken to have one name only if they say the same.
* `get_capabilities`, `authenticate_sandbox` and `delete_workspace`: constants or
  a refusal, no state.
* A start of a sandbox whose create failed before the egress policy: a start
  never creates it (`lib.rs` 1158), and the gateway is taken not to ask for one
  (`Driver`'s `Admits`).
* Cold boots of an actor from its durable directory: the shipped fragment and the
  default of `synthesize` take memory snapshots, with which a resume thaws the
  launchers where they were.
* Deployment scripts, examples, builds, generated code.

Modelled, but no property says that it does not go wrong:

* A create or delete that overlaps another call of the same sandbox
  (`lib.rs` 1215, 1242): `Driver` takes every such step, and `OneRecord` covers what
  the record reads as, but the code promises nothing of who wins.
* Two puts at once (`launch.rs` 120): `BundleStore` reaches the file that does not
  parse and keeps the driver down; its properties are about the other sandboxes.
* A clean-up that removes a generation the sandbox role still copies
  (`launcher.py` 154; `docs/shortcomings.md`, Operations 2): a step of `Launcher`
  after which the role exits.
* A server that accepts and never answers (`lib.rs` 340; `docs/shortcomings.md`,
  State 5): assumed away by the fairness above.
* How long an IdP that cannot be reached keeps tokens from being judged good.

## 6. Plan

Written first: the lifecycle core with its proofs, the store, the endpoint over
it, the verifier, the template, the watch stream, the launchers. Then what was
planned next: the abstract record of a stop and the proof that the driver
implements it; quantities, templates, bundles and the Control client, and the
requests composed of them; liveness of the verifier; the proofs about store,
endpoint, verifier, requests and stream and about what the driver wakes
and reaps; exact limits, the locks that come back, and the store's two steps as an
abstract specification with the proof that `BundleStore` implements it. Left, most
important first:

1. **Cold boot**: launchers with a durable `CURRENT` and empty memory, for a
   fragment that asks for another snapshot scope.
2. **Reads beside lifecycle**: what `get_sandbox` may answer in the middle of a
   stop or a start, from `Views`, as `WatchStream` has it for the stream.
