------------------------------ MODULE Requests ------------------------------
(***************************************************************************)
(* What becomes of the gateway's requests (src/src/lib.rs) on their way to *)
(* templates, actors and bundles: a request is checked, gets its client    *)
(* (module ControlClient), and is turned into a template (ActorTemplates), *)
(* an actor of it and a bundle for the actor (LaunchBundle), while others  *)
(* do the same and the driver is restarted with other configurations.      *)
(*                                                                         *)
(* The rest of a create or start, its locks, marks and resume, is module   *)
(* Driver; the wait for a golden snapshot is one step here and is module   *)
(* TemplateReady.                                                          *)
(***************************************************************************)
EXTENDS LaunchBundle, ControlClient, FiniteSets

CONSTANTS
  Creates,    (* The sandboxes of create requests.                         *)
  Starts,     (* Those of start requests.                                  *)
  Gets,       (* The [id, name] of get requests.                           *)
  Names,      (* Actor names.                                              *)
  MaxCalls    (* Bound: calls in one behaviour.                            *)

Loaded == {cfg \in Configs : Loads(cfg)}

ASSUME LoadedAssumption == Loaded # {}
ASSUME CallsAssumption == MaxCalls \in Nat

(* An actor's template, the rules of its egress policy, none before it has *)
(* one, and its uid.                                                       *)
Actor == [template: {NameFor(r, cfg) : r \in Creates, cfg \in Loaded},
          rules: {{}} \cup {cfg.rules : cfg \in Loaded}, uid: {1}]

ASSUME RequestsAssumption ==
  /\ \A r \in Creates \cup Starts : ActorName(r) \in Names \cup {Blank}
  /\ Blank \notin Names /\ None \notin Actor
  /\ \A cfg \in Configs :
       /\ Len(cfg.fragment.containers) \in Nat
       /\ DOMAIN cfg.fragment.containers = 1..Len(cfg.fragment.containers)

(* A quantity's digits, and limits that are i64s; the configuration's own  *)
(* are 1000 and 2^30.                                                      *)
ASSUME LimitsAssumption ==
  /\ \A r \in Creates : \A q \in {r.cpu, r.memory} \ {Blank} :
       q.wellFormed \in BOOLEAN /\ q.whole \in Nat /\ q.frac \in Seq(0..9)
  /\ \A cfg \in Configs :
       /\ cfg.cpu \in 1..MaxInt /\ cfg.memory \in 1..MaxInt
       /\ \A limit \in {cfg.fragment.cpu, cfg.fragment.memory} :
            limit \in Int /\ limit <= MaxInt

VARIABLES
  call,       (* What each slot is doing.                                  *)
  begun,      (* Calls so far.                                             *)
  templates,  (* Substrate's templates by their names.                     *)
  actors,     (* Its actors: None, or the template, egress rules and uid.  *)
  bundles,    (* The bundle store: None, or a bundle.                      *)
  atespace,   (* Does the configured atespace exist?                       *)
  made        (* History: the request and configuration behind each actor. *)

world == <<templates, actors, bundles, atespace, made>>
calls == <<call, begun>>
vars  == <<clientVars, calls, world>>

Free == [op |-> "none", request |-> None, at |-> "idle", uid |-> 0,
         answer |-> "none"]

Ops == {"create", "start", "get", "list", "workspace"}

Init ==
  /\ \E cfg \in Loaded : ClientInit(cfg)
  /\ call = [c \in Calls |-> Free]
  /\ begun = 0
  /\ templates = <<>>
  /\ actors = [n \in Names |-> None]
  /\ bundles = [n \in Names |-> None]
  /\ atespace = FALSE
  /\ made = [n \in Names |-> [request |-> None, config |-> None]]

-----------------------------------------------------------------------------
(* Helpers                                                                 *)

In(c, p) == call[c].at = p /\ At(c, "have")

Goes(c, p) == call' = [call EXCEPT ![c].at = p] /\ UNCHANGED begun

Answer(c, code) ==
  /\ call' = [call EXCEPT ![c].at = "answered", ![c].answer = code]
  /\ UNCHANGED begun

Ends(c) ==
  /\ Release(c)
  /\ call' = [call EXCEPT ![c] = Free]
  /\ UNCHANGED begun

On(c) == ActorName(call[c].request)

Template(c) == NameFor(call[c].request, config)

-----------------------------------------------------------------------------
(* A call begins                                                           *)

Request(op) == CASE op = "create" -> Creates
                 [] op = "start"  -> Starts
                 [] op = "get"    -> Gets
                 [] OTHER         -> {None}

(* What a handler refuses before it does anything else.                    *)
Admission(op, r) ==
  CASE op = "create" -> Admit(r, config)
    [] op \in {"start", "get"} /\ ActorName(r) = Blank -> "invalid_argument"
    [] op = "start" /\ r.auth = Blank -> "failed_precondition"
    [] OTHER -> "ok"

(* A call takes a slot that is free; which one makes no difference.        *)
Call(c, op, r) ==
  /\ call[c].at = "idle"
  /\ c = CHOOSE d \in Calls : call[d].at = "idle"
  /\ begun < MaxCalls
  /\ begun' = begun + 1
  /\ IF Admission(op, r) = "ok"
       THEN /\ call' = [call EXCEPT ![c] = [Free EXCEPT !.op = op, !.at = "client",
                                                        !.request = r]]
            /\ Want(c)
       ELSE /\ call' = [call EXCEPT ![c] =
                 [Free EXCEPT !.op = op, !.at = "answered", !.request = r,
                              !.answer = Admission(op, r)]]
            /\ UNCHANGED clientVars
  /\ UNCHANGED world

First == [create |-> "template", start |-> "uid", get |-> "get",
          list |-> "list", workspace |-> "look"]

(* control_client has returned.                                            *)
GotClient(c) ==
  /\ call[c].at = "client"
  /\ client[c].at \in {"have", "failed"}
  /\ IF At(c, "have") THEN Goes(c, First[call[c].op]) ELSE Answer(c, client[c].code)
  /\ UNCHANGED <<clientVars, world>>

-----------------------------------------------------------------------------
(* create_sandbox and start_sandbox                                        *)

WithTemplate(c) ==
  [t \in DOMAIN templates \cup {Template(c)} |->
     IF t \in DOMAIN templates THEN templates[t]
                               ELSE Synthesize(call[c].request, config)]

(* CreateActorTemplate; a template of the name is the template.            *)
MakeTemplate(c) ==
  /\ In(c, "template")
  /\ templates' = WithTemplate(c)
  /\ Goes(c, "golden")
  /\ UNCHANGED <<clientVars, actors, bundles, atespace, made>>

(* The golden snapshot is ready, or the template has been taken away by a  *)
(* call that saw it fail.                                                  *)
Golden(c) ==
  /\ In(c, "golden")
  /\ IF Template(c) \in DOMAIN templates THEN Goes(c, "actor") ELSE Answer(c, "rpc")
  /\ UNCHANGED <<clientVars, world>>

(* It fails, and the template is deleted if that goes well, or never comes.*)
GoldenFails(c) ==
  /\ In(c, "golden")
  /\ Template(c) \in DOMAIN templates
  /\ Fault
  /\ \/ Answer(c, "deadline_exceeded") /\ UNCHANGED templates
     \/ /\ Answer(c, "failed_precondition")
        /\ \E gone \in SUBSET {Template(c)} :
             templates' = [t \in DOMAIN templates \ gone |-> templates[t]]
  /\ UNCHANGED <<config, channel, holder, client, dials, actors, bundles,
                 atespace, made>>

NewActor(c) ==
  LET n == On(c) IN
  /\ actors[n] = None
  /\ actors' = [actors EXCEPT ![n] =
       [template |-> Template(c), rules |-> {}, uid |-> 1]]
  /\ made' = [made EXCEPT ![n].request = call[c].request, ![n].config = config]

(* CreateActor; a retried create finds its actor there, and GetActor says  *)
(* of which template it is, which nothing changes in between.              *)
MakeActor(c) ==
  LET n == On(c) IN
  /\ In(c, "actor")
  /\ IF actors[n] = None
       THEN NewActor(c) /\ Goes(c, "uid")
       ELSE /\ UNCHANGED <<actors, made>>
            /\ IF actors[n].template = Template(c) THEN Goes(c, "uid")
                                                   ELSE Answer(c, "already_exists")
  /\ UNCHANGED <<clientVars, templates, bundles, atespace>>

GetUid(c) ==
  /\ In(c, "uid")
  /\ IF actors[On(c)] = None
       THEN Answer(c, "not_found")
       ELSE /\ call' = [call EXCEPT ![c].uid = actors[On(c)].uid,
                 ![c].at = IF call[c].op = "create" THEN "policy" ELSE "bundle"]
            /\ UNCHANGED begun
  /\ UNCHANGED <<clientVars, world>>

NewPolicy(n) ==
  actors' = [actors EXCEPT ![n].rules = IF @ = {} THEN config.rules ELSE @]

(* CreateActorEgressPolicy: the rules an actor has got stay its rules.     *)
MakePolicy(c) ==
  /\ In(c, "policy")
  /\ NewPolicy(On(c))
  /\ Goes(c, "bundle")
  /\ UNCHANGED <<clientVars, templates, bundles, atespace, made>>

(* store_bundle builds the bundle first, or says why there can be none.    *)
BuildBundle(c) ==
  /\ In(c, "bundle")
  /\ IF Buildable(call[c].request, call[c].uid) THEN Goes(c, "put")
                                                ELSE Answer(c, "failed_precondition")
  /\ UNCHANGED <<clientVars, world>>

(* And puts it into the store, whose own steps are module BundleStore.     *)
PutBundle(c) ==
  /\ In(c, "put")
  /\ bundles' = [bundles EXCEPT ![On(c)] =
       Build(call[c].request, config.gateway, call[c].uid)]
  /\ Answer(c, "ok")
  /\ UNCHANGED <<clientVars, templates, actors, atespace, made>>

-----------------------------------------------------------------------------
(* get_sandbox, list_sandboxes and ensure_workspace                        *)

Get(c) ==
  /\ In(c, "get")
  /\ Answer(c, IF actors[On(c)] = None THEN "not_found" ELSE "ok")
  /\ UNCHANGED <<clientVars, world>>

List(c) ==
  /\ In(c, "list")
  /\ Answer(c, "ok")
  /\ UNCHANGED <<clientVars, world>>

(* A token granted on the atespace alone may not create one.               *)
LookWorkspace(c) ==
  /\ In(c, "look")
  /\ IF atespace THEN Answer(c, "ok") ELSE Goes(c, "make")
  /\ UNCHANGED <<clientVars, world>>

(* Mutant: only the call that creates it is content.                       *)
MakeWorkspaceOnce(c) ==
  /\ In(c, "make")
  /\ atespace' = TRUE
  /\ Answer(c, IF atespace THEN "already_exists" ELSE "ok")
  /\ UNCHANGED <<clientVars, templates, actors, bundles, made>>

(* CreateAtespace; one that exists by now will do.                         *)
MakeWorkspace(c) ==
  /\ In(c, "make")
  /\ atespace' = TRUE
  /\ Answer(c, "ok")
  /\ UNCHANGED <<clientVars, templates, actors, bundles, made>>

-----------------------------------------------------------------------------
(* Failures                                                                *)

RpcPlaces == {"template", "golden", "actor", "uid", "policy", "get", "list",
              "look", "make"}

(* An RPC fails; what it asked for may have been done.                     *)
RpcFails(c) ==
  /\ call[c].at \in RpcPlaces
  /\ Fault
  /\ Answer(c, "rpc")
  /\ CASE call[c].at = "template" ->
            templates' \in {templates, WithTemplate(c)}
            /\ UNCHANGED <<actors, bundles, atespace, made>>
       [] call[c].at = "actor" ->
            (NewActor(c) \/ UNCHANGED <<actors, made>>)
            /\ UNCHANGED <<templates, bundles, atespace>>
       [] call[c].at = "policy" ->
            (NewPolicy(On(c)) \/ UNCHANGED actors)
            /\ UNCHANGED <<templates, bundles, atespace, made>>
       [] call[c].at = "make" ->
            atespace' \in {atespace, TRUE}
            /\ UNCHANGED <<templates, actors, bundles, made>>
       [] OTHER -> UNCHANGED world
  /\ UNCHANGED <<config, channel, holder, client, dials>>

(* The bundle's file cannot be written, and the bundle is as it was.       *)
PutFails(c) ==
  /\ In(c, "put")
  /\ Fault
  /\ Answer(c, "internal")
  /\ UNCHANGED <<config, channel, holder, client, dials, world>>

(* The gateway drops a call.                                               *)
Cancel(c) ==
  /\ call[c].at \notin {"idle", "answered"}
  /\ Fault
  /\ Ends(c)
  /\ UNCHANGED world

Return(c) ==
  /\ call[c].at = "answered"
  /\ Ends(c)
  /\ UNCHANGED <<faults, world>>

Restart ==
  /\ \E cfg \in Loaded : ClientRestart(cfg)
  /\ call' = [c \in Calls |-> Free]
  /\ UNCHANGED <<begun, world>>

-----------------------------------------------------------------------------

Step(c) ==
  \/ ClientStep(c) /\ UNCHANGED <<calls, world>>
  \/ GotClient(c) \/ MakeTemplate(c) \/ Golden(c) \/ MakeActor(c) \/ GetUid(c)
  \/ MakePolicy(c) \/ BuildBundle(c) \/ PutBundle(c) \/ Get(c) \/ List(c)
  \/ LookWorkspace(c) \/ MakeWorkspace(c) \/ Return(c)

Next ==
  \/ \E c \in Calls :
       \/ \E op \in Ops : \E r \in Request(op) : Call(c, op, r)
       \/ Step(c) \/ GoldenFails(c) \/ RpcFails(c) \/ PutFails(c) \/ Cancel(c)
       \/ ClientFails(c) /\ UNCHANGED <<calls, world>>
  \/ Restart

Spec == Init /\ [][Next]_vars

(* The runtime polls the tasks that can go on, dials and RPCs end, and the *)
(* lock of the channel, the one thing that makes a call wait for another,  *)
(* is granted in order of arrival: strong fairness.  Nothing is assumed of *)
(* the gateway or of failures.                                             *)
Fairness == \A c \in Calls : SF_vars(Step(c))

FairSpec == Spec /\ Fairness

-----------------------------------------------------------------------------
(* Properties                                                              *)

(* Every variable has its type.                                            *)
TypeOK ==
  /\ ClientTypeOK
  /\ begun \in 0..MaxCalls
  /\ \A c \in Calls :
       /\ call[c].op \in Ops \cup {"none"}
       /\ call[c].op # "none" => call[c].request \in Request(call[c].op)
       /\ call[c].at \in RpcPlaces \cup {"idle", "client", "bundle", "put", "answered"}
       /\ call[c].uid \in 0..1
  /\ \A t \in DOMAIN templates :
       /\ DOMAIN templates[t] = {"selector", "containers", "snapshot", "limits"}
       /\ templates[t].limits \in [cpu: 1..MaxInt, memory: 1..MaxInt]
  /\ \A n \in Names : actors[n] # None =>
       actors[n].rules \in {{}} \cup {cfg.rules : cfg \in Loaded}
  /\ \A n \in Names : bundles[n] # None => actors[n] # None
  /\ atespace \in BOOLEAN

(* A quantity's digits, without the point.                                 *)
Digits(q) ==
  LET d[i \in 0..Len(q.frac)] == IF i = 0 THEN q.whole ELSE 10 * d[i - 1] + q.frac[i]
  IN  d[Len(q.frac)]

(* Is v what a quantity says, to the last digit?  Units is how many of v's *)
(* one of the quantity's is.                                               *)
Exactly(v, q, units) == v * 10 ^ Len(q.frac) = Digits(q) * units

CpuUnits(q) == CASE q.suffix = "m" -> 1 [] q.suffix = "" -> 1000 [] OTHER -> 0

MemoryUnits(q) == Scale(q.suffix)

(* The limit a request comes to, where it names none that of the fragment  *)
(* and then the default.                                                   *)
Worth(v, q, units, fromFragment, default) ==
  IF q # Blank THEN Exactly(v, q, units)
  ELSE v = IF fromFragment > 0 THEN fromFragment ELSE default

(* Has a quantity of at most so many digits after the point a limit that   *)
(* Substrate can be given?                                                 *)
Expressible(q, units, places) ==
  LET said == Digits(q) * units  ten == 10 ^ Len(q.frac) IN
  /\ q.wellFormed /\ Len(q.frac) <= places
  /\ said % ten = 0 /\ said \div ten \in 1..MaxInt

CpuExpressible(q) ==
  q = Blank \/ Expressible(q, CpuUnits(q), IF q.suffix = "" THEN 3 ELSE 0)

MemoryExpressible(q) == q = Blank \/ Expressible(q, MemoryUnits(q), 0)

(* A limit is never rounded, cut off or wrapped around: an actor's         *)
(* template has what its request says to the digit, and a create is        *)
(* refused for its limits only if they cannot be said in positive i64s of  *)
(* millicores and bytes (template.rs:178-228).                             *)
LimitsExact ==
  /\ \A n \in Names : actors[n] # None =>
       LET r == made[n].request  cfg == made[n].config
           limits == actors[n].template[2].limits IN
       /\ Worth(limits.cpu, r.cpu, CpuUnits(r.cpu), cfg.fragment.cpu, cfg.cpu)
       /\ Worth(limits.memory, r.memory, MemoryUnits(r.memory),
                cfg.fragment.memory, cfg.memory)
  /\ \A c \in Calls :
       LET r == call[c].request IN
       call[c].op = "create" /\ call[c].answer = "invalid_argument" =>
         \/ r.image \notin Pinned \/ (r.id = Blank /\ r.name = Blank)
         \/ ~CpuExpressible(r.cpu) \/ ~MemoryExpressible(r.memory)

(* Do two requests, each under its configuration, ask for the same actor   *)
(* but for who they are?                                                   *)
Alike(r1, cfg1, r2, cfg2) ==
  /\ r1.image = r2.image
  /\ ResourcesFor(r1, cfg1) = ResourcesFor(r2, cfg2)
  /\ cfg1.fragment = cfg2.fragment /\ cfg1.selector = cfg2.selector

(* Actors that ask for the same share a template and its golden snapshot,  *)
(* whatever their names, environments, sessions and spellings of a limit;  *)
(* and no actor is ever made of a template that another image, other       *)
(* limits or another placement gave its name to (template.rs:230).         *)
SharesByInputs ==
  \A n, o \in Names : actors[n] # None /\ actors[o] # None =>
    LET a == made[n]  b == made[o] IN
    /\ Alike(a.request, a.config, b.request, b.config) =>
         actors[n].template = actors[o].template
    /\ actors[n].template = actors[o].template =>
         /\ a.request.image = b.request.image
         /\ ResourcesFor(a.request, a.config) = ResourcesFor(b.request, b.config)
         /\ a.config.selector = b.config.selector

(* A call that is repeated, or races another for the same thing, is not    *)
(* turned away because the thing is there: only a create that asks for     *)
(* something else than the actor was made for is told it exists            *)
(* (lib.rs:1105, 1379).                                                    *)
RetryFindsItsOwn ==
  \A c \in Calls : call[c].answer = "already_exists" =>
    /\ call[c].op = "create"
    /\ LET m == made[On(c)] IN
       ~Alike(call[c].request, config, m.request, m.config)

(* Every call is answered or dropped, however dials fail and calls that    *)
(* hold the channel's lock are dropped (lib.rs:353).                       *)
CallsAnswered == \A c \in Calls : call[c].at # "idle" ~> call[c].at = "idle"
=============================================================================
