--------------------------- MODULE ActorTemplates ---------------------------
(***************************************************************************)
(* From a request and the driver's configuration to an ActorTemplate and   *)
(* its name (src/src/template.rs), and the checks a request passes first   *)
(* (src/src/lib.rs).  Pure functions.                                      *)
(*                                                                         *)
(* A request's sandbox is a record:                                        *)
(*   id, name            Blank where the gateway sent none                 *)
(*   image               Blank without an image (or a spec, or a template) *)
(*   gpu, userNamespaces what Substrate cannot run                         *)
(*   cpu, memory         the limits, quantities or Blank                   *)
(*   env, templateEnv, logLevel, auth    see module LaunchBundle           *)
(* A quantity is [wellFormed, whole, frac, suffix]: the digits before the  *)
(* point as a number, those after it one by one, and what follows.         *)
(* A configuration is [fragment, selector, cpu, memory, rules, gateway],   *)
(* and a fragment [sets, containers, cpu, memory, snapshot].               *)
(***************************************************************************)
EXTENDS Integers, Sequences

CONSTANTS
  Blank,      (* Nothing but white space, or nothing.                      *)
  Pinned,     (* Images named by digest.                                   *)
  MaxInt      (* i64::MAX.                                                 *)

ASSUME MaxIntAssumption == MaxInt \in Nat \ {0}
ASSUME BlankAssumption == Blank \notin Pinned

-----------------------------------------------------------------------------
(* Quantities.  0 stands for None: no limit that is accepted is 0.         *)

(* Mutant: the digits after the point are taken for thousandths.           *)
ThousandthsUnpadded(frac) ==
  LET digit(i) == IF i <= Len(frac) THEN frac[i] ELSE 0 IN
  CASE Len(frac) = 1 -> digit(1)
    [] Len(frac) = 2 -> 10 * digit(1) + digit(2)
    [] OTHER         -> 100 * digit(1) + 10 * digit(2) + digit(3)

(* The three digits that frac is padded to, as a number.                   *)
Thousandths(frac) ==
  LET digit(i) == IF i <= Len(frac) THEN frac[i] ELSE 0 IN
  100 * digit(1) + 10 * digit(2) + digit(3)

InRange(v) == IF v <= MaxInt THEN v ELSE 0

(* The multiplication and the addition are checked.                        *)
CpuMillicores(q) ==
  CASE q.suffix = "m" /\ q.frac = <<>> -> InRange(q.whole)
    [] q.suffix = "" /\ Len(q.frac) <= 3 ->
         InRange(q.whole * 1000 + Thousandths(q.frac))
    [] OTHER -> 0

Scale(suffix) ==
  CASE suffix = ""   -> 1
    [] suffix = "Ki" -> 1024
    [] suffix = "Mi" -> 1024 * 1024
    [] suffix = "Gi" -> 1024 * 1024 * 1024
    [] suffix = "Ti" -> 1024 * 1024 * 1024 * 1024
    [] suffix = "k"  -> 1000
    [] suffix = "M"  -> 1000 * 1000
    [] suffix = "G"  -> 1000 * 1000 * 1000
    [] suffix = "T"  -> 1000 * 1000 * 1000 * 1000
    [] OTHER         -> 0

MemoryBytes(q) ==
  LET scale == Scale(q.suffix) IN
  IF q.frac = <<>> /\ scale # 0 /\ q.whole <= MaxInt \div scale
    THEN q.whole * scale ELSE 0

(* The request's limit when it names one, the fragment's next, the         *)
(* configuration's last.                                                   *)
Limit(quantity, parsed, fromFragment, default) ==
  IF quantity # Blank
    THEN IF quantity.wellFormed THEN parsed ELSE 0
    ELSE IF fromFragment > 0 THEN fromFragment ELSE default

ResourcesFor(r, cfg) ==
  [cpu    |-> Limit(r.cpu, CpuMillicores(r.cpu), cfg.fragment.cpu, cfg.cpu),
   memory |-> Limit(r.memory, MemoryBytes(r.memory), cfg.fragment.memory,
                    cfg.memory)]

-----------------------------------------------------------------------------
(* The fragment and the template                                           *)

SandboxContainer == "sandbox"

(* Fragment::new                                                           *)
FragmentAccepted(f) ==
  /\ f.sets \cap {"metadata", "workerSelector", "status"} = {}
  /\ \E i \in DOMAIN f.containers : f.containers[i].name = SandboxContainer
  /\ \A i \in DOMAIN f.containers : f.containers[i].adds = {}

(* configfile::load and main: what the driver starts with.                 *)
Loads(cfg) ==
  FragmentAccepted(cfg.fragment) /\ cfg.rules # {} /\ DOMAIN cfg.selector # {}

(* The first container named `sandbox` takes the request's image, and      *)
(* every container drops all capabilities.                                 *)
Containers(r, f) ==
  LET sandbox(i) ==
        /\ f.containers[i].name = SandboxContainer
        /\ \A j \in 1..(i - 1) : f.containers[j].name # SandboxContainer IN
  [i \in DOMAIN f.containers |->
     [name |-> f.containers[i].name, drops |-> {"ALL"},
      image |-> IF sandbox(i) THEN r.image ELSE f.containers[i].image]]

(* Mutant: the request's environment is baked into the template.           *)
SynthesizePersonal(r, cfg) ==
  [selector |-> cfg.selector, containers |-> Containers(r, cfg.fragment),
   snapshot |-> cfg.fragment.snapshot, limits |-> ResourcesFor(r, cfg),
   env |-> r.env]

(* The metadata is the name and the place it is created under.             *)
Synthesize(r, cfg) ==
  [selector   |-> cfg.selector,
   containers |-> Containers(r, cfg.fragment),
   snapshot   |-> IF cfg.fragment.snapshot = Blank THEN "memory"
                                                   ELSE cfg.fragment.snapshot,
   limits     |-> ResourcesFor(r, cfg)]

(* The hash of the encoding is taken to be as good as the encoding.        *)
NameFor(r, cfg) == <<"oshl", Synthesize(r, cfg)>>

-----------------------------------------------------------------------------
(* Checks of a request                                                     *)

(* require_actor_name; Blank is a refusal.                                 *)
ActorName(r) == IF r.id # Blank THEN r.id ELSE r.name

(* validate_substrate_sandbox: the code it is refused with, or ok.         *)
Validate(r, cfg) ==
  CASE r.image \notin Pinned       -> "invalid_argument"
    [] r.gpu \/ r.userNamespaces   -> "failed_precondition"
    [] 0 \in {ResourcesFor(r, cfg).cpu, ResourcesFor(r, cfg).memory}
                                   -> "invalid_argument"
    [] OTHER                       -> "ok"

(* create_sandbox: validation, then the name, then the authentication.     *)
Admit(r, cfg) ==
  CASE Validate(r, cfg) # "ok" -> Validate(r, cfg)
    [] ActorName(r) = Blank    -> "invalid_argument"
    [] r.auth = Blank          -> "failed_precondition"
    [] OTHER                   -> "ok"
=============================================================================
