---------------------------- MODULE LaunchBundle ----------------------------
(***************************************************************************)
(* A sandbox's launch bundle (src/src/bundle.rs), built from the request,  *)
(* its launch authentication, the configured gateway and the uid of the    *)
(* actor.  Pure functions.                                                 *)
(*                                                                         *)
(* Of a request's sandbox (module ActorTemplates) the bundle takes env and *)
(* templateEnv, functions from variable names to values, logLevel, and     *)
(* auth: the gateway's [valid, generation, session, epoch].  The keys and  *)
(* certificates, fresh in every bundle, are known by the session they are  *)
(* made for.                                                               *)
(***************************************************************************)
EXTENDS ActorTemplates

CONSTANT Reserved   (* Variables OpenShell reserves for itself.            *)

(* child_env: the template's, the spec's over it, less the reserved ones.  *)
ChildEnv(r) ==
  [v \in (DOMAIN r.templateEnv \cup DOMAIN r.env) \ Reserved |->
     IF v \in DOMAIN r.env THEN r.env[v] ELSE r.templateEnv[v]]

(* The refusals: no uid, authentication that does not parse or validate.   *)
Buildable(r, uid) == uid # 0 /\ r.auth.valid

(* The boundary is the sandbox's half, the descriptor the supervisor's;    *)
(* each is written out by itself, the identity, the claim of the actor's   *)
(* uid and the evidence in both.                                           *)
Build(r, gateway, uid) ==
  LET auth == r.auth
      evidence == <<auth.generation, r.id>>
      keys == auth.session
  IN
  [generation  |-> auth.generation,
   epoch       |-> auth.epoch,
   gateway     |-> gateway,
   sandboxId   |-> r.id,
   sandboxName |-> r.name,
   actorUid    |-> uid,
   logLevel    |-> IF r.logLevel = Blank THEN "info" ELSE r.logLevel,
   boundary    |-> [boundaryId |-> r.id, generation |-> auth.generation,
                    session |-> auth.session, epoch |-> auth.epoch,
                    authority |-> keys, actorUid |-> uid, image |-> r.image,
                    evidence |-> evidence, env |-> ChildEnv(r)],
   descriptor  |-> [boundaryId |-> r.id, generation |-> auth.generation,
                    session |-> auth.session, image |-> r.image,
                    authority |-> keys, trustAnchor |-> keys,
                    actorUid |-> uid, evidence |-> evidence]]
=============================================================================
