--------------------------- MODULE ControlClient ----------------------------
(***************************************************************************)
(* control_client (src/src/lib.rs): the channel to ate-api-server that all *)
(* calls share, dialed by the first of them under a lock the others wait   *)
(* for.  The lock is taken twice: once to look whether there is a channel, *)
(* once to look again and dial.  A call whose future is dropped drops the  *)
(* guard.                                                                  *)
(***************************************************************************)
EXTENDS Naturals

CONSTANTS
  Calls,      (* Slots for calls served at the same time.                  *)
  None,       (* No holder of the lock.                                    *)
  Configs,    (* Configurations; tls says which TLS settings are made.     *)
  MaxFaults   (* Bound: failures in one behaviour.                         *)

ASSUME ClientAssumption ==
  /\ None \notin Calls
  /\ MaxFaults \in Nat
  /\ \A cfg \in Configs : cfg.tls \subseteq {"ca", "cert", "key", "serverName"}

VARIABLES
  config,    (* The configuration the process runs with.                   *)
  channel,   (* Has a channel been kept?                                   *)
  holder,    (* The call that holds the channel's lock.                    *)
  client,    (* Each call's way to its client.                             *)
  dials,     (* History: channels this process has opened, up to 2.        *)
  faults     (* Failures so far.                                           *)

clientVars == <<config, channel, holder, client, dials, faults>>

Client == [at: {"idle", "auth", "peek", "relock", "tls", "connect", "have",
                "failed"},
           code: {"ok", "failed_precondition", "unavailable"}]

NoClient == [at |-> "idle", code |-> "ok"]

ClientInit(cfg) ==
  /\ config = cfg
  /\ channel = FALSE
  /\ holder = None
  /\ client = [c \in Calls |-> NoClient]
  /\ dials = 0
  /\ faults = 0

Fault == faults < MaxFaults /\ faults' = faults + 1

At(c, p) == client[c].at = p

Goto(c, p) == client' = [client EXCEPT ![c].at = p]

(* The guard goes with the future, or with the block it was taken in.      *)
Unlocked(c) == IF holder = c THEN None ELSE holder

-----------------------------------------------------------------------------

Want(c) ==
  /\ At(c, "idle")
  /\ Goto(c, "auth")
  /\ UNCHANGED <<config, channel, holder, dials, faults>>

(* load_auth_interceptor: the token file is read anew, before any wait.    *)
LoadAuth(c) ==
  /\ At(c, "auth")
  /\ Goto(c, "peek")
  /\ UNCHANGED <<config, channel, holder, dials, faults>>

(* Mutant: the guard of the first look lives on into the second.           *)
PeekKeeps(c) ==
  /\ At(c, "peek")
  /\ holder = None
  /\ Goto(c, IF channel THEN "have" ELSE "relock")
  /\ holder' = IF channel THEN None ELSE c
  /\ UNCHANGED <<config, channel, dials, faults>>

(* The first look, which waits for whoever dials, in a block of its own.   *)
Peek(c) ==
  /\ At(c, "peek")
  /\ holder = None
  /\ Goto(c, IF channel THEN "have" ELSE "relock")
  /\ UNCHANGED <<config, channel, holder, dials, faults>>

(* Mutant: the lock is as good as the look.                                *)
RelockBlind(c) ==
  /\ At(c, "relock")
  /\ holder = None
  /\ Goto(c, "tls")
  /\ holder' = c
  /\ UNCHANGED <<config, channel, dials, faults>>

(* The second look, and the lock is kept to dial.                          *)
Relock(c) ==
  /\ At(c, "relock")
  /\ holder = None
  /\ Goto(c, IF channel THEN "have" ELSE "tls")
  /\ holder' = IF channel THEN None ELSE c
  /\ UNCHANGED <<config, channel, dials, faults>>

Fails(c, code) ==
  /\ client' = [client EXCEPT ![c].at = "failed", ![c].code = code]
  /\ holder' = Unlocked(c)
  /\ UNCHANGED <<config, channel, dials>>

(* load_tls_config refuses a client identity by halves, and TLS settings   *)
(* without a CA.                                                           *)
TlsRefused(tls) ==
  IF "ca" \in tls THEN ("cert" \in tls) # ("key" \in tls) ELSE tls # {}

LoadTls(c) ==
  /\ At(c, "tls")
  /\ UNCHANGED faults
  /\ IF TlsRefused(config.tls)
       THEN Fails(c, "failed_precondition")
       ELSE Goto(c, "connect") /\ UNCHANGED <<config, channel, holder, dials>>

Connect(c) ==
  /\ At(c, "connect")
  /\ Goto(c, "have")
  /\ channel' = TRUE
  /\ holder' = Unlocked(c)
  /\ dials' = IF dials < 2 THEN dials + 1 ELSE dials
  /\ UNCHANGED <<config, faults>>

(* A credential file is missing or empty or the endpoint is not a URI, or  *)
(* the TLS settings, where there are any, are not taken or the dial fails. *)
ClientFails(c) ==
  /\ Fault
  /\ \/ /\ client[c].at \in {"auth", "tls"}
        /\ Fails(c, "failed_precondition")
     \/ /\ \/ At(c, "connect")
           \/ At(c, "tls") /\ config.tls # {} /\ ~TlsRefused(config.tls)
        /\ Fails(c, "unavailable")

ClientStep(c) ==
  LoadAuth(c) \/ Peek(c) \/ Relock(c) \/ LoadTls(c) \/ Connect(c)

(* The call ends, or its future is dropped.                                *)
Release(c) ==
  /\ client' = [client EXCEPT ![c] = NoClient]
  /\ holder' = Unlocked(c)
  /\ UNCHANGED <<config, channel, dials>>

(* The process is started anew, perhaps with another configuration.        *)
ClientRestart(cfg) ==
  /\ Fault
  /\ config' = cfg
  /\ channel' = FALSE
  /\ holder' = None
  /\ client' = [c \in Calls |-> NoClient]
  /\ dials' = 0

-----------------------------------------------------------------------------
(* Properties                                                              *)

ClientTypeOK ==
  /\ config \in Configs
  /\ channel \in BOOLEAN
  /\ holder \in Calls \cup {None}
  /\ client \in [Calls -> Client]
  /\ dials \in 0..2
  /\ faults \in 0..MaxFaults

(* However many calls find no channel at once, a process opens one and all *)
(* use it (lib.rs:241, "it is dialed once and reused").                    *)
OneChannel == dials <= 1 /\ (channel <=> dials = 1)
=============================================================================
