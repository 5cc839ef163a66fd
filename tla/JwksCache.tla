----------------------------- MODULE JwksCache ------------------------------
(***************************************************************************)
(* The key cache of the actor-token verifier (ActorJwtVerifier in          *)
(* src/src/launch.rs).  verify looks the token's key up in the cached set  *)
(* and, if it is not there, once more with leave to refresh it; key holds  *)
(* the cache's lock across the fetch.  Time is discrete: it passes between *)
(* steps, and not while a step is due, but for a fetch, which takes up to  *)
(* the client's timeout.                                                   *)
(***************************************************************************)
EXTENDS Integers, FiniteSets

CONSTANTS
  Keys,             (* Key ids.                                            *)
  Unusable,         (* Those whose published form makes no decoding key.   *)
  Requests,         (* Slots for launch requests being verified.           *)
  None,             (* No key set, no key, no request.                     *)
  RefreshInterval,  (* JWKS_REFRESH_INTERVAL.                              *)
  MaxAge,           (* JWKS_MAX_AGE.                                       *)
  Timeout,          (* The HTTP client's timeout.                          *)
  MaxTime           (* Bound: the clock.                                   *)

ASSUME NoneAssumption == None \notin Keys \cup Requests
ASSUME UnusableAssumption == Unusable \subseteq Keys
ASSUME TimeAssumption ==
  /\ RefreshInterval \in Nat \ {0} /\ MaxAge \in Nat \ {0}
  /\ Timeout \in Nat /\ MaxTime \in Nat

VARIABLES
  now,        (* The clock.                                                *)
  published,  (* The keys the IdP publishes.                               *)
  lastOut,    (* When each key was last not published,                     *)
  lastIn,     (* and when it was last published.                           *)
  cache,      (* `keys`: the cached set, None before the first fetch.      *)
  fetchedAt,  (* When its response had arrived.                            *)
  holder,     (* The request that holds the lock of `keys`.                *)
  req,        (* Each request: its place, its key, when it began to fetch. *)
  response    (* What the IdP answered the fetch under way, None before.   *)

idp      == <<published, lastOut, lastIn>>
verifier == <<cache, fetchedAt, holder, req, response>>
vars     == <<now, idp, verifier>>

Idle == [at |-> "idle", kid |-> None, refresh |-> FALSE, since |-> 0]

Request == [at: {"idle", "lock", "fetch", "verified", "unknown"},
            kid: Keys \cup {None}, refresh: BOOLEAN, since: 0..MaxTime]

Init ==
  /\ now = 0
  /\ published \in SUBSET Keys
  /\ lastOut = [k \in Keys |-> IF k \in published THEN -1 ELSE 0]
  /\ lastIn = [k \in Keys |-> IF k \in published THEN 0 ELSE -1]
  /\ cache = None
  /\ fetchedAt = 0
  /\ holder = None
  /\ req = [r \in Requests |-> Idle]
  /\ response = None

-----------------------------------------------------------------------------
(* The cache                                                               *)

Age == now - fetchedAt

(* Mutant: the age limit only counts for a key that is not in the set.     *)
MustFetchAged(refresh) ==
  cache = None \/ (refresh /\ (Age >= MaxAge \/ Age >= RefreshInterval))

(* Mutant: an unknown key never has the set fetched again.                 *)
MustFetchNever(refresh) == cache = None \/ Age >= MaxAge

(* Is there a set, and a new enough one?  A key that is not in it may be   *)
(* looked for again once the set is no longer fresh.                       *)
MustFetch(refresh) ==
  cache = None \/ Age >= MaxAge \/ (refresh /\ Age >= RefreshInterval)

Goto(r, p) == req' = [req EXCEPT ![r].at = p]

(* verify returns an error. *)
Refuse(r) == req' = [req EXCEPT ![r] = Idle]

LookAgain(r) == req' = [req EXCEPT ![r].at = "lock", ![r].refresh = TRUE]

(* Mutant: a key that is not found is looked for once more each time.      *)
LookupOnceMore(r, set) ==
  \/ req[r].kid \in set \ Unusable   /\ Goto(r, "verified")
  \/ req[r].kid \in set \cap Unusable /\ Refuse(r)
  \/ req[r].kid \notin set           /\ LookAgain(r)

(* key with the set that is in the cache by now.  A key that is found may  *)
(* still make no decoding key, which refuses the token; the second lookup  *)
(* follows a first one that found nothing.                                 *)
Lookup(r, set) ==
  \/ req[r].kid \in set \ Unusable   /\ Goto(r, "verified")
  \/ req[r].kid \in set \cap Unusable /\ Refuse(r)
  \/ req[r].kid \notin set /\ req[r].refresh  /\ Goto(r, "unknown")
  \/ req[r].kid \notin set /\ ~req[r].refresh /\ LookAgain(r)

(* A token arrives, signed with some key.                                  *)
Arrive(r, k) ==
  /\ req[r].at = "idle"
  /\ req' = [req EXCEPT ![r] =
       [at |-> "lock", kid |-> k, refresh |-> FALSE, since |-> 0]]
  /\ UNCHANGED <<now, idp, cache, fetchedAt, holder, response>>

(* The lock is free and the set will do.                                   *)
UseCache(r) ==
  /\ req[r].at = "lock"
  /\ holder = None
  /\ ~MustFetch(req[r].refresh)
  /\ Lookup(r, cache)
  /\ UNCHANGED <<now, idp, cache, fetchedAt, holder, response>>

StartFetch(r) ==
  /\ req[r].at = "lock"
  /\ holder = None
  /\ MustFetch(req[r].refresh)
  /\ holder' = r
  /\ req' = [req EXCEPT ![r].at = "fetch", ![r].since = now]
  /\ UNCHANGED <<now, idp, cache, fetchedAt, response>>

(* The IdP answers with what it publishes at that moment.                  *)
Respond ==
  /\ holder # None
  /\ response = None
  /\ response' = published
  /\ UNCHANGED <<now, idp, cache, fetchedAt, holder, req>>

(* The response has arrived, and dates the set.                            *)
Store(r) ==
  /\ holder = r
  /\ response # None
  /\ cache' = response
  /\ fetchedAt' = now
  /\ Lookup(r, response)
  /\ holder' = None
  /\ response' = None
  /\ UNCHANGED <<now, idp>>

(* The fetch fails, at the latest when it times out; the token is refused. *)
FetchFails(r) ==
  /\ holder = r
  /\ Refuse(r)
  /\ holder' = None
  /\ response' = None
  /\ UNCHANGED <<now, idp, cache, fetchedAt>>

(* verify returns.                                                         *)
Return(r) ==
  /\ req[r].at \in {"verified", "unknown"}
  /\ req' = [req EXCEPT ![r] = Idle]
  /\ UNCHANGED <<now, idp, cache, fetchedAt, holder, response>>

-----------------------------------------------------------------------------
(* The IdP and the clock                                                   *)

Publish(k) ==
  /\ k \notin published
  /\ published' = published \cup {k}
  /\ lastIn' = [lastIn EXCEPT ![k] = now]
  /\ lastOut' = [lastOut EXCEPT ![k] = now]
  /\ UNCHANGED <<now, verifier>>

Withdraw(k) ==
  /\ k \in published
  /\ published' = published \ {k}
  /\ lastIn' = [lastIn EXCEPT ![k] = now]
  /\ lastOut' = [lastOut EXCEPT ![k] = now]
  /\ UNCHANGED <<now, verifier>>

(* Time passes while a fetch is under way that has not run out of it, or   *)
(* while nothing is due.                                                   *)
Due(r) == \/ req[r].at \in {"verified", "unknown"}
          \/ req[r].at = "lock" /\ holder = None
          \/ req[r].at = "fetch" /\ now >= req[r].since + Timeout

Tick ==
  /\ now < MaxTime
  /\ \A r \in Requests : ~Due(r)
  /\ now' = now + 1
  /\ lastIn' = [k \in Keys |-> IF k \in published THEN now + 1 ELSE lastIn[k]]
  /\ lastOut' = [k \in Keys |-> IF k \in published THEN lastOut[k] ELSE now + 1]
  /\ UNCHANGED <<published, verifier>>

Next ==
  \/ \E r \in Requests :
       \/ \E k \in Keys : Arrive(r, k)
       \/ UseCache(r) \/ StartFetch(r) \/ Store(r) \/ FetchFails(r) \/ Return(r)
  \/ Respond
  \/ \E k \in Keys : Publish(k) \/ Withdraw(k)
  \/ Tick

Spec == Init /\ [][Next]_vars

(* tokio's mutex grants the lock in order of arrival, and a fetch ends, at *)
(* the latest when the client's timeout has passed.                        *)
Fairness ==
  \A r \in Requests : /\ SF_vars(UseCache(r) \/ StartFetch(r))
                      /\ WF_vars(Store(r) \/ FetchFails(r))

FairSpec == Spec /\ Fairness

-----------------------------------------------------------------------------
(* Properties                                                              *)

(* Every variable has its type.                                            *)
TypeOK ==
  /\ now \in 0..MaxTime
  /\ published \subseteq Keys
  /\ lastOut \in [Keys -> -1..MaxTime]
  /\ lastIn \in [Keys -> -1..MaxTime]
  /\ cache = None \/ cache \subseteq Keys
  /\ fetchedAt \in 0..MaxTime
  /\ holder \in Requests \cup {None}
  /\ req \in [Requests -> Request]
  /\ response = None \/ response \subseteq Keys

(* A key verifies only if the IdP published it within the age limit and    *)
(* the time one fetch takes, since a set is dated when it has arrived      *)
(* (launch.rs:266).  This is longer than what is promised of a removed key *)
(* (StopsInTime).                                                          *)
VerifiesRecent ==
  \A r \in Requests : req[r].at = "verified" =>
    /\ lastIn[req[r].kid] >= 0
    /\ now - lastIn[req[r].kid] < MaxAge + Timeout

(* "A key set older than this is fetched again before use, so a key the    *)
(* IdP removed stops verifying within this long" (launch.rs:175-177): no   *)
(* key verifies that was last published longer ago than the age limit.     *)
(* The code does not keep to it: the age of a set counts from the arrival  *)
(* of the answer, which may say what was so a fetch earlier.               *)
StopsInTime ==
  \A r \in Requests : req[r].at = "verified" =>
    now - lastIn[req[r].kid] <= MaxAge

(* A key is called unknown only if the IdP did not publish it at some      *)
(* moment of the last refresh interval and fetch: a rotation does not lock *)
(* the new tokens out for longer.  A token refused because the fetch       *)
(* failed, or the key is of no use, is not called unknown.                 *)
UnknownIsNew ==
  \A r \in Requests : req[r].at = "unknown" =>
    now - lastOut[req[r].kid] < RefreshInterval + Timeout

(* Every token is judged, though one request's fetch holds the lock that   *)
(* all others need, whatever keys come and go in the meantime.             *)
Judged ==
  \A r \in Requests : req[r].at = "lock" ~> req[r].at \notin {"lock", "fetch"}
=============================================================================
