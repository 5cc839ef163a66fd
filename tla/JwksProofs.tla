----------------------------- MODULE JwksProofs -----------------------------
(***************************************************************************)
(* Proofs about JwksCache: how old a key may be that verifies, and how new *)
(* one that is called unknown, and how long the lock is held.              *)
(*                                                                         *)
(* The invariant dates what the verifier knows: a response says of every   *)
(* key what was so at some moment since its fetch began (Responds), so the *)
(* cached set does of some moment no longer than a fetch before its date   *)
(* (Dates), and no time passes between the look that decides on a key and  *)
(* the answer (Decided).                                                   *)
(***************************************************************************)
EXTENDS JwksCache, TLAPS

USE NoneAssumption, UnusableAssumption, TimeAssumption

(* The lock of the set is held exactly across a fetch.                     *)
Locks ==
  /\ \A r \in Requests : req[r].at = "fetch" <=> holder = r
  /\ holder = None => response = None
  /\ \A r \in Requests : req[r].at # "idle" => req[r].kid \in Keys

(* The clock goes ahead of all dates, and a fetch ends in time.            *)
Clock ==
  /\ fetchedAt <= now
  /\ \A k \in Keys : /\ lastIn[k] <= now /\ (k \in published => lastIn[k] = now)
                      /\ lastOut[k] <= now
                      /\ (k \notin published => lastOut[k] = now)
  /\ \A r \in Requests : req[r].at = "fetch" =>
       req[r].since <= now /\ now <= req[r].since + Timeout

(* Every key was as a set says at a moment not before t.                   *)
Since(set, t) ==
  \A k \in Keys : IF k \in set THEN lastIn[k] >= 0 /\ lastIn[k] >= t
                               ELSE lastOut[k] >= t

Responds ==
  response # None =>
    \A r \in Requests : holder = r => Since(response, req[r].since)

Dates == cache # None => Since(cache, fetchedAt - Timeout)

Decided == VerifiesRecent /\ UnknownIsNew

KInv == TypeOK /\ Locks /\ Clock /\ Responds /\ Dates /\ Decided

-----------------------------------------------------------------------------

LEMMA InitKInv == Init => KInv
BY DEF Init, KInv, TypeOK, Locks, Clock, Responds, Dates, Decided, Idle, Request,
   VerifiesRecent, UnknownIsNew

LEMMA ArriveKInv ==
  ASSUME KInv, NEW r \in Requests, NEW k \in Keys, Arrive(r, k)
  PROVE  KInv'
<1>1. TypeOK'
  BY DEF KInv, TypeOK, Arrive, Request, idp
<1> QED BY <1>1 DEF KInv, TypeOK, Arrive, Request, idp, Locks, Clock, Responds,
     Dates, Decided, VerifiesRecent, UnknownIsNew, Since

LEMMA StartFetchKInv ==
  ASSUME KInv, NEW r \in Requests, StartFetch(r)
  PROVE  KInv'
<1>1. TypeOK'
  BY DEF KInv, TypeOK, StartFetch, Request, idp
<1>2. Locks'
  BY <1>1 DEF KInv, TypeOK, StartFetch, Request, idp, Locks
<1>3. Clock'
  BY <1>1 DEF KInv, TypeOK, StartFetch, Request, idp, Clock
<1>4. Responds' /\ Dates'
  BY DEF KInv, StartFetch, idp, Locks, Responds, Dates, Since
<1>5. Decided'
  BY <1>1 DEF KInv, TypeOK, StartFetch, Request, idp, Decided, VerifiesRecent,
     UnknownIsNew
<1> QED BY <1>1, <1>2, <1>3, <1>4, <1>5 DEF KInv

(* The answer of a look into set, whose keys are so since t.               *)
LEMMA LookupKInv ==
  ASSUME TypeOK, Locks, Clock, Decided, NEW r \in Requests, NEW set,
         set \subseteq Keys, NEW t \in Int, Since(set, t),
         req[r].at # "idle",
         now - t < MaxAge + Timeout,
         req[r].refresh => now - t < RefreshInterval + Timeout,
         Lookup(r, set), UNCHANGED <<now, idp>>
  PROVE  /\ req' \in [Requests -> Request]
         /\ \A q \in Requests \ {r} : req'[q] = req[q]
         /\ req'[r].at # "idle" => req'[r].kid = req[r].kid
         /\ req'[r].at \in {"verified", "unknown", "idle", "lock"}
         /\ Decided'
<1>1. req[r].kid \in Keys /\ req[r] \in Request
  BY DEF TypeOK, Locks
<1>2. CASE req[r].kid \in set \ Unusable
  <2>1. req' = [req EXCEPT ![r].at = "verified"]
    BY <1>2 DEF Lookup, Goto
  <2>2. lastIn[req[r].kid] >= 0 /\ now - lastIn[req[r].kid] < MaxAge + Timeout
    BY <1>1, <1>2 DEF Since, TypeOK
  <2> QED BY <1>1, <2>1, <2>2 DEF TypeOK, Request, Decided, VerifiesRecent,
       UnknownIsNew, idp
<1>3. CASE req[r].kid \in set \cap Unusable
  <2>1. req' = [req EXCEPT ![r] = Idle]
    BY <1>3 DEF Lookup, Refuse
  <2> QED BY <1>1, <2>1 DEF Idle, TypeOK, Request, Decided, VerifiesRecent,
       UnknownIsNew, idp
<1>4. CASE req[r].kid \notin set /\ req[r].refresh
  <2>1. req' = [req EXCEPT ![r].at = "unknown"]
    BY <1>4 DEF Lookup, Goto
  <2>2. now - lastOut[req[r].kid] < RefreshInterval + Timeout
    BY <1>1, <1>4 DEF Since, TypeOK
  <2> QED BY <1>1, <2>1, <2>2 DEF TypeOK, Request, Decided, VerifiesRecent,
       UnknownIsNew, idp
<1>5. CASE req[r].kid \notin set /\ ~req[r].refresh
  <2>1. req' = [req EXCEPT ![r].at = "lock", ![r].refresh = TRUE]
    BY <1>5 DEF Lookup, LookAgain
  <2> QED BY <1>1, <2>1 DEF TypeOK, Request, Decided, VerifiesRecent,
       UnknownIsNew, idp
<1> QED BY <1>2, <1>3, <1>4, <1>5

LEMMA UseCacheKInv ==
  ASSUME KInv, NEW r \in Requests, UseCache(r)
  PROVE  KInv'
<1>1. cache # None /\ cache \subseteq Keys /\ Since(cache, fetchedAt - Timeout)
  BY DEF KInv, TypeOK, Dates, UseCache, MustFetch
<1>2. /\ now - (fetchedAt - Timeout) < MaxAge + Timeout
      /\ req[r].refresh => now - (fetchedAt - Timeout) < RefreshInterval + Timeout
      /\ fetchedAt - Timeout \in Int
  BY DEF KInv, TypeOK, UseCache, MustFetch, Age
<1>3. /\ req' \in [Requests -> Request]
      /\ \A q \in Requests \ {r} : req'[q] = req[q]
      /\ req'[r].at # "idle" => req'[r].kid = req[r].kid
      /\ req'[r].at \in {"verified", "unknown", "idle", "lock"}
      /\ Decided'
  BY <1>1, <1>2, LookupKInv DEF KInv, UseCache
<1>4. TypeOK' /\ Locks'
  BY <1>3 DEF KInv, TypeOK, Locks, UseCache, idp
<1>5. Clock'
  BY <1>3 DEF KInv, Clock, UseCache, idp
<1>6. Responds' /\ Dates'
  BY <1>3 DEF KInv, Responds, Dates, Since, UseCache, idp, Locks
<1> QED BY <1>3, <1>4, <1>5, <1>6 DEF KInv

LEMMA StoreKInv ==
  ASSUME KInv, NEW r \in Requests, Store(r)
  PROVE  KInv'
<1>0. holder = r /\ req[r].at = "fetch" /\ req[r] \in Request
  BY DEF KInv, TypeOK, Locks, Store
<1>1. response # None /\ response \subseteq Keys /\ Since(response, req[r].since)
  BY <1>0 DEF KInv, TypeOK, Responds, Store
<1>2. /\ now - req[r].since < MaxAge + Timeout
      /\ now - req[r].since < RefreshInterval + Timeout
      /\ req[r].since \in Int /\ req[r].since >= now - Timeout
  <2>1. now \in Int /\ req[r].since \in Int
    BY <1>0 DEF KInv, TypeOK, Request
  <2>2. now <= req[r].since + Timeout
    BY <1>0 DEF KInv, Clock
  <2> QED BY <2>1, <2>2
<1>3. /\ req' \in [Requests -> Request]
      /\ \A q \in Requests \ {r} : req'[q] = req[q]
      /\ req'[r].at # "idle" => req'[r].kid = req[r].kid
      /\ req'[r].at \in {"verified", "unknown", "idle", "lock"}
      /\ Decided'
  BY <1>0, <1>1, <1>2, LookupKInv DEF KInv, Store
<1>4. TypeOK'
  BY <1>1, <1>3 DEF KInv, TypeOK, Store, idp
<1>5. Locks'
  BY <1>0, <1>3 DEF KInv, Locks, Store
<1>6. Clock'
  BY <1>0, <1>3, <1>5 DEF KInv, Clock, Store, idp, TypeOK
<1>7. Responds'
  BY DEF Responds, Store
<1>8. Dates'
  BY <1>1, <1>2 DEF KInv, TypeOK, Dates, Since, Store, idp
<1> QED BY <1>3, <1>4, <1>5, <1>6, <1>7, <1>8 DEF KInv

LEMMA DropKInv ==
  ASSUME KInv, NEW r \in Requests, FetchFails(r) \/ Return(r)
  PROVE  KInv'
<1>1. /\ req' = [req EXCEPT ![r] = Idle]
      /\ UNCHANGED <<now, published, lastOut, lastIn, cache, fetchedAt>>
      /\ \/ holder' = None /\ response' = None /\ holder = r
         \/ holder' = holder /\ response' = response /\ req[r].at # "fetch"
  BY DEF FetchFails, Return, Refuse, idp
<1>2. TypeOK'
  BY <1>1 DEF KInv, TypeOK, Idle, Request
<1>3. Locks'
  BY <1>1 DEF KInv, TypeOK, Locks, Idle
<1>4. Clock'
  BY <1>1 DEF KInv, TypeOK, Clock, Idle
<1>5. Responds' /\ Dates'
  BY <1>1 DEF KInv, TypeOK, Locks, Responds, Dates, Since
<1>6. Decided'
  BY <1>1 DEF KInv, TypeOK, Decided, VerifiesRecent, UnknownIsNew, Idle
<1> QED BY <1>2, <1>3, <1>4, <1>5, <1>6 DEF KInv

LEMMA RespondKInv ==
  ASSUME KInv, Respond
  PROVE  KInv'
<1>1. TypeOK' /\ Locks' /\ Clock' /\ Dates' /\ Decided'
  BY DEF KInv, TypeOK, Locks, Clock, Dates, Since, Decided, VerifiesRecent,
     UnknownIsNew, Respond, idp
<1>2. Responds'
  BY DEF KInv, TypeOK, Locks, Clock, Responds, Since, Respond, idp, Request
<1> QED BY <1>1, <1>2 DEF KInv

(* Whether a key is published or withdrawn, its dates are now.             *)
LEMMA IdpKInv ==
  ASSUME KInv, NEW k \in Keys, Publish(k) \/ Withdraw(k)
  PROVE  KInv'
<1>1. /\ published' \subseteq Keys
      /\ lastIn' = [lastIn EXCEPT ![k] = now]
      /\ lastOut' = [lastOut EXCEPT ![k] = now]
      /\ \A j \in Keys \ {k} : j \in published' <=> j \in published
      /\ UNCHANGED <<now, cache, fetchedAt, holder, req, response>>
  BY DEF KInv, TypeOK, Publish, Withdraw, verifier
<1>2. TypeOK' /\ Locks'
  BY <1>1 DEF KInv, TypeOK, Locks
<1>3. Clock'
  BY <1>1 DEF KInv, TypeOK, Clock
<1>4. ASSUME NEW set, NEW t \in Int, t <= now, Since(set, t)
      PROVE  Since(set, t)'
  BY <1>1, <1>4 DEF KInv, TypeOK, Since
<1>5. Dates'
  <2>1. fetchedAt - Timeout \in Int /\ fetchedAt - Timeout <= now
    BY DEF KInv, TypeOK, Clock
  <2> QED BY <1>1, <2>1, <1>4 DEF KInv, TypeOK, Dates, Since
<1>6. Responds'
  <2>1. ASSUME NEW r \in Requests, holder = r
        PROVE  req[r].since \in Int /\ req[r].since <= now
    BY <2>1 DEF KInv, TypeOK, Locks, Clock, Request
  <2> QED BY <1>1, <2>1, <1>4 DEF KInv, TypeOK, Responds, Since
<1>7. Decided'
  BY <1>1 DEF KInv, TypeOK, Locks, Decided, VerifiesRecent, UnknownIsNew
<1> QED BY <1>2, <1>3, <1>5, <1>6, <1>7 DEF KInv

LEMMA TickKInv ==
  ASSUME KInv, Tick
  PROVE  KInv'
<1>1. /\ now \in Nat /\ now' = now + 1 /\ now < MaxTime /\ MaxTime \in Nat
      /\ UNCHANGED <<published, cache, fetchedAt, holder, req, response>>
  BY DEF KInv, TypeOK, Tick, verifier
<1>2. /\ lastIn' = [k \in Keys |-> IF k \in published THEN now + 1 ELSE lastIn[k]]
      /\ lastOut' = [k \in Keys |-> IF k \in published THEN lastOut[k] ELSE now + 1]
      /\ \A k \in Keys : lastIn[k] \in -1..MaxTime /\ lastOut[k] \in -1..MaxTime
  BY DEF KInv, TypeOK, Tick
<1>3. TypeOK' /\ Locks'
  BY <1>1, <1>2 DEF KInv, TypeOK, Locks
<1>4. \A k \in Keys : lastIn'[k] >= lastIn[k] /\ lastOut'[k] >= lastOut[k]
  BY <1>1, <1>2 DEF KInv, Clock
<1>5. Clock'
  <2>1. \A r \in Requests : req[r].at = "fetch" =>
          now < req[r].since + Timeout /\ req[r].since \in Nat
    BY DEF KInv, TypeOK, Tick, Due, Request
  <2> QED BY <1>1, <1>2, <2>1 DEF KInv, TypeOK, Clock
<1>6. ASSUME NEW set, NEW t \in Int, Since(set, t)
      PROVE  \A k \in Keys : IF k \in set THEN lastIn'[k] >= 0 /\ lastIn'[k] >= t
                                          ELSE lastOut'[k] >= t
  BY <1>1, <1>2, <1>4, <1>6 DEF Since
<1>7. Dates'
  <2>1. fetchedAt - Timeout \in Int
    BY DEF KInv, TypeOK
  <2> QED BY <1>1, <2>1, <1>6 DEF KInv, Dates, Since
<1>8. Responds'
  <2>1. \A r \in Requests : req[r].since \in Int
    BY DEF KInv, TypeOK, Request
  <2> QED BY <1>1, <2>1, <1>6 DEF KInv, Responds, Since
<1>9. Decided'
  BY <1>1 DEF KInv, Decided, VerifiesRecent, UnknownIsNew, Tick, Due
<1> QED BY <1>3, <1>5, <1>7, <1>8, <1>9 DEF KInv

LEMMA NextKInv == KInv /\ [Next]_vars => KInv'
<1> SUFFICES ASSUME KInv, [Next]_vars PROVE KInv'
  OBVIOUS
<1>1. CASE UNCHANGED vars
  BY <1>1 DEF vars, idp, verifier, KInv, TypeOK, Locks, Clock, Responds, Dates,
     Decided, VerifiesRecent, UnknownIsNew, Since
<1> QED BY <1>1, ArriveKInv, UseCacheKInv, StartFetchKInv, StoreKInv, DropKInv,
     RespondKInv, IdpKInv, TickKInv DEF Next

LEMMA InductiveKInv == Spec => []KInv
BY InitKInv, NextKInv, PTL DEF Spec

(* A key verifies only if the IdP published it within the age limit and a  *)
(* fetch (ActorJwtVerifier::key).                                          *)
THEOREM VerifiedIsRecent == Spec => []VerifiesRecent
<1>1. KInv => VerifiesRecent
  BY DEF KInv, Decided
<1> QED BY <1>1, InductiveKInv, PTL

(* A key is called unknown only if the IdP did not publish it within the   *)
(* refresh interval and a fetch (ActorJwtVerifier::verify).                *)
THEOREM UnknownWasMissing == Spec => []UnknownIsNew
<1>1. KInv => UnknownIsNew
  BY DEF KInv, Decided
<1> QED BY <1>1, InductiveKInv, PTL

(* Every launch request waits for the cache's lock, so nobody may keep it: *)
(* whoever has it fetches, for no longer than the client's timeout, and no *)
(* refusal, failure or second look leaves it taken (launch.rs:251-273).    *)
THEOREM LockIsBrief ==
  Spec => [](holder # None => /\ req[holder].at = "fetch"
                              /\ now - req[holder].since <= Timeout)
<1>1. KInv => (holder # None => /\ req[holder].at = "fetch"
                                /\ now - req[holder].since <= Timeout)
  <2> SUFFICES ASSUME KInv, holder # None
               PROVE  req[holder].at = "fetch" /\ now - req[holder].since <= Timeout
    OBVIOUS
  <2>1. holder \in Requests /\ now \in Int /\ req[holder] \in Request
    BY DEF KInv, TypeOK
  <2>2. req[holder].at = "fetch"
    BY <2>1 DEF KInv, Locks
  <2>3. now <= req[holder].since + Timeout /\ req[holder].since \in Int
    BY <2>1, <2>2 DEF KInv, Clock, Request
  <2> QED BY <2>1, <2>2, <2>3
<1> QED BY <1>1, InductiveKInv, PTL
=============================================================================
