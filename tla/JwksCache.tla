---- MODULE JwksCache ----
(***************************************************************************)
(* identity: the JWKS cache behind verify_broker_token and readyz, one     *)
(* entry for the broker's URL, and what a token's verification makes of    *)
(* the document get_jwks returns.                                          *)
(*                                                                         *)
(* get_jwks runs on one event loop and yields at two places: when it has   *)
(* to wait for the lock, and while it fetches.  lock is the asyncio.Lock:  *)
(* its head holds it, or has been woken to take it, and the rest wait in   *)
(* order; acquire does not yield when nobody holds or awaits the lock, and *)
(* never overtakes a waiter.                                               *)
(***************************************************************************)
EXTENDS Broker

CONSTANTS Callers,  \* requests being verified, and readiness probes
          Ttl       \* jwks_cache_ttl_seconds: config.py gives it no bound

VARIABLES pc,      \* pc[c]: where its call of get_jwks is
          since,   \* since[c]: when the call was made, None when there is none
          lock,    \* the callers that hold or await the lock
          cache,   \* the _JwksEntry, None before the first fetch that succeeds
          fetch,   \* fetch[c]: the locals of its fetch
          answer   \* the answer just given: to whom, how the call ended, with which document

vars == <<history, now, pc, since, lock, cache, fetch, answer>>

Entry == [keys : Nat, fetched_at : Nat]   \* _JwksEntry; keys is a document's number

ASSUME CacheAssumption ==
    /\ Ttl \in Int
    /\ None \notin Nat
    /\ None \notin Entry

\* entry and now of get_jwks, and the document in the broker's answer (0: none yet).
NoFetch == [entry |-> None, started |-> 0, reply |-> 0]
NoAnswer == [to |-> None, how |-> "none", keys |-> 0]

Init ==
    /\ BrokerInit
    /\ pc = [c \in Callers |-> "idle"]
    /\ since = [c \in Callers |-> None]
    /\ lock = <<>>
    /\ cache = None
    /\ fetch = [c \in Callers |-> NoFetch]
    /\ answer = NoAnswer

----------------------------------------------------------------------------
(* get_jwks *)

Fresh == cache # None /\ now - cache.fetched_at <= Ttl

\* The call ends.
Return(c, how, keys) ==
    /\ pc' = [pc EXCEPT ![c] = "idle"]
    /\ since' = [since EXCEPT ![c] = None]
    /\ answer' = [to |-> c, how |-> how, keys |-> keys]
    /\ fetch' = [fetch EXCEPT ![c] = NoFetch]

\* No call ends.
Silent == answer' = NoAnswer

\* __aexit__ of the lock: the next waiter is woken.
Release == lock' = Tail(lock)

\* The entry is missing or too old, the lock is held: _fetch_jwks is awaited.
StartFetch(c) ==
    /\ pc' = [pc EXCEPT ![c] = "fetching"]
    /\ fetch' = [fetch EXCEPT ![c] = [entry |-> cache, started |-> now, reply |-> 0]]
    /\ Silent
    /\ UNCHANGED <<since, cache>>

\* A request or a probe reaches the service.
Call(c) ==
    /\ pc[c] = "idle"
    /\ pc' = [pc EXCEPT ![c] = "called"]
    /\ since' = [since EXCEPT ![c] = now]
    /\ Silent
    /\ UNCHANGED <<history, now, lock, cache, fetch>>

\* The first test of the cache.
Hit(c) ==
    /\ pc[c] = "called"
    /\ Fresh
    /\ Return(c, "keys", cache.keys)
    /\ UNCHANGED <<history, now, lock, cache>>

\* Nobody has the lock: the second test, in the same step, fails as the first did.
Acquire(c) ==
    /\ pc[c] = "called"
    /\ ~Fresh
    /\ lock = <<>>
    /\ lock' = <<c>>
    /\ StartFetch(c)
    /\ UNCHANGED <<history, now>>

\* Mutant: the fetch does not wait for the lock.
AwaitLockNot(c) ==
    /\ pc[c] = "called"
    /\ ~Fresh
    /\ lock # <<>>
    /\ lock' = Append(lock, c)
    /\ StartFetch(c)
    /\ UNCHANGED <<history, now>>

AwaitLock(c) ==
    /\ pc[c] = "called"
    /\ ~Fresh
    /\ lock # <<>>
    /\ lock' = Append(lock, c)
    /\ pc' = [pc EXCEPT ![c] = "waiting"]
    /\ Silent
    /\ UNCHANGED <<history, now, since, cache, fetch>>

Holds(c) == lock # <<>> /\ Head(lock) = c

\* The waiter has the lock and another request has refreshed the entry meanwhile.
WakeHit(c) ==
    /\ pc[c] = "waiting"
    /\ Holds(c)
    /\ Fresh
    /\ Return(c, "keys", cache.keys)
    /\ Release
    /\ UNCHANGED <<history, now, cache>>

\* Mutant: a waiter fetches without a second look at the cache.
WakeFetchBlind(c) ==
    /\ pc[c] = "waiting"
    /\ Holds(c)
    /\ StartFetch(c)
    /\ UNCHANGED <<history, now, lock>>

\* The waiter has the lock and the entry is still missing or too old.
WakeFetch(c) ==
    /\ pc[c] = "waiting"
    /\ Holds(c)
    /\ ~Fresh
    /\ StartFetch(c)
    /\ UNCHANGED <<history, now, lock>>

\* The broker answers the GET with the document it publishes.
BrokerReplies(c) ==
    /\ pc[c] = "fetching"
    /\ fetch[c].reply = 0
    /\ fetch' = [fetch EXCEPT ![c].reply = Current]
    /\ Silent
    /\ UNCHANGED <<history, now, pc, since, lock, cache>>

\* The log line that follows the assignment takes len(keys): the call ends with the
\* TypeError of an Unsized document, which is in the cache by then.
ReturnFetched(c) ==
    LET v == fetch[c].reply
    IN Return(c, IF history[v].doc = Unsized THEN "error" ELSE "keys", v)

\* Mutant: fetched_at is relative to the end of the fetch.
FetchSucceedsOffset(c) ==
    /\ pc[c] = "fetching"
    /\ fetch[c].reply # 0
    /\ cache' = [keys |-> fetch[c].reply, fetched_at |-> fetch[c].started - now]
    /\ ReturnFetched(c)
    /\ Release
    /\ UNCHANGED <<history, now>>

\* Mutant: the clock is read when the fetch has ended.
FetchSucceedsLate(c) ==
    /\ pc[c] = "fetching"
    /\ fetch[c].reply # 0
    /\ cache' = [keys |-> fetch[c].reply, fetched_at |-> now]
    /\ ReturnFetched(c)
    /\ Release
    /\ UNCHANGED <<history, now>>

\* The answer is read and stored, dated before the request was sent, whatever its
\* "keys" are.
FetchSucceeds(c) ==
    /\ pc[c] = "fetching"
    /\ fetch[c].reply # 0
    /\ cache' = [keys |-> fetch[c].reply, fetched_at |-> fetch[c].started]
    /\ ReturnFetched(c)
    /\ Release
    /\ UNCHANGED <<history, now>>

\* Mutant: the exception leaves the lock taken.
FetchFailsLocked(c) ==
    /\ pc[c] = "fetching"
    /\ IF fetch[c].entry = None
         THEN Return(c, "unreachable", 0)
         ELSE Return(c, "stale", fetch[c].entry.keys)
    /\ UNCHANGED <<history, now, lock, cache>>

\* Mutant: no stale fallback.
FetchFailsHard(c) ==
    /\ pc[c] = "fetching"
    /\ Return(c, "unreachable", 0)
    /\ Release
    /\ UNCHANGED <<history, now, cache>>

\* No answer, an error status, a timeout, a body without "keys": the entry that
\* was found before the fetch is served, or the HTTPException propagates.
FetchFails(c) ==
    /\ pc[c] = "fetching"
    /\ IF fetch[c].entry = None
         THEN Return(c, "unreachable", 0)
         ELSE Return(c, "stale", fetch[c].entry.keys)
    /\ Release
    /\ UNCHANGED <<history, now, cache>>

FetchEnds(c) == FetchSucceeds(c) \/ FetchFails(c)

BrokerMoves ==
    /\ Tick \/ \E d \in Documents : Publish(d)
    /\ Silent
    /\ UNCHANGED <<pc, since, lock, cache, fetch>>

Next ==
    \/ \E c \in Callers :
         \/ Call(c) \/ Hit(c) \/ Acquire(c) \/ AwaitLock(c)
         \/ WakeHit(c) \/ WakeFetch(c)
         \/ BrokerReplies(c) \/ FetchSucceeds(c) \/ FetchFails(c)
    \/ BrokerMoves

\* The event loop runs every ready call, and httpx gives a fetch up (timeout=10.0).
Fairness ==
    \A c \in Callers :
        /\ WF_vars(Hit(c) \/ Acquire(c) \/ AwaitLock(c))
        /\ WF_vars(WakeHit(c) \/ WakeFetch(c))
        /\ WF_vars(FetchEnds(c))

Spec == Init /\ [][Next]_vars

FairSpec == Spec /\ Fairness

----------------------------------------------------------------------------
(* verify_broker_token, from the document to the status: no await.         *)

\* signer is the key that signed; sound says that issuer, audience, expiry and
\* required claims are right.
Tokens == [kid : Kids \cup {None}, signer : Kids, sound : BOOLEAN]

\* Mutant: the first key of the list, whatever the token's kid is.
SelectJwkFirst(doc, kid) == IF doc = {} THEN None ELSE CHOOSE k \in doc : TRUE

\* _select_jwk: the key of that kid; without a kid, the only key there is.
SelectJwk(doc, kid) ==
    IF kid # None
      THEN IF kid \in doc THEN kid ELSE None
      ELSE IF \E k \in doc : doc = {k} THEN CHOOSE k \in doc : TRUE ELSE None

\* The statuses a request with token t may get; 200 stands for its claims.  No
\* except clause names the TypeError or AttributeError a Malformed document raises.
Verdict(doc, t) ==
    IF doc \in Malformed THEN {401, 500}
    ELSE IF t.sound /\ SelectJwk(doc, t.kid) = t.signer THEN {200} ELSE {401}

\* readyz, of whose problems only the JWKS is modelled: it catches HTTPException alone.
ProbeStatus(how) ==
    CASE how \in {"keys", "stale"} -> 200
      [] how = "unreachable" -> 503
      [] how = "error" -> 500

----------------------------------------------------------------------------
(* Properties. *)

\* Every variable holds a value of its kind; the cache entry is what _JwksEntry
\* declares (identity.py:37-40).
TypeOK ==
    /\ BrokerTypeOK
    /\ pc \in [Callers -> {"idle", "called", "waiting", "fetching"}]
    /\ since \in [Callers -> Nat \cup {None}]
    /\ lock \in Seq(Callers)
    /\ cache \in Entry \cup {None}
    /\ fetch \in [Callers -> [entry : Entry \cup {None}, started : Nat, reply : Nat]]
    /\ answer \in [to : Callers \cup {None}, how : {"none", "keys", "stale", "error", "unreachable"},
                   keys : Nat]

\* One fetch at a time, by the holder of the lock; everyone else who found no
\* fresh entry waits behind it, once, and nobody who has been answered does
\* (identity.py:44-46 and 101).
SingleFlight ==
    /\ \A c \in Callers : pc[c] = "fetching" => Holds(c)
    /\ \A i \in DOMAIN lock : pc[lock[i]] \in {"waiting", "fetching"}
    /\ \A c \in Callers : pc[c] \in {"waiting", "fetching"} => \E i \in DOMAIN lock : lock[i] = c
    /\ \A i, j \in DOMAIN lock : i # j => lock[i] # lock[j]

\* However many requests find the entry expired together, refreshes that succeed
\* start more than a TTL apart, and never bring back an older document: a
\* waiter looks again once it has the lock (identity.py:102-106).
RefreshSpacing ==
    [][cache # None /\ cache' # cache =>
          /\ cache'.fetched_at - cache.fetched_at > Ttl
          /\ cache'.keys >= cache.keys]_vars

\* The documents the broker published when c called, or up to a TTL ago, or since.
RecentDocuments(c) ==
    {history[v].doc : v \in {w \in 1..Current : PublishedAt(w, since[c])
                                                \/ PublishedAt(w, now - Ttl)}}

AnsweredWithKeys(c) == pc[c] # "idle" /\ pc'[c] = "idle" /\ answer'.how = "keys"

Lists(doc, k) == doc \notin Malformed /\ k \in doc

\* A key the broker has withdrawn stops being accepted a TTL later, unless the
\* request's own refresh failed: a slow fetch does not prolong it, because the
\* entry is dated before the fetch (identity.py:104-115).
RevocationBounded ==
    [][\A c \in Callers : AnsweredWithKeys(c) =>
          \A t \in Tokens :
              200 \in Verdict(history[answer'.keys].doc, t)
                  => \E doc \in RecentDocuments(c) : Lists(doc, t.signer)]_vars

\* A sound token that names its key is accepted when the broker has listed that
\* key for a TTL, whatever other keys it lists, whoever else is refreshing and
\* however the cache got its entry (identity.py:138-148 and 181-192).
RotationVisible ==
    [][\A c \in Callers : AnsweredWithKeys(c) =>
          \A t \in Tokens :
              /\ t.sound /\ t.kid = t.signer
              /\ \A doc \in RecentDocuments(c) : Lists(doc, t.signer)
              => Verdict(history[answer'.keys].doc, t) = {200}]_vars

Source == INSTANCE KeySource WITH served <- IF cache = None THEN 0 ELSE cache.keys

\* To its callers the cache, its lock and its stale fallback are a key source:
\* documents of bounded age that never go back, the last one when the broker is
\* down, a 502 only before the first, and a TypeError only from a document without
\* a length (get_jwks, identity.py:86-117).
ImplementsKeySource == Source!Spec

\* "Ready only when ... the broker JWKS is fetchable" (app.py:623-624): a probe whose
\* own fetch has failed is not told that the pod is ready.
ReadyMeansFetchable ==
    [][\A c \in Callers : FetchFails(c) => ProbeStatus(answer'.how) # 200]_vars

\* Every request that awaits get_jwks is answered, however many wait for the lock
\* and however many fetches fail (identity.py:101-117).
EveryCallReturns == \A c \in Callers : pc[c] = "called" ~> pc[c] = "idle"
====
