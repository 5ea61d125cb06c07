---- MODULE JwksCacheProofs ----
(***************************************************************************)
(* JwksCache implements KeySource, for any number of callers, any broker   *)
(* and any TTL.                                                            *)
(*                                                                         *)
(* The induction joins the lock with what the cache holds: the entry a     *)
(* fetch found under the lock is still the cache when the fetch ends       *)
(* (FetchOK), because no one else writes it meanwhile (SingleFlight).      *)
(***************************************************************************)
EXTENDS JwksCache, SequenceTheorems, TLAPS

\* The cached document was still published when the entry says it was fetched.
CacheOK ==
    cache # None =>
        /\ cache.keys \in 1..Current
        /\ PublishedAt(cache.keys, cache.fetched_at)
        /\ cache.fetched_at <= now

CallOK(c) ==
    /\ pc[c] = "idle" <=> since[c] = None
    /\ since[c] # None => since[c] <= now

\* The locals of a fetch: the entry is still the cache and has expired; the reply
\* was published after the fetch began and is no older than the entry.
FetchOK(c) ==
    pc[c] = "fetching" =>
        /\ fetch[c].entry = cache
        /\ since[c] <= fetch[c].started
        /\ fetch[c].started <= now
        /\ cache # None => fetch[c].started - cache.fetched_at > Ttl
        /\ fetch[c].reply # 0 =>
              /\ fetch[c].reply \in 1..Current
              /\ PublishedAt(fetch[c].reply, fetch[c].started)
              /\ cache # None => cache.keys <= fetch[c].reply

IInv ==
    /\ TypeOK
    /\ SingleFlight
    /\ CacheOK
    /\ \A c \in Callers : CallOK(c) /\ FetchOK(c)

Queued(c) == pc[c] \in {"waiting", "fetching"}

----------------------------------------------------------------------------
(* The lock. *)

\* A call that neither holds nor awaits the lock joins its end, and fetches at once
\* only when nobody is before it (identity.py:101).
LEMMA EnterLock ==
    ASSUME TypeOK, SingleFlight, NEW c \in Callers, ~Queued(c),
           NEW p \in {"waiting", "fetching"}, p = "fetching" => lock = <<>>,
           lock' = Append(lock, c), pc' = [pc EXCEPT ![c] = p]
    PROVE  lock' \in Seq(Callers) /\ SingleFlight'
<1>1. /\ lock' \in Seq(Callers) /\ Len(lock) \in Nat
      /\ Len(lock') = Len(lock) + 1
      /\ \A i \in 1..Len(lock) : lock'[i] = lock[i]
      /\ lock'[Len(lock) + 1] = c
      /\ DOMAIN lock = 1..Len(lock) /\ DOMAIN lock' = 1..Len(lock')
  <2>1. lock \in Seq(Callers) /\ Len(lock) \in Nat /\ DOMAIN lock = 1..Len(lock)
    BY DEF TypeOK
  <2>2. /\ lock' \in Seq(Callers) /\ Len(lock') = Len(lock) + 1
        /\ \A i \in 1..Len(lock) : lock'[i] = lock[i]
        /\ lock'[Len(lock) + 1] = c
    BY <2>1, AppendProperties
  <2>3. DOMAIN lock' = 1..Len(lock')
    BY <2>2
  <2>4. QED
    BY <2>1, <2>2, <2>3
<1>2. lock' # <<>> /\ Head(lock') = IF lock = <<>> THEN c ELSE Head(lock)
  <2>1. lock' # <<>> /\ Head(lock') = lock'[1]
    BY <1>1
  <2>2. CASE lock = <<>>
    BY <1>1, <2>1, <2>2
  <2>3. CASE lock # <<>>
    <3>1. 1 \in 1..Len(lock) /\ Head(lock) = lock[1]
      BY <1>1, <2>3, EmptySeq DEF TypeOK
    <3>2. QED
      BY <1>1, <2>1, <2>3, <3>1
  <2>4. QED
    BY <2>2, <2>3
<1>3. \A i \in DOMAIN lock : lock[i] # c /\ lock[i] \in Callers
  BY <1>1 DEF SingleFlight, Queued, TypeOK
<1>4. \A d \in Callers : pc'[d] = "fetching" => Holds(d)'
  BY <1>2 DEF SingleFlight, TypeOK, Holds
<1>5. \A i \in DOMAIN lock' : pc'[lock'[i]] \in {"waiting", "fetching"}
  BY <1>1, <1>3 DEF SingleFlight, TypeOK
<1>6. ASSUME NEW d \in Callers, pc'[d] \in {"waiting", "fetching"}
      PROVE  \E i \in DOMAIN lock' : lock'[i] = d
  <2>1. CASE d = c
    <3>1. Len(lock) + 1 \in DOMAIN lock'
      BY <1>1
    <3>2. QED
      BY <1>1, <2>1, <3>1
  <2>2. CASE d # c
    <3>1. PICK k \in DOMAIN lock : lock[k] = d
      BY <1>6, <2>2 DEF SingleFlight, TypeOK
    <3>2. k \in DOMAIN lock' /\ lock'[k] = d
      BY <1>1, <3>1
    <3>3. QED
      BY <3>2
  <2>3. QED
    BY <2>1, <2>2
<1>7. \A i, j \in DOMAIN lock' : i # j => lock'[i] # lock'[j]
  BY <1>1, <1>3 DEF SingleFlight
<1>8. QED
  BY <1>1, <1>4, <1>5, <1>6, <1>7 DEF SingleFlight

\* The holder leaves the lock to the next in order, and is answered.
LEMMA LeaveLock ==
    ASSUME TypeOK, SingleFlight, NEW c \in Callers, Queued(c), Holds(c),
           lock' = Tail(lock), pc' = [pc EXCEPT ![c] = "idle"]
    PROVE  lock' \in Seq(Callers) /\ SingleFlight'
<1>1. /\ lock' \in Seq(Callers)
      /\ Len(lock) \in Nat \ {0} /\ Len(lock') = Len(lock) - 1
      /\ \A i \in 1..Len(lock') : lock'[i] = lock[i + 1]
      /\ DOMAIN lock = 1..Len(lock) /\ DOMAIN lock' = 1..Len(lock')
      /\ lock[1] = c
  BY HeadTailProperties DEF TypeOK, Holds
<1>2. \A i \in DOMAIN lock' : i + 1 \in DOMAIN lock /\ i + 1 # 1
  BY <1>1
<1>3. \A d \in Callers : pc'[d] # "fetching"
  BY DEF SingleFlight, Holds, TypeOK
<1>4. \A i \in DOMAIN lock' : pc'[lock'[i]] \in {"waiting", "fetching"}
  <2>1. \A i \in DOMAIN lock : lock[i] \in Callers
    BY <1>1 DEF TypeOK
  <2>2. \A i \in DOMAIN lock : i # 1 => lock[i] # lock[1]
    <3>1. 1 \in DOMAIN lock
      BY <1>1
    <3>2. QED
      BY <3>1 DEF SingleFlight
  <2>3. \A i \in DOMAIN lock : i # 1 => pc'[lock[i]] = pc[lock[i]]
    BY <1>1, <2>1, <2>2 DEF TypeOK
  <2>4. QED
    BY <1>1, <1>2, <2>3 DEF SingleFlight
<1>5. ASSUME NEW d \in Callers, pc'[d] \in {"waiting", "fetching"}
      PROVE  \E i \in DOMAIN lock' : lock'[i] = d
  <2>1. d # c /\ pc[d] \in {"waiting", "fetching"}
    BY <1>5 DEF TypeOK
  <2>2. PICK k \in DOMAIN lock : lock[k] = d
    BY <2>1 DEF SingleFlight
  <2>3. k - 1 \in DOMAIN lock' /\ (k - 1) + 1 = k
    BY <1>1, <2>1, <2>2
  <2>4. QED
    BY <1>1, <2>2, <2>3
<1>6. \A i, j \in DOMAIN lock' : i # j => lock'[i] # lock'[j]
  <2>1. \A i, j \in DOMAIN lock' : i # j => i + 1 # j + 1
    BY <1>1
  <2>2. QED
    BY <1>1, <1>2, <2>1 DEF SingleFlight
<1>7. QED
  BY <1>1, <1>3, <1>4, <1>5, <1>6 DEF SingleFlight

\* The lock does not move while a call starts, hits the cache, or, holding the
\* lock, goes on to fetch.
LEMMA SameLock ==
    ASSUME TypeOK, SingleFlight, NEW c \in Callers, lock' = lock,
           NEW p \in {"idle", "called", "waiting", "fetching"},
           pc' = [pc EXCEPT ![c] = p],
           Queued(c) <=> p \in {"waiting", "fetching"},
           p = "fetching" => Holds(c)
    PROVE  SingleFlight'
<1>1. \A i \in DOMAIN lock : lock[i] \in Callers
  BY DEF TypeOK
<1>2. QED
  BY <1>1 DEF SingleFlight, TypeOK, Holds, Queued

----------------------------------------------------------------------------
(* The steps. *)

\* What a publication and the clock leave true of a document and of a time.
LEMMA BrokerStep ==
    ASSUME TypeOK, Tick \/ \E d \in Documents : Publish(d)
    PROVE  /\ BrokerTypeOK'
           /\ now <= now' /\ Current <= Current'
           /\ \A v \in 1..Current, t \in Int :
                 t <= now /\ PublishedAt(v, t) => PublishedAt(v, t)'
<1>1. CASE Tick
  BY <1>1 DEF Tick, TypeOK, BrokerTypeOK, PublishedAt, Current
<1>2. ASSUME NEW d \in Documents, Publish(d)
      PROVE  /\ BrokerTypeOK'
             /\ now <= now' /\ Current <= Current'
             /\ \A v \in 1..Current, t \in Int :
                   t <= now /\ PublishedAt(v, t) => PublishedAt(v, t)'
  <2>1. [doc |-> d, since |-> now] \in Publication
    BY DEF Publication, TypeOK, BrokerTypeOK
  <2>2. /\ history' \in Seq(Publication)
        /\ Len(history') = Len(history) + 1 /\ Len(history) \in Nat
        /\ \A i \in 1..Len(history) : history'[i] = history[i]
        /\ history'[Len(history) + 1] = [doc |-> d, since |-> now]
    <3>1. history \in Seq(Publication) /\ Len(history) \in Nat
      BY DEF TypeOK, BrokerTypeOK
    <3>2. history' = Append(history, [doc |-> d, since |-> now])
      BY <1>2 DEF Publish
    <3>3. QED
      BY <2>1, <3>1, <3>2, AppendProperties
  <2>3. ASSUME NEW v \in 1..Current, NEW t \in Int, t <= now, PublishedAt(v, t)
        PROVE  PublishedAt(v, t)'
    <3>1. CASE v = Len(history)
      BY <2>2, <2>3, <3>1 DEF PublishedAt, Current
    <3>2. CASE v < Len(history)
      <4>1. v + 1 \in 1..Len(history) /\ history'[v + 1] = history[v + 1]
        BY <2>2, <2>3, <3>2 DEF Current
      <4>2. QED
        BY <2>3, <3>2, <4>1 DEF PublishedAt, Current
    <3>3. QED
      BY <2>2, <2>3, <3>1, <3>2 DEF Current
  <2>4. now' = now
    BY <1>2 DEF Publish
  <2>5. QED
    BY <2>2, <2>3, <2>4 DEF BrokerTypeOK, Current, TypeOK
<1>3. QED
  BY <1>1, <1>2

\* How a call that returns leaves the types and its own part of the invariant.
LEMMA ReturnInv ==
    ASSUME TypeOK, NEW c \in Callers, NEW keys \in Nat,
           NEW how \in {"keys", "stale", "error", "unreachable"}, Return(c, how, keys)
    PROVE  /\ pc' \in [Callers -> {"idle", "called", "waiting", "fetching"}]
           /\ since' \in [Callers -> Nat \cup {None}]
           /\ fetch' \in [Callers -> [entry : Entry \cup {None}, started : Nat, reply : Nat]]
           /\ answer' \in [to : Callers \cup {None},
                           how : {"none", "keys", "stale", "error", "unreachable"}, keys : Nat]
           /\ pc'[c] = "idle" /\ since'[c] = None
           /\ \A d \in Callers \ {c} :
                 pc'[d] = pc[d] /\ since'[d] = since[d] /\ fetch'[d] = fetch[d]
BY DEF Return, TypeOK, NoFetch

\* The steps of one call that answer nobody and leave the cache as it is.
LEMMA CallInv ==
    ASSUME IInv, NEW c \in Callers, Call(c)
    PROVE  IInv'
<1>1. TypeOK /\ SingleFlight /\ CacheOK /\ \A d \in Callers : CallOK(d) /\ FetchOK(d)
  BY DEF IInv
<1>2. /\ pc[c] = "idle" /\ pc' = [pc EXCEPT ![c] = "called"]
      /\ since' = [since EXCEPT ![c] = now]
      /\ answer' = NoAnswer
      /\ UNCHANGED <<history, now, lock, cache, fetch>>
  BY DEF Call, Silent
<1>3. TypeOK'
  BY <1>1, <1>2 DEF TypeOK, BrokerTypeOK, NoAnswer
<1>4. SingleFlight'
  BY <1>1, <1>2, SameLock DEF Queued
<1>5. CacheOK'
  BY <1>1, <1>2 DEF CacheOK, PublishedAt, Current
<1>6. \A d \in Callers : CallOK(d)'
  BY <1>1, <1>2, CacheAssumption DEF CallOK, TypeOK, BrokerTypeOK
<1>7. \A d \in Callers : FetchOK(d)'
  BY <1>1, <1>2 DEF FetchOK, TypeOK, PublishedAt, Current
<1>8. QED
  BY <1>3, <1>4, <1>5, <1>6, <1>7 DEF IInv

\* A caller that waits has no fetch of its own yet.
LEMMA AwaitLockInv ==
    ASSUME IInv, NEW c \in Callers, AwaitLock(c)
    PROVE  IInv'
<1>1. TypeOK /\ SingleFlight /\ CacheOK /\ \A d \in Callers : CallOK(d) /\ FetchOK(d)
  BY DEF IInv
<1>2. /\ pc[c] = "called" /\ pc' = [pc EXCEPT ![c] = "waiting"]
      /\ lock' = Append(lock, c) /\ answer' = NoAnswer
      /\ UNCHANGED <<history, now, since, cache, fetch>>
  BY DEF AwaitLock, Silent
<1>3. lock' \in Seq(Callers) /\ SingleFlight'
  BY <1>1, <1>2, EnterLock DEF Queued
<1>4. TypeOK'
  BY <1>1, <1>2, <1>3 DEF TypeOK, BrokerTypeOK, NoAnswer
<1>5. CacheOK'
  BY <1>1, <1>2 DEF CacheOK, PublishedAt, Current
<1>6. \A d \in Callers : CallOK(d)' /\ FetchOK(d)'
  BY <1>1, <1>2 DEF CallOK, FetchOK, TypeOK, PublishedAt, Current
<1>7. QED
  BY <1>3, <1>4, <1>5, <1>6 DEF IInv

\* Whoever starts a fetch has seen, in the same step, that the entry has expired.
LEMMA StartFetchInv ==
    ASSUME IInv, NEW c \in Callers, Acquire(c) \/ WakeFetch(c)
    PROVE  IInv'
<1>1. TypeOK /\ SingleFlight /\ CacheOK /\ \A d \in Callers : CallOK(d) /\ FetchOK(d)
  BY DEF IInv
<1>2. /\ pc[c] \in {"called", "waiting"} /\ ~Fresh
      /\ pc' = [pc EXCEPT ![c] = "fetching"]
      /\ fetch' = [fetch EXCEPT ![c] = [entry |-> cache, started |-> now, reply |-> 0]]
      /\ answer' = NoAnswer
      /\ UNCHANGED <<history, now, since, cache>>
  BY DEF Acquire, WakeFetch, StartFetch, Silent
<1>3. lock' \in Seq(Callers) /\ SingleFlight'
  <2>1. CASE Acquire(c)
    <3>1. pc[c] = "called" /\ lock = <<>> /\ lock' = Append(lock, c)
      BY <2>1 DEF Acquire
    <3>2. QED
      BY <1>1, <1>2, <3>1, EnterLock DEF Queued
  <2>2. CASE WakeFetch(c)
    <3>1. pc[c] = "waiting" /\ Holds(c) /\ lock' = lock
      BY <2>2 DEF WakeFetch
    <3>2. lock' \in Seq(Callers)
      BY <1>1, <3>1 DEF TypeOK
    <3>3. QED
      BY <1>1, <1>2, <3>1, <3>2, SameLock DEF Queued
  <2>3. QED
    BY <2>1, <2>2
<1>4. TypeOK'
  BY <1>1, <1>2, <1>3 DEF TypeOK, BrokerTypeOK, NoAnswer
<1>5. CacheOK'
  BY <1>1, <1>2 DEF CacheOK, PublishedAt, Current
<1>6. \A d \in Callers : CallOK(d)'
  BY <1>1, <1>2 DEF CallOK, TypeOK
<1>7. FetchOK(c)'
  <2>1. since[c] <= now
    BY <1>1, <1>2 DEF CallOK
  <2>2. cache # None => now - cache.fetched_at > Ttl
    BY <1>1, <1>2, CacheAssumption DEF Fresh, TypeOK, BrokerTypeOK, Entry
  <2>3. QED
    BY <1>1, <1>2, <2>1, <2>2 DEF FetchOK, TypeOK, BrokerTypeOK
<1>8. \A d \in Callers \ {c} : FetchOK(d)'
  BY <1>1, <1>2 DEF FetchOK, TypeOK, PublishedAt, Current
<1>9. QED
  BY <1>3, <1>4, <1>5, <1>6, <1>7, <1>8 DEF IInv

\* The reply is the document of the moment: published after the fetch began, and
\* not before any document the cache holds.
LEMMA BrokerRepliesInv ==
    ASSUME IInv, NEW c \in Callers, BrokerReplies(c)
    PROVE  IInv'
<1>1. TypeOK /\ SingleFlight /\ CacheOK /\ \A d \in Callers : CallOK(d) /\ FetchOK(d)
  BY DEF IInv
<1>2. /\ pc[c] = "fetching"
      /\ fetch' = [fetch EXCEPT ![c].reply = Current]
      /\ answer' = NoAnswer
      /\ UNCHANGED <<history, now, pc, since, lock, cache>>
  BY DEF BrokerReplies, Silent
<1>3. Current \in Nat \ {0} /\ PublishedAt(Current, fetch[c].started)
  BY <1>1 DEF TypeOK, BrokerTypeOK, Current, PublishedAt
<1>4. TypeOK'
  BY <1>1, <1>2, <1>3 DEF TypeOK, BrokerTypeOK, NoAnswer
<1>5. SingleFlight' /\ CacheOK'
  BY <1>1, <1>2 DEF SingleFlight, Holds, CacheOK, PublishedAt, Current
<1>6. \A d \in Callers : CallOK(d)'
  BY <1>1, <1>2 DEF CallOK
<1>7. \A d \in Callers \ {c} : FetchOK(d)'
  BY <1>1, <1>2 DEF FetchOK, TypeOK, PublishedAt, Current
<1>8. FetchOK(c)'
  <2>1. cache # None => cache.keys <= Current
    BY <1>1, <1>3 DEF CacheOK
  <2>2. /\ fetch'[c].entry = fetch[c].entry /\ fetch'[c].started = fetch[c].started
        /\ fetch'[c].reply = Current
    BY <1>1, <1>2 DEF TypeOK
  <2>3. Current' = Current /\ PublishedAt(Current, fetch[c].started)'
    BY <1>2, <1>3, <2>2 DEF Current, PublishedAt
  <2>4. QED
    BY <1>1, <1>2, <1>3, <2>1, <2>2, <2>3 DEF FetchOK
<1>9. QED
  BY <1>4, <1>5, <1>6, <1>7, <1>8 DEF IInv

\* A cache hit answers with the entry and changes nothing but the call.
LEMMA HitInv ==
    ASSUME IInv, NEW c \in Callers, Hit(c) \/ WakeHit(c)
    PROVE  IInv'
<1>1. TypeOK /\ SingleFlight /\ CacheOK /\ \A d \in Callers : CallOK(d) /\ FetchOK(d)
  BY DEF IInv
<1>2. /\ pc[c] \in {"called", "waiting"} /\ Fresh
      /\ Return(c, "keys", cache.keys)
      /\ UNCHANGED <<history, now, cache>>
  BY DEF Hit, WakeHit
<1>3. pc' = [pc EXCEPT ![c] = "idle"]
  BY <1>2 DEF Return
<1>4. lock' \in Seq(Callers) /\ SingleFlight'
  <2>1. CASE Hit(c)
    <3>1. pc[c] = "called" /\ lock' = lock
      BY <2>1 DEF Hit
    <3>2. lock' \in Seq(Callers)
      BY <1>1, <3>1 DEF TypeOK
    <3>3. QED
      BY <1>1, <1>3, <3>1, <3>2, SameLock DEF Queued
  <2>2. CASE WakeHit(c)
    <3>1. pc[c] = "waiting" /\ Holds(c) /\ lock' = Tail(lock)
      BY <2>2 DEF WakeHit, Release
    <3>2. QED
      BY <1>1, <1>3, <3>1, LeaveLock DEF Queued
  <2>3. QED
    BY <2>1, <2>2
<1>5. cache.keys \in Nat
  BY <1>1, <1>2 DEF Fresh, TypeOK, Entry
<1>6. TypeOK'
  BY <1>1, <1>2, <1>4, <1>5, ReturnInv DEF TypeOK, BrokerTypeOK
<1>7. CacheOK'
  BY <1>1, <1>2 DEF CacheOK, PublishedAt, Current
<1>8. \A d \in Callers : CallOK(d)' /\ FetchOK(d)'
  <2>1. CallOK(c)' /\ FetchOK(c)'
    BY <1>1, <1>2, <1>5, ReturnInv DEF CallOK, FetchOK
  <2>2. ASSUME NEW d \in Callers \ {c}
        PROVE  CallOK(d)' /\ FetchOK(d)'
    <3>1. pc'[d] = pc[d] /\ since'[d] = since[d] /\ fetch'[d] = fetch[d]
      BY <1>1, <1>2, <1>5, ReturnInv
    <3>2. QED
      BY <1>1, <1>2, <3>1 DEF CallOK, FetchOK, PublishedAt, Current
  <2>3. QED
    BY <2>1, <2>2
<1>9. QED
  BY <1>4, <1>6, <1>7, <1>8 DEF IInv

\* The holder stores its reply, or serves the entry it found: no other fetch can be
\* under way, so nobody's locals become stale (identity.py:108-117).
LEMMA FetchEndsInv ==
    ASSUME IInv, NEW c \in Callers, FetchEnds(c)
    PROVE  IInv'
<1>1. TypeOK /\ SingleFlight /\ CacheOK /\ \A d \in Callers : CallOK(d) /\ FetchOK(d)
  BY DEF IInv
<1>2. /\ pc[c] = "fetching" /\ lock' = Tail(lock)
      /\ UNCHANGED <<history, now>>
  BY DEF FetchEnds, FetchSucceeds, FetchFails, Release
<1>3. Holds(c) /\ \A d \in Callers : pc[d] = "fetching" => d = c
  BY <1>1, <1>2 DEF SingleFlight, Holds
<1>4. PICK how \in {"keys", "stale", "error", "unreachable"}, keys \in Nat : Return(c, how, keys)
  <2>1. CASE FetchSucceeds(c)
    <3>1. fetch[c].reply \in Nat
      BY <1>1 DEF TypeOK
    <3>2. QED
      BY <2>1, <3>1 DEF FetchSucceeds, ReturnFetched
  <2>2. CASE FetchFails(c)
    <3>1. fetch[c].entry # None => fetch[c].entry.keys \in Nat
      BY <1>1 DEF TypeOK, Entry
    <3>2. QED
      BY <2>2, <3>1 DEF FetchFails
  <2>3. QED
    BY <2>1, <2>2 DEF FetchEnds
<1>5. lock' \in Seq(Callers) /\ SingleFlight'
  <2>1. pc' = [pc EXCEPT ![c] = "idle"]
    BY <1>4 DEF Return
  <2>2. QED
    BY <1>1, <1>2, <1>3, <2>1, LeaveLock DEF Queued
<1>6. cache' \in Entry \cup {None} /\ CacheOK'
  <2>1. CASE FetchSucceeds(c)
    <3>1. /\ cache' = [keys |-> fetch[c].reply, fetched_at |-> fetch[c].started]
          /\ fetch[c].reply # 0
      BY <2>1 DEF FetchSucceeds
    <3>2. fetch[c].reply \in Nat /\ fetch[c].started \in Nat
      BY <1>1 DEF TypeOK
    <3>3. /\ fetch[c].reply \in 1..Current /\ fetch[c].started <= now
          /\ PublishedAt(fetch[c].reply, fetch[c].started)
      BY <1>1, <1>2, <3>1 DEF FetchOK
    <3>4. QED
      BY <1>2, <3>1, <3>2, <3>3 DEF Entry, CacheOK, PublishedAt, Current
  <2>2. CASE FetchFails(c)
    <3>1. cache' = cache
      BY <2>2 DEF FetchFails
    <3>2. QED
      BY <1>1, <1>2, <3>1 DEF TypeOK, CacheOK, PublishedAt, Current
  <2>3. QED
    BY <2>1, <2>2 DEF FetchEnds
<1>7. TypeOK'
  <2>1. BrokerTypeOK'
    BY <1>1, <1>2 DEF TypeOK, BrokerTypeOK
  <2>2. /\ pc' \in [Callers -> {"idle", "called", "waiting", "fetching"}]
        /\ since' \in [Callers -> Nat \cup {None}]
        /\ fetch' \in [Callers -> [entry : Entry \cup {None}, started : Nat, reply : Nat]]
        /\ answer' \in [to : Callers \cup {None},
                        how : {"none", "keys", "stale", "error", "unreachable"}, keys : Nat]
    BY <1>1, <1>4, ReturnInv
  <2>3. QED
    BY <1>5, <1>6, <2>1, <2>2 DEF TypeOK
<1>8. \A d \in Callers : CallOK(d)' /\ FetchOK(d)'
  <2>1. CallOK(c)' /\ FetchOK(c)'
    BY <1>1, <1>4, ReturnInv DEF CallOK, FetchOK
  <2>2. ASSUME NEW d \in Callers \ {c}
        PROVE  CallOK(d)' /\ FetchOK(d)'
    <3>1. pc'[d] = pc[d] /\ since'[d] = since[d] /\ pc[d] # "fetching"
      BY <1>1, <1>3, <1>4, ReturnInv
    <3>2. QED
      BY <1>1, <1>2, <3>1 DEF CallOK, FetchOK
  <2>3. QED
    BY <2>1, <2>2
<1>9. QED
  BY <1>5, <1>6, <1>7, <1>8 DEF IInv

\* A rotation, or time passing, makes no document the service holds less recent
\* than its timestamp says.
LEMMA BrokerMovesInv ==
    ASSUME IInv, BrokerMoves
    PROVE  IInv'
<1>1. TypeOK /\ SingleFlight /\ CacheOK /\ \A d \in Callers : CallOK(d) /\ FetchOK(d)
  BY DEF IInv
<1>2. /\ Tick \/ \E d \in Documents : Publish(d)
      /\ answer' = NoAnswer
      /\ UNCHANGED <<pc, since, lock, cache, fetch>>
  BY DEF BrokerMoves, Silent
<1>3. /\ BrokerTypeOK' /\ now <= now' /\ Current <= Current'
      /\ \A v \in 1..Current, t \in Int : t <= now /\ PublishedAt(v, t)
             => (v < Current' => history'[v + 1].since >= t)
      /\ now \in Nat /\ now' \in Nat /\ Current \in Nat /\ Current' \in Nat
  <2>1. /\ BrokerTypeOK' /\ now <= now' /\ Current <= Current'
        /\ \A v \in 1..Current, t \in Int : t <= now /\ PublishedAt(v, t) => PublishedAt(v, t)'
    BY <1>1, <1>2, BrokerStep
  <2>2. QED
    BY <1>1, <2>1 DEF TypeOK, BrokerTypeOK, Current, PublishedAt
<1>4. TypeOK' /\ SingleFlight'
  BY <1>1, <1>2, <1>3 DEF TypeOK, NoAnswer, SingleFlight, Holds
<1>5. CacheOK'
  <2> SUFFICES ASSUME cache # None
               PROVE  /\ cache.keys \in 1..Current'
                      /\ cache.keys < Current'
                           => history'[cache.keys + 1].since >= cache.fetched_at
                      /\ cache.fetched_at <= now'
    BY <1>2 DEF CacheOK, PublishedAt
  <2>1. cache.fetched_at \in Int /\ cache.keys \in Int
    BY <1>1 DEF TypeOK, Entry
  <2>2. QED
    BY <1>1, <1>3, <2>1 DEF CacheOK
<1>6. ASSUME NEW d \in Callers
      PROVE  CallOK(d)' /\ FetchOK(d)'
  <2>1. CallOK(d)'
    BY <1>1, <1>2, <1>3 DEF CallOK, TypeOK
  <2>2. fetch[d].started \in Int /\ fetch[d].reply \in Int
    BY <1>1 DEF TypeOK
  <2>3. FetchOK(d)'
    <3> SUFFICES ASSUME pc[d] = "fetching"
                 PROVE  /\ fetch[d].entry = cache
                        /\ since[d] <= fetch[d].started
                        /\ fetch[d].started <= now'
                        /\ cache # None => fetch[d].started - cache.fetched_at > Ttl
                        /\ fetch[d].reply # 0 =>
                              /\ fetch[d].reply \in 1..Current'
                              /\ fetch[d].reply < Current'
                                   => history'[fetch[d].reply + 1].since >= fetch[d].started
                              /\ cache # None => cache.keys <= fetch[d].reply
      BY <1>2 DEF FetchOK, PublishedAt
    <3>1. QED
      BY <1>1, <1>3, <2>2 DEF FetchOK
  <2>4. QED
    BY <2>1, <2>3
<1>7. QED
  BY <1>4, <1>5, <1>6 DEF IInv

\* A fresh process: nothing cached, nobody waiting.
LEMMA InitInv == Init => IInv
<1> SUFFICES ASSUME Init
             PROVE  IInv
  OBVIOUS
<1>1. TypeOK
  <2>1. PICK d \in Documents : history = <<[doc |-> d, since |-> 0]>>
    BY DEF Init, BrokerInit
  <2>2. [doc |-> d, since |-> 0] \in Publication
    BY DEF Publication
  <2>3. BrokerTypeOK
    BY <2>1, <2>2 DEF Init, BrokerInit, BrokerTypeOK
  <2>4. NoFetch \in [entry : Entry \cup {None}, started : Nat, reply : Nat]
    BY DEF NoFetch
  <2>5. QED
    BY <2>3, <2>4 DEF Init, TypeOK, NoAnswer
<1>2. QED
  BY <1>1 DEF Init, IInv, SingleFlight, CacheOK, CallOK, FetchOK

----------------------------------------------------------------------------
(* Theorems. *)

\* The inductive invariant: types, the lock, the age of the cached document and of
\* every reply under way (get_jwks, identity.py:86-117).
THEOREM Invariant == Spec => []IInv
<1>1. IInv /\ [Next]_vars => IInv'
  <2> SUFFICES ASSUME IInv, [Next]_vars
               PROVE  IInv'
    OBVIOUS
  <2>1. CASE BrokerMoves
    BY <2>1, BrokerMovesInv
  <2>2. ASSUME NEW c \in Callers,
               \/ Call(c) \/ Hit(c) \/ Acquire(c) \/ AwaitLock(c) \/ WakeHit(c)
               \/ WakeFetch(c) \/ BrokerReplies(c) \/ FetchSucceeds(c) \/ FetchFails(c)
        PROVE  IInv'
    BY <2>2, CallInv, HitInv, AwaitLockInv, StartFetchInv, BrokerRepliesInv, FetchEndsInv
       DEF FetchEnds
  <2>3. CASE UNCHANGED vars
    BY <2>3 DEF vars, IInv, TypeOK, BrokerTypeOK, SingleFlight, Holds, CacheOK, CallOK,
                FetchOK, PublishedAt, Current
  <2>4. QED
    BY <2>1, <2>2, <2>3 DEF Next
<1>2. QED
  BY <1>1, InitInv, PTL DEF Spec

\* Every variable of the cache and of the calls keeps its type (identity.py:37-47).
THEOREM TypeCorrect == Spec => []TypeOK
<1>1. IInv => TypeOK
  BY DEF IInv
<1>2. QED
  BY <1>1, Invariant, PTL

\* For any number of callers there is one fetch at a time and everyone else waits
\* in the lock's order (identity.py:44-46 and 101).
THEOREM FetchesAreSingle == Spec => []SingleFlight
<1>1. IInv => SingleFlight
  BY DEF IInv
<1>2. QED
  BY <1>1, Invariant, PTL

----------------------------------------------------------------------------
(* Which documents the answers come from. *)

\* A document the broker had not withdrawn by some time, it had not withdrawn by
\* any earlier one.
LEMMA PublishedEarlier ==
    ASSUME TypeOK, NEW v \in 1..Current, NEW t \in Int, NEW u \in Int,
           u <= t, PublishedAt(v, t)
    PROVE  PublishedAt(v, u)
<1>1. CASE v < Current
  <2>1. v + 1 \in 1..Len(history) /\ history \in Seq(Publication)
    BY <1>1 DEF Current, TypeOK, BrokerTypeOK
  <2>2. history[v + 1] \in Publication
    BY <2>1
  <2>3. history[v + 1].since \in Int
    BY <2>2 DEF Publication
  <2>4. QED
    BY <1>1, <2>3 DEF PublishedAt
<1>2. QED
  BY <1>1 DEF PublishedAt

\* A call that finds a fresh entry is answered with a document at most a TTL old.
LEMMA HitRecent ==
    ASSUME IInv, Fresh
    PROVE  cache.keys \in 1..Current /\ PublishedAt(cache.keys, now - Ttl)
<1>1. TypeOK /\ CacheOK /\ cache # None
  BY DEF IInv, Fresh
<1>2. cache.fetched_at \in Nat /\ now \in Nat /\ Ttl \in Int
  BY <1>1, CacheAssumption DEF TypeOK, BrokerTypeOK, Entry
<1>3. now - Ttl <= cache.fetched_at /\ now - Ttl \in Int
  BY <1>2 DEF Fresh
<1>4. cache.keys \in 1..Current /\ PublishedAt(cache.keys, cache.fetched_at)
  BY <1>1 DEF CacheOK
<1>5. QED
  BY <1>1, <1>2, <1>3, <1>4, PublishedEarlier

\* A call that fetches is answered with a document published since it was made.
LEMMA FetchRecent ==
    ASSUME IInv, NEW c \in Callers, pc[c] = "fetching", fetch[c].reply # 0
    PROVE  fetch[c].reply \in 1..Current /\ PublishedAt(fetch[c].reply, since[c])
<1>1. TypeOK /\ CallOK(c) /\ FetchOK(c)
  BY DEF IInv
<1>2. since[c] \in Nat /\ fetch[c].started \in Nat
  BY <1>1 DEF CallOK, TypeOK
<1>3. /\ since[c] <= fetch[c].started /\ fetch[c].reply \in 1..Current
      /\ PublishedAt(fetch[c].reply, fetch[c].started)
  BY <1>1 DEF FetchOK
<1>4. QED
  BY <1>1, <1>2, <1>3, PublishedEarlier

RecentVersion(c, v) == PublishedAt(v, since[c]) \/ PublishedAt(v, now - Ttl)

\* Whatever the interleaving, keys that no failure excuses come from a document
\* published when the call was made, or up to a TTL ago, or since.
LEMMA AnswerRecent ==
    ASSUME IInv, [Next]_vars, NEW c \in Callers, AnsweredWithKeys(c)
    PROVE  answer'.keys \in 1..Current /\ RecentVersion(c, answer'.keys)
<1>1. TypeOK /\ pc[c] # "idle" /\ pc'[c] = "idle" /\ answer'.how = "keys"
  BY DEF IInv, AnsweredWithKeys
<1>2. PICK d \in Callers : Hit(d) \/ WakeHit(d) \/ FetchSucceeds(d)
  <2>1. answer' # NoAnswer
    BY <1>1 DEF NoAnswer
  <2>2. ~BrokerMoves /\ ~UNCHANGED vars
    BY <1>1, <2>1 DEF BrokerMoves, Silent, vars
  <2>3. ASSUME NEW d \in Callers, FetchFails(d)
        PROVE  FALSE
    BY <1>1, <2>3 DEF FetchFails, Return
  <2>4. \A d \in Callers :
           ~Call(d) /\ ~Acquire(d) /\ ~AwaitLock(d) /\ ~WakeFetch(d) /\ ~BrokerReplies(d)
    BY <2>1 DEF Call, Acquire, AwaitLock, WakeFetch, BrokerReplies, StartFetch, Silent
  <2>5. QED
    BY <2>2, <2>3, <2>4 DEF Next
<1>3. d = c
  <2>1. pc' = [pc EXCEPT ![d] = "idle"]
    BY <1>2 DEF Hit, WakeHit, FetchSucceeds, ReturnFetched, Return
  <2>2. QED
    BY <1>1, <2>1 DEF TypeOK
<1>4. CASE Hit(d) \/ WakeHit(d)
  <2>1. Fresh /\ answer'.keys = cache.keys
    BY <1>4 DEF Hit, WakeHit, Return
  <2>2. QED
    BY <2>1, HitRecent DEF RecentVersion
<1>5. CASE FetchSucceeds(d)
  <2>1. /\ pc[c] = "fetching" /\ fetch[c].reply # 0
        /\ answer'.keys = fetch[c].reply
    BY <1>3, <1>5 DEF FetchSucceeds, ReturnFetched, Return
  <2>2. QED
    BY <2>1, FetchRecent DEF RecentVersion
<1>6. QED
  BY <1>2, <1>4, <1>5

\* A token is accepted only with a key the document lists (identity.py:142-148).
LEMMA AcceptedIsListed ==
    ASSUME NEW doc, NEW t \in Tokens, 200 \in Verdict(doc, t)
    PROVE  Lists(doc, t.signer)
<1>1. doc \notin Malformed /\ SelectJwk(doc, t.kid) = t.signer
  BY DEF Verdict
<1>2. t.signer \in Kids /\ t.signer # None
  BY BrokerAssumption DEF Tokens
<1>3. CASE t.kid # None
  BY <1>1, <1>2, <1>3 DEF SelectJwk, Lists
<1>4. CASE t.kid = None
  <2>1. \E k \in doc : doc = {k}
    BY <1>1, <1>2, <1>4 DEF SelectJwk
  <2>2. (CHOOSE k \in doc : TRUE) \in doc
    BY <2>1
  <2>3. QED
    BY <1>1, <1>4, <2>1, <2>2 DEF SelectJwk, Lists
<1>5. QED
  BY <1>3, <1>4

----------------------------------------------------------------------------

\* For any number of callers and any TTL, a withdrawn key is refused a TTL later
\* unless a refresh fails (identity.py:98-115).
THEOREM RevocationIsBounded == Spec => RevocationBounded
<1> DEFINE Bounded ==
        \A c \in Callers : AnsweredWithKeys(c) =>
          \A t \in Tokens :
              200 \in Verdict(history[answer'.keys].doc, t)
                  => \E doc \in RecentDocuments(c) : Lists(doc, t.signer)
<1>1. IInv /\ [Next]_vars => Bounded
  <2> SUFFICES ASSUME IInv, [Next]_vars, NEW c \in Callers, AnsweredWithKeys(c),
                      NEW t \in Tokens, 200 \in Verdict(history[answer'.keys].doc, t)
               PROVE  \E doc \in RecentDocuments(c) : Lists(doc, t.signer)
    OBVIOUS
  <2>1. history[answer'.keys].doc \in RecentDocuments(c)
    BY AnswerRecent DEF RecentDocuments, RecentVersion
  <2>2. Lists(history[answer'.keys].doc, t.signer)
    BY AcceptedIsListed
  <2>3. QED
    BY <2>1, <2>2
<1>2. IInv /\ [Next]_vars => [Bounded]_vars
  BY <1>1
<1> HIDE DEF Bounded
<1>3. Spec => [][Bounded]_vars
  BY <1>2, Invariant, PTL DEF Spec
<1>4. QED
  BY <1>3 DEF RevocationBounded, Bounded

\* For any number of callers and any TTL, a key listed for a TTL is accepted
\* whatever else is listed (identity.py:138-148 and 181-192).
THEOREM RotationIsVisible == Spec => RotationVisible
<1> DEFINE Visible ==
        \A c \in Callers : AnsweredWithKeys(c) =>
          \A t \in Tokens :
              /\ t.sound /\ t.kid = t.signer
              /\ \A doc \in RecentDocuments(c) : Lists(doc, t.signer)
              => Verdict(history[answer'.keys].doc, t) = {200}
<1>1. IInv /\ [Next]_vars => Visible
  <2> SUFFICES ASSUME IInv, [Next]_vars, NEW c \in Callers, AnsweredWithKeys(c),
                      NEW t \in Tokens, t.sound, t.kid = t.signer,
                      \A doc \in RecentDocuments(c) : Lists(doc, t.signer)
               PROVE  Verdict(history[answer'.keys].doc, t) = {200}
    OBVIOUS
  <2>1. history[answer'.keys].doc \in RecentDocuments(c)
    BY AnswerRecent DEF RecentDocuments, RecentVersion
  <2>2. Lists(history[answer'.keys].doc, t.signer)
    BY <2>1
  <2>3. t.kid # None
    BY BrokerAssumption DEF Tokens
  <2>4. QED
    BY <2>2, <2>3 DEF Lists, Verdict, SelectJwk
<1>2. IInv /\ [Next]_vars => [Visible]_vars
  BY <1>1
<1> HIDE DEF Visible
<1>3. Spec => [][Visible]_vars
  BY <1>2, Invariant, PTL DEF Spec
<1>4. QED
  BY <1>3 DEF RotationVisible, Visible

\* Refreshes that succeed are more than a TTL apart and never go back, however many
\* callers find the entry expired together (identity.py:101-106).
THEOREM RefreshesAreSpaced == Spec => RefreshSpacing
<1> DEFINE Spaced ==
        cache # None /\ cache' # cache =>
          /\ cache'.fetched_at - cache.fetched_at > Ttl
          /\ cache'.keys >= cache.keys
<1>1. IInv /\ [Next]_vars => Spaced
  <2> SUFFICES ASSUME IInv, [Next]_vars, cache # None, cache' # cache
               PROVE  /\ cache'.fetched_at - cache.fetched_at > Ttl
                      /\ cache'.keys >= cache.keys
    OBVIOUS
  <2>1. PICK c \in Callers : FetchSucceeds(c)
    BY DEF Next, vars, BrokerMoves, Call, Hit, Acquire, AwaitLock, WakeHit, WakeFetch,
           StartFetch, BrokerReplies, FetchFails
  <2>2. /\ pc[c] = "fetching" /\ fetch[c].reply # 0
        /\ cache' = [keys |-> fetch[c].reply, fetched_at |-> fetch[c].started]
    BY <2>1 DEF FetchSucceeds
  <2>3. /\ fetch[c].started - cache.fetched_at > Ttl
        /\ cache.keys <= fetch[c].reply
    BY <2>2 DEF IInv, FetchOK
  <2>4. cache.keys \in Nat /\ fetch[c].reply \in Nat
    BY DEF IInv, TypeOK, Entry
  <2>5. QED
    BY <2>2, <2>3, <2>4
<1>2. IInv /\ [Next]_vars => [Spaced]_vars
  BY <1>1
<1> HIDE DEF Spaced
<1>3. Spec => [][Spaced]_vars
  BY <1>2, Invariant, PTL DEF Spec
<1>4. QED
  BY <1>3 DEF RefreshSpacing, Spaced

----------------------------------------------------------------------------
(* Refinement. *)

Served == IF cache = None THEN 0 ELSE cache.keys

\* A cache hit is an answer of the key source with a recent document.
LEMMA HitRefines ==
    ASSUME IInv, NEW c \in Callers, Hit(c) \/ WakeHit(c)
    PROVE  Source!ReturnKeys(c)
<1>1. TypeOK /\ CallOK(c)
  BY DEF IInv
<1>2. /\ pc[c] # "idle" /\ Fresh /\ Return(c, "keys", cache.keys)
      /\ UNCHANGED <<history, now, cache>>
  BY DEF Hit, WakeHit
<1>3. since[c] # None
  BY <1>1, <1>2 DEF CallOK
<1>4. cache.keys \in 1..Current /\ PublishedAt(cache.keys, now - Ttl)
  BY <1>2, HitRecent
<1>5. cache # None /\ cache.keys >= Served /\ Served' = cache.keys
  BY <1>2, <1>4 DEF Fresh, Served, Current
<1>6. QED
  BY <1>2, <1>3, <1>4, <1>5
     DEF Source!ReturnKeys, Source!ReturnNewer, Source!Return, Source!RecentEnough, Source!PublishedAt,
         Source!Current, Return, PublishedAt, Current, Served

\* A fetch that succeeds is one too, and its document is no older than any before;
\* one without a length is an error.
LEMMA FetchRefines ==
    ASSUME IInv, NEW c \in Callers, FetchSucceeds(c)
    PROVE  Source!ReturnKeys(c) \/ Source!ReturnError(c)
<1>1. TypeOK /\ CallOK(c) /\ FetchOK(c)
  BY DEF IInv
<1>2. /\ pc[c] = "fetching" /\ fetch[c].reply # 0
      /\ cache' = [keys |-> fetch[c].reply, fetched_at |-> fetch[c].started]
      /\ Return(c, IF history[fetch[c].reply].doc = Unsized THEN "error" ELSE "keys",
                fetch[c].reply)
      /\ UNCHANGED <<history, now>>
  BY DEF FetchSucceeds, ReturnFetched
<1>3. since[c] # None
  BY <1>1, <1>2 DEF CallOK
<1>4. fetch[c].reply \in 1..Current /\ PublishedAt(fetch[c].reply, since[c])
  BY <1>2, FetchRecent
<1>5. fetch[c].reply >= Served /\ Served' = fetch[c].reply
  <2>1. cache' \in Entry
    BY <1>1, <1>2 DEF Entry, TypeOK
  <2>2. cache' # None
    BY <2>1, CacheAssumption
  <2>3. cache # None => cache.keys <= fetch[c].reply /\ cache.keys \in Nat
    BY <1>1, <1>2 DEF FetchOK, TypeOK, Entry
  <2>4. fetch[c].reply \in Nat
    BY <1>1 DEF TypeOK
  <2>5. QED
    BY <1>2, <2>2, <2>3, <2>4 DEF Served
<1>6. ASSUME NEW how, Return(c, how, fetch[c].reply)
      PROVE  Source!ReturnNewer(c, how, fetch[c].reply)
  BY <1>2, <1>3, <1>4, <1>5, <1>6
     DEF Source!ReturnNewer, Source!Return, Source!RecentEnough, Source!PublishedAt,
         Source!Current, Return, PublishedAt, Current, Served
<1>7. CASE history[fetch[c].reply].doc = Unsized
  <2>1. Source!ReturnNewer(c, "error", fetch[c].reply)
    BY <1>2, <1>6, <1>7
  <2>2. QED
    BY <1>4, <1>7, <2>1 DEF Source!ReturnError, Source!Current, Current
<1>8. CASE history[fetch[c].reply].doc # Unsized
  <2>1. Source!ReturnNewer(c, "keys", fetch[c].reply)
    BY <1>2, <1>6, <1>8
  <2>2. QED
    BY <1>4, <2>1 DEF Source!ReturnKeys, Source!Current, Current
<1>9. QED
  BY <1>7, <1>8

\* A fetch that fails repeats the last answer, or errs when there never was one.
LEMMA FailureRefines ==
    ASSUME IInv, NEW c \in Callers, FetchFails(c)
    PROVE  Source!ReturnStale(c) \/ Source!ReturnUnreachable(c)
<1>1. TypeOK /\ CallOK(c) /\ FetchOK(c) /\ CacheOK
  BY DEF IInv
<1>2. /\ pc[c] = "fetching" /\ UNCHANGED <<history, now, cache>>
      /\ IF fetch[c].entry = None
           THEN Return(c, "unreachable", 0)
           ELSE Return(c, "stale", fetch[c].entry.keys)
  BY DEF FetchFails
<1>3. since[c] # None /\ fetch[c].entry = cache
  BY <1>1, <1>2 DEF CallOK, FetchOK
<1>4. Served' = Served /\ (cache # None => Served = cache.keys /\ Served # 0)
  BY <1>1, <1>2 DEF Served, CacheOK
<1>5. CASE cache = None
  BY <1>2, <1>3, <1>4, <1>5
     DEF Source!ReturnUnreachable, Source!Return, Return, Served
<1>6. CASE cache # None
  BY <1>2, <1>3, <1>4, <1>6
     DEF Source!ReturnStale, Source!Return, Return, Served
<1>7. QED
  BY <1>5, <1>6

\* The lock, the wait and the fetch are invisible from outside.
LEMMA SilentRefines ==
    ASSUME \/ BrokerMoves
           \/ \E c \in Callers :
                 Acquire(c) \/ AwaitLock(c) \/ WakeFetch(c) \/ BrokerReplies(c)
    PROVE  Source!Silent
<1>1. answer' = NoAnswer /\ UNCHANGED <<since, cache>>
  BY DEF Acquire, AwaitLock, WakeFetch, StartFetch, BrokerReplies, BrokerMoves, Silent
<1>2. Served' = Served
  BY <1>1 DEF Served
<1>3. Tick \/ (\E d \in Documents : Publish(d)) \/ UNCHANGED <<history, now>>
  BY DEF Acquire, AwaitLock, WakeFetch, BrokerReplies, BrokerMoves
<1>4. QED
  BY <1>1, <1>2, <1>3
     DEF Source!Silent, Source!NoAnswer, NoAnswer, Served, Source!Tick, Tick,
         Source!Publish, Publish, Source!Current, Current

\* The cache implements the key source, for any number of callers, any broker and
\* any TTL: answers never go back, are recent unless a refresh failed, and carry a
\* document unless there never was one or its "keys" have no length (get_jwks,
\* identity.py:86-117).
THEOREM CacheIsKeySource == Spec => ImplementsKeySource
<1>1. Init => Source!Init
  BY DEF Init, Source!Init, BrokerInit, Source!BrokerInit, NoAnswer, Source!NoAnswer
<1>2. IInv /\ [Next]_vars => [Source!Next]_(Source!vars)
  <2> SUFFICES ASSUME IInv, [Next]_vars
               PROVE  Source!Next \/ UNCHANGED Source!vars
    OBVIOUS
  <2>1. CASE UNCHANGED vars
    BY <2>1 DEF vars, Source!vars
  <2>2. CASE BrokerMoves
    BY <2>2, SilentRefines DEF Source!Next
  <2>3. ASSUME NEW c \in Callers, Call(c)
        PROVE  Source!Next
    <3>1. pc[c] = "idle" /\ CallOK(c)
      BY <2>3 DEF Call, IInv
    <3>2. since[c] = None
      BY <3>1 DEF CallOK
    <3>3. Source!Call(c)
      BY <2>3, <3>2 DEF Call, Silent, Source!Call, Source!NoAnswer, NoAnswer
    <3>4. QED
      BY <3>3 DEF Source!Next
  <2>4. ASSUME NEW c \in Callers, Hit(c) \/ WakeHit(c) \/ FetchSucceeds(c) \/ FetchFails(c)
        PROVE  Source!Next
    BY <2>4, HitRefines, FetchRefines, FailureRefines DEF Source!Next
  <2>5. ASSUME NEW c \in Callers,
               Acquire(c) \/ AwaitLock(c) \/ WakeFetch(c) \/ BrokerReplies(c)
        PROVE  Source!Next
    BY <2>5, SilentRefines DEF Source!Next
  <2>6. QED
    BY <2>5, <2>4, <2>3, <2>2, <2>1 DEF Next
<1>3. QED
  BY <1>1, <1>2, Invariant, PTL DEF Spec, ImplementsKeySource, Source!Spec

====
