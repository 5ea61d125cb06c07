---- MODULE ReplicasProofs ----
(***************************************************************************)
(* What one limiter lets through, from its start to its end, and what the  *)
(* pods together do, for any number of pods and of requests in progress    *)
(* and any settings of the limiter.                                        *)
(*                                                                         *)
(* The limiter's timestamps and the KDC's rejections are taken at          *)
(* different moments, and a lockout's expiry forgets the timestamps, so    *)
(* that the two are equally many is no invariant.  Matched is: after any   *)
(* moment of the last Span, the rejections are at most the timestamps, the *)
(* rejections in progress, and MaxRequests - 1 that an expiry forgot.      *)
(* LockOK is why an expiry forgets no more: of the requests in progress    *)
(* when the lockout began, one had just ended.                             *)
(***************************************************************************)
EXTENDS Replicas, RateLimiterProofs

USE DEF Pods

Times(p) == state[p].failure_times

\* The rejections after T that the limiter of p holds or is to hear of.
After(p, T) == {r \in Mine(p) : r.at > T}

\* The requests of p whose password the limiter is not to hear of as rejected, yet.
Open(p) == flight[p].waiting + flight[p].lost + flight[p].granted

Matched(p) ==
    \A T \in Int : T >= now - Span =>
        Cardinality(After(p, T))
            <= MaxRequests - 1 + flight[p].denied + Cardinality(Later(Times(p), T))

LockOK(p) ==
    state[p].locked_until # None =>
        Cardinality(After(p, state[p].locked_until - Lockout)) + Open(p) <= MaxRequests - 1

\* check lets nobody through a full list, and a request ends with its failure.
RoomOK(p) ==
    /\ InFlight(p) <= MaxRequests
    /\ Len(Times(p)) + InFlight(p) <= MaxAttempts - 1 + MaxRequests

UpOK(p) == EntryBounded(p) /\ Ordered(Times(p)) /\ RoomOK(p) /\ Matched(p) /\ LockOK(p)

\* What a pod has left behind gets no more.
GoneOK(p) ==
    /\ Cardinality(Mine(p)) <= Budget
    /\ \A r \in Mine(p) : r.at <= gone[p]

PodOK(p) ==
    /\ phase[p] = "new" => Mine(p) = {}
    /\ phase[p] = "up" => UpOK(p)
    /\ phase[p] = "gone" => GoneOK(p)

RejectedOK ==
    /\ IsFiniteSet(rejected)
    /\ \A r \in rejected : r.at <= now /\ now - r.at < Span

\* The inductive invariant.
IInv == TypeOK /\ RejectedOK /\ \A p \in Pods : PodOK(p)

----------------------------------------------------------------------------
(* Counts. *)

\* Everything a pod's invariant counts is a number.
LEMMA Counts ==
    ASSUME TypeOK, RejectedOK, NEW p \in Pods
    PROVE  /\ Times(p) \in Seq(Nat) /\ Len(Times(p)) \in Nat
           /\ state[p].locked_until \in Nat \cup {None} /\ now \in Nat
           /\ flight[p].waiting \in Nat /\ flight[p].denied \in Nat
           /\ flight[p].lost \in Nat /\ flight[p].granted \in Nat
           /\ InFlight(p) \in Nat /\ Open(p) \in Nat
           /\ InFlight(p) = Open(p) + flight[p].denied
           /\ \A T \in Int : /\ IsFiniteSet(After(p, T))
                             /\ Cardinality(After(p, T)) \in Nat
                             /\ Cardinality(Later(Times(p), T)) \in Nat
                             /\ Cardinality(Later(Times(p), T)) <= Len(Times(p))
           /\ IsFiniteSet(Mine(p)) /\ Cardinality(Mine(p)) \in Nat
<1>1. /\ Times(p) \in Seq(Nat) /\ Len(Times(p)) \in Nat
      /\ state[p].locked_until \in Nat \cup {None} /\ now \in Nat
  BY DEF TypeOK, LimiterTypeOK, Entry, Times
<1>2. /\ flight[p].waiting \in Nat /\ flight[p].denied \in Nat
      /\ flight[p].lost \in Nat /\ flight[p].granted \in Nat
  BY DEF TypeOK, Flight
<1>3. /\ InFlight(p) \in Nat /\ Open(p) \in Nat
      /\ InFlight(p) = Open(p) + flight[p].denied
  BY <1>2 DEF InFlight, Open
<1>4. IsFiniteSet(Mine(p)) /\ Cardinality(Mine(p)) \in Nat
  <2>1. Mine(p) \in SUBSET rejected
    BY DEF Mine
  <2>2. QED
    BY <2>1, SubsetCount DEF RejectedOK
<1>5. ASSUME NEW T \in Int
      PROVE  IsFiniteSet(After(p, T)) /\ Cardinality(After(p, T)) \in Nat
  <2>1. After(p, T) \in SUBSET Mine(p)
    BY DEF After
  <2>2. QED
    BY <1>4, <2>1, SubsetCount
<1>6. QED
  BY <1>1, <1>2, <1>3, <1>4, <1>5, LaterCount

\* The settings are positive.
LEMMA Settings ==
    /\ MaxAttempts \in Nat \ {0} /\ MaxRequests \in Nat \ {0}
    /\ Span \in Nat \ {0} /\ Lockout \in Nat \ {0} /\ Window \in Nat \ {0}
    /\ Span <= Lockout /\ Span <= Window
    /\ Budget \in Nat /\ Budget = MaxAttempts + 2 * (MaxRequests - 1)
BY SpanBounds, LimiterAssumption, ReplicasAssumption DEF Budget

\* The fewer rejections, the fewer after each moment.
LEMMA FewerAfter ==
    ASSUME TypeOK, RejectedOK, NEW p \in Pods, Mine(p)' \in SUBSET Mine(p), NEW T \in Int
    PROVE  /\ Cardinality(After(p, T)') \in Nat
           /\ Cardinality(After(p, T)') <= Cardinality(After(p, T))
<1>1. After(p, T)' \in SUBSET After(p, T)
  BY DEF After
<1>2. QED
  BY <1>1, Counts, SubsetCount

\* The later the moment, the fewer rejections after it.
LEMMA LaterAfter ==
    ASSUME TypeOK, RejectedOK, NEW p \in Pods, NEW T \in Int, NEW S \in Int, T <= S
    PROVE  Cardinality(After(p, S)) <= Cardinality(After(p, T))
<1>1. \A r \in Mine(p) : r.at \in Nat
  BY DEF TypeOK, Rejections, Mine
<1>2. After(p, S) \in SUBSET After(p, T)
  BY <1>1 DEF After
<1>3. QED
  BY <1>2, Counts, SubsetCount

\* Nothing is rejected in the future.
LEMMA NothingAfterNow ==
    ASSUME TypeOK, RejectedOK, NEW p \in Pods, NEW T \in Int, T >= now
    PROVE  Cardinality(After(p, T)) = 0
<1>1. \A r \in Mine(p) : r.at \in Nat /\ r.at <= now /\ now \in Nat
  BY DEF TypeOK, LimiterTypeOK, RejectedOK, Rejections, Mine
<1>2. After(p, T) = {}
  BY <1>1 DEF After
<1>3. QED
  BY <1>2, FS_EmptySet

\* A pod that is up is within its budget: it is Matched a Span ago.
LEMMA UpWithinBudget ==
    ASSUME TypeOK, RejectedOK, NEW p \in Pods, UpOK(p)
    PROVE  Cardinality(Mine(p)) <= Budget
<1> DEFINE T == now - Span
           R == Cardinality(After(p, T))
           F == Cardinality(Later(Times(p), T))
           D == flight[p].denied
           L == Len(Times(p))
           I == InFlight(p)
<1>1. T \in Int /\ T >= now - Span
  <2>1. now \in Nat /\ Span \in Nat
    BY Settings DEF TypeOK, LimiterTypeOK
  <2>2. QED
    BY <2>1
<1>2. After(p, T) = Mine(p)
  <2>1. \A r \in Mine(p) : r.at \in Nat /\ now - r.at < Span
    BY DEF TypeOK, RejectedOK, Rejections, Mine
  <2>2. QED
    BY <2>1, Counts, Settings DEF After
<1>3. R <= MaxRequests - 1 + D + F
  BY <1>1 DEF UpOK, Matched
<1>4. /\ R \in Nat /\ F \in Nat /\ D \in Nat /\ L \in Nat /\ I \in Nat /\ Open(p) \in Nat
      /\ F <= L /\ I = Open(p) + D
  BY <1>1, Counts
<1>5. L + I <= MaxAttempts - 1 + MaxRequests
  BY DEF UpOK, RoomOK
<1>6. R = Cardinality(Mine(p))
  BY <1>2
<1> HIDE DEF R, F, D, L, I
<1>7. R <= Budget
  BY <1>3, <1>4, <1>5, Settings
<1>8. QED
  BY <1>6, <1>7

----------------------------------------------------------------------------
(* Pods a step leaves alone. *)

\* Requests that end or move on, and rejections that are dropped, keep a pod's
\* invariant: nothing of the limiter changes.
LEMMA Eases ==
    ASSUME TypeOK, RejectedOK, TypeOK', RejectedOK', NEW p \in Pods, UpOK(p),
           state'[p] = state[p], now' >= now, Mine(p)' \in SUBSET Mine(p),
           flight'[p].denied = flight[p].denied, Open(p)' <= Open(p)
    PROVE  UpOK(p)'
<1> DEFINE R(T) == Cardinality(After(p, T))
           R2(T) == Cardinality(After(p, T)')
           F(T) == Cardinality(Later(Times(p), T))
           D == flight[p].denied
           O == Open(p)
           O2 == Open(p)'
           L == Len(Times(p))
           lock == state[p].locked_until
<1>1. /\ now \in Nat /\ D \in Nat /\ O \in Nat /\ L \in Nat /\ InFlight(p) = O + D
      /\ lock \in Nat \cup {None}
      /\ \A T \in Int : R(T) \in Nat /\ F(T) \in Nat
      /\ Times(p) \in Seq(Nat)
  BY Counts
<1>2. now' \in Nat /\ O2 \in Nat /\ InFlight(p)' = O2 + D
  <2>1. now' \in Nat /\ Open(p)' \in Nat /\ InFlight(p)' = Open(p)' + flight'[p].denied
    BY DEF TypeOK, LimiterTypeOK, Flight, InFlight, Open
  <2>2. QED
    BY <2>1
<1>3. \A T \in Int : R2(T) \in Nat /\ R2(T) <= R(T)
  BY FewerAfter
<1>4. Times(p)' = Times(p)
  BY DEF Times
<1>5. EntryBounded(p)'
  <2>1. lock # None => lock \in Nat /\ lock <= now + Lockout
    BY <1>1 DEF UpOK, EntryBounded
  <2>2. now \in Nat /\ now' \in Nat /\ Lockout \in Nat
    BY <1>1, <1>2, Settings
  <2>3. lock # None => lock <= now' + Lockout
    BY <2>1, <2>2
  <2>4. QED
    BY <2>3 DEF UpOK, EntryBounded
<1>6. Ordered(Times(p))'
  <2>1. \A i \in DOMAIN Times(p) : Times(p)[i] \in Nat
    BY <1>1
  <2>2. QED
    BY <1>1, <1>2, <1>4, <2>1 DEF UpOK, Ordered
<1>7. RoomOK(p)'
  <2>1. O + D <= MaxRequests /\ L + (O + D) <= MaxAttempts - 1 + MaxRequests
    BY <1>1 DEF UpOK, RoomOK
  <2>2. O2 <= O /\ Len(Times(p)') = L
    BY <1>4
  <2>3. /\ O \in Nat /\ D \in Nat /\ L \in Nat /\ O2 \in Nat
         /\ MaxRequests \in Nat /\ MaxAttempts \in Nat
    BY <1>1, <1>2, Settings
  <2> HIDE DEF O, O2, D, L
  <2>4. O2 + D <= MaxRequests /\ L + (O2 + D) <= MaxAttempts - 1 + MaxRequests
    BY <2>1, <2>2, <2>3
  <2>5. QED
    BY <1>2, <2>2, <2>4 DEF RoomOK
<1>8. Matched(p)'
  <2> SUFFICES ASSUME NEW T \in Int, T >= now' - Span
               PROVE  R2(T) <= MaxRequests - 1 + D + F(T)
    BY <1>4 DEF Matched
  <2>1. T >= now - Span
    <3>1. now \in Nat /\ now' \in Nat /\ Span \in Nat
      BY <1>1, <1>2, Settings
    <3>2. \A a, b, c \in Int : a >= b /\ T >= a - c => T >= b - c
      OBVIOUS
    <3>3. QED
      BY <3>1, <3>2
  <2>2. R(T) <= MaxRequests - 1 + D + F(T)
    BY <2>1 DEF UpOK, Matched
  <2>3. R(T) \in Nat /\ R2(T) \in Nat /\ R2(T) <= R(T) /\ F(T) \in Nat
    BY <1>1, <1>3
  <2>4. D \in Nat /\ MaxRequests \in Nat
    BY <1>1, Settings
  <2> HIDE DEF R, R2, F, D
  <2>5. QED
    BY <2>2, <2>3, <2>4
<1>9. LockOK(p)'
  <2> SUFFICES ASSUME lock # None
               PROVE  R2(lock - Lockout) + O2 <= MaxRequests - 1
    BY DEF LockOK
  <2>1. lock - Lockout \in Int
    <3>1. lock \in Nat /\ Lockout \in Nat
      BY <1>1, Settings
    <3> HIDE DEF lock
    <3>2. QED
      BY <3>1
  <2>2. R(lock - Lockout) + O <= MaxRequests - 1
    BY DEF UpOK, LockOK
  <2>3. R(lock - Lockout) \in Nat /\ R2(lock - Lockout) \in Nat
        /\ R2(lock - Lockout) <= R(lock - Lockout) /\ O2 <= O
    BY <1>1, <1>3, <2>1
  <2>4. O \in Nat /\ O2 \in Nat /\ MaxRequests \in Nat
    BY <1>1, <1>2, Settings
  <2> HIDE DEF R, R2, O, O2
  <2>5. QED
    BY <2>2, <2>3, <2>4
<1>10. QED
  BY <1>5, <1>6, <1>7, <1>8, <1>9 DEF UpOK

\* A step of another pod, or of the clock, keeps a pod's invariant.
LEMMA PodKept ==
    ASSUME TypeOK, RejectedOK, TypeOK', RejectedOK', NEW q \in Pods, PodOK(q),
           state'[q] = state[q], flight'[q] = flight[q], phase'[q] = phase[q],
           gone'[q] = gone[q], now' >= now, Mine(q)' \in SUBSET Mine(q)
    PROVE  PodOK(q)'
<1>1. CASE phase[q] = "new"
  BY <1>1 DEF PodOK
<1>2. CASE phase[q] = "up"
  <2>1. Open(q)' = Open(q) /\ Open(q) \in Nat
    BY Counts DEF Open
  <2>2. UpOK(q)'
    BY <1>2, <2>1, Eases DEF PodOK
  <2>3. QED
    BY <1>2, <2>2 DEF PodOK
<1>3. CASE phase[q] = "gone"
  <2>1. Cardinality(Mine(q)') \in Nat /\ Cardinality(Mine(q)') <= Cardinality(Mine(q))
    BY Counts, SubsetCount
  <2>2. Cardinality(Mine(q)) <= Budget /\ Cardinality(Mine(q)) \in Nat /\ Budget \in Nat
    BY <1>3, Counts, Settings DEF PodOK, GoneOK
  <2>3. Cardinality(Mine(q)') <= Budget
    BY <2>1, <2>2
  <2>4. GoneOK(q)'
    BY <1>3, <2>3 DEF PodOK, GoneOK, Budget
  <2>5. QED
    BY <1>3, <2>4 DEF PodOK
<1>4. QED
  BY <1>1, <1>2, <1>3 DEF TypeOK

----------------------------------------------------------------------------
(* The steps of a request. *)

\* A request moves within its pod, and the deployment stays as it is.
LEMMA RequestShape ==
    ASSUME IInv, NEW p \in Pods, phase[p] = "up", NEW f \in Flight,
           flight' = [flight EXCEPT ![p] = f], UNCHANGED <<now, phase, gone>>,
           state' \in [Pods -> Entry], \A q \in Pods \ {p} : state'[q] = state[q],
           strays' \in Nat, IsFiniteSet(rejected'), rejected' \subseteq Rejections,
           \A r \in rejected' : r.at <= now /\ now - r.at < Span
    PROVE  /\ TypeOK' /\ RejectedOK' /\ flight'[p] = f
           /\ \A q \in Pods \ {p} : flight'[q] = flight[q]
<1>1. /\ flight' \in [Pods -> Flight] /\ flight'[p] = f
      /\ \A q \in Pods \ {p} : flight'[q] = flight[q]
  BY DEF IInv, TypeOK
<1>2. \A q \in Pods : phase'[q] # "up" => state'[q] = Fresh /\ flight'[q] = NoFlight
  BY <1>1 DEF IInv, TypeOK
<1>3. TypeOK'
  BY <1>1, <1>2 DEF IInv, TypeOK, LimiterTypeOK
<1>4. QED
  BY <1>1, <1>3 DEF RejectedOK

\* A request's step concerns its own pod only.
LEMMA RequestStep ==
    ASSUME IInv, TypeOK', RejectedOK', NEW p \in Pods, phase[p] = "up",
           UNCHANGED <<now, phase, gone>>, UpOK(p)',
           \A q \in Pods \ {p} : /\ state'[q] = state[q] /\ flight'[q] = flight[q]
                                 /\ Mine(q)' \in SUBSET Mine(q)
    PROVE  IInv'
<1>1. now' >= now
  BY DEF IInv, TypeOK, LimiterTypeOK
<1>2. \A q \in Pods \ {p} : PodOK(q)'
  BY <1>1, PodKept DEF IInv
<1>3. PodOK(p)'
  BY DEF PodOK
<1>4. QED
  BY <1>2, <1>3 DEF IInv

\* Only a pod that is up has requests.
LEMMA BusyIsUp ==
    ASSUME IInv, NEW p \in Pods,
           flight[p].waiting > 0 \/ flight[p].denied > 0 \/ flight[p].lost > 0
              \/ flight[p].granted > 0
    PROVE  phase[p] = "up" /\ UpOK(p)
<1>1. flight[p] # NoFlight
  BY DEF NoFlight
<1>2. phase[p] = "up"
  BY <1>1 DEF IInv, TypeOK
<1>3. QED
  BY <1>2 DEF IInv, PodOK

\* The limiter as it was is a limiter, and the rejections are rejections.
LEMMA AsBefore ==
    ASSUME IInv
    PROVE  /\ state \in [Pods -> Entry] /\ strays \in Nat /\ now \in Nat
           /\ IsFiniteSet(rejected) /\ rejected \subseteq Rejections
           /\ \A r \in rejected : r.at <= now /\ now - r.at < Span
           /\ IsFiniteSet(Lost) /\ Cardinality(Lost) \in Nat
           /\ flight \in [Pods -> Flight]
<1>1. IsFiniteSet(rejected) /\ Lost \in SUBSET rejected
  BY DEF IInv, RejectedOK, Lost
<1>2. QED
  BY <1>1, SubsetCount DEF IInv, TypeOK, LimiterTypeOK, RejectedOK

\* check lets a request through with fewer than MaxAttempts failures, and a lockout that
\* has run out forgets at most MaxRequests - 1 rejections of the last Span
\* (ratelimit.py:71-81, app.py:211-216).
LEMMA AttemptInv ==
    ASSUME IInv, NEW p \in Pods, Attempt(p)
    PROVE  IInv'
<1> DEFINE f == [flight[p] EXCEPT !.waiting = @ + 1]
           R(T) == Cardinality(After(p, T))
           F(T) == Cardinality(Later(Times(p), T))
           F2(T) == Cardinality(Later(Times(p)', T))
           D == flight[p].denied
           O == Open(p)
           I == InFlight(p)
           N == MaxRequests
           L2 == Len(Times(p)')
           lock == state[p].locked_until
<1>1. /\ TypeOK /\ RejectedOK /\ phase[p] = "up" /\ UpOK(p) /\ I < N
      /\ CheckPasses(p) /\ now' = now /\ rejected' = rejected /\ strays' = strays
      /\ phase' = phase /\ gone' = gone /\ flight' = [flight EXCEPT ![p] = f]
  BY DEF Attempt, IInv, PodOK
<1>2. /\ state' \in [Pods -> Entry] /\ state'[p].locked_until = None
      /\ Len(state'[p].failure_times) < MaxAttempts
      /\ \A q \in Pods \ {p} : state'[q] = state[q]
      /\ EntryBounded(p)'
  BY <1>1, CheckPassesProperties DEF UpOK, TypeOK
<1>3. f \in Flight
  BY <1>1, AsBefore DEF Flight
<1>4. /\ TypeOK' /\ RejectedOK' /\ flight'[p] = f
      /\ \A q \in Pods \ {p} : flight'[q] = flight[q]
  BY <1>1, <1>2, <1>3, AsBefore, RequestShape
<1>5. /\ Open(p)' = O + 1 /\ flight'[p].denied = D /\ InFlight(p)' = I + 1
      /\ O \in Nat /\ D \in Nat /\ I \in Nat
  <2>1. \A c \in Flight : c = flight[p] =>
            LET d == [c EXCEPT !.waiting = @ + 1]
            IN  /\ d.waiting = c.waiting + 1 /\ d.denied = c.denied
                /\ d.lost = c.lost /\ d.granted = c.granted
    BY DEF Flight
  <2>2. /\ flight'[p].waiting = flight[p].waiting + 1 /\ flight'[p].denied = flight[p].denied
        /\ flight'[p].lost = flight[p].lost /\ flight'[p].granted = flight[p].granted
    BY <1>4, <2>1, AsBefore
  <2>3. /\ flight[p].waiting \in Nat /\ flight[p].denied \in Nat
        /\ flight[p].lost \in Nat /\ flight[p].granted \in Nat
    BY <1>1, Counts
  <2>4. QED
    BY <2>2, <2>3 DEF Open, InFlight
<1>6. /\ now \in Nat /\ lock \in Nat \cup {None} /\ Times(p) \in Seq(Nat)
      /\ \A T \in Int : R(T) \in Nat /\ F(T) \in Nat
  BY <1>1, Counts
<1>7. Times(p)' \in Seq(Nat) /\ L2 \in Nat /\ L2 < MaxAttempts
      /\ \A T \in Int : F2(T) \in Nat
  <2>1. Times(p)' \in Seq(Nat) /\ Times(p)' = state'[p].failure_times
    BY <1>2 DEF Entry, Times
  <2>2. QED
    BY <1>2, <2>1, LaterCount
<1>8. /\ lock = None => Times(p)' = Times(p)
      /\ lock # None => Times(p)' = <<>> /\ now >= lock
  <2>1. lock # None => state'[p] = Fresh
    BY <1>1, <1>2 DEF CheckPasses, TypeOK, LimiterTypeOK
  <2>2. QED
    BY <1>1, <1>6, <2>1 DEF CheckPasses, Locked, Times, Fresh
<1>9. Ordered(Times(p))'
  BY <1>1, <1>8 DEF UpOK, Ordered
<1>10. RoomOK(p)'
  <2>1. I \in Nat /\ I < N /\ L2 \in Nat /\ L2 < MaxAttempts
        /\ N \in Nat /\ MaxAttempts \in Nat
    BY <1>1, <1>5, <1>7, Settings
  <2> HIDE DEF I, N, L2
  <2>2. I + 1 <= N /\ L2 + (I + 1) <= MaxAttempts - 1 + N
    BY <2>1
  <2>3. QED
    BY <1>5, <2>2 DEF RoomOK, N, L2
<1>11. Matched(p)'
  <2> SUFFICES ASSUME NEW T \in Int, T >= now - Span
               PROVE  R(T) <= N - 1 + D + F2(T)
    BY <1>1, <1>5 DEF Matched, After, Mine
  <2>1. R(T) \in Nat /\ F2(T) \in Nat /\ D \in Nat /\ O \in Nat /\ N \in Nat
    BY <1>5, <1>6, <1>7, Settings
  <2>2. CASE lock = None
    BY <1>1, <1>8, <2>2 DEF UpOK, Matched
  <2>3. CASE lock # None
    <3>1. lock - Lockout \in Int /\ lock - Lockout <= T
      <4>1. lock \in Nat /\ now \in Nat /\ now >= lock
        BY <1>6, <1>8, <2>3
      <4>2. Lockout \in Nat /\ Span \in Nat /\ Span <= Lockout
        BY Settings
      <4> HIDE DEF lock
      <4>3. QED
        BY <4>1, <4>2
    <3>2. R(T) <= R(lock - Lockout) /\ R(lock - Lockout) + O <= N - 1
          /\ R(lock - Lockout) \in Nat
      BY <1>1, <1>6, <2>3, <3>1, LaterAfter DEF UpOK, LockOK
    <3> HIDE DEF R, F2, D, O, N
    <3>3. QED
      BY <2>1, <3>2
  <2>4. QED
    BY <2>2, <2>3
<1>12. LockOK(p)'
  BY <1>2 DEF LockOK
<1>13. UpOK(p)'
  BY <1>2, <1>9, <1>10, <1>11, <1>12 DEF UpOK
<1>14. \A q \in Pods : Mine(q)' = Mine(q)
  BY <1>1 DEF Mine
<1>15. QED
  BY <1>1, <1>2, <1>4, <1>13, <1>14, RequestStep

\* A step that moves a request to another counter, and changes nothing of the limiter.
LEMMA Moved ==
    ASSUME IInv, NEW p \in Pods, phase[p] = "up", NEW f \in Flight,
           flight' = [flight EXCEPT ![p] = f], UNCHANGED <<limiterVars, phase, gone>>,
           f.denied = flight[p].denied,
           f.waiting + f.lost + f.granted <= Open(p),
           strays' \in Nat, IsFiniteSet(rejected'), rejected' \subseteq Rejections,
           \A r \in rejected' : r.at <= now /\ now - r.at < Span,
           \A q \in Pods : Mine(q)' \in SUBSET Mine(q)
    PROVE  IInv'
<1>1. state' = state /\ now' = now /\ now \in Nat /\ state' \in [Pods -> Entry]
  BY AsBefore DEF limiterVars
<1>2. /\ TypeOK' /\ RejectedOK' /\ flight'[p] = f
      /\ \A q \in Pods \ {p} : flight'[q] = flight[q]
  BY <1>1, RequestShape
<1>3. Open(p)' <= Open(p)
  BY <1>2 DEF Open
<1>4. UpOK(p)'
  BY <1>1, <1>2, <1>3, Eases DEF IInv, PodOK
<1>5. QED
  BY <1>1, <1>2, <1>4, RequestStep

\* What a record of a rejection holds.
LEMMA RejectionIs ==
    ASSUME IInv, NEW p \in Pods \cup {None}, NEW lost \in BOOLEAN, p \in Pods \/ lost
    PROVE  /\ Rejection(p, lost) \in Rejections
           /\ Rejection(p, lost).of = p /\ Rejection(p, lost).lost = lost
           /\ Rejection(p, lost).at = now
           /\ rejected \cup {Rejection(p, lost)} \subseteq Rejections
           /\ IsFiniteSet(rejected \cup {Rejection(p, lost)})
           /\ \A r \in rejected \cup {Rejection(p, lost)} : r.at <= now /\ now - r.at < Span
<1> DEFINE moment == {r \in rejected : r.of = p /\ r.at = now}
<1>1. Cardinality(moment) \in Nat
  <2>1. moment \in SUBSET rejected
    OBVIOUS
  <2>2. QED
    BY <2>1, AsBefore, SubsetCount
<1>2. /\ Rejection(p, lost) = [of |-> p, lost |-> lost, at |-> now, n |-> Cardinality(moment)]
      /\ now \in Nat
  BY AsBefore DEF Rejection
<1> DEFINE c == Cardinality(moment)
<1>3. /\ Rejection(p, lost) \in Rejections
      /\ Rejection(p, lost).of = p /\ Rejection(p, lost).lost = lost
      /\ Rejection(p, lost).at = now
  <2>1. c \in Nat /\ now \in Nat
        /\ Rejection(p, lost) = [of |-> p, lost |-> lost, at |-> now, n |-> c]
    BY <1>1, <1>2
  <2> HIDE DEF moment, c
  <2> DEFINE rec == Rejection(p, lost)
  <2>2. rec.of = p /\ rec.at = now /\ rec.n = c
    BY <2>1
  <2>3. rec.lost = lost
    BY <2>1 DEF rec
  <2>4. p \in Pods => [of |-> p, lost |-> lost, at |-> now, n |-> c]
                         \in [of : Pods, lost : BOOLEAN, at : Nat, n : Nat]
    BY <2>1, Zenon
  <2>5. lost = TRUE /\ p = None =>
           [of |-> p, lost |-> lost, at |-> now, n |-> c]
              \in [of : {None}, lost : {TRUE}, at : Nat, n : Nat]
    BY <2>1, Zenon
  <2>6. p \in Pods \/ (lost = TRUE /\ p = None)
    BY Zenon
  <2>7. rec \in Rejections
    BY <2>1, <2>4, <2>5, <2>6, Zenon DEF Rejections
  <2>8. QED
    BY <2>2, <2>3, <2>7, Zenon
<1> HIDE DEF moment, c
<1>4. IsFiniteSet(rejected \cup {Rejection(p, lost)})
  BY AsBefore, FS_AddElement
<1>5. now <= now /\ now - now < Span
  BY <1>2, Settings
<1>6. QED
  BY <1>3, <1>4, <1>5, AsBefore

\* What the KDC's answer does to the count of a pod's requests.
LEMMA AnswerMoves ==
    ASSUME NEW c \in Flight, c.waiting > 0
    PROVE  LET denied == [c EXCEPT !.waiting = @ - 1, !.denied = @ + 1]
               lost == [c EXCEPT !.waiting = @ - 1, !.lost = @ + 1]
               granted == [c EXCEPT !.waiting = @ - 1, !.granted = @ + 1]
           IN  /\ denied \in Flight /\ denied.waiting = c.waiting - 1
               /\ denied.denied = c.denied + 1
               /\ denied.lost = c.lost /\ denied.granted = c.granted
               /\ lost \in Flight /\ lost.denied = c.denied
               /\ lost.waiting + lost.lost + lost.granted = c.waiting + c.lost + c.granted
               /\ granted \in Flight /\ granted.denied = c.denied
               /\ granted.waiting + granted.lost + granted.granted
                     = c.waiting + c.lost + c.granted
<1>1. /\ c.waiting \in Nat \ {0} /\ c.denied \in Nat /\ c.lost \in Nat /\ c.granted \in Nat
  BY DEF Flight
<1> DEFINE d == [c EXCEPT !.waiting = @ - 1]
<1>2. /\ d \in Flight /\ d.waiting = c.waiting - 1
      /\ d.denied = c.denied /\ d.lost = c.lost /\ d.granted = c.granted
  BY <1>1 DEF Flight
<1>3. /\ [c EXCEPT !.waiting = @ - 1, !.denied = @ + 1] = [d EXCEPT !.denied = @ + 1]
      /\ [c EXCEPT !.waiting = @ - 1, !.lost = @ + 1] = [d EXCEPT !.lost = @ + 1]
      /\ [c EXCEPT !.waiting = @ - 1, !.granted = @ + 1] = [d EXCEPT !.granted = @ + 1]
  BY DEF Flight
<1> HIDE DEF d
<1>4. LET e == [d EXCEPT !.denied = @ + 1]
      IN  /\ e \in Flight /\ e.waiting = d.waiting /\ e.denied = d.denied + 1
          /\ e.lost = d.lost /\ e.granted = d.granted
  BY <1>2 DEF Flight
<1>5. LET e == [d EXCEPT !.lost = @ + 1]
      IN  /\ e \in Flight /\ e.waiting = d.waiting /\ e.denied = d.denied
          /\ e.lost = d.lost + 1 /\ e.granted = d.granted
  BY <1>2 DEF Flight
<1>6. LET e == [d EXCEPT !.granted = @ + 1]
      IN  /\ e \in Flight /\ e.waiting = d.waiting /\ e.denied = d.denied
          /\ e.lost = d.lost /\ e.granted = d.granted + 1
  BY <1>2 DEF Flight
<1>7. QED
  BY <1>1, <1>2, <1>3, <1>4, <1>5, <1>6

\* A rejection the handler is to hear of leaves the requests in progress for the
\* rejections in progress (minting.py:124-126).
LEMMA KdcRejectsInv ==
    ASSUME IInv, NEW p \in Pods, KdcRejects(p)
    PROVE  IInv'
<1> DEFINE f == [flight[p] EXCEPT !.waiting = @ - 1, !.denied = @ + 1]
           rej == Rejection(p, FALSE)
           R(T) == Cardinality(After(p, T))
           R2(T) == Cardinality(After(p, T)')
           F(T) == Cardinality(Later(Times(p), T))
           D == flight[p].denied
           O == Open(p)
           N == MaxRequests
           lock == state[p].locked_until
<1>1. /\ TypeOK /\ RejectedOK /\ phase[p] = "up" /\ UpOK(p) /\ flight[p].waiting > 0
      /\ state' = state /\ now' = now /\ strays' = strays
      /\ phase' = phase /\ gone' = gone /\ flight' = [flight EXCEPT ![p] = f]
      /\ rejected' = rejected \cup {rej}
  BY BusyIsUp DEF KdcRejects, IInv, limiterVars
<1>2. /\ flight[p].waiting \in Nat /\ flight[p].denied \in Nat
      /\ flight[p].lost \in Nat /\ flight[p].granted \in Nat
      /\ now \in Nat /\ lock \in Nat \cup {None} /\ Times(p) \in Seq(Nat)
      /\ D \in Nat /\ O \in Nat /\ InFlight(p) = O + D
      /\ \A T \in Int : R(T) \in Nat /\ F(T) \in Nat
  BY <1>1, Counts
<1>3. /\ f \in Flight /\ f.waiting = flight[p].waiting - 1 /\ f.denied = D + 1
      /\ f.lost = flight[p].lost /\ f.granted = flight[p].granted
  <2>1. flight[p] \in Flight
    BY AsBefore
  <2>2. QED
    BY <1>1, <2>1, AnswerMoves
<1>4. /\ TypeOK' /\ RejectedOK' /\ flight'[p] = f
      /\ \A q \in Pods \ {p} : flight'[q] = flight[q]
  BY <1>1, <1>3, AsBefore, RejectionIs, RequestShape
<1>5. Open(p)' = O - 1 /\ flight'[p].denied = D + 1 /\ InFlight(p)' = InFlight(p)
  <2>1. /\ flight'[p].waiting = flight[p].waiting - 1 /\ flight'[p].denied = flight[p].denied + 1
        /\ flight'[p].lost = flight[p].lost /\ flight'[p].granted = flight[p].granted
    BY <1>3, <1>4
  <2>2. /\ flight[p].waiting \in Nat /\ flight[p].denied \in Nat
        /\ flight[p].lost \in Nat /\ flight[p].granted \in Nat
    BY <1>2
  <2>3. QED
    BY <2>1, <2>2 DEF Open, InFlight
<1>6. Times(p)' = Times(p) /\ EntryBounded(p)' /\ Ordered(Times(p))' /\ RoomOK(p)'
  BY <1>1, <1>5 DEF UpOK, EntryBounded, Ordered, RoomOK, Times
<1>7. ASSUME NEW T \in Int
      PROVE  R2(T) \in Nat /\ R2(T) <= R(T) + 1
  <2>1. After(p, T)' \in SUBSET (After(p, T) \cup {rej})
    BY <1>1 DEF After, Mine
  <2>2. IsFiniteSet(After(p, T)) /\ R(T) \in Nat
    BY <1>1, Counts
  <2>3. /\ IsFiniteSet(After(p, T) \cup {rej})
        /\ \/ Cardinality(After(p, T) \cup {rej}) = R(T)
           \/ Cardinality(After(p, T) \cup {rej}) = R(T) + 1
    BY <2>2, FS_AddElement, Zenon
  <2>4. R2(T) \in Nat /\ R2(T) <= Cardinality(After(p, T) \cup {rej})
    BY <2>1, <2>3, SubsetCount
  <2> HIDE DEF R, R2
  <2>5. QED
    BY <2>2, <2>3, <2>4
<1>8. Matched(p)'
  <2> SUFFICES ASSUME NEW T \in Int, T >= now - Span
               PROVE  R2(T) <= N - 1 + (D + 1) + F(T)
    BY <1>1, <1>5, <1>6 DEF Matched
  <2>1. R(T) <= N - 1 + D + F(T)
    BY <1>1 DEF UpOK, Matched
  <2>2. /\ R(T) \in Nat /\ F(T) \in Nat /\ D \in Nat /\ N \in Nat
        /\ R2(T) \in Nat /\ R2(T) <= R(T) + 1
    BY <1>2, <1>7, Settings
  <2> HIDE DEF R, R2, F, D, N
  <2>3. QED
    BY <2>1, <2>2
<1>9. LockOK(p)'
  <2> SUFFICES ASSUME lock # None
               PROVE  R2(lock - Lockout) + (O - 1) <= N - 1
    BY <1>1, <1>5 DEF LockOK
  <2>1. lock - Lockout \in Int
    <3>1. lock \in Nat /\ Lockout \in Nat
      BY <1>2, Settings
    <3> HIDE DEF lock
    <3>2. QED
      BY <3>1
  <2>2. R(lock - Lockout) + O <= N - 1
    BY <1>1 DEF UpOK, LockOK
  <2> DEFINE S == lock - Lockout
  <2>3. S \in Int /\ R(S) + O <= N - 1
    BY <2>1, <2>2
  <2> HIDE DEF R, R2, O, N, S
  <2>4. R(S) \in Nat /\ R2(S) \in Nat /\ R2(S) <= R(S) + 1
    BY <1>2, <1>7, <2>3
  <2>5. O \in Nat /\ N \in Nat
    BY <1>2, Settings DEF N
  <2>6. R2(S) + (O - 1) <= N - 1
    BY <2>3, <2>4, <2>5
  <2>7. QED
    BY <2>6 DEF S
<1>10. UpOK(p)'
  BY <1>6, <1>8, <1>9 DEF UpOK
<1>11. \A q \in Pods \ {p} : Mine(q)' \in SUBSET Mine(q)
  BY <1>1, RejectionIs DEF Mine
<1>12. QED
  BY <1>1, <1>4, <1>10, <1>11, RequestStep

\* A rejection the handler is not to hear of is nothing to the limiter
\* (minting.py:307-314).
LEMMA KdcRejectsUnheardInv ==
    ASSUME IInv, NEW p \in Pods, KdcRejectsUnheard(p)
    PROVE  IInv'
<1> DEFINE f == [flight[p] EXCEPT !.waiting = @ - 1, !.lost = @ + 1]
           rej == Rejection(p, TRUE)
<1>1. /\ phase[p] = "up" /\ flight[p].waiting > 0 /\ UNCHANGED <<limiterVars, phase, gone>>
      /\ strays' = strays /\ flight' = [flight EXCEPT ![p] = f]
      /\ rejected' = rejected \cup {rej}
  BY BusyIsUp DEF KdcRejectsUnheard
<1>2. /\ flight[p].waiting \in Nat /\ flight[p].denied \in Nat
      /\ flight[p].lost \in Nat /\ flight[p].granted \in Nat
  BY Counts DEF IInv
<1>3. f \in Flight /\ f.denied = flight[p].denied /\ f.waiting + f.lost + f.granted <= Open(p)
  <2>1. flight[p] \in Flight
    BY AsBefore
  <2>2. /\ f \in Flight /\ f.denied = flight[p].denied
        /\ f.waiting + f.lost + f.granted = Open(p)
    BY <1>1, <2>1, AnswerMoves DEF Open
  <2>3. Open(p) \in Nat
    BY <1>2 DEF Open
  <2>4. QED
    BY <2>2, <2>3
<1>4. \A q \in Pods : Mine(q)' \in SUBSET Mine(q)
  BY <1>1, RejectionIs DEF Mine
<1>5. QED
  BY <1>1, <1>3, <1>4, AsBefore, RejectionIs, Moved

\* A password the KDC accepts clears the rejections (app.py:343-344).
LEMMA KdcAcceptsInv ==
    ASSUME IInv, NEW p \in Pods, KdcAccepts(p)
    PROVE  IInv'
<1> DEFINE f == [flight[p] EXCEPT !.waiting = @ - 1, !.granted = @ + 1]
<1>1. /\ phase[p] = "up" /\ flight[p].waiting > 0 /\ UNCHANGED <<limiterVars, phase, gone>>
      /\ strays' = strays /\ flight' = [flight EXCEPT ![p] = f] /\ rejected' = {}
  BY BusyIsUp DEF KdcAccepts
<1>2. /\ flight[p].waiting \in Nat /\ flight[p].denied \in Nat
      /\ flight[p].lost \in Nat /\ flight[p].granted \in Nat
  BY Counts DEF IInv
<1>3. f \in Flight /\ f.denied = flight[p].denied /\ f.waiting + f.lost + f.granted <= Open(p)
  <2>1. flight[p] \in Flight
    BY AsBefore
  <2>2. /\ f \in Flight /\ f.denied = flight[p].denied
        /\ f.waiting + f.lost + f.granted = Open(p)
    BY <1>1, <2>1, AnswerMoves DEF Open
  <2>3. Open(p) \in Nat
    BY <1>2 DEF Open
  <2>4. QED
    BY <2>2, <2>3
<1>4. \A q \in Pods : Mine(q)' \in SUBSET Mine(q)
  BY <1>1 DEF Mine
<1>5. QED
  BY <1>1, <1>3, <1>4, AsBefore, FS_EmptySet, Moved

\* A stray is counted up, by a number.
LEMMA UnansweredType ==
    ASSUME IInv, NEW n \in Nat, NEW k \in Unanswered(n)
    PROVE  k \in Nat
BY AsBefore DEF Unanswered

\* A request that ends without a word to the limiter leaves only itself
\* (app.py:245-258).
LEMMA GivesUpInv ==
    ASSUME IInv, NEW p \in Pods, GivesUp(p)
    PROVE  IInv'
<1>1. /\ phase[p] = "up" /\ UNCHANGED <<limiterVars, phase, gone>> /\ rejected' = rejected
  BY BusyIsUp DEF GivesUp
<1>2. /\ flight[p].waiting \in Nat /\ flight[p].denied \in Nat
      /\ flight[p].lost \in Nat /\ flight[p].granted \in Nat
  BY Counts DEF IInv
<1>3. strays' \in Nat
  BY AsBefore, UnansweredType DEF GivesUp
<1>4. \A q \in Pods : Mine(q)' \in SUBSET Mine(q)
  BY <1>1 DEF Mine
<1>5. ASSUME NEW f \in Flight, flight' = [flight EXCEPT ![p] = f],
             f.denied = flight[p].denied, f.waiting + f.lost + f.granted <= Open(p)
      PROVE  IInv'
  BY <1>1, <1>3, <1>4, <1>5, AsBefore, Moved
<1>6. CASE flight[p].waiting > 0 /\ flight' = [flight EXCEPT ![p].waiting = @ - 1]
  <2> DEFINE f == [flight[p] EXCEPT !.waiting = @ - 1]
  <2>1. f \in Flight /\ f.denied = flight[p].denied /\ f.waiting + f.lost + f.granted <= Open(p)
    BY <1>2, <1>6, AsBefore DEF Flight, Open
  <2>2. QED
    BY <1>5, <1>6, <2>1
<1>7. CASE flight[p].lost > 0 /\ flight' = [flight EXCEPT ![p].lost = @ - 1]
  <2> DEFINE f == [flight[p] EXCEPT !.lost = @ - 1]
  <2>1. f \in Flight /\ f.denied = flight[p].denied /\ f.waiting + f.lost + f.granted <= Open(p)
    BY <1>2, <1>7, AsBefore DEF Flight, Open
  <2>2. QED
    BY <1>5, <1>7, <2>1
<1>8. CASE flight[p].granted > 0 /\ flight' = [flight EXCEPT ![p].granted = @ - 1]
  <2> DEFINE f == [flight[p] EXCEPT !.granted = @ - 1]
  <2>1. f \in Flight /\ f.denied = flight[p].denied /\ f.waiting + f.lost + f.granted <= Open(p)
    BY <1>2, <1>8, AsBefore DEF Flight, Open
  <2>2. QED
    BY <1>5, <1>8, <2>1
<1>9. QED
  BY <1>6, <1>7, <1>8 DEF GivesUp

\* A failure the handler hears of goes from the rejections in progress to the list, and if
\* it begins a lockout, its request is not among those still open (ratelimit.py:83-91).
LEMMA FailsInv ==
    ASSUME IInv, NEW p \in Pods, Fails(p)
    PROVE  IInv'
<1> DEFINE f == [flight[p] EXCEPT !.denied = @ - 1]
           R(T) == Cardinality(After(p, T))
           F(T) == Cardinality(Later(Times(p), T))
           F2(T) == Cardinality(Later(Times(p)', T))
           D == flight[p].denied
           O == Open(p)
           N == MaxRequests
           L == Len(Times(p))
           L2 == Len(Times(p)')
           lock == state[p].locked_until
           lock2 == state'[p].locked_until
<1>1. /\ TypeOK /\ RejectedOK /\ phase[p] = "up" /\ UpOK(p) /\ D > 0
      /\ RecordFailure(p) /\ now' = now /\ rejected' = rejected /\ strays' = strays
      /\ phase' = phase /\ gone' = gone /\ flight' = [flight EXCEPT ![p] = f]
  BY BusyIsUp DEF Fails, IInv
<1>2. /\ state' \in [Pods -> Entry] /\ \A q \in Pods \ {p} : state'[q] = state[q]
      /\ EntryBounded(p)' /\ L2 <= L + 1
  BY <1>1, RecordFailureProperties DEF UpOK, TypeOK, Times
<1>3. /\ flight[p].waiting \in Nat /\ flight[p].lost \in Nat /\ flight[p].granted \in Nat
      /\ now \in Nat /\ lock \in Nat \cup {None} /\ Times(p) \in Seq(Nat)
      /\ D \in Nat /\ O \in Nat /\ L \in Nat /\ InFlight(p) = O + D
      /\ \A T \in Int : R(T) \in Nat /\ F(T) \in Nat
  BY <1>1, Counts
<1>4. /\ f \in Flight /\ f.denied = D - 1 /\ f.waiting = flight[p].waiting
      /\ f.lost = flight[p].lost /\ f.granted = flight[p].granted
  <2>1. flight[p] \in Flight
    BY AsBefore
  <2>2. D \in Nat /\ D > 0
    BY <1>1, <1>3
  <2>3. QED
    BY <2>1, <2>2 DEF Flight
<1>5. /\ TypeOK' /\ RejectedOK' /\ flight'[p] = f
      /\ \A q \in Pods \ {p} : flight'[q] = flight[q]
  BY <1>1, <1>2, <1>4, AsBefore, RequestShape
<1>6. Open(p)' = O /\ flight'[p].denied = D - 1 /\ InFlight(p)' = O + (D - 1)
  <2>1. /\ flight'[p].waiting = flight[p].waiting /\ flight'[p].denied = flight[p].denied - 1
        /\ flight'[p].lost = flight[p].lost /\ flight'[p].granted = flight[p].granted
    BY <1>4, <1>5
  <2>2. /\ flight[p].waiting \in Nat /\ flight[p].denied \in Nat
        /\ flight[p].lost \in Nat /\ flight[p].granted \in Nat
    BY <1>3
  <2>3. QED
    BY <2>1, <2>2 DEF Open, InFlight
<1>7. Times(p)' = Append(Recent(Times(p)), now) /\ lock2 \in {now + Lockout, lock}
  BY <1>1, RecordFailureEntry DEF TypeOK, Times
<1>8. /\ Times(p)' \in Seq(Nat) /\ Ordered(Times(p))' /\ L2 \in Nat
      /\ \A T \in Int : F2(T) \in Nat
      /\ \A T \in Int : T >= now - Window /\ T < now => F2(T) = F(T) + 1
  <2>1. Ordered(Times(p))
    BY <1>1 DEF UpOK
  <2>2. /\ Times(p)' \in Seq(Nat) /\ Ordered(Times(p)') /\ Len(Times(p)') \in Nat
        /\ \A T \in Int : T >= now - Window /\ T < now => F2(T) = F(T) + 1
    BY <1>3, <1>7, <2>1, RecordedTimes
  <2>3. Ordered(Times(p))'
    BY <1>1, <2>2 DEF Ordered
  <2>4. QED
    BY <2>2, <2>3, LaterCount
<1>9. RoomOK(p)'
  <2>1. O + D <= N /\ L + (O + D) <= MaxAttempts - 1 + N
    BY <1>1, <1>3 DEF UpOK, RoomOK
  <2>2. /\ O \in Nat /\ D \in Nat /\ D > 0 /\ L \in Nat /\ L2 \in Nat /\ L2 <= L + 1
        /\ N \in Nat /\ MaxAttempts \in Nat
    BY <1>1, <1>2, <1>3, <1>8, Settings
  <2> HIDE DEF O, D, L, L2, N
  <2>3. O + (D - 1) <= N /\ L2 + (O + (D - 1)) <= MaxAttempts - 1 + N
    BY <2>1, <2>2
  <2>4. QED
    BY <1>6, <2>3 DEF RoomOK, L2, N
<1>10. Matched(p)'
  <2> SUFFICES ASSUME NEW T \in Int, T >= now - Span
               PROVE  R(T) <= N - 1 + (D - 1) + F2(T)
    BY <1>1, <1>6 DEF Matched, After, Mine
  <2>1. /\ R(T) \in Nat /\ F(T) \in Nat /\ F2(T) \in Nat
        /\ R(T) <= N - 1 + D + F(T)
    BY <1>1, <1>3, <1>8 DEF UpOK, Matched
  <2>2. /\ D \in Nat /\ D > 0 /\ N \in Nat \ {0} /\ now \in Nat
        /\ Window \in Nat /\ Span \in Nat /\ Span <= Window
    BY <1>1, <1>3, Settings
  <2>3. CASE T < now
    <3>1. T >= now - Window
      BY <2>2
    <3>2. F2(T) = F(T) + 1
      BY <1>8, <2>3, <3>1
    <3> HIDE DEF R, F, F2, D, N
    <3>3. QED
      BY <2>1, <2>2, <3>2
  <2>4. CASE T >= now
    <3>1. R(T) = 0
      BY <1>1, <2>4, NothingAfterNow
    <3> HIDE DEF R, F, F2, D, N
    <3>2. QED
      BY <2>1, <2>2, <3>1
  <2>5. QED
    BY <2>2, <2>3, <2>4
<1>11. LockOK(p)'
  <2> SUFFICES ASSUME lock2 # None
               PROVE  R(lock2 - Lockout) + O <= N - 1
    BY <1>1, <1>6 DEF LockOK, After, Mine
  <2>1. CASE lock2 = now + Lockout
    <3>1. lock2 - Lockout = now
      BY <1>3, <2>1, Settings
    <3>2. R(lock2 - Lockout) = 0
      BY <1>1, <1>3, <3>1, NothingAfterNow
    <3>3. O + D <= N /\ O \in Nat /\ D \in Nat /\ D > 0 /\ N \in Nat
      BY <1>1, <1>3, Settings DEF UpOK, RoomOK
    <3> HIDE DEF R, O, D, N
    <3>4. QED
      BY <3>2, <3>3
  <2>2. CASE lock2 = lock
    BY <1>1, <2>2 DEF UpOK, LockOK
  <2>3. QED
    BY <1>7, <2>1, <2>2
<1>12. UpOK(p)'
  BY <1>2, <1>8, <1>9, <1>10, <1>11 DEF UpOK
<1>13. \A q \in Pods : Mine(q)' = Mine(q)
  BY <1>1 DEF Mine
<1>14. QED
  BY <1>1, <1>2, <1>5, <1>12, <1>13, RequestStep

\* A success the handler hears of empties the limiter, and the rejections it is still to
\* hear of are those in progress (app.py:343-344).
LEMMA SucceedsInv ==
    ASSUME IInv, NEW p \in Pods, Succeeds(p)
    PROVE  IInv'
<1> DEFINE f == [flight[p] EXCEPT !.granted = @ - 1]
           D == flight[p].denied
           O == Open(p)
           N == MaxRequests
<1>1. /\ TypeOK /\ RejectedOK /\ phase[p] = "up" /\ UpOK(p) /\ flight[p].granted > 0
      /\ Reset(p) /\ now' = now /\ strays' = strays
      /\ phase' = phase /\ gone' = gone /\ flight' = [flight EXCEPT ![p] = f]
  BY BusyIsUp DEF Succeeds, IInv
<1>2. /\ state' \in [Pods -> Entry] /\ \A q \in Pods \ {p} : state'[q] = state[q]
      /\ EntryBounded(p)' /\ state'[p] = Fresh
  BY <1>1, ResetProperties DEF TypeOK
<1>3. /\ flight[p].waiting \in Nat /\ flight[p].lost \in Nat /\ flight[p].granted \in Nat
      /\ now \in Nat /\ D \in Nat /\ O \in Nat /\ InFlight(p) = O + D
  BY <1>1, Counts
<1>4. /\ f \in Flight /\ f.denied = D /\ f.waiting = flight[p].waiting
      /\ f.lost = flight[p].lost /\ f.granted = flight[p].granted - 1
  <2>1. flight[p] \in Flight /\ flight[p].granted > 0
    BY <1>1, AsBefore
  <2>2. QED
    BY <2>1 DEF Flight
<1>5. PICK pending \in SUBSET Mine(p) :
         /\ Cardinality(pending) <= D
         /\ rejected' = {IF r \in Mine(p) \ pending THEN [r EXCEPT !.lost = TRUE] ELSE r :
                            r \in rejected}
  BY DEF Succeeds
<1> DEFINE kept(r) == IF r \in Mine(p) \ pending THEN [r EXCEPT !.lost = TRUE] ELSE r
<1>6. ASSUME NEW r \in rejected
      PROVE  /\ kept(r) \in Rejections /\ kept(r).of = r.of /\ kept(r).at = r.at
             /\ r \in Mine(p) \ pending => kept(r).lost
             /\ r \notin Mine(p) \ pending => kept(r) = r
  BY AsBefore DEF Rejections
<1>7. /\ rejected' \subseteq Rejections
      /\ \A r \in rejected' : r.at <= now /\ now - r.at < Span
  BY <1>5, <1>6, AsBefore
<1>8. IsFiniteSet(rejected')
  <2> DEFINE g == [r \in rejected |-> kept(r)]
  <2> HIDE DEF kept
  <2>1. rejected' = {kept(r) : r \in rejected}
    BY <1>5 DEF kept
  <2>2. g \in Surjection(rejected, rejected')
    BY <2>1, Fun_IsSurj
  <2>3. QED
    BY <2>2, AsBefore, FS_Surjection
<1>9. \A q \in Pods \ {p} : Mine(q)' \in SUBSET Mine(q)
  BY <1>5, <1>6 DEF Mine
<1>10. Mine(p)' \in SUBSET pending
  BY <1>5, <1>6 DEF Mine
<1>11. /\ TypeOK' /\ RejectedOK' /\ flight'[p] = f
       /\ \A q \in Pods \ {p} : flight'[q] = flight[q]
  BY <1>1, <1>2, <1>4, <1>7, <1>8, AsBefore, RequestShape
<1>12. flight'[p].denied = D /\ InFlight(p)' = O + D - 1
  <2>1. /\ flight'[p].waiting = flight[p].waiting /\ flight'[p].denied = flight[p].denied
        /\ flight'[p].lost = flight[p].lost /\ flight'[p].granted = flight[p].granted - 1
    BY <1>4, <1>11
  <2>2. /\ flight[p].waiting \in Nat /\ flight[p].denied \in Nat
        /\ flight[p].lost \in Nat /\ flight[p].granted \in Nat
    BY <1>3
  <2>3. QED
    BY <2>1, <2>2 DEF Open, InFlight
<1>13. Times(p)' = <<>> /\ Ordered(Times(p))' /\ LockOK(p)'
  BY <1>2 DEF Times, Fresh, Ordered, LockOK
<1>14. RoomOK(p)'
  <2>1. O + D <= N /\ O \in Nat /\ D \in Nat /\ N \in Nat /\ MaxAttempts \in Nat \ {0}
    BY <1>1, <1>3, Settings DEF UpOK, RoomOK
  <2>2. Len(Times(p)') = 0
    BY <1>13
  <2> HIDE DEF O, D, N
  <2>3. O + D - 1 <= N /\ 0 + (O + D - 1) <= MaxAttempts - 1 + N
    BY <2>1
  <2>4. QED
    BY <1>12, <2>2, <2>3 DEF RoomOK, N
<1>15. Matched(p)'
  <2> SUFFICES ASSUME NEW T \in Int
               PROVE  Cardinality(After(p, T)') <= N - 1 + D + Cardinality(Later(Times(p)', T))
    BY <1>12 DEF Matched
  <2>1. After(p, T)' \in SUBSET pending
    BY <1>10 DEF After
  <2>2. IsFiniteSet(pending) /\ Cardinality(pending) \in Nat
    BY <1>1, Counts, SubsetCount
  <2>3. Cardinality(After(p, T)') \in Nat /\ Cardinality(After(p, T)') <= Cardinality(pending)
    BY <2>1, <2>2, SubsetCount
  <2>4. Cardinality(Later(Times(p)', T)) \in Nat
    BY <1>13, EmptySeq, LaterCount
  <2>5. Cardinality(pending) <= D /\ D \in Nat /\ N \in Nat \ {0}
    BY <1>3, <1>5, Settings
  <2> HIDE DEF D, N
  <2>6. QED
    BY <2>2, <2>3, <2>4, <2>5
<1>16. UpOK(p)'
  BY <1>2, <1>13, <1>14, <1>15 DEF UpOK
<1>17. QED
  BY <1>1, <1>2, <1>9, <1>11, <1>16, RequestStep

\* A rejection of a stray is nothing to any limiter (minting.py:307-314).
LEMMA StrayRejectedInv ==
    ASSUME IInv, StrayRejected
    PROVE  IInv'
<1> DEFINE rej == Rejection(None, TRUE)
<1>1. /\ strays > 0 /\ strays' = strays - 1 /\ state' = state /\ now' = now
      /\ phase' = phase /\ gone' = gone /\ flight' = flight
      /\ rejected' = rejected \cup {rej}
  BY DEF StrayRejected, limiterVars
<1>2. strays' \in Nat
  BY <1>1, AsBefore
<1>3. TypeOK' /\ RejectedOK'
  BY <1>1, <1>2, RejectionIs DEF IInv, TypeOK, LimiterTypeOK, RejectedOK
<1>4. \A q \in Pods : Mine(q)' \in SUBSET Mine(q)
  BY <1>1, RejectionIs DEF Mine
<1>5. now' >= now
  BY <1>1, AsBefore
<1>6. \A q \in Pods : PodOK(q)'
  BY <1>1, <1>3, <1>4, <1>5, PodKept DEF IInv
<1>7. QED
  BY <1>3, <1>6 DEF IInv

----------------------------------------------------------------------------
(* The deployment. *)

\* A new pod begins with nothing (RateLimiter.__init__, ratelimit.py:57-69).
LEMMA StartPodInv ==
    ASSUME IInv, NEW p \in Pods, StartPod(p)
    PROVE  IInv'
<1>1. /\ TypeOK /\ RejectedOK /\ phase[p] = "new" /\ phase' = [phase EXCEPT ![p] = "up"]
      /\ state' = state /\ now' = now /\ gone' = gone /\ flight' = flight
      /\ rejected' = rejected /\ strays' = strays
  BY DEF StartPod, IInv, limiterVars
<1>2. TypeOK' /\ RejectedOK'
  BY <1>1 DEF TypeOK, LimiterTypeOK, RejectedOK
<1>3. \A q \in Pods : Mine(q)' = Mine(q)
  BY <1>1 DEF Mine
<1>4. \A q \in Pods \ {p} : PodOK(q)'
  <2>1. now' >= now
    BY <1>1, AsBefore
  <2>2. \A q \in Pods \ {p} : phase'[q] = phase[q]
    BY <1>1
  <2>3. QED
    BY <1>1, <1>2, <1>3, <2>1, <2>2, PodKept DEF IInv
<1>5. Mine(p)' = {} /\ state'[p] = Fresh /\ flight'[p] = NoFlight
  BY <1>1, <1>3 DEF IInv, PodOK, TypeOK
<1>6. /\ Times(p)' = <<>> /\ InFlight(p)' = 0 /\ Open(p)' = 0 /\ flight'[p].denied = 0
      /\ state'[p].locked_until = None
  BY <1>5 DEF Times, Fresh, InFlight, Open, NoFlight
<1>7. EntryBounded(p)' /\ Ordered(Times(p))' /\ LockOK(p)' /\ RoomOK(p)'
  <2>1. Len(<<>>) = 0 /\ state'[p].failure_times = <<>>
    BY <1>5 DEF Fresh
  <2>2. QED
    BY <1>6, <2>1, Settings DEF EntryBounded, Ordered, LockOK, RoomOK
<1>8. Matched(p)'
  <2> SUFFICES ASSUME NEW T \in Int
               PROVE  Cardinality(After(p, T)') <= MaxRequests - 1 + 0
                                                     + Cardinality(Later(Times(p)', T))
    BY <1>6 DEF Matched
  <2>1. Cardinality(After(p, T)') = 0
    <3>1. After(p, T)' = {}
      BY <1>5 DEF After
    <3>2. QED
      BY <3>1, FS_EmptySet
  <2>2. Cardinality(Later(Times(p)', T)) \in Nat
    BY <1>6, EmptySeq, LaterCount
  <2>3. QED
    BY <2>1, <2>2, Settings
<1>9. PodOK(p)'
  BY <1>1, <1>7, <1>8 DEF PodOK, UpOK, TypeOK
<1>10. QED
  BY <1>2, <1>4, <1>9 DEF IInv

\* A pod that goes leaves a count within its budget (values.yaml:10-17).
LEMMA StopPodInv ==
    ASSUME IInv, NEW p \in Pods, StopPod(p)
    PROVE  IInv'
<1>1. /\ TypeOK /\ RejectedOK /\ phase[p] = "up" /\ UpOK(p)
      /\ phase' = [phase EXCEPT ![p] = "gone"] /\ gone' = [gone EXCEPT ![p] = now]
      /\ state' = [state EXCEPT ![p] = Fresh] /\ flight' = [flight EXCEPT ![p] = NoFlight]
      /\ now' = now /\ rejected' = rejected /\ strays' \in Unanswered(flight[p].waiting)
  BY DEF StopPod, IInv, PodOK
<1>2. strays' \in Nat
  BY <1>1, Counts, UnansweredType
<1>3. NoFlight \in Flight
  BY DEF NoFlight, Flight
<1>4. TypeOK' /\ RejectedOK'
  <2>1. state' \in [Pods -> Entry] /\ flight' \in [Pods -> Flight]
    BY <1>1, <1>3, AsBefore, FreshProperties
  <2>2. phase' \in [Pods -> {"new", "up", "gone"}] /\ gone' \in [Pods -> Nat \cup {None}]
    BY <1>1, AsBefore DEF TypeOK
  <2>3. \A q \in Pods : gone'[q] # None <=> phase'[q] = "gone"
    BY <1>1, AsBefore, LimiterAssumption DEF TypeOK
  <2>4. \A q \in Pods : phase'[q] # "up" => state'[q] = Fresh /\ flight'[q] = NoFlight
    BY <1>1, AsBefore DEF TypeOK
  <2>5. QED
    BY <1>1, <1>2, <2>1, <2>2, <2>3, <2>4 DEF TypeOK, LimiterTypeOK, RejectedOK
<1>5. \A q \in Pods : Mine(q)' = Mine(q)
  BY <1>1 DEF Mine
<1>6. \A q \in Pods \ {p} : PodOK(q)'
  <2>1. now' >= now
    BY <1>1, AsBefore
  <2>2. \A q \in Pods \ {p} : /\ state'[q] = state[q] /\ flight'[q] = flight[q]
                              /\ phase'[q] = phase[q] /\ gone'[q] = gone[q]
    BY <1>1, AsBefore DEF TypeOK
  <2>3. QED
    BY <1>1, <1>4, <1>5, <2>1, <2>2, PodKept DEF IInv
<1>7. GoneOK(p)'
  <2>1. Cardinality(Mine(p)) <= Budget
    BY <1>1, UpWithinBudget
  <2>2. \A r \in Mine(p) : r.at <= now
    BY <1>1 DEF Mine, RejectedOK
  <2>3. gone'[p] = now
    BY <1>1 DEF TypeOK
  <2>4. QED
    BY <1>5, <2>1, <2>2, <2>3 DEF GoneOK, Budget
<1>8. PodOK(p)'
  BY <1>1, <1>7 DEF PodOK, TypeOK
<1>9. QED
  BY <1>4, <1>6, <1>8 DEF IInv

\* Time only drops rejections.
LEMMA TimePassesInv ==
    ASSUME IInv, TimePasses
    PROVE  IInv'
<1>1. /\ now' = now + 1 /\ rejected' = {r \in rejected : now' - r.at < Span}
      /\ state' = state /\ phase' = phase /\ gone' = gone /\ flight' = flight
      /\ strays' = strays /\ TypeOK /\ RejectedOK /\ now \in Nat
  BY AsBefore DEF TimePasses, Tick, IInv
<1>2. rejected' \in SUBSET rejected /\ IsFiniteSet(rejected')
  <2>1. rejected' \in SUBSET rejected
    BY <1>1
  <2>2. QED
    BY <2>1, AsBefore, SubsetCount
<1>3. \A r \in rejected' : r.at \in Nat /\ r.at <= now' /\ now' - r.at < Span
  <2> SUFFICES ASSUME NEW r \in rejected'
               PROVE  r.at \in Nat /\ r.at <= now' /\ now' - r.at < Span
    OBVIOUS
  <2>1. r \in rejected /\ now' - r.at < Span
    BY <1>1
  <2>2. r.at \in Nat
    BY <1>1, <2>1 DEF TypeOK, Rejections
  <2>3. r.at <= now
    BY <1>1, <2>1 DEF RejectedOK
  <2>4. QED
    BY <1>1, <2>1, <2>2, <2>3
<1>4. TypeOK' /\ RejectedOK'
  BY <1>1, <1>2, <1>3 DEF TypeOK, LimiterTypeOK, RejectedOK
<1>5. \A q \in Pods : Mine(q)' \in SUBSET Mine(q)
  BY <1>2 DEF Mine
<1>6. now' >= now
  BY <1>1
<1>7. \A q \in Pods : PodOK(q)'
  BY <1>1, <1>4, <1>5, <1>6, PodKept DEF IInv
<1>8. QED
  BY <1>4, <1>7 DEF IInv

\* Before any pod is up there is nothing.
LEMMA InitInv == Init => IInv
<1> SUFFICES ASSUME Init PROVE IInv
  OBVIOUS
<1>1. /\ state = [u \in Pods |-> Fresh] /\ now = 0 /\ phase = [p \in Pods |-> "new"]
      /\ gone = [p \in Pods |-> None] /\ flight = [p \in Pods |-> NoFlight]
      /\ rejected = {} /\ strays = 0
  BY DEF Init, LimiterInit
<1>2. NoFlight \in Flight
  BY DEF NoFlight, Flight
<1>3. TypeOK
  BY <1>1, <1>2, FreshProperties DEF TypeOK, LimiterTypeOK
<1>4. RejectedOK
  BY <1>1, FS_EmptySet DEF RejectedOK
<1>5. \A p \in Pods : PodOK(p)
  BY <1>1 DEF PodOK, Mine
<1>6. QED
  BY <1>3, <1>4, <1>5 DEF IInv

\* Nothing changes when nothing happens.
LEMMA StutterInv ==
    ASSUME IInv, UNCHANGED vars
    PROVE  IInv'
<1>1. /\ state' = state /\ now' = now /\ phase' = phase /\ gone' = gone
      /\ flight' = flight /\ rejected' = rejected /\ strays' = strays
  BY DEF vars, limiterVars
<1>2. TypeOK' /\ RejectedOK'
  BY <1>1 DEF IInv, TypeOK, LimiterTypeOK, RejectedOK
<1>3. \A q \in Pods : Mine(q)' \in SUBSET Mine(q)
  BY <1>1 DEF Mine
<1>4. now' >= now
  BY <1>1, AsBefore
<1>5. \A q \in Pods : PodOK(q)'
  BY <1>1, <1>2, <1>3, <1>4, PodKept DEF IInv
<1>6. QED
  BY <1>2, <1>5 DEF IInv

\* Every step keeps the invariant.
LEMMA NextInv == IInv /\ [Next]_vars => IInv'
<1> SUFFICES ASSUME IInv, [Next]_vars PROVE IInv'
  OBVIOUS
<1>1. ASSUME NEW p \in Pods, Attempt(p) PROVE IInv'
  BY <1>1, AttemptInv
<1>2. ASSUME NEW p \in Pods, Refused(p) PROVE IInv'
  BY <1>2, StutterInv DEF Refused
<1>3. ASSUME NEW p \in Pods, KdcRejects(p) PROVE IInv'
  BY <1>3, KdcRejectsInv
<1>4. ASSUME NEW p \in Pods, KdcRejectsUnheard(p) PROVE IInv'
  BY <1>4, KdcRejectsUnheardInv
<1>5. ASSUME NEW p \in Pods, KdcAccepts(p) PROVE IInv'
  BY <1>5, KdcAcceptsInv
<1>6. ASSUME NEW p \in Pods, Fails(p) PROVE IInv'
  BY <1>6, FailsInv
<1>7. ASSUME NEW p \in Pods, Succeeds(p) PROVE IInv'
  BY <1>7, SucceedsInv
<1>8. ASSUME NEW p \in Pods, GivesUp(p) PROVE IInv'
  BY <1>8, GivesUpInv
<1>9. ASSUME NEW p \in Pods, StartPod(p) PROVE IInv'
  BY <1>9, StartPodInv
<1>10. ASSUME NEW p \in Pods, StopPod(p) PROVE IInv'
  BY <1>10, StopPodInv
<1>11. CASE StrayRejected
  BY <1>11, StrayRejectedInv
<1>12. CASE TimePasses
  BY <1>12, TimePassesInv
<1>13. CASE UNCHANGED vars
  BY <1>13, StutterInv
<1>14. QED
  BY <1>1, <1>2, <1>3, <1>4, <1>5, <1>6, <1>7, <1>8, <1>9, <1>10, <1>11, <1>12, <1>13 DEF Next

\* The inductive invariant holds in every state (app.py:211-269, ratelimit.py:71-94).
THEOREM Invariant == Spec => []IInv
BY InitInv, NextInv, PTL DEF Spec

\* A pod that has not started, and one that has gone, has no limiter and no request, and
\* whatever is counted is a number, for any number of pods and requests
\* (RateLimiter.__init__, ratelimit.py:57-69).
THEOREM TypeCorrect == Spec => []TypeOK
<1>1. IInv => TypeOK
  BY DEF IInv
<1>2. QED
  BY <1>1, Invariant, PTL

\* One limiter never lets more than MaxAttempts + 2 * (MaxRequests - 1) passwords of a
\* username be rejected within a Span, whatever requests race in it and however its pod
\* comes and goes, for every setting (app.py:211-269, ratelimit.py:71-94).
THEOREM LimiterKeepsBudget == Spec => []BudgetOfLimiter
<1>1. IInv => BudgetOfLimiter
  <2> SUFFICES ASSUME IInv, NEW p \in Pods
               PROVE  Cardinality(Mine(p)) <= Budget
    BY DEF BudgetOfLimiter
  <2>1. CASE phase[p] = "new"
    <3>1. Cardinality(Mine(p)) = 0
      BY <2>1, FS_EmptySet DEF IInv, PodOK
    <3>2. QED
      BY <3>1, Settings
  <2>2. CASE phase[p] = "up"
    BY <2>2, UpWithinBudget DEF IInv, PodOK
  <2>3. CASE phase[p] = "gone"
    BY <2>3 DEF IInv, PodOK, GoneOK
  <2>4. QED
    BY <2>1, <2>2, <2>3 DEF IInv, TypeOK
<1>2. QED
  BY <1>1, Invariant, PTL

----------------------------------------------------------------------------
(* The sum over the limiters. *)

\* The elements of a set of at most n have different numbers up to n.
LEMMA Numbering ==
    ASSUME NEW S, IsFiniteSet(S), NEW n \in Nat, Cardinality(S) <= n
    PROVE  \E g \in [S -> 1..n] : \A a, b \in S : g[a] = g[b] => a = b
<1> DEFINE c == Cardinality(S)
<1>1. c \in Nat /\ ExistsBijection(1..c, S)
  BY FS_CardinalityType
<1>2. c <= n
  OBVIOUS
<1> HIDE DEF c
<1>3. PICK g : g \in Bijection(S, 1..c)
  BY <1>1, Fun_ExistsBijSymmetric, Fun_ExistsBij
<1>4. g \in [S -> 1..c] /\ \A a, b \in S : g[a] = g[b] => a = b
  BY <1>3, Fun_BijectionProperties
<1>5. \A i \in 1..c : i \in 1..n
  BY <1>1, <1>2
<1>6. g \in [S -> 1..n]
  BY <1>4, <1>5
<1>7. QED
  BY <1>4, <1>6

\* Sets that f splits into parts of at most n elements have n elements for each
\* value of f: number the elements of each part, and pair.
LEMMA Parts ==
    ASSUME NEW S, IsFiniteSet(S), NEW L, IsFiniteSet(L), NEW f \in [S -> L],
           NEW n \in Nat,
           \A l \in L : Cardinality({x \in S : f[x] = l}) <= n
    PROVE  Cardinality(S) <= n * Cardinality(L)
<1> DEFINE Part(l) == {x \in S : f[x] = l}
           number == [l \in L |-> CHOOSE g \in [Part(l) -> 1..n] :
                                    \A a, b \in Part(l) : g[a] = g[b] => a = b]
           pair == [x \in S |-> <<f[x], number[f[x]][x]>>]
<1>1. ASSUME NEW l \in L
      PROVE  /\ number[l] \in [Part(l) -> 1..n]
             /\ \A a, b \in Part(l) : number[l][a] = number[l][b] => a = b
  <2>1. IsFiniteSet(Part(l)) /\ Cardinality(Part(l)) <= n
    BY FS_Subset
  <2>2. number[l] = CHOOSE h \in [Part(l) -> 1..n] :
                        \A a, b \in Part(l) : h[a] = h[b] => a = b
    OBVIOUS
  <2> HIDE DEF number, Part
  <2>3. QED
    BY <2>1, <2>2, Numbering
<1> HIDE DEF number
<1>2. ASSUME NEW x \in S
      PROVE  f[x] \in L /\ number[f[x]][x] \in 1..n
  BY <1>1
<1>3. pair \in [S -> L \X (1..n)]
  BY <1>2
<1>4. ASSUME NEW x \in S, NEW y \in S, pair[x] = pair[y]
      PROVE  x = y
  <2>1. f[x] = f[y] /\ number[f[x]][x] = number[f[x]][y]
    BY <1>4
  <2>2. x \in Part(f[x]) /\ y \in Part(f[x]) /\ f[x] \in L
    BY <2>1
  <2> HIDE DEF Part
  <2>3. QED
    BY <1>1, <2>1, <2>2
<1>5. pair \in Injection(S, L \X (1..n))
  BY <1>3, <1>4, Fun_IsInj
<1>6. IsFiniteSet(1..n) /\ Cardinality(1..n) = n
  BY FirstNaturals
<1>7. /\ IsFiniteSet(L \X (1..n))
      /\ Cardinality(L \X (1..n)) = Cardinality(L) * n
  BY <1>6, FS_Product
<1> HIDE DEF pair
<1>8. Cardinality(S) <= Cardinality(L) * n
  BY <1>5, <1>7, FS_Injection
<1>9. Cardinality(L) \in Nat
  BY FS_CardinalityType
<1>10. QED
  BY <1>8, <1>9

\* A limiter with a rejection of the last Span counts: its pod is up, or went after it.
LEMMA MineCounts ==
    ASSUME IInv, NEW p \in Pods, NEW r \in Mine(p)
    PROVE  p \in Counted
<1>1. r \in rejected /\ r.at \in Nat /\ now \in Nat /\ now - r.at < Span /\ Span \in Nat
  BY Settings DEF IInv, TypeOK, LimiterTypeOK, RejectedOK, Rejections, Mine
<1>2. phase[p] # "new"
  BY DEF IInv, PodOK
<1>3. CASE phase[p] = "gone"
  <2>1. gone[p] \in Nat /\ r.at <= gone[p]
    BY <1>3 DEF IInv, TypeOK, PodOK, GoneOK
  <2>2. now - gone[p] < Span
    BY <1>1, <2>1
  <2>3. QED
    BY <1>3, <2>2 DEF Counted
<1>4. QED
  BY <1>2, <1>3 DEF Counted, IInv, TypeOK

\* What the account at CERN loses within a Span is one budget for each limiter that was
\* there within it, and the rejections no limiter holds against the username, for any
\* number of pods and however they come and go (values.yaml:10-17).
THEOREM DeploymentKeepsBudget == Spec => []BudgetAtCern
<1>1. IInv /\ BudgetOfLimiter => BudgetAtCern
  <2> SUFFICES ASSUME IInv, BudgetOfLimiter
               PROVE  BudgetAtCern
    OBVIOUS
  <2> DEFINE held == rejected \ Lost
             f == [r \in held |-> r.of]
  <2>1. IsFiniteSet(rejected) /\ IsFiniteSet(held) /\ IsFiniteSet(Lost) /\ IsFiniteSet(Counted)
    <3>1. Counted \in SUBSET Pods /\ IsFiniteSet(Pods)
      BY ReplicasAssumption DEF Counted
    <3>2. QED
      BY <3>1, AsBefore, FS_Subset, FS_Difference
  <2>2. ASSUME NEW r \in held
        PROVE  r.of \in Pods /\ r \in Mine(r.of)
    <3>1. r \in rejected /\ ~r.lost
      BY DEF Lost
    <3>2. r.of \in Pods
      BY <3>1 DEF IInv, TypeOK, Rejections
    <3>3. QED
      BY <3>1, <3>2 DEF Mine
  <2>3. f \in [held -> Counted]
    BY <2>2, MineCounts
  <2>4. ASSUME NEW p \in Counted
        PROVE  Cardinality({r \in held : f[r] = p}) <= Budget
    <3>1. p \in Pods /\ {r \in held : f[r] = p} = Mine(p)
      BY <2>2 DEF Counted, Mine, Lost
    <3>2. QED
      BY <3>1 DEF BudgetOfLimiter
  <2>5. /\ Cardinality(rejected) \in Nat /\ Cardinality(held) \in Nat
        /\ Cardinality(Lost) \in Nat /\ Cardinality(Counted) \in Nat
    BY <2>1, FS_CardinalityType
  <2>6. Cardinality(rejected) = Cardinality(held) + Cardinality(Lost)
    <3>1. Cardinality(held) = Cardinality(rejected) - Cardinality(rejected \cap Lost)
      BY <2>1, FS_Difference
    <3>2. rejected \cap Lost = Lost
      BY DEF Lost
    <3>3. Cardinality(held) = Cardinality(rejected) - Cardinality(Lost)
      BY <3>1, <3>2, Zenon
    <3> HIDE DEF held
    <3>4. QED
      BY <2>5, <3>3
  <2> HIDE DEF held, f
  <2>7. Cardinality(held) <= Budget * Cardinality(Counted)
    BY <2>1, <2>3, <2>4, Settings, Parts
  <2>8. Budget * Cardinality(Counted) \in Nat
    BY <2>5, Settings
  <2> DEFINE most == Budget * Cardinality(Counted)
  <2> HIDE DEF most
  <2>9. Cardinality(rejected) <= most + Cardinality(Lost)
    BY <2>5, <2>6, <2>7, <2>8 DEF most
  <2>10. QED
    BY <2>9 DEF BudgetAtCern, most
<1>2. QED
  BY <1>1, Invariant, LimiterKeepsBudget, PTL
====
