---- MODULE RateLimiterProofs ----
(***************************************************************************)
(* What each method of the limiter does to an entry, for every setting of  *)
(* its constants: the lemmas the theorems about TokenService rest on.      *)
(***************************************************************************)
EXTENDS RateLimiter, FiniteSetTheorems, FunctionTheorems, SequenceTheorems, TLAPS

\* The part of the limiter's state that bounds an entry.
EntryBounded(u) ==
    /\ state[u].locked_until = None => Len(state[u].failure_times) < MaxAttempts
    /\ state[u].locked_until # None => state[u].locked_until <= now + Lockout

\* The timestamps of a list are in order, and none is in the future.
Ordered(times) ==
    /\ \A i, j \in DOMAIN times : i <= j => times[i] <= times[j]
    /\ \A i \in DOMAIN times : times[i] <= now

\* The places of a list that hold a time after T.
Later(times, T) == {i \in DOMAIN times : times[i] > T}

\* What the limiter promises within a Span is within the window and within the lockout
\* (ratelimit.py:78-91).
LEMMA SpanBounds == Span \in Nat \ {0} /\ Span <= Window /\ Span <= Lockout
BY LimiterAssumption DEF Span

----------------------------------------------------------------------------
(* Counting places of lists. *)

\* Counting the places of a list.
LEMMA FirstNaturals ==
    ASSUME NEW n \in Nat
    PROVE  IsFiniteSet(1..n) /\ Cardinality(1..n) = n
<1>1. IsFiniteSet(1..n) /\ Cardinality(1..n) = IF 1 > n THEN 0 ELSE n - 1 + 1
  BY FS_Interval
<1>2. QED
  BY <1>1

\* A part of a finite set is finite and no larger.
LEMMA SubsetCount ==
    ASSUME NEW B, IsFiniteSet(B), NEW A \in SUBSET B
    PROVE  /\ IsFiniteSet(A) /\ Cardinality(A) \in Nat /\ Cardinality(B) \in Nat
           /\ Cardinality(A) <= Cardinality(B)
BY FS_Subset, FS_CardinalityType

\* A set that can be paired off with part of another is no larger.
LEMMA PairedOff ==
    ASSUME NEW A, NEW B, IsFiniteSet(B), NEW f \in [A -> B],
           \A x, y \in A : f[x] = f[y] => x = y
    PROVE  Cardinality(A) <= Cardinality(B)
<1>1. f \in Injection(A, B)
  BY Fun_IsInj
<1>2. QED
  BY <1>1, FS_Injection

\* Later times are counted by a number, no larger than the list.
LEMMA LaterCount ==
    ASSUME NEW times \in Seq(Nat), NEW T \in Int
    PROVE  /\ IsFiniteSet(Later(times, T))
           /\ Cardinality(Later(times, T)) \in Nat
           /\ Cardinality(Later(times, T)) <= Len(times)
<1>1. Len(times) \in Nat /\ DOMAIN times = 1..Len(times)
  OBVIOUS
<1>2. IsFiniteSet(1..Len(times)) /\ Cardinality(1..Len(times)) = Len(times)
  BY <1>1, FirstNaturals
<1>3. Later(times, T) \in SUBSET (1..Len(times))
  BY <1>1 DEF Later
<1>4. /\ IsFiniteSet(Later(times, T)) /\ Cardinality(Later(times, T)) \in Nat
      /\ Cardinality(Later(times, T)) <= Cardinality(1..Len(times))
  BY <1>2, <1>3, SubsetCount
<1>5. QED
  BY <1>2, <1>4

\* One more time is one more after every earlier moment.
LEMMA LaterAppend ==
    ASSUME NEW times \in Seq(Nat), NEW x \in Nat, NEW T \in Int
    PROVE  /\ Cardinality(Later(Append(times, x), T)) <= Cardinality(Later(times, T)) + 1
           /\ x > T => Cardinality(Later(Append(times, x), T))
                           = Cardinality(Later(times, T)) + 1
           /\ ~(x > T) => Later(Append(times, x), T) = Later(times, T)
<1> DEFINE n == Len(times)
           longer == Append(times, x)
<1>1. n \in Nat /\ DOMAIN times = 1..n
  OBVIOUS
<1>2. /\ longer \in Seq(Nat) /\ Len(longer) = n + 1
      /\ \A i \in 1..n : longer[i] = times[i]
      /\ longer[n + 1] = x
  BY AppendProperties
<1>3. DOMAIN longer = 1..(n + 1)
  BY <1>2
<1> HIDE DEF n, longer
<1>4. n + 1 \notin Later(times, T)
  BY <1>1 DEF Later
<1>5. IsFiniteSet(Later(times, T)) /\ Cardinality(Later(times, T)) \in Nat
  BY LaterCount
<1>6. CASE x > T
  <2>1. Later(longer, T) = Later(times, T) \cup {n + 1}
    BY <1>1, <1>2, <1>3, <1>6 DEF Later
  <2>2. Cardinality(Later(longer, T)) = Cardinality(Later(times, T)) + 1
    BY <1>4, <1>5, <2>1, FS_AddElement
  <2>3. QED
    BY <1>5, <1>6, <2>2 DEF longer
<1>7. CASE ~(x > T)
  <2>1. Later(longer, T) = Later(times, T)
    BY <1>1, <1>2, <1>3, <1>7 DEF Later
  <2>2. QED
    BY <1>5, <1>7, <2>1 DEF longer
<1>8. QED
  BY <1>6, <1>7

\* The end of a list has no more later times than the list, and as many if none was
\* cut off.
LEMMA LaterSuffix ==
    ASSUME NEW times \in Seq(Nat), NEW end \in Seq(Nat), NEW k \in 0..Len(times),
           Len(end) = Len(times) - k,
           \A i \in 1..(Len(times) - k) : end[i] = times[i + k],
           NEW T \in Int
    PROVE  /\ Cardinality(Later(end, T)) <= Cardinality(Later(times, T))
           /\ (\A i \in 1..k : times[i] <= T) =>
                 Cardinality(Later(end, T)) = Cardinality(Later(times, T))
<1> DEFINE n == Len(times)
<1>1. /\ n \in Nat /\ k \in Nat /\ k <= n
      /\ DOMAIN times = 1..n /\ DOMAIN end = 1..(n - k)
      /\ \A i \in 1..n : times[i] \in Nat
      /\ \A i \in 1..(n - k) : end[i] = times[i + k]
  OBVIOUS
<1> HIDE DEF n
<1>2. IsFiniteSet(Later(times, T)) /\ IsFiniteSet(Later(end, T))
  BY LaterCount
<1>3. Cardinality(Later(times, T)) \in Nat /\ Cardinality(Later(end, T)) \in Nat
  BY LaterCount
<1>4. Cardinality(Later(end, T)) <= Cardinality(Later(times, T))
  <2> DEFINE f == [i \in Later(end, T) |-> i + k]
  <2>1. ASSUME NEW i \in Later(end, T)
        PROVE  i \in Nat /\ i + k \in Later(times, T)
    <3>1. i \in 1..(n - k) /\ end[i] > T
      BY <1>1 DEF Later
    <3>2. i \in Nat /\ i + k \in 1..n /\ times[i + k] = end[i]
      BY <1>1, <3>1
    <3>3. QED
      BY <1>1, <3>1, <3>2 DEF Later
  <2>2. f \in [Later(end, T) -> Later(times, T)]
    BY <2>1
  <2>3. \A i, j \in Later(end, T) : f[i] = f[j] => i = j
    BY <1>1, <2>1
  <2> HIDE DEF f
  <2>4. QED
    BY <1>2, <2>2, <2>3, PairedOff
<1>5. ASSUME \A i \in 1..k : times[i] <= T
      PROVE  Cardinality(Later(times, T)) <= Cardinality(Later(end, T))
  <2> DEFINE f == [i \in Later(times, T) |-> i - k]
  <2>1. ASSUME NEW i \in Later(times, T)
        PROVE  i \in Nat /\ i - k \in Later(end, T)
    <3>1. i \in 1..n /\ times[i] > T /\ times[i] \in Nat
      BY <1>1 DEF Later
    <3>2. i > k
      BY <1>1, <1>5, <3>1
    <3>3. i - k \in 1..(n - k) /\ (i - k) + k = i
      BY <1>1, <3>1, <3>2
    <3>4. end[i - k] = times[i]
      BY <1>1, <3>3
    <3>5. QED
      BY <1>1, <3>1, <3>3, <3>4 DEF Later
  <2>2. f \in [Later(times, T) -> Later(end, T)]
    BY <2>1
  <2>3. \A i, j \in Later(times, T) : f[i] = f[j] => i = j
    BY <1>1, <2>1
  <2> HIDE DEF f
  <2>4. QED
    BY <1>2, <2>2, <2>3, PairedOff
<1>6. QED
  BY <1>3, <1>4, <1>5

----------------------------------------------------------------------------
(* The methods. *)

\* The pruning comprehension of record_failure yields a list of timestamps, no
\* longer than the one it prunes (ratelimit.py:86-88).
LEMMA RecentProperties ==
    ASSUME NEW times \in Seq(Nat)
    PROVE  /\ Recent(times) \in Seq(Nat)
           /\ Len(Recent(times)) <= Len(times)
<1>1. DOMAIN times = 1..Len(times) /\ Len(times) \in Nat
  OBVIOUS
<1>2. IsFiniteSet(1..Len(times))
  BY <1>1, FirstNaturals
<1>3. Expired(times) \in SUBSET (1..Len(times))
  BY <1>1 DEF Expired
<1>4. Cardinality(Expired(times)) \in Nat
  BY <1>2, <1>3, FS_Subset, FS_CardinalityType
<1>5. \A i \in (Cardinality(Expired(times)) + 1)..Len(times) : times[i] \in Nat
  BY <1>1, <1>4
<1>6. QED
  BY <1>1, <1>4, <1>5, SubSeqProperties DEF Recent

\* Of a list in order the pruning drops exactly the timestamps out of the window:
\* they come first (ratelimit.py:86-88).
LEMMA RecentIsFilter ==
    ASSUME NEW times \in Seq(Nat), now \in Nat, Ordered(times)
    PROVE  \E k \in 0..Len(times) :
              /\ Expired(times) = 1..k
              /\ Recent(times) \in Seq(Nat)
              /\ Len(Recent(times)) = Len(times) - k
              /\ \A i \in 1..(Len(times) - k) : Recent(times)[i] = times[i + k]
              /\ \A i \in 1..Len(times) : i > k <=> now - times[i] < Window
<1> DEFINE n == Len(times)
           k == Cardinality(Expired(times))
<1>1. /\ n \in Nat /\ DOMAIN times = 1..n /\ \A i \in 1..n : times[i] \in Nat
      /\ Window \in Nat
  BY LimiterAssumption
<1>1a. \A i, j \in 1..n : i <= j => times[i] <= times[j]
  BY <1>1 DEF Ordered
<1>2. \A i : i \in Expired(times) <=> i \in 1..n /\ ~(now - times[i] < Window)
  <2>1. \A i \in 1..n : now - times[i] >= Window <=> ~(now - times[i] < Window)
    BY <1>1
  <2>2. QED
    BY <1>1, <2>1, Zenon DEF Expired
<1>3. Recent(times) = SubSeq(times, k + 1, n)
  BY DEF Recent
<1> HIDE DEF n
<1>4. IsFiniteSet(1..n) /\ Cardinality(1..n) = n
  BY <1>1, FirstNaturals
<1>5. IsFiniteSet(Expired(times)) /\ k \in Nat /\ k <= n
  <2>1. Expired(times) \in SUBSET (1..n)
    BY <1>2
  <2>2. /\ IsFiniteSet(Expired(times)) /\ Cardinality(Expired(times)) \in Nat
        /\ Cardinality(Expired(times)) <= Cardinality(1..n)
    BY <1>4, <2>1, SubsetCount
  <2>3. QED
    BY <1>4, <2>2
<1>6. ASSUME NEW i \in Expired(times)
      PROVE  i <= k
  <2>1. i \in 1..n /\ ~(now - times[i] < Window)
    BY <1>2
  <2>2. ASSUME NEW j \in 1..i PROVE j \in Expired(times)
    <3>1. j \in 1..n /\ j <= i
      BY <1>1, <2>1
    <3>1a. times[j] <= times[i] /\ times[i] \in Nat /\ times[j] \in Nat
      BY <1>1, <1>1a, <2>1, <3>1
    <3>2. ~(now - times[j] < Window)
      BY <1>1, <2>1, <3>1a
    <3>3. QED
      BY <1>2, <3>1, <3>2
  <2>3. 1..i \in SUBSET Expired(times)
    BY <2>2
  <2>4. Cardinality(1..i) = i /\ Cardinality(1..i) <= Cardinality(Expired(times))
    BY <1>5, <2>1, <2>3, FirstNaturals, SubsetCount
  <2>5. QED
    BY <2>4
<1>7. ASSUME NEW i \in 1..n, i \notin Expired(times)
      PROVE  i > k
  <2>1. now - times[i] < Window /\ times[i] \in Nat
    BY <1>1, <1>2, <1>7, Zenon
  <2>2. ASSUME NEW j \in Expired(times) PROVE j \in 1..(i - 1)
    <3>1. j \in 1..n /\ ~(now - times[j] < Window) /\ times[j] \in Nat
      BY <1>1, <1>2
    <3>2. ~(i <= j)
      <4>1. i <= j => times[i] <= times[j]
        BY <1>1a, <3>1
      <4>2. ~(times[i] <= times[j])
        BY <1>1, <2>1, <3>1
      <4>3. QED
        BY <4>1, <4>2
    <3>3. QED
      BY <3>1, <3>2
  <2>3. i - 1 \in Nat /\ Expired(times) \in SUBSET (1..(i - 1))
    BY <2>2
  <2>4. IsFiniteSet(1..(i - 1)) /\ Cardinality(1..(i - 1)) = i - 1
    BY <2>3, FirstNaturals
  <2>5. Cardinality(Expired(times)) <= Cardinality(1..(i - 1))
    BY <2>3, <2>4, SubsetCount
  <2> HIDE DEF k
  <2>6. k <= i - 1
    BY <2>4, <2>5 DEF k
  <2>7. QED
    BY <1>5, <2>6
<1> HIDE DEF k
<1>8. \A i \in 1..n : i > k <=> now - times[i] < Window
  <2> SUFFICES ASSUME NEW i \in 1..n PROVE i > k <=> now - times[i] < Window
    OBVIOUS
  <2>1. i \in Expired(times) <=> ~(now - times[i] < Window)
    BY <1>2, Zenon
  <2>2. i \in Expired(times) => ~(i > k)
    BY <1>5, <1>6
  <2>3. QED
    BY <1>7, <2>1, <2>2
<1>9. Expired(times) = 1..k
  <2>1. ASSUME NEW i \in Expired(times) PROVE i \in 1..k
    <3>1. i \in 1..n /\ i <= k
      BY <1>2, <1>6
    <3>2. QED
      BY <1>1, <1>5, <3>1
  <2>2. ASSUME NEW i \in 1..k PROVE i \in Expired(times)
    <3>1. i \in 1..n /\ ~(i > k)
      BY <1>1, <1>5
    <3>2. QED
      BY <1>7, <3>1
  <2>3. QED
    BY <2>1, <2>2
<1>10. k + 1 \in Int /\ n \in Int /\ \A i \in (k + 1)..n : times[i] \in Nat
  BY <1>1, <1>5
<1>11. /\ SubSeq(times, k + 1, n) \in Seq(Nat)
       /\ Len(SubSeq(times, k + 1, n)) = IF k + 1 <= n THEN n - (k + 1) + 1 ELSE 0
       /\ \A i \in 1..(n - (k + 1) + 1) : SubSeq(times, k + 1, n)[i] = times[(k + 1) + i - 1]
  BY <1>10, SubSeqProperties
<1>12. n - (k + 1) + 1 = n - k /\ \A i \in 1..(n - k) : (k + 1) + i - 1 = i + k
  BY <1>1, <1>5
<1>13. Len(SubSeq(times, k + 1, n)) = n - k
  BY <1>1, <1>5, <1>11
<1>14. k \in 0..n
  BY <1>1, <1>5
<1>15. QED
  BY <1>3, <1>8, <1>9, <1>11, <1>12, <1>13, <1>14 DEF n

\* What record_failure leaves: the timestamps within the window, the new one last,
\* in order still (ratelimit.py:86-89).
LEMMA RecordedTimes ==
    ASSUME NEW times \in Seq(Nat), now \in Nat, Ordered(times)
    PROVE  LET longer == Append(Recent(times), now)
           IN  /\ longer \in Seq(Nat)
               /\ Ordered(longer)
               /\ Len(longer) \in Nat \ {0} /\ longer[Len(longer)] = now
               /\ \A i \in DOMAIN longer : now - longer[i] < Window
               /\ \A T \in Int : T >= now - Window /\ T < now =>
                      Cardinality(Later(longer, T)) = Cardinality(Later(times, T)) + 1
<1> DEFINE n == Len(times)
           longer == Append(Recent(times), now)
<1>1. PICK k \in 0..n :
              /\ Recent(times) \in Seq(Nat)
              /\ Len(Recent(times)) = n - k
              /\ \A i \in 1..(n - k) : Recent(times)[i] = times[i + k]
              /\ \A i \in 1..n : i > k <=> now - times[i] < Window
  BY RecentIsFilter
<1>2. /\ n \in Nat /\ k \in Nat /\ k <= n /\ DOMAIN times = 1..n
      /\ \A i \in 1..n : times[i] \in Nat /\ times[i] <= now
      /\ \A i, j \in 1..n : i <= j => times[i] <= times[j]
      /\ Window \in Nat \ {0}
  BY LimiterAssumption DEF Ordered
<1>3. /\ longer \in Seq(Nat) /\ Len(longer) = n - k + 1
      /\ \A i \in 1..(n - k) : longer[i] = Recent(times)[i]
      /\ longer[n - k + 1] = now
  BY <1>1, AppendProperties
<1>4. DOMAIN longer = 1..(n - k + 1)
  BY <1>3
<1> HIDE DEF longer
<1>5. ASSUME NEW i \in 1..(n - k)
      PROVE  /\ i + k \in 1..n /\ longer[i] = times[i + k]
             /\ longer[i] \in Nat /\ longer[i] <= now /\ now - longer[i] < Window
  <2>1. i + k \in 1..n /\ i + k > k
    BY <1>2
  <2>2. longer[i] = times[i + k]
    BY <1>1, <1>3
  <2>3. QED
    BY <1>1, <1>2, <2>1, <2>2
<1>6. \A i \in 1..(n - k + 1) : i = n - k + 1 \/ i \in 1..(n - k)
  BY <1>2
<1>6a. ASSUME NEW i \in 1..(n - k + 1)
       PROVE  longer[i] \in Nat /\ longer[i] <= now /\ now - longer[i] < Window
  <2>1. CASE i = n - k + 1
    BY <1>2, <1>3, <2>1
  <2>2. CASE i \in 1..(n - k)
    BY <1>5, <2>2
  <2>3. QED
    BY <1>6, <2>1, <2>2, Zenon
<1>7. Ordered(longer)
  <2>1. ASSUME NEW i \in 1..(n - k + 1), NEW j \in 1..(n - k + 1), i <= j
        PROVE  longer[i] <= longer[j]
    <3>1. CASE j = n - k + 1
      BY <1>3, <1>6a, <3>1
    <3>2. CASE j \in 1..(n - k)
      <4>1. i \in 1..(n - k) /\ i + k <= j + k
        BY <1>2, <2>1, <3>2
      <4>2. QED
        BY <1>2, <1>5, <3>2, <4>1
    <3>3. QED
      BY <1>6, <3>1, <3>2
  <2>2. QED
    BY <1>4, <1>6a, <2>1 DEF Ordered
<1>8. \A i \in 1..(n - k + 1) : now - longer[i] < Window
  BY <1>6a
<1>9. ASSUME NEW T \in Int, T >= now - Window, T < now
      PROVE  Cardinality(Later(longer, T)) = Cardinality(Later(times, T)) + 1
  <2>1. Cardinality(Later(longer, T)) = Cardinality(Later(Recent(times), T)) + 1
    BY <1>1, <1>9, LaterAppend DEF longer
  <2>2. ASSUME NEW i \in 1..k PROVE times[i] <= T
    <3>1. i \in 1..n /\ ~(i > k)
      BY <1>2
    <3>2. ~(now - times[i] < Window) /\ times[i] \in Nat
      BY <1>1, <1>2, <3>1
    <3>3. QED
      BY <1>2, <1>9, <3>2
  <2>3. Cardinality(Later(Recent(times), T)) = Cardinality(Later(times, T))
    BY <1>1, <2>2, LaterSuffix
  <2>4. QED
    BY <2>1, <2>3
<1>10. Len(longer) \in Nat \ {0} /\ longer[Len(longer)] = now
  BY <1>2, <1>3
<1>11. QED
  BY <1>3, <1>4, <1>7, <1>8, <1>9, <1>10 DEF longer

\* record_failure keeps the entries well-formed, lengthens one list by at most
\* one, never moves a lockout back, and leaves a full list locked
\* (ratelimit.py:83-91).
LEMMA RecordFailureProperties ==
    ASSUME LimiterTypeOK, NEW u \in Users, EntryBounded(u), RecordFailure(u), now' = now
    PROVE  /\ state' \in [Users -> Entry]
           /\ Len(state'[u].failure_times) <= Len(state[u].failure_times) + 1
           /\ \A v \in Users \ {u} : state'[v] = state[v]
           /\ EntryBounded(u)'
           /\ state[u].locked_until # None =>
                /\ state'[u].locked_until # None
                /\ state'[u].locked_until >= state[u].locked_until
<1> DEFINE old == state[u].failure_times
           times == Append(Recent(old), now)
           lock == IF Len(times) >= MaxAttempts THEN now + Lockout ELSE state[u].locked_until
<1>1. state[u] \in Entry /\ now \in Nat
  BY DEF LimiterTypeOK
<1>2. old \in Seq(Nat) /\ Len(old) \in Nat /\ state[u].locked_until \in Nat \cup {None}
  BY <1>1 DEF Entry
<1>3. /\ Recent(old) \in Seq(Nat)
      /\ Len(Recent(old)) <= Len(old)
      /\ Len(Recent(old)) \in Nat
  BY <1>2, RecentProperties
<1>4. times \in Seq(Nat) /\ Len(times) = Len(Recent(old)) + 1
  BY <1>1, <1>3, AppendProperties
<1>5. lock \in Nat \cup {None}
  BY <1>1, <1>2, LimiterAssumption
<1> HIDE DEF times, lock
<1>6. state' = [state EXCEPT ![u] = [failure_times |-> times, locked_until |-> lock]]
  BY DEF RecordFailure, times, lock
<1>7. [failure_times |-> times, locked_until |-> lock] \in Entry
  BY <1>4, <1>5 DEF Entry
<1>8. state' \in [Users -> Entry]
  BY <1>6, <1>7 DEF LimiterTypeOK
<1>9. state'[u].failure_times = times /\ state'[u].locked_until = lock
  BY <1>6 DEF LimiterTypeOK
<1>10. Len(state'[u].failure_times) <= Len(state[u].failure_times) + 1
  BY <1>2, <1>3, <1>4, <1>9
<1>11. \A v \in Users \ {u} : state'[v] = state[v]
  BY <1>6 DEF LimiterTypeOK
<1>12. EntryBounded(u)'
  <2>1. lock = None => Len(times) < MaxAttempts
    BY <1>1, <1>2, <1>3, <1>4, LimiterAssumption DEF lock
  <2>2. lock # None => lock <= now + Lockout
    BY <1>1, <1>2, LimiterAssumption DEF lock, EntryBounded
  <2>3. QED
    BY <2>1, <2>2, <1>9 DEF EntryBounded
<1>13. state[u].locked_until # None =>
          /\ state'[u].locked_until # None
          /\ state'[u].locked_until >= state[u].locked_until
  BY <1>1, <1>2, <1>9, LimiterAssumption DEF lock, EntryBounded
<1>14. QED
  BY <1>8, <1>10, <1>11, <1>12, <1>13

\* The list and the lock record_failure leaves (ratelimit.py:86-91).
LEMMA RecordFailureEntry ==
    ASSUME LimiterTypeOK, NEW u \in Users, RecordFailure(u)
    PROVE  /\ state'[u].failure_times = Append(Recent(state[u].failure_times), now)
           /\ state'[u].locked_until = IF Len(state'[u].failure_times) >= MaxAttempts
                                         THEN now + Lockout ELSE state[u].locked_until
<1> DEFINE times == Append(Recent(state[u].failure_times), now)
           lock == IF Len(times) >= MaxAttempts THEN now + Lockout ELSE state[u].locked_until
<1>1. state' = [state EXCEPT ![u] = [failure_times |-> times, locked_until |-> lock]]
  BY DEF RecordFailure
<1> HIDE DEF times, lock
<1>2. state'[u].failure_times = times /\ state'[u].locked_until = lock
  BY <1>1 DEF LimiterTypeOK
<1>3. QED
  BY <1>2 DEF times, lock

\* A fresh entry, which reset and an expired lockout leave, is empty and unlocked.
LEMMA FreshProperties ==
    /\ Fresh \in Entry
    /\ Len(Fresh.failure_times) = 0
    /\ Fresh.locked_until = None
<1>1. <<>> \in Seq(Nat) /\ Len(<<>>) = 0
  BY EmptySeq
<1>2. QED
  BY <1>1 DEF Fresh, Entry

\* reset forgets one username and touches no other (ratelimit.py:93-94).
LEMMA ResetProperties ==
    ASSUME LimiterTypeOK, NEW u \in Users, Reset(u)
    PROVE  /\ state' \in [Users -> Entry]
           /\ state'[u] = Fresh
           /\ \A v \in Users \ {u} : state'[v] = state[v]
           /\ EntryBounded(u)'
<1>1. state' \in [Users -> Entry]
  BY FreshProperties DEF Reset, LimiterTypeOK
<1>2. state'[u] = Fresh /\ \A v \in Users \ {u} : state'[v] = state[v]
  BY DEF Reset, LimiterTypeOK
<1>3. QED
  BY <1>1, <1>2, FreshProperties, LimiterAssumption DEF EntryBounded

\* check lets a request through only when no lockout runs, and then leaves the
\* username unlocked with fewer than MaxAttempts failures (ratelimit.py:71-81).
LEMMA CheckPassesProperties ==
    ASSUME LimiterTypeOK, NEW u \in Users, EntryBounded(u), CheckPasses(u), now' = now
    PROVE  /\ state' \in [Users -> Entry]
           /\ state'[u].locked_until = None
           /\ Len(state'[u].failure_times) < MaxAttempts
           /\ \A v \in Users \ {u} : state'[v] = state[v]
           /\ EntryBounded(u)'
<1>1. CASE state[u].locked_until = None
  BY <1>1 DEF CheckPasses, EntryBounded, LimiterTypeOK
<1>2. CASE state[u].locked_until # None
  <2>1. state' = [state EXCEPT ![u] = Fresh]
    BY <1>2 DEF CheckPasses
  <2>2. QED
    BY <2>1, FreshProperties, LimiterAssumption DEF EntryBounded, LimiterTypeOK
<1>3. QED
  BY <1>1, <1>2
====
