---- MODULE RateLimiterHistoryProofs ----
(***************************************************************************)
(* The limiter answers as LockoutPolicy does, for every number of users    *)
(* and every max_attempts, window and lockout: a pruned list and one       *)
(* locked_until say as much as the whole history of failures.              *)
(***************************************************************************)
EXTENDS RateLimiterHistory, RateLimiterProofs, WellFoundedInduction

\* The stored list is the end of the history: what was within the window of the last
\* failure when it was recorded.
EndOfHistory(h, times, k) ==
    /\ Len(times) = Len(h) - k
    /\ \A i \in 1..(Len(h) - k) : times[i] = h[i + k]
    /\ \A i \in 1..Len(h) : i > k <=> h[Len(h)] - h[i] < Window

Remembered(u) ==
    \E k \in 0..Len(log[u]) : EndOfHistory(log[u], state[u].failure_times, k)

\* The stored lock is the latest one that any failure of the history set.
LocksMatch(u) ==
    /\ state[u].locked_until = None => Policy!Triggers(log[u]) = {}
    /\ state[u].locked_until # None =>
          /\ \E i \in Policy!Triggers(log[u]) : state[u].locked_until = log[u][i] + Lockout
          /\ \A i \in Policy!Triggers(log[u]) : log[u][i] + Lockout <= state[u].locked_until

Known(u) == Ordered(log[u]) /\ Remembered(u) /\ LocksMatch(u)

\* The inductive invariant: the entry of every username tells what its history would.
HistoryInv == TypeOK /\ \A u \in Users : Known(u)

----------------------------------------------------------------------------
(* Histories. *)

\* The end of a list in order is in order.
LEMMA EndOrdered ==
    ASSUME NEW h \in Seq(Nat), NEW times \in Seq(Nat), NEW k \in 0..Len(h),
           EndOfHistory(h, times, k), Ordered(h)
    PROVE  Ordered(times)
<1>1. /\ Len(h) \in Nat /\ DOMAIN h = 1..Len(h) /\ DOMAIN times = 1..Len(times)
      /\ Len(times) = Len(h) - k
      /\ \A i \in 1..(Len(h) - k) : times[i] = h[i + k]
  BY DEF EndOfHistory
<1>2. /\ \A i, j \in 1..Len(h) : i <= j => h[i] <= h[j]
      /\ \A i \in 1..Len(h) : h[i] <= now
  BY <1>1 DEF Ordered
<1>3. \A i \in 1..(Len(h) - k) : i + k \in 1..Len(h)
  BY <1>1
<1>4. \A i, j \in 1..(Len(h) - k) : i <= j => times[i] <= times[j]
  <2> SUFFICES ASSUME NEW i \in 1..(Len(h) - k), NEW j \in 1..(Len(h) - k), i <= j
               PROVE  times[i] <= times[j]
    OBVIOUS
  <2>1. i + k <= j + k
    BY <1>1
  <2>2. QED
    BY <1>1, <1>2, <1>3, <2>1
<1>5. \A i \in 1..(Len(h) - k) : times[i] <= now
  BY <1>1, <1>2, <1>3
<1>6. QED
  BY <1>1, <1>4, <1>5 DEF Ordered

\* A history that gets the present failure stays in order.
LEMMA AppendOrdered ==
    ASSUME NEW h \in Seq(Nat), now \in Nat, Ordered(h)
    PROVE  Append(h, now) \in Seq(Nat) /\ Ordered(Append(h, now))
<1> DEFINE n == Len(h)
           longer == Append(h, now)
<1>1. /\ n \in Nat /\ longer \in Seq(Nat) /\ Len(longer) = n + 1
      /\ \A i \in 1..n : longer[i] = h[i]
      /\ longer[n + 1] = now
  BY AppendProperties
<1>2. DOMAIN h = 1..n
  OBVIOUS
<1>3. /\ \A i, j \in 1..n : i <= j => h[i] <= h[j]
      /\ \A i \in 1..n : h[i] <= now
  BY <1>2 DEF Ordered
<1> HIDE DEF n, longer
<1>4. DOMAIN longer = 1..(n + 1)
  BY <1>1
<1>5. \A i \in 1..(n + 1) : i = n + 1 \/ i \in 1..n
  BY <1>1
<1>6. \A i \in 1..(n + 1) : longer[i] <= now
  BY <1>1, <1>3, <1>5
<1>7. \A i, j \in 1..(n + 1) : i <= j => longer[i] <= longer[j]
  <2> SUFFICES ASSUME NEW i \in 1..(n + 1), NEW j \in 1..(n + 1), i <= j
               PROVE  longer[i] <= longer[j]
    OBVIOUS
  <2>1. CASE j = n + 1
    BY <1>1, <1>6, <2>1
  <2>2. CASE j \in 1..n
    <3>1. i \in 1..n
      BY <1>1, <2>2
    <3>2. QED
      BY <1>1, <1>3, <2>2, <3>1
  <2>3. QED
    BY <1>5, <2>1, <2>2
<1>8. QED
  BY <1>1, <1>4, <1>6, <1>7 DEF Ordered, longer

\* Pruning the stored end of the history prunes the history: nothing that it has
\* already lost could still count (record_failure, ratelimit.py:83-89).
LEMMA PrunedHistory ==
    ASSUME NEW h \in Seq(Nat), NEW times \in Seq(Nat), NEW k \in 0..Len(h),
           EndOfHistory(h, times, k), Ordered(h), now \in Nat
    PROVE  \E m \in 0..Len(Append(h, now)) :
              EndOfHistory(Append(h, now), Append(Recent(times), now), m)
<1> DEFINE n == Len(h)
           longer == Append(h, now)
           kept == Append(Recent(times), now)
<1>1. /\ n \in Nat /\ k \in Nat /\ k <= n /\ \A i \in 1..n : h[i] \in Nat
      /\ Len(times) = n - k
      /\ \A i \in 1..(n - k) : times[i] = h[i + k]
      /\ \A i \in 1..n : i > k <=> h[n] - h[i] < Window
      /\ Window \in Nat \ {0}
  BY LimiterAssumption DEF EndOfHistory
<1>2. PICK l \in 0..(n - k) :
             /\ Recent(times) \in Seq(Nat)
             /\ Len(Recent(times)) = n - k - l
             /\ \A i \in 1..(n - k - l) : Recent(times)[i] = times[i + l]
             /\ \A i \in 1..(n - k) : i > l <=> now - times[i] < Window
  BY <1>1, EndOrdered, RecentIsFilter
<1>3. /\ longer \in Seq(Nat) /\ Len(longer) = n + 1
      /\ \A i \in 1..n : longer[i] = h[i]
      /\ longer[n + 1] = now
  BY AppendProperties
<1>4. /\ kept \in Seq(Nat) /\ Len(kept) = n - k - l + 1
      /\ \A i \in 1..(n - k - l) : kept[i] = Recent(times)[i]
      /\ kept[n - k - l + 1] = now
  BY <1>2, AppendProperties
<1>5. DOMAIN h = 1..n
  OBVIOUS
<1>6. /\ \A i, j \in 1..n : i <= j => h[i] <= h[j]
      /\ \A i \in 1..n : h[i] <= now
  BY <1>5 DEF Ordered
<1> HIDE DEF n, longer, kept
<1>6a. \A i \in 1..n : h[i] <= h[n] /\ h[n] <= now
  <2>1. \A i \in 1..n : n \in 1..n /\ i <= n
    BY <1>1
  <2>2. QED
    BY <1>6, <2>1
<1> DEFINE m == k + l
<1>7. m \in 0..(n + 1) /\ (n + 1) - m = n - k - l + 1 /\ n - m = n - k - l /\ m <= n
  BY <1>1, <1>2
<1>8. ASSUME NEW i \in 1..((n + 1) - m)
      PROVE  kept[i] = longer[i + m]
  <2>1. CASE i = (n + 1) - m
    <3>1. i + m = n + 1
      BY <1>1, <1>7, <2>1
    <3>2. QED
      BY <1>3, <1>4, <1>7, <2>1, <3>1
  <2>2. CASE i # (n + 1) - m
    <3>1. i \in 1..(n - k - l) /\ i + l \in 1..(n - k) /\ i + m \in 1..n /\ (i + l) + k = i + m
      BY <1>1, <1>2, <1>7, <2>2
    <3>2. kept[i] = times[i + l]
      BY <1>2, <1>4, <3>1
    <3>3. times[i + l] = h[i + m]
      BY <1>1, <3>1
    <3>4. QED
      BY <1>3, <3>1, <3>2, <3>3
  <2>3. QED
    BY <2>1, <2>2
<1>9. ASSUME NEW i \in 1..(n + 1)
      PROVE  i > m <=> longer[n + 1] - longer[i] < Window
  <2>1. CASE i = n + 1
    BY <1>1, <1>3, <1>7, <2>1
  <2>2. CASE i \in 1..k
    <3>1. i \in 1..n /\ ~(i > k) /\ ~(i > m)
      BY <1>1, <1>2, <2>2
    <3>2. ~(h[n] - h[i] < Window)
      BY <1>1, <3>1
    <3>3. h[n] <= now /\ h[i] \in Nat /\ h[n] \in Nat /\ now \in Nat /\ Window \in Nat
      <4>1. n \in 1..n
        BY <1>1, <3>1
      <4>2. QED
        BY <1>1, <1>6a, <3>1, <4>1
    <3>4. ~(now - h[i] < Window)
      <4>1. \A x, y, z, w \in Nat : ~(x - y < w) /\ x <= z => ~(z - y < w)
        OBVIOUS
      <4>2. QED
        BY <3>2, <3>3, <4>1, Zenon
    <3>5. longer[n + 1] - longer[i] = now - h[i]
      BY <1>3, <3>1
    <3>6. QED
      BY <3>1, <3>4, <3>5, Zenon
  <2>3. CASE i \in (k + 1)..n
    <3>1. i \in 1..n /\ i - k \in 1..(n - k) /\ (i - k) + k = i /\ (i > m <=> i - k > l)
      BY <1>1, <1>2, <2>3
    <3>2. times[i - k] = h[i]
      BY <1>1, <3>1
    <3>3. i - k > l <=> now - h[i] < Window
      BY <1>2, <3>1, <3>2
    <3>4. longer[n + 1] - longer[i] = now - h[i]
      BY <1>3, <3>1
    <3>5. QED
      BY <3>1, <3>3, <3>4, Zenon
  <2>4. i = n + 1 \/ i \in 1..k \/ i \in (k + 1)..n
    BY <1>1
  <2>5. QED
    BY <2>1, <2>2, <2>3, <2>4, Zenon
<1> HIDE DEF m
<1>10. EndOfHistory(longer, kept, m)
  <2>1. Len(longer) = n + 1
    BY <1>3
  <2>1a. Len(kept) = (n + 1) - m
    BY <1>4, <1>7
  <2>2. \A i \in 1..((n + 1) - m) : kept[i] = longer[i + m]
    BY <1>8
  <2>3. \A i \in 1..(n + 1) : i > m <=> longer[n + 1] - longer[i] < Window
    BY <1>9
  <2>4. QED
    BY <2>1, <2>1a, <2>2, <2>3 DEF EndOfHistory
<1>11. m \in 0..Len(longer)
  BY <1>3, <1>7
<1>12. QED
  BY <1>10, <1>11 DEF longer, kept

\* The policy counts as the limiter does.
LEMMA SameCount == \A S : Policy!Cardinality(S) = Cardinality(S)
BY Zenon DEF Policy!Cardinality, Cardinality

\* The present failure triggers a lockout if it makes MaxAttempts within the window, and
\* changes nothing of what earlier ones triggered.
LEMMA TriggersGrow ==
    ASSUME NEW h \in Seq(Nat), now \in Nat, NEW m \in 0..(Len(h) + 1),
           \A i \in 1..(Len(h) + 1) : i > m <=> now - Append(h, now)[i] < Window
    PROVE  Policy!Triggers(Append(h, now)) =
               Policy!Triggers(h)
                 \cup (IF (Len(h) + 1) - m >= MaxAttempts THEN {Len(h) + 1} ELSE {})
<1> DEFINE n == Len(h)
           longer == Append(h, now)
           Near(list, i) == {j \in 1..i : list[i] - list[j] < Window}
<1>1. /\ n \in Nat /\ longer \in Seq(Nat) /\ Len(longer) = n + 1
      /\ \A i \in 1..n : longer[i] = h[i]
      /\ longer[n + 1] = now
  BY AppendProperties
<1>2. DOMAIN h = 1..n /\ DOMAIN longer = 1..(n + 1)
  BY <1>1
<1>3. \A i \in 1..(n + 1) : i > m <=> now - longer[i] < Window
  OBVIOUS
<1> HIDE DEF n, longer
<1>4. ASSUME NEW i \in 1..n
      PROVE  Near(longer, i) = Near(h, i)
  <2>1. \A j \in 1..i : j \in 1..n
    BY <1>1
  <2>2. \A j \in 1..i : longer[j] = h[j]
    BY <1>1, <2>1
  <2>3. longer[i] = h[i]
    BY <1>1
  <2>4. QED
    BY <2>2, <2>3
<1>5. Near(longer, n + 1) = (m + 1)..(n + 1)
  <2>1. m \in Nat /\ m <= n + 1
    BY <1>1 DEF n
  <2>2. \A j : j \in (m + 1)..(n + 1) <=> j \in 1..(n + 1) /\ j > m
    BY <1>1, <2>1
  <2>3. QED
    BY <1>1, <1>3, <2>2
<1>6. Cardinality(Near(longer, n + 1)) = (n + 1) - m
  <2>1. m \in Nat /\ m <= n + 1 /\ m + 1 \in Int /\ n + 1 \in Int
    BY <1>1 DEF n
  <2>2. Cardinality((m + 1)..(n + 1))
            = IF m + 1 > n + 1 THEN 0 ELSE (n + 1) - (m + 1) + 1
    BY <2>1, FS_Interval
  <2>3. (IF m + 1 > n + 1 THEN 0 ELSE (n + 1) - (m + 1) + 1) = (n + 1) - m
    BY <1>1, <2>1
  <2>4. QED
    BY <1>5, <2>2, <2>3
<1>7a. Policy!Triggers(longer)
           = {i \in DOMAIN longer : Cardinality(Near(longer, i)) >= MaxAttempts}
  BY SameCount, Zenon DEF Policy!Triggers
<1>7b. Policy!Triggers(h) = {i \in DOMAIN h : Cardinality(Near(h, i)) >= MaxAttempts}
  BY SameCount, Zenon DEF Policy!Triggers
<1> HIDE DEF Near
<1>7. \A i : i \in Policy!Triggers(longer)
                <=> i \in 1..(n + 1) /\ Cardinality(Near(longer, i)) >= MaxAttempts
  BY <1>2, <1>7a
<1>8. \A i : i \in Policy!Triggers(h)
                <=> i \in 1..n /\ Cardinality(Near(h, i)) >= MaxAttempts
  BY <1>2, <1>7b
<1>9. \A i : i \in 1..(n + 1) <=> i \in 1..n \/ i = n + 1
  BY <1>1
<1>10. n + 1 \notin 1..n
  BY <1>1
<1>11. ASSUME NEW i
       PROVE  i \in Policy!Triggers(longer) <=>
                  \/ i \in Policy!Triggers(h)
                  \/ i = n + 1 /\ (n + 1) - m >= MaxAttempts
  <2>1. CASE i \in 1..n
    BY <1>4, <1>7, <1>8, <1>9, <1>10, <2>1
  <2>2. CASE i = n + 1
    BY <1>6, <1>7, <1>8, <1>9, <1>10, <2>2
  <2>3. CASE i \notin 1..n /\ i # n + 1
    BY <1>7, <1>8, <1>9, <2>3
  <2>4. QED
    BY <2>1, <2>2, <2>3
<1>12. Policy!Triggers(longer) =
           Policy!Triggers(h) \cup (IF (n + 1) - m >= MaxAttempts THEN {n + 1} ELSE {})
  BY <1>11
<1>13. QED
  BY <1>12 DEF n, longer

\* Nothing has triggered a lockout in an empty history.
LEMMA NoTriggers == Policy!Triggers(<<>>) = {}
BY DEF Policy!Triggers

\* Nothing has triggered a lockout in an empty history, and it is all there is to know
\* of a fresh entry.
LEMMA EmptyHistory ==
    /\ Policy!Triggers(<<>>) = {}
    /\ EndOfHistory(<<>>, <<>>, 0)
    /\ Ordered(<<>>)
<1>1. Policy!Triggers(<<>>) = {}
  BY DEF Policy!Triggers
<1>2. EndOfHistory(<<>>, <<>>, 0)
  BY DEF EndOfHistory
<1>3. QED
  BY <1>1, <1>2 DEF Ordered

----------------------------------------------------------------------------
(* The steps. *)

\* What is known of u survives while its entry and history do.
LEMMA KnownKept ==
    ASSUME TypeOK, NEW u \in Users, Known(u), state'[u] = state[u], log'[u] = log[u],
           now' \in Nat, now' >= now
    PROVE  Known(u)'
<1>1. log[u] \in Seq(Nat) /\ now \in Nat
  BY DEF TypeOK, LimiterTypeOK
<1>2. Ordered(log[u])'
  <2>1. \A i \in DOMAIN log[u] : log[u][i] \in Nat
    BY <1>1
  <2>2. QED
    BY <1>1, <2>1 DEF Known, Ordered
<1>3. Remembered(u)'
  BY DEF Known, Remembered
<1>4. LocksMatch(u)'
  BY DEF Known, LocksMatch, Policy!Triggers
<1>5. QED
  BY <1>2, <1>3, <1>4 DEF Known

\* A fresh entry with no history is known.
LEMMA KnownFresh ==
    ASSUME NEW u \in Users, state'[u] = Fresh, log'[u] = <<>>
    PROVE  Known(u)'
<1>1. state'[u].failure_times = <<>> /\ state'[u].locked_until = None
  BY DEF Fresh
<1>2. Ordered(log[u])'
  BY DEF Ordered
<1>3. 0 \in 0..Len(<<>>)
  OBVIOUS
<1>4. Remembered(u)'
  BY <1>1, <1>3, EmptyHistory DEF Remembered
<1>5. LocksMatch(u)'
  BY <1>1, EmptyHistory DEF LocksMatch
<1>6. QED
  BY <1>2, <1>4, <1>5 DEF Known

\* record_failure lengthens the history, prunes the stored list as the history would
\* be, and sets the lock exactly when the failure triggers one (ratelimit.py:83-91).
LEMMA KnownFailure ==
    ASSUME TypeOK, NEW u \in Users, Known(u), RecordFailure(u), now' = now,
           log' = [log EXCEPT ![u] = Append(@, now)]
    PROVE  Known(u)'
<1> DEFINE h == log[u]
           n == Len(log[u])
           longer == Append(log[u], now)
           kept == Append(Recent(state[u].failure_times), now)
           lock == state[u].locked_until
           lock2 == state'[u].locked_until
<1>1. /\ h \in Seq(Nat) /\ state[u].failure_times \in Seq(Nat) /\ now \in Nat
      /\ lock \in Nat \cup {None} /\ LimiterTypeOK
      /\ MaxAttempts \in Nat /\ Lockout \in Nat /\ None \notin Nat
  BY LimiterAssumption DEF TypeOK, LimiterTypeOK, Entry
<1>2. /\ longer \in Seq(Nat) /\ n \in Nat /\ Len(longer) = n + 1
      /\ \A i \in 1..n : longer[i] = h[i]
      /\ longer[n + 1] = now
  BY <1>1, AppendProperties
<1>3. Ordered(h) /\ \E k \in 0..n : EndOfHistory(h, state[u].failure_times, k)
  BY DEF Known, Remembered
<1>4. PICK m \in 0..Len(longer) : EndOfHistory(longer, kept, m)
  BY <1>1, <1>3, PrunedHistory
<1>5. log'[u] = longer
  BY DEF TypeOK
<1>6. /\ state'[u].failure_times = kept
      /\ lock2 = IF Len(kept) >= MaxAttempts THEN now + Lockout ELSE lock
  BY <1>1, RecordFailureEntry
<1>7. Ordered(longer)
  BY <1>1, <1>3, AppendOrdered
<1>8. Policy!Triggers(longer) =
          Policy!Triggers(h) \cup (IF (n + 1) - m >= MaxAttempts THEN {n + 1} ELSE {})
  <2>1. \A i \in 1..(n + 1) : i > m <=> now - longer[i] < Window
    BY <1>2, <1>4 DEF EndOfHistory
  <2>2. m \in 0..(n + 1)
    BY <1>2, <1>4
  <2>3. QED
    BY <1>1, <2>1, <2>2, TriggersGrow
<1>9. Len(kept) = (n + 1) - m
  BY <1>2, <1>4 DEF EndOfHistory
<1>10. \A i \in Policy!Triggers(h) : i \in 1..n /\ h[i] \in Nat /\ h[i] <= now
  <2>1. \A i \in Policy!Triggers(h) : i \in DOMAIN h
    BY DEF Policy!Triggers
  <2>2. DOMAIN h = 1..n /\ \A i \in 1..n : h[i] \in Nat
    BY <1>1
  <2>3. QED
    BY <1>3, <2>1, <2>2 DEF Ordered
<1>11. /\ lock = None => Policy!Triggers(h) = {}
       /\ lock # None => /\ \E i \in Policy!Triggers(h) : lock = h[i] + Lockout
                         /\ \A i \in Policy!Triggers(h) : h[i] + Lockout <= lock
  BY DEF Known, LocksMatch
<1> HIDE DEF h, n, longer, kept, lock, lock2
<1>12. /\ lock2 = None => Policy!Triggers(longer) = {}
       /\ lock2 # None =>
             /\ \E i \in Policy!Triggers(longer) : lock2 = longer[i] + Lockout
             /\ \A i \in Policy!Triggers(longer) : longer[i] + Lockout <= lock2
  <2>1. CASE (n + 1) - m >= MaxAttempts
    <3>1. lock2 = now + Lockout /\ Policy!Triggers(longer) = Policy!Triggers(h) \cup {n + 1}
      BY <1>6, <1>8, <1>9, <2>1
    <3>2. lock2 # None
      BY <1>1, <3>1
    <3>3. ASSUME NEW i \in Policy!Triggers(h)
          PROVE  longer[i] + Lockout <= lock2
      <4>1. longer[i] = h[i] /\ h[i] \in Nat /\ h[i] <= now
        BY <1>2, <1>10
      <4>2. now \in Nat /\ Lockout \in Nat
        BY <1>1
      <4>3. QED
        BY <3>1, <4>1, <4>2
    <3>4. longer[n + 1] + Lockout <= lock2
      BY <1>1, <1>2, <3>1
    <3>5. QED
      BY <1>2, <3>1, <3>2, <3>3, <3>4
  <2>2. CASE ~((n + 1) - m >= MaxAttempts)
    <3>1. lock2 = lock /\ Policy!Triggers(longer) = Policy!Triggers(h)
      BY <1>6, <1>8, <1>9, <2>2
    <3>2. \A i \in Policy!Triggers(h) : longer[i] = h[i]
      BY <1>2, <1>10
    <3>3. QED
      BY <1>11, <3>1, <3>2
  <2>3. QED
    BY <2>1, <2>2
<1>13. LocksMatch(u)'
  BY <1>5, <1>12 DEF LocksMatch, lock2
<1>14. Remembered(u)'
  BY <1>4, <1>5, <1>6 DEF Remembered
<1>15. Ordered(log[u])'
  BY <1>5, <1>7 DEF Ordered
<1>16. QED
  BY <1>13, <1>14, <1>15 DEF Known

\* Every call keeps the types (ratelimit.py:41-44).
LEMMA TypeStep ==
    ASSUME TypeOK, [Next]_vars
    PROVE  TypeOK'
<1>1. LimiterTypeOK /\ now \in Nat /\ log \in [Users -> Seq(Nat)]
  BY DEF TypeOK, LimiterTypeOK
<1>2. CASE UNCHANGED vars
  BY <1>2 DEF vars, TypeOK, LimiterTypeOK
<1>3. CASE TimePasses
  BY <1>1, <1>3 DEF TimePasses, Tick, TypeOK, LimiterTypeOK
<1>4. ASSUME NEW u \in Users, CheckRefuses(u)
      PROVE  TypeOK'
  BY <1>4 DEF CheckRefuses, TypeOK, LimiterTypeOK
<1>5. ASSUME NEW u \in Users, CheckAllows(u)
      PROVE  TypeOK'
  <2>1. state' \in [Users -> Entry]
    BY <1>1, <1>5, FreshProperties DEF CheckAllows, CheckPasses, LimiterTypeOK
  <2>2. log' \in [Users -> Seq(Nat)]
    <3>1. <<>> \in Seq(Nat)
      BY EmptySeq
    <3>2. QED
      BY <1>1, <1>5, <3>1 DEF CheckAllows
  <2>3. QED
    BY <1>1, <1>5, <2>1, <2>2 DEF CheckAllows, TypeOK, LimiterTypeOK
<1>6. ASSUME NEW u \in Users, CallRecordFailure(u)
      PROVE  TypeOK'
  <2> DEFINE times == Append(Recent(state[u].failure_times), now)
             lock == IF Len(times) >= MaxAttempts THEN now + Lockout ELSE state[u].locked_until
  <2>1. state[u].failure_times \in Seq(Nat) /\ state[u].locked_until \in Nat \cup {None}
    BY <1>1 DEF LimiterTypeOK, Entry
  <2>2. times \in Seq(Nat) /\ now + Lockout \in Nat
    BY <1>1, <2>1, RecentProperties, AppendProperties, LimiterAssumption
  <2>3. state' = [state EXCEPT ![u] = [failure_times |-> times, locked_until |-> lock]]
    BY <1>6 DEF CallRecordFailure, RecordFailure
  <2> HIDE DEF times
  <2>4. [failure_times |-> times, locked_until |-> lock] \in Entry
    BY <2>1, <2>2 DEF Entry
  <2> HIDE DEF lock
  <2>5. state' \in [Users -> Entry]
    BY <1>1, <2>3, <2>4 DEF LimiterTypeOK
  <2>6. Append(log[u], now) \in Seq(Nat)
    BY <1>1, AppendProperties
  <2>7. log' = [log EXCEPT ![u] = Append(log[u], now)] /\ now' = now /\ answer' = "none"
    BY <1>6 DEF CallRecordFailure
  <2>8. log' \in [Users -> Seq(Nat)]
    BY <1>1, <2>6, <2>7
  <2>9. QED
    BY <1>1, <2>5, <2>7, <2>8 DEF TypeOK, LimiterTypeOK
<1>7. ASSUME NEW u \in Users, CallReset(u)
      PROVE  TypeOK'
  <2>1. state' \in [Users -> Entry]
    BY <1>1, <1>7, FreshProperties DEF CallReset, Reset, LimiterTypeOK
  <2>2. log' \in [Users -> Seq(Nat)]
    BY <1>1, <1>7, EmptySeq DEF CallReset
  <2>3. QED
    BY <1>1, <1>7, <2>1, <2>2 DEF CallReset, TypeOK, LimiterTypeOK
<1>8. QED
  BY <1>2, <1>3, <1>4, <1>5, <1>6, <1>7 DEF Next

\* Every call keeps what is known of every username (ratelimit.py:71-94).
LEMMA KnownStep ==
    ASSUME HistoryInv, [Next]_vars, NEW u \in Users
    PROVE  Known(u)'
<1>1. TypeOK /\ Known(u) /\ LimiterTypeOK /\ now \in Nat
  BY DEF HistoryInv, TypeOK, LimiterTypeOK
<1>2. CASE UNCHANGED vars \/ TimePasses
  <2>1. state' = state /\ log' = log /\ now' \in Nat /\ now' >= now
    BY <1>1, <1>2 DEF vars, TimePasses, Tick
  <2>2. QED
    BY <1>1, <2>1, KnownKept
<1>3. ASSUME NEW v \in Users,
             CheckRefuses(v) \/ CheckAllows(v) \/ CallRecordFailure(v) \/ CallReset(v)
      PROVE  Known(u)'
  <2>1. now' = now /\ now' \in Nat /\ now' >= now
    BY <1>1, <1>3 DEF CheckRefuses, CheckAllows, CallRecordFailure, CallReset
  <2>2. CASE state'[u] = state[u] /\ log'[u] = log[u]
    BY <1>1, <2>1, <2>2, KnownKept
  <2>3. CASE state'[u] = Fresh /\ log'[u] = <<>>
    BY <2>3, KnownFresh
  <2>4. CASE CheckRefuses(v)
    BY <2>2, <2>4 DEF CheckRefuses
  <2>5. CASE CheckAllows(v)
    BY <1>1, <2>2, <2>3, <2>5 DEF CheckAllows, CheckPasses, TypeOK, LimiterTypeOK
  <2>6. CASE CallReset(v)
    BY <1>1, <2>2, <2>3, <2>6 DEF CallReset, Reset, TypeOK, LimiterTypeOK
  <2>7. CASE CallRecordFailure(v)
    <3>1. CASE u = v
      <4>1. RecordFailure(u) /\ log' = [log EXCEPT ![u] = Append(@, now)]
        BY <2>7, <3>1 DEF CallRecordFailure
      <4>2. QED
        BY <1>1, <2>1, <4>1, KnownFailure
    <3>2. CASE u # v
      BY <1>1, <2>2, <2>7, <3>2
         DEF CallRecordFailure, RecordFailure, TypeOK, LimiterTypeOK
    <3>3. QED
      BY <3>1, <3>2
  <2>8. QED
    BY <1>3, <2>4, <2>5, <2>6, <2>7
<1>4. QED
  BY <1>2, <1>3 DEF Next

----------------------------------------------------------------------------

\* What the limiter stores says what the history would, in any order of calls
\* (ratelimit.py:47-94).
THEOREM Invariant == Spec => []HistoryInv
<1>1. Init => HistoryInv
  <2> SUFFICES ASSUME Init
               PROVE  HistoryInv
    OBVIOUS
  <2>1. /\ state = [u \in Users |-> Fresh] /\ now = 0 /\ answer = "none"
        /\ log = [u \in Users |-> <<>>]
    BY DEF Init, LimiterInit
  <2>2. TypeOK
    BY <2>1, FreshProperties, EmptySeq DEF TypeOK, LimiterTypeOK
  <2>3. ASSUME NEW u \in Users
        PROVE  Known(u)
    <3>1. log[u] = <<>> /\ state[u].failure_times = <<>> /\ state[u].locked_until = None
      BY <2>1 DEF Fresh
    <3>2. Ordered(log[u])
      BY <3>1 DEF Ordered
    <3>3. 0 \in 0..Len(<<>>)
      OBVIOUS
    <3>4. Remembered(u)
      BY <3>1, <3>3, EmptyHistory DEF Remembered
    <3>5. LocksMatch(u)
      BY <3>1, EmptyHistory DEF LocksMatch
    <3>6. QED
      BY <3>2, <3>4, <3>5 DEF Known
  <2>4. QED
    BY <2>2, <2>3 DEF HistoryInv
<1>2. HistoryInv /\ [Next]_vars => HistoryInv'
  <2>1. HistoryInv /\ [Next]_vars => TypeOK'
    BY TypeStep DEF HistoryInv
  <2>2. HistoryInv /\ [Next]_vars => \A u \in Users : Known(u)'
    BY KnownStep
  <2>3. QED
    BY <2>1, <2>2 DEF HistoryInv
<1>3. QED
  BY <1>1, <1>2, PTL DEF Spec

\* Every variable keeps its type, in any order of calls (ratelimit.py:41-44).
THEOREM TypeCorrect == Spec => []TypeOK
<1>1. HistoryInv => TypeOK
  BY DEF HistoryInv
<1>2. QED
  BY <1>1, Invariant, PTL

----------------------------------------------------------------------------
(* The comprehension of record_failure. *)

\* A set of numbers that is not empty has a least one.
LEMMA LeastNumber ==
    ASSUME NEW T \in SUBSET Nat, T # {}
    PROVE  \E n \in T : \A m \in T : n <= m
<1> DEFINE R == OpToRel(<, Nat)
<1>1. IsWellFoundedOn(R, Nat)
  BY NatLessThanWellFounded
<1>2. \A x, y \in Nat : x < y => <<x, y>> \in R
  BY DEF OpToRel
<1> HIDE DEF R
<1>3. PICK x \in T : \A y \in T : ~(<<y, x>> \in R)
  BY <1>1, WFMin
<1>4. ASSUME NEW y \in T
      PROVE  x <= y
  <2>1. x \in Nat /\ y \in Nat
    OBVIOUS
  <2>2. ~(y < x)
    BY <2>1, <1>2, <1>3
  <2>3. QED
    BY <2>1, <2>2
<1>5. QED
  BY <1>4

\* A stretch of a list is the stretch one shorter and its last place.
LEMMA LongerStretch ==
    ASSUME NEW times \in Seq(Nat), NEW k \in 0..Len(times), NEW i \in 1..Len(times), i > k
    PROVE  SubSeq(times, k + 1, i) = Append(SubSeq(times, k + 1, i - 1), times[i])
<1> DEFINE a == SubSeq(times, k + 1, i)
           b == SubSeq(times, k + 1, i - 1)
<1>1. /\ k \in Nat /\ i \in Nat /\ k < i /\ i <= Len(times) /\ Len(times) \in Nat
      /\ \A j \in 1..Len(times) : times[j] \in Nat
  OBVIOUS
<1>2. i - 1 \in Nat /\ i - 1 >= k /\ i - 1 <= Len(times) /\ k + 1 \in 1..Len(times)
  BY <1>1
<1>3. /\ a \in Seq(Nat) /\ Len(a) = i - k
      /\ \A j \in 1..(i - k) : a[j] = times[k + j]
  BY <1>1, <1>2
<1>4. /\ b \in Seq(Nat) /\ Len(b) = i - 1 - k
      /\ \A j \in 1..(i - 1 - k) : b[j] = times[k + j]
  BY <1>1, <1>2
<1>5. times[i] \in Nat
  BY <1>1
<1> HIDE DEF a, b
<1>6. /\ Append(b, times[i]) \in Seq(Nat) /\ Len(Append(b, times[i])) = i - k
      /\ \A j \in 1..(i - 1 - k) : Append(b, times[i])[j] = times[k + j]
      /\ Append(b, times[i])[i - k] = times[i]
  BY <1>1, <1>2, <1>4, <1>5, AppendProperties
<1>7. k + (i - k) = i /\ i - k \in Nat
  BY <1>1
<1>8. ASSUME NEW j \in 1..(i - k)
      PROVE  a[j] = Append(b, times[i])[j]
  <2>1. j \in 1..(i - 1 - k) \/ j = i - k
    BY <1>1, <1>7
  <2>2. QED
    BY <2>1, <1>3, <1>6, <1>7
<1>9. a = Append(b, times[i])
  BY <1>3, <1>6, <1>8, SeqEqual
<1>10. QED
  BY <1>9 DEF a, b

\* When the timestamps within the window are the end of the list, that end is what the
\* comprehension yields (ratelimit.py:86-88).
LEMMA FilteredIsEnd ==
    ASSUME NEW times \in Seq(Nat), NEW k \in 0..Len(times),
           \A i \in 1..Len(times) : i > k <=> now - times[i] < Window
    PROVE  Filtered(times) = SubSeq(times, k + 1, Len(times))
<1> DEFINE n == Len(times)
           Step(f) == [i \in 0..Len(times) |->
                         IF i = 0 THEN <<>>
                         ELSE IF now - times[i] < Window THEN Append(f[i - 1], times[i])
                         ELSE f[i - 1]]
           kept == CHOOSE f : f = Step(f)
           end == [i \in 0..n |-> SubSeq(times, k + 1, i)]
<1>1. Filtered(times) = kept[n]
  BY DEF Filtered
<1>2. /\ n \in Nat /\ k \in Nat /\ k <= n
      /\ \A i \in 1..n : i > k <=> now - times[i] < Window
  OBVIOUS
<1>3. \A i \in 0..n : i <= k => SubSeq(times, k + 1, i) = <<>>
  BY <1>2
<1>4. end = Step(end)
  <2>1. ASSUME NEW i \in 0..n
        PROVE  end[i] = Step(end)[i]
    <3>1. CASE i = 0
      BY <3>1, <1>2, <1>3
    <3>2. CASE i # 0 /\ i <= k
      <4>1. i \in 1..n /\ i - 1 \in 0..n /\ i - 1 <= k /\ ~(i > k)
        BY <3>2, <1>2
      <4>2. ~(now - times[i] < Window)
        BY <4>1, <1>2
      <4>3. end[i] = <<>> /\ end[i - 1] = <<>>
        BY <4>1, <1>3
      <4>4. Step(end)[i] = end[i - 1]
        BY <4>2, <4>1
      <4>5. QED
        BY <4>3, <4>4
    <3>3. CASE i > k
      <4>1. i \in 1..n /\ i - 1 \in 0..n /\ i # 0
        BY <3>3, <1>2
      <4>2. now - times[i] < Window
        BY <4>1, <3>3, <1>2
      <4>3. Step(end)[i] = Append(end[i - 1], times[i])
        BY <4>2, <4>1
      <4>4. end[i] = Append(end[i - 1], times[i])
        BY <4>1, <3>3, LongerStretch
      <4>5. QED
        BY <4>3, <4>4
    <3>4. i = 0 \/ (i # 0 /\ i <= k) \/ i > k
      BY <1>2
    <3>5. QED
      BY <3>1, <3>2, <3>3, <3>4, Zenon
  <2>2. QED
    BY <2>1
<1>5. kept = Step(kept)
  BY <1>4
<1>6. ASSUME NEW f, f = Step(f), NEW i \in 0..n
      PROVE  f[i] = IF i = 0 THEN <<>>
                    ELSE IF now - times[i] < Window THEN Append(f[i - 1], times[i])
                    ELSE f[i - 1]
  <2>1. Step(f)[i] = IF i = 0 THEN <<>>
                     ELSE IF now - times[i] < Window THEN Append(f[i - 1], times[i])
                     ELSE f[i - 1]
    OBVIOUS
  <2> HIDE DEF Step
  <2>2. QED
    BY <1>6, <2>1, Zenon
<1>7. end[n] = SubSeq(times, k + 1, n)
  BY <1>2
<1> HIDE DEF kept, end, n, Step
<1>8. \A i \in 0..n : kept[i] = end[i]
  <2> DEFINE Differ == {i \in 0..n : kept[i] # end[i]}
  <2>1. SUFFICES ASSUME Differ # {}
                 PROVE  FALSE
    OBVIOUS
  <2>2. Differ \in SUBSET Nat
    BY <1>2
  <2>3. PICK i \in Differ : \A m \in Differ : i <= m
    BY <2>1, <2>2, LeastNumber
  <2>4. i \in 0..n /\ kept[i] # end[i]
    OBVIOUS
  <2>5. i # 0
    BY <2>4, <1>4, <1>5, <1>6
  <2>6. i - 1 \in 0..n /\ ~(i <= i - 1)
    BY <2>4, <2>5, <1>2
  <2>7. kept[i - 1] = end[i - 1]
    BY <2>3, <2>6
  <2>8. QED
    BY <2>4, <2>5, <2>7, <1>4, <1>5, <1>6
<1>9. n \in 0..n
  BY <1>2
<1>10. QED
  BY <1>1, <1>7, <1>8, <1>9 DEF n

\* In every state, the end of the list that Recent keeps is what the comprehension
\* selects: timestamps never get out of order, whatever calls interleave
\* (ratelimit.py:86-88).
THEOREM PruningIsFiltering == Spec => []PruneIsFilter
<1>1. ASSUME HistoryInv, NEW u \in Users
      PROVE  Recent(state[u].failure_times) = Filtered(state[u].failure_times)
  <2> DEFINE times == state[u].failure_times
  <2>1. /\ times \in Seq(Nat) /\ log[u] \in Seq(Nat) /\ now \in Nat
        /\ Ordered(log[u]) /\ Remembered(u)
    BY <1>1 DEF HistoryInv, TypeOK, LimiterTypeOK, Entry, Known
  <2>2. Ordered(times)
    BY <2>1, EndOrdered DEF Remembered
  <2> HIDE DEF times
  <2>3. PICK k \in 0..Len(times) :
           /\ Expired(times) = 1..k
           /\ \A i \in 1..Len(times) : i > k <=> now - times[i] < Window
    BY <2>1, <2>2, RecentIsFilter
  <2>4. k \in Nat /\ Cardinality(1..k) = k
    BY <2>1, FirstNaturals
  <2>5. Recent(times) = SubSeq(times, k + 1, Len(times))
    BY <2>3, <2>4, Zenon DEF Recent
  <2>6. Filtered(times) = SubSeq(times, k + 1, Len(times))
    BY <2>1, <2>3, FilteredIsEnd
  <2>7. QED
    BY <2>5, <2>6 DEF times
<1>2. HistoryInv => PruneIsFilter
  BY <1>1, Zenon DEF PruneIsFilter
<1>3. QED
  BY <1>2, Invariant, PTL

----------------------------------------------------------------------------
(* The refinement. *)

\* check refuses exactly when the policy does, and forgets exactly when the policy has
\* a lockout to forget (ratelimit.py:71-81).
LEMMA SameAnswer ==
    ASSUME HistoryInv, NEW u \in Users
    PROVE  /\ Policy!Refused(log[u]) <=> Locked(u)
           /\ Policy!Triggers(log[u]) # {} <=> state[u].locked_until # None
<1> DEFINE h == log[u]
           lock == state[u].locked_until
<1>1. /\ h \in Seq(Nat) /\ now \in Nat /\ lock \in Nat \cup {None}
      /\ Lockout \in Nat /\ None \notin Nat
  BY LimiterAssumption DEF HistoryInv, TypeOK, LimiterTypeOK, Entry
<1>2. /\ lock = None => Policy!Triggers(h) = {}
      /\ lock # None => /\ \E i \in Policy!Triggers(h) : lock = h[i] + Lockout
                        /\ \A i \in Policy!Triggers(h) : h[i] + Lockout <= lock
  BY DEF HistoryInv, Known, LocksMatch
<1>3. \A i \in Policy!Triggers(h) : h[i] \in Nat
  <2>1. \A i \in Policy!Triggers(h) : i \in DOMAIN h
    BY DEF Policy!Triggers
  <2>2. \A i \in DOMAIN h : h[i] \in Nat
    BY <1>1
  <2>3. QED
    BY <2>1, <2>2
<1>4. Locked(u) <=> lock # None /\ now < lock
  BY DEF Locked
<1>5. Policy!Refused(h) <=> \E i \in Policy!Triggers(h) : now < h[i] + Lockout
  BY DEF Policy!Refused
<1> HIDE DEF h, lock
<1>6. CASE lock = None
  BY <1>2, <1>4, <1>5, <1>6 DEF h, lock
<1>7. CASE lock # None
  <2>1. lock \in Nat
    BY <1>1, <1>7
  <2>2. PICK i \in Policy!Triggers(h) : lock = h[i] + Lockout
    BY <1>2, <1>7
  <2>3. now < lock => Policy!Refused(h)
    BY <1>5, <2>2
  <2>4. Policy!Refused(h) => now < lock
    <3>1. SUFFICES ASSUME NEW j \in Policy!Triggers(h), now < h[j] + Lockout
                   PROVE  now < lock
      BY <1>5
    <3>2. h[j] \in Nat /\ h[j] + Lockout <= lock
      BY <1>2, <1>3, <1>7
    <3>3. QED
      BY <1>1, <2>1, <3>1, <3>2
  <2>5. QED
    BY <1>4, <1>7, <2>2, <2>3, <2>4 DEF h, lock
<1>8. QED
  BY <1>6, <1>7

\* Every call of the limiter is a step of the policy, or changes nothing it can see.
LEMMA StepRefines ==
    ASSUME HistoryInv, [Next]_vars
    PROVE  [Policy!Next]_(Policy!vars)
<1>1. CASE UNCHANGED vars
  BY <1>1 DEF vars, Policy!vars
<1>2. CASE TimePasses
  <2>1. Policy!Pass
    BY <1>2 DEF TimePasses, Tick, Policy!Pass
  <2>2. QED
    BY <2>1 DEF Policy!Next
<1>3. ASSUME NEW u \in Users, CheckRefuses(u)
      PROVE  Policy!Attempt(u)
  <2>1. /\ Locked(u) /\ answer' = "refused" /\ UNCHANGED <<state, now, log>>
    BY <1>3 DEF CheckRefuses
  <2>2. Policy!Refused(log[u])
    BY <2>1, SameAnswer
  <2>3. QED
    BY <2>1, <2>2 DEF Policy!Attempt
<1>4. ASSUME NEW u \in Users, CheckAllows(u)
      PROVE  Policy!Attempt(u)
  <2>1. /\ ~Locked(u) /\ answer' = "allowed" /\ now' = now
        /\ log' = IF state[u].locked_until = None THEN log ELSE [log EXCEPT ![u] = <<>>]
    BY <1>4 DEF CheckAllows, CheckPasses
  <2>2. ~Policy!Refused(log[u])
    BY <2>1, SameAnswer
  <2>3. Policy!Triggers(log[u]) # {} <=> state[u].locked_until # None
    BY SameAnswer
  <2>4. QED
    BY <2>1, <2>2, <2>3 DEF Policy!Attempt
<1>5. ASSUME NEW u \in Users, CallRecordFailure(u)
      PROVE  Policy!Fail(u)
  BY <1>5 DEF CallRecordFailure, Policy!Fail
<1>6. ASSUME NEW u \in Users, CallReset(u)
      PROVE  Policy!Succeed(u)
  BY <1>6 DEF CallReset, Policy!Succeed
<1>7. QED
  BY <1>1, <1>2, <1>3, <1>4, <1>5, <1>6 DEF Next, Policy!Next

\* Storing only a pruned list and one locked_until loses nothing: in any order of calls
\* check answers as the policy that keeps the whole history, whichever of lockout and
\* window is longer (RateLimiter, ratelimit.py:47-94).
THEOREM LimiterIsPolicy == Spec => ImplementsPolicy
<1>1. Init => Policy!Init
  BY DEF Init, LimiterInit, Policy!Init
<1>2. HistoryInv /\ [Next]_vars => [Policy!Next]_(Policy!vars)
  BY StepRefines
<1>3. Spec => Policy!Spec
  BY <1>1, <1>2, Invariant, PTL DEF Spec, Policy!Spec
<1>4. QED
  BY <1>3 DEF ImplementsPolicy
====
