---- MODULE RateLimiter ----
(***************************************************************************)
(* ratelimit.RateLimiter: the per-username failed-authentication limiter   *)
(* that /v1/mint (password path) and /v1/keytab consult before a password  *)
(* is offered to the KDC.  The module holds the limiter's state and one    *)
(* operator per method; RateLimiterHistory drives it alone, TokenService   *)
(* drives it from the request handlers.                                    *)
(*                                                                         *)
(* The clock is integral: only differences of timestamps matter to the     *)
(* code, and MaxTime bounds it for TLC.                                    *)
(***************************************************************************)
EXTENDS Integers, Sequences, FiniteSets

CONSTANTS Users,        \* the CERN usernames requests name
          MaxAttempts,  \* max_attempts     (failed_auth_max_attempts)
          Window,       \* window_seconds   (failed_auth_window_seconds)
          Lockout,      \* lockout_seconds  (failed_auth_lockout_seconds)
          MaxTime,      \* bound: the clock stops here
          None          \* Python's None

\* config.Settings declares the three limiter settings with gt=0.
ASSUME LimiterAssumption ==
    /\ MaxAttempts \in Nat \ {0}
    /\ Window \in Nat \ {0}
    /\ Lockout \in Nat \ {0}
    /\ MaxTime \in Nat
    /\ None \notin Nat

VARIABLES state,  \* state[u]: the _UsernameState of u, Fresh when the dict has no entry
          now     \* the monotonic clock

limiterVars == <<state, now>>

Entry == [failure_times : Seq(Nat), locked_until : Nat \cup {None}]

\* _UsernameState(): what setdefault creates.  A missing entry behaves exactly
\* like a fresh one in check, record_failure and reset, so both are Fresh.
Fresh == [failure_times |-> <<>>, locked_until |-> None]

LimiterTypeOK ==
    /\ state \in [Users -> Entry]
    /\ now \in Nat

LimiterInit ==
    /\ state = [u \in Users |-> Fresh]
    /\ now = 0

----------------------------------------------------------------------------
\* The test of check: RateLimitedError is raised.
Locked(u) ==
    /\ state[u].locked_until # None
    /\ now < state[u].locked_until

\* Mutant: the expired branch lifts the lock and keeps the old timestamps.
CheckPassesDirty(u) ==
    /\ ~Locked(u)
    /\ state' = [state EXCEPT ![u].locked_until = None]

\* check returns.  An expired lockout starts the username clean.
CheckPasses(u) ==
    /\ ~Locked(u)
    /\ state' = IF state[u].locked_until = None
                  THEN state
                  ELSE [state EXCEPT ![u] = Fresh]

\* Mutant: the comprehension reads `now - t <= window`.
ExpiredLate(times) == {i \in DOMAIN times : now - times[i] > Window}

\* The timestamps record_failure drops.
Expired(times) == {i \in DOMAIN times : now - times[i] >= Window}

\* The list comprehension of record_failure.  Timestamps are appended from a
\* monotonic clock, so the list is sorted and the expired ones are its prefix.
Recent(times) == SubSeq(times, Cardinality(Expired(times)) + 1, Len(times))

\* Mutant: the lock starts in the past.
RecordFailureSigned(u) ==
    LET times == Append(Recent(state[u].failure_times), now)
    IN state' = [state EXCEPT
           ![u] = [failure_times |-> times,
                   locked_until  |-> IF Len(times) >= MaxAttempts
                                       THEN now - Lockout ELSE @.locked_until]]

\* Mutant: a failure that finds a shorter list clears a lockout set meanwhile.
RecordFailureUnlocks(u) ==
    LET times == Append(Recent(state[u].failure_times), now)
    IN state' = [state EXCEPT
           ![u] = [failure_times |-> times,
                   locked_until  |-> IF Len(times) >= MaxAttempts
                                       THEN now + Lockout ELSE None]]

\* Mutant: the lockout comes one failure late.
RecordFailureLate(u) ==
    LET times == Append(Recent(state[u].failure_times), now)
    IN state' = [state EXCEPT
           ![u] = [failure_times |-> times,
                   locked_until  |-> IF Len(times) > MaxAttempts
                                       THEN now + Lockout ELSE @.locked_until]]

RecordFailure(u) ==
    LET times == Append(Recent(state[u].failure_times), now)
    IN state' = [state EXCEPT
           ![u] = [failure_times |-> times,
                   locked_until  |-> IF Len(times) >= MaxAttempts
                                       THEN now + Lockout ELSE @.locked_until]]

Reset(u) == state' = [state EXCEPT ![u] = Fresh]

\* How long the limiter holds a failure against its username: for the window, unless
\* the lockout it led to was shorter and took it along (ratelimit.py:78-88).  What
\* the limiter promises, it promises of the failures within one Span.
Span == IF Lockout < Window THEN Lockout ELSE Window

\* time.monotonic() moves on between two calls.
Tick ==
    /\ now < MaxTime
    /\ now' = now + 1
====
