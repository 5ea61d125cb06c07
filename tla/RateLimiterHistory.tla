---- MODULE RateLimiterHistory ----
(***************************************************************************)
(* The limiter alone, its methods called in any order (concurrent requests *)
(* interleave them so), with two history variables: every failure since    *)
(* the username last started clean, and the answer of the last call.  They *)
(* carry the refinement to LockoutPolicy.                                  *)
(***************************************************************************)
EXTENDS RateLimiter

CONSTANT MaxLog   \* bound: failures remembered per username

VARIABLES log,    \* log[u]: every failure time since u last started clean
          answer  \* "allowed" or "refused" after a check, else "none"

vars == <<state, now, log, answer>>

TypeOK ==
    /\ LimiterTypeOK
    /\ log \in [Users -> Seq(Nat)]
    /\ answer \in {"none", "allowed", "refused"}

Init ==
    /\ LimiterInit
    /\ log = [u \in Users |-> <<>>]
    /\ answer = "none"

\* check: it raises RateLimitedError ...
CheckRefuses(u) ==
    /\ Locked(u)
    /\ answer' = "refused"
    /\ UNCHANGED <<state, now, log>>

\* ... or returns, forgetting the history that an expired lockout ends.
CheckAllows(u) ==
    /\ CheckPasses(u)
    /\ answer' = "allowed"
    /\ log' = IF state[u].locked_until = None THEN log ELSE [log EXCEPT ![u] = <<>>]
    /\ UNCHANGED now

CallRecordFailure(u) ==
    /\ Len(log[u]) < MaxLog
    /\ RecordFailure(u)
    /\ log' = [log EXCEPT ![u] = Append(@, now)]
    /\ answer' = "none"
    /\ UNCHANGED now

CallReset(u) ==
    /\ Reset(u)
    /\ log' = [log EXCEPT ![u] = <<>>]
    /\ answer' = "none"
    /\ UNCHANGED now

TimePasses ==
    /\ Tick
    /\ answer' = "none"
    /\ UNCHANGED <<state, log>>

Next ==
    \/ TimePasses
    \/ \E u \in Users :
         CheckRefuses(u) \/ CheckAllows(u) \/ CallRecordFailure(u) \/ CallReset(u)

Spec == Init /\ [][Next]_vars
----------------------------------------------------------------------------
\* The list comprehension of record_failure, one timestamp at a time: the reference
\* for Recent.
Filtered(times) ==
    LET kept[i \in 0..Len(times)] ==
            IF i = 0 THEN <<>>
            ELSE IF now - times[i] < Window THEN Append(kept[i - 1], times[i])
            ELSE kept[i - 1]
    IN  kept[Len(times)]

\* record_failure keeps exactly the timestamps its comprehension selects: the
\* prefix that Recent drops is the set of timestamps out of the window, whatever
\* calls came before (ratelimit.py:86-88).
PruneIsFilter ==
    \A u \in Users :
        Recent(state[u].failure_times) = Filtered(state[u].failure_times)

Policy == INSTANCE LockoutPolicy WITH failures <- log

\* Storing only a pruned list and one locked_until loses nothing: in any order of
\* calls, check answers as the policy that keeps the whole history answers, so
\* no call lifts a running lockout but reset, and none starts one early
\* (RateLimiter, ratelimit.py:47-94).
ImplementsPolicy == Policy!Spec
====
