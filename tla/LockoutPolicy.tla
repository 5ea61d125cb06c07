---- MODULE LockoutPolicy ----
(***************************************************************************)
(* What the limiter promises, with no pruning and no stored lock: every    *)
(* failure since the username last started clean is remembered, and an     *)
(* attempt is refused for Lockout after any failure that was the           *)
(* MaxAttempts-th within one sliding window.                               *)
(***************************************************************************)
EXTENDS Integers, Sequences, FiniteSets

CONSTANTS Users, MaxAttempts, Window, Lockout

VARIABLES failures,  \* failures[u]: all the failure times since u started clean
          answer,    \* what the last check answered
          now

vars == <<failures, answer, now>>

Init ==
    /\ failures = [u \in Users |-> <<>>]
    /\ answer = "none"
    /\ now = 0

\* The failures of h that complete a window holding MaxAttempts of them.
Triggers(h) ==
    {i \in DOMAIN h :
        Cardinality({j \in 1..i : h[i] - h[j] < Window}) >= MaxAttempts}

Refused(h) == \E i \in Triggers(h) : now < h[i] + Lockout

\* An attempt is refused during a lockout; the first one after it starts clean.
Attempt(u) ==
    /\ answer' = IF Refused(failures[u]) THEN "refused" ELSE "allowed"
    /\ failures' = IF Triggers(failures[u]) # {} /\ ~Refused(failures[u])
                     THEN [failures EXCEPT ![u] = <<>>] ELSE failures
    /\ UNCHANGED now

Fail(u) ==
    /\ failures' = [failures EXCEPT ![u] = Append(@, now)]
    /\ answer' = "none"
    /\ UNCHANGED now

Succeed(u) ==
    /\ failures' = [failures EXCEPT ![u] = <<>>]
    /\ answer' = "none"
    /\ UNCHANGED now

Pass ==
    /\ now' = now + 1
    /\ answer' = "none"
    /\ UNCHANGED failures

Next == Pass \/ \E u \in Users : Attempt(u) \/ Fail(u) \/ Succeed(u)

Spec == Init /\ [][Next]_vars
====
