---- MODULE Replicas ----
(***************************************************************************)
(* The failed-authentication limiter as it is deployed: every pod keeps a  *)
(* RateLimiter of its own in process memory, and CERN sees the passwords   *)
(* of all of them.  It is about one username: the entries are those of it  *)
(* in the limiters of the pods, and state[p] that of pod p.  A pod here is *)
(* one process: a restarted container is another one.                      *)
(*                                                                         *)
(* What a request does is TokenService's; here the requests of a pod that  *)
(* have passed check are only counted, by how far they are.  A rejection   *)
(* the limiter of no pod hears of is lost: the child is killed before it   *)
(* can report it, its pod goes, or a success the handler learns of later   *)
(* makes the limiter forget it.                                            *)
(***************************************************************************)
EXTENDS RateLimiter

CONSTANTS MaxRequests, \* password requests a pod can have in progress at once
          MaxHidden    \* bound: rejections no limiter hears of, and strays

ASSUME ReplicasAssumption ==
    /\ IsFiniteSet(Users)
    /\ MaxRequests \in Nat \ {0}
    /\ MaxHidden \in Nat

Pods == Users

VARIABLES phase,    \* phase[p]: "new", "up" or "gone"
          gone,     \* gone[p]: when p went, None before
          flight,   \* flight[p]: how many requests of p have passed check, by what has
                    \* become of their password
          rejected, \* the KDC's rejections of the username within the last Span, and
                    \* since its last success
          strays    \* passwords the KDC may still reject, whose child is gone

vars == <<limiterVars, phase, gone, flight, rejected, strays>>

\* waiting for the KDC, rejected, rejected without a word to the handler, accepted.
NoFlight == [waiting |-> 0, denied |-> 0, lost |-> 0, granted |-> 0]

Init ==
    /\ LimiterInit
    /\ phase = [p \in Pods |-> "new"]
    /\ gone = [p \in Pods |-> None]
    /\ flight = [p \in Pods |-> NoFlight]
    /\ rejected = {}
    /\ strays = 0

----------------------------------------------------------------------------
(* A password request on pod p. *)

InFlight(p) ==
    flight[p].waiting + flight[p].denied + flight[p].lost + flight[p].granted

\* Mutant: the limiter is not consulted.
AttemptUnchecked(p) ==
    /\ phase[p] = "up"
    /\ InFlight(p) < MaxRequests
    /\ flight' = [flight EXCEPT ![p].waiting = @ + 1]
    /\ UNCHANGED <<limiterVars, phase, gone, rejected, strays>>

\* check returns, and kinit is started.
Attempt(p) ==
    /\ phase[p] = "up"
    /\ InFlight(p) < MaxRequests
    /\ CheckPasses(p)
    /\ flight' = [flight EXCEPT ![p].waiting = @ + 1]
    /\ UNCHANGED <<now, phase, gone, rejected, strays>>

\* RateLimitedError: nothing is started, nothing changes.
Refused(p) ==
    /\ phase[p] = "up"
    /\ Locked(p)
    /\ UNCHANGED vars

\* of: the pod it came through, None for a stray.  lost: no limiter hears of it, or the
\* one that has heard of it has forgotten it.  n tells those of a moment apart.
Rejection(p, lost) ==
    [of |-> p, lost |-> lost, at |-> now,
     n |-> Cardinality({r \in rejected : r.of = p /\ r.at = now})]

Mine(p) == {r \in rejected : r.of = p /\ ~r.lost}
Lost == {r \in rejected : r.lost}

\* The KDC has counted the password, and the handler is to hear of it.
KdcRejects(p) ==
    /\ flight[p].waiting > 0
    /\ flight' = [flight EXCEPT ![p].waiting = @ - 1, ![p].denied = @ + 1]
    /\ rejected' = rejected \cup {Rejection(p, FALSE)}
    /\ UNCHANGED <<limiterVars, phase, gone, strays>>

\* The KDC has counted it, and the child will be killed before it says so.
KdcRejectsUnheard(p) ==
    /\ flight[p].waiting > 0
    /\ strays + Cardinality(Lost) < MaxHidden
    /\ flight' = [flight EXCEPT ![p].waiting = @ - 1, ![p].lost = @ + 1]
    /\ rejected' = rejected \cup {Rejection(p, TRUE)}
    /\ UNCHANGED <<limiterVars, phase, gone, strays>>

\* A success clears CERN's own count.
KdcAccepts(p) ==
    /\ flight[p].waiting > 0
    /\ flight' = [flight EXCEPT ![p].waiting = @ - 1, ![p].granted = @ + 1]
    /\ rejected' = {}
    /\ UNCHANGED <<limiterVars, phase, gone, strays>>

\* The handler hears of a rejection.
Fails(p) ==
    /\ flight[p].denied > 0
    /\ RecordFailure(p)
    /\ flight' = [flight EXCEPT ![p].denied = @ - 1]
    /\ UNCHANGED <<now, phase, gone, rejected, strays>>

\* The handler hears of a success, and the limiter forgets the failures it has heard
\* of, those since the KDC accepted included: only the pending ones are to come.
Succeeds(p) ==
    /\ flight[p].granted > 0
    /\ Reset(p)
    /\ \E pending \in SUBSET Mine(p) :
         /\ Cardinality(pending) <= flight[p].denied
         /\ rejected' = {IF r \in Mine(p) \ pending THEN [r EXCEPT !.lost = TRUE] ELSE r :
                            r \in rejected}
    /\ flight' = [flight EXCEPT ![p].granted = @ - 1]
    /\ UNCHANGED <<now, phase, gone, strays>>

\* What strays can become when n more children are gone unanswered, within the bound.
Unanswered(n) ==
    {k \in strays..(strays + n) : k = strays \/ k + Cardinality(Lost) <= MaxHidden}

\* The handler ends without a word to the limiter: the child was killed, or failed
\* for a reason that is not the password.
GivesUp(p) ==
    /\ \/ /\ flight[p].waiting > 0
          /\ flight' = [flight EXCEPT ![p].waiting = @ - 1]
          /\ strays' \in Unanswered(1)
       \/ /\ flight[p].lost > 0
          /\ flight' = [flight EXCEPT ![p].lost = @ - 1]
          /\ UNCHANGED strays
       \/ /\ flight[p].granted > 0
          /\ flight' = [flight EXCEPT ![p].granted = @ - 1]
          /\ UNCHANGED strays
    /\ UNCHANGED <<limiterVars, phase, gone, rejected>>

\* The KDC rejects a password when its child is gone.
StrayRejected ==
    /\ strays > 0
    /\ strays' = strays - 1
    /\ rejected' = rejected \cup {Rejection(None, TRUE)}
    /\ UNCHANGED <<limiterVars, phase, gone, flight>>

----------------------------------------------------------------------------
(* The deployment. *)

\* A pod appears with an empty limiter.
StartPod(p) ==
    /\ phase[p] = "new"
    /\ phase' = [phase EXCEPT ![p] = "up"]
    /\ UNCHANGED <<limiterVars, gone, flight, rejected, strays>>

\* The process goes, and its limiter and its requests in progress with it: an update,
\* a crash, an eviction.  The last one of Pods stays.
StopPod(p) ==
    /\ phase[p] = "up"
    /\ \E q \in Pods \ {p} : phase[q] # "gone"
    /\ phase' = [phase EXCEPT ![p] = "gone"]
    /\ gone' = [gone EXCEPT ![p] = now]
    /\ state' = [state EXCEPT ![p] = Fresh]
    /\ flight' = [flight EXCEPT ![p] = NoFlight]
    /\ strays' \in Unanswered(flight[p].waiting)
    /\ UNCHANGED <<now, rejected>>

\* Rejections older than a Span are forgotten.
TimePasses ==
    /\ Tick
    /\ rejected' = {r \in rejected : now' - r.at < Span}
    /\ UNCHANGED <<state, phase, gone, flight, strays>>

Next ==
    \/ \E p \in Pods :
         \/ Attempt(p) \/ Refused(p)
         \/ KdcRejects(p) \/ KdcRejectsUnheard(p) \/ KdcAccepts(p)
         \/ Fails(p) \/ Succeeds(p) \/ GivesUp(p)
         \/ StartPod(p) \/ StopPod(p)
    \/ StrayRejected
    \/ TimePasses

Spec == Init /\ [][Next]_vars
----------------------------------------------------------------------------
(* Properties. *)

Flight == [waiting : Nat, denied : Nat, lost : Nat, granted : Nat]

Rejections ==
    [of : Pods, lost : BOOLEAN, at : Nat, n : Nat]
        \cup [of : {None}, lost : {TRUE}, at : Nat, n : Nat]

\* Every variable holds a value of its kind, and a pod that is not up has no limiter
\* and no requests (RateLimiter.__init__, ratelimit.py:57-69).
TypeOK ==
    /\ LimiterTypeOK
    /\ phase \in [Pods -> {"new", "up", "gone"}]
    /\ gone \in [Pods -> Nat \cup {None}]
    /\ \A p \in Pods : gone[p] # None <=> phase[p] = "gone"
    /\ flight \in [Pods -> Flight]
    /\ \A p \in Pods : phase[p] # "up" => state[p] = Fresh /\ flight[p] = NoFlight
    /\ rejected \subseteq Rejections
    /\ strays \in Nat

\* What one limiter lets through within a Span with MaxRequests requests at a time: the
\* limit, and two more for each further request, one that passed check with the last
\* free attempt and one whose failure a lockout's expiry forgets.
Budget == MaxAttempts + 2 * (MaxRequests - 1)

\* However the KDC's answers and the handlers interleave, one limiter, from its start to
\* its end, lets no more than that many passwords be rejected within a Span, those it
\* cannot hold against the username not counted (app.py:214-269, ratelimit.py:71-94).
BudgetOfLimiter == \A p \in Pods : Cardinality(Mine(p)) <= Budget

\* The limiters a rejection of the last Span can have gone through: those of the pods
\* that are up, and of those that went less than a Span ago.
Counted == {p \in Pods : phase[p] = "up" \/ (phase[p] = "gone" /\ now - gone[p] < Span)}

\* What the deployment as a whole costs the account at CERN: the budget of a limiter,
\* times the limiters there have been within the Span, however pods start, overlap and
\* go, and the rejections no limiter holds against the username on top
\* (values.yaml:10-17).
BudgetAtCern == Cardinality(rejected) <= Budget * Cardinality(Counted) + Cardinality(Lost)
====
