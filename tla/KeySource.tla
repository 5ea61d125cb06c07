---- MODULE KeySource ----
(***************************************************************************)
(* What a caller of get_jwks may rely on, with no cache, lock or fetch in  *)
(* sight: a call is answered with a document the broker still published    *)
(* when the call was made, or at most Ttl before the answer; with the      *)
(* last document, when the broker cannot be reached; and with no document  *)
(* only before there was one, or by an error on one that is Unsized.  The  *)
(* documents never go back.                                                *)
(***************************************************************************)
EXTENDS Broker

CONSTANTS Callers, Ttl

VARIABLES since,   \* since[c]: when the call of c was made, None when there is none
          answer,  \* the answer just given: to whom, how the call ended, with which document
          served   \* the latest document an answer was made of, 0 before there is one

vars == <<history, now, since, answer, served>>

NoAnswer == [to |-> None, how |-> "none", keys |-> 0]

Init ==
    /\ BrokerInit
    /\ since = [c \in Callers |-> None]
    /\ answer = NoAnswer
    /\ served = 0

Call(c) ==
    /\ since[c] = None
    /\ since' = [since EXCEPT ![c] = now]
    /\ answer' = NoAnswer
    /\ UNCHANGED <<history, now, served>>

Return(c, how, v) ==
    /\ since[c] # None
    /\ since' = [since EXCEPT ![c] = None]
    /\ answer' = [to |-> c, how |-> how, keys |-> v]
    /\ UNCHANGED <<history, now>>

\* No document to answer with is older than the promise allows.
RecentEnough(c, v) == PublishedAt(v, since[c]) \/ PublishedAt(v, now - Ttl)

ReturnNewer(c, how, v) ==
    /\ since[c] # None
    /\ v >= served
    /\ RecentEnough(c, v)
    /\ Return(c, how, v)
    /\ served' = v

ReturnKeys(c) == \E v \in 1..Current : ReturnNewer(c, "keys", v)

ReturnError(c) ==
    \E v \in 1..Current : history[v].doc = Unsized /\ ReturnNewer(c, "error", v)

ReturnStale(c) ==
    /\ served # 0
    /\ Return(c, "stale", served)
    /\ UNCHANGED served

ReturnUnreachable(c) ==
    /\ served = 0
    /\ Return(c, "unreachable", 0)
    /\ UNCHANGED served

\* Steps of the broker and of calls in progress answer nobody.
Silent ==
    /\ \/ Tick
       \/ \E d \in Documents : Publish(d)
       \/ UNCHANGED <<history, now>>
    /\ answer' = NoAnswer
    /\ UNCHANGED <<since, served>>

Next ==
    \/ \E c \in Callers :
         \/ Call(c) \/ ReturnKeys(c) \/ ReturnError(c)
         \/ ReturnStale(c) \/ ReturnUnreachable(c)
    \/ Silent

Spec == Init /\ [][Next]_vars
====
