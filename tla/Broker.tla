---- MODULE Broker ----
(***************************************************************************)
(* The broker as identity.py sees it: it publishes one JWKS document at a  *)
(* time and replaces it when it rotates its signing keys.  External to     *)
(* this repository.                                                        *)
(*                                                                         *)
(* A document is the set of the kids it lists (a kid stands for its key).  *)
(* A 200 answer may also be no JWKS: the "keys" of Broken is no list of    *)
(* objects, and that of Unsized has not even a length (null, a number).    *)
(* history numbers the documents; the last one is published now.           *)
(***************************************************************************)
EXTENDS Integers, Sequences, FiniteSets

CONSTANTS Kids,         \* the signing keys
          Documents,    \* the documents the broker may publish
          Broken,       \* a document that is no JWKS
          Unsized,      \* one for whose "keys" len() raises a TypeError
          None,         \* Python's None
          MaxVersions,  \* bound: documents published
          MaxTime       \* bound: the clock stops here

Malformed == {Broken, Unsized}

ASSUME BrokerAssumption ==
    /\ Documents # {}
    /\ \A d \in Documents : d \notin Malformed => d \subseteq Kids
    /\ None \notin Kids
    /\ MaxVersions \in Nat
    /\ MaxTime \in Nat

VARIABLES history,  \* history[v]: the v-th document and the time of its publication
          now       \* the monotonic clock

Publication == [doc : Documents, since : Nat]

BrokerTypeOK ==
    /\ history \in Seq(Publication)
    /\ Len(history) > 0
    /\ now \in Nat

BrokerInit ==
    /\ \E d \in Documents : history = <<[doc |-> d, since |-> 0]>>
    /\ now = 0

Current == Len(history)

\* Document v was still the published one at time t, or is now.
PublishedAt(v, t) == v < Current => history[v + 1].since >= t

\* The broker rotates.
Publish(d) ==
    /\ Current < MaxVersions
    /\ d # history[Current].doc
    /\ history' = Append(history, [doc |-> d, since |-> now])
    /\ UNCHANGED now

Tick ==
    /\ now < MaxTime
    /\ now' = now + 1
    /\ UNCHANGED history
====
