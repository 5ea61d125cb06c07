---- MODULE MCReplicas ----
(***************************************************************************)
(* Replicas for TLC: which pod is which does not matter.                   *)
(***************************************************************************)
EXTENDS Replicas, TLC

Symmetry == Permutations(Pods)
====
