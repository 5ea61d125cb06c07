---- MODULE MCTokenService ----
(***************************************************************************)
(* TokenService for TLC: the requests in progress are interchangeable.     *)
(***************************************************************************)
EXTENDS TokenService, TLC

Symmetry == Permutations(Slots)
====
