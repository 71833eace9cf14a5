----------------------------- MODULE MCSupports -----------------------------
(* Supports for TLC: requests are interchangeable. *)
EXTENDS Supports, TLC

Symmetry == Permutations(Requests)
=============================================================================
