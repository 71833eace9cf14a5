----------------------------- MODULE MCContent -----------------------------
(* Content for TLC: ids are model values. *)
EXTENDS Content, TLC

Symmetry == Permutations(Files) \cup Permutations(Statuses) \cup Permutations(Requests)
=============================================================================
