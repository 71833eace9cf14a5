--------------------------- MODULE MCUserSession ---------------------------
(* UserSession for TLC: ids are model values. *)
EXTENDS UserSession, TLC

Symmetry == Permutations(Users) \cup Permutations(SessionIds) \cup Permutations(Requests)
=============================================================================
