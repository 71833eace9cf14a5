----------------------------- MODULE MCUserCode -----------------------------
(* UserCode for TLC: ids are model values. *)
EXTENDS UserCode, TLC

=============================================================================
