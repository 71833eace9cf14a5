---------------------------- MODULE MCNewsletter ----------------------------
(* Newsletter for TLC: ids and users are model values. *)
EXTENDS Newsletter
=============================================================================
