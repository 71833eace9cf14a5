---------------------------- MODULE MCCachePages ----------------------------
(* CachePages for TLC: tranches of three rows in pages of two.  The client
   turns to its second page, which runs over the end of the first tranche, and
   to its third, which starts inside a page of the second tranche. *)
EXTENDS CachePages, TLC

MCQueries == {[start |-> 2, limit |-> 2], [start |-> 4, limit |-> 2]}

=============================================================================
