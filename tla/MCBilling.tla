----------------------------- MODULE MCBilling -----------------------------
(***************************************************************************)
(* Instances of Billing for TLC.                                           *)
(***************************************************************************)
EXTENDS Billing, TLC

\* Ids are handed out from pools and no code compares them but for equality.
Symmetry ==
    Permutations(CustomerIds) \cup Permutations(SubIds)
        \cup Permutations(InvoiceIds) \cup Permutations(Requests) \cup Permutations(Users)
=============================================================================
