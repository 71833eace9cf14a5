--------------------------- MODULE MCRentalAnalysis ---------------------------
(* RentalAnalysis for TLC: one analysis to begin with and one yet to be made. *)
EXTENDS RentalAnalysis, TLC

\* Units and itemized costs against a plain cost, no units and both repairs;
\* the third is refused once the units stored are deleted.
MCForms == {[units |-> TRUE, crowded |-> FALSE, items |-> TRUE, cost |-> FALSE, kinds |-> {}],
            [units |-> FALSE, crowded |-> FALSE, items |-> FALSE, cost |-> TRUE, kinds |-> {"e", "i"}],
            [units |-> TRUE, crowded |-> TRUE, items |-> FALSE, cost |-> FALSE, kinds |-> {}]}

Symmetry == Permutations(Requests)
=============================================================================
