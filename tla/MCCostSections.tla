--------------------------- MODULE MCCostSections ---------------------------
(* CostSections for TLC. *)
EXTENDS CostSections, TLC

NewForm(hasItems, total, i, e, ids) ==
    [hasItems |-> hasItems, total |-> total, items |-> ("i" :> i @@ "e" :> e), ids |-> ids]

Cost(amount, insurance, taxes) == [amount |-> amount, insurance |-> insurance, taxes |-> taxes]

\* All costs; a plain total; a cost less than carrying costs ask for, without its
\* taxes; and one that only the sale accepts.
Full == NewForm(TRUE, Null, Cost(1, 1, 1), Cost(2, 0, 0), TRUE)
Plain == NewForm(FALSE, 3, Null, Null, FALSE)
Partial == NewForm(TRUE, Null, Cost(2, 1, Null), Null, FALSE)
Both == NewForm(TRUE, 3, Cost(1, 0, 1), Null, FALSE)

\* The form f for the section an analyzer saves first and g for the one after it.
Body(f, g) == [s \in Sections |-> IF s \in Renewed \cup {"cCoast"} THEN f ELSE g]

MCBodies == {Body(Full, Full), Body(Plain, Plain), Body(Partial, Partial),
             Body(Full, Both), Body(Both, Full), Body(Plain, Partial)}

Symmetry == Permutations(Savers)
=============================================================================
