--------------------------- MODULE MCRentalReports ---------------------------
(* RentalReports for TLC: one analysis, asked for by two requests. *)
EXTENDS RentalReports, TLC

\* A mortgage, a loan without interest, and one that leaves little cash in.
MCAcquisitions ==
    {[price |-> 150000, costs |-> 4000, credits |-> 0, rate |-> 100, term |-> 54],
     [price |-> 90000, costs |-> 0, credits |-> 16000, rate |-> 0, term |-> 24]}

MCForms ==
    {[ltv |-> 90, occupancy |-> 95, management |-> 8, maintenance |-> 8, pmi |-> 40,
      zipCap |-> 600, debtRisk |-> 1, extracted |-> 20000],
     [ltv |-> 50, occupancy |-> 90, management |-> 10, maintenance |-> 6, pmi |-> None,
      zipCap |-> 900, debtRisk |-> 0, extracted |-> 0]}

\* Only the value rises; only the rent does; everything does.
MCViews ==
    {[depreciation |-> 80, tax |-> 24, appreciation |-> 3, incomeIncrease |-> 0,
      expenseIncrease |-> 0, vacancy |-> 5, sellingCosts |-> 6, yearsToExit |-> 30,
      additionalEquity |-> 0],
     [depreciation |-> 70, tax |-> 0, appreciation |-> 0, incomeIncrease |-> 4,
      expenseIncrease |-> 0, vacancy |-> 0, sellingCosts |-> 0, yearsToExit |-> 1,
      additionalEquity |-> 9000],
     [depreciation |-> 80, tax |-> 32, appreciation |-> 5, incomeIncrease |-> 2,
      expenseIncrease |-> 3, vacancy |-> 8, sellingCosts |-> 6, yearsToExit |-> 15,
      additionalEquity |-> 0]}

MCDefaults == [ltv |-> 80, occupancy |-> 95, management |-> 10, maintenance |-> 10, pmi |-> 0]

Symmetry == Permutations(Requests)
=============================================================================
