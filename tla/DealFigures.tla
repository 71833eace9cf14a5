---------------------------- MODULE DealFigures ----------------------------
(***************************************************************************)
(* The figures the pages of the rental analyzer show of a deal: its loan   *)
(* month by month, which three calculators of core/r-analysis each work    *)
(* out in a loop of their own, and its grade.                              *)
(*                                                                         *)
(* Money is in dollars and counts per month unless a name says otherwise.  *)
(* Percentages are whole, ratios in units of 1/10000, years and multiples  *)
(* in hundredths, scores in hundredths of a point.  A quotient is rounded  *)
(* down, once per operation of the code.                                   *)
(*                                                                         *)
(* A deal has the fields of the builder that count: the rent (totalIncome),*)
(* the charges that do not depend on it (taxes, insurance, utilities),     *)
(* price, costs (acquisitionCoast), credits (sellerConcessions, credits),  *)
(* the interest rate per month and the term in months.  A form is what a   *)
(* page is asked with: ltv, occupancy, management and maintenance, pmi or  *)
(* None, and for the grade zipCap, debtRisk and extracted.                 *)
(***************************************************************************)
EXTENDS Integers, Sequences

AtMost(a, b) == IF a < b THEN a ELSE b
AtLeast(a, b) == IF a > b THEN a ELSE b
Clamp(x, min, max) == AtLeast(min, AtMost(max, x))

-----------------------------------------------------------------------------
(* The loan.                                                               *)

LtvAmount(deal, form) == (deal.price * form.ltv) \div 100

EstimatedCashToClose(deal, form) ==
    deal.price + deal.costs - LtvAmount(deal, form) - deal.credits

\* (1 + r)^n, in units of 1/100000.
Growth(rate, n) ==
    LET g[k \in Nat] == IF k = 0 THEN 100000 ELSE (g[k - 1] * (10000 + rate)) \div 10000
    IN  g[n]

\* computePI, the payment of principal and interest; computeCumPrinc,
\* computeYearlyInterestPaid and computeLoanBalance repeat its formula.
PI(loan, rate, term) ==
    IF rate = 0
    THEN loan \div term
    ELSE LET g == Growth(rate, term)
         IN  (((loan * rate) \div 10000) * g) \div (g - 100000)

Interest(balance, rate) == (balance * rate) \div 10000

\* computeCumPrinc: the principal paid back in the first months.  Without
\* interest the code does not stop at the end of the term.
CumPrinc(loan, rate, term, months) ==
    LET payment == PI(loan, rate, term)
        walk[n \in Nat] ==
            IF n = 0
            THEN [balance |-> loan, paid |-> 0]
            ELSE LET last == walk[n - 1]
                     principal == payment - Interest(last.balance, rate)
                 IN  [balance |-> last.balance - principal, paid |-> last.paid + principal]
    IN  IF rate = 0 \/ loan = 0
        THEN (loan \div term) * months
        ELSE walk[AtMost(months, term)].paid

\* computeYearlyInterestPaid: the interest of one year, counted from the start
\* of the loan.  Nor does this loop stop at the end of the term.
YearlyInterestPaid(loan, rate, term, year) ==
    LET payment == PI(loan, rate, term)
        walk[n \in Nat] ==
            IF n = 0
            THEN [balance |-> loan, interest |-> 0]
            ELSE LET last == walk[n - 1]
                     interest == Interest(last.balance, rate)
                 IN  [balance |-> last.balance - (payment - interest),
                      interest |-> last.interest + IF n - 1 >= (year - 1) * 12 THEN interest ELSE 0]
    IN  IF rate = 0 \/ loan = 0 THEN 0 ELSE walk[year * 12].interest

\* computePaydownYear
PaydownYear(loan, rate, term, year) ==
    PI(loan, rate, term) * 12 - YearlyInterestPaid(loan, rate, term, year)

\* computeLoanBalance: what is left of the loan after so many months.
LoanBalance(loan, rate, term, months) ==
    LET payment == PI(loan, rate, term)
        balance[n \in Nat] ==
            IF n = 0
            THEN loan
            ELSE LET last == balance[n - 1] IN last - (payment - Interest(last, rate))
    IN  IF rate = 0 \/ loan = 0
        THEN AtLeast(0, loan - (loan \div term) * months)
        ELSE AtLeast(0, balance[AtMost(months, term)])

-----------------------------------------------------------------------------
(* The summary and its metrics, which a comparison shows again.            *)

\* a / b rounded down, and 0 where the code answers 0 for a zero divisor.
Ratio(a, b) ==
    IF b = 0 THEN 0 ELSE IF b > 0 THEN a \div b ELSE (0 - a) \div (0 - b)

\* computeRentalAnalysisSummary.  Income, fees, escrow and cash flow are in
\* cents a year; the payment of the loan is no part of the cash flow.
Summary(deal, p) ==
    LET income == 12 * deal.rent * p.occupancy
        fees == 12 * deal.rent * p.management
        escrow == 12 * deal.rent * p.maintenance
    IN  [loan |-> LtvAmount(deal, p),
         cash |-> EstimatedCashToClose(deal, p),
         payment |-> PI(LtvAmount(deal, p), deal.rate, deal.term),
         income |-> income,
         fees |-> fees,
         escrow |-> escrow,
         cashFlow |-> income - 1200 * deal.charges - fees - escrow]

\* computeRentalMetrics.  Amounts are in cents a year; the percentages, years
\* and multiples in hundredths.
RentalMetrics(deal, p) ==
    LET loan == LtvAmount(deal, p)
        cash == EstimatedCashToClose(deal, p)
        goi == 12 * deal.rent * p.occupancy
        fixed == 1200 * deal.charges
        noi == goi - fixed
        debt == 1200 * PI(loan, deal.rate, deal.term)
        pmi == 1200 * p.pmi
    IN  [goi |-> goi, noi |-> noi, debt |-> debt, cashFlow |-> noi - debt,
         coc |-> Ratio(100 * (noi - debt - pmi), cash),
         oer |-> Ratio(100 * fixed, goi \div 100),
         debtYield |-> Ratio(100 * noi, loan),
         payback |-> Ratio(100 * cash, goi \div 100),
         ltv |-> Ratio(100 * loan, deal.price \div 100),
         capRate |-> Ratio(100 * noi, deal.price),
         dscr |-> Ratio(100 * noi, debt - pmi),
         grm |-> Ratio(100 * deal.price, goi \div 100)]

Figures(deal, p) == [summary |-> Summary(deal, p), metrics |-> RentalMetrics(deal, p)]

-----------------------------------------------------------------------------
(* The grade.                                                              *)

\* computeMaxSustainableVacancy
MaxSustainableVacancy(grossAnnual, fixedAnnual, variable) ==
    IF grossAnnual <= 0
    THEN 0
    ELSE LET needed == (((fixedAnnual * 10000) \div grossAnnual) * 100)
                           \div (100 - Clamp(variable, 0, 90))
         IN  Clamp(10000 - needed, 0, 10000)

\* computeMetrics.  An amount of a year called ...Fine is in units of 1/10000.
Metrics(deal, form) ==
    LET cash == EstimatedCashToClose(deal, form)
        debt == 12 * PI(LtvAmount(deal, form), deal.rate, deal.term)
        gross == 12 * deal.rent
        variable == form.management + form.maintenance
        effectiveFine == gross * form.occupancy * 100
        opexFine == 12 * deal.charges * 10000 + gross * form.occupancy * variable
        noiFine == effectiveFine - opexFine
        cashflowFine == noiFine - debt * 10000
    IN  [cash |-> cash,
         debt |-> debt,
         cashflow |-> cashflowFine,
         capPremium |-> (IF deal.price > 0 THEN noiFine \div deal.price ELSE 0) - form.zipCap,
         cocReturn |-> IF cash > 0 THEN cashflowFine \div cash ELSE 0,
         grm |-> IF gross > 0 THEN (deal.price * 100) \div gross ELSE 99900,
         payback |-> IF cashflowFine > 0
                     THEN (cash * 1000) \div AtLeast(1, cashflowFine \div 1000)
                     ELSE 9900,
         dscr |-> IF debt > 0 THEN noiFine \div debt ELSE 990000,
         breakEven |-> IF gross > 0 THEN (opexFine + debt * 10000) \div gross ELSE 10000,
         maxVacancy |-> MaxSustainableVacancy(gross, 12 * deal.charges + debt, variable)]

\* Mutant: the ends of the segment are swapped.
ScoreCurve_swapped(x, points) ==
    LET last == points[Len(points)]
    IN  IF x <= points[1][1]
        THEN points[1][2] * 100
        ELSE IF x >= last[1]
        THEN last[2] * 100
        ELSE LET i == CHOOSE i \in 1 .. Len(points) - 1 : points[i][1] <= x /\ x < points[i + 1][1]
                 from == points[i]
                 to == points[i + 1]
             IN  to[2] * 100 + ((from[2] - to[2]) * 100 * (x - from[1])) \div (to[1] - from[1])

\* scoreCurve: linear between the points <<x, score>>.
ScoreCurve(x, points) ==
    LET last == points[Len(points)]
    IN  IF x <= points[1][1]
        THEN points[1][2] * 100
        ELSE IF x >= last[1]
        THEN last[2] * 100
        ELSE LET i == CHOOSE i \in 1 .. Len(points) - 1 : points[i][1] <= x /\ x < points[i + 1][1]
                 from == points[i]
                 to == points[i + 1]
             IN  from[2] * 100 + ((to[2] - from[2]) * 100 * (x - from[1])) \div (to[1] - from[1])

CapCurve == <<<<-300, 10>>, <<-200, 25>>, <<-100, 45>>, <<0, 70>>, <<100, 85>>, <<200, 95>>,
              <<300, 100>>>>
CocCurve == <<<<-500, 0>>, <<0, 10>>, <<500, 45>>, <<800, 65>>, <<1000, 78>>, <<1200, 88>>,
              <<1500, 96>>, <<1800, 100>>>>
PaybackCurve == <<<<500, 92>>, <<600, 88>>, <<800, 82>>, <<1000, 72>>, <<1200, 60>>,
                  <<1500, 35>>, <<2000, 10>>>>
GrmCurve == <<<<700, 95>>, <<800, 90>>, <<1000, 85>>, <<1200, 70>>, <<1400, 55>>, <<1600, 40>>,
              <<1800, 25>>, <<2200, 10>>>>
DscrCurve == <<<<9000, 5>>, <<10000, 15>>, <<11000, 45>>, <<12000, 70>>, <<13000, 86>>,
               <<14000, 96>>, <<16000, 100>>>>
BreakEvenCurve == <<<<7000, 92>>, <<7500, 88>>, <<8500, 80>>, <<9000, 65>>, <<9500, 45>>,
                    <<10000, 25>>, <<10500, 10>>>>
VacancyCurve == <<<<0, 0>>, <<500, 20>>, <<1000, 45>>, <<1500, 65>>, <<2000, 78>>, <<2500, 90>>,
                  <<3000, 96>>, <<3500, 100>>>>

\* computeScores
Scores(m) ==
    [cap |-> ScoreCurve(m.capPremium, CapCurve),
     coc |-> IF m.cashflow <= 0
             THEN AtMost(ScoreCurve(m.cocReturn, CocCurve), 1500)
             ELSE ScoreCurve(m.cocReturn, CocCurve),
     payback |-> IF m.cashflow <= 0 THEN 0 ELSE ScoreCurve(m.payback, PaybackCurve),
     grm |-> ScoreCurve(m.grm, GrmCurve),
     dscr |-> IF m.debt <= 0 THEN 10000 ELSE ScoreCurve(m.dscr, DscrCurve),
     breakEven |-> ScoreCurve(m.breakEven, BreakEvenCurve),
     vacancy |-> ScoreCurve(m.maxVacancy, VacancyCurve)]

\* The capital structure guardrail of computePillars.
LowCashIn(deal, m) ==
    \/ m.cash <= 0
    \/ deal.price <= 0 \/ m.cash * 20 < deal.price
    \/ m.cash < 5000

\* The hold integrity guardrail.
WeakHold(form, m) ==
    /\ form.extracted > 0
    /\ m.cashflow < 0 \/ (m.debt > 0 /\ m.dscr < 11500) \/ m.breakEven > 9500

\* computePillars before the caps.  The formulas for a low cash-in replace an
\* efficiency that negative cash flow had capped.
ReturnPillar(s, low) ==
    IF low THEN (s.cap * 8 + s.grm * 2) \div 10 ELSE (s.cap * 6 + s.coc * 4) \div 10

EfficiencyPillar(m, s, low) ==
    LET plain == (s.payback * 7 + s.grm * 3) \div 10
    IN  IF low THEN (s.cap * 6 + s.grm * 4) \div 10
        ELSE IF m.cashflow < 0 THEN AtMost(plain, 4000) ELSE plain

StabilityPillar(form, m, s) ==
    LET plain == (s.dscr * 5 + s.breakEven * 3 + s.vacancy * 2) \div 10
    IN  IF m.debt <= 0 \/ form.debtRisk = 0 THEN plain
        ELSE (plain * IF form.debtRisk = 1 THEN 88 ELSE 82) \div 100

OverallCap(form, m, low) ==
    AtMost(AtMost(IF m.debt > 0 /\ m.dscr < 10000 THEN 4500 ELSE 10000,
                  IF m.breakEven > 10000 THEN 4000 ELSE 10000),
           AtMost(IF low THEN 8500 ELSE 10000,
                  IF WeakHold(form, m) THEN 7000 ELSE 10000))

\* The overall score of computeDealGrade.
Overall(deal, form) ==
    LET m == Metrics(deal, form)
        s == Scores(m)
        low == LowCashIn(deal, m)
    IN  AtMost((ReturnPillar(s, low) * 35 + EfficiencyPillar(m, s, low) * 20
                    + StabilityPillar(form, m, s) * 45) \div 100,
               OverallCap(form, m, low))

=============================================================================
