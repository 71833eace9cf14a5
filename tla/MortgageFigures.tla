-------------------------- MODULE MortgageFigures --------------------------
(***************************************************************************)
(* The figures two more calculators show of a loan: the mortgage           *)
(* calculator, whose breakdown uses formulas and whose schedule walks the  *)
(* loan month by month, and a column of the creative financing calculator. *)
(* Units are those of DealFigures; rates of mortgage insurance are per     *)
(* year in 1/10000.                                                        *)
(*                                                                         *)
(* What the mortgage calculator is asked with has price, percent and       *)
(* amount (of the down payment), rate, term and score.  The rate is        *)
(* positive: without interest the code divides zero by zero.               *)
(***************************************************************************)
EXTENDS DealFigures, FiniteSetsExt

-----------------------------------------------------------------------------
(* The breakdown. *)

CalculateDownPayment(price, percent) == (price * percent) \div 100

CalculateLoanAmount(price, amount) == price - amount

CalculatePInterest(loan, rate, term) == PI(loan, rate, term)

GetPMIRate(score) == CASE score = "excellent" -> 40
                       [] score = "fair" -> 90
                       [] score = "poor" -> 120
                       [] OTHER -> 60

PMIMonthly(loan, pmiRate) == (loan * pmiRate) \div 120000

\* The insurance shown, by the percentage and not by the loan.
CalculatePMI(loan, percent, pmiRate) ==
    IF percent >= 20 THEN 0 ELSE PMIMonthly(loan, pmiRate)

TotalInterestPaid(payment, term, loan) == payment * term - loan

\* What is left of the loan after so many months; the last payment may be a part.
Remaining(loan, rate, payment) ==
    LET left[k \in Nat] ==
            IF k = 0
            THEN loan
            ELSE LET last == left[k - 1] IN last - AtMost(last, payment - Interest(last, rate))
    IN  left

\* Mutant: the last month above the target is not counted.
PMIMonths_early(loan, home, rate, term) ==
    LET left == Remaining(loan, rate, CalculatePInterest(loan, rate, term))
    IN  Min({k \in 0..term : 10 * left[k + 1] <= 8 * home} \cup {term})

\* Months until the loan is at 80 % of the home; the logarithm of the code is
\* the solution of this walk, which is also its fallback.
PMIMonths(loan, home, rate, term) ==
    LET left == Remaining(loan, rate, CalculatePInterest(loan, rate, term))
    IN  Min({k \in 0..term : 10 * left[k] <= 8 * home} \cup {term})

TotalPMI(loan, home, rate, term, pmiRate) ==
    IF loan <= 0 THEN 0 ELSE PMIMonthly(loan, pmiRate) * PMIMonths(loan, home, rate, term)

\* computeSharedMCalculatorCore
Breakdown(dto) ==
    LET loan == CalculateLoanAmount(dto.price, dto.amount)
        payment == CalculatePInterest(loan, dto.rate, dto.term)
        pmiRate == GetPMIRate(dto.score)
    IN  [loan |-> loan,
         payment |-> payment,
         pmi |-> CalculatePMI(loan, dto.percent, pmiRate),
         interest |-> TotalInterestPaid(payment, dto.term, loan),
         totalPMI |-> TotalPMI(loan, dto.price, dto.rate, dto.term, pmiRate)]

-----------------------------------------------------------------------------
(* The schedule. *)

MonthlyExtra(amount, frequency) == CASE frequency = "yearly" -> amount \div 12
                                     [] frequency = "weekly" -> (amount * 52) \div 12
                                     [] OTHER -> amount

\* A month that begins with balance and leaves rest.
MonthlyEntry(loan, home, rate, pmiRate, balance, rest) ==
    [principal |-> balance - rest,
     interest |-> Interest(balance, rate),
     pmi |-> IF 10 * balance > 8 * home THEN PMIMonthly(loan, pmiRate) ELSE 0,
     ending |-> rest]

\* One entry a month until nothing is left.  A remainder of the last payment may
\* take a month beyond the term.
AmortizationSchedule(loan, home, rate, term, pmiRate, extra) ==
    LET left == Remaining(loan, rate, CalculatePInterest(loan, rate, term) + extra)
        months == Min({k \in 0..term + 1 : left[k] <= 0})
    IN  [k \in 1..months |-> MonthlyEntry(loan, home, rate, pmiRate, left[k - 1], left[k])]

\* calculatorAmortizationScheduleBreakdown
ScheduleBreakdown(dto, extra, frequency) ==
    AmortizationSchedule(CalculateLoanAmount(dto.price, dto.amount), dto.price, dto.rate,
                         dto.term, GetPMIRate(dto.score), MonthlyExtra(extra, frequency))

\* Entries that belong to one calendar year, when the first falls in month start.
YearlyEntry(schedule, start, year) ==
    LET months == {k \in DOMAIN schedule : (start + k - 1) \div 12 = year}
        Over(f) == MapThenSumSet(LAMBDA k : schedule[k][f], months)
    IN  [principal |-> Over("principal"), interest |-> Over("interest"), pmi |-> Over("pmi"),
         ending |-> schedule[Max(months)].ending]

YearlySummary(schedule, start) ==
    [year \in {(start + k - 1) \div 12 : k \in DOMAIN schedule} |->
        YearlyEntry(schedule, start, year)]

-----------------------------------------------------------------------------
(* Creative financing.  A column has price, down, costs (closing and rehab), *)
(* rate, term, and refiRate, refiTerm and refiCosts, the term 0 for none.    *)

ColumnHasRefi(col) == col.refiTerm > 0 /\ col.term < 360

Pmt(rate, term, pv) == IF pv <= 0 \/ term <= 0 THEN 0 ELSE PI(pv, rate, term)

\* The payment is that of a loan over the months held, whatever its term.
PrincipalPaidDown(rate, months, principal) ==
    IF principal <= 0 \/ months <= 0 THEN 0
    ELSE IF rate = 0 THEN principal
    ELSE principal - LoanBalance(principal, rate, months, months)

PurchaseSection(col) ==
    LET loan == col.price - col.down
    IN  [loan |-> loan, payment |-> Pmt(col.rate, col.term, loan),
         cashToClose |-> col.down + col.costs]

\* The loan that replaces the first one when its term is over.
RefiSection(col, purchase) ==
    LET loan == purchase.loan - PrincipalPaidDown(col.rate, col.term, purchase.loan)
    IN  IF ColumnHasRefi(col)
        THEN [loan |-> loan, payment |-> Pmt(col.refiRate, col.refiTerm, loan),
              invested |-> purchase.cashToClose + col.refiCosts]
        ELSE [loan |-> 0, payment |-> purchase.payment, invested |-> purchase.cashToClose]

LoanMetrics(col, purchase, refi) ==
    LET first == TotalInterestPaid(purchase.payment, col.term, purchase.loan)
        second == TotalInterestPaid(refi.payment, col.refiTerm, refi.loan)
        has == ColumnHasRefi(col)
        interest == first + IF has THEN second ELSE 0
    IN  [interest |-> AtLeast(0, interest),
         cost |-> purchase.loan + interest + col.costs + IF has THEN col.refiCosts ELSE 0,
         payoff |-> col.term + IF has THEN col.refiTerm ELSE 0]

FiveYearReduction(col, purchase) ==
    PrincipalPaidDown(col.rate, AtMost(col.term, 60), purchase.loan)
=============================================================================
