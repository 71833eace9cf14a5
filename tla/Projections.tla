---------------------------- MODULE Projections ----------------------------
(***************************************************************************)
(* The pages of the rental analyzer that look ahead: the summary, of       *)
(* r-summary-calculator.service, and the four tabs of the breakdown, of    *)
(* r-full-breakdown-calculator.service, as r-analysis.service asks for     *)
(* them.                                                                   *)
(*                                                                         *)
(* Deals, forms and units are those of DealFigures; amounts are in dollars *)
(* a year unless a name says otherwise, shares of the cash in 1/10000.  A  *)
(* view is what a page is asked with besides the form: depreciation, tax   *)
(* and appreciation rate, incomeIncrease and expenseIncrease, vacancy,     *)
(* sellingCosts (all in percent), yearsToExit and additionalEquity.  Of    *)
(* the charges the tabs count taxes and insurance but no utilities; here   *)
(* the charges of a deal are the former, and it has no other income and no *)
(* reserves.  Annual returns, which take roots, are left out.              *)
(***************************************************************************)
EXTENDS DealFigures, Functions

\* amount * (1 + percent / 100)^years, rounded down every year.
Grown(amount, percent, years) ==
    LET grown[k \in Nat] ==
            IF k = 0 THEN amount ELSE (grown[k - 1] * (100 + percent)) \div 100
    IN  grown[years]

\* An amount of five years as a share of the cash.
ShareOfCash(amount, cash) == Ratio(amount * 100, cash) * 100

YearlyCashFlow(deal, form) == Summary(deal, form).cashFlow \div 100

-----------------------------------------------------------------------------
(* The summary. *)

CostPerUnit(deal, units) == Ratio(deal.price + deal.costs, units)

IncomeStatement(deal) ==
    [goi |-> 12 * deal.rent, expenses |-> 12 * deal.charges,
     noi |-> 12 * (deal.rent - deal.charges)]

DepreciationAmount(deal, view) == (deal.price * view.depreciation) \div 100

\* Over 27.5 years; the credit of all of them is taken thirty times.
EstimatedTaxDeductions(deal, form, view) ==
    LET amount == DepreciationAmount(deal, view)
        deduction == (amount * 2) \div 55
        credit == (deduction * view.tax) \div 100
    IN  [amount |-> amount, deduction |-> deduction, credit |-> credit,
         overLife |-> credit * 30,
         roi |-> ShareOfCash((amount * view.tax) \div 100, EstimatedCashToClose(deal, form))]

\* Mutant: the year of the exit counts as well.
PropertyAppreciation_exitYear(equity, rate, years) == Grown(equity, rate, years) - equity

PropertyAppreciation(equity, rate, years) == Grown(equity, rate, years - 1) - equity

\* computePropertyAppreciationBlock
AppreciationBlock(deal, form, view) ==
    LET loan == LtvAmount(deal, form)
        cash == EstimatedCashToClose(deal, form)
        gain == PropertyAppreciation(deal.price + view.additionalEquity, view.appreciation,
                                     view.yearsToExit)
        paydown == CumPrinc(loan, deal.rate, deal.term, 12 * view.yearsToExit)
        owned == cash + view.additionalEquity + gain + paydown
    IN  [appreciation |-> gain, paydown |-> paydown, owned |-> owned,
         fullTermROI |-> ShareOfCash(owned - cash + YearlyCashFlow(deal, form) * view.yearsToExit,
                                     cash)]

\* In units of 1/10000: the code divides by 100 once more.
BreakEvenRatio(deal, form) ==
    Ratio(100 * (deal.charges + PI(LtvAmount(deal, form), deal.rate, deal.term)), deal.rent)

CumulativeProjection(years, deal, form) ==
    [cashFlow |-> ShareOfCash(YearlyCashFlow(deal, form) * years, EstimatedCashToClose(deal, form)),
     paydown |-> CumPrinc(LtvAmount(deal, form), deal.rate, deal.term, 12 * years)]

\* getRentalSummary
RentalSummary(deal, form, view, units) ==
    [cost |-> CostPerUnit(deal, units), statement |-> IncomeStatement(deal),
     taxes |-> EstimatedTaxDeductions(deal, form, view),
     equity |-> AppreciationBlock(deal, form, view),
     breakEven |-> BreakEvenRatio(deal, form),
     projections |-> [y \in {5, 10, 15} |-> CumulativeProjection(y, deal, form)]]

-----------------------------------------------------------------------------
(* The tabs. *)

TaxDeductionYear(deal, form, view, year) ==
    LET interest == YearlyInterestPaid(LtvAmount(deal, form), deal.rate, deal.term, year)
    IN  [interest |-> interest, total |-> DepreciationAmount(deal, view) + interest]

\* getTaxDeductionSummary
TaxDeductionSummary(deal, form, view) ==
    LET years == [y \in 1..5 |-> TaxDeductionYear(deal, form, view, y)]
        total == SumFunction([y \in 1..5 |-> years[y].total])
        savings == (total * view.tax) \div 100
    IN  [years |-> years, total |-> total, savings |-> savings, average |-> total \div 5,
         roi |-> ShareOfCash(savings, EstimatedCashToClose(deal, form))]

\* getPaydownSummary
PaydownSummary(deal, form) ==
    LET loan == LtvAmount(deal, form)
        years == [y \in 1..5 |-> PaydownYear(loan, deal.rate, deal.term, y)]
    IN  [years |-> years, total |-> SumFunction(years),
         averageROI |-> ShareOfCash(SumFunction(years), EstimatedCashToClose(deal, form)) \div 5]

\* computeAppreciationSummary: the value year by year, and a total of shares.
AppreciationTab(price, rate, cashFlow, debtPaydown, taxSavings) ==
    LET value == [y \in 0..5 |-> Grown(price, rate, y)]
    IN  [years |-> [y \in 1..5 |-> [value |-> value[y], gain |-> value[y] - value[y - 1]]],
         cashFlow |-> cashFlow, debtPaydown |-> debtPaydown, taxSavings |-> taxSavings,
         totalROI |-> cashFlow + debtPaydown + taxSavings + rate * 100]

\* getAppreciationSummary hands it the return of the paydown as the cash flow,
\* that of the taxes as the paydown, and the rate as the tax savings.
AppreciationSummary(deal, form, view) ==
    AppreciationTab(deal.price, view.appreciation, PaydownSummary(deal, form).averageROI,
                    TaxDeductionSummary(deal, form, view).roi, view.appreciation * 100)

\* computeBuyHoldYear.  The maintenance percentage is taken as dollars a month,
\* and the cash flow of the year as that of every year before it.
BuyHoldYear(deal, form, view, year) ==
    LET rent == 12 * Grown(deal.rent, view.incomeIncrease, year - 1)
        income == rent - (rent * view.vacancy) \div 100
        expenses == 12 * Grown(deal.charges + form.maintenance, view.expenseIncrease, year - 1)
                        + (income * form.management) \div 100
        loan == LtvAmount(deal, form)
        cashFlow == income - expenses - 12 * PI(loan, deal.rate, deal.term)
        value == Grown(deal.price, view.appreciation, year)
        debt == LoanBalance(loan, deal.rate, deal.term, 12 * year)
    IN  [cashFlow |-> cashFlow, expenses |-> expenses, value |-> value, debt |-> debt,
         deductions |-> expenses + DepreciationAmount(deal, view)
                            + YearlyInterestPaid(loan, deal.rate, deal.term, year),
         equity |-> value - debt,
         profit |-> (value * (100 - view.sellingCosts)) \div 100 - debt + cashFlow * year]

\* getBuyHoldProjections
BuyHoldProjections(deal, form, view) ==
    [year \in {1, 2, 3, 5, 10, 30} |-> BuyHoldYear(deal, form, view, year)]
=============================================================================
