--------------------------- MODULE RentalReports ---------------------------
(***************************************************************************)
(* The pages of one analysis of the rental analyzer.  Each page is asked   *)
(* with the percentages the user plays with; the code reads the analysis,  *)
(* then the builder, stores the percentages as the parameters of the       *)
(* analysis and answers with figures of the builder it read.  A comparison *)
(* of deals shows the figures again later, with the parameters stored.     *)
(* Saves of the builder and other pages run between any two statements.    *)
(*                                                                         *)
(* The builder is there from the start, or never: RentalAnalysis makes it, *)
(* and a request that fails while it makes one is cleaned up there.        *)
(***************************************************************************)
EXTENDS MortgageFigures, Projections

CONSTANTS
    Requests,     \* requests the server can be serving at once
    Rents,        \* what the units of a builder bring a month
    Charges,      \* taxes, insurance and utilities of a month
    Acquisitions, \* price, costs, credits, rate and term
    Forms,        \* what a page is asked with; pmi may be None
    Views,        \* what a page that looks ahead is asked with besides
    Defaults,     \* what a comparison takes where nothing is stored
    MaxAsked,     \* bound on requests
    MaxFaults,    \* bound on failed statements
    None

\* A row of r_analysis_params.
RParams == [ltv: Nat, occupancy: Nat, management: Nat, maintenance: Nat, pmi: Nat]

\* What a page may be asked with.
Pages == [ltv: 0..100, occupancy: 0..100, management: 0..100, maintenance: 0..100,
          pmi: Nat \cup {None}, zipCap: Nat, debtRisk: 0..2, extracted: Nat]

\* What a page that looks ahead may be asked with.
Outlooks == [depreciation: 0..100, tax: 0..100, appreciation: Nat, incomeIncrease: 0..100,
             expenseIncrease: 0..100, vacancy: 0..100, sellingCosts: 0..100,
             yearsToExit: Nat \ {0}, additionalEquity: Nat]

ASSUME ReportsAssumption ==
    /\ Forms \subseteq Pages /\ Views \subseteq Outlooks /\ Defaults \in RParams /\ None \notin RParams
    /\ Rents \subseteq Nat /\ Charges \subseteq Nat
    /\ Acquisitions \subseteq [price: Nat, costs: Nat, credits: Nat, rate: Nat, term: Nat \ {0}]
    /\ MaxAsked \in Nat /\ MaxFaults \in Nat
    /\ None \notin Requests

VARIABLES
    builder,   \* the sections of the builder, or None
    params,    \* the row of r_analysis_params, or None
    req,       \* what each request has read and is about to do
    shown,     \* history: the page that wrote the parameters last, and its answer
    compared,  \* history: the last comparison and what it followed
    asked, faults

vars == <<builder, params, req, shown, compared, asked, faults>>

Builders == [rent: Rents, charges: Charges, acq: Acquisitions]

Idle == [pc |-> "idle", builder |-> None, form |-> None, params |-> None, after |-> None]

Init ==
    /\ builder \in Builders \cup {None}
    /\ params = None
    /\ req = [r \in Requests |-> Idle]
    /\ shown = None
    /\ compared = None
    /\ asked = 0
    /\ faults = 0

Go(r, record) == req' = [req EXCEPT ![r] = record]
Finish(r) == Go(r, Idle)

Ask(r, record) ==
    /\ req[r] = Idle
    /\ asked < MaxAsked
    /\ asked' = asked + 1
    /\ Go(r, record)

-----------------------------------------------------------------------------
(* Saving the builder: upsertRaBuilderSections, one UPDATE per section.    *)

AskSave(r, b) ==
    /\ builder # None
    /\ Ask(r, [Idle EXCEPT !.pc = "property", !.builder = b])
    /\ UNCHANGED <<builder, params, shown, compared, faults>>

SaveProperty(r) ==
    /\ req[r].pc = "property"
    /\ builder' = [builder EXCEPT !.rent = req[r].builder.rent]
    /\ Go(r, [req[r] EXCEPT !.pc = "acquisition"])
    /\ UNCHANGED <<params, shown, compared, asked, faults>>

SaveAcquisition(r) ==
    /\ req[r].pc = "acquisition"
    /\ builder' = [builder EXCEPT !.acq = req[r].builder.acq]
    /\ Go(r, [req[r] EXCEPT !.pc = "expenses"])
    /\ UNCHANGED <<params, shown, compared, asked, faults>>

SaveExpenses(r) ==
    /\ req[r].pc = "expenses"
    /\ builder' = [builder EXCEPT !.charges = req[r].builder.charges]
    /\ Finish(r)
    /\ UNCHANGED <<params, shown, compared, asked, faults>>

-----------------------------------------------------------------------------
(* A page: resolveBaseContext and the calculator after it.                 *)

\* getAnalysis, with the parameters the analysis has by then.
AskPage(r, f) ==
    /\ Ask(r, [Idle EXCEPT !.pc = "builder", !.form = f, !.params = params])
    /\ UNCHANGED <<builder, params, shown, compared, faults>>

\* Without a builder the answer is null.
ReadBuilder(r) ==
    /\ req[r].pc = "builder"
    /\ IF builder = None
       THEN Finish(r)
       ELSE Go(r, [req[r] EXCEPT !.pc = "params", !.builder = builder])
    /\ UNCHANGED <<builder, params, shown, compared, asked, faults>>

\* What createRParam stores; the column pmi has the default 0.
CreateRParam(f) ==
    [ltv |-> f.ltv, occupancy |-> f.occupancy, management |-> f.management,
     maintenance |-> f.maintenance, pmi |-> IF f.pmi = None THEN 0 ELSE f.pmi]

\* Mutant: the occupancy of the first page is kept.
UpdateRParam_oldOccupancy(row, f) ==
    [ltv |-> f.ltv, occupancy |-> row.occupancy, management |-> f.maintenance,
     maintenance |-> f.maintenance, pmi |-> IF f.pmi = None THEN row.pmi ELSE f.pmi]

\* What updateRParam stores: upsertRParam hands it the maintenance escrow as
\* the management fee, and a pmi only when the page was asked with one.
UpdateRParam(row, f) ==
    [ltv |-> f.ltv, occupancy |-> f.occupancy, management |-> f.maintenance,
     maintenance |-> f.maintenance, pmi |-> IF f.pmi = None THEN row.pmi ELSE f.pmi]

\* upsertRParam decides by the row read with the analysis.  rAnalysisId is
\* unique, so an INSERT fails when another page was first.
UpsertParams(r) ==
    LET f == req[r].form
    IN  /\ req[r].pc = "params"
        /\ \/ /\ req[r].params # None
              /\ params' = UpdateRParam(params, f)
              /\ shown' = [by |-> r, form |-> f, deal |-> None, figures |-> None]
              /\ Go(r, [req[r] EXCEPT !.pc = "answer"])
           \/ /\ req[r].params = None /\ params = None
              /\ params' = CreateRParam(f)
              /\ shown' = [by |-> r, form |-> f, deal |-> None, figures |-> None]
              /\ Go(r, [req[r] EXCEPT !.pc = "answer"])
           \/ /\ req[r].params = None /\ params # None
              /\ Finish(r)
              /\ UNCHANGED <<params, shown>>
        /\ UNCHANGED <<builder, compared, asked, faults>>

Deal(b) == [rent |-> b.rent, charges |-> b.charges, price |-> b.acq.price,
            costs |-> b.acq.costs, credits |-> b.acq.credits,
            rate |-> b.acq.rate, term |-> b.acq.term]

\* The settings are read (a profile that is gone makes the request fail), then
\* the figures are those of the form and of the builder read before.
Answer(r) ==
    /\ req[r].pc = "answer"
    /\ shown' = IF shown.by = r
                THEN [shown EXCEPT !.deal = req[r].builder,
                                   !.figures = Figures(Deal(req[r].builder),
                                                       CreateRParam(req[r].form))]
                ELSE shown
    /\ Finish(r)
    /\ UNCHANGED <<builder, params, compared, asked, faults>>

-----------------------------------------------------------------------------
(* A comparison: resolveSingleComparisonItem.                              *)

\* One query reads the analysis with its parameters and its builder.
AskComparison(r) ==
    /\ Ask(r, IF builder = None
              THEN Idle
              ELSE [Idle EXCEPT !.pc = "compare", !.builder = builder,
                                !.params = params, !.after = shown])
    /\ UNCHANGED <<builder, params, shown, compared, faults>>

ResolvedParams(row) == IF row = None THEN Defaults ELSE row

Compare(r) ==
    /\ req[r].pc = "compare"
    /\ compared' = [after |-> req[r].after, deal |-> req[r].builder,
                    figures |-> Figures(Deal(req[r].builder), ResolvedParams(req[r].params))]
    /\ Finish(r)
    /\ UNCHANGED <<builder, params, shown, asked, faults>>

\* A statement fails; nothing that was stored is taken back.
RequestFails(r) ==
    /\ req[r].pc # "idle"
    /\ faults < MaxFaults
    /\ faults' = faults + 1
    /\ Finish(r)
    /\ UNCHANGED <<builder, params, shown, compared, asked>>

-----------------------------------------------------------------------------
Next == \E r \in Requests :
    \/ \E b \in Builders : AskSave(r, b)
    \/ SaveProperty(r) \/ SaveAcquisition(r) \/ SaveExpenses(r)
    \/ \E f \in Forms : AskPage(r, f)
    \/ ReadBuilder(r) \/ UpsertParams(r) \/ Answer(r)
    \/ AskComparison(r) \/ Compare(r)
    \/ RequestFails(r)

Spec == Init /\ [][Next]_vars

-----------------------------------------------------------------------------
(* Properties.                                                             *)

SummaryKept == {"loan", "cash", "payment", "income", "escrow"}
MetricsKept == {"goi", "noi", "debt", "cashFlow", "oer", "debtYield", "payback", "ltv", "capRate", "grm"}

\* A comparison made after a page, of the same builder and with no page that
\* stored its parameters in between, shows that page's figures again: the
\* whole summary when its two fees are equal, since updateRParam stores one for
\* the other, and all the metrics when it said what the insurance of the
\* mortgage is; otherwise what does not rest on these.  A page that failed,
\* lost the race for the row or was crossed by another claims nothing.
ComparisonFollows ==
    LET page == compared.after
    IN  compared # None =>
        (page # None =>
        (page.figures # None /\ page.deal = compared.deal =>
            /\ \A n \in SummaryKept : compared.figures.summary[n] = page.figures.summary[n]
            /\ \A n \in MetricsKept : compared.figures.metrics[n] = page.figures.metrics[n]
            /\ page.form.management = page.form.maintenance =>
                   compared.figures.summary = page.figures.summary
            /\ page.form.pmi # None => compared.figures.metrics = page.figures.metrics))

\* What the mortgage calculator is asked with about the loan of a deal.
Dto(a, f) == [price |-> a.price, percent |-> 100 - f.ltv,
              amount |-> CalculateDownPayment(a.price, 100 - f.ltv),
              rate |-> a.rate, term |-> a.term, score |-> "fair"]

\* The column of such a loan, to be replaced by one over a year or not.
Column(a, f, refiTerm) ==
    [price |-> a.price, down |-> CalculateDownPayment(a.price, 100 - f.ltv), costs |-> a.costs,
     rate |-> a.rate, term |-> a.term, refiRate |-> 90, refiTerm |-> refiTerm, refiCosts |-> 500]

Over(schedule, field) == MapThenSumSet(LAMBDA k : schedule[k][field], DOMAIN schedule)

\* Figures of so many months, in each of which payment and interest are rounded.
Close(x, y, months) == x - y \in -2 * months .. 2 * months

\* The schedule and the breakdown of a mortgage: the loan is paid back, within a
\* month of its term and for the interest of the formula up to rounding;
\* the insurance of the months adds up to its total, and is shown when there is
\* some; and an extra payment makes it neither longer nor dearer.
ScheduleAgrees(dto) ==
    LET core == Breakdown(dto)
        plain == ScheduleBreakdown(dto, 0, "monthly")
    IN  /\ Over(plain, "principal") = core.loan
        /\ Len(plain) \in {dto.term, dto.term + 1}
        /\ Close(Over(plain, "interest"), core.interest, dto.term)
        /\ Over(plain, "pmi") = core.totalPMI
        /\ core.pmi = 0 <=> core.totalPMI = 0
        /\ \A frequency \in {"weekly", "monthly", "yearly"} :
               LET extra == ScheduleBreakdown(dto, 600, frequency)
               IN  /\ Over(extra, "principal") = core.loan
                   /\ Len(extra) <= Len(plain)
                   /\ Over(extra, "interest") <= Over(plain, "interest")

\* The yearly summary, whichever month the loan starts in: the years add up to
\* the loan, and each ends with what the years before it have left.
YearsAgree(dto) ==
    LET schedule == ScheduleBreakdown(dto, 0, "monthly")
    IN  \A start \in {0, 7} :
            LET years == YearlySummary(schedule, start)
            IN  \A y \in DOMAIN years :
                    years[y].ending + SumFunction([z \in {x \in DOMAIN years : x <= y} |->
                                                      years[z].principal])
                        = CalculateLoanAmount(dto.price, dto.amount)

\* A column and the summary of the rental analyzer: one payment, one interest,
\* and one principal paid back, be it by the end of the loan or of five years.
\* Without interest a column takes the whole loan as paid back.
ColumnAgrees(a, f) ==
    LET loan == LtvAmount(a, f)
        plain == Column(a, f, 0)
        first == PurchaseSection(plain)
        refi == Column(a, f, 12)
        second == RefiSection(refi, first)
    IN  /\ first.loan = loan
        /\ first.payment = PI(loan, a.rate, a.term)
        /\ LoanMetrics(plain, first, RefiSection(plain, first)).interest
               = TotalInterestPaid(first.payment, a.term, loan)
        /\ Close(loan - second.loan, CumPrinc(loan, a.rate, a.term, a.term), a.term)
        /\ LoanMetrics(refi, first, second).interest
               >= LoanMetrics(plain, first, second).interest
        /\ Close(FiveYearReduction(plain, first),
                 CumPrinc(loan, a.rate, a.term, AtMost(a.term, 60)), a.term)

\* All that two stateless calculators say of the loan of each deal.
PagesAgreeOn == [a \in Acquisitions |-> [f \in Forms |->
    /\ a.rate > 0 => ScheduleAgrees(Dto(a, f)) /\ YearsAgree(Dto(a, f))
    /\ a.term <= 60 => ColumnAgrees(a, f)]]

\* A user who takes the loan of a builder to the mortgage calculator and to
\* creative financing meets the same loan there: formulas, monthly walks and
\* yearly sums of five services agree on payment, interest, insurance and what
\* is paid back.  Stated without loans over more than five years, of which
\* computePrincipalPaidDown takes the payment of a loan over five.
PagesAgree == builder # None => \A f \in Forms : PagesAgreeOn[builder.acq][f]

\* The sum of the first entries of a function on years.
First(f, years) == SumFunctionOnSet(f, 1..years)

\* The tabs and the summary of one deal.  Year by year: a projection is worth
\* what the appreciation tab says, owes what the paydown tab has left of the
\* loan, and deducts what the tax tab does besides its expenses; when nothing
\* rises its profit is the sale, less what is left of the loan, plus the yearly
\* cash flows, and with a rising rent no less.  The summary's equity is that of
\* the tabs, its appreciation being that of the years before the exit.
TabsAgree(deal, form, view) ==
    LET loan == LtvAmount(deal, form)
        project(y) == BuyHoldYear(deal, form, view, y)
        taxes == TaxDeductionSummary(deal, form, view)
        paydown == PaydownSummary(deal, form)
        growth == AppreciationSummary(deal, form, view).years
        equity(n) == AppreciationBlock(deal, form, [view EXCEPT !.yearsToExit = n])
        gains == [z \in 1..5 |-> growth[z].gain]
        flows == [z \in 1..5 |-> project(z).cashFlow]
        left(y) == AtLeast(0, loan - First(paydown.years, y))
    IN  \A y \in {n \in 1..5 : 12 * n <= deal.term} :
            LET year == project(y)
                earned == ((deal.price + First(gains, y)) * (100 - view.sellingCosts)) \div 100
                              - left(y) + First(flows, y)
            IN  /\ year.value = growth[y].value
                /\ year.debt = left(y)
                /\ year.deductions = year.expenses + taxes.years[y].total
                /\ view.expenseIncrease = 0 => year.profit >= earned
                /\ view.expenseIncrease = 0 /\ view.incomeIncrease = 0 => year.profit = earned
                /\ view.additionalEquity = 0 =>
                       equity(y).owned = EstimatedCashToClose(deal, form) + First(gains, y - 1)
                                             + First(paydown.years, y)

TabsAgreeOn == [d \in {Deal(b) : b \in Builders} |->
                    [f \in Forms |-> [v \in Views |-> TabsAgree(d, f, v)]]]

\* What the pages say of the years ahead is one story, told by six calculations
\* on four pages, within the term of the loan.
ProjectionsAgree ==
    builder # None => \A f \in Forms, v \in Views : TabsAgreeOn[Deal(builder)][f][v]

\* The step of a save that raises the rent or lowers the charges.
BetterDeal ==
    /\ builder # None
    /\ builder.rent > 0
    /\ builder'.acq = builder.acq
    /\ builder'.rent >= builder.rent
    /\ builder'.charges <= builder.charges

\* The overall score of every builder, under every form.
Grade == [b \in Builders |-> [f \in Forms |-> Overall(Deal(b), f)]]

\* Such a step never lowers the grade of the deal, through seven curves, three
\* pillars and five guardrails, whatever the page is asked with.  Without any
\* rent the grade may be the better one: computeMetrics then says the deal
\* breaks even at 100 %.
GradeFollows ==
    [][BetterDeal =>
           \A f \in Forms : Grade[builder'][f] >= Grade[builder][f]]_builder
=============================================================================
