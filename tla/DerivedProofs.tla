---------------------------- MODULE DerivedProofs ----------------------------
(***************************************************************************)
(* What is kept beside the data it was made of.                            *)
(*                                                                         *)
(* RentalReports: why a comparison repeats the page before it, why the     *)
(*     grade of a deal follows the deal, and why the tabs tell one story.  *)
(* CostSections: why a total is the sum of its items.                      *)
(* CachePages: why the pages of a list are those of its rows.              *)
(***************************************************************************)
EXTENDS RentalReports, CostSections, CachePages, WellFoundedInduction, FiniteSetTheorems,
        TLAPS

-----------------------------------------------------------------------------
(* The figures. *)

\* What a stored row has in common with the form that was stored.
Agree(row, f) ==
    /\ row.ltv = f.ltv /\ row.occupancy = f.occupancy /\ row.maintenance = f.maintenance
    /\ f.management = f.maintenance => row.management = f.management
    /\ f.pmi # None => row.pmi = f.pmi

\* The amounts of the loan depend on the form only by its ltv.
LEMMA SameLoan ==
    ASSUME NEW d, NEW p, NEW q, p.ltv = q.ltv
    PROVE  /\ LtvAmount(d, p) = LtvAmount(d, q)
           /\ EstimatedCashToClose(d, p) = EstimatedCashToClose(d, q)
BY DEF LtvAmount, EstimatedCashToClose

\* The part of the summary that does not rest on the management fee.
LEMMA SameSummary ==
    ASSUME NEW d, NEW p, NEW q,
           p.ltv = q.ltv, p.occupancy = q.occupancy, p.maintenance = q.maintenance
    PROVE  /\ \A n \in SummaryKept : Summary(d, p)[n] = Summary(d, q)[n]
           /\ p.management = q.management => Summary(d, p) = Summary(d, q)
<1>1. LtvAmount(d, p) = LtvAmount(d, q) /\ EstimatedCashToClose(d, p) = EstimatedCashToClose(d, q)
    BY SameLoan
<1>2. /\ Summary(d, p).loan = Summary(d, q).loan
      /\ Summary(d, p).cash = Summary(d, q).cash
      /\ Summary(d, p).payment = Summary(d, q).payment
      /\ Summary(d, p).income = Summary(d, q).income
      /\ Summary(d, p).escrow = Summary(d, q).escrow
    BY <1>1 DEF Summary
<1>3. \A n \in SummaryKept : Summary(d, p)[n] = Summary(d, q)[n]
    BY <1>2 DEF SummaryKept
<1>4. p.management = q.management => Summary(d, p) = Summary(d, q)
    BY <1>1 DEF Summary
<1> QED BY <1>3, <1>4

\* The part of the metrics that does not rest on the mortgage insurance; none
\* of them rests on the fees.
LEMMA SameMetrics ==
    ASSUME NEW d, NEW p, NEW q, p.ltv = q.ltv, p.occupancy = q.occupancy
    PROVE  /\ \A n \in MetricsKept : RentalMetrics(d, p)[n] = RentalMetrics(d, q)[n]
           /\ p.pmi = q.pmi => RentalMetrics(d, p) = RentalMetrics(d, q)
<1>1. LtvAmount(d, p) = LtvAmount(d, q) /\ EstimatedCashToClose(d, p) = EstimatedCashToClose(d, q)
    BY SameLoan
<1>2. /\ RentalMetrics(d, p).goi = RentalMetrics(d, q).goi
      /\ RentalMetrics(d, p).noi = RentalMetrics(d, q).noi
      /\ RentalMetrics(d, p).debt = RentalMetrics(d, q).debt
      /\ RentalMetrics(d, p).cashFlow = RentalMetrics(d, q).cashFlow
      /\ RentalMetrics(d, p).oer = RentalMetrics(d, q).oer
      /\ RentalMetrics(d, p).debtYield = RentalMetrics(d, q).debtYield
      /\ RentalMetrics(d, p).payback = RentalMetrics(d, q).payback
      /\ RentalMetrics(d, p).ltv = RentalMetrics(d, q).ltv
      /\ RentalMetrics(d, p).capRate = RentalMetrics(d, q).capRate
      /\ RentalMetrics(d, p).grm = RentalMetrics(d, q).grm
    BY <1>1 DEF RentalMetrics
<1>3. \A n \in MetricsKept : RentalMetrics(d, p)[n] = RentalMetrics(d, q)[n]
    BY <1>2 DEF MetricsKept
<1>4. p.pmi = q.pmi => RentalMetrics(d, p) = RentalMetrics(d, q)
    BY <1>1 DEF RentalMetrics
<1> QED BY <1>3, <1>4

\* What ComparisonFollows asks of the figures of a deal, for a row that agrees
\* with the form of the page.
LEMMA KeptFigures ==
    ASSUME NEW d, NEW row, NEW f, Agree(row, f)
    PROVE  LET c == CreateRParam(f)
           IN  /\ \A n \in SummaryKept : Figures(d, row).summary[n] = Figures(d, c).summary[n]
               /\ \A n \in MetricsKept : Figures(d, row).metrics[n] = Figures(d, c).metrics[n]
               /\ f.management = f.maintenance => Figures(d, row).summary = Figures(d, c).summary
               /\ f.pmi # None => Figures(d, row).metrics = Figures(d, c).metrics
<1> DEFINE c == CreateRParam(f)
<1>1. /\ row.ltv = c.ltv /\ row.occupancy = c.occupancy /\ row.maintenance = c.maintenance
      /\ f.management = f.maintenance => row.management = c.management
      /\ f.pmi # None => row.pmi = c.pmi
    BY DEF Agree, CreateRParam
<1>2. /\ Figures(d, row).summary = Summary(d, row) /\ Figures(d, c).summary = Summary(d, c)
      /\ Figures(d, row).metrics = RentalMetrics(d, row) /\ Figures(d, c).metrics = RentalMetrics(d, c)
    BY DEF Figures
<1> HIDE DEF c
<1>3. /\ \A n \in SummaryKept : Summary(d, row)[n] = Summary(d, c)[n]
      /\ row.management = c.management => Summary(d, row) = Summary(d, c)
    BY <1>1, SameSummary
<1>4. /\ \A n \in MetricsKept : RentalMetrics(d, row)[n] = RentalMetrics(d, c)[n]
      /\ row.pmi = c.pmi => RentalMetrics(d, row) = RentalMetrics(d, c)
    BY <1>1, SameMetrics
<1> QED BY <1>1, <1>2, <1>3, <1>4 DEF c

\* Both ways to store a form make a row that agrees with it.
LEMMA StoredAgrees ==
    ASSUME NEW f \in Forms
    PROVE  /\ CreateRParam(f) \in RParams /\ Agree(CreateRParam(f), f)
           /\ \A row \in RParams : UpdateRParam(row, f) \in RParams /\ Agree(UpdateRParam(row, f), f)
<1>1. f \in Pages
    BY ReportsAssumption
<1>2. CreateRParam(f) \in RParams /\ Agree(CreateRParam(f), f)
    BY <1>1 DEF Pages, RParams, CreateRParam, Agree
<1>3. \A row \in RParams : UpdateRParam(row, f) \in RParams /\ Agree(UpdateRParam(row, f), f)
    BY <1>1 DEF Pages, RParams, UpdateRParam, Agree
<1> QED BY <1>2, <1>3

-----------------------------------------------------------------------------
(* The inductive invariant. *)

IsRequest(q) ==
    q \in [pc: {q.pc}, builder: {q.builder}, form: {q.form}, params: {q.params}, after: {q.after}]

IsPage(s) == s \in [by: {s.by}, form: {s.form}, deal: {s.deal}, figures: {s.figures}]

\* A row stands for a page: it holds what the page was asked with, and the
\* page's answer, once given, has the figures of its deal under that form.
Stands(row, page) ==
    /\ IsPage(page)
    /\ row \in RParams /\ Agree(row, page.form)
    /\ page.figures # None => page.figures = Figures(Deal(page.deal), CreateRParam(page.form))

StoreInv ==
    /\ params \in RParams \cup {None}
    /\ shown = None \/ Stands(params, shown)

\* What a request may rely on at its next step.
RequestOK(r, q) ==
    /\ IsRequest(q)
    /\ q.params # None => params # None
    /\ q.pc \in {"builder", "params", "answer"} => q.form \in Forms
    /\ q.pc = "answer" => Stands(params, shown) /\ (shown.by = r => shown.form = q.form)
    /\ q.pc = "compare" => q.after = None \/ Stands(q.params, q.after)

ReqInv == /\ req = [r \in Requests |-> req[r]]
          /\ \A r \in Requests : RequestOK(r, req[r])

IInv == StoreInv /\ ReqInv /\ ComparisonFollows

-----------------------------------------------------------------------------
(* The ways a step goes on. *)

\* The tables are as they were and one request moves to a record that is fit
\* for its next step.
LEMMA Moves ==
    ASSUME ReqInv, NEW r \in Requests, NEW q, Go(r, q), RequestOK(r, q),
           UNCHANGED <<params, shown>>
    PROVE  ReqInv'
<1>1. req' = [x \in Requests |-> req'[x]]
    BY DEF ReqInv, Go
<1>2. ASSUME NEW x \in Requests PROVE RequestOK(x, req'[x])
    BY <1>2 DEF ReqInv, Go
<1>3. ASSUME NEW x \in Requests PROVE RequestOK(x, req[x])'
    BY <1>2 DEF RequestOK
<1> QED BY <1>1, <1>3 DEF ReqInv

LEMMA IdleOK ==
    ASSUME NEW r \in Requests
    PROVE  RequestOK(r, Idle)
BY DEF RequestOK, IsRequest, Idle

LEMMA Ends ==
    ASSUME ReqInv, NEW r \in Requests, Finish(r), UNCHANGED <<params, shown>>
    PROVE  ReqInv'
BY IdleOK, Moves DEF Finish

LEMMA Untouched ==
    ASSUME StoreInv, ComparisonFollows, UNCHANGED <<params, shown, compared>>
    PROVE  StoreInv' /\ ComparisonFollows'
BY DEF StoreInv, ComparisonFollows

\* The records that steps make, field by field.
LEMMA NextRecord ==
    ASSUME NEW q, IsRequest(q), NEW pc, NEW new, new = [q EXCEPT !.pc = pc]
    PROVE  /\ IsRequest(new) /\ new.pc = pc
           /\ new.builder = q.builder /\ new.form = q.form
           /\ new.params = q.params /\ new.after = q.after
<1>1. PICK A, B, C, D, E : q \in [pc: A, builder: B, form: C, params: D, after: E]
    BY DEF IsRequest
<1>2. new.pc = pc /\ new \in [pc: A \cup {pc}, builder: B, form: C, params: D, after: E]
    BY <1>1
<1>3. new.builder = q.builder /\ new.form = q.form /\ new.params = q.params /\ new.after = q.after
    BY <1>1
<1>4. IsRequest(new)
    BY <1>2 DEF IsRequest
<1> QED BY <1>2, <1>3, <1>4

LEMMA SaveRecord ==
    ASSUME NEW b, NEW new, new = [Idle EXCEPT !.pc = "property", !.builder = b]
    PROVE  /\ IsRequest(new) /\ new.pc = "property" /\ new.params = None
BY DEF Idle, IsRequest

\* A request that only moves on to a step that relies on nothing.
LEMMA StepOn ==
    ASSUME ReqInv, NEW r \in Requests, NEW pc \in {"acquisition", "expenses"},
           Go(r, [req[r] EXCEPT !.pc = pc]), UNCHANGED <<params, shown>>
    PROVE  ReqInv'
<1>1. PICK q : q = req[r]
    OBVIOUS
<1>2. RequestOK(r, q)
    BY <1>1 DEF ReqInv
<1>3. PICK new : new = [q EXCEPT !.pc = pc]
    OBVIOUS
<1>4. RequestOK(r, new)
    BY <1>2, <1>3, NextRecord DEF RequestOK
<1>5. Go(r, new)
    BY <1>1, <1>3
<1> QED BY <1>4, <1>5, Moves

-----------------------------------------------------------------------------
(* One lemma for each kind of step. *)

LEMMA SaveSafe ==
    ASSUME IInv, NEW r \in Requests,
           \/ \E b \in Builders : AskSave(r, b)
           \/ SaveProperty(r) \/ SaveAcquisition(r) \/ SaveExpenses(r)
    PROVE  IInv'
<1>1. UNCHANGED <<params, shown, compared>>
    BY DEF AskSave, SaveProperty, SaveAcquisition, SaveExpenses
<1> SUFFICES ReqInv'
    BY <1>1, Untouched DEF IInv
<1>2. ASSUME NEW b \in Builders, AskSave(r, b) PROVE ReqInv'
    <2>1. PICK new : new = [Idle EXCEPT !.pc = "property", !.builder = b]
        OBVIOUS
    <2>2. RequestOK(r, new)
        BY <2>1, SaveRecord DEF RequestOK
    <2>3. Go(r, new)
        BY <1>2, <2>1 DEF AskSave, Ask
    <2> QED BY <1>1, <2>2, <2>3, Moves DEF IInv
<1>3. CASE SaveProperty(r)
    BY <1>1, <1>3, StepOn DEF IInv, SaveProperty
<1>4. CASE SaveAcquisition(r)
    BY <1>1, <1>4, StepOn DEF IInv, SaveAcquisition
<1>5. CASE SaveExpenses(r)
    BY <1>1, <1>5, Ends DEF IInv, SaveExpenses
<1> QED BY <1>2, <1>3, <1>4, <1>5

LEMMA AskPageSafe ==
    ASSUME IInv, NEW r \in Requests, NEW f \in Forms, AskPage(r, f)
    PROVE  IInv'
<1>1. UNCHANGED <<params, shown, compared>>
    BY DEF AskPage
<1>2. PICK new : new = [Idle EXCEPT !.pc = "builder", !.form = f, !.params = params]
    OBVIOUS
<1>3. IsRequest(new) /\ new.pc = "builder" /\ new.form = f /\ new.params = params
    BY <1>2 DEF Idle, IsRequest
<1>4. RequestOK(r, new)
    BY <1>3 DEF RequestOK
<1>5. Go(r, new)
    BY <1>2 DEF AskPage, Ask
<1>6. ReqInv'
    BY <1>1, <1>4, <1>5, Moves DEF IInv
<1> QED BY <1>1, <1>6, Untouched DEF IInv

LEMMA ReadBuilderSafe ==
    ASSUME IInv, NEW r \in Requests, ReadBuilder(r)
    PROVE  IInv'
<1>1. UNCHANGED <<params, shown, compared>>
    BY DEF ReadBuilder
<1>2. PICK q : q = req[r]
    OBVIOUS
<1>3. RequestOK(r, q) /\ q.pc = "builder"
    BY <1>2 DEF IInv, ReqInv, ReadBuilder
<1>4. PICK new : new = [q EXCEPT !.pc = "params", !.builder = builder]
    OBVIOUS
<1>5. IsRequest(new) /\ new.pc = "params" /\ new.form = q.form /\ new.params = q.params
    BY <1>3, <1>4 DEF RequestOK, IsRequest
<1>6. RequestOK(r, new)
    BY <1>3, <1>5 DEF RequestOK
<1>7. Finish(r) \/ Go(r, new)
    BY <1>2, <1>4 DEF ReadBuilder
<1>8. ReqInv'
    BY <1>1, <1>6, <1>7, Ends, Moves DEF IInv
<1> QED BY <1>1, <1>8, Untouched DEF IInv

\* A row and a page are stored together; other requests about to answer are
\* then not the ones shown, and no request holds a row where there is none.
LEMMA StoreRow ==
    ASSUME IInv, NEW r \in Requests, NEW q, q = req[r], q.form \in Forms, NEW row,
           row \in RParams, Agree(row, q.form), params' = row,
           shown' = [by |-> r, form |-> q.form, deal |-> None, figures |-> None],
           Go(r, [q EXCEPT !.pc = "answer"])
    PROVE  StoreInv' /\ ReqInv'
<1>1. /\ IsPage(shown') /\ shown'.by = r /\ shown'.form = q.form /\ shown'.figures = None
    BY DEF IsPage
<1>2. Stands(params', shown') /\ StoreInv'
    BY <1>1 DEF StoreInv, Stands
<1>3. params' # None
    BY ReportsAssumption
<1>4. PICK new : new = [q EXCEPT !.pc = "answer"]
    OBVIOUS
<1>5. RequestOK(r, q)
    BY DEF IInv, ReqInv
<1>6. IsRequest(new) /\ new.pc = "answer" /\ new.form = q.form
    BY <1>4, <1>5, NextRecord DEF RequestOK
<1>7. Go(r, new)
    BY <1>4
<1>8. ASSUME NEW x \in Requests PROVE RequestOK(x, req[x])'
    <2>1. CASE x = r
        <3>1. req'[x] = new
            BY <1>7, <2>1 DEF Go, IInv, ReqInv
        <3> QED BY <1>1, <1>2, <1>3, <1>6, <2>1, <3>1 DEF RequestOK
    <2>2. CASE x # r
        <3>1. req'[x] = req[x] /\ RequestOK(x, req[x])
            BY <1>7, <2>2 DEF Go, IInv, ReqInv
        <3> QED BY <1>1, <1>2, <1>3, <2>2, <3>1 DEF RequestOK
    <2> QED BY <2>1, <2>2
<1>9. req' = [x \in Requests |-> req'[x]]
    BY <1>7 DEF Go, IInv, ReqInv
<1> QED BY <1>2, <1>8, <1>9 DEF ReqInv

LEMMA UpsertParamsSafe ==
    ASSUME IInv, NEW r \in Requests, UpsertParams(r)
    PROVE  IInv'
<1>1. PICK q : q = req[r]
    OBVIOUS
<1>2. RequestOK(r, q) /\ q.pc = "params" /\ q.form \in Forms
    BY <1>1 DEF IInv, ReqInv, RequestOK, UpsertParams
<1>3. ComparisonFollows'
    BY DEF IInv, ComparisonFollows, UpsertParams
<1>4. CASE /\ q.params # None
           /\ params' = UpdateRParam(params, q.form)
           /\ shown' = [by |-> r, form |-> q.form, deal |-> None, figures |-> None]
           /\ Go(r, [q EXCEPT !.pc = "answer"])
    <2>1. params \in RParams
        BY <1>2, <1>4 DEF IInv, StoreInv, RequestOK
    <2>2. PICK row : row = UpdateRParam(params, q.form)
        OBVIOUS
    <2>3. row \in RParams /\ Agree(row, q.form)
        BY <1>2, <2>1, <2>2, StoredAgrees
    <2> QED BY <1>1, <1>2, <1>3, <1>4, <2>2, <2>3, StoreRow DEF IInv
<1>5. CASE /\ params' = CreateRParam(q.form)
           /\ shown' = [by |-> r, form |-> q.form, deal |-> None, figures |-> None]
           /\ Go(r, [q EXCEPT !.pc = "answer"])
    <2>1. PICK row : row = CreateRParam(q.form)
        OBVIOUS
    <2>2. row \in RParams /\ Agree(row, q.form)
        BY <1>2, <2>1, StoredAgrees
    <2> QED BY <1>1, <1>2, <1>3, <1>5, <2>1, <2>2, StoreRow DEF IInv
<1>6. CASE Finish(r) /\ UNCHANGED <<params, shown>>
    <2>1. StoreInv'
        BY <1>6 DEF IInv, StoreInv
    <2> QED BY <1>3, <1>6, <2>1, Ends DEF IInv
<1> QED BY <1>1, <1>4, <1>5, <1>6 DEF UpsertParams

LEMMA AnswerSafe ==
    ASSUME IInv, NEW r \in Requests, Answer(r)
    PROVE  IInv'
<1>1. PICK q : q = req[r]
    OBVIOUS
<1>2. Stands(params, shown) /\ IsPage(shown) /\ (shown.by = r => shown.form = q.form)
    BY <1>1 DEF IInv, ReqInv, RequestOK, Stands, Answer
<1>3. PICK figures : figures = Figures(Deal(q.builder), CreateRParam(q.form))
    OBVIOUS
<1>4. ComparisonFollows'
    BY DEF IInv, ComparisonFollows, Answer
<1>5. CASE shown.by = r
    <2>1. PICK page : page = [shown EXCEPT !.deal = q.builder, !.figures = figures]
        OBVIOUS
    <2>2. /\ IsPage(page) /\ page.by = shown.by /\ page.form = shown.form
          /\ page.deal = q.builder /\ page.figures = figures
        BY <1>2, <2>1 DEF IsPage
    <2>3. shown' = page
        BY <1>1, <1>3, <1>5, <2>1 DEF Answer
    <2>4. page.figures = Figures(Deal(page.deal), CreateRParam(page.form))
        BY <1>2, <1>3, <1>5, <2>2
    <2>5. Stands(params', shown') /\ StoreInv'
        BY <1>2, <2>2, <2>3, <2>4 DEF StoreInv, Stands, Answer
    <2>6. ASSUME NEW x \in Requests PROVE RequestOK(x, req[x])'
        <3>1. CASE x = r
            <4>1. req'[x] = Idle
                BY <3>1 DEF Answer, Finish, Go, IInv, ReqInv
            <4> QED BY <4>1 DEF RequestOK, IsRequest, Idle
        <3>2. CASE x # r
            <4>1. req'[x] = req[x] /\ RequestOK(x, req[x])
                BY <3>2 DEF Answer, Finish, Go, IInv, ReqInv
            <4> QED BY <2>2, <2>3, <2>5, <4>1 DEF RequestOK, Answer
        <3> QED BY <3>1, <3>2
    <2>7. req' = [x \in Requests |-> req'[x]]
        BY DEF Answer, Finish, Go, IInv, ReqInv
    <2> QED BY <1>4, <2>5, <2>6, <2>7 DEF IInv, ReqInv
<1>6. CASE shown.by # r
    <2>1. UNCHANGED <<params, shown>> /\ Finish(r)
        BY <1>6 DEF Answer
    <2>2. StoreInv'
        BY <2>1 DEF IInv, StoreInv
    <2> QED BY <1>4, <2>1, <2>2, Ends DEF IInv
<1> QED BY <1>5, <1>6

LEMMA AskComparisonSafe ==
    ASSUME IInv, NEW r \in Requests, AskComparison(r)
    PROVE  IInv'
<1>1. UNCHANGED <<params, shown, compared>>
    BY DEF AskComparison
<1>2. PICK new : new = [Idle EXCEPT !.pc = "compare", !.builder = builder,
                                    !.params = params, !.after = shown]
    OBVIOUS
<1>3. IsRequest(new) /\ new.pc = "compare" /\ new.params = params /\ new.after = shown
    BY <1>2 DEF Idle, IsRequest
<1>4. RequestOK(r, new)
    BY <1>3 DEF RequestOK, IInv, StoreInv
<1>5. Go(r, Idle) \/ Go(r, new)
    BY <1>2 DEF AskComparison, Ask
<1>6. ReqInv'
    BY <1>1, <1>4, <1>5, IdleOK, Moves DEF IInv
<1> QED BY <1>1, <1>6, Untouched DEF IInv

LEMMA CompareSafe ==
    ASSUME IInv, NEW r \in Requests, Compare(r)
    PROVE  IInv'
<1>1. PICK q : q = req[r]
    OBVIOUS
<1>2. q.after = None \/ Stands(q.params, q.after)
    BY <1>1 DEF IInv, ReqInv, RequestOK, Compare
<1>3. StoreInv' /\ ReqInv'
    <2>1. StoreInv'
        BY DEF IInv, StoreInv, Compare
    <2> QED BY <2>1, Ends DEF IInv, Compare
<1>4. PICK row : row = ResolvedParams(q.params)
    OBVIOUS
<1>5. /\ compared'.after = q.after /\ compared'.deal = q.builder
      /\ compared'.figures = Figures(Deal(q.builder), row)
    BY <1>1, <1>4 DEF Compare
<1>6. CASE q.after = None
    BY <1>3, <1>5, <1>6 DEF IInv, ComparisonFollows
<1>7. CASE Stands(q.params, q.after)
    <2>1. PICK page : page = q.after
        OBVIOUS
    <2>2. PICK f : f = page.form
        OBVIOUS
    <2>3. row = q.params /\ Agree(row, f)
        BY <1>4, <1>7, <2>1, <2>2, ReportsAssumption DEF Stands, ResolvedParams
    <2>4. ASSUME page.figures # None, page.deal = q.builder
          PROVE  page.figures = Figures(Deal(q.builder), CreateRParam(f))
        BY <1>7, <2>1, <2>2, <2>4 DEF Stands
    <2>5. PICK d : d = Deal(q.builder)
        OBVIOUS
    <2>6. PICK answered : answered = Figures(d, CreateRParam(f))
        OBVIOUS
    <2>7. PICK again : again = Figures(d, row)
        OBVIOUS
    <2>8. /\ \A n \in SummaryKept : again.summary[n] = answered.summary[n]
          /\ \A n \in MetricsKept : again.metrics[n] = answered.metrics[n]
          /\ f.management = f.maintenance => again.summary = answered.summary
          /\ f.pmi # None => again.metrics = answered.metrics
        BY <2>3, <2>6, <2>7, KeptFigures
    <2>9. ComparisonFollows'
        BY <1>5, <2>1, <2>2, <2>4, <2>5, <2>6, <2>7, <2>8 DEF ComparisonFollows
    <2> QED BY <1>3, <2>9 DEF IInv
<1> QED BY <1>2, <1>6, <1>7

LEMMA RequestFailsSafe ==
    ASSUME IInv, NEW r \in Requests, RequestFails(r)
    PROVE  IInv'
<1>1. UNCHANGED <<params, shown, compared>> /\ Finish(r)
    BY DEF RequestFails
<1> QED BY <1>1, Ends, Untouched DEF IInv

-----------------------------------------------------------------------------
LEMMA InitSafe == Init => IInv
<1> SUFFICES ASSUME Init PROVE IInv
    OBVIOUS
<1>1. StoreInv /\ ComparisonFollows
    BY DEF Init, StoreInv, ComparisonFollows
<1>2. req = [r \in Requests |-> req[r]] /\ \A r \in Requests : req[r] = Idle
    BY DEF Init
<1>3. ReqInv
    BY <1>2, IdleOK DEF ReqInv
<1> QED BY <1>1, <1>3 DEF IInv

LEMMA NextSafe == IInv /\ [Next]_vars => IInv'
<1> SUFFICES ASSUME IInv, [Next]_vars PROVE IInv'
    OBVIOUS
<1>1. ASSUME NEW r \in Requests,
             \/ \E b \in Builders : AskSave(r, b)
             \/ SaveProperty(r) \/ SaveAcquisition(r) \/ SaveExpenses(r)
      PROVE  IInv'
    BY <1>1, SaveSafe
<1>2. ASSUME NEW r \in Requests,
             \/ \E f \in Forms : AskPage(r, f)
             \/ ReadBuilder(r) \/ UpsertParams(r) \/ Answer(r)
      PROVE  IInv'
    BY <1>2, AskPageSafe, ReadBuilderSafe, UpsertParamsSafe, AnswerSafe
<1>3. ASSUME NEW r \in Requests, AskComparison(r) \/ Compare(r) \/ RequestFails(r)
      PROVE  IInv'
    BY <1>3, AskComparisonSafe, CompareSafe, RequestFailsSafe
<1>4. CASE UNCHANGED vars
    <2>1. StoreInv' /\ ComparisonFollows'
        BY <1>4, Untouched DEF IInv, vars
    <2>2. ReqInv'
        BY <1>4 DEF IInv, ReqInv, RequestOK, vars
    <2> QED BY <2>1, <2>2 DEF IInv
<1> QED BY <1>1, <1>2, <1>3, <1>4 DEF Next

\* A comparison repeats the figures of the page whose parameters it found
\* (resolveSingleComparisonItem after upsertRParam), whatever overlaps: for
\* any number of requests, and every deal, form, default and bound.
THEOREM ComparisonSafe == Spec => []ComparisonFollows
<1>1. IInv => ComparisonFollows
    BY DEF IInv
<1> QED BY <1>1, InitSafe, NextSafe, PTL DEF Spec

-----------------------------------------------------------------------------
(* Counting up. *)

\* A set of numbers with 0 and each successor has all.
LEMMA Induction ==
    ASSUME NEW S, 0 \in S, \A n \in S : n \in Nat => n + 1 \in S
    PROVE  \A n \in Nat : n \in S
<1> DEFINE R == OpToRel(<, Nat)
           T == Nat \ S
<1>1. SUFFICES ASSUME T # {} PROVE FALSE
    OBVIOUS
<1>2. R = {ss \in Nat \X Nat : ss[1] < ss[2]}
    BY DEF OpToRel
<1>3. IsWellFoundedOn(R, Nat)
    BY NatLessThanWellFounded
<1>4. T \subseteq Nat
    OBVIOUS
<1>5. PICK x \in T : \A y \in T : ~ (<<y, x>> \in R)
    <2> HIDE DEF R, T
    <2>1. \E x \in T : \A y \in T : ~ (<<y, x>> \in R)
        BY <1>1, <1>3, <1>4, WFMin, Zenon
    <2> QED BY <2>1
<1>6. x \in Nat /\ x # 0
    OBVIOUS
<1>7. x - 1 \in Nat /\ x - 1 < x /\ (x - 1) + 1 = x
    BY <1>6
<1>8. x - 1 \in T
    <2>1. x - 1 \notin S
        BY <1>5, <1>7
    <2> QED BY <1>7, <2>1
<1>9. <<x - 1, x>> \in R
    BY <1>2, <1>6, <1>7
<1> QED BY <1>5, <1>8, <1>9

\* What a loop computes from its first value, step by step.
Loop(F, D, first, step) ==
    F = [k \in D |-> IF k = 0 THEN first ELSE step[<<k, F[k - 1]>>]]

LEMMA LoopsAgree ==
    ASSUME NEW first, NEW step, NEW n \in Nat, NEW m \in Nat, n <= m, NEW F, NEW G,
           Loop(F, 0 .. n, first, step), Loop(G, 0 .. m, first, step)
    PROVE  \A k \in 0 .. n : F[k] = G[k]
<1> DEFINE S == {k \in Nat : k <= n => F[k] = G[k]}
<1>1. \A k \in 0 .. n : F[k] = IF k = 0 THEN first ELSE step[<<k, F[k - 1]>>]
    BY DEF Loop
<1>2. \A k \in 0 .. m : G[k] = IF k = 0 THEN first ELSE step[<<k, G[k - 1]>>]
    BY DEF Loop
<1>3. 0 \in S
    <2>1. 0 \in 0 .. n /\ 0 \in 0 .. m
        OBVIOUS
    <2>2. F[0] = first /\ G[0] = first
        BY <1>1, <1>2, <2>1
    <2> QED BY <2>2
<1>4. ASSUME NEW k \in S, k \in Nat
      PROVE  k + 1 \in S
    <2>1. SUFFICES ASSUME k + 1 <= n PROVE F[k + 1] = G[k + 1]
        BY <1>4
    <2>2. F[k] = G[k] /\ k + 1 \in 0 .. n /\ k + 1 \in 0 .. m /\ k + 1 # 0 /\ (k + 1) - 1 = k
        BY <1>4, <2>1
    <2>3. F[k + 1] = step[<<k + 1, F[k]>>] /\ G[k + 1] = step[<<k + 1, G[k]>>]
        BY <1>1, <1>2, <2>2
    <2> QED BY <2>2, <2>3
<1>5. \A k \in Nat : k \in S
    <2> HIDE DEF S
    <2> QED BY <1>3, <1>4, Induction
<1> QED BY <1>5

\* A loop has a value at every step: the recursive functions of the model exist.
LEMMA LoopRuns ==
    ASSUME NEW first, NEW step
    PROVE  \E F : Loop(F, Nat, first, step)
<1> DEFINE S == {n \in Nat : \E F : Loop(F, 0 .. n, first, step)}
<1>1. 0 \in S
    <2> DEFINE F == [k \in 0 .. 0 |-> first]
    <2>1. F = [k \in 0 .. 0 |-> IF k = 0 THEN first ELSE step[<<k, F[k - 1]>>]]
        OBVIOUS
    <2> HIDE DEF F
    <2>2. Loop(F, 0 .. 0, first, step)
        BY <2>1 DEF Loop
    <2> QED BY <2>2
<1>2. ASSUME NEW n \in S, n \in Nat
      PROVE  n + 1 \in S
    <2>1. PICK F : Loop(F, 0 .. n, first, step)
        OBVIOUS
    <2> DEFINE G == [k \in 0 .. n + 1 |-> IF k <= n THEN F[k] ELSE step[<<n + 1, F[n]>>]]
               H == [k \in 0 .. n + 1 |-> IF k = 0 THEN first ELSE step[<<k, G[k - 1]>>]]
    <2>2. \A k \in 0 .. n : F[k] = IF k = 0 THEN first ELSE step[<<k, F[k - 1]>>]
        BY <2>1 DEF Loop
    <2>3. ASSUME NEW k \in 0 .. n + 1
          PROVE  G[k] = H[k]
        <3>1. CASE k = 0
            <4>1. 0 \in 0 .. n /\ 0 <= n
                BY <1>2
            <4> QED BY <2>2, <3>1, <4>1
        <3>2. CASE k # 0 /\ k <= n
            <4>1. k \in 0 .. n /\ k - 1 \in 0 .. n + 1 /\ k - 1 <= n
                BY <1>2, <3>2
            <4>2. G[k] = F[k] /\ G[k - 1] = F[k - 1]
                BY <3>2, <4>1
            <4>3. H[k] = step[<<k, G[k - 1]>>]
                BY <3>2
            <4> HIDE DEF G, H
            <4> QED BY <2>2, <3>2, <4>1, <4>2, <4>3
        <3>3. CASE k = n + 1
            <4>1. n \in 0 .. n + 1 /\ n <= n /\ k # 0 /\ k - 1 = n /\ ~(k <= n)
                BY <1>2, <3>3
            <4>2. G[n] = F[n] /\ G[k] = step[<<n + 1, F[n]>>]
                BY <4>1
            <4>3. H[k] = step[<<k, G[k - 1]>>]
                BY <4>1
            <4> HIDE DEF G, H
            <4> QED BY <3>3, <4>1, <4>2, <4>3
        <3>4. k = 0 \/ (k # 0 /\ k <= n) \/ k = n + 1
            BY <1>2
        <3> QED BY <3>1, <3>2, <3>3, <3>4
    <2>4. G = H
        BY <2>3
    <2> HIDE DEF G
    <2>5. Loop(G, 0 .. n + 1, first, step)
        BY <2>4 DEF Loop
    <2> QED BY <1>2, <2>5
<1>3. \A n \in Nat : n \in S
    <2> HIDE DEF S
    <2> QED BY <1>1, <1>2, Induction
<1>4. \A n \in Nat : \E F : Loop(F, 0 .. n, first, step)
    BY <1>3
<1> DEFINE Run(n) == CHOOSE F : Loop(F, 0 .. n, first, step)
           G == [n \in Nat |-> Run(n)[n]]
           H == [k \in Nat |-> IF k = 0 THEN first ELSE step[<<k, G[k - 1]>>]]
<1>5. \A n \in Nat : Loop(Run(n), 0 .. n, first, step)
    BY <1>4
<1> HIDE DEF Run
<1>6. ASSUME NEW n \in Nat
      PROVE  G[n] = H[n]
    <2>1. n \in 0 .. n /\ Loop(Run(n), 0 .. n, first, step)
        BY <1>5
    <2>2. Run(n)[n] = IF n = 0 THEN first ELSE step[<<n, Run(n)[n - 1]>>]
        BY <2>1 DEF Loop
    <2>3. CASE n = 0
        BY <2>2, <2>3
    <2>4. CASE n # 0
        <3>1. n - 1 \in Nat /\ n - 1 <= n /\ n - 1 \in 0 .. n - 1
            BY <2>4
        <3>2. Loop(Run(n - 1), 0 .. n - 1, first, step)
            BY <1>5, <3>1
        <3>3. Run(n - 1)[n - 1] = Run(n)[n - 1]
            BY <2>1, <3>1, <3>2, LoopsAgree
        <3>4. G[n - 1] = Run(n - 1)[n - 1] /\ G[n] = Run(n)[n]
            BY <3>1
        <3>5. H[n] = step[<<n, G[n - 1]>>]
            BY <2>4
        <3> HIDE DEF G, H
        <3> QED BY <2>2, <2>4, <3>3, <3>4, <3>5
    <2> QED BY <2>3, <2>4
<1>7. G = H
    BY <1>6
<1> HIDE DEF G
<1>8. Loop(G, Nat, first, step)
    BY <1>7 DEF Loop
<1> QED BY <1>8

LEMMA LoopSteps ==
    ASSUME NEW first, NEW step, NEW F, Loop(F, Nat, first, step)
    PROVE  /\ F[0] = first
           /\ \A k \in Nat : F[k + 1] = step[<<k + 1, F[k]>>]
<1>1. \A k \in Nat : F[k] = IF k = 0 THEN first ELSE step[<<k, F[k - 1]>>]
    BY DEF Loop
<1>2. \A k \in Nat : k + 1 \in Nat /\ k + 1 # 0 /\ (k + 1) - 1 = k
    OBVIOUS
<1>3. 0 \in Nat
    OBVIOUS
<1> QED BY <1>1, <1>2, <1>3

-----------------------------------------------------------------------------
(* Quotients. *)

LEMMA Quotient ==
    ASSUME NEW x \in Int, NEW m \in Nat \ {0}
    PROVE  x \div m \in Int /\ (x \div m) * m <= x /\ x < (x \div m) * m + m
BY SMT

\* A greater product has a greater factor.
LEMMA FactorGreater ==
    ASSUME NEW a \in Int, NEW b \in Int, NEW m \in Nat \ {0}, a * m < b * m + m
    PROVE  a <= b
<1> SUFFICES ASSUME ~ (a <= b) PROVE FALSE
    OBVIOUS
<1> DEFINE d == a - b - 1
<1>1. d \in Nat /\ a = b + 1 + d
    OBVIOUS
<1> HIDE DEF d
<1>2. a * m = b * m + m + d * m
    BY <1>1
<1>3. d * m \in Nat /\ a * m \in Int /\ b * m \in Int
    BY <1>1
<1> QED BY <1>2, <1>3

LEMMA QuotientGrows ==
    ASSUME NEW x \in Int, NEW y \in Int, NEW m \in Nat \ {0}, x <= y
    PROVE  x \div m <= y \div m
<1> DEFINE a == x \div m
           b == y \div m
<1>1. a \in Int /\ b \in Int /\ a * m <= x /\ y < b * m + m
    BY Quotient
<1> HIDE DEF a, b
<1>2. a * m < b * m + m
    BY <1>1
<1>3. a <= b
    BY <1>1, <1>2, FactorGreater
<1> QED BY <1>3 DEF a, b

LEMMA QuotientPositive ==
    ASSUME NEW x \in Nat, NEW m \in Nat \ {0}
    PROVE  x \div m \in Nat
BY SMT

LEMMA QuotientShrinks ==
    ASSUME NEW x \in Nat, NEW y \in Nat, NEW m \in Nat \ {0}, NEW n \in Nat \ {0}, x <= y, m <= n
    PROVE  x \div n <= y \div m
<1> DEFINE a == x \div n
           b == y \div m
           d == n - m
<1>1. a \in Nat /\ b \in Nat /\ a * n <= x /\ y < b * m + m
    BY Quotient, QuotientPositive
<1>2. d \in Nat /\ n = m + d
    OBVIOUS
<1> HIDE DEF a, b, d
<1>3. a * n = a * m + a * d /\ a * d \in Nat /\ a * m \in Nat
    BY <1>1, <1>2
<1>4. a * m < b * m + m
    BY <1>1, <1>3
<1>5. a <= b
    BY <1>1, <1>4, FactorGreater
<1> QED BY <1>5 DEF a, b

-----------------------------------------------------------------------------
(* The payment of a loan. *)

\* The loop of (1 + r)^n.
GrowthTable(g, rate) == g = [k \in Nat |-> IF k = 0 THEN 100000 ELSE (g[k - 1] * (10000 + rate)) \div 10000]

LEMMA GrowthRuns ==
    ASSUME NEW rate \in Nat
    PROVE  \E g : GrowthTable(g, rate)
<1> DEFINE step == [p \in Nat \X Nat |-> (p[2] * (10000 + rate)) \div 10000]
<1>1. PICK g : Loop(g, Nat, 100000, step)
    <2> HIDE DEF step
    <2> QED BY LoopRuns
<1>2. g[0] = 100000 /\ \A k \in Nat : g[k + 1] = step[<<k + 1, g[k]>>]
    <2> HIDE DEF step
    <2> QED BY <1>1, LoopSteps
<1> DEFINE S == {k \in Nat : g[k] \in Nat}
<1>3. 0 \in S
    BY <1>2
<1>4. ASSUME NEW k \in S, k \in Nat
      PROVE  k + 1 \in S
    <2>1. k + 1 \in Nat /\ g[k] \in Nat
        OBVIOUS
    <2>2. g[k + 1] = step[<<k + 1, g[k]>>]
        <3> HIDE DEF step
        <3> QED BY <1>2
    <2>3. step[<<k + 1, g[k]>>] = (g[k] * (10000 + rate)) \div 10000
        BY <2>1
    <2>4. g[k] * (10000 + rate) \in Nat
        BY <2>1
    <2>5. (g[k] * (10000 + rate)) \div 10000 \in Nat
        BY <2>4, QuotientPositive
    <2> QED BY <2>1, <2>2, <2>3, <2>5
<1>5. \A k \in Nat : k \in S
    <2> HIDE DEF S
    <2> QED BY <1>3, <1>4, Induction
<1> DEFINE h == [k \in Nat |-> IF k = 0 THEN 100000 ELSE (g[k - 1] * (10000 + rate)) \div 10000]
<1>6. ASSUME NEW k \in Nat
      PROVE  g[k] = h[k]
    <2>1. CASE k = 0
        BY <1>2, <2>1
    <2>2. CASE k # 0
        <3>1. k - 1 \in Nat /\ (k - 1) + 1 = k
            BY <2>2
        <3>2. g[k - 1] \in Nat
            BY <1>5, <3>1
        <3>5. g[k] = step[<<k, g[k - 1]>>]
            <4> HIDE DEF step
            <4> QED BY <1>2, <3>1
        <3>3. step[<<k, g[k - 1]>>] = (g[k - 1] * (10000 + rate)) \div 10000
            BY <3>2
        <3>4. h[k] = (g[k - 1] * (10000 + rate)) \div 10000
            BY <2>2
        <3> HIDE DEF step, h
        <3> QED BY <3>3, <3>4, <3>5
    <2> QED BY <2>1, <2>2
<1>7. g = [k \in Nat |-> g[k]]
    <2> HIDE DEF step
    <2> QED BY <1>1 DEF Loop
<1>8. g = h
    <2>1. h = [k \in Nat |-> h[k]]
        OBVIOUS
    <2> HIDE DEF h
    <2> QED BY <1>6, <1>7, <2>1
<1> QED BY <1>8 DEF GrowthTable

LEMMA GrowthIs ==
    ASSUME NEW rate \in Nat
    PROVE  \E g : GrowthTable(g, rate) /\ \A n \in Nat : Growth(rate, n) = g[n]
<1> DEFINE g == CHOOSE g : GrowthTable(g, rate)
<1>1. GrowthTable(g, rate)
    BY GrowthRuns
<1>2. \A n \in Nat : Growth(rate, n) = g[n]
    BY DEF Growth, GrowthTable
<1> QED BY <1>1, <1>2

\* Interest adds to a loan.
LEMMA GrowthGrows ==
    ASSUME NEW rate \in Nat, NEW n \in Nat
    PROVE  /\ Growth(rate, n) \in Nat
           /\ Growth(rate, n) >= 100000
           /\ rate # 0 /\ n # 0 => Growth(rate, n) > 100000
<1>1. PICK g : GrowthTable(g, rate) /\ \A m \in Nat : Growth(rate, m) = g[m]
    BY GrowthIs
<1>2. \A k \in Nat : g[k] = IF k = 0 THEN 100000 ELSE (g[k - 1] * (10000 + rate)) \div 10000
    BY <1>1 DEF GrowthTable
<1> DEFINE Good(k) == g[k] \in Nat /\ g[k] >= 100000 /\ (rate # 0 /\ k # 0 => g[k] > 100000)
           S == {k \in Nat : Good(k)}
<1>3. 0 \in S
    BY <1>2
<1>4. ASSUME NEW k \in S, k \in Nat
      PROVE  k + 1 \in S
    <2> DEFINE v == g[k]
               w == (v * (10000 + rate)) \div 10000
    <2>1. k + 1 \in Nat /\ k + 1 # 0 /\ (k + 1) - 1 = k /\ v \in Nat /\ v >= 100000
        OBVIOUS
    <2>2. g[k + 1] = w
        BY <1>2, <2>1
    <2> HIDE DEF v
    <2>3. v * (10000 + rate) \in Nat /\ v * (10000 + rate) = v * 10000 + v * rate /\ v * rate \in Nat
        BY <2>1
    <2>4. rate # 0 => v * rate >= v
        BY <2>1
    <2>5. w \in Nat /\ w >= v /\ (v * rate >= 10000 => w > v)
        BY <2>1, <2>3, SMT
    <2> HIDE DEF w
    <2>6. w \in Nat /\ w >= 100000 /\ (rate # 0 => w > 100000)
        BY <2>1, <2>4, <2>5
    <2> QED BY <2>1, <2>2, <2>6
<1>5. \A k \in Nat : k \in S
    <2> HIDE DEF S
    <2> QED BY <1>3, <1>4, Induction
<1>6. Good(n)
    BY <1>5
<1> QED BY <1>1, <1>6

\* A loan is paid back in numbers.
LEMMA PaymentPositive ==
    ASSUME NEW loan \in Nat, NEW rate \in Nat, NEW term \in Nat \ {0}
    PROVE  PI(loan, rate, term) \in Nat
<1>1. CASE rate = 0
    BY <1>1, QuotientPositive DEF PI
<1>2. CASE rate # 0
    <2> DEFINE g == Growth(rate, term)
               a == (loan * rate) \div 10000
    <2>1. g \in Nat /\ g - 100000 \in Nat \ {0}
        <3>1. term \in Nat /\ term # 0
            OBVIOUS
        <3>2. g \in Nat /\ g > 100000
            BY <1>2, <3>1, GrowthGrows
        <3> HIDE DEF g
        <3> QED BY <3>2
    <2>2. loan * rate \in Nat
        OBVIOUS
    <2>3. a \in Nat
        BY <2>2, QuotientPositive
    <2> HIDE DEF g, a
    <2>4. a * g \in Nat
        BY <2>1, <2>3
    <2>5. (a * g) \div (g - 100000) \in Nat
        BY <2>1, <2>4, QuotientPositive
    <2>6. PI(loan, rate, term) = (a * g) \div (g - 100000)
        BY <1>2 DEF PI, g, a
    <2> QED BY <2>5, <2>6
<1> QED BY <1>1, <1>2

-----------------------------------------------------------------------------
(* The curves of the grade. *)

Curve(c) ==
    /\ Len(c) \in Nat /\ Len(c) > 1
    /\ \A i \in 1 .. Len(c) : c[i][1] \in Int /\ c[i][2] \in Int
    /\ \A i \in 1 .. Len(c) : \A j \in 1 .. Len(c) : i < j => c[i][1] < c[j][1]

Rising(c) == Curve(c) /\ \A i \in 1 .. Len(c) : \A j \in 1 .. Len(c) : i < j => c[i][2] <= c[j][2]

Falling(c) == Curve(c) /\ \A i \in 1 .. Len(c) : \A j \in 1 .. Len(c) : i < j => c[i][2] >= c[j][2]

\* The points below and above a place on a curve.
OnCurve(c, x, i) == i \in 1 .. Len(c) - 1 /\ c[i][1] <= x /\ x < c[i + 1][1]

\* The score there.
ScoreAt(c, x, i) ==
    c[i][2] * 100 + ((c[i + 1][2] - c[i][2]) * 100 * (x - c[i][1])) \div (c[i + 1][1] - c[i][1])

LEMMA CurvePoint ==
    ASSUME NEW c, Curve(c), NEW x \in Int, c[1][1] < x, x < c[Len(c)][1]
    PROVE  \E i : OnCurve(c, x, i)
<1> SUFFICES ASSUME \A i : ~OnCurve(c, x, i) PROVE FALSE
    OBVIOUS
<1> DEFINE S == {k \in Nat : k \in 1 .. Len(c) => c[k][1] <= x}
<1>0. Len(c) \in Nat /\ Len(c) > 1 /\ \A i \in 1 .. Len(c) : c[i][1] \in Int
    BY DEF Curve
<1>1. 0 \in S
    BY <1>0
<1>2. ASSUME NEW k \in S, k \in Nat
      PROVE  k + 1 \in S
    <2>1. SUFFICES ASSUME k + 1 \in 1 .. Len(c) PROVE c[k + 1][1] <= x
        BY <1>2
    <2>2. CASE k = 0
        BY <1>0, <2>2
    <2>3. CASE k # 0
        <3>1. k \in 1 .. Len(c) - 1 /\ k \in 1 .. Len(c)
            BY <1>0, <1>2, <2>1, <2>3
        <3>2. c[k][1] <= x
            BY <3>1
        <3>3. ~(x < c[k + 1][1])
            BY <3>1, <3>2 DEF OnCurve
        <3> QED BY <1>0, <2>1, <3>3
    <2> QED BY <2>2, <2>3
<1>3. \A k \in Nat : k \in S
    <2> HIDE DEF S
    <2> QED BY <1>1, <1>2, Induction
<1>4. c[Len(c)][1] <= x
    BY <1>0, <1>3
<1> QED BY <1>0, <1>4

\* Three parts of a curve.
LEMMA CurveParts ==
    ASSUME NEW c, Curve(c), NEW x \in Int
    PROVE  /\ x <= c[1][1] => ScoreCurve(x, c) = c[1][2] * 100
           /\ x >= c[Len(c)][1] => ScoreCurve(x, c) = c[Len(c)][2] * 100
           /\ c[1][1] < x /\ x < c[Len(c)][1] => \E i : OnCurve(c, x, i) /\ ScoreCurve(x, c) = ScoreAt(c, x, i)
<1>1. /\ 1 \in 1 .. Len(c) /\ Len(c) \in 1 .. Len(c) /\ 1 < Len(c)
      /\ c[1][1] \in Int /\ c[Len(c)][1] \in Int /\ c[1][1] < c[Len(c)][1]
    BY DEF Curve
<1>2. x <= c[1][1] => ScoreCurve(x, c) = c[1][2] * 100
    BY DEF ScoreCurve
<1>3. x >= c[Len(c)][1] => ScoreCurve(x, c) = c[Len(c)][2] * 100
    BY <1>1 DEF ScoreCurve
<1>4. ASSUME c[1][1] < x, x < c[Len(c)][1]
      PROVE  \E i : OnCurve(c, x, i) /\ ScoreCurve(x, c) = ScoreAt(c, x, i)
    <2> DEFINE i == CHOOSE i \in 1 .. Len(c) - 1 : c[i][1] <= x /\ x < c[i + 1][1]
    <2>1. \E k \in 1 .. Len(c) - 1 : c[k][1] <= x /\ x < c[k + 1][1]
        BY <1>4, CurvePoint DEF OnCurve
    <2>2. OnCurve(c, x, i)
        BY <2>1 DEF OnCurve
    <2>3. ~(x <= c[1][1]) /\ ~(x >= c[Len(c)][1])
        BY <1>1, <1>4
    <2>4. ScoreCurve(x, c) = ScoreAt(c, x, i)
        BY <2>3 DEF ScoreCurve, ScoreAt
    <2> QED BY <2>2, <2>4
<1> QED BY <1>2, <1>3, <1>4

\* A segment in numbers.
LEMMA SegmentNumbers ==
    ASSUME NEW c, Curve(c), NEW x \in Int, NEW i, OnCurve(c, x, i)
    PROVE  /\ i \in 1 .. Len(c) /\ i + 1 \in 1 .. Len(c) /\ i < i + 1
           /\ c[i][1] \in Int /\ c[i + 1][1] \in Int /\ c[i][2] \in Int /\ c[i + 1][2] \in Int
           /\ x - c[i][1] \in Nat
           /\ c[i + 1][1] - c[i][1] \in Nat \ {0}
           /\ x - c[i][1] < c[i + 1][1] - c[i][1]
<1>1. i \in 1 .. Len(c) /\ i + 1 \in 1 .. Len(c) /\ i < i + 1
    BY DEF OnCurve, Curve
<1>2. c[i][1] \in Int /\ c[i + 1][1] \in Int /\ c[i][2] \in Int /\ c[i + 1][2] \in Int /\ c[i][1] < c[i + 1][1]
    BY <1>1 DEF Curve
<1>3. c[i][1] <= x /\ x < c[i + 1][1]
    BY DEF OnCurve
<1> QED BY <1>1, <1>2, <1>3

\* Part of a rise, and of a fall.
LEMMA PartOfRise ==
    ASSUME NEW e \in Int, NEW u \in Nat, NEW w \in Nat \ {0}, u < w
    PROVE  /\ (e * u) \div w \in Int
           /\ e >= 0 => 0 <= (e * u) \div w /\ (e * u) \div w <= e
           /\ e <= 0 => e <= (e * u) \div w /\ (e * u) \div w <= 0
<1> DEFINE p == e * u
           q == p \div w
           z == e * w
<1>1. p \in Int /\ z \in Int
    OBVIOUS
<1>2. q \in Int /\ q * w <= p /\ p < q * w + w
    <2> HIDE DEF p
    <2> QED BY <1>1, Quotient
<1>3. e >= 0 => 0 <= p /\ p <= z
    <2> DEFINE d == w - u
    <2>1. d \in Nat /\ w = u + d
        OBVIOUS
    <2> HIDE DEF d
    <2>2. z = p + e * d
        BY <2>1
    <2>3. e >= 0 => e * d >= 0 /\ p >= 0
        BY <2>1
    <2>4. e * d \in Int
        BY <2>1
    <2> HIDE DEF p, z
    <2> QED BY <1>1, <2>2, <2>3, <2>4
<1>4. e <= 0 => p <= 0 /\ z <= p
    <2> DEFINE d == w - u
    <2>1. d \in Nat /\ w = u + d
        OBVIOUS
    <2> HIDE DEF d
    <2>2. z = p + e * d
        BY <2>1
    <2>3. e <= 0 => e * d <= 0 /\ p <= 0
        BY <2>1
    <2>4. e * d \in Int
        BY <2>1
    <2> HIDE DEF p, z
    <2> QED BY <1>1, <2>2, <2>3, <2>4
<1> HIDE DEF p, q
<1>5. e >= 0 => 0 <= q /\ q <= e
    <2>1. e >= 0 => q * w < e * w + w
        BY <1>1, <1>2, <1>3
    <2>2. e >= 0 => q <= e
        <3> SUFFICES ASSUME e >= 0 PROVE q <= e
            OBVIOUS
        <3>1. q * w < e * w + w
            BY <2>1
        <3> QED BY <1>2, <3>1, FactorGreater
    <2>3. e >= 0 => 0 * w < q * w + w
        BY <1>1, <1>2, <1>3
    <2>4. e >= 0 => 0 <= q
        <3> SUFFICES ASSUME e >= 0 PROVE 0 <= q
            OBVIOUS
        <3>1. 0 * w < q * w + w
            BY <2>3
        <3> QED BY <1>2, <3>1, FactorGreater
    <2> QED BY <2>2, <2>4
<1>6. e <= 0 => e <= q /\ q <= 0
    <2>1. e <= 0 => e * w < q * w + w /\ q * w < 0 * w + w
        BY <1>1, <1>2, <1>4
    <2>2. e <= 0 => e <= q
        <3> SUFFICES ASSUME e <= 0 PROVE e <= q
            OBVIOUS
        <3>1. e * w < q * w + w
            BY <2>1
        <3> QED BY <1>2, <3>1, FactorGreater
    <2>3. e <= 0 => q <= 0
        <3> SUFFICES ASSUME e <= 0 PROVE q <= 0
            OBVIOUS
        <3>1. q * w < 0 * w + w
            BY <2>1
        <3> QED BY <1>2, <3>1, FactorGreater
    <2> QED BY <2>2, <2>3
<1> QED BY <1>2, <1>5, <1>6 DEF p, q

\* Between the points beside it.
LEMMA ScoreBetween ==
    ASSUME NEW c, Curve(c), NEW x \in Int, NEW i, OnCurve(c, x, i)
    PROVE  /\ ScoreAt(c, x, i) \in Int
           /\ c[i][2] <= c[i + 1][2] =>
                c[i][2] * 100 <= ScoreAt(c, x, i) /\ ScoreAt(c, x, i) <= c[i + 1][2] * 100
           /\ c[i][2] >= c[i + 1][2] =>
                c[i][2] * 100 >= ScoreAt(c, x, i) /\ ScoreAt(c, x, i) >= c[i + 1][2] * 100
<1> DEFINE a == c[i][2]
           b == c[i + 1][2]
           e == (b - a) * 100
           u == x - c[i][1]
           w == c[i + 1][1] - c[i][1]
           q == (e * u) \div w
<1>1. a \in Int /\ b \in Int /\ u \in Nat /\ w \in Nat \ {0} /\ u < w
    BY SegmentNumbers
<1>2. e \in Int /\ e = 100 * b - 100 * a
    <2> HIDE DEF a, b
    <2> QED BY <1>1
<1>3. ScoreAt(c, x, i) = a * 100 + q
    BY DEF ScoreAt
<1> HIDE DEF a, b, e, u, w
<1>4. /\ q \in Int
      /\ e >= 0 => 0 <= q /\ q <= e
      /\ e <= 0 => e <= q /\ q <= 0
    BY <1>1, <1>2, PartOfRise
<1> HIDE DEF q
<1>5. /\ a * 100 + q \in Int
      /\ a <= b => a * 100 <= a * 100 + q /\ a * 100 + q <= b * 100
      /\ a >= b => a * 100 >= a * 100 + q /\ a * 100 + q >= b * 100
    BY <1>1, <1>2, <1>4
<1> QED BY <1>3, <1>5 DEF a, b

\* On one segment.
LEMMA SameSegment ==
    ASSUME NEW c, Curve(c), NEW x \in Int, NEW y \in Int, x <= y, NEW i,
           OnCurve(c, x, i), OnCurve(c, y, i)
    PROVE  /\ c[i][2] <= c[i + 1][2] => ScoreAt(c, x, i) <= ScoreAt(c, y, i)
           /\ c[i][2] >= c[i + 1][2] => ScoreAt(c, x, i) >= ScoreAt(c, y, i)
<1> DEFINE a == c[i][2]
           b == c[i + 1][2]
           e == (b - a) * 100
           u == x - c[i][1]
           v == y - c[i][1]
           w == c[i + 1][1] - c[i][1]
<1>1. a \in Int /\ b \in Int /\ u \in Nat /\ v \in Nat /\ w \in Nat \ {0} /\ u <= v
    BY SegmentNumbers
<1>2. e \in Int /\ (a <= b => e >= 0) /\ (a >= b => e <= 0)
    <2> HIDE DEF a, b
    <2> QED BY <1>1
<1>3. ScoreAt(c, x, i) = a * 100 + (e * u) \div w /\ ScoreAt(c, y, i) = a * 100 + (e * v) \div w
    BY DEF ScoreAt
<1> HIDE DEF a, b, e, u, v, w
<1>4. e * u \in Int /\ e * v \in Int
    BY <1>1, <1>2
<1>5. (e >= 0 => e * u <= e * v) /\ (e <= 0 => e * v <= e * u)
    <2> DEFINE d == v - u
    <2>1. d \in Nat /\ v = u + d
        BY <1>1
    <2> HIDE DEF d
    <2>2. e * v = e * u + e * d /\ e * d \in Int
        BY <1>1, <1>2, <2>1
    <2>3. (e >= 0 => e * d >= 0) /\ (e <= 0 => e * d <= 0)
        BY <1>2, <2>1
    <2> QED BY <1>4, <2>2, <2>3
<1> DEFINE p == e * u
           r == e * v
<1>6. (p \div w) \in Int /\ (r \div w) \in Int
    <2> HIDE DEF p, r
    <2>1. p \in Int /\ r \in Int
        BY <1>4 DEF p, r
    <2> QED BY <1>1, <2>1, Quotient
<1>7. (e >= 0 => p \div w <= r \div w) /\ (e <= 0 => r \div w <= p \div w)
    <2>1. p \in Int /\ r \in Int /\ (e >= 0 => p <= r) /\ (e <= 0 => r <= p)
        BY <1>4, <1>5
    <2> HIDE DEF p, r
    <2>2. CASE e >= 0 /\ e <= 0
        <3>1. p = r
            BY <2>1, <2>2
        <3>2. p \div w <= r \div w /\ r \div w <= p \div w
            BY <1>1, <2>1, <3>1, QuotientGrows
        <3> QED BY <3>2
    <2>3. CASE e >= 0 /\ ~(e <= 0)
        BY <1>1, <2>1, <2>3, QuotientGrows
    <2>4. CASE ~(e >= 0)
        BY <1>1, <1>2, <2>1, <2>4, QuotientGrows
    <2> QED BY <2>2, <2>3, <2>4
<1> HIDE DEF p, r
<1>8. ScoreAt(c, x, i) = a * 100 + p \div w /\ ScoreAt(c, y, i) = a * 100 + r \div w
    BY <1>3 DEF p, r
<1>9. (a <= b => a * 100 + p \div w <= a * 100 + r \div w) /\ (a >= b => a * 100 + p \div w >= a * 100 + r \div w)
    BY <1>1, <1>2, <1>6, <1>7
<1> QED BY <1>8, <1>9 DEF a, b

\* The later segment of two places is not the first of them.
LEMMA InOrderOnCurve ==
    ASSUME NEW c, Curve(c), NEW x \in Int, NEW y \in Int, x <= y, NEW i, NEW j,
           OnCurve(c, x, i), OnCurve(c, y, j)
    PROVE  i \in Int /\ j \in Int /\ i <= j
<1>1. /\ i \in 1 .. Len(c) /\ i + 1 \in 1 .. Len(c)
      /\ j \in 1 .. Len(c) /\ j + 1 \in 1 .. Len(c)
      /\ c[i][1] \in Int /\ c[j + 1][1] \in Int
    BY SegmentNumbers
<1>2. c[i][1] <= x /\ y < c[j + 1][1]
    BY DEF OnCurve
<1>3. ASSUME j + 1 <= i PROVE FALSE
    <2>1. c[j + 1][1] <= c[i][1]
        <3>1. CASE j + 1 = i
            BY <1>1, <3>1
        <3>2. CASE j + 1 < i
            <4>1. c[j + 1][1] < c[i][1]
                BY <1>1, <3>2 DEF Curve
            <4> QED BY <1>1, <4>1
        <3> QED BY <1>1, <1>3, <3>1, <3>2
    <2> QED BY <1>1, <1>2, <2>1
<1>4. i \in Int /\ j \in Int
    BY <1>1
<1> QED BY <1>3, <1>4

LEMMA RisingBounds ==
    ASSUME NEW c, Rising(c), NEW x \in Int
    PROVE  /\ ScoreCurve(x, c) \in Int
           /\ c[1][2] * 100 <= ScoreCurve(x, c)
           /\ ScoreCurve(x, c) <= c[Len(c)][2] * 100
<1>1. /\ Curve(c) /\ 1 \in 1 .. Len(c) /\ Len(c) \in 1 .. Len(c) /\ 1 < Len(c)
      /\ c[1][2] \in Int /\ c[Len(c)][2] \in Int /\ c[1][2] <= c[Len(c)][2]
      /\ c[1][1] \in Int /\ c[Len(c)][1] \in Int
    BY DEF Rising, Curve
<1>2. CASE x <= c[1][1]
    BY <1>1, <1>2, CurveParts
<1>3. CASE x >= c[Len(c)][1]
    BY <1>1, <1>3, CurveParts
<1>4. CASE c[1][1] < x /\ x < c[Len(c)][1]
    <2>1. PICK i : OnCurve(c, x, i) /\ ScoreCurve(x, c) = ScoreAt(c, x, i)
        BY <1>1, <1>4, CurveParts
    <2>2. /\ i \in 1 .. Len(c) /\ i + 1 \in 1 .. Len(c) /\ i < i + 1
          /\ c[i][2] \in Int /\ c[i + 1][2] \in Int
        BY <1>1, <2>1, SegmentNumbers
    <2>3. c[i][2] <= c[i + 1][2]
        BY <2>2 DEF Rising
    <2>4. c[1][2] <= c[i][2] /\ c[i + 1][2] <= c[Len(c)][2]
        <3>1. i = 1 \/ 1 < i
            BY <2>2
        <3>2. i + 1 = Len(c) \/ i + 1 < Len(c)
            BY <1>1, <2>2
        <3>3. c[1][2] <= c[i][2]
            BY <1>1, <2>2, <3>1 DEF Rising
        <3>4. c[i + 1][2] <= c[Len(c)][2]
            BY <1>1, <2>2, <3>2 DEF Rising
        <3> QED BY <3>3, <3>4
    <2>5. /\ ScoreAt(c, x, i) \in Int
          /\ c[i][2] * 100 <= ScoreAt(c, x, i) /\ ScoreAt(c, x, i) <= c[i + 1][2] * 100
        BY <1>1, <2>1, <2>3, ScoreBetween
    <2> DEFINE s == ScoreAt(c, x, i)
               a == c[1][2]
               b == c[i][2]
               d == c[i + 1][2]
               e == c[Len(c)][2]
    <2>6. /\ s \in Int /\ a \in Int /\ b \in Int /\ d \in Int /\ e \in Int
          /\ a <= b /\ d <= e /\ b * 100 <= s /\ s <= d * 100
        BY <1>1, <2>2, <2>4, <2>5
    <2> HIDE DEF s, a, b, d, e
    <2>7. s \in Int /\ a * 100 <= s /\ s <= e * 100
        BY <2>6
    <2> QED BY <2>1, <2>7 DEF s, a, e
<1> QED BY <1>1, <1>2, <1>3, <1>4

LEMMA RisingCurve ==
    ASSUME NEW c, Rising(c), NEW x \in Int, NEW y \in Int, x <= y
    PROVE  ScoreCurve(x, c) <= ScoreCurve(y, c)
<1>1. /\ Curve(c) /\ 1 \in 1 .. Len(c) /\ Len(c) \in 1 .. Len(c)
      /\ c[1][1] \in Int /\ c[Len(c)][1] \in Int
    BY DEF Rising, Curve
<1>2. CASE x <= c[1][1]
    <2>1. ScoreCurve(x, c) = c[1][2] * 100
        BY <1>1, <1>2, CurveParts
    <2> QED BY <2>1, RisingBounds
<1>3. CASE y >= c[Len(c)][1]
    <2>1. ScoreCurve(y, c) = c[Len(c)][2] * 100
        BY <1>1, <1>3, CurveParts
    <2> QED BY <2>1, RisingBounds
<1>4. CASE c[1][1] < x /\ y < c[Len(c)][1]
    <2>1. c[1][1] < y /\ x < c[Len(c)][1]
        BY <1>1, <1>4
    <2>2. PICK i : OnCurve(c, x, i) /\ ScoreCurve(x, c) = ScoreAt(c, x, i)
        BY <1>1, <1>4, <2>1, CurveParts
    <2>3. PICK j : OnCurve(c, y, j) /\ ScoreCurve(y, c) = ScoreAt(c, y, j)
        BY <1>1, <1>4, <2>1, CurveParts
    <2>4. i \in Int /\ j \in Int /\ i <= j
        BY <1>1, <2>2, <2>3, InOrderOnCurve
    <2>5. /\ i \in 1 .. Len(c) /\ i + 1 \in 1 .. Len(c) /\ j \in 1 .. Len(c) /\ j + 1 \in 1 .. Len(c)
          /\ c[i][2] \in Int /\ c[i + 1][2] \in Int /\ c[j][2] \in Int /\ c[j + 1][2] \in Int
        BY <1>1, <2>2, <2>3, SegmentNumbers
    <2>6. c[i][2] <= c[i + 1][2] /\ c[j][2] <= c[j + 1][2]
        BY <2>4, <2>5 DEF Rising
    <2>7. CASE i = j
        <3>1. ScoreAt(c, x, i) <= ScoreAt(c, y, i)
            BY <1>1, <2>2, <2>3, <2>6, <2>7, SameSegment
        <3> QED BY <2>2, <2>3, <2>7, <3>1
    <2>8. CASE i < j
        <3>1. c[i + 1][2] <= c[j][2]
            <4>1. i + 1 = j \/ i + 1 < j
                BY <2>4, <2>8
            <4> QED BY <2>5, <4>1 DEF Rising
        <3>2. ScoreAt(c, x, i) \in Int /\ ScoreAt(c, x, i) <= c[i + 1][2] * 100
            BY <1>1, <2>2, <2>6, ScoreBetween
        <3>3. ScoreAt(c, y, j) \in Int /\ c[j][2] * 100 <= ScoreAt(c, y, j)
            BY <1>1, <2>3, <2>6, ScoreBetween
        <3> QED BY <2>2, <2>3, <2>5, <3>1, <3>2, <3>3
    <2> QED BY <2>4, <2>7, <2>8
<1> QED BY <1>1, <1>2, <1>3, <1>4

LEMMA FallingBounds ==
    ASSUME NEW c, Falling(c), NEW x \in Int
    PROVE  /\ ScoreCurve(x, c) \in Int
           /\ c[1][2] * 100 >= ScoreCurve(x, c)
           /\ ScoreCurve(x, c) >= c[Len(c)][2] * 100
<1>1. /\ Curve(c) /\ 1 \in 1 .. Len(c) /\ Len(c) \in 1 .. Len(c) /\ 1 < Len(c)
      /\ c[1][2] \in Int /\ c[Len(c)][2] \in Int /\ c[1][2] >= c[Len(c)][2]
      /\ c[1][1] \in Int /\ c[Len(c)][1] \in Int
    BY DEF Falling, Curve
<1>2. CASE x <= c[1][1]
    BY <1>1, <1>2, CurveParts
<1>3. CASE x >= c[Len(c)][1]
    BY <1>1, <1>3, CurveParts
<1>4. CASE c[1][1] < x /\ x < c[Len(c)][1]
    <2>1. PICK i : OnCurve(c, x, i) /\ ScoreCurve(x, c) = ScoreAt(c, x, i)
        BY <1>1, <1>4, CurveParts
    <2>2. /\ i \in 1 .. Len(c) /\ i + 1 \in 1 .. Len(c) /\ i < i + 1
          /\ c[i][2] \in Int /\ c[i + 1][2] \in Int
        BY <1>1, <2>1, SegmentNumbers
    <2>3. c[i][2] >= c[i + 1][2]
        BY <2>2 DEF Falling
    <2>4. c[1][2] >= c[i][2] /\ c[i + 1][2] >= c[Len(c)][2]
        <3>1. i = 1 \/ 1 < i
            BY <2>2
        <3>2. i + 1 = Len(c) \/ i + 1 < Len(c)
            BY <1>1, <2>2
        <3>3. c[1][2] >= c[i][2]
            BY <1>1, <2>2, <3>1 DEF Falling
        <3>4. c[i + 1][2] >= c[Len(c)][2]
            BY <1>1, <2>2, <3>2 DEF Falling
        <3> QED BY <3>3, <3>4
    <2>5. /\ ScoreAt(c, x, i) \in Int
          /\ c[i][2] * 100 >= ScoreAt(c, x, i) /\ ScoreAt(c, x, i) >= c[i + 1][2] * 100
        BY <1>1, <2>1, <2>3, ScoreBetween
    <2> DEFINE s == ScoreAt(c, x, i)
               a == c[1][2]
               b == c[i][2]
               d == c[i + 1][2]
               e == c[Len(c)][2]
    <2>6. /\ s \in Int /\ a \in Int /\ b \in Int /\ d \in Int /\ e \in Int
          /\ a >= b /\ d >= e /\ b * 100 >= s /\ s >= d * 100
        BY <1>1, <2>2, <2>4, <2>5
    <2> HIDE DEF s, a, b, d, e
    <2>7. s \in Int /\ a * 100 >= s /\ s >= e * 100
        BY <2>6
    <2> QED BY <2>1, <2>7 DEF s, a, e
<1> QED BY <1>1, <1>2, <1>3, <1>4

LEMMA FallingCurve ==
    ASSUME NEW c, Falling(c), NEW x \in Int, NEW y \in Int, x <= y
    PROVE  ScoreCurve(x, c) >= ScoreCurve(y, c)
<1>1. /\ Curve(c) /\ 1 \in 1 .. Len(c) /\ Len(c) \in 1 .. Len(c)
      /\ c[1][1] \in Int /\ c[Len(c)][1] \in Int
    BY DEF Falling, Curve
<1>2. CASE x <= c[1][1]
    <2>1. ScoreCurve(x, c) = c[1][2] * 100
        BY <1>1, <1>2, CurveParts
    <2> QED BY <2>1, FallingBounds
<1>3. CASE y >= c[Len(c)][1]
    <2>1. ScoreCurve(y, c) = c[Len(c)][2] * 100
        BY <1>1, <1>3, CurveParts
    <2> QED BY <2>1, FallingBounds
<1>4. CASE c[1][1] < x /\ y < c[Len(c)][1]
    <2>1. c[1][1] < y /\ x < c[Len(c)][1]
        BY <1>1, <1>4
    <2>2. PICK i : OnCurve(c, x, i) /\ ScoreCurve(x, c) = ScoreAt(c, x, i)
        BY <1>1, <1>4, <2>1, CurveParts
    <2>3. PICK j : OnCurve(c, y, j) /\ ScoreCurve(y, c) = ScoreAt(c, y, j)
        BY <1>1, <1>4, <2>1, CurveParts
    <2>4. i \in Int /\ j \in Int /\ i <= j
        BY <1>1, <2>2, <2>3, InOrderOnCurve
    <2>5. /\ i \in 1 .. Len(c) /\ i + 1 \in 1 .. Len(c) /\ j \in 1 .. Len(c) /\ j + 1 \in 1 .. Len(c)
          /\ c[i][2] \in Int /\ c[i + 1][2] \in Int /\ c[j][2] \in Int /\ c[j + 1][2] \in Int
        BY <1>1, <2>2, <2>3, SegmentNumbers
    <2>6. c[i][2] >= c[i + 1][2] /\ c[j][2] >= c[j + 1][2]
        BY <2>4, <2>5 DEF Falling
    <2>7. CASE i = j
        <3>1. ScoreAt(c, x, i) >= ScoreAt(c, y, i)
            BY <1>1, <2>2, <2>3, <2>6, <2>7, SameSegment
        <3> QED BY <2>2, <2>3, <2>7, <3>1
    <2>8. CASE i < j
        <3>1. c[i + 1][2] >= c[j][2]
            <4>1. i + 1 = j \/ i + 1 < j
                BY <2>4, <2>8
            <4> QED BY <2>5, <4>1 DEF Falling
        <3>2. ScoreAt(c, x, i) \in Int /\ ScoreAt(c, x, i) >= c[i + 1][2] * 100
            BY <1>1, <2>2, <2>6, ScoreBetween
        <3>3. ScoreAt(c, y, j) \in Int /\ c[j][2] * 100 >= ScoreAt(c, y, j)
            BY <1>1, <2>3, <2>6, ScoreBetween
        <3> QED BY <2>2, <2>3, <2>5, <3>1, <3>2, <3>3
    <2> QED BY <2>4, <2>7, <2>8
<1> QED BY <1>1, <1>2, <1>3, <1>4

LEMMA CapRises == Rising(CapCurve)
BY DEF Rising, Curve, CapCurve

LEMMA CocRises == Rising(CocCurve)
BY DEF Rising, Curve, CocCurve

LEMMA PaybackFalls == Falling(PaybackCurve)
BY DEF Falling, Curve, PaybackCurve

LEMMA GrmFalls == Falling(GrmCurve)
BY DEF Falling, Curve, GrmCurve

LEMMA DscrRises == Rising(DscrCurve)
BY DEF Rising, Curve, DscrCurve

LEMMA BreakEvenFalls == Falling(BreakEvenCurve)
BY DEF Falling, Curve, BreakEvenCurve

LEMMA VacancyRises == Rising(VacancyCurve)
BY DEF Rising, Curve, VacancyCurve

-----------------------------------------------------------------------------
(* A better deal and its metrics. *)

\* What the sections of a builder may hold; the rent is above 0.
DealShape(d) ==
    /\ d.rent \in Nat \ {0} /\ d.charges \in Nat
    /\ d.price \in Nat /\ d.costs \in Nat /\ d.credits \in Nat
    /\ d.rate \in Nat /\ d.term \in Nat \ {0}

\* Fees that leave something of the income.
FormShape(f) ==
    /\ f.ltv \in Nat /\ f.occupancy \in Nat /\ f.zipCap \in Nat
    /\ f.management \in Nat /\ f.maintenance \in Nat /\ f.management + f.maintenance <= 100

\* e is d with more rent or less charges.
Improved(d, e) ==
    /\ DealShape(d) /\ DealShape(e)
    /\ d.price = e.price /\ d.costs = e.costs /\ d.credits = e.credits
    /\ d.rate = e.rate /\ d.term = e.term
    /\ d.rent <= e.rent /\ e.charges <= d.charges

LEMMA LoanFigures ==
    ASSUME NEW d, DealShape(d), NEW f, FormShape(f)
    PROVE  /\ EstimatedCashToClose(d, f) \in Int
           /\ PI(LtvAmount(d, f), d.rate, d.term) \in Nat
<1>1. d.price * f.ltv \in Nat
    BY DEF DealShape, FormShape
<1>2. LtvAmount(d, f) \in Nat
    BY <1>1, QuotientPositive DEF LtvAmount
<1>3. PI(LtvAmount(d, f), d.rate, d.term) \in Nat
    BY <1>2, PaymentPositive DEF DealShape
<1>4. EstimatedCashToClose(d, f) \in Int
    BY <1>2 DEF EstimatedCashToClose, DealShape
<1> QED BY <1>3, <1>4

\* The loan has nothing to do with the rent.
LEMMA LoanStays ==
    ASSUME NEW d, NEW e, Improved(d, e), NEW f
    PROVE  /\ EstimatedCashToClose(d, f) = EstimatedCashToClose(e, f)
           /\ PI(LtvAmount(d, f), d.rate, d.term) = PI(LtvAmount(e, f), e.rate, e.term)
BY DEF Improved, LtvAmount, EstimatedCashToClose

LEMMA QuotientPlus ==
    ASSUME NEW k \in Int, NEW v \in Int, NEW m \in Nat \ {0}
    PROVE  (k + v * m) \div m = k \div m + v
<1> DEFINE x == k + v * m
           a == x \div m
           q == k \div m
           b == q + v
<1>1. x \in Int /\ v * m \in Int
    OBVIOUS
<1>2. q \in Int /\ q * m <= k /\ k < q * m + m
    BY Quotient
<1>3. a \in Int /\ a * m <= x /\ x < a * m + m
    <2> HIDE DEF x
    <2> QED BY <1>1, Quotient
<1> HIDE DEF a, q
<1>4. b \in Int /\ b * m = q * m + v * m
    BY <1>2
<1>5. q * m \in Int /\ a * m \in Int
    BY <1>2, <1>3
<1>6. a * m < b * m + m /\ b * m < a * m + m
    BY <1>1, <1>2, <1>3, <1>4, <1>5
<1> HIDE DEF b
<1>7. a <= b /\ b <= a
    BY <1>3, <1>4, <1>6, FactorGreater
<1>8. a = b
    BY <1>3, <1>4, <1>7
<1> QED BY <1>8 DEF a, b, q, x

\* Income, in units of 1/10000 a year.
GrossOf(d) == 12 * d.rent
FixedFine(d) == 12 * d.charges * 10000
NoiFine(d, f) ==
    GrossOf(d) * f.occupancy * 100
        - (FixedFine(d) + GrossOf(d) * f.occupancy * (f.management + f.maintenance))

LEMMA IncomeRises ==
    ASSUME NEW d, NEW e, Improved(d, e), NEW f, FormShape(f)
    PROVE  /\ GrossOf(d) \in Nat \ {0} /\ GrossOf(e) \in Nat \ {0} /\ GrossOf(d) <= GrossOf(e)
           /\ FixedFine(d) \in Nat /\ FixedFine(e) \in Nat /\ FixedFine(e) <= FixedFine(d)
           /\ NoiFine(d, f) \in Int /\ NoiFine(e, f) \in Int /\ NoiFine(d, f) <= NoiFine(e, f)
<1> DEFINE o == f.occupancy
           v == f.management + f.maintenance
           k == 100 - v
           g == GrossOf(d)
           h == GrossOf(e)
           F == FixedFine(d)
           E == FixedFine(e)
           s == h - g
<1>1. g \in Nat \ {0} /\ h \in Nat \ {0} /\ g <= h
    BY DEF Improved, DealShape, GrossOf
<1>2. F \in Nat /\ E \in Nat /\ E <= F
    BY DEF Improved, DealShape, FixedFine
<1>3. o \in Nat /\ v \in Nat /\ k \in Nat /\ 100 = k + v
    BY DEF FormShape
<1>4. NoiFine(d, f) = g * o * 100 - (F + g * o * v) /\ NoiFine(e, f) = h * o * 100 - (E + h * o * v)
    BY DEF NoiFine
<1>5. s \in Nat /\ h = g + s
    BY <1>1
<1> HIDE DEF o, v, k, g, h, F, E, s
<1> DEFINE a == g * o
           b == s * o
<1>6. a \in Nat /\ b \in Nat /\ h * o = a + b
    BY <1>1, <1>3, <1>5
<1> DEFINE c == h * o
<1>7. g * o * 100 = a * 100 /\ g * o * v = a * v /\ h * o * 100 = c * 100 /\ h * o * v = c * v
    OBVIOUS
<1> HIDE DEF a, b, c
<1>8. a * 100 = a * k + a * v /\ c = a + b /\ c * 100 = c * k + c * v /\ c * k = a * k + b * k
    BY <1>3, <1>6 DEF c
<1>9. a * k \in Nat /\ b * k \in Nat /\ a * v \in Nat /\ c * v \in Nat /\ c * k \in Nat
    BY <1>3, <1>6, <1>8
<1>10. NoiFine(d, f) = a * k - F /\ NoiFine(e, f) = a * k + b * k - E
    BY <1>2, <1>4, <1>7, <1>8, <1>9
<1>11. NoiFine(d, f) \in Int /\ NoiFine(e, f) \in Int /\ NoiFine(d, f) <= NoiFine(e, f)
    BY <1>2, <1>9, <1>10
<1> QED BY <1>1, <1>2, <1>11 DEF g, h, F, E

\* The metrics by name: debt is a payment of a year.
DebtOf(d, f) == 12 * PI(LtvAmount(d, f), d.rate, d.term)

LEMMA MetricsAre ==
    ASSUME NEW d, NEW f
    PROVE  LET m == Metrics(d, f)
               cash == EstimatedCashToClose(d, f)
               debt == DebtOf(d, f)
               gross == GrossOf(d)
               surplus == NoiFine(d, f) - debt * 10000
           IN  /\ m.cash = cash /\ m.debt = debt /\ m.cashflow = surplus
               /\ m.capPremium = (IF d.price > 0 THEN NoiFine(d, f) \div d.price ELSE 0) - f.zipCap
               /\ m.cocReturn = IF cash > 0 THEN surplus \div cash ELSE 0
               /\ m.grm = IF gross > 0 THEN (d.price * 100) \div gross ELSE 99900
               /\ m.payback = IF surplus > 0 THEN (cash * 1000) \div AtLeast(1, surplus \div 1000) ELSE 9900
               /\ m.dscr = IF debt > 0 THEN NoiFine(d, f) \div debt ELSE 990000
               /\ m.breakEven = IF gross > 0
                                THEN (FixedFine(d) + gross * f.occupancy * (f.management + f.maintenance)
                                          + debt * 10000) \div gross
                                ELSE 10000
               /\ m.maxVacancy = MaxSustainableVacancy(gross, 12 * d.charges + debt, f.management + f.maintenance)
BY DEF Metrics, NoiFine, GrossOf, FixedFine, DebtOf

\* More income is more return.
LEMMA ReturnsRise ==
    ASSUME NEW d, NEW e, Improved(d, e), NEW f, FormShape(f)
    PROVE  LET n == Metrics(d, f)
               m == Metrics(e, f)
           IN  /\ n.cash = m.cash /\ n.cash \in Int
               /\ n.debt = m.debt /\ n.debt \in Nat
               /\ n.cashflow \in Int /\ m.cashflow \in Int /\ n.cashflow <= m.cashflow
               /\ n.capPremium \in Int /\ m.capPremium \in Int /\ n.capPremium <= m.capPremium
               /\ n.cocReturn \in Int /\ m.cocReturn \in Int /\ n.cocReturn <= m.cocReturn
               /\ n.debt > 0 => n.dscr \in Int /\ m.dscr \in Int /\ n.dscr <= m.dscr
<1> DEFINE n == Metrics(d, f)
           m == Metrics(e, f)
           cash == EstimatedCashToClose(d, f)
           debt == DebtOf(d, f)
           a == NoiFine(d, f)
           b == NoiFine(e, f)
           p == d.price
<1>1. /\ cash = EstimatedCashToClose(e, f) /\ debt = DebtOf(e, f) /\ p = e.price
    BY LoanStays DEF DebtOf, Improved
<1>2. /\ n.cash = cash /\ n.debt = debt /\ n.cashflow = a - debt * 10000
      /\ n.capPremium = (IF p > 0 THEN a \div p ELSE 0) - f.zipCap
      /\ n.cocReturn = IF cash > 0 THEN (a - debt * 10000) \div cash ELSE 0
      /\ n.dscr = IF debt > 0 THEN a \div debt ELSE 990000
    BY MetricsAre
<1>3. /\ m.cash = cash /\ m.debt = debt /\ m.cashflow = b - debt * 10000
      /\ m.capPremium = (IF p > 0 THEN b \div p ELSE 0) - f.zipCap
      /\ m.cocReturn = IF cash > 0 THEN (b - debt * 10000) \div cash ELSE 0
      /\ m.dscr = IF debt > 0 THEN b \div debt ELSE 990000
    BY <1>1, MetricsAre
<1>4. cash \in Int /\ debt \in Nat /\ p \in Nat /\ f.zipCap \in Nat /\ a \in Int /\ b \in Int /\ a <= b
    <2>1. DealShape(d)
        BY DEF Improved
    <2>2. PI(LtvAmount(d, f), d.rate, d.term) \in Nat /\ cash \in Int
        BY <2>1, LoanFigures
    <2>3. debt \in Nat
        BY <2>2 DEF DebtOf
    <2>4. p \in Nat /\ f.zipCap \in Nat
        BY <2>1 DEF DealShape, FormShape
    <2> QED BY <2>2, <2>3, <2>4, IncomeRises
<1> HIDE DEF n, m, cash, debt, a, b, p
<1>5. /\ n.capPremium \in Int /\ m.capPremium \in Int /\ n.capPremium <= m.capPremium
    <2>1. CASE p > 0
        <3>1. p \in Nat \ {0}
            BY <1>4, <2>1
        <3>2. a \div p \in Int /\ b \div p \in Int /\ a \div p <= b \div p
            BY <1>4, <3>1, Quotient, QuotientGrows
        <3> QED BY <1>2, <1>3, <1>4, <2>1, <3>2
    <2>2. CASE ~(p > 0)
        BY <1>2, <1>3, <1>4, <2>2
    <2> QED BY <2>1, <2>2
<1> DEFINE x == a - debt * 10000
           y == b - debt * 10000
<1>6. x \in Int /\ y \in Int /\ x <= y
    BY <1>4
<1>7. /\ n.cocReturn \in Int /\ m.cocReturn \in Int /\ n.cocReturn <= m.cocReturn
    <2> HIDE DEF x, y
    <2>1. CASE cash > 0
        <3>1. cash \in Nat \ {0}
            BY <1>4, <2>1
        <3>2. x \div cash \in Int /\ y \div cash \in Int /\ x \div cash <= y \div cash
            BY <1>6, <3>1, Quotient, QuotientGrows
        <3>3. n.cocReturn = x \div cash /\ m.cocReturn = y \div cash
            BY <1>2, <1>3, <2>1 DEF x, y
        <3> QED BY <3>2, <3>3
    <2>2. CASE ~(cash > 0)
        BY <1>2, <1>3, <2>2
    <2> QED BY <2>1, <2>2
<1>8. debt > 0 => n.dscr \in Int /\ m.dscr \in Int /\ n.dscr <= m.dscr
    <2> SUFFICES ASSUME debt > 0 PROVE n.dscr \in Int /\ m.dscr \in Int /\ n.dscr <= m.dscr
        OBVIOUS
    <2>1. debt \in Nat \ {0}
        BY <1>4
    <2>2. a \div debt \in Int /\ b \div debt \in Int /\ a \div debt <= b \div debt
        BY <1>4, <2>1, Quotient, QuotientGrows
    <2> QED BY <1>2, <1>3, <2>2
<1>9. /\ n.cash = m.cash /\ n.cash \in Int /\ n.debt = m.debt /\ n.debt \in Nat
      /\ n.cashflow \in Int /\ m.cashflow \in Int /\ n.cashflow <= m.cashflow
      /\ n.debt > 0 => n.dscr \in Int /\ m.dscr \in Int /\ n.dscr <= m.dscr
    BY <1>2, <1>3, <1>4, <1>6, <1>8
<1> QED BY <1>5, <1>7, <1>9 DEF n, m

LEMMA AtMostLeast ==
    ASSUME NEW a \in Int, NEW b \in Int
    PROVE  /\ AtMost(a, b) \in Int /\ AtMost(a, b) <= a /\ AtMost(a, b) <= b
           /\ AtMost(a, b) = a \/ AtMost(a, b) = b
           /\ AtLeast(a, b) \in Int /\ AtLeast(a, b) >= a /\ AtLeast(a, b) >= b
           /\ AtLeast(a, b) = a \/ AtLeast(a, b) = b
BY DEF AtMost, AtLeast

\* And the years to get the money back are fewer, the vacancy the deal bears is more.
LEMMA RisksFall ==
    ASSUME NEW d, NEW e, Improved(d, e), NEW f, FormShape(f)
    PROVE  LET n == Metrics(d, f)
               m == Metrics(e, f)
           IN  /\ n.grm \in Int /\ m.grm \in Int /\ n.grm >= m.grm
               /\ n.breakEven \in Int /\ m.breakEven \in Int /\ n.breakEven >= m.breakEven
               /\ n.maxVacancy \in Int /\ m.maxVacancy \in Int /\ n.maxVacancy <= m.maxVacancy
<1> DEFINE n == Metrics(d, f)
           m == Metrics(e, f)
           debt == DebtOf(d, f)
           g == GrossOf(d)
           h == GrossOf(e)
           F == FixedFine(d)
           E == FixedFine(e)
           p == d.price
           o == f.occupancy
           v == f.management + f.maintenance
<1>1. debt = DebtOf(e, f) /\ p = e.price
    BY LoanStays DEF DebtOf, Improved
<1>2. /\ n.grm = (IF g > 0 THEN (p * 100) \div g ELSE 99900)
      /\ n.breakEven = (IF g > 0 THEN (F + g * o * v + debt * 10000) \div g ELSE 10000)
      /\ n.maxVacancy = MaxSustainableVacancy(g, 12 * d.charges + debt, v)
    BY MetricsAre
<1>3. /\ m.grm = (IF h > 0 THEN (p * 100) \div h ELSE 99900)
      /\ m.breakEven = (IF h > 0 THEN (E + h * o * v + debt * 10000) \div h ELSE 10000)
      /\ m.maxVacancy = MaxSustainableVacancy(h, 12 * e.charges + debt, v)
    BY <1>1, MetricsAre
<1>4. /\ debt \in Nat /\ p \in Nat /\ o \in Nat /\ v \in Nat /\ v <= 100
      /\ g \in Nat \ {0} /\ h \in Nat \ {0} /\ g <= h
      /\ F \in Nat /\ E \in Nat /\ E <= F
      /\ d.charges \in Nat /\ e.charges \in Nat /\ e.charges <= d.charges
    <2>1. DealShape(d) /\ DealShape(e) /\ e.charges <= d.charges
        BY DEF Improved
    <2>2. PI(LtvAmount(d, f), d.rate, d.term) \in Nat
        BY <2>1, LoanFigures
    <2>3. debt \in Nat
        BY <2>2 DEF DebtOf
    <2>4. p \in Nat /\ o \in Nat /\ v \in Nat /\ v <= 100 /\ d.charges \in Nat /\ e.charges \in Nat
        BY <2>1 DEF DealShape, FormShape
    <2> HIDE DEF debt, p, o, v, g, h, F, E
    <2>5. /\ g \in Nat \ {0} /\ h \in Nat \ {0} /\ g <= h
          /\ F \in Nat /\ E \in Nat /\ E <= F
        BY IncomeRises DEF g, h, F, E
    <2> QED BY <2>1, <2>3, <2>4, <2>5
<1> HIDE DEF n, m, debt, g, h, F, E, p, o, v
<1>5. n.grm \in Int /\ m.grm \in Int /\ n.grm >= m.grm
    <2> DEFINE z == p * 100
    <2>1. z \in Nat /\ z <= z
        BY <1>4
    <2> HIDE DEF z
    <2>2. g > 0 /\ h > 0 /\ g \in Nat \ {0} /\ h \in Nat \ {0} /\ g <= h
        BY <1>4
    <2>3. z \div g \in Nat /\ z \div h \in Nat
        BY <2>1, <2>2, QuotientPositive
    <2>4. z \div h <= z \div g
        BY <2>1, <2>2, QuotientShrinks
    <2>5. n.grm = z \div g /\ m.grm = z \div h
        BY <1>2, <1>3, <2>2 DEF z
    <2> QED BY <2>3, <2>4, <2>5
<1>6. n.breakEven \in Int /\ m.breakEven \in Int /\ n.breakEven >= m.breakEven
    <2> DEFINE k == F + debt * 10000
               l == E + debt * 10000
               w == o * v
    <2>1. k \in Nat /\ l \in Nat /\ l <= k /\ w \in Nat
        BY <1>4
    <2>2. F + g * o * v + debt * 10000 = k + w * g /\ E + h * o * v + debt * 10000 = l + w * h
        <3>1. g * o * v = w * g /\ h * o * v = w * h
            BY <1>4
        <3>2. w * g \in Nat /\ w * h \in Nat
            BY <1>4, <2>1
        <3> HIDE DEF w
        <3> QED BY <1>4, <3>1, <3>2
    <2>7. n.breakEven = (F + g * o * v + debt * 10000) \div g /\ m.breakEven = (E + h * o * v + debt * 10000) \div h
        <3>1. g > 0 /\ h > 0
            BY <1>4
        <3> QED BY <1>2, <1>3, <3>1
    <2>8. n.breakEven = (k + w * g) \div g /\ m.breakEven = (l + w * h) \div h
        <3> HIDE DEF k, l, w
        <3> QED BY <2>2, <2>7
    <2> HIDE DEF k, l, w
    <2>9. k \in Int /\ l \in Int /\ w \in Int
        BY <2>1
    <2>6. g \in Nat \ {0} /\ h \in Nat \ {0} /\ g <= h
        BY <1>4
    <2>3. (k + w * g) \div g = k \div g + w /\ (l + w * h) \div h = l \div h + w
        BY <2>6, <2>9, QuotientPlus
    <2>4. k \div g \in Nat /\ l \div h \in Nat /\ l \div h <= k \div g
        BY <2>1, <2>6, QuotientPositive, QuotientShrinks
    <2>5. n.breakEven = k \div g + w /\ m.breakEven = l \div h + w
        BY <2>3, <2>8
    <2> QED BY <2>1, <2>4, <2>5
<1>7. n.maxVacancy \in Int /\ m.maxVacancy \in Int /\ n.maxVacancy <= m.maxVacancy
    <2> DEFINE k == (12 * d.charges + debt) * 10000
               l == (12 * e.charges + debt) * 10000
               c == Clamp(v, 0, 90)
               r == 100 - c
               s == k \div g
               t == l \div h
               x == (s * 100) \div r
               y == (t * 100) \div r
    <2>1. k \in Nat /\ l \in Nat /\ l <= k
        BY <1>4
    <2>2. c \in 0 .. 90
        BY <1>4 DEF Clamp, AtMost, AtLeast
    <2> HIDE DEF c
    <2>3. r \in Nat \ {0}
        BY <2>2
    <2> HIDE DEF k, l, r
    <2>4. s \in Nat /\ t \in Nat /\ t <= s
        BY <1>4, <2>1, QuotientPositive, QuotientShrinks
    <2> HIDE DEF s, t
    <2>5. s * 100 \in Nat /\ t * 100 \in Nat /\ t * 100 <= s * 100
        BY <2>4
    <2>6. x \in Nat /\ y \in Nat /\ y <= x
        BY <2>3, <2>5, QuotientPositive, QuotientGrows
    <2>7. n.maxVacancy = Clamp(10000 - x, 0, 10000) /\ m.maxVacancy = Clamp(10000 - y, 0, 10000)
        BY <1>2, <1>3, <1>4 DEF MaxSustainableVacancy, k, l, c, r, s, t
    <2> HIDE DEF x, y
    <2> QED BY <2>6, <2>7 DEF Clamp, AtMost, AtLeast
<1> QED BY <1>5, <1>6, <1>7 DEF n, m

LEMMA PaybackShortens ==
    ASSUME NEW d, NEW e, Improved(d, e), NEW f, FormShape(f),
           Metrics(d, f).cash > 0, Metrics(d, f).cashflow > 0
    PROVE  /\ Metrics(d, f).payback \in Int /\ Metrics(e, f).payback \in Int
           /\ Metrics(d, f).payback >= Metrics(e, f).payback
<1> DEFINE n == Metrics(d, f)
           m == Metrics(e, f)
           cash == n.cash
           a == n.cashflow
           b == m.cashflow
<1>1. /\ n.cash = m.cash /\ cash \in Int /\ a \in Int /\ b \in Int /\ a <= b
    BY ReturnsRise
<1>2. /\ n.payback = IF a > 0 THEN (cash * 1000) \div AtLeast(1, a \div 1000) ELSE 9900
      /\ m.payback = IF b > 0 THEN (m.cash * 1000) \div AtLeast(1, b \div 1000) ELSE 9900
    BY MetricsAre
<1>3. cash > 0 /\ a > 0
    OBVIOUS
<1> HIDE DEF n, m, cash, a, b
<1> DEFINE u == a \div 1000
           v == b \div 1000
           k == AtLeast(1, u)
           l == AtLeast(1, v)
<1>4. u \in Int /\ v \in Int /\ u <= v
    BY <1>1, Quotient, QuotientGrows
<1> HIDE DEF u, v
<1>5. k \in Nat \ {0} /\ l \in Nat \ {0} /\ k <= l
    BY <1>4 DEF AtLeast
<1> HIDE DEF k, l
<1>6. cash * 1000 \in Nat
    BY <1>1, <1>3
<1>7. (cash * 1000) \div k \in Nat /\ (cash * 1000) \div l \in Nat /\ (cash * 1000) \div l <= (cash * 1000) \div k
    BY <1>5, <1>6, QuotientPositive, QuotientShrinks
<1>8. n.payback = (cash * 1000) \div k /\ m.payback = (cash * 1000) \div l
    <2>1. b > 0 /\ m.cash = cash
        BY <1>1, <1>3 DEF cash
    <2> QED BY <1>2, <1>3, <2>1 DEF k, l, u, v
<1> QED BY <1>7, <1>8 DEF n, m

-----------------------------------------------------------------------------
(* From the metrics to the grade. *)

\* The scores of the better deal are no lower; that of the payback counts
\* where there is cash in the deal.
LEMMA ScoresRise ==
    ASSUME NEW d, NEW e, Improved(d, e), NEW f, FormShape(f)
    PROVE  LET s == Scores(Metrics(d, f))
               z == Scores(Metrics(e, f))
           IN  /\ s.cap \in Int /\ z.cap \in Int /\ s.cap <= z.cap
               /\ s.coc \in Int /\ z.coc \in Int /\ s.coc <= z.coc
               /\ Metrics(d, f).cash > 0 => s.payback \in Int /\ z.payback \in Int /\ s.payback <= z.payback
               /\ s.grm \in Int /\ z.grm \in Int /\ s.grm <= z.grm
               /\ s.dscr \in Int /\ z.dscr \in Int /\ s.dscr <= z.dscr
               /\ s.breakEven \in Int /\ z.breakEven \in Int /\ s.breakEven <= z.breakEven
               /\ s.vacancy \in Int /\ z.vacancy \in Int /\ s.vacancy <= z.vacancy
<1> DEFINE n == Metrics(d, f)
           m == Metrics(e, f)
           s == Scores(n)
           z == Scores(m)
<1>1. /\ n.cash = m.cash /\ n.cash \in Int /\ n.debt = m.debt /\ n.debt \in Nat
      /\ n.cashflow \in Int /\ m.cashflow \in Int /\ n.cashflow <= m.cashflow
      /\ n.capPremium \in Int /\ m.capPremium \in Int /\ n.capPremium <= m.capPremium
      /\ n.cocReturn \in Int /\ m.cocReturn \in Int /\ n.cocReturn <= m.cocReturn
      /\ n.debt > 0 => n.dscr \in Int /\ m.dscr \in Int /\ n.dscr <= m.dscr
    BY ReturnsRise
<1>2. /\ n.grm \in Int /\ m.grm \in Int /\ n.grm >= m.grm
      /\ n.breakEven \in Int /\ m.breakEven \in Int /\ n.breakEven >= m.breakEven
      /\ n.maxVacancy \in Int /\ m.maxVacancy \in Int /\ n.maxVacancy <= m.maxVacancy
    BY RisksFall
<1>3. n.cash > 0 /\ n.cashflow > 0 => n.payback \in Int /\ m.payback \in Int /\ n.payback >= m.payback
    BY PaybackShortens
<1> HIDE DEF n, m
<1>4. /\ s.cap = ScoreCurve(n.capPremium, CapCurve)
      /\ s.coc = IF n.cashflow <= 0
                 THEN AtMost(ScoreCurve(n.cocReturn, CocCurve), 1500)
                 ELSE ScoreCurve(n.cocReturn, CocCurve)
      /\ s.payback = IF n.cashflow <= 0 THEN 0 ELSE ScoreCurve(n.payback, PaybackCurve)
      /\ s.grm = ScoreCurve(n.grm, GrmCurve)
      /\ s.dscr = IF n.debt <= 0 THEN 10000 ELSE ScoreCurve(n.dscr, DscrCurve)
      /\ s.breakEven = ScoreCurve(n.breakEven, BreakEvenCurve)
      /\ s.vacancy = ScoreCurve(n.maxVacancy, VacancyCurve)
    BY DEF Scores
<1>5. /\ z.cap = ScoreCurve(m.capPremium, CapCurve)
      /\ z.coc = IF m.cashflow <= 0
                 THEN AtMost(ScoreCurve(m.cocReturn, CocCurve), 1500)
                 ELSE ScoreCurve(m.cocReturn, CocCurve)
      /\ z.payback = IF m.cashflow <= 0 THEN 0 ELSE ScoreCurve(m.payback, PaybackCurve)
      /\ z.grm = ScoreCurve(m.grm, GrmCurve)
      /\ z.dscr = IF m.debt <= 0 THEN 10000 ELSE ScoreCurve(m.dscr, DscrCurve)
      /\ z.breakEven = ScoreCurve(m.breakEven, BreakEvenCurve)
      /\ z.vacancy = ScoreCurve(m.maxVacancy, VacancyCurve)
    BY DEF Scores
<1> HIDE DEF s, z
<1>6. s.cap \in Int /\ z.cap \in Int /\ s.cap <= z.cap
    <2>1. /\ ScoreCurve(n.capPremium, CapCurve) \in Int /\ ScoreCurve(m.capPremium, CapCurve) \in Int
          /\ ScoreCurve(n.capPremium, CapCurve) <= ScoreCurve(m.capPremium, CapCurve)
        BY <1>1, CapRises, RisingCurve, RisingBounds
    <2> QED BY <1>4, <1>5, <2>1
<1>7. s.coc \in Int /\ z.coc \in Int /\ s.coc <= z.coc
    <2> DEFINE x == ScoreCurve(n.cocReturn, CocCurve)
               y == ScoreCurve(m.cocReturn, CocCurve)
    <2>1. x \in Int /\ y \in Int /\ x <= y
        BY <1>1, CocRises, RisingCurve, RisingBounds
    <2>2. /\ s.coc = IF n.cashflow <= 0 THEN AtMost(x, 1500) ELSE x
          /\ z.coc = IF m.cashflow <= 0 THEN AtMost(y, 1500) ELSE y
        BY <1>4, <1>5
    <2> HIDE DEF x, y
    <2> QED BY <1>1, <2>1, <2>2 DEF AtMost
<1>8. n.cash > 0 => s.payback \in Int /\ z.payback \in Int /\ s.payback <= z.payback
    <2> SUFFICES ASSUME n.cash > 0 PROVE s.payback \in Int /\ z.payback \in Int /\ s.payback <= z.payback
        OBVIOUS
    <2>1. CASE n.cashflow > 0
        <3>1. ~(n.cashflow <= 0) /\ ~(m.cashflow <= 0)
            BY <1>1, <2>1
        <3>2. n.payback \in Int /\ m.payback \in Int /\ m.payback <= n.payback
            BY <1>3, <2>1
        <3>3. /\ ScoreCurve(n.payback, PaybackCurve) \in Int /\ ScoreCurve(m.payback, PaybackCurve) \in Int
              /\ ScoreCurve(m.payback, PaybackCurve) >= ScoreCurve(n.payback, PaybackCurve)
            BY <3>2, PaybackFalls, FallingCurve, FallingBounds
        <3> QED BY <1>4, <1>5, <3>1, <3>3
    <2>2. CASE n.cashflow <= 0 /\ m.cashflow <= 0
        BY <1>4, <1>5, <2>2
    <2>3. CASE n.cashflow <= 0 /\ ~(m.cashflow <= 0)
        <3>1. m.payback \in Int
            <4>1. m.payback = (m.cash * 1000) \div AtLeast(1, m.cashflow \div 1000)
                <5>1. NoiFine(e, f) - DebtOf(e, f) * 10000 = m.cashflow /\ EstimatedCashToClose(e, f) = m.cash
                    BY MetricsAre DEF m
                <5>2. m.payback = IF m.cashflow > 0 THEN (m.cash * 1000) \div AtLeast(1, m.cashflow \div 1000) ELSE 9900
                    BY <5>1, MetricsAre DEF m
                <5> QED BY <1>1, <2>3, <5>2
            <4>2. m.cashflow \div 1000 \in Int /\ m.cash * 1000 \in Int
                BY <1>1, Quotient
            <4>3. AtLeast(1, m.cashflow \div 1000) \in Nat \ {0}
                BY <4>2 DEF AtLeast
            <4> QED BY <4>1, <4>2, <4>3, Quotient
        <3>2. /\ Len(PaybackCurve) = 7 /\ PaybackCurve[7][2] = 10
            BY DEF PaybackCurve
        <3>3. ScoreCurve(m.payback, PaybackCurve) \in Int /\ ScoreCurve(m.payback, PaybackCurve) >= 10 * 100
            BY <3>1, <3>2, PaybackFalls, FallingBounds
        <3> QED BY <1>4, <1>5, <2>3, <3>3
    <2> QED BY <1>1, <2>1, <2>2, <2>3
<1>9. s.grm \in Int /\ z.grm \in Int /\ s.grm <= z.grm
    <2>1. /\ ScoreCurve(n.grm, GrmCurve) \in Int /\ ScoreCurve(m.grm, GrmCurve) \in Int
          /\ ScoreCurve(m.grm, GrmCurve) >= ScoreCurve(n.grm, GrmCurve)
        BY <1>2, GrmFalls, FallingCurve, FallingBounds
    <2> QED BY <1>4, <1>5, <2>1
<1>10. s.dscr \in Int /\ z.dscr \in Int /\ s.dscr <= z.dscr
    <2>1. CASE n.debt <= 0
        BY <1>1, <1>4, <1>5, <2>1
    <2>2. CASE ~(n.debt <= 0)
        <3>1. n.dscr \in Int /\ m.dscr \in Int /\ n.dscr <= m.dscr
            BY <1>1, <2>2
        <3>2. /\ ScoreCurve(n.dscr, DscrCurve) \in Int /\ ScoreCurve(m.dscr, DscrCurve) \in Int
              /\ ScoreCurve(n.dscr, DscrCurve) <= ScoreCurve(m.dscr, DscrCurve)
            BY <3>1, DscrRises, RisingCurve, RisingBounds
        <3>3. s.dscr = ScoreCurve(n.dscr, DscrCurve) /\ z.dscr = ScoreCurve(m.dscr, DscrCurve)
            BY <1>1, <1>4, <1>5, <2>2
        <3> QED BY <3>2, <3>3
    <2> QED BY <2>1, <2>2
<1>11. s.breakEven \in Int /\ z.breakEven \in Int /\ s.breakEven <= z.breakEven
    <2>1. /\ ScoreCurve(n.breakEven, BreakEvenCurve) \in Int /\ ScoreCurve(m.breakEven, BreakEvenCurve) \in Int
          /\ ScoreCurve(m.breakEven, BreakEvenCurve) >= ScoreCurve(n.breakEven, BreakEvenCurve)
        BY <1>2, BreakEvenFalls, FallingCurve, FallingBounds
    <2> QED BY <1>4, <1>5, <2>1
<1>12. s.vacancy \in Int /\ z.vacancy \in Int /\ s.vacancy <= z.vacancy
    <2>1. /\ ScoreCurve(n.maxVacancy, VacancyCurve) \in Int /\ ScoreCurve(m.maxVacancy, VacancyCurve) \in Int
          /\ ScoreCurve(n.maxVacancy, VacancyCurve) <= ScoreCurve(m.maxVacancy, VacancyCurve)
        BY <1>2, VacancyRises, RisingCurve, RisingBounds
    <2> QED BY <1>4, <1>5, <2>1
<1> QED BY <1>6, <1>7, <1>8, <1>9, <1>10, <1>11, <1>12 DEF s, z, n, m

\* The same weights on scores no lower.
LEMMA WeightsRise ==
    ASSUME NEW x \in Int, NEW y \in Int, NEW m \in Nat \ {0}, x <= y
    PROVE  x \div m \in Int /\ y \div m \in Int /\ x \div m <= y \div m
BY Quotient, QuotientGrows

\* Guardrails and pillars: a better deal meets no more guardrails.
LEMMA OverallRises ==
    ASSUME NEW d, NEW e, Improved(d, e), NEW f, FormShape(f)
    PROVE  Overall(d, f) <= Overall(e, f)
<1> DEFINE n == Metrics(d, f)
           m == Metrics(e, f)
           s == Scores(n)
           z == Scores(m)
           low == LowCashIn(d, n)
<1>1. /\ n.cash = m.cash /\ n.cash \in Int /\ n.debt = m.debt /\ n.debt \in Nat
      /\ n.cashflow \in Int /\ m.cashflow \in Int /\ n.cashflow <= m.cashflow
      /\ n.debt > 0 => n.dscr \in Int /\ m.dscr \in Int /\ n.dscr <= m.dscr
    BY ReturnsRise
<1>2. n.breakEven \in Int /\ m.breakEven \in Int /\ n.breakEven >= m.breakEven
    BY RisksFall
<1>3. /\ s.cap \in Int /\ z.cap \in Int /\ s.cap <= z.cap
      /\ s.coc \in Int /\ z.coc \in Int /\ s.coc <= z.coc
      /\ n.cash > 0 => s.payback \in Int /\ z.payback \in Int /\ s.payback <= z.payback
      /\ s.grm \in Int /\ z.grm \in Int /\ s.grm <= z.grm
      /\ s.dscr \in Int /\ z.dscr \in Int /\ s.dscr <= z.dscr
      /\ s.breakEven \in Int /\ z.breakEven \in Int /\ s.breakEven <= z.breakEven
      /\ s.vacancy \in Int /\ z.vacancy \in Int /\ s.vacancy <= z.vacancy
    BY ScoresRise
<1>4. d.price = e.price
    BY DEF Improved
<1> HIDE DEF n, m, s, z
<1>5. LowCashIn(e, m) = low
    BY <1>1, <1>4 DEF LowCashIn
<1>6. ~low => n.cash > 0
    BY <1>1 DEF LowCashIn
<1> HIDE DEF low
<1> DEFINE r1 == ReturnPillar(s, low)
           r2 == ReturnPillar(z, low)
           f1 == EfficiencyPillar(n, s, low)
           f2 == EfficiencyPillar(m, z, low)
           t1 == StabilityPillar(f, n, s)
           t2 == StabilityPillar(f, m, z)
           c1 == OverallCap(f, n, low)
           c2 == OverallCap(f, m, low)
<1>7. r1 \in Int /\ r2 \in Int /\ r1 <= r2
    <2> DEFINE x == s.cap * 8 + s.grm * 2
               y == z.cap * 8 + z.grm * 2
               u == s.cap * 6 + s.coc * 4
               v == z.cap * 6 + z.coc * 4
    <2>1. x \in Int /\ y \in Int /\ x <= y /\ u \in Int /\ v \in Int /\ u <= v
        BY <1>3
    <2>2. r1 = (IF low THEN x \div 10 ELSE u \div 10) /\ r2 = (IF low THEN y \div 10 ELSE v \div 10)
        BY DEF ReturnPillar
    <2> HIDE DEF x, y, u, v, r1, r2
    <2>3. /\ x \div 10 \in Int /\ y \div 10 \in Int /\ x \div 10 <= y \div 10
          /\ u \div 10 \in Int /\ v \div 10 \in Int /\ u \div 10 <= v \div 10
        BY <2>1, WeightsRise
    <2> QED BY <2>2, <2>3
<1>8. f1 \in Int /\ f2 \in Int /\ f1 <= f2
    <2>1. CASE low
        <3> DEFINE x == s.cap * 6 + s.grm * 4
                   y == z.cap * 6 + z.grm * 4
        <3>1. x \in Int /\ y \in Int /\ x <= y
            BY <1>3
        <3>2. f1 = x \div 10 /\ f2 = y \div 10
            BY <2>1 DEF EfficiencyPillar
        <3> HIDE DEF x, y, f1, f2
        <3>3. x \div 10 \in Int /\ y \div 10 \in Int /\ x \div 10 <= y \div 10
            BY <3>1, WeightsRise
        <3> QED BY <3>2, <3>3
    <2>2. CASE ~low
        <3> DEFINE x == s.payback * 7 + s.grm * 3
                   y == z.payback * 7 + z.grm * 3
                   p == x \div 10
                   q == y \div 10
        <3>1. x \in Int /\ y \in Int /\ x <= y
            BY <1>3, <1>6, <2>2
        <3>2. /\ f1 = IF n.cashflow < 0 THEN AtMost(p, 4000) ELSE p
              /\ f2 = IF m.cashflow < 0 THEN AtMost(q, 4000) ELSE q
            BY <2>2 DEF EfficiencyPillar
        <3> HIDE DEF x, y, f1, f2
        <3>3. p \in Int /\ q \in Int /\ p <= q
            BY <3>1, WeightsRise
        <3> HIDE DEF p, q
        <3> QED BY <1>1, <3>2, <3>3 DEF AtMost
    <2> QED BY <2>1, <2>2
<1>9. t1 \in Int /\ t2 \in Int /\ t1 <= t2
    <2> DEFINE x == s.dscr * 5 + s.breakEven * 3 + s.vacancy * 2
               y == z.dscr * 5 + z.breakEven * 3 + z.vacancy * 2
               p == x \div 10
               q == y \div 10
               k == IF f.debtRisk = 1 THEN 88 ELSE 82
    <2>1. x \in Int /\ y \in Int /\ x <= y
        BY <1>3
    <2>2. /\ t1 = IF n.debt <= 0 \/ f.debtRisk = 0 THEN p ELSE (p * k) \div 100
          /\ t2 = IF m.debt <= 0 \/ f.debtRisk = 0 THEN q ELSE (q * k) \div 100
        BY DEF StabilityPillar
    <2> HIDE DEF x, y, t1, t2
    <2>3. p \in Int /\ q \in Int /\ p <= q
        BY <2>1, WeightsRise
    <2> HIDE DEF p, q
    <2> DEFINE u == p * k
               v == q * k
    <2>4. u \in Int /\ v \in Int /\ u <= v
        BY <2>3
    <2> HIDE DEF u, v
    <2>5. u \div 100 \in Int /\ v \div 100 \in Int /\ u \div 100 <= v \div 100
        BY <2>4, WeightsRise
    <2>6. (p * k) \div 100 = u \div 100 /\ (q * k) \div 100 = v \div 100
        BY DEF u, v
    <2> HIDE DEF k
    <2> QED BY <1>1, <2>2, <2>3, <2>5, <2>6
<1>10. c1 \in Int /\ c2 \in Int /\ c1 <= c2
    <2> DEFINE a1 == IF n.debt > 0 /\ n.dscr < 10000 THEN 4500 ELSE 10000
               a2 == IF m.debt > 0 /\ m.dscr < 10000 THEN 4500 ELSE 10000
               b1 == IF n.breakEven > 10000 THEN 4000 ELSE 10000
               b2 == IF m.breakEven > 10000 THEN 4000 ELSE 10000
               l == IF low THEN 8500 ELSE 10000
               w1 == IF WeakHold(f, n) THEN 7000 ELSE 10000
               w2 == IF WeakHold(f, m) THEN 7000 ELSE 10000
    <2>1. a1 \in Int /\ a2 \in Int /\ a1 <= a2
        BY <1>1
    <2>2. b1 \in Int /\ b2 \in Int /\ b1 <= b2
        BY <1>2
    <2>3. WeakHold(f, m) => WeakHold(f, n)
        BY <1>1, <1>2 DEF WeakHold
    <2>4. w1 \in Int /\ w2 \in Int /\ w1 <= w2 /\ l \in Int
        BY <2>3
    <2>5. c1 = AtMost(AtMost(a1, b1), AtMost(l, w1)) /\ c2 = AtMost(AtMost(a2, b2), AtMost(l, w2))
        BY DEF OverallCap
    <2> HIDE DEF a1, a2, b1, b2, l, w1, w2, c1, c2
    <2> QED BY <2>1, <2>2, <2>4, <2>5 DEF AtMost
<1> DEFINE x == r1 * 35 + f1 * 20 + t1 * 45
           y == r2 * 35 + f2 * 20 + t2 * 45
<1>11. Overall(d, f) = AtMost(x \div 100, c1) /\ Overall(e, f) = AtMost(y \div 100, c2)
    <2>1. Overall(d, f) = AtMost(x \div 100, c1)
        BY DEF Overall, n, s, low
    <2>2. Overall(e, f) = AtMost((ReturnPillar(z, LowCashIn(e, m)) * 35
                                    + EfficiencyPillar(m, z, LowCashIn(e, m)) * 20
                                    + StabilityPillar(f, m, z) * 45) \div 100,
                                 OverallCap(f, m, LowCashIn(e, m)))
        BY DEF Overall, m, z
    <2> QED BY <1>5, <2>1, <2>2
<1> HIDE DEF r1, r2, f1, f2, t1, t2, c1, c2
<1>12. x \in Int /\ y \in Int /\ x <= y
    BY <1>7, <1>8, <1>9
<1> HIDE DEF x, y
<1>13. x \div 100 \in Int /\ y \div 100 \in Int /\ x \div 100 <= y \div 100
    BY <1>12, WeightsRise
<1> DEFINE p == x \div 100
           q == y \div 100
<1>14. p \in Int /\ q \in Int /\ p <= q
    BY <1>13
<1>15. Overall(d, f) = AtMost(p, c1) /\ Overall(e, f) = AtMost(q, c2)
    BY <1>11
<1> HIDE DEF p, q
<1> QED BY <1>10, <1>14, <1>15 DEF AtMost

-----------------------------------------------------------------------------
(* From the builder to the deal. *)

\* What the saves write are parts of builders.
Saving(q) == q.pc \in {"property", "acquisition", "expenses"}

SavesInv ==
    /\ builder \in Builders \cup {None}
    /\ \A r \in Requests : Saving(req[r]) => builder \in Builders /\ req[r].builder \in Builders

\* Some step changes one section of the builder by one of a builder.
LEMMA SectionOf ==
    ASSUME NEW b \in Builders, NEW c \in Builders
    PROVE  /\ [b EXCEPT !.rent = c.rent] \in Builders
           /\ [b EXCEPT !.acq = c.acq] \in Builders
           /\ [b EXCEPT !.charges = c.charges] \in Builders
BY DEF Builders

\* A request moves: the others are as they were.
LEMMA SavesMove ==
    ASSUME SavesInv, ReqInv, NEW r \in Requests, NEW q, Go(r, q),
           builder' = builder \/ (builder \in Builders /\ builder' \in Builders),
           Saving(q) => builder \in Builders /\ q.builder \in Builders
    PROVE  SavesInv'
<1>1. req' = [req EXCEPT ![r] = q] /\ req = [x \in Requests |-> req[x]]
    BY DEF Go, ReqInv
<1>2. ASSUME NEW x \in Requests, Saving(req'[x])
      PROVE  builder' \in Builders /\ req'[x].builder \in Builders
    <2>1. CASE x = r
        <3>1. req'[x] = q
            BY <1>1, <2>1
        <3> QED BY <1>2, <3>1
    <2>2. CASE x # r
        <3>1. req'[x] = req[x]
            BY <1>1, <2>2
        <3>2. builder \in Builders /\ req[x].builder \in Builders
            BY <1>2, <3>1 DEF SavesInv
        <3> QED BY <3>1, <3>2
    <2> QED BY <2>1, <2>2
<1>3. builder' \in Builders \cup {None}
    BY DEF SavesInv
<1> QED BY <1>2, <1>3 DEF SavesInv, Saving

LEMMA SavesStep ==
    ASSUME IInv, SavesInv, [Next]_vars
    PROVE  SavesInv' /\ (builder' = builder \/ builder' \in Builders)
<1>1. CASE UNCHANGED vars
    BY <1>1 DEF vars, SavesInv, Saving
<1> SUFFICES ASSUME NEW r \in Requests,
                    \/ \E b \in Builders : AskSave(r, b)
                    \/ SaveProperty(r) \/ SaveAcquisition(r) \/ SaveExpenses(r)
                    \/ \E f \in Forms : AskPage(r, f)
                    \/ ReadBuilder(r) \/ UpsertParams(r) \/ Answer(r)
                    \/ AskComparison(r) \/ Compare(r)
                    \/ RequestFails(r)
             PROVE  SavesInv' /\ (builder' = builder \/ builder' \in Builders)
    BY <1>1 DEF Next
<1>2. ReqInv /\ ~Saving(Idle)
    BY DEF IInv, Saving, Idle
<1>3. PICK q : q = req[r]
    OBVIOUS
<1>4. IsRequest(q) /\ (Saving(q) => builder \in Builders /\ q.builder \in Builders)
    BY <1>2, <1>3 DEF ReqInv, RequestOK, SavesInv
<1>5. ASSUME NEW b \in Builders, AskSave(r, b)
      PROVE  SavesInv' /\ builder' = builder
    <2>1. PICK new : new = [Idle EXCEPT !.pc = "property", !.builder = b]
        OBVIOUS
    <2>2. new.builder = b
        BY <2>1 DEF Idle
    <2>3. builder \in Builders /\ builder' = builder /\ Go(r, new)
        BY <1>5, <2>1 DEF AskSave, Ask, SavesInv
    <2> QED BY <1>2, <2>2, <2>3, SavesMove
<1>6. CASE SaveProperty(r)
    <2>1. PICK new : new = [q EXCEPT !.pc = "acquisition"]
        OBVIOUS
    <2>2. new.builder = q.builder
        BY <1>4, <2>1, NextRecord
    <2>3. Saving(q) /\ builder' = [builder EXCEPT !.rent = q.builder.rent] /\ Go(r, new)
        BY <1>3, <1>6, <2>1 DEF SaveProperty, Saving
    <2>4. builder \in Builders /\ q.builder \in Builders /\ builder' \in Builders
        BY <1>4, <2>3, SectionOf
    <2> QED BY <1>2, <2>2, <2>3, <2>4, SavesMove
<1>7. CASE SaveAcquisition(r)
    <2>1. PICK new : new = [q EXCEPT !.pc = "expenses"]
        OBVIOUS
    <2>2. new.builder = q.builder
        BY <1>4, <2>1, NextRecord
    <2>3. Saving(q) /\ builder' = [builder EXCEPT !.acq = q.builder.acq] /\ Go(r, new)
        BY <1>3, <1>7, <2>1 DEF SaveAcquisition, Saving
    <2>4. builder \in Builders /\ q.builder \in Builders /\ builder' \in Builders
        BY <1>4, <2>3, SectionOf
    <2> QED BY <1>2, <2>2, <2>3, <2>4, SavesMove
<1>8. CASE SaveExpenses(r)
    <2>1. Saving(q) /\ builder' = [builder EXCEPT !.charges = q.builder.charges] /\ Go(r, Idle)
        BY <1>3, <1>8 DEF SaveExpenses, Saving, Finish
    <2>2. builder \in Builders /\ builder' \in Builders
        BY <1>4, <2>1, SectionOf
    <2> QED BY <1>2, <2>1, <2>2, SavesMove
<1>9. ASSUME NEW f \in Forms, AskPage(r, f)
      PROVE  SavesInv' /\ builder' = builder
    <2>1. PICK new : new = [Idle EXCEPT !.pc = "builder", !.form = f, !.params = params]
        OBVIOUS
    <2>2. ~Saving(new)
        BY <2>1 DEF Idle, Saving
    <2>3. builder' = builder /\ Go(r, new)
        BY <1>9, <2>1 DEF AskPage, Ask
    <2> QED BY <1>2, <2>2, <2>3, SavesMove
<1>10. CASE ReadBuilder(r)
    <2>1. PICK new : new = [q EXCEPT !.pc = "params", !.builder = builder]
        OBVIOUS
    <2>2. new.pc = "params"
        BY <1>4, <2>1 DEF IsRequest
    <2>3. builder' = builder /\ (Go(r, new) \/ Go(r, Idle))
        BY <1>3, <1>10, <2>1 DEF ReadBuilder, Finish
    <2> QED BY <1>2, <2>2, <2>3, SavesMove DEF Saving
<1>11. CASE UpsertParams(r)
    <2>1. PICK new : new = [q EXCEPT !.pc = "answer"]
        OBVIOUS
    <2>2. new.pc = "answer"
        BY <1>4, <2>1, NextRecord
    <2>3. builder' = builder /\ (Go(r, new) \/ Go(r, Idle))
        BY <1>3, <1>11, <2>1 DEF UpsertParams, Finish
    <2> QED BY <1>2, <2>2, <2>3, SavesMove DEF Saving
<1>12. CASE AskComparison(r)
    <2>1. PICK new : new = [Idle EXCEPT !.pc = "compare", !.builder = builder,
                                        !.params = params, !.after = shown]
        OBVIOUS
    <2>2. ~Saving(new)
        BY <2>1 DEF Idle, Saving
    <2>3. builder' = builder /\ (Go(r, new) \/ Go(r, Idle))
        BY <1>12, <2>1 DEF AskComparison, Ask
    <2> QED BY <1>2, <2>2, <2>3, SavesMove
<1>13. CASE Answer(r) \/ Compare(r) \/ RequestFails(r)
    <2>1. builder' = builder /\ Go(r, Idle)
        BY <1>13 DEF Answer, Compare, RequestFails, Finish
    <2> QED BY <1>2, <2>1, SavesMove
<1> QED BY <1>5, <1>6, <1>7, <1>8, <1>9, <1>10, <1>11, <1>12, <1>13

LEMMA SavesSafe == Spec => [](IInv /\ SavesInv)
<1>1. Init => IInv /\ SavesInv
    <2> SUFFICES ASSUME Init PROVE SavesInv
        BY InitSafe
    <2>1. \A r \in Requests : ~Saving(req[r])
        BY DEF Init, Idle, Saving
    <2> QED BY <2>1 DEF Init, SavesInv
<1>2. IInv /\ SavesInv /\ [Next]_vars => (IInv /\ SavesInv)'
    BY NextSafe, SavesStep
<1> QED BY <1>1, <1>2, PTL DEF Spec

\* The deals of a builder with a rent and of a better one.
LEMMA BetterImproves ==
    ASSUME NEW b \in Builders, NEW c \in Builders, b.rent > 0,
           c.acq = b.acq, c.rent >= b.rent, c.charges <= b.charges
    PROVE  Improved(Deal(b), Deal(c))
<1>1. b.rent \in Nat \ {0} /\ c.rent \in Nat \ {0} /\ b.charges \in Nat /\ c.charges \in Nat
    <2>1. b.rent \in Rents /\ c.rent \in Rents /\ b.charges \in Charges /\ c.charges \in Charges
        BY DEF Builders
    <2>2. b.rent \in Nat /\ c.rent \in Nat /\ b.charges \in Nat /\ c.charges \in Nat
        BY <2>1, ReportsAssumption
    <2> QED BY <2>2
<1>2. b.acq \in [price: Nat, costs: Nat, credits: Nat, rate: Nat, term: Nat \ {0}]
    BY ReportsAssumption DEF Builders
<1>3. DealShape(Deal(b))
    BY <1>1, <1>2 DEF Deal, DealShape
<1>4. DealShape(Deal(c))
    BY <1>1, <1>2 DEF Deal, DealShape
<1>5. /\ Deal(b).price = Deal(c).price /\ Deal(b).costs = Deal(c).costs
      /\ Deal(b).credits = Deal(c).credits /\ Deal(b).rate = Deal(c).rate
      /\ Deal(b).term = Deal(c).term
    BY DEF Deal
<1>6. Deal(b).rent <= Deal(c).rent /\ Deal(c).charges <= Deal(b).charges
    BY <1>1 DEF Deal
<1> QED BY <1>3, <1>4, <1>5, <1>6 DEF Improved

LEMMA GradesRise ==
    ASSUME \A f \in Forms : f.management + f.maintenance <= 100,
           SavesInv, builder' = builder \/ builder' \in Builders, BetterDeal,
           NEW f \in Forms
    PROVE  Grade[builder'][f] >= Grade[builder][f]
<1>1. builder \in Builders /\ builder' \in Builders
    BY DEF SavesInv, BetterDeal
<1>2. FormShape(f)
    <2>1. f \in Pages
        BY ReportsAssumption
    <2> QED BY <2>1 DEF Pages, FormShape
<1>3. PICK b \in Builders : b = builder
    BY <1>1
<1>4. PICK c \in Builders : c = builder'
    BY <1>1
<1>5. Improved(Deal(b), Deal(c))
    BY <1>3, <1>4, BetterImproves DEF BetterDeal
<1>6. Overall(Deal(b), f) <= Overall(Deal(c), f)
    BY <1>2, <1>5, OverallRises
<1>7. Grade[b][f] = Overall(Deal(b), f) /\ Grade[c][f] = Overall(Deal(c), f)
    BY DEF Grade
<1> QED BY <1>3, <1>4, <1>6, <1>7

\* The grade of a deal follows the deal: a save that raises a rent or lowers
\* the charges lowers no score of computeMetrics and of the curves, pillars and
\* guardrails behind it, for every loan, rate and term and every form, as long
\* as the two fees together leave something of the income (each is at most 100
\* by the form, their sum is not: more rent is then more loss).
THEOREM GradeSafe ==
    ASSUME \A f \in Forms : f.management + f.maintenance <= 100
    PROVE  Spec => GradeFollows
<1>1. SavesInv /\ IInv /\ [Next]_vars
          => [BetterDeal => \A f \in Forms : Grade[builder'][f] >= Grade[builder][f]]_builder
    BY SavesStep, GradesRise
<1> QED BY <1>1, SavesSafe, PTL DEF Spec, GradeFollows

-----------------------------------------------------------------------------
(* The sum of the first of five years. *)

Years == 1 .. 5

\* What a year adds to the sum over some years.
Share(f, x, y) == IF y \in x THEN f[y] ELSE 0

OfYears(f, x) == Share(f, x, 1) + Share(f, x, 2) + Share(f, x, 3) + Share(f, x, 4) + Share(f, x, 5)

LEMMA SharesAdd ==
    ASSUME NEW f, \A y \in Years : f[y] \in Int,
           NEW x \in SUBSET Years, NEW c \in x
    PROVE  OfYears(f, x) \in Int /\ OfYears(f, x) = f[c] + OfYears(f, x \ {c})
<1> DEFINE rest == x \ {c}
<1>1. \A y \in Years : Share(f, x, y) \in Int /\ Share(f, rest, y) \in Int
    BY DEF Share
<1>2. \A y \in Years : y # c => Share(f, x, y) = Share(f, rest, y)
    BY DEF Share
<1>3. Share(f, x, c) = f[c] /\ Share(f, rest, c) = 0
    BY DEF Share
<1>4. c \in Years /\ f[c] \in Int /\ 1 \in Years /\ 2 \in Years /\ 3 \in Years /\ 4 \in Years /\ 5 \in Years
    BY DEF Years
<1>5. c = 1 \/ c = 2 \/ c = 3 \/ c = 4 \/ c = 5
    BY <1>4 DEF Years
<1> HIDE DEF rest, Years
<1>6. OfYears(f, x) \in Int
    BY <1>1, <1>4 DEF OfYears
<1>7. OfYears(f, x) = f[c] + OfYears(f, rest)
    <2>1. CASE c = 1
        BY <1>1, <1>2, <1>3, <1>4, <2>1 DEF OfYears
    <2>2. CASE c = 2
        BY <1>1, <1>2, <1>3, <1>4, <2>2 DEF OfYears
    <2>3. CASE c = 3
        BY <1>1, <1>2, <1>3, <1>4, <2>3 DEF OfYears
    <2>4. CASE c = 4
        BY <1>1, <1>2, <1>3, <1>4, <2>4 DEF OfYears
    <2>5. CASE c = 5
        BY <1>1, <1>2, <1>3, <1>4, <2>5 DEF OfYears
    <2> QED BY <1>5, <2>1, <2>2, <2>3, <2>4, <2>5
<1> QED BY <1>6, <1>7 DEF rest

\* The fold of SumFunctionOnSet over a set S of years.
Folds(F, f, S) ==
    F = [x \in SUBSET S |-> IF x = {} THEN 0
                            ELSE f[CHOOSE y \in x : TRUE] + F[x \ {CHOOSE y \in x : TRUE}]]

LEMMA FoldIs ==
    ASSUME NEW f, NEW S
    PROVE  SumFunctionOnSet(f, S) = (CHOOSE F : Folds(F, f, S))[S]
BY DEF SumFunctionOnSet, FoldFunctionOnSet, MapThenFoldSet, Folds

LEMMA FoldsAre ==
    ASSUME NEW f, NEW S \in SUBSET Years, \A y \in Years : f[y] \in Int, NEW F, Folds(F, f, S)
    PROVE  \A x \in SUBSET S : F[x] = OfYears(f, x)
<1> DEFINE Right(n) == \A x \in SUBSET S : Cardinality(x) = n => F[x] = OfYears(f, x)
           T == {n \in Nat : Right(n)}
<1>1. \A x \in SUBSET S : F[x] = IF x = {} THEN 0
                                 ELSE f[CHOOSE y \in x : TRUE] + F[x \ {CHOOSE y \in x : TRUE}]
    BY DEF Folds
<1>2. \A x \in SUBSET S : IsFiniteSet(x)
    <2>1. IsFiniteSet(Years)
        <3>1. 1 \in Int /\ 5 \in Int
            OBVIOUS
        <3> QED BY <3>1, FS_Interval, Zenon DEF Years
    <2>2. \A x \in SUBSET S : x \in SUBSET Years
        OBVIOUS
    <2> HIDE DEF Years
    <2> QED BY <2>1, <2>2, FS_Subset
<1>3. 0 \in T
    <2> SUFFICES ASSUME NEW x \in SUBSET S, Cardinality(x) = 0 PROVE F[x] = OfYears(f, x)
        OBVIOUS
    <2>1. x = {}
        BY <1>2, FS_EmptySet
    <2>2. F[x] = 0
        BY <1>1, <2>1
    <2>3. OfYears(f, x) = 0
        BY <2>1 DEF OfYears, Share
    <2> QED BY <2>2, <2>3
<1>4. ASSUME NEW n \in T, n \in Nat
      PROVE  n + 1 \in T
    <2> SUFFICES ASSUME NEW x \in SUBSET S, Cardinality(x) = n + 1 PROVE F[x] = OfYears(f, x)
        BY <1>4
    <2>1. x # {}
        BY <1>2, FS_EmptySet
    <2> DEFINE c == CHOOSE y \in x : TRUE
               rest == x \ {c}
    <2>2. c \in x
        BY <2>1
    <2>3. F[x] = f[c] + F[rest]
        BY <1>1, <2>1
    <2> HIDE DEF c
    <2>4. rest \in SUBSET S /\ Cardinality(rest) = n
        <3>1. Cardinality(rest) = Cardinality(x) - 1
            BY <1>2, <2>2, FS_RemoveElement
        <3> HIDE DEF rest
        <3>2. rest \in SUBSET S
            BY DEF rest
        <3> QED BY <1>4, <3>1, <3>2
    <2>5. F[rest] = OfYears(f, rest)
        <3>1. Right(n)
            BY <1>4
        <3> HIDE DEF rest
        <3> QED BY <2>4, <3>1
    <2>6. x \in SUBSET Years
        OBVIOUS
    <2>7. OfYears(f, x) = f[c] + OfYears(f, rest)
        BY <2>2, <2>6, SharesAdd
    <2> QED BY <2>3, <2>5, <2>7
<1>5. \A n \in Nat : n \in T
    <2> HIDE DEF T
    <2> QED BY <1>3, <1>4, Induction
<1>6. ASSUME NEW x \in SUBSET S PROVE F[x] = OfYears(f, x)
    <2>1. Cardinality(x) \in Nat
        BY <1>2, FS_CardinalityType
    <2>2. Right(Cardinality(x))
        BY <1>5, <2>1
    <2> QED BY <2>2
<1> QED BY <1>6

LEMMA FoldsRun ==
    ASSUME NEW f, NEW S \in SUBSET Years, \A y \in Years : f[y] \in Int
    PROVE  \E F : Folds(F, f, S)
<1> DEFINE F == [x \in SUBSET S |-> OfYears(f, x)]
           G == [x \in SUBSET S |-> IF x = {} THEN 0
                                    ELSE f[CHOOSE y \in x : TRUE] + F[x \ {CHOOSE y \in x : TRUE}]]
<1>1. ASSUME NEW x \in SUBSET S PROVE F[x] = G[x]
    <2>1. CASE x = {}
        BY <2>1 DEF OfYears, Share
    <2>2. CASE x # {}
        <3> DEFINE c == CHOOSE y \in x : TRUE
        <3>1. c \in x
            BY <2>2
        <3>2. F[x] = OfYears(f, x) /\ F[x \ {c}] = OfYears(f, x \ {c}) /\ G[x] = f[c] + F[x \ {c}]
            BY <2>2
        <3> HIDE DEF c, F, G
        <3>3. x \in SUBSET Years
            OBVIOUS
        <3>4. OfYears(f, x) = f[c] + OfYears(f, x \ {c})
            BY <3>1, <3>3, SharesAdd
        <3> QED BY <3>2, <3>4
    <2> QED BY <2>1, <2>2
<1>2. F = G
    <2>1. F = [x \in SUBSET S |-> F[x]] /\ G = [x \in SUBSET S |-> G[x]]
        OBVIOUS
    <2> HIDE DEF F, G
    <2> QED BY <1>1, <2>1
<1> HIDE DEF F
<1> QED BY <1>2 DEF Folds

\* The sum grows by a year at a time.
LEMMA FirstYears ==
    ASSUME NEW f, \A y \in Years : f[y] \in Int
    PROVE  /\ First(f, 0) = 0
           /\ \A n \in Years : First(f, n) \in Int /\ First(f, n) = First(f, n - 1) + f[n]
<1>1. ASSUME NEW n \in 0 .. 5 PROVE First(f, n) = OfYears(f, 1 .. n)
    <2> DEFINE S == 1 .. n
               F == CHOOSE F : Folds(F, f, S)
    <2>1. S \in SUBSET Years
        BY DEF Years
    <2> HIDE DEF S
    <2>2. Folds(F, f, S)
        BY <2>1, FoldsRun
    <2> HIDE DEF F
    <2>3. F[S] = OfYears(f, S)
        BY <2>1, <2>2, FoldsAre
    <2>4. SumFunctionOnSet(f, S) = F[S]
        BY FoldIs DEF F
    <2> QED BY <2>3, <2>4 DEF First, S
<1>2. First(f, 0) = 0
    <2>1. OfYears(f, 1 .. 0) = 0
        BY DEF OfYears, Share
    <2> QED BY <1>1, <2>1
<1>3. ASSUME NEW n \in Years
      PROVE  First(f, n) \in Int /\ First(f, n) = First(f, n - 1) + f[n]
    <2>1. n \in 0 .. 5 /\ n - 1 \in 0 .. 5 /\ n \in 1 .. n /\ 1 .. n \in SUBSET Years
        BY DEF Years
    <2>2. (1 .. n) \ {n} = 1 .. n - 1
        BY <2>1
    <2> DEFINE x == 1 .. n
               z == x \ {n}
    <2>3. OfYears(f, x) \in Int /\ OfYears(f, x) = f[n] + OfYears(f, z)
        <3> HIDE DEF x
        <3>1. x \in SUBSET Years /\ n \in x
            BY <2>1 DEF x
        <3> QED BY <3>1, SharesAdd
    <2>4. First(f, n) = OfYears(f, x) /\ First(f, n - 1) = OfYears(f, z)
        BY <1>1, <2>1, <2>2
    <2>5. OfYears(f, z) \in Int
        <3>1. CASE n = 1
            <4>1. z = {}
                BY <3>1
            <4> HIDE DEF z
            <4> QED BY <4>1 DEF OfYears, Share
        <3>2. CASE n # 1
            <4>1. n - 1 \in z /\ z \in SUBSET Years
                BY <2>1, <3>2 DEF Years
            <4> HIDE DEF z
            <4> QED BY <4>1, SharesAdd
        <3> QED BY <3>1, <3>2
    <2>6. f[n] \in Int
        OBVIOUS
    <2> HIDE DEF x, z
    <2> QED BY <2>3, <2>4, <2>5, <2>6
<1> QED BY <1>2, <1>3

-----------------------------------------------------------------------------
(* The loops of a projection. *)

\* A loop over numbers stays within them.
LEMMA NumberLoop ==
    ASSUME NEW first \in Int, NEW step \in [Int -> Int]
    PROVE  \E F \in [Nat -> Int] : F = [k \in Nat |-> IF k = 0 THEN first ELSE step[F[k - 1]]]
<1> DEFINE pick == [p \in Nat \X Int |-> step[p[2]]]
<1>1. PICK F : Loop(F, Nat, first, pick)
    <2> HIDE DEF pick
    <2> QED BY LoopRuns
<1>2. F[0] = first /\ \A k \in Nat : F[k + 1] = pick[<<k + 1, F[k]>>]
    <2> HIDE DEF pick
    <2> QED BY <1>1, LoopSteps
<1>3. \A k \in Nat, v \in Int : pick[<<k, v>>] = step[v]
    OBVIOUS
<1>4. F = [k \in Nat |-> F[k]]
    <2> HIDE DEF pick
    <2> QED BY <1>1 DEF Loop
<1> HIDE DEF pick
<1> DEFINE S == {k \in Nat : F[k] \in Int}
<1>5. 0 \in S
    BY <1>2
<1>6. ASSUME NEW k \in S, k \in Nat
      PROVE  k + 1 \in S
    <2>1. k + 1 \in Nat /\ F[k] \in Int
        OBVIOUS
    <2>2. F[k + 1] = step[F[k]]
        BY <1>2, <1>3, <2>1
    <2> QED BY <2>1, <2>2
<1>7. \A k \in Nat : k \in S
    <2> HIDE DEF S
    <2> QED BY <1>5, <1>6, Induction
<1>8. \A k \in Nat : F[k] \in Int
    BY <1>7
<1> DEFINE G == [k \in Nat |-> IF k = 0 THEN first ELSE step[F[k - 1]]]
<1>9. ASSUME NEW k \in Nat PROVE F[k] = G[k]
    <2>1. CASE k = 0
        BY <1>2, <2>1
    <2>2. CASE k # 0
        <3>1. k - 1 \in Nat /\ (k - 1) + 1 = k
            BY <2>2
        <3>2. F[k] = pick[<<k, F[k - 1]>>] /\ F[k - 1] \in Int
            BY <1>2, <1>8, <3>1
        <3>3. F[k] = step[F[k - 1]]
            BY <1>3, <3>2
        <3>4. G[k] = step[F[k - 1]]
            BY <2>2
        <3> QED BY <3>3, <3>4
    <2> QED BY <2>1, <2>2
<1>10. F = G
    <2>1. G = [k \in Nat |-> G[k]]
        OBVIOUS
    <2> HIDE DEF G
    <2> QED BY <1>4, <1>9, <2>1
<1>11. F \in [Nat -> Int]
    BY <1>4, <1>8
<1> QED BY <1>10, <1>11

\* What grows by a percentage, year by year.
GrownTable(g, amount, percent) ==
    g = [k \in Nat |-> IF k = 0 THEN amount ELSE (g[k - 1] * (100 + percent)) \div 100]

LEMMA GrownIs ==
    ASSUME NEW amount \in Int, NEW percent \in Nat
    PROVE  /\ Grown(amount, percent, 0) = amount
           /\ \A n \in Nat : /\ Grown(amount, percent, n) \in Int
                             /\ Grown(amount, percent, n + 1)
                                    = (Grown(amount, percent, n) * (100 + percent)) \div 100
<1> DEFINE step == [v \in Int |-> (v * (100 + percent)) \div 100]
<1>1. step \in [Int -> Int]
    <2>1. \A v \in Int : v * (100 + percent) \in Int
        OBVIOUS
    <2>2. \A v \in Int : (v * (100 + percent)) \div 100 \in Int
        BY <2>1, Quotient
    <2> QED BY <2>2
<1>2. PICK F \in [Nat -> Int] : F = [k \in Nat |-> IF k = 0 THEN amount ELSE step[F[k - 1]]]
    <2> HIDE DEF step
    <2> QED BY <1>1, NumberLoop
<1>3. \A k \in Nat : k # 0 => F[k - 1] \in Int
    OBVIOUS
<1>4. \A k \in Nat : k # 0 => step[F[k - 1]] = (F[k - 1] * (100 + percent)) \div 100
    BY <1>3
<1>5. GrownTable(F, amount, percent)
    <2> HIDE DEF step
    <2> QED BY <1>2, <1>4 DEF GrownTable
<1> DEFINE g == CHOOSE g : GrownTable(g, amount, percent)
<1>6. GrownTable(g, amount, percent)
    BY <1>5
<1>7. \A n \in Nat : Grown(amount, percent, n) = g[n]
    BY DEF Grown, GrownTable
<1> HIDE DEF g
<1>8. \A k \in Nat : g[k] = IF k = 0 THEN amount ELSE (g[k - 1] * (100 + percent)) \div 100
    BY <1>6 DEF GrownTable
<1> DEFINE S == {k \in Nat : g[k] \in Int}
<1>9. g[0] = amount /\ \A k \in Nat : g[k + 1] = (g[k] * (100 + percent)) \div 100
    <2>1. \A k \in Nat : k + 1 \in Nat /\ k + 1 # 0 /\ (k + 1) - 1 = k
        OBVIOUS
    <2> QED BY <1>8, <2>1
<1>10. 0 \in S
    BY <1>9
<1>11. ASSUME NEW k \in S, k \in Nat
       PROVE  k + 1 \in S
    <2> DEFINE v == g[k] * (100 + percent)
    <2>1. v \in Int
        OBVIOUS
    <2>2. g[k + 1] = v \div 100
        BY <1>9
    <2> HIDE DEF v
    <2>3. g[k + 1] \in Int
        BY <2>1, <2>2, Quotient
    <2> QED BY <2>3
<1>12. \A k \in Nat : k \in S
    <2> HIDE DEF S
    <2> QED BY <1>10, <1>11, Induction
<1>13. \A k \in Nat : g[k] \in Int /\ k + 1 \in Nat
    BY <1>12
<1>14. \A n \in Nat : Grown(amount, percent, n) \in Int
    BY <1>7, <1>13
<1>15. \A n \in Nat : Grown(amount, percent, n + 1) = (Grown(amount, percent, n) * (100 + percent)) \div 100
    BY <1>7, <1>9, <1>13
<1>16. Grown(amount, percent, 0) = amount
    BY <1>7, <1>9
<1> QED BY <1>14, <1>15, <1>16

\* The balance of a loan, month by month (computeLoanBalance).
BalanceTable(b, loan, payment, rate) ==
    b = [n \in Nat |->
            IF n = 0
            THEN loan
            ELSE LET last == b[n - 1] IN last - (payment - Interest(last, rate))]

LEMMA BalanceRuns ==
    ASSUME NEW loan \in Int, NEW payment \in Int, NEW rate \in Nat
    PROVE  \E b : BalanceTable(b, loan, payment, rate)
<1> DEFINE step == [v \in Int |-> v - (payment - Interest(v, rate))]
<1>1. step \in [Int -> Int]
    <2>1. \A v \in Int : v * rate \in Int
        OBVIOUS
    <2>2. \A v \in Int : Interest(v, rate) \in Int
        BY <2>1, Quotient DEF Interest
    <2> QED BY <2>2
<1>2. PICK F \in [Nat -> Int] : F = [k \in Nat |-> IF k = 0 THEN loan ELSE step[F[k - 1]]]
    <2> HIDE DEF step
    <2> QED BY <1>1, NumberLoop
<1>3. \A k \in Nat : k # 0 => F[k - 1] \in Int
    OBVIOUS
<1>4. \A k \in Nat : k # 0 => step[F[k - 1]] = F[k - 1] - (payment - Interest(F[k - 1], rate))
    BY <1>3
<1>5. BalanceTable(F, loan, payment, rate)
    <2> HIDE DEF step
    <2> QED BY <1>2, <1>4 DEF BalanceTable
<1> QED BY <1>5

BalanceWalk(b, loan, payment, rate) ==
    /\ b[0] = loan
    /\ \A k \in Nat : /\ b[k] \in Int /\ Interest(b[k], rate) \in Int
                      /\ b[k + 1] = b[k] - (payment - Interest(b[k], rate))

LEMMA BalanceIs ==
    ASSUME NEW loan \in Int, NEW payment \in Int, NEW rate \in Nat, NEW b,
           BalanceTable(b, loan, payment, rate)
    PROVE  BalanceWalk(b, loan, payment, rate)
<1>1. \A k \in Nat : b[k] = IF k = 0 THEN loan ELSE b[k - 1] - (payment - Interest(b[k - 1], rate))
    BY DEF BalanceTable
<1>2. b[0] = loan /\ \A k \in Nat : b[k + 1] = b[k] - (payment - Interest(b[k], rate))
    <2>1. \A k \in Nat : k + 1 \in Nat /\ k + 1 # 0 /\ (k + 1) - 1 = k
        OBVIOUS
    <2> QED BY <1>1, <2>1
<1>3. \A v \in Int : Interest(v, rate) \in Int
    <2>1. \A v \in Int : v * rate \in Int
        OBVIOUS
    <2> QED BY <2>1, Quotient DEF Interest
<1> DEFINE S == {k \in Nat : b[k] \in Int}
<1>4. 0 \in S
    BY <1>2
<1>5. ASSUME NEW k \in S, k \in Nat
      PROVE  k + 1 \in S
    <2> DEFINE i == Interest(b[k], rate)
    <2>1. b[k] \in Int /\ i \in Int
        BY <1>3
    <2>2. b[k + 1] = b[k] - (payment - i)
        BY <1>2
    <2> HIDE DEF i
    <2> QED BY <2>1, <2>2
<1>6. \A k \in Nat : k \in S
    <2> HIDE DEF S
    <2> QED BY <1>4, <1>5, Induction
<1>7. \A k \in Nat : b[k] \in Int
    BY <1>6
<1> QED BY <1>2, <1>3, <1>7 DEF BalanceWalk

\* The principal paid back so far (computeCumPrinc).
PaidTable(w, loan, payment, rate) ==
    w = [n \in Nat |->
            IF n = 0
            THEN [balance |-> loan, paid |-> 0]
            ELSE LET last == w[n - 1]
                     principal == payment - Interest(last.balance, rate)
                 IN  [balance |-> last.balance - principal, paid |-> last.paid + principal]]

LEMMA PaidRuns ==
    ASSUME NEW loan \in Int, NEW payment \in Int, NEW rate \in Nat, NEW b,
           BalanceWalk(b, loan, payment, rate)
    PROVE  \E w : PaidTable(w, loan, payment, rate)
<1>1. /\ b[0] = loan
      /\ \A k \in Nat : /\ b[k] \in Int /\ Interest(b[k], rate) \in Int
                        /\ b[k + 1] = b[k] - (payment - Interest(b[k], rate))
    BY DEF BalanceWalk
<1> DEFINE w == [n \in Nat |-> [balance |-> b[n], paid |-> loan - b[n]]]
           v == [n \in Nat |->
                   IF n = 0
                   THEN [balance |-> loan, paid |-> 0]
                   ELSE LET last == w[n - 1]
                            principal == payment - Interest(last.balance, rate)
                        IN  [balance |-> last.balance - principal, paid |-> last.paid + principal]]
<1>2. ASSUME NEW n \in Nat PROVE w[n] = v[n]
    <2>1. CASE n = 0
        BY <1>1, <2>1
    <2>2. CASE n # 0
        <3>1. n - 1 \in Nat /\ (n - 1) + 1 = n
            BY <2>2
        <3> DEFINE last == b[n - 1]
                   principal == payment - Interest(last, rate)
        <3>2. last \in Int /\ principal \in Int /\ b[n] = last - principal
            BY <1>1, <3>1
        <3>3. w[n - 1].balance = last /\ w[n - 1].paid = loan - last
            BY <3>1
        <3>4. v[n] = [balance |-> last - principal, paid |-> (loan - last) + principal]
            <4> HIDE DEF w
            <4> QED BY <2>2, <3>3
        <3>5. w[n] = [balance |-> b[n], paid |-> loan - b[n]]
            OBVIOUS
        <3> HIDE DEF w, v, last, principal
        <3>6. (loan - last) + principal = loan - b[n]
            BY <3>2
        <3> QED BY <3>2, <3>4, <3>5, <3>6
    <2> QED BY <2>1, <2>2
<1>3. w = v
    <2>1. w = [n \in Nat |-> w[n]] /\ v = [n \in Nat |-> v[n]]
        OBVIOUS
    <2> HIDE DEF w, v
    <2> QED BY <1>2, <2>1
<1> HIDE DEF w
<1> QED BY <1>3 DEF PaidTable

\* What is paid back is what the balance has lost.
LEMMA PaidIs ==
    ASSUME NEW loan \in Int, NEW payment \in Int, NEW rate \in Nat, NEW b,
           BalanceWalk(b, loan, payment, rate), NEW w, PaidTable(w, loan, payment, rate)
    PROVE  \A n \in Nat : w[n].paid = loan - b[n]
<1>1. /\ b[0] = loan
      /\ \A k \in Nat : /\ b[k] \in Int /\ Interest(b[k], rate) \in Int
                        /\ b[k + 1] = b[k] - (payment - Interest(b[k], rate))
    BY DEF BalanceWalk
<1>2. w[0] = [balance |-> loan, paid |-> 0]
    BY DEF PaidTable
<1>3. ASSUME NEW k \in Nat
      PROVE  LET principal == payment - Interest(w[k].balance, rate)
             IN  w[k + 1] = [balance |-> w[k].balance - principal, paid |-> w[k].paid + principal]
    <2>1. k + 1 \in Nat /\ k + 1 # 0 /\ (k + 1) - 1 = k
        OBVIOUS
    <2> QED BY <2>1 DEF PaidTable
<1> DEFINE S == {k \in Nat : w[k].balance = b[k] /\ w[k].paid = loan - b[k]}
<1>4. 0 \in S
    BY <1>1, <1>2
<1>5. ASSUME NEW k \in S, k \in Nat
      PROVE  k + 1 \in S
    <2> DEFINE i == Interest(b[k], rate)
    <2>1. w[k].balance = b[k] /\ w[k].paid = loan - b[k]
        OBVIOUS
    <2>2. b[k] \in Int /\ i \in Int /\ b[k + 1] = b[k] - (payment - i) /\ b[k + 1] \in Int
        BY <1>1
    <2>3. w[k + 1] = [balance |-> b[k] - (payment - i), paid |-> loan - b[k] + (payment - i)]
        BY <1>3, <2>1
    <2> HIDE DEF i
    <2>4. w[k + 1].balance = b[k] - (payment - i) /\ w[k + 1].paid = loan - b[k] + (payment - i)
        BY <2>3
    <2>5. loan - b[k] + (payment - i) = loan - b[k + 1]
        BY <2>2
    <2> QED BY <2>2, <2>4, <2>5
<1>6. \A k \in Nat : k \in S
    <2> HIDE DEF S
    <2> QED BY <1>4, <1>5, Induction
<1> QED BY <1>6

\* The interest paid since a month (computeYearlyInterestPaid).
InterestTable(w, loan, payment, rate, year) ==
    w = [n \in Nat |->
            IF n = 0
            THEN [balance |-> loan, interest |-> 0]
            ELSE LET last == w[n - 1]
                     interest == Interest(last.balance, rate)
                 IN  [balance |-> last.balance - (payment - interest),
                      interest |-> last.interest + IF n - 1 >= (year - 1) * 12 THEN interest ELSE 0]]

\* What has been paid since, but for what the balance has lost.
InterestSince(b, payment, start, n) ==
    IF n <= start THEN 0 ELSE payment * (n - start) - b[start] + b[n]

InterestGrow(b, payment, rate, start, n) ==
    /\ InterestSince(b, payment, start, n) \in Int
    /\ InterestSince(b, payment, start, n + 1)
           = InterestSince(b, payment, start, n) + IF n >= start THEN Interest(b[n], rate) ELSE 0

LEMMA InterestGrows ==
    ASSUME NEW loan \in Int, NEW payment \in Int, NEW rate \in Nat, NEW b,
           BalanceWalk(b, loan, payment, rate), NEW start \in Nat, NEW n \in Nat
    PROVE  InterestGrow(b, payment, rate, start, n)
<1>1. /\ b[n] \in Int /\ b[n + 1] \in Int /\ b[start] \in Int /\ Interest(b[n], rate) \in Int
      /\ b[n + 1] = b[n] - (payment - Interest(b[n], rate))
    <2>1. n + 1 \in Nat
        OBVIOUS
    <2> QED BY <2>1 DEF BalanceWalk
<1> DEFINE i == Interest(b[n], rate)
           p == payment * (n - start)
           q == payment * ((n + 1) - start)
<1>2. p \in Int /\ q = p + payment /\ (n = start => p = 0)
    OBVIOUS
<1>3. /\ InterestSince(b, payment, start, n) = IF n <= start THEN 0 ELSE p - b[start] + b[n]
      /\ InterestSince(b, payment, start, n + 1) = IF n + 1 <= start THEN 0 ELSE q - b[start] + b[n + 1]
    BY DEF InterestSince
<1>4. i \in Int /\ b[n + 1] = b[n] - (payment - i)
    BY <1>1
<1> HIDE DEF i, p, q
<1>5. /\ InterestSince(b, payment, start, n) \in Int
      /\ InterestSince(b, payment, start, n + 1)
             = InterestSince(b, payment, start, n) + IF n >= start THEN i ELSE 0
    <2>1. CASE n < start
        BY <1>3, <2>1
    <2>2. CASE n = start
        BY <1>1, <1>2, <1>3, <1>4, <2>2
    <2>3. CASE n > start
        BY <1>1, <1>2, <1>3, <1>4, <2>3
    <2> QED BY <2>1, <2>2, <2>3
<1> QED BY <1>5 DEF i, InterestGrow

LEMMA InterestRuns ==
    ASSUME NEW loan \in Int, NEW payment \in Int, NEW rate \in Nat, NEW b,
           BalanceWalk(b, loan, payment, rate), NEW year \in Nat \ {0}
    PROVE  \E w : InterestTable(w, loan, payment, rate, year)
<1>1. /\ b[0] = loan
      /\ \A k \in Nat : /\ b[k] \in Int /\ Interest(b[k], rate) \in Int
                        /\ b[k + 1] = b[k] - (payment - Interest(b[k], rate))
    BY DEF BalanceWalk
<1>2. PICK start \in Nat : start = (year - 1) * 12
    OBVIOUS
<1>3. \A k \in Nat : /\ InterestSince(b, payment, start, k) \in Int
                     /\ InterestSince(b, payment, start, k + 1)
                            = InterestSince(b, payment, start, k)
                                  + IF k >= start THEN Interest(b[k], rate) ELSE 0
    <2>1. \A k \in Nat : InterestGrow(b, payment, rate, start, k)
        BY InterestGrows
    <2> QED BY <2>1 DEF InterestGrow
<1>4. InterestSince(b, payment, start, 0) = 0
    BY DEF InterestSince
<1> DEFINE sum(n) == InterestSince(b, payment, start, n)
           w == [n \in Nat |-> [balance |-> b[n], interest |-> sum(n)]]
           v == [n \in Nat |->
                   IF n = 0
                   THEN [balance |-> loan, interest |-> 0]
                   ELSE LET last == w[n - 1]
                            interest == Interest(last.balance, rate)
                        IN  [balance |-> last.balance - (payment - interest),
                             interest |-> last.interest + IF n - 1 >= start THEN interest ELSE 0]]
<1>5. ASSUME NEW n \in Nat PROVE w[n] = v[n]
    <2>1. CASE n = 0
        BY <1>1, <1>4, <2>1
    <2>2. CASE n # 0
        <3>1. n - 1 \in Nat /\ (n - 1) + 1 = n
            BY <2>2
        <3> DEFINE last == b[n - 1]
                   i == Interest(last, rate)
        <3>2. b[n] = last - (payment - i)
            BY <1>1, <3>1
        <3>3. sum(n) = sum(n - 1) + IF n - 1 >= start THEN i ELSE 0
            BY <1>3, <3>1
        <3>4. w[n - 1].balance = last /\ w[n - 1].interest = sum(n - 1)
            BY <3>1
        <3>5. v[n] = [balance |-> last - (payment - i),
                      interest |-> sum(n - 1) + IF n - 1 >= start THEN i ELSE 0]
            <4> HIDE DEF w, sum
            <4> QED BY <2>2, <3>4
        <3>6. w[n] = [balance |-> b[n], interest |-> sum(n)]
            OBVIOUS
        <3> HIDE DEF w, v, sum, last, i
        <3> QED BY <3>2, <3>3, <3>5, <3>6
    <2> QED BY <2>1, <2>2
<1>6. w = v
    <2>1. w = [n \in Nat |-> w[n]] /\ v = [n \in Nat |-> v[n]]
        OBVIOUS
    <2> HIDE DEF w, v
    <2> QED BY <1>5, <2>1
<1> HIDE DEF w
<1> QED BY <1>2, <1>6 DEF InterestTable

LEMMA InterestIs ==
    ASSUME NEW loan \in Int, NEW payment \in Int, NEW rate \in Nat, NEW b,
           BalanceWalk(b, loan, payment, rate), NEW year \in Nat \ {0}, NEW w,
           InterestTable(w, loan, payment, rate, year)
    PROVE  \A n \in Nat : w[n].interest = InterestSince(b, payment, (year - 1) * 12, n)
<1>1. /\ b[0] = loan
      /\ \A k \in Nat : /\ b[k] \in Int /\ Interest(b[k], rate) \in Int
                        /\ b[k + 1] = b[k] - (payment - Interest(b[k], rate))
    BY DEF BalanceWalk
<1>2. PICK start \in Nat : start = (year - 1) * 12
    OBVIOUS
<1>3. \A k \in Nat : InterestSince(b, payment, start, k + 1)
                         = InterestSince(b, payment, start, k)
                               + IF k >= start THEN Interest(b[k], rate) ELSE 0
    <2>1. \A k \in Nat : InterestGrow(b, payment, rate, start, k)
        BY InterestGrows
    <2> QED BY <2>1 DEF InterestGrow
<1>4. InterestSince(b, payment, start, 0) = 0
    BY DEF InterestSince
<1>5. w[0] = [balance |-> loan, interest |-> 0]
    BY DEF InterestTable
<1>6. ASSUME NEW k \in Nat
      PROVE  LET interest == Interest(w[k].balance, rate)
             IN  w[k + 1] = [balance |-> w[k].balance - (payment - interest),
                             interest |-> w[k].interest + IF k >= start THEN interest ELSE 0]
    <2>1. k + 1 \in Nat /\ k + 1 # 0 /\ (k + 1) - 1 = k
        OBVIOUS
    <2> QED BY <1>2, <2>1 DEF InterestTable
<1> DEFINE S == {k \in Nat : w[k].balance = b[k] /\ w[k].interest = InterestSince(b, payment, start, k)}
<1>7. 0 \in S
    BY <1>1, <1>4, <1>5
<1>8. ASSUME NEW k \in S, k \in Nat
      PROVE  k + 1 \in S
    <2> DEFINE i == Interest(b[k], rate)
    <2>1. w[k].balance = b[k] /\ w[k].interest = InterestSince(b, payment, start, k)
        OBVIOUS
    <2>2. b[k + 1] = b[k] - (payment - i)
        BY <1>1
    <2>3. w[k + 1] = [balance |-> b[k] - (payment - i),
                      interest |-> InterestSince(b, payment, start, k) + IF k >= start THEN i ELSE 0]
        BY <1>6, <2>1
    <2>4. InterestSince(b, payment, start, k + 1)
              = InterestSince(b, payment, start, k) + IF k >= start THEN i ELSE 0
        BY <1>3
    <2> HIDE DEF i
    <2>5. w[k + 1].balance = b[k + 1] /\ w[k + 1].interest = InterestSince(b, payment, start, k + 1)
        BY <2>2, <2>3, <2>4
    <2> QED BY <2>5
<1>9. \A k \in Nat : k \in S
    <2> HIDE DEF S
    <2> QED BY <1>7, <1>8, Induction
<1> QED BY <1>2, <1>9

-----------------------------------------------------------------------------
(* The loan and what is paid back of it. *)

\* The sum of what a year adds is what the years have added.
LEMMA FirstAdds ==
    ASSUME NEW f, NEW g, \A y \in 0 .. 5 : g[y] \in Int,
           \A y \in Years : f[y] = g[y] - g[y - 1], NEW n \in 0 .. 5
    PROVE  First(f, n) \in Int /\ First(f, n) = g[n] - g[0]
<1>1. g[0] \in Int /\ g[1] \in Int /\ g[2] \in Int /\ g[3] \in Int /\ g[4] \in Int /\ g[5] \in Int
    OBVIOUS
<1>2. /\ f[1] = g[1] - g[0] /\ f[2] = g[2] - g[1] /\ f[3] = g[3] - g[2]
      /\ f[4] = g[4] - g[3] /\ f[5] = g[5] - g[4]
    <2>1. 1 \in Years /\ 2 \in Years /\ 3 \in Years /\ 4 \in Years /\ 5 \in Years
        BY DEF Years
    <2>2. 1 - 1 = 0 /\ 2 - 1 = 1 /\ 3 - 1 = 2 /\ 4 - 1 = 3 /\ 5 - 1 = 4
        OBVIOUS
    <2> HIDE DEF Years
    <2> QED BY <2>1, <2>2
<1>3. \A y \in Years : f[y] \in Int
    <2>1. \A y \in Years : g[y] \in Int /\ g[y - 1] \in Int
        BY DEF Years
    <2> QED BY <2>1
<1>4. First(f, 0) = 0 /\ \A y \in Years : First(f, y) = First(f, y - 1) + f[y]
    BY <1>3, FirstYears
<1>5. /\ First(f, 1) = First(f, 0) + f[1] /\ First(f, 2) = First(f, 1) + f[2]
      /\ First(f, 3) = First(f, 2) + f[3] /\ First(f, 4) = First(f, 3) + f[4]
      /\ First(f, 5) = First(f, 4) + f[5]
    BY <1>4 DEF Years
<1>6. n = 0 \/ n = 1 \/ n = 2 \/ n = 3 \/ n = 4 \/ n = 5
    OBVIOUS
<1>7. /\ First(f, 0) = g[0] - g[0] /\ First(f, 1) = g[1] - g[0] /\ First(f, 2) = g[2] - g[0]
      /\ First(f, 3) = g[3] - g[0] /\ First(f, 4) = g[4] - g[0] /\ First(f, 5) = g[5] - g[0]
    BY <1>1, <1>2, <1>4, <1>5
<1>8. First(f, n) = g[n] - g[0]
    BY <1>6, <1>7
<1> QED BY <1>1, <1>6, <1>8

\* One balance is behind the three loops of a loan with interest.
Behind(b, loan, rate, term) ==
    /\ BalanceWalk(b, loan, PI(loan, rate, term), rate)
    /\ \A n \in Nat : CumPrinc(loan, rate, term, n) = loan - b[AtMost(n, term)]
    /\ \A n \in Nat : LoanBalance(loan, rate, term, n) = AtLeast(0, b[AtMost(n, term)])
    /\ \A y \in Nat \ {0} : /\ PaydownYear(loan, rate, term, y) = b[(y - 1) * 12] - b[y * 12]
                            /\ YearlyInterestPaid(loan, rate, term, y) \in Int

LEMMA OneBalance ==
    ASSUME NEW loan \in Nat \ {0}, NEW rate \in Nat \ {0}, NEW term \in Nat \ {0}
    PROVE  \E b : Behind(b, loan, rate, term)
<1> DEFINE P == PI(loan, rate, term)
           b == CHOOSE b : BalanceTable(b, loan, P, rate)
           w == CHOOSE w : PaidTable(w, loan, P, rate)
           i(y) == CHOOSE v : InterestTable(v, loan, P, rate, y)
<1>1. P \in Int
    BY PaymentPositive
<1>2. \A n \in Nat : CumPrinc(loan, rate, term, n) = w[AtMost(n, term)].paid
    BY DEF CumPrinc, PaidTable
<1>3. \A n \in Nat : LoanBalance(loan, rate, term, n) = AtLeast(0, b[AtMost(n, term)])
    BY DEF LoanBalance, BalanceTable
<1>4. \A y \in Nat \ {0} : /\ YearlyInterestPaid(loan, rate, term, y) = i(y)[y * 12].interest
                            /\ PaydownYear(loan, rate, term, y) = P * 12 - i(y)[y * 12].interest
    BY DEF PaydownYear, YearlyInterestPaid, InterestTable
<1> HIDE DEF P
<1>5. BalanceTable(b, loan, P, rate)
    BY <1>1, BalanceRuns
<1> HIDE DEF b
<1>6. BalanceWalk(b, loan, P, rate)
    BY <1>1, <1>5, BalanceIs
<1>7. PaidTable(w, loan, P, rate)
    BY <1>1, <1>6, PaidRuns
<1> HIDE DEF w
<1>8. \A n \in Nat : w[n].paid = loan - b[n]
    BY <1>1, <1>6, <1>7, PaidIs
<1>9. \A n \in Nat : CumPrinc(loan, rate, term, n) = loan - b[AtMost(n, term)]
    BY <1>2, <1>8 DEF AtMost
<1>10. ASSUME NEW y \in Nat \ {0}
       PROVE  /\ PaydownYear(loan, rate, term, y) = b[(y - 1) * 12] - b[y * 12]
              /\ YearlyInterestPaid(loan, rate, term, y) \in Int
    <2> DEFINE v == i(y)
               from == (y - 1) * 12
               to == y * 12
    <2>1. InterestTable(v, loan, P, rate, y)
        BY <1>1, <1>6, InterestRuns
    <2> HIDE DEF v
    <2>2. from \in Nat /\ to \in Nat /\ to - from = 12 /\ ~(to <= from)
        OBVIOUS
    <2>3. v[to].interest = InterestSince(b, P, from, to)
        <3>1. \A n \in Nat : v[n].interest = InterestSince(b, P, (y - 1) * 12, n)
            BY <1>1, <1>6, <2>1, InterestIs
        <3> QED BY <2>2, <3>1
    <2> HIDE DEF from, to
    <2>4. InterestSince(b, P, from, to) = P * 12 - b[from] + b[to]
        BY <2>2 DEF InterestSince
    <2>5. b[from] \in Int /\ b[to] \in Int
        BY <1>6, <2>2 DEF BalanceWalk
    <2>6. /\ PaydownYear(loan, rate, term, y) = P * 12 - v[to].interest
          /\ YearlyInterestPaid(loan, rate, term, y) = v[to].interest
        BY <1>4 DEF v, to
    <2> DEFINE q == P * 12
    <2>7. q \in Int
        BY <1>1
    <2> HIDE DEF q
    <2>8. q - (q - b[from] + b[to]) = b[from] - b[to]
        BY <2>5, <2>7
    <2>9. PaydownYear(loan, rate, term, y) = b[from] - b[to]
        BY <2>3, <2>4, <2>6, <2>8 DEF q
    <2>10. v[to].interest \in Int
        BY <2>3, <2>4, <2>5, <2>7 DEF q
    <2> QED BY <2>6, <2>9, <2>10 DEF from, to
<1> QED BY <1>3, <1>6, <1>9, <1>10 DEF P, Behind

LEMMA PlainLoan ==
    ASSUME NEW loan \in Nat, NEW rate \in Nat, NEW term \in Nat \ {0}, rate = 0 \/ loan = 0
    PROVE  /\ PI(loan, rate, term) = loan \div term
           /\ \A y \in Years : PaydownYear(loan, rate, term, y) = (loan \div term) * 12
<1>1. loan \div term \in Nat
    BY QuotientPositive
<1>2. PI(loan, rate, term) = loan \div term
    <2>1. CASE rate = 0
        BY <2>1 DEF PI
    <2>2. CASE rate # 0
        <3> DEFINE g == Growth(rate, term)
                   d == g - 100000
        <3>1. loan = 0 /\ loan * rate = 0
            BY <2>2
        <3>2. g \in Nat /\ g > 100000
            BY <2>2, GrowthGrows
        <3>3. PI(loan, rate, term) = (((loan * rate) \div 10000) * g) \div d
            BY <2>2 DEF PI
        <3>4. d \in Nat \ {0}
            BY <3>2
        <3>5. (loan * rate) \div 10000 = 0
            BY <3>1
        <3> HIDE DEF g, d
        <3>6. ((loan * rate) \div 10000) * g = 0
            BY <3>2, <3>5
        <3>7. \A m \in Nat \ {0} : 0 \div m = 0
            <4> SUFFICES ASSUME NEW m \in Nat \ {0} PROVE 0 \div m = 0
                OBVIOUS
            <4> DEFINE k == 0 \div m
            <4>1. k \in Nat /\ k * m <= 0
                BY Quotient, QuotientPositive
            <4> HIDE DEF k
            <4>2. k = 0
                <5> SUFFICES ASSUME k >= 1 PROVE FALSE
                    BY <4>1
                <5>1. k * m >= m
                    BY <4>1
                <5> QED BY <4>1, <5>1
            <4> QED BY <4>2 DEF k
        <3>8. PI(loan, rate, term) = 0 /\ loan \div term = 0
            BY <3>1, <3>3, <3>4, <3>6, <3>7
        <3> QED BY <3>8
    <2> QED BY <2>1, <2>2
<1>3. ASSUME NEW y \in Years
      PROVE  PaydownYear(loan, rate, term, y) = (loan \div term) * 12
    <2>1. YearlyInterestPaid(loan, rate, term, y) = 0
        BY DEF YearlyInterestPaid
    <2> DEFINE q == loan \div term
    <2>2. PaydownYear(loan, rate, term, y) = q * 12 - 0
        BY <1>2, <2>1 DEF PaydownYear
    <2>3. q \in Nat
        BY <1>1
    <2> HIDE DEF q
    <2>4. PaydownYear(loan, rate, term, y) = q * 12
        BY <2>2, <2>3
    <2> QED BY <2>4 DEF q
<1> QED BY <1>2, <1>3

\* The paydowns of the years are what computeCumPrinc counts and what
\* computeLoanBalance no longer does.
LEMMA PaidBack ==
    ASSUME NEW loan \in Nat, NEW rate \in Nat, NEW term \in Nat \ {0},
           NEW f, \A y \in Years : f[y] = PaydownYear(loan, rate, term, y),
           NEW n \in 0 .. 5, 12 * n <= term
    PROVE  /\ First(f, n) \in Int
           /\ CumPrinc(loan, rate, term, 12 * n) = First(f, n)
           /\ LoanBalance(loan, rate, term, 12 * n) = AtLeast(0, loan - First(f, n))
<1>1. CASE rate = 0 \/ loan = 0
    <2> DEFINE q == loan \div term
               c == q * 12
               g == [y \in 0 .. 5 |-> c * y]
    <2>1. q \in Int
        BY QuotientPositive
    <2>2. \A y \in Years : f[y] = c
        <3>1. \A y \in Years : PaydownYear(loan, rate, term, y) = (loan \div term) * 12
            BY <1>1, PlainLoan
        <3> QED BY <3>1
    <2>3. CumPrinc(loan, rate, term, 12 * n) = q * (12 * n)
        BY <1>1 DEF CumPrinc
    <2>4. LoanBalance(loan, rate, term, 12 * n) = AtLeast(0, loan - q * (12 * n))
        BY <1>1 DEF LoanBalance
    <2> HIDE DEF q
    <2>5. q * (12 * n) = c * n /\ c \in Int
        BY <2>1
    <2> HIDE DEF c
    <2>6. \A y \in 0 .. 5 : g[y] \in Int
        BY <2>5
    <2>7. \A y \in Years : f[y] = g[y] - g[y - 1]
        <3> SUFFICES ASSUME NEW y \in Years PROVE f[y] = g[y] - g[y - 1]
            OBVIOUS
        <3>1. y \in 0 .. 5 /\ y - 1 \in 0 .. 5
            BY DEF Years
        <3>2. g[y] = c * y /\ g[y - 1] = c * (y - 1) /\ c * y - c * (y - 1) = c
            BY <2>5, <3>1
        <3> QED BY <2>2, <3>2
    <2>8. g[n] = c * n /\ g[0] = 0
        BY <2>5
    <2> HIDE DEF g
    <2>9. First(f, n) \in Int /\ First(f, n) = g[n] - g[0]
        BY <2>6, <2>7, FirstAdds
    <2>10. First(f, n) = c * n /\ c * n \in Int
        BY <2>5, <2>8, <2>9
    <2> QED BY <2>3, <2>4, <2>5, <2>9, <2>10
<1>2. CASE ~(rate = 0 \/ loan = 0)
    <2>1. loan \in Nat \ {0} /\ rate \in Nat \ {0}
        BY <1>2
    <2>2. PICK b : Behind(b, loan, rate, term)
        BY <2>1, OneBalance
    <2> DEFINE g == [y \in 0 .. 5 |-> loan - b[y * 12]]
    <2>3. b[0] = loan /\ \A k \in Nat : b[k] \in Int
        BY <2>2 DEF Behind, BalanceWalk
    <2>4. \A y \in 0 .. 5 : y * 12 \in Nat /\ g[y] = loan - b[y * 12] /\ b[y * 12] \in Int /\ g[y] \in Int
        BY <2>3
    <2> HIDE DEF g
    <2>5. \A y \in Years : f[y] = g[y] - g[y - 1]
        <3> SUFFICES ASSUME NEW y \in Years PROVE f[y] = g[y] - g[y - 1]
            OBVIOUS
        <3>1. y \in 0 .. 5 /\ y - 1 \in 0 .. 5 /\ y \in Nat \ {0}
            BY DEF Years
        <3>2. f[y] = b[(y - 1) * 12] - b[y * 12]
            BY <2>2, <3>1 DEF Behind
        <3>3. /\ g[y] = loan - b[y * 12] /\ b[y * 12] \in Int
              /\ g[y - 1] = loan - b[(y - 1) * 12] /\ b[(y - 1) * 12] \in Int
            BY <2>4, <3>1
        <3> QED BY <3>2, <3>3
    <2>6. First(f, n) \in Int /\ First(f, n) = g[n] - g[0]
        BY <2>4, <2>5, FirstAdds
    <2>7. g[n] = loan - b[n * 12] /\ g[0] = loan - b[0] /\ b[n * 12] \in Int
        <3>1. 0 \in 0 .. 5 /\ 0 * 12 = 0
            OBVIOUS
        <3> QED BY <2>4, <3>1
    <2>8. AtMost(12 * n, term) = n * 12 /\ 12 * n \in Nat
        BY DEF AtMost
    <2>9. First(f, n) = loan - b[n * 12]
        BY <2>3, <2>6, <2>7
    <2>10. CumPrinc(loan, rate, term, 12 * n) = loan - b[n * 12]
        BY <2>2, <2>8 DEF Behind
    <2>11. LoanBalance(loan, rate, term, 12 * n) = AtLeast(0, b[n * 12])
        BY <2>2, <2>8 DEF Behind
    <2>12. loan - First(f, n) = b[n * 12]
        BY <2>7, <2>9
    <2> QED BY <2>6, <2>9, <2>10, <2>11, <2>12
<1> QED BY <1>1, <1>2

LEMMA InterestNumber ==
    ASSUME NEW loan \in Nat, NEW rate \in Nat, NEW term \in Nat \ {0}, NEW y \in Nat \ {0}
    PROVE  YearlyInterestPaid(loan, rate, term, y) \in Int
<1>1. CASE rate = 0 \/ loan = 0
    BY <1>1 DEF YearlyInterestPaid
<1>2. CASE ~(rate = 0 \/ loan = 0)
    <2>1. loan \in Nat \ {0} /\ rate \in Nat \ {0}
        BY <1>2
    <2> QED BY <2>1, OneBalance DEF Behind
<1> QED BY <1>1, <1>2

-----------------------------------------------------------------------------
(* The years ahead. *)

\* The gains of the years are what the value has grown.
LEMMA GainsAdd ==
    ASSUME NEW price \in Int, NEW percent \in Nat, NEW f,
           \A y \in Years : f[y] = Grown(price, percent, y) - Grown(price, percent, y - 1),
           NEW n \in 0 .. 5
    PROVE  First(f, n) \in Int /\ price + First(f, n) = Grown(price, percent, n)
<1> DEFINE g == [y \in 0 .. 5 |-> Grown(price, percent, y)]
<1>1. Grown(price, percent, 0) = price /\ \A y \in Nat : Grown(price, percent, y) \in Int
    BY GrownIs
<1>2. \A y \in 0 .. 5 : g[y] = Grown(price, percent, y) /\ g[y] \in Int
    BY <1>1
<1> HIDE DEF g
<1>3. \A y \in Years : f[y] = g[y] - g[y - 1]
    <2>1. \A y \in Years : y \in 0 .. 5 /\ y - 1 \in 0 .. 5
        BY DEF Years
    <2> QED BY <1>2, <2>1
<1>4. First(f, n) \in Int /\ First(f, n) = g[n] - g[0]
    BY <1>2, <1>3, FirstAdds
<1>5. g[0] = price /\ g[n] = Grown(price, percent, n) /\ g[n] \in Int
    <2>1. 0 \in 0 .. 5
        OBVIOUS
    <2> QED BY <1>1, <1>2, <2>1
<1> QED BY <1>4, <1>5

\* What rises by no percentage stays.
LEMMA GrownStays ==
    ASSUME NEW amount \in Int
    PROVE  \A n \in Nat : Grown(amount, 0, n) = amount
<1> DEFINE S == {n \in Nat : Grown(amount, 0, n) = amount}
<1>1. Grown(amount, 0, 0) = amount /\ \A n \in Nat : Grown(amount, 0, n + 1) = (Grown(amount, 0, n) * (100 + 0)) \div 100
    BY GrownIs
<1>2. (amount * (100 + 0)) \div 100 = amount
    BY SMT
<1>3. 0 \in S
    BY <1>1
<1>4. ASSUME NEW n \in S, n \in Nat PROVE n + 1 \in S
    <2>1. Grown(amount, 0, n) = amount /\ n + 1 \in Nat
        OBVIOUS
    <2>2. Grown(amount, 0, n + 1) = amount
        BY <1>1, <1>2, <2>1
    <2> QED BY <2>1, <2>2
<1>5. \A n \in Nat : n \in S
    <2> HIDE DEF S
    <2> QED BY <1>3, <1>4, Induction
<1> QED BY <1>5

\* What rises by a percentage never falls.
LEMMA GrownRises ==
    ASSUME NEW amount \in Nat, NEW percent \in Nat
    PROVE  \A n \in Nat : /\ Grown(amount, percent, n) \in Nat
                          /\ Grown(amount, percent, n) <= Grown(amount, percent, n + 1)
<1>1. Grown(amount, percent, 0) = amount
    BY GrownIs
<1>2. \A n \in Nat : /\ Grown(amount, percent, n) \in Int
                     /\ Grown(amount, percent, n + 1)
                            = (Grown(amount, percent, n) * (100 + percent)) \div 100
    BY GrownIs
<1>3. \A v \in Nat : (v * (100 + percent)) \div 100 \in Nat /\ v <= (v * (100 + percent)) \div 100
    <2> SUFFICES ASSUME NEW v \in Nat
                 PROVE  (v * (100 + percent)) \div 100 \in Nat /\ v <= (v * (100 + percent)) \div 100
        OBVIOUS
    <2>1. v * (100 + percent) = v * 100 + v * percent /\ v * percent \in Nat
        OBVIOUS
    <2> DEFINE w == v * (100 + percent)
    <2>2. w \in Nat /\ v * 100 <= w
        BY <2>1
    <2> HIDE DEF w
    <2>3. w \div 100 \in Nat /\ v <= w \div 100
        BY <2>2, SMT
    <2> QED BY <2>3 DEF w
<1> DEFINE S == {n \in Nat : Grown(amount, percent, n) \in Nat}
<1>4. 0 \in S
    BY <1>1
<1>5. ASSUME NEW n \in S, n \in Nat PROVE n + 1 \in S
    <2>1. Grown(amount, percent, n) \in Nat /\ n + 1 \in Nat
        OBVIOUS
    <2>2. Grown(amount, percent, n + 1) \in Nat
        BY <1>2, <1>3, <2>1
    <2> QED BY <2>1, <2>2
<1>6. \A n \in Nat : n \in S
    <2> HIDE DEF S
    <2> QED BY <1>4, <1>5, Induction
<1>7. \A n \in Nat : Grown(amount, percent, n) \in Nat
    BY <1>6
<1> QED BY <1>2, <1>3, <1>7

\* A share of the whole taken off leaves more of more.
LEMMA RestRises ==
    ASSUME NEW x \in Int, NEW y \in Int, x <= y, NEW share \in 0 .. 100
    PROVE  /\ x - (x * share) \div 100 \in Int /\ y - (y * share) \div 100 \in Int
           /\ x - (x * share) \div 100 <= y - (y * share) \div 100
<1> DEFINE d == y - x
           a == x * share
           c == y * share
           e == a + d * 100
<1>1. d \in Nat /\ a \in Int /\ c \in Int
    OBVIOUS
<1>2. c = a + d * share /\ d * share <= d * 100 /\ d * share \in Int
    <2>1. c = a + d * share
        OBVIOUS
    <2>2. 100 - share \in Nat /\ d * (100 - share) \in Nat /\ d * 100 = d * share + d * (100 - share)
        BY <1>1
    <2>3. d * share \in Int
        BY <1>1
    <2> HIDE DEF c, d
    <2> QED BY <2>1, <2>2, <2>3
<1> HIDE DEF a, c
<1>3. e \in Int /\ c <= e
    BY <1>1, <1>2
<1>4. e \div 100 = a \div 100 + d
    <2> HIDE DEF d
    <2> QED BY <1>1, SMT
<1>5. a \div 100 \in Int /\ c \div 100 \in Int /\ e \div 100 \in Int
    BY <1>1, <1>3, Quotient
<1>6. c \div 100 <= e \div 100
    BY <1>1, <1>3, QuotientGrows
<1>7. c \div 100 <= a \div 100 + d
    BY <1>4, <1>5, <1>6
<1> DEFINE p == a \div 100
           q == c \div 100
<1>8. p \in Int /\ q \in Int /\ q <= p + d
    BY <1>5, <1>7
<1> HIDE DEF p, q
<1>9. x - p \in Int /\ y - q \in Int /\ x - p <= y - q
    BY <1>8
<1> QED BY <1>9 DEF p, q, a, c

\* What the sections of a builder may hold.
AnyDeal(d) ==
    /\ d.rent \in Nat /\ d.charges \in Nat
    /\ d.price \in Nat /\ d.costs \in Nat /\ d.credits \in Nat
    /\ d.rate \in Nat /\ d.term \in Nat \ {0}

\* What is left of the rent of a year, and what is paid from it whatever the rent.
KeptRent(d, f, v, y) ==
    LET rent == 12 * Grown(d.rent, v.incomeIncrease, y - 1)
        income == rent - (rent * v.vacancy) \div 100
    IN  income - (income * f.management) \div 100

FixedCosts(d, f, v, y) ==
    12 * Grown(d.charges + f.maintenance, v.expenseIncrease, y - 1)
        + 12 * PI(LtvAmount(d, f), d.rate, d.term)

LEMMA LoanIs ==
    ASSUME NEW d, AnyDeal(d), NEW f \in Pages
    PROVE  /\ LtvAmount(d, f) \in Nat
           /\ PI(LtvAmount(d, f), d.rate, d.term) \in Nat
           /\ EstimatedCashToClose(d, f) \in Int
<1>1. d.price * f.ltv \in Nat
    BY DEF AnyDeal, Pages
<1>2. LtvAmount(d, f) \in Nat
    BY <1>1, QuotientPositive DEF LtvAmount
<1>3. PI(LtvAmount(d, f), d.rate, d.term) \in Nat
    BY <1>2, PaymentPositive DEF AnyDeal
<1>4. EstimatedCashToClose(d, f) \in Int
    BY <1>2 DEF EstimatedCashToClose, AnyDeal
<1> QED BY <1>2, <1>3, <1>4

LEMMA KeptRises ==
    ASSUME NEW d, AnyDeal(d), NEW f \in Pages, NEW v \in Outlooks, NEW y \in Nat \ {0}
    PROVE  /\ KeptRent(d, f, v, y) \in Int /\ KeptRent(d, f, v, y + 1) \in Int
           /\ KeptRent(d, f, v, y) <= KeptRent(d, f, v, y + 1)
           /\ v.incomeIncrease = 0 => KeptRent(d, f, v, y) = KeptRent(d, f, v, y + 1)
<1> DEFINE a == Grown(d.rent, v.incomeIncrease, y - 1)
           b == Grown(d.rent, v.incomeIncrease, y)
           r == 12 * a
           s == 12 * b
           i == r - (r * v.vacancy) \div 100
           j == s - (s * v.vacancy) \div 100
           k == i - (i * f.management) \div 100
           l == j - (j * f.management) \div 100
<1>1. /\ d.rent \in Nat /\ v.incomeIncrease \in Nat /\ v.vacancy \in 0 .. 100
      /\ f.management \in 0 .. 100 /\ y - 1 \in Nat /\ (y - 1) + 1 = y
    BY DEF AnyDeal, Outlooks, Pages
<1>2. a \in Nat /\ b \in Nat /\ a <= b
    <2>1. \A n \in Nat : /\ Grown(d.rent, v.incomeIncrease, n) \in Nat
                         /\ Grown(d.rent, v.incomeIncrease, n) <= Grown(d.rent, v.incomeIncrease, n + 1)
        BY <1>1, GrownRises
    <2> QED BY <1>1, <2>1
<1>3. v.incomeIncrease = 0 => a = b
    <2> SUFFICES ASSUME v.incomeIncrease = 0 PROVE a = b
        OBVIOUS
    <2>1. \A n \in Nat : Grown(d.rent, 0, n) = d.rent
        BY <1>1, GrownStays
    <2> QED BY <1>1, <2>1
<1>4. KeptRent(d, f, v, y) = k
    BY DEF KeptRent
<1>5. KeptRent(d, f, v, y + 1) = l
    <2>1. (y + 1) - 1 = y
        OBVIOUS
    <2> QED BY <2>1 DEF KeptRent
<1> HIDE DEF a, b
<1>6. r \in Int /\ s \in Int /\ r <= s /\ (a = b => r = s)
    BY <1>2
<1> HIDE DEF r, s
<1>7. i \in Int /\ j \in Int /\ i <= j
    BY <1>1, <1>6, RestRises
<1>8. r = s => i = j
    OBVIOUS
<1> HIDE DEF i, j
<1>9. k \in Int /\ l \in Int /\ k <= l
    BY <1>1, <1>7, RestRises
<1>10. i = j => k = l
    OBVIOUS
<1> QED BY <1>3, <1>4, <1>5, <1>6, <1>8, <1>9, <1>10

LEMMA FlowIs ==
    ASSUME NEW d, AnyDeal(d), NEW f \in Pages, NEW v \in Outlooks, NEW y \in Nat \ {0}
    PROVE  /\ BuyHoldYear(d, f, v, y).cashFlow \in Int
           /\ BuyHoldYear(d, f, v, y).expenses \in Int
           /\ BuyHoldYear(d, f, v, y).cashFlow = KeptRent(d, f, v, y) - FixedCosts(d, f, v, y)
           /\ v.expenseIncrease = 0 =>
                  FixedCosts(d, f, v, y) = 12 * (d.charges + f.maintenance)
                                               + 12 * PI(LtvAmount(d, f), d.rate, d.term)
<1> DEFINE rent == 12 * Grown(d.rent, v.incomeIncrease, y - 1)
           income == rent - (rent * v.vacancy) \div 100
           fee == (income * f.management) \div 100
           grown == 12 * Grown(d.charges + f.maintenance, v.expenseIncrease, y - 1)
           debt == 12 * PI(LtvAmount(d, f), d.rate, d.term)
<1>1. /\ BuyHoldYear(d, f, v, y).cashFlow = income - (grown + fee) - debt
      /\ BuyHoldYear(d, f, v, y).expenses = grown + fee
    BY DEF BuyHoldYear
<1>2. KeptRent(d, f, v, y) = income - fee /\ FixedCosts(d, f, v, y) = grown + debt
    BY DEF KeptRent, FixedCosts
<1>3. /\ d.rent \in Nat /\ v.incomeIncrease \in Nat /\ v.vacancy \in Nat
      /\ f.management \in Nat /\ y - 1 \in Nat /\ d.charges + f.maintenance \in Nat
      /\ v.expenseIncrease \in Nat
    BY DEF AnyDeal, Outlooks, Pages
<1>4. grown \in Int
    <2>1. Grown(d.charges + f.maintenance, v.expenseIncrease, y - 1) \in Nat
        BY <1>3, GrownRises
    <2> QED BY <2>1
<1>5. debt \in Int
    BY LoanIs
<1>6. income \in Int
    <2>1. Grown(d.rent, v.incomeIncrease, y - 1) \in Nat
        BY <1>3, GrownRises
    <2>2. rent \in Int
        BY <2>1
    <2> HIDE DEF rent
    <2>3. rent * v.vacancy \in Int
        BY <1>3, <2>2
    <2>4. (rent * v.vacancy) \div 100 \in Int
        BY <2>3, Quotient
    <2> QED BY <2>2, <2>4
<1>7. fee \in Int
    <2> HIDE DEF income
    <2>1. income * f.management \in Int
        BY <1>3, <1>6
    <2> QED BY <2>1, Quotient
<1>8. v.expenseIncrease = 0 => grown = 12 * (d.charges + f.maintenance)
    <2> SUFFICES ASSUME v.expenseIncrease = 0 PROVE grown = 12 * (d.charges + f.maintenance)
        OBVIOUS
    <2>1. Grown(d.charges + f.maintenance, 0, y - 1) = d.charges + f.maintenance
        BY <1>3, GrownStays
    <2> QED BY <2>1
<1>9. v.expenseIncrease = 0 =>
          FixedCosts(d, f, v, y) = 12 * (d.charges + f.maintenance)
                                       + 12 * PI(LtvAmount(d, f), d.rate, d.term)
    BY <1>2, <1>8
<1> HIDE DEF income, fee, grown, debt
<1>10. /\ BuyHoldYear(d, f, v, y).cashFlow \in Int
       /\ BuyHoldYear(d, f, v, y).expenses \in Int
       /\ BuyHoldYear(d, f, v, y).cashFlow = KeptRent(d, f, v, y) - FixedCosts(d, f, v, y)
    BY <1>1, <1>2, <1>4, <1>5, <1>6, <1>7
<1> QED BY <1>9, <1>10

\* Without rising costs the cash flow never falls, and it stays without rising rent.
LEMMA FlowsRise ==
    ASSUME NEW d, AnyDeal(d), NEW f \in Pages, NEW v \in Outlooks, v.expenseIncrease = 0,
           NEW y \in Nat \ {0}
    PROVE  LET now == BuyHoldYear(d, f, v, y).cashFlow
               next == BuyHoldYear(d, f, v, y + 1).cashFlow
           IN  now <= next /\ (v.incomeIncrease = 0 => now = next)
<1> DEFINE c == 12 * (d.charges + f.maintenance) + 12 * PI(LtvAmount(d, f), d.rate, d.term)
           now == BuyHoldYear(d, f, v, y).cashFlow
           next == BuyHoldYear(d, f, v, y + 1).cashFlow
           k == KeptRent(d, f, v, y)
           l == KeptRent(d, f, v, y + 1)
<1>1. c \in Int
    BY LoanIs DEF AnyDeal, Pages
<1>2. now = k - FixedCosts(d, f, v, y) /\ FixedCosts(d, f, v, y) = c
    BY FlowIs
<1>3. next = l - FixedCosts(d, f, v, y + 1) /\ FixedCosts(d, f, v, y + 1) = c
    <2>1. y + 1 \in Nat \ {0}
        OBVIOUS
    <2> QED BY <2>1, FlowIs
<1>4. k \in Int /\ l \in Int /\ k <= l /\ (v.incomeIncrease = 0 => k = l)
    BY KeptRises
<1> HIDE DEF c, k, l, now, next
<1>5. now <= next /\ (v.incomeIncrease = 0 => now = next)
    BY <1>1, <1>2, <1>3, <1>4
<1> QED BY <1>5 DEF now, next

\* Years that do not fall add up to no more than as many of the last one.
LEMMA FirstAtMost ==
    ASSUME NEW f, \A y \in Years : f[y] \in Int, NEW n \in Years
    PROVE  /\ (\A y \in 1 .. 4 : f[y] <= f[y + 1]) => First(f, n) <= f[n] * n
           /\ (\A y \in 1 .. 4 : f[y] = f[y + 1]) => First(f, n) = f[n] * n
<1>1. f[1] \in Int /\ f[2] \in Int /\ f[3] \in Int /\ f[4] \in Int /\ f[5] \in Int
    BY DEF Years
<1>2. First(f, 0) = 0 /\ \A y \in Years : First(f, y) = First(f, y - 1) + f[y]
    BY FirstYears
<1>3. /\ First(f, 1) = First(f, 0) + f[1] /\ First(f, 2) = First(f, 1) + f[2]
      /\ First(f, 3) = First(f, 2) + f[3] /\ First(f, 4) = First(f, 3) + f[4]
      /\ First(f, 5) = First(f, 4) + f[5]
    BY <1>2 DEF Years
<1>4. /\ First(f, 1) = f[1] /\ First(f, 2) = f[1] + f[2] /\ First(f, 3) = f[1] + f[2] + f[3]
      /\ First(f, 4) = f[1] + f[2] + f[3] + f[4] /\ First(f, 5) = f[1] + f[2] + f[3] + f[4] + f[5]
    BY <1>1, <1>2, <1>3
<1>5. n = 1 \/ n = 2 \/ n = 3 \/ n = 4 \/ n = 5
    BY DEF Years
<1>6. ASSUME \A y \in 1 .. 4 : f[y] <= f[y + 1]
      PROVE  First(f, n) <= f[n] * n
    <2>1. f[1] <= f[2] /\ f[2] <= f[3] /\ f[3] <= f[4] /\ f[4] <= f[5]
        BY <1>6
    <2> QED BY <1>1, <1>4, <1>5, <2>1
<1>7. ASSUME \A y \in 1 .. 4 : f[y] = f[y + 1]
      PROVE  First(f, n) = f[n] * n
    <2>1. f[1] = f[2] /\ f[2] = f[3] /\ f[3] = f[4] /\ f[4] = f[5]
        BY <1>7
    <2> QED BY <1>1, <1>4, <1>5, <2>1
<1> QED BY <1>6, <1>7

\* The summary's equity in its parts.
LEMMA OwnedIs ==
    ASSUME NEW d, AnyDeal(d), NEW f \in Pages, NEW v \in Outlooks, v.additionalEquity = 0,
           NEW n \in Nat \ {0}
    PROVE  AppreciationBlock(d, f, [v EXCEPT !.yearsToExit = n]).owned
               = EstimatedCashToClose(d, f) + (Grown(d.price, v.appreciation, n - 1) - d.price)
                     + CumPrinc(LtvAmount(d, f), d.rate, d.term, 12 * n)
<1> DEFINE w == [v EXCEPT !.yearsToExit = n]
<1>1. w.yearsToExit = n /\ w.appreciation = v.appreciation /\ w.additionalEquity = 0
    BY DEF Outlooks
<1> HIDE DEF w
<1>2. d.price + 0 = d.price /\ EstimatedCashToClose(d, f) + 0 = EstimatedCashToClose(d, f)
    BY LoanIs DEF AnyDeal
<1>3. AppreciationBlock(d, f, w).owned
          = EstimatedCashToClose(d, f) + 0 + (Grown(d.price + 0, v.appreciation, n - 1) - (d.price + 0))
                + CumPrinc(LtvAmount(d, f), d.rate, d.term, 12 * n)
    BY <1>1 DEF AppreciationBlock, PropertyAppreciation
<1> QED BY <1>2, <1>3 DEF w

LEMMA OneStory ==
    ASSUME NEW d, AnyDeal(d), NEW f \in Pages, NEW v \in Outlooks
    PROVE  TabsAgree(d, f, v)
<1> DEFINE loan == LtvAmount(d, f)
           taxes == TaxDeductionSummary(d, f, v)
           paydown == PaydownSummary(d, f)
           growth == AppreciationSummary(d, f, v).years
           equity(n) == AppreciationBlock(d, f, [v EXCEPT !.yearsToExit = n])
           gains == [z \in 1 .. 5 |-> growth[z].gain]
           flows == [z \in 1 .. 5 |-> BuyHoldYear(d, f, v, z).cashFlow]
           paid == paydown.years
           left(y) == AtLeast(0, loan - First(paid, y))
           value(y) == Grown(d.price, v.appreciation, y)
<1>1. /\ d.price \in Nat /\ d.rate \in Nat /\ d.term \in Nat \ {0}
      /\ v.appreciation \in Nat /\ v.sellingCosts \in Nat /\ loan \in Nat
      /\ EstimatedCashToClose(d, f) \in Int
    BY LoanIs DEF AnyDeal, Outlooks
<1>2. \A y \in Years : paid[y] = PaydownYear(loan, d.rate, d.term, y)
    BY DEF PaydownSummary, Years
<1>3. \A y \in Years : taxes.years[y].total
                           = DepreciationAmount(d, v) + YearlyInterestPaid(loan, d.rate, d.term, y)
    BY DEF TaxDeductionSummary, TaxDeductionYear, Years
<1>4. \A y \in Years : growth[y].value = value(y) /\ growth[y].gain = value(y) - value(y - 1)
    <2>1. growth = [y \in 1 .. 5 |-> [value |-> [z \in 0 .. 5 |-> value(z)][y],
                                      gain |-> [z \in 0 .. 5 |-> value(z)][y] - [z \in 0 .. 5 |-> value(z)][y - 1]]]
        BY DEF AppreciationSummary, AppreciationTab
    <2>2. \A y \in Years : y \in 0 .. 5 /\ y - 1 \in 0 .. 5
        BY DEF Years
    <2> HIDE DEF growth, value
    <2> QED BY <2>1, <2>2 DEF Years
<1>5. \A y \in Years : gains[y] = value(y) - value(y - 1)
    <2> HIDE DEF growth, value
    <2> QED BY <1>4 DEF Years
<1>6. \A y \in Years : flows[y] = BuyHoldYear(d, f, v, y).cashFlow /\ flows[y] \in Int
    <2>1. \A y \in Years : y \in Nat \ {0}
        BY DEF Years
    <2>2. \A y \in Years : BuyHoldYear(d, f, v, y).cashFlow \in Int
        BY <2>1, FlowIs
    <2> QED BY <2>2 DEF Years
<1>7. \A y \in Years : /\ BuyHoldYear(d, f, v, y).value = value(y)
                       /\ BuyHoldYear(d, f, v, y).debt = LoanBalance(loan, d.rate, d.term, 12 * y)
                       /\ BuyHoldYear(d, f, v, y).deductions
                              = BuyHoldYear(d, f, v, y).expenses + DepreciationAmount(d, v)
                                    + YearlyInterestPaid(loan, d.rate, d.term, y)
                       /\ BuyHoldYear(d, f, v, y).profit
                              = (value(y) * (100 - v.sellingCosts)) \div 100
                                    - LoanBalance(loan, d.rate, d.term, 12 * y)
                                    + BuyHoldYear(d, f, v, y).cashFlow * y
    BY DEF BuyHoldYear
<1> HIDE DEF loan, growth, gains, flows, paid
<1> SUFFICES ASSUME NEW y \in Years, 12 * y <= d.term
             PROVE  LET year == BuyHoldYear(d, f, v, y)
                        earned == ((d.price + First(gains, y)) * (100 - v.sellingCosts)) \div 100
                                      - left(y) + First(flows, y)
                    IN  /\ year.value = growth[y].value
                        /\ year.debt = left(y)
                        /\ year.deductions = year.expenses + taxes.years[y].total
                        /\ v.expenseIncrease = 0 => year.profit >= earned
                        /\ v.expenseIncrease = 0 /\ v.incomeIncrease = 0 => year.profit = earned
                        /\ v.additionalEquity = 0 =>
                               equity(y).owned = EstimatedCashToClose(d, f) + First(gains, y - 1)
                                                     + First(paid, y)
    BY DEF TabsAgree, loan, growth, gains, flows, paid, Years
<1> DEFINE year == BuyHoldYear(d, f, v, y)
           earned == ((d.price + First(gains, y)) * (100 - v.sellingCosts)) \div 100
                         - left(y) + First(flows, y)
<1>8. y \in Nat \ {0} /\ y \in 0 .. 5 /\ y - 1 \in 0 .. 5
    BY DEF Years
<1>9. year.value = growth[y].value
    <2> HIDE DEF year, value
    <2> QED BY <1>4, <1>7 DEF year
<1>10. /\ First(paid, y) \in Int
       /\ CumPrinc(loan, d.rate, d.term, 12 * y) = First(paid, y)
       /\ LoanBalance(loan, d.rate, d.term, 12 * y) = left(y)
    <2> DEFINE rate == d.rate
               term == d.term
    <2>1. rate \in Nat /\ term \in Nat \ {0} /\ 12 * y <= term /\ loan \in Nat
        BY <1>1
    <2>2. \A z \in Years : paid[z] = PaydownYear(loan, rate, term, z)
        BY <1>2
    <2> HIDE DEF rate, term, Years
    <2>3. /\ First(paid, y) \in Int
          /\ CumPrinc(loan, rate, term, 12 * y) = First(paid, y)
          /\ LoanBalance(loan, rate, term, 12 * y) = AtLeast(0, loan - First(paid, y))
        BY <1>8, <2>1, <2>2, PaidBack
    <2> QED BY <2>3 DEF rate, term
<1>11. year.debt = left(y) /\ left(y) \in Int
    <2>1. left(y) \in Int
        BY <1>1, <1>10 DEF AtLeast
    <2> HIDE DEF left, year
    <2> QED BY <1>7, <1>10, <2>1 DEF year
<1>12. year.deductions = year.expenses + taxes.years[y].total
    <2> DEFINE a == DepreciationAmount(d, v)
               b == YearlyInterestPaid(loan, d.rate, d.term, y)
    <2>1. year.deductions = year.expenses + a + b /\ taxes.years[y].total = a + b
        BY <1>3, <1>7
    <2>2. a \in Int /\ b \in Int /\ year.expenses \in Int
        <3>1. d.price * v.depreciation \in Int
            BY <1>1 DEF Outlooks
        <3>2. a \in Int
            BY <3>1, Quotient DEF DepreciationAmount
        <3>3. b \in Int
            BY <1>1, <1>8, InterestNumber
        <3>4. year.expenses \in Int
            BY <1>8, FlowIs
        <3> QED BY <3>2, <3>3, <3>4
    <2> HIDE DEF a, b, year, taxes
    <2> QED BY <2>1, <2>2
<1>13. /\ First(gains, y - 1) \in Int
       /\ d.price + First(gains, y) = value(y) /\ d.price + First(gains, y - 1) = value(y - 1)
    <2> DEFINE price == d.price
               percent == v.appreciation
    <2>1. price \in Int /\ percent \in Nat
        BY <1>1
    <2>2. \A z \in Years : gains[z] = Grown(price, percent, z) - Grown(price, percent, z - 1)
        BY <1>5
    <2> HIDE DEF price, percent, Years
    <2>3. \A n \in 0 .. 5 : First(gains, n) \in Int /\ price + First(gains, n) = Grown(price, percent, n)
        BY <2>1, <2>2, GainsAdd
    <2> QED BY <1>8, <2>3 DEF price, percent
<1>14. /\ v.expenseIncrease = 0 => year.profit >= earned
       /\ v.expenseIncrease = 0 /\ v.incomeIncrease = 0 => year.profit = earned
    <2> SUFFICES ASSUME v.expenseIncrease = 0
                 PROVE  year.profit >= earned /\ (v.incomeIncrease = 0 => year.profit = earned)
        OBVIOUS
    <2> DEFINE s == (value(y) * (100 - v.sellingCosts)) \div 100
               c == flows[y] * y
               l == left(y)
    <2>1. s \in Int
        <3> DEFINE price == d.price
                   percent == v.appreciation
        <3>1. value(y) \in Int
            <4>1. price \in Int /\ percent \in Nat
                BY <1>1
            <4> HIDE DEF price, percent
            <4>2. Grown(price, percent, y) \in Int
                BY <1>8, <4>1, GrownIs
            <4> QED BY <4>2 DEF price, percent
        <3> HIDE DEF value
        <3>2. value(y) * (100 - v.sellingCosts) \in Int
            BY <1>1, <3>1
        <3> QED BY <3>2, Quotient
    <2>2. year.profit = s - l + c
        BY <1>6, <1>7, <1>10
    <2>3. earned = s - l + First(flows, y)
        <3> HIDE DEF value, left
        <3> QED BY <1>13
    <2>4. c \in Int /\ First(flows, y) \in Int
        <3>1. First(flows, y) \in Int
            BY <1>6, FirstYears
        <3> QED BY <1>6, <1>8, <3>1
    <2>5. \A z \in 1 .. 4 : flows[z] <= flows[z + 1] /\ (v.incomeIncrease = 0 => flows[z] = flows[z + 1])
        <3> SUFFICES ASSUME NEW z \in 1 .. 4
                     PROVE  flows[z] <= flows[z + 1] /\ (v.incomeIncrease = 0 => flows[z] = flows[z + 1])
            OBVIOUS
        <3>1. z \in Nat \ {0} /\ z \in Years /\ z + 1 \in Years
            BY DEF Years
        <3>2. LET now == BuyHoldYear(d, f, v, z).cashFlow
                  next == BuyHoldYear(d, f, v, z + 1).cashFlow
              IN  now <= next /\ (v.incomeIncrease = 0 => now = next)
            BY <3>1, FlowsRise
        <3> QED BY <1>6, <3>1, <3>2
    <2>6. First(flows, y) <= c /\ (v.incomeIncrease = 0 => First(flows, y) = c)
        BY <1>6, <2>5, FirstAtMost
    <2>7. l \in Int
        BY <1>11
    <2> HIDE DEF s, c, l, year, earned
    <2> QED BY <2>1, <2>2, <2>3, <2>4, <2>6, <2>7
<1>15. v.additionalEquity = 0 =>
           equity(y).owned = EstimatedCashToClose(d, f) + First(gains, y - 1) + First(paid, y)
    <2> SUFFICES ASSUME v.additionalEquity = 0
                 PROVE  equity(y).owned = EstimatedCashToClose(d, f) + First(gains, y - 1) + First(paid, y)
        OBVIOUS
    <2>1. equity(y).owned = EstimatedCashToClose(d, f) + (value(y - 1) - d.price)
                                + CumPrinc(loan, d.rate, d.term, 12 * y)
        BY <1>8, OwnedIs DEF loan
    <2>2. value(y - 1) - d.price = First(gains, y - 1)
        <3> HIDE DEF value
        <3> QED BY <1>1, <1>13
    <2> HIDE DEF equity, value
    <2> QED BY <1>10, <2>1, <2>2
<1> QED BY <1>9, <1>11, <1>12, <1>14, <1>15

\* The deal of a builder.
LEMMA DealOf == ASSUME NEW b \in Builders PROVE AnyDeal(Deal(b))
<1>1. b.rent \in Nat /\ b.charges \in Nat
    <2>1. b.rent \in Rents /\ b.charges \in Charges
        BY DEF Builders
    <2> QED BY <2>1, ReportsAssumption
<1>2. b.acq \in [price: Nat, costs: Nat, credits: Nat, rate: Nat, term: Nat \ {0}]
    BY ReportsAssumption DEF Builders
<1>3. Deal(b).rent \in Nat /\ Deal(b).charges \in Nat
    BY <1>1 DEF Deal
<1>4. /\ Deal(b).price \in Nat /\ Deal(b).costs \in Nat /\ Deal(b).credits \in Nat
      /\ Deal(b).rate \in Nat /\ Deal(b).term \in Nat \ {0}
    BY <1>2 DEF Deal
<1> QED BY <1>3, <1>4 DEF AnyDeal

LEMMA StoriesAgree == SavesInv => ProjectionsAgree
<1> SUFFICES ASSUME SavesInv, builder # None, NEW f \in Forms, NEW v \in Views
             PROVE  TabsAgreeOn[Deal(builder)][f][v]
    BY DEF ProjectionsAgree
<1>1. PICK b \in Builders : b = builder
    BY DEF SavesInv
<1>2. PICK d \in {Deal(c) : c \in Builders} : d = Deal(b)
    OBVIOUS
<1>3. f \in Pages /\ v \in Outlooks
    BY ReportsAssumption
<1>4. TabsAgree(d, f, v)
    BY <1>2, <1>3, DealOf, OneStory
<1>5. TabsAgreeOn[d][f][v] = TabsAgree(d, f, v)
    BY Zenon DEF TabsAgreeOn
<1>6. TabsAgreeOn[d][f][v]
    BY <1>4, <1>5, Zenon
<1> QED BY <1>1, <1>2, <1>6, Zenon

\* The tabs and the summary of an analysis tell one story of the years ahead,
\* of every price, rent, rate and term and every percentage they may be asked
\* with: the months that computeLoanBalance, PaydownSummary and the summary walk
\* are those of one balance, and what a year gains, pays back or brings adds up
\* to what the years before the exit have left.
THEOREM ProjectionsSafe == Spec => []ProjectionsAgree
BY SavesSafe, StoriesAgree, PTL

-----------------------------------------------------------------------------
(* What is stored and remembered. *)

\* A row and a save have the fields they are made with.
RowShape(row) == row = [total |-> row.total, items |-> row.items]
ItemShape(item) == item = [slot |-> item.slot, id |-> item.id, value |-> item.value]
SaveShape(q) == q = [at |-> q.at, pc |-> q.pc, forms |-> q.forms, seen |-> q.seen, todo |-> q.todo,
                     labels |-> q.labels, failed |-> q.failed, alone |-> q.alone]

\* The sections of a builder, each a row, without costs as long as it has no total.
Rows(sections) ==
    /\ sections = [s \in Sections |-> sections[s]]
    /\ \A s \in Sections : /\ RowShape(sections[s])
                           /\ \A item \in sections[s].items : ItemShape(item)
                           /\ ~Stored(sections[s]) => sections[s].items = {}

Shapes ==
    /\ flow \in Analyzers
    /\ Rows(store)
    /\ jobs = [r \in Savers |-> jobs[r]]
    /\ \A r \in Savers : SaveShape(jobs[r]) /\ Rows(jobs[r].seen)
    /\ mixed \in BOOLEAN

\* The statements of the section a save is at, and the one it is about to make.
Works(fl, q) == q.at \in 1..Len(fl)
Lists(fl, q) == Steps(fl[q.at], ~Stored(q.seen[fl[q.at]]))

\* A save has a body and is at a step of a section, with costs the step is about,
\* and still has one to wait for when another has failed.
Placed(fl, q) ==
    /\ q.failed \in BOOLEAN /\ q.alone \in BOOLEAN
    /\ q.at = 0 => q = NoSave
    /\ q.at # 0 => q.at \in 1..Len(fl) + 1 /\ q.forms \in Bodies
    /\ Works(fl, q) =>
         LET s == fl[q.at] IN
         /\ q.pc \in 1..Len(Lists(fl, q))
         /\ q.failed => Together(s)
         /\ q.todo \subseteq Tasks(s, q.forms[s], q.seen[s], Lists(fl, q)[q.pc])
    /\ q.at = Len(fl) + 1 => q.todo = {}
    /\ q.failed => q.todo # {}

\* Rows stay: a save finds the ones it has read, and the one it writes costs for.
RowsStay(fl, st, q) ==
    /\ \A s \in Sections : Stored(q.seen[s]) => Stored(st[s])
    /\ Works(fl, q) /\ Lists(fl, q)[q.pc] \in {"items", "labels", "create"} => Stored(st[fl[q.at]])

\* A section that is renewed has one item, and none outside the analyzer's flow.
OneItem ==
    \A s \in Renewed :
        /\ \A x, y \in store[s].items : x.slot = y.slot => x = y
        /\ (\A i \in 1..Len(flow) : flow[i] # s) => store[s].items = {}

\* Who runs alone, and who may while saves are not mixed.
Solitary ==
    \A r \in Savers : Busy(r) =>
        /\ jobs[r].alone => \A q \in Savers \ {r} : ~Busy(q)
        /\ ~mixed => jobs[r].alone

Slotted(row) == {item.slot : item \in row.items}
Sent(s, f, row, todo) ==
    \A k \in Given(s, f) \ todo : \E item \in At(row, k) : item.value = Columns(s, f.items[k])

\* What a save that runs alone finds in a section at each of its steps.
Before(s, f, seen, row, step, todo, labels) ==
    /\ s \in Renewed =>
         /\ step = "clear" => Slotted(row) \subseteq todo
         /\ step \in {"check", "row"} => row.items = {}
         /\ step = "items" => /\ row.total = Total(s, f, NoRow)
                              /\ Slotted(row) \subseteq Given(s, f)
                              /\ Sent(s, f, row, todo)
    /\ s = "cCoast" =>
         /\ step = "clear" => /\ row.items \subseteq seen.items
                              /\ Slotted(row) \subseteq Given(s, f) \cup todo
         /\ step = "check" => row.items = {}
         /\ step = "row" => IF Stored(seen) THEN Kept(s, f, row) ELSE row.items = {}
         /\ step = "items" => Slotted(row) \subseteq Given(s, f) /\ Sent(s, f, row, todo)
    /\ s = "brRefi" =>
         /\ step = "row" /\ Stored(seen) => Sent(s, f, row, {})
         /\ step = "items" => /\ Sent(s, f, row, todo)
                              /\ ~Stored(seen) => row.total = Total(s, f, NoRow)
    /\ s = "refi" =>
         /\ step \in {"check", "row", "labels", "create"} => Slotted(seen) \subseteq Slotted(row)
         /\ step \in {"labels", "create", "items"} => row.total = Total(s, f, NoRow)
         /\ step = "create" => labels \subseteq Slotted(row)
         /\ step = "items" => Given(s, f) \subseteq Slotted(row)

\* And what it leaves.
Matches(s, f, row) ==
    /\ s \in Renewed \cup {"brRefi", "refi"} => row.total = Total(s, f, NoRow)
    /\ s \in Renewed \cup {"cCoast", "brRefi"} => Kept(s, f, row)
    /\ s = "refi" => Given(s, f) \subseteq Slotted(row)

Undisturbed(fl, st, q) ==
    q.at # 0 /\ q.alone =>
        /\ \A i \in 1..Len(fl) : i < q.at => Matches(fl[i], q.forms[fl[i]], st[fl[i]])
        /\ Works(fl, q) /\ ~q.failed =>
             LET s == fl[q.at] IN
             Before(s, q.forms[s], q.seen[s], st[s], Lists(fl, q)[q.pc], q.todo, q.labels)
        /\ \A i \in 1..Len(fl) : i > q.at => st[fl[i]] = q.seen[fl[i]]

SectionsInv ==
    /\ Shapes
    /\ \A r \in Savers : Placed(flow, jobs[r]) /\ RowsStay(flow, store, jobs[r]) /\ Undisturbed(flow, store, jobs[r])
    /\ OneItem
    /\ Solitary
    /\ TotalIsSum

\* What each step leaves for the next one.
After(s, f, seen, row, step, labels) ==
    /\ s \in Renewed =>
         /\ step \in {"clear", "check", "row"} => row.items = {}
         /\ step \in {"row", "items"} => row.total = Total(s, f, NoRow)
         /\ step = "items" => Kept(s, f, row)
    /\ s = "cCoast" =>
         /\ step = "clear" => Slotted(row) \subseteq Given(s, f)
         /\ step = "check" => row.items = {}
         /\ step = "row" => IF Stored(seen) THEN Kept(s, f, row) ELSE row.items = {}
         /\ step = "items" => Kept(s, f, row)
    /\ s = "brRefi" =>
         /\ step = "row" => row.total = Total(s, f, NoRow)
         /\ step = "items" \/ (step = "row" /\ Stored(seen)) => Sent(s, f, row, {})
         /\ step = "items" /\ ~Stored(seen) => row.total = Total(s, f, NoRow)
    /\ s = "refi" =>
         /\ step \in {"check", "row", "labels"} => Slotted(seen) \subseteq Slotted(row)
         /\ step \in {"row", "labels", "create", "items"} => row.total = Total(s, f, NoRow)
         /\ step = "labels" => labels \subseteq Slotted(row)
         /\ step \in {"create", "items"} => Given(s, f) \subseteq Slotted(row)

-----------------------------------------------------------------------------
(* The statements of one section. *)

LEMMA SectionNames ==
    ASSUME NEW s \in Sections
    PROVE  \/ s \in Renewed /\ s \notin {"sale", "cCoast", "brRefi", "refi"}
           \/ s \in {"sale", "cCoast", "brRefi", "refi"} /\ s \notin Renewed
BY DEF Sections, Single, Renewed

\* The statements of a section, by what it is.
LEMMA StepLists ==
    ASSUME NEW s \in Sections, NEW seen
    PROVE  LET steps == Steps(s, ~Stored(seen)) IN
           /\ s \in Renewed => steps = IF Stored(seen) THEN <<"clear", "check", "row", "items">>
                                                      ELSE <<"check", "row", "items">>
           /\ s = "cCoast" => steps = IF Stored(seen) THEN <<"clear", "items", "row">>
                                                     ELSE <<"check", "row", "items">>
           /\ s = "brRefi" => steps = IF Stored(seen) THEN <<"check", "items", "row">>
                                                     ELSE <<"check", "row", "items">>
           /\ s = "refi" => steps = <<"check", "row", "labels", "create", "items">>
           /\ s = "sale" => steps = IF Stored(seen) THEN <<"items", "row">> ELSE <<"row", "items">>
<1>1. CASE s = "hCoast"
    BY <1>1 DEF Steps, HCoastSteps, Renewed
<1>2. CASE s = "hDuration"
    BY <1>2 DEF Steps, HDurationSteps, HCoastSteps, Renewed
<1>3. CASE s = "rDuration"
    BY <1>3 DEF Steps, RDurationSteps, HCoastSteps, Renewed
<1>4. CASE s \notin Renewed
    BY <1>4 DEF Steps, CCoastSteps, BrRefiSteps, RefiSteps, SaleSteps, Renewed
<1> QED BY <1>1, <1>2, <1>3, <1>4 DEF Renewed

\* The costs a step has a statement for.
LEMMA TaskSets ==
    ASSUME NEW s \in Sections, NEW f, NEW seen, NEW step
    PROVE  /\ step \notin {"clear", "items"} => Tasks(s, f, seen, step) = {}
           /\ step = "clear" /\ s # "cCoast" => Tasks(s, f, seen, step) = Slotted(seen)
           /\ step = "clear" /\ s = "cCoast" => Tasks(s, f, seen, step) = Slotted(seen) \ Given(s, f)
           /\ step = "items" => Tasks(s, f, seen, step) \subseteq Given(s, f)
           /\ step = "items" /\ s \notin {"refi", "sale"} => Tasks(s, f, seen, step) = Given(s, f)
<1>1. step \notin {"clear", "items"} => Tasks(s, f, seen, step) = {}
    BY DEF Tasks
<1>2. step = "clear" => Tasks(s, f, seen, step)
                            = Slotted(seen) \ (IF s = "cCoast" THEN Given(s, f) ELSE {})
    BY DEF Tasks, Slotted
<1>3. step = "items" => Tasks(s, f, seen, step)
                            = IF s = "refi" THEN ById(f, seen)
                              ELSE IF s = "sale" /\ Stored(seen)
                              THEN {k \in Given(s, f) : At(seen, k) # {}}
                              ELSE Given(s, f)
    BY DEF Tasks
<1>4. ById(f, seen) \subseteq Given("refi", f)
    BY DEF ById
<1> QED BY <1>1, <1>2, <1>3, <1>4

\* A total that is written whatever was seen.
LEMMA SameTotal ==
    ASSUME NEW s \in Renewed \cup {"brRefi", "refi"}, NEW f, NEW seen
    PROVE  Total(s, f, seen) = Total(s, f, NoRow)
BY DEF Total, Renewed

LEMMA SumOne ==
    ASSUME NEW s, NEW f, NEW k, Given(s, f) = {k}, s \in Taxed => f.items[k].taxes # Null,
           Counted(s, f.items[k]) \in Nat
    PROVE  ItemSum(s, f) = Counted(s, f.items[k])
<1> DEFINE n == Counted(s, f.items[k])
           Adds(iter) == iter = [x \in SUBSET {k} |->
                 IF x = {} THEN 0
                 ELSE Counted(s, f.items[CHOOSE y \in x : TRUE]) + iter[x \ {CHOOSE y \in x : TRUE}]]
           one == [x \in SUBSET {k} |-> IF x = {} THEN 0 ELSE n]
           sum == CHOOSE iter : Adds(iter)
<1>1. ItemSum(s, f) = sum[{k}]
    <2>1. ItemSum(s, f) = MapThenSumSet(LAMBDA y : Counted(s, f.items[y]), {k})
        BY DEF ItemSum
    <2> QED BY <2>1 DEF MapThenSumSet, MapThenFoldSet
<1>2. n \in Nat
    OBVIOUS
<1>3. \A x \in SUBSET {k} : x = {} \/ (x = {k} /\ (CHOOSE y \in x : TRUE) = k)
    <2> SUFFICES ASSUME NEW x \in SUBSET {k}, x # {}
                 PROVE  x = {k} /\ (CHOOSE y \in x : TRUE) = k
        OBVIOUS
    <2>1. x = {k}
        OBVIOUS
    <2>2. (CHOOSE y \in x : TRUE) \in x
        BY <2>1
    <2> QED BY <2>1, <2>2
<1>4. Adds(one)
    <2> SUFFICES ASSUME NEW x \in SUBSET {k}
                 PROVE  one[x] = IF x = {} THEN 0
                                 ELSE Counted(s, f.items[CHOOSE y \in x : TRUE]) + one[x \ {CHOOSE y \in x : TRUE}]
        OBVIOUS
    <2>1. CASE x = {}
        BY <2>1
    <2>2. CASE x # {}
        <3>1. x = {k} /\ (CHOOSE y \in x : TRUE) = k
            BY <2>2, <1>3
        <3>2. x \ {CHOOSE y \in x : TRUE} = {}
            BY <3>1
        <3>3. one[x] = n /\ one[{}] = 0
            BY <2>2
        <3>4. Counted(s, f.items[CHOOSE y \in x : TRUE]) = n
            BY <3>1
        <3>5. n + 0 = n
            BY <1>2
        <3> HIDE DEF one, n
        <3> QED BY <2>2, <3>2, <3>3, <3>4, <3>5
    <2> QED BY <2>1, <2>2
<1>5. Adds(sum)
    <2> HIDE DEF Adds, one
    <2> QED BY <1>4
<1>6. sum[{k}] = n
    <2>1. sum[{}] = 0
        BY <1>5
    <2>2. sum[{k}] = Counted(s, f.items[CHOOSE y \in {k} : TRUE]) + sum[{k} \ {CHOOSE y \in {k} : TRUE}]
        BY <1>5
    <2>3. (CHOOSE y \in {k} : TRUE) = k
        BY <1>3
    <2>4. {k} \ {k} = {}
        OBVIOUS
    <2> HIDE DEF sum
    <2> QED BY <1>2, <2>1, <2>2, <2>3, <2>4
<1> QED BY <1>1, <1>6

\* A save finds a section as it was read, when it comes to it.
LEMMA Begins ==
    ASSUME NEW s \in Sections, NEW f, NEW seen, NEW labels, ~Stored(seen) => seen.items = {}
    PROVE  LET step == Steps(s, ~Stored(seen))[1]
           IN  Before(s, f, seen, seen, step, Tasks(s, f, seen, step), labels)
<1> DEFINE step == Steps(s, ~Stored(seen))[1]
           todo == Tasks(s, f, seen, step)
<1> SUFFICES Before(s, f, seen, seen, step, todo, labels)
    OBVIOUS
<1>2. CASE s \in Renewed
    <2>1. step = IF Stored(seen) THEN "clear" ELSE "check"
        <3>1. Steps(s, ~Stored(seen)) = IF Stored(seen) THEN <<"clear", "check", "row", "items">>
                                                   ELSE <<"check", "row", "items">>
            BY <1>2, StepLists
        <3> QED BY <3>1
    <2>2. Stored(seen) => todo = Slotted(seen)
        BY <2>1, <1>2, TaskSets, SectionNames
    <2> HIDE DEF step, todo
    <2> QED BY <1>2, <2>1, <2>2, SectionNames DEF Before
<1>3. CASE s = "cCoast"
    <2>1. step = IF Stored(seen) THEN "clear" ELSE "check"
        <3>1. Steps(s, ~Stored(seen)) = IF Stored(seen) THEN <<"clear", "items", "row">>
                                                   ELSE <<"check", "row", "items">>
            BY <1>3, StepLists
        <3> QED BY <3>1
    <2>2. Stored(seen) => todo = Slotted(seen) \ Given(s, f)
        BY <2>1, <1>3, TaskSets
    <2> HIDE DEF step, todo
    <2> QED BY <1>3, <2>1, <2>2, SectionNames DEF Before
<1>4. CASE s = "brRefi"
    <2>1. step = "check"
        <3>1. Steps(s, ~Stored(seen)) = IF Stored(seen) THEN <<"check", "items", "row">>
                                                   ELSE <<"check", "row", "items">>
            BY <1>4, StepLists
        <3> QED BY <3>1
    <2> HIDE DEF step, todo
    <2> QED BY <1>4, <2>1, SectionNames DEF Before
<1>5. CASE s = "refi"
    <2>1. step = "check"
        <3>1. Steps(s, ~Stored(seen)) = <<"check", "row", "labels", "create", "items">>
            BY <1>5, StepLists
        <3> QED BY <3>1
    <2> HIDE DEF step, todo
    <2> QED BY <1>5, <2>1, SectionNames DEF Before
<1>6. CASE s = "sale"
    <2> HIDE DEF step, todo
    <2> QED BY <1>6, SectionNames DEF Before
<1> QED BY <1>2, <1>3, <1>4, <1>5, <1>6, SectionNames

\* Each step leaves what the next one finds, and the last one the section the body asks for.
LEMMA Goes ==
    ASSUME NEW s \in Sections, NEW f, NEW seen, NEW row, NEW labels,
           NEW pc \in 1..Len(Steps(s, ~Stored(seen))),
           After(s, f, seen, row, Steps(s, ~Stored(seen))[pc], labels)
    PROVE  LET steps == Steps(s, ~Stored(seen))
           IN  /\ pc < Len(steps) => Before(s, f, seen, row, steps[pc + 1],
                                            Tasks(s, f, seen, steps[pc + 1]), labels)
               /\ pc = Len(steps) => Matches(s, f, row)
<1> DEFINE steps == Steps(s, ~Stored(seen))
           next == steps[pc + 1]
           todo == Tasks(s, f, seen, next)
<1>1. pc \in 1..Len(steps)
    OBVIOUS
<1>2. s \notin {"refi", "sale"} /\ next = "items" => todo = Given(s, f)
    BY TaskSets
<1>3. s \notin {"refi", "sale"} /\ next = "items" => Sent(s, f, row, todo)
    BY <1>2 DEF Sent
<1>4. CASE s \in Renewed
    <2>1. steps = IF Stored(seen) THEN <<"clear", "check", "row", "items">>
                                   ELSE <<"check", "row", "items">>
        BY <1>4, StepLists
    <2>2. /\ pc < Len(steps) => \/ steps[pc] = "clear" /\ next = "check"
                                \/ steps[pc] = "check" /\ next = "row"
                                \/ steps[pc] = "row" /\ next = "items"
          /\ pc = Len(steps) => steps[pc] = "items"
        <3> HIDE DEF steps
        <3>1. CASE Stored(seen)
            <4>1. steps = <<"clear", "check", "row", "items">> /\ Len(steps) = 4
                BY <2>1, <3>1
            <4>2. pc \in {1, 2, 3, 4}
                BY <1>1, <4>1
            <4> QED BY <4>1, <4>2
        <3>2. CASE ~Stored(seen)
            <4>1. steps = <<"check", "row", "items">> /\ Len(steps) = 3
                BY <2>1, <3>2
            <4>2. pc \in {1, 2, 3}
                BY <1>1, <4>1
            <4> QED BY <4>1, <4>2
        <3> QED BY <3>1, <3>2
    <2>3. /\ steps[pc] \in {"clear", "check", "row"} => row.items = {}
          /\ steps[pc] \in {"row", "items"} => row.total = Total(s, f, NoRow)
          /\ steps[pc] = "items" => Kept(s, f, row)
        BY <1>4 DEF After
    <2>4. row.items = {} => Slotted(row) = {}
        BY DEF Slotted
    <2> HIDE DEF steps, next, todo
    <2>5. pc < Len(steps) => Before(s, f, seen, row, next, todo, labels)
        BY <1>3, <1>4, <2>2, <2>3, <2>4, SectionNames DEF Before
    <2>6. pc = Len(steps) => Matches(s, f, row)
        BY <1>4, <2>2, <2>3, SectionNames DEF Matches
    <2> QED BY <2>5, <2>6 DEF steps, next, todo
<1>5. CASE s = "cCoast"
    <2>1. steps = IF Stored(seen) THEN <<"clear", "items", "row">>
                                   ELSE <<"check", "row", "items">>
        BY <1>5, StepLists
    <2>2. /\ pc < Len(steps) => \/ ~Stored(seen) /\ steps[pc] = "check" /\ next = "row"
                                \/ ~Stored(seen) /\ steps[pc] = "row" /\ next = "items"
                                \/ Stored(seen) /\ steps[pc] = "clear" /\ next = "items"
                                \/ Stored(seen) /\ steps[pc] = "items" /\ next = "row"
          /\ pc = Len(steps) => \/ ~Stored(seen) /\ steps[pc] = "items"
                                \/ Stored(seen) /\ steps[pc] = "row"
        <3> HIDE DEF steps
        <3>1. Len(steps) = 3
            BY <2>1
        <3>2. pc \in {1, 2, 3}
            BY <1>1, <3>1
        <3> QED BY <2>1, <3>1, <3>2
    <2>3. /\ steps[pc] = "clear" => Slotted(row) \subseteq Given(s, f)
          /\ steps[pc] = "check" => row.items = {}
          /\ steps[pc] = "row" => IF Stored(seen) THEN Kept(s, f, row) ELSE row.items = {}
          /\ steps[pc] = "items" => Kept(s, f, row)
        BY <1>5 DEF After
    <2>4. row.items = {} => Slotted(row) = {}
        BY DEF Slotted
    <2> HIDE DEF steps, next, todo
    <2>5. pc < Len(steps) => Before(s, f, seen, row, next, todo, labels)
        BY <1>3, <1>5, <2>2, <2>3, <2>4, SectionNames DEF Before
    <2>6. pc = Len(steps) => Matches(s, f, row)
        BY <1>5, <2>2, <2>3, SectionNames DEF Matches
    <2> QED BY <2>5, <2>6 DEF steps, next, todo
<1>6. CASE s = "brRefi"
    <2>1. steps = IF Stored(seen) THEN <<"check", "items", "row">>
                                   ELSE <<"check", "row", "items">>
        BY <1>6, StepLists
    <2>2. /\ pc < Len(steps) => \/ ~Stored(seen) /\ steps[pc] = "check" /\ next = "row"
                                \/ ~Stored(seen) /\ steps[pc] = "row" /\ next = "items"
                                \/ Stored(seen) /\ steps[pc] = "check" /\ next = "items"
                                \/ Stored(seen) /\ steps[pc] = "items" /\ next = "row"
          /\ pc = Len(steps) => \/ ~Stored(seen) /\ steps[pc] = "items"
                                \/ Stored(seen) /\ steps[pc] = "row"
        <3> HIDE DEF steps
        <3>1. Len(steps) = 3
            BY <2>1
        <3>2. pc \in {1, 2, 3}
            BY <1>1, <3>1
        <3> QED BY <2>1, <3>1, <3>2
    <2>3. /\ steps[pc] = "row" => row.total = Total(s, f, NoRow)
          /\ steps[pc] = "items" \/ (steps[pc] = "row" /\ Stored(seen)) => Sent(s, f, row, {})
          /\ steps[pc] = "items" /\ ~Stored(seen) => row.total = Total(s, f, NoRow)
        BY <1>6 DEF After
    <2>4. Sent(s, f, row, {}) => Kept(s, f, row)
        BY <1>6, SectionNames DEF Sent, Kept
    <2> HIDE DEF steps, next, todo
    <2>5. pc < Len(steps) => Before(s, f, seen, row, next, todo, labels)
        BY <1>3, <1>6, <2>2, <2>3, SectionNames DEF Before
    <2>6. pc = Len(steps) => Matches(s, f, row)
        BY <1>6, <2>2, <2>3, <2>4, SectionNames DEF Matches
    <2> QED BY <2>5, <2>6 DEF steps, next, todo
<1>7. CASE s = "refi"
    <2>1. steps = <<"check", "row", "labels", "create", "items">>
        BY <1>7, StepLists
    <2>2. /\ pc < Len(steps) => \/ steps[pc] = "check" /\ next = "row"
                                \/ steps[pc] = "row" /\ next = "labels"
                                \/ steps[pc] = "labels" /\ next = "create"
                                \/ steps[pc] = "create" /\ next = "items"
          /\ pc = Len(steps) => steps[pc] = "items"
        <3> HIDE DEF steps
        <3>1. Len(steps) = 5
            BY <2>1
        <3>2. pc \in {1, 2, 3, 4, 5}
            BY <1>1, <3>1
        <3> QED BY <2>1, <3>1, <3>2
    <2>3. /\ steps[pc] \in {"check", "row", "labels"} => Slotted(seen) \subseteq Slotted(row)
          /\ steps[pc] \in {"row", "labels", "create", "items"} => row.total = Total(s, f, NoRow)
          /\ steps[pc] = "labels" => labels \subseteq Slotted(row)
          /\ steps[pc] \in {"create", "items"} => Given(s, f) \subseteq Slotted(row)
        BY <1>7 DEF After
    <2> HIDE DEF steps, next, todo
    <2>5. pc < Len(steps) => Before(s, f, seen, row, next, todo, labels)
        BY <1>7, <2>2, <2>3, SectionNames DEF Before
    <2>6. pc = Len(steps) => Matches(s, f, row)
        BY <1>7, <2>2, <2>3, SectionNames DEF Matches
    <2> QED BY <2>5, <2>6 DEF steps, next, todo
<1>8. CASE s = "sale"
    <2> HIDE DEF steps, next, todo
    <2>1. Before(s, f, seen, row, next, todo, labels)
        BY <1>8, SectionNames DEF Before
    <2>2. Matches(s, f, row)
        BY <1>8, SectionNames DEF Matches
    <2> QED BY <2>1, <2>2 DEF steps, next, todo
<1> QED BY <1>4, <1>5, <1>6, <1>7, <1>8, SectionNames

\* Costs that are all seen to make a step complete.
LEMMA Completes ==
    ASSUME NEW s \in Sections, NEW f, NEW seen, NEW row, NEW labels, NEW step \in {"clear", "items"},
           Before(s, f, seen, row, step, {}, labels)
    PROVE  After(s, f, seen, row, step, labels)
<1>1. Slotted(row) = {} => row.items = {}
    BY DEF Slotted
<1>2. Slotted(row) \subseteq Given(s, f) => \A item \in row.items : item.slot \in Given(s, f)
    BY DEF Slotted
<1>3. Sent(s, f, row, {}) /\ Slotted(row) \subseteq Given(s, f) => Kept(s, f, row)
    BY <1>2 DEF Sent, Kept
<1>4. CASE s \in Renewed
    BY <1>1, <1>3, <1>4, SectionNames DEF Before, After
<1>5. CASE s = "cCoast"
    BY <1>3, <1>5, SectionNames DEF Before, After
<1>6. CASE s = "brRefi"
    BY <1>6, SectionNames DEF Before, After
<1>7. CASE s = "refi"
    BY <1>7, SectionNames DEF Before, After
<1>8. CASE s = "sale"
    BY <1>8, SectionNames DEF After
<1> QED BY <1>4, <1>5, <1>6, <1>7, <1>8, SectionNames

\* A body that is accepted, a row that is written, labels that are read.
LEMMA CheckLeaves ==
    ASSUME NEW s \in Sections, NEW f, NEW seen, NEW row, NEW todo, NEW labels,
           Before(s, f, seen, row, "check", todo, labels)
    PROVE  After(s, f, seen, row, "check", labels)
BY SectionNames DEF Before, After

LEMMA RowLeaves ==
    ASSUME NEW s \in Sections, NEW f, NEW seen, NEW row, NEW new, NEW todo, NEW labels,
           Before(s, f, seen, row, "row", todo, labels),
           new.items = row.items, new.total = Total(s, f, seen)
    PROVE  After(s, f, seen, new, "row", labels)
<1>1. Kept(s, f, row) => Kept(s, f, new)
    BY DEF Kept, At
<1>2. Sent(s, f, row, {}) => Sent(s, f, new, {})
    BY DEF Sent, At
<1>3. Slotted(new) = Slotted(row)
    BY DEF Slotted
<1>4. s \in Renewed \cup {"brRefi", "refi"} => new.total = Total(s, f, NoRow)
    BY SameTotal
<1>5. CASE s \in Renewed
    BY <1>4, <1>5, SectionNames DEF Before, After
<1>6. CASE s = "cCoast"
    BY <1>1, <1>6, SectionNames DEF Before, After
<1>7. CASE s = "brRefi"
    BY <1>2, <1>4, <1>7, SectionNames DEF Before, After
<1>8. CASE s = "refi"
    BY <1>3, <1>4, <1>8, SectionNames DEF Before, After
<1>9. CASE s = "sale"
    BY <1>9, SectionNames DEF After
<1> QED BY <1>5, <1>6, <1>7, <1>8, <1>9, SectionNames

LEMMA LabelsLeave ==
    ASSUME NEW s \in Sections, NEW f, NEW seen, NEW row, NEW todo, NEW labels,
           Before(s, f, seen, row, "labels", todo, labels)
    PROVE  After(s, f, seen, row, "labels", Slotted(row))
BY SectionNames DEF Before, After

\* Every cost without an id whose label was not read is stored: then all are there.
LEMMA CreateLeaves ==
    ASSUME NEW s \in Sections, NEW f, NEW seen, NEW row, NEW new, NEW todo, NEW labels,
           Before(s, f, seen, row, "create", todo, labels), new.total = row.total,
           Slotted(row) \cup (Given(s, f) \ (ById(f, seen) \cup labels)) \subseteq Slotted(new)
    PROVE  After(s, f, seen, new, "create", labels)
<1>1. ById(f, seen) \subseteq Slotted(seen)
    BY DEF ById, At, Slotted
<1>2. CASE s = "refi"
    BY <1>1, <1>2, SectionNames DEF Before, After
<1>3. CASE s # "refi"
    BY <1>3, SectionNames DEF After
<1> QED BY <1>2, <1>3

\* A cost is deleted: what is left of the section are costs still to be deleted, or sent.
LEMMA DeleteLeaves ==
    ASSUME NEW s \in Sections, NEW f, NEW seen, NEW row, NEW new, NEW todo, NEW labels, NEW k,
           Before(s, f, seen, row, "clear", todo, labels), new.total = row.total,
           new.items = {item \in row.items : item.slot # k \/
                          (s \notin Renewed /\ item.id \notin {i.id : i \in At(seen, k)})}
    PROVE  Before(s, f, seen, new, "clear", todo \ {k}, labels)
<1>1. new.items \subseteq row.items
    OBVIOUS
<1>2. \A item \in new.items : item.slot = k => s \notin Renewed /\ item \notin seen.items
    BY DEF At
<1>3. CASE s \in Renewed
    BY <1>1, <1>2, <1>3, SectionNames DEF Before, Slotted
<1>4. CASE s = "cCoast"
    <2>1. row.items \subseteq seen.items /\ Slotted(row) \subseteq Given(s, f) \cup todo
        BY <1>4 DEF Before
    <2>2. new.items \subseteq seen.items
        BY <1>1, <2>1
    <2>3. \A item \in new.items : item.slot \in Given(s, f) \cup (todo \ {k})
        BY <1>1, <1>2, <2>1, <2>2 DEF Slotted
    <2>4. Slotted(new) \subseteq Given(s, f) \cup (todo \ {k})
        BY <2>3 DEF Slotted
    <2> QED BY <1>4, <2>2, <2>4, SectionNames DEF Before
<1>5. CASE s \in {"brRefi", "refi", "sale"}
    BY <1>5, SectionNames DEF Before
<1> QED BY <1>3, <1>4, <1>5, SectionNames

\* A cost is stored, anew or in the place of others of its kind.
LEMMA ItemLeaves ==
    ASSUME NEW s \in Sections, NEW f, NEW seen, NEW row, NEW new, NEW todo, NEW labels, NEW k,
           NEW old, NEW item, k \in Given(s, f),
           Before(s, f, seen, row, "items", todo, labels), new.total = row.total,
           \A x \in old : x.slot = k, new.items = (row.items \ old) \cup {item},
           item.slot = k, s # "sale" => item.value = Columns(s, f.items[k])
    PROVE  Before(s, f, seen, new, "items", todo \ {k}, labels)
<1>1. Slotted(row) \subseteq Slotted(new)
    BY DEF Slotted
<1>2. Slotted(new) \subseteq Slotted(row) \cup {k}
    BY DEF Slotted
<1>3. s # "sale" /\ Sent(s, f, row, todo) => Sent(s, f, new, todo \ {k})
    <2> SUFFICES ASSUME s # "sale", Sent(s, f, row, todo), NEW j \in Given(s, f) \ (todo \ {k})
                 PROVE  \E x \in At(new, j) : x.value = Columns(s, f.items[j])
        BY DEF Sent
    <2>1. CASE j = k
        BY <2>1 DEF At
    <2>2. CASE j # k
        <3>1. PICK x \in At(row, j) : x.value = Columns(s, f.items[j])
            BY <2>2 DEF Sent
        <3> QED BY <2>2, <3>1 DEF At
    <2> QED BY <2>1, <2>2
<1>4. CASE s \in Renewed
    BY <1>2, <1>3, <1>4, SectionNames DEF Before
<1>5. CASE s = "cCoast"
    BY <1>2, <1>3, <1>5, SectionNames DEF Before
<1>6. CASE s = "brRefi"
    BY <1>3, <1>6, SectionNames DEF Before
<1>7. CASE s = "refi"
    BY <1>1, <1>7, SectionNames DEF Before
<1>8. CASE s = "sale"
    BY <1>8, SectionNames DEF Before
<1> QED BY <1>4, <1>5, <1>6, <1>7, <1>8, SectionNames

-----------------------------------------------------------------------------
(* A save in its flow. *)

LEMMA Flows ==
    ASSUME flow \in Analyzers
    PROVE  /\ Len(flow) \in {1, 2}
           /\ \A i \in 1..Len(flow) : flow[i] \in Sections
           /\ \A i, j \in 1..Len(flow) : flow[i] = flow[j] => i = j
BY DEF Analyzers, FFlip, BrAnalyzer, IStrategy, Wholesale, Sections, Single, Renewed

LEMMA IdleFits ==
    ASSUME Shapes
    PROVE  /\ SaveShape(NoSave) /\ Rows(NoSave.seen)
           /\ Placed(flow, NoSave) /\ RowsStay(flow, store, NoSave) /\ Undisturbed(flow, store, NoSave)
           /\ NoSave.at = 0
<1>1. SaveShape(NoSave) /\ NoSave.at = 0 /\ NoSave.failed = FALSE /\ NoSave.alone = TRUE
    BY DEF SaveShape, NoSave
<1>2. \A s \in Sections : NoSave.seen[s] = NoRow
    BY DEF NoSave
<1>3. NoSave.seen = [s \in Sections |-> NoSave.seen[s]]
    BY DEF NoSave
<1>4. RowShape(NoRow) /\ NoRow.items = {} /\ ~Stored(NoRow)
    BY DEF RowShape, NoRow, Stored
<1>5. Rows(NoSave.seen)
    BY <1>2, <1>3, <1>4 DEF Rows
<1>6. Len(flow) \in {1, 2}
    BY Flows DEF Shapes
<1>7. ~Works(flow, NoSave) /\ NoSave.at # Len(flow) + 1
    BY <1>1, <1>6 DEF Works
<1>8. Placed(flow, NoSave)
    BY <1>1, <1>7 DEF Placed
<1>9. RowsStay(flow, store, NoSave)
    BY <1>2, <1>4, <1>7 DEF RowsStay
<1>10. Undisturbed(flow, store, NoSave)
    BY <1>1 DEF Undisturbed
<1> QED BY <1>1, <1>5, <1>8, <1>9, <1>10

\* What becomes of the section a save is at; what a statement of it may make of the row.
Fits(r, row) ==
    /\ RowShape(row) /\ \A item \in row.items : ItemShape(item)
    /\ ~Stored(row) => row.items = {}
    /\ Stored(store[Sec(r)]) => Stored(row)
    /\ Sec(r) \in Renewed =>
         /\ \A x, y \in row.items : x.slot = y.slot => x = y
         /\ ~mixed => \A item \in row.items : Sums(Sec(r), row.total, item.value)

Writes(r, q, row) ==
    /\ store' = [store EXCEPT ![Sec(r)] = row]
    /\ jobs' = [jobs EXCEPT ![r] = q]
    /\ UNCHANGED <<flow, mixed>>

\* A statement of one save disturbs no other: the others are not alone.
LEMMA WritesKeep ==
    ASSUME SectionsInv, NEW r \in Savers, AtWork(r), NEW q, NEW row, Fits(r, row), Writes(r, q, row),
           SaveShape(q), q = NoSave \/ (q.seen = jobs[r].seen /\ q.alone = jobs[r].alone),
           Placed(flow, q), Undisturbed(flow, [store EXCEPT ![Sec(r)] = row], q),
           Works(flow, q) /\ Lists(flow, q)[q.pc] \in {"items", "labels", "create"} =>
               Stored([store EXCEPT ![Sec(r)] = row][flow[q.at]])
    PROVE  SectionsInv'
<1> DEFINE st == [store EXCEPT ![Sec(r)] = row]
<1>1. /\ flow \in Analyzers /\ Rows(store) /\ jobs = [p \in Savers |-> jobs[p]]
      /\ \A p \in Savers : SaveShape(jobs[p]) /\ Rows(jobs[p].seen)
      /\ mixed \in BOOLEAN
    BY DEF SectionsInv, Shapes
<1>2. jobs[r].at \in 1..Len(flow) /\ Sec(r) \in Sections /\ Len(flow) \in {1, 2}
    BY <1>1, Flows DEF AtWork, Sec
<1>3. /\ store' = st /\ flow' = flow /\ mixed' = mixed
      /\ st = [s \in Sections |-> st[s]]
      /\ \A s \in Sections : st[s] = IF s = Sec(r) THEN row ELSE store[s]
    BY <1>1, <1>2 DEF Writes, Rows
<1>4. jobs' = [p \in Savers |-> IF p = r THEN q ELSE jobs[p]]
    BY <1>1 DEF Writes
<1> HIDE DEF st
<1>5. \A s \in Sections : Stored(store[s]) => Stored(st[s])
    BY <1>3 DEF Fits
<1>6. \A p \in Savers \ {r} : Busy(p) => ~jobs[p].alone
    <2>1. Busy(r)
        BY <1>2 DEF Busy
    <2> QED BY <2>1 DEF SectionsInv, Solitary
<1>7. Rows(st)
    BY <1>1, <1>3 DEF Rows, Fits
<1>8. Rows(q.seen)
    BY <1>1, IdleFits DEF SectionsInv
<1>9. Shapes'
    <2>1. jobs' = [p \in Savers |-> jobs'[p]]
        BY <1>4
    <2>2. \A p \in Savers : SaveShape(jobs'[p]) /\ Rows(jobs'[p].seen)
        BY <1>1, <1>4, <1>8
    <2>3. Rows(store)'
        BY <1>3, <1>7 DEF Rows, RowShape, ItemShape, Stored
    <2>4. \A p \in Savers : SaveShape(jobs[p])' /\ Rows(jobs[p].seen)'
        BY <2>2 DEF SaveShape, Rows, RowShape, ItemShape, Stored
    <2> QED BY <1>1, <1>3, <2>1, <2>3, <2>4 DEF Shapes
<1>10. ASSUME NEW p \in Savers
       PROVE  /\ Placed(flow, jobs[p])'
              /\ RowsStay(flow, store, jobs[p])'
              /\ Undisturbed(flow, store, jobs[p])'
    <2>1. CASE p = r
        <3>1. RowsStay(flow, st, q)
            <4>1. \A s \in Sections : Stored(jobs[r].seen[s]) => Stored(store[s])
                BY DEF SectionsInv, RowsStay
            <4>2. \A s \in Sections : Stored(q.seen[s]) => Stored(st[s])
                BY <1>1, <1>5, <4>1, IdleFits DEF SectionsInv, RowsStay
            <4> QED BY <4>2 DEF RowsStay, st
        <3>2. Placed(flow, q) /\ RowsStay(flow, st, q) /\ Undisturbed(flow, st, q)
            BY <3>1 DEF st
        <3>3. jobs'[p] = q
            BY <1>4, <2>1
        <3> QED BY <1>3, <3>2, <3>3
    <2>2. CASE p # r
        <3>1. jobs'[p] = jobs[p]
            BY <1>4, <2>2
        <3>2. Placed(flow, jobs[p]) /\ RowsStay(flow, store, jobs[p])
            BY DEF SectionsInv
        <3>3. RowsStay(flow, st, jobs[p])
            <4>1. Works(flow, jobs[p]) => flow[jobs[p].at] \in Sections
                BY <1>1, Flows DEF Works
            <4> QED BY <1>5, <3>2, <4>1 DEF RowsStay
        <3>4. Undisturbed(flow, st, jobs[p])
            BY <1>6, <2>2 DEF Undisturbed, Busy
        <3> QED BY <1>3, <3>1, <3>2, <3>3, <3>4
    <2> QED BY <2>1, <2>2
<1>11. OneItem'
    <2>1. OneItem
        BY DEF SectionsInv
    <2>2. ASSUME NEW s \in Renewed
          PROVE  /\ \A x, y \in st[s].items : x.slot = y.slot => x = y
                 /\ (\A i \in 1..Len(flow) : flow[i] # s) => st[s].items = {}
        <3>1. s \in Sections
            BY <2>2 DEF Sections, Single
        <3>2. CASE s = Sec(r)
            <4>1. ~\A i \in 1..Len(flow) : flow[i] # s
                BY <1>2, <3>2 DEF Sec
            <4> QED BY <1>3, <2>2, <3>1, <3>2, <4>1 DEF Fits
        <3>3. CASE s # Sec(r)
            BY <1>3, <2>1, <2>2, <3>1, <3>3 DEF OneItem
        <3> QED BY <3>2, <3>3
    <2> QED BY <1>3, <2>2 DEF OneItem
<1>12. Solitary'
    <2>1. Solitary
        BY DEF SectionsInv
    <2>2. q.at # 0 => q.alone = jobs[r].alone
        BY IdleFits, <1>1 DEF SectionsInv
    <2>3. Busy(r)
        BY <1>2 DEF Busy
    <2>4. \A p \in Savers : jobs'[p] = IF p = r THEN q ELSE jobs[p]
        BY <1>4
    <2>5. \A p \in Savers \ {r} : jobs'[p].at # 0 => ~jobs'[p].alone /\ mixed
        BY <1>6, <2>1, <2>4 DEF Solitary, Busy
    <2>6. q.at # 0 => /\ q.alone => \A p \in Savers \ {r} : jobs'[p].at = 0
                      /\ ~mixed => q.alone
        BY <2>1, <2>2, <2>3, <2>4 DEF Solitary, Busy
    <2> QED BY <1>3, <2>4, <2>5, <2>6 DEF Solitary, Busy
<1>13. TotalIsSum'
    <2>1. TotalIsSum
        BY DEF SectionsInv
    <2>2. ASSUME ~mixed, NEW s \in Renewed, NEW item \in st[s].items
          PROVE  Sums(s, st[s].total, item.value)
        <3>1. s \in Sections
            BY DEF Sections, Single
        <3> QED BY <1>3, <2>1, <2>2, <3>1 DEF TotalIsSum, Fits
    <2> QED BY <1>3, <2>2 DEF TotalIsSum
<1> QED BY <1>9, <1>10, <1>11, <1>12, <1>13 DEF SectionsInv

LEMMA Entered ==
    ASSUME NEW q, SaveShape(q), NEW i, NEW pc
    PROVE  LET e == Entering(q, i, pc) IN
           /\ SaveShape(e) /\ e.at = i /\ e.pc = pc
           /\ e.forms = q.forms /\ e.seen = q.seen /\ e.labels = q.labels
           /\ e.failed = q.failed /\ e.alone = q.alone
           /\ e.todo = IF i > Len(flow) THEN {}
                       ELSE LET s == flow[i] IN
                            Tasks(s, q.forms[s], q.seen[s], Steps(s, ~Stored(q.seen[s]))[pc])
<1> DEFINE todo == IF i > Len(flow) THEN {}
                   ELSE LET s == flow[i] IN
                        Tasks(s, q.forms[s], q.seen[s], Steps(s, ~Stored(q.seen[s]))[pc])
<1>1. Entering(q, i, pc) = [q EXCEPT !.at = i, !.pc = pc, !.todo = todo]
    BY DEF Entering
<1> HIDE DEF todo
<1>2. Entering(q, i, pc) = [at |-> i, pc |-> pc, forms |-> q.forms, seen |-> q.seen, todo |-> todo,
                            labels |-> q.labels, failed |-> q.failed, alone |-> q.alone]
    BY <1>1 DEF SaveShape
<1>3. LET e == Entering(q, i, pc) IN
      /\ e.at = i /\ e.pc = pc
      /\ e.forms = q.forms /\ e.seen = q.seen /\ e.labels = q.labels
      /\ e.failed = q.failed /\ e.alone = q.alone /\ e.todo = todo
    BY <1>2
<1>4. SaveShape(Entering(q, i, pc))
    BY <1>2 DEF SaveShape
<1> QED BY <1>3, <1>4 DEF todo

\* Every list of statements starts with a check, or a row, or with what was seen;
\* costs are written once the section has a row.
LEMMA Lengths ==
    ASSUME NEW s \in Sections, NEW seen
    PROVE  /\ Len(Steps(s, ~Stored(seen))) \in Nat
           /\ 1 \in 1..Len(Steps(s, ~Stored(seen)))
<1> DEFINE n == Len(Steps(s, ~Stored(seen)))
<1>1. n \in {2, 3, 4, 5}
    <2>1. s \in Renewed => n \in {3, 4}
        BY StepLists
    <2>2. s = "cCoast" => n = 3
        BY StepLists
    <2>3. s = "brRefi" => n = 3
        BY StepLists
    <2>4. s = "refi" => n = 5
        BY StepLists
    <2>5. s = "sale" => n = 2
        BY StepLists
    <2> QED BY <2>1, <2>2, <2>3, <2>4, <2>5, SectionNames
<1> QED BY <1>1

LEMMA FirstSteps ==
    ASSUME NEW s \in Sections, NEW seen,
           Steps(s, ~Stored(seen))[1] \in {"items", "labels", "create"}
    PROVE  Stored(seen)
<1> DEFINE step == Steps(s, ~Stored(seen))[1]
<1>1. s \in Renewed => step \in {"clear", "check"}
    BY StepLists
<1>2. s = "cCoast" => step \in {"clear", "check"}
    BY StepLists
<1>3. s = "brRefi" => step = "check"
    BY StepLists
<1>4. s = "refi" => step = "check"
    BY StepLists
<1>5. s = "sale" => step = IF Stored(seen) THEN "items" ELSE "row"
    <2>1. s = "sale" => Steps(s, ~Stored(seen)) = IF Stored(seen) THEN <<"items", "row">> ELSE <<"row", "items">>
        BY StepLists
    <2> QED BY <2>1
<1> HIDE DEF step
<1>6. step \in {"items", "labels", "create"}
    BY DEF step
<1> QED BY <1>1, <1>2, <1>3, <1>4, <1>5, <1>6, SectionNames

LEMMA CostsAfterRow ==
    ASSUME NEW s \in Sections, NEW seen, NEW pc \in 1..Len(Steps(s, ~Stored(seen))),
           pc < Len(Steps(s, ~Stored(seen))),
           Steps(s, ~Stored(seen))[pc + 1] \in {"items", "labels", "create"}
    PROVE  Stored(seen) \/ Steps(s, ~Stored(seen))[pc] \in {"row", "items", "labels", "create"}
<1> SUFFICES ASSUME ~Stored(seen)
             PROVE  Steps(s, ~Stored(seen))[pc] \in {"row", "items", "labels", "create"}
    OBVIOUS
<1> DEFINE steps == Steps(s, ~Stored(seen))
<1>1. pc \in 1..Len(steps) /\ pc < Len(steps) /\ steps[pc + 1] \in {"items", "labels", "create"}
    OBVIOUS
<1>2. s \in Renewed \cup {"cCoast", "brRefi"} => steps = <<"check", "row", "items">>
    BY StepLists
<1>3. s = "refi" => steps = <<"check", "row", "labels", "create", "items">>
    BY StepLists
<1>4. s = "sale" => steps = <<"row", "items">>
    BY StepLists
<1> SUFFICES steps[pc] \in {"row", "items", "labels", "create"}
    OBVIOUS
<1> HIDE DEF steps
<1>5. CASE s \in Renewed \cup {"cCoast", "brRefi"}
    <2>1. steps = <<"check", "row", "items">> /\ pc \in {1, 2}
        BY <1>1, <1>2, <1>5
    <2> QED BY <1>1, <2>1
<1>6. CASE s = "refi"
    <2>1. steps = <<"check", "row", "labels", "create", "items">> /\ Len(steps) = 5
        BY <1>3, <1>6
    <2>2. pc \in {1, 2, 3, 4}
        BY <1>1, <2>1
    <2> QED BY <1>1, <2>1, <2>2
<1>7. CASE s = "sale"
    <2>1. steps = <<"row", "items">> /\ Len(steps) = 2
        BY <1>4, <1>7
    <2>2. pc = 1
        BY <1>1, <2>1
    <2> QED BY <2>1, <2>2
<1> QED BY <1>5, <1>6, <1>7, SectionNames

\* A save moves on, to the next statement or the next section.
Moved(r, q, labels) ==
    LET old == jobs[r]
        next == IF old.pc < Len(Lists(flow, old)) THEN Entering(old, old.at, old.pc + 1)
                                                   ELSE Entering(old, old.at + 1, 1)
    IN  /\ SaveShape(q)
        /\ q.at = next.at /\ q.pc = next.pc /\ q.todo = next.todo
        /\ q.forms = old.forms /\ q.seen = old.seen /\ q.labels = labels
        /\ q.failed = old.failed /\ q.alone = old.alone

LEMMA MovedOn ==
    ASSUME Shapes, NEW r \in Savers, Onward(r)
    PROVE  \E q : jobs' = [jobs EXCEPT ![r] = q] /\ Moved(r, q, jobs[r].labels)
<1> DEFINE old == jobs[r]
           next == IF old.pc < Len(Lists(flow, old)) THEN Entering(old, old.at, old.pc + 1)
                                                     ELSE Entering(old, old.at + 1, 1)
<1>1. jobs' = [jobs EXCEPT ![r] = next]
    BY DEF Onward, Now, StepsOf, Seen, Sec, Lists
<1>2. SaveShape(old)
    BY DEF Shapes
<1>3. \A i, pc : LET e == Entering(old, i, pc) IN
          /\ SaveShape(e) /\ e.forms = old.forms /\ e.seen = old.seen /\ e.labels = old.labels
          /\ e.failed = old.failed /\ e.alone = old.alone
    BY <1>2, Entered
<1>4. /\ SaveShape(next) /\ next.forms = old.forms /\ next.seen = old.seen /\ next.labels = old.labels
      /\ next.failed = old.failed /\ next.alone = old.alone
    BY <1>3
<1>5. Moved(r, next, old.labels)
    BY <1>4 DEF Moved
<1> QED BY <1>1, <1>5

\* When it moves on, it finds what the statement left, or the section as it was read.
LEMMA MovesKeep ==
    ASSUME SectionsInv, NEW r \in Savers, AtWork(r), ~jobs[r].failed,
           NEW q, NEW row, NEW labels, Fits(r, row), Writes(r, q, row), Moved(r, q, labels),
           Step(r) \in {"row", "items", "labels", "create"} => Stored(row),
           jobs[r].alone => After(Sec(r), Form(r), Seen(r), row, Step(r), labels)
    PROVE  SectionsInv'
<1> DEFINE old == jobs[r]
           s == flow[old.at]
           st == [store EXCEPT ![s] = row]
           lists == Lists(flow, old)
<1>1. /\ flow \in Analyzers /\ Rows(store) /\ SaveShape(old) /\ Rows(old.seen)
      /\ Placed(flow, old) /\ RowsStay(flow, store, old) /\ Undisturbed(flow, store, old)
    BY DEF SectionsInv, Shapes
<1>2. /\ Len(flow) \in {1, 2}
      /\ \A i \in 1..Len(flow) : flow[i] \in Sections
      /\ \A i, j \in 1..Len(flow) : flow[i] = flow[j] => i = j
    BY <1>1, Flows
<1>3. /\ old.at \in 1..Len(flow) /\ s \in Sections /\ Works(flow, old) /\ old.at # 0
      /\ Sec(r) = s /\ Form(r) = old.forms[s] /\ Seen(r) = old.seen[s]
      /\ Step(r) = lists[old.pc] /\ lists = Steps(s, ~Stored(old.seen[s]))
    BY <1>2 DEF AtWork, Sec, Form, Seen, Step, StepsOf, Lists, Works
<1>4. old.pc \in 1..Len(lists) /\ old.forms \in Bodies /\ old.alone \in BOOLEAN
    BY <1>1, <1>3 DEF Placed
<1>5. /\ \A t \in Sections : st[t] = IF t = s THEN row ELSE store[t]
      /\ st[s] = row
    BY <1>1, <1>3 DEF Rows
<1> HIDE DEF st, lists
<1>6. \A i \in 1..Len(flow) : i # old.at => st[flow[i]] = store[flow[i]]
    BY <1>2, <1>3, <1>5
<1>7. /\ SaveShape(q) /\ q.forms = old.forms /\ q.seen = old.seen /\ q.labels = labels
      /\ q.failed = old.failed /\ q.alone = old.alone
    BY DEF Moved
<1>8. CASE old.pc < Len(lists)
    <2>1. /\ q.at = old.at /\ q.pc = old.pc + 1
          /\ q.todo = Tasks(s, old.forms[s], old.seen[s], lists[old.pc + 1])
        <3>1. /\ q.at = Entering(old, old.at, old.pc + 1).at
              /\ q.pc = Entering(old, old.at, old.pc + 1).pc
              /\ q.todo = Entering(old, old.at, old.pc + 1).todo
            BY <1>8 DEF Moved, lists
        <3>2. ~(old.at > Len(flow))
            BY <1>2, <1>3
        <3> QED BY <1>1, <1>3, <3>1, <3>2, Entered
    <2>2. Works(flow, q) /\ Lists(flow, q) = lists /\ q.at # 0 /\ q.at # Len(flow) + 1
        BY <1>2, <1>3, <1>7, <2>1 DEF Works, Lists, lists
    <2>3. q.pc \in 1..Len(lists)
        BY <1>4, <1>8, <2>1
    <2>4. Placed(flow, q)
        <3>1. q.at \in 1..Len(flow) + 1
            BY <1>2, <1>3, <2>1
        <3>2. q.todo \subseteq Tasks(flow[q.at], q.forms[flow[q.at]], q.seen[flow[q.at]], Lists(flow, q)[q.pc])
            BY <1>7, <2>1, <2>2
        <3>3. ~q.failed /\ q.failed \in BOOLEAN /\ q.alone \in BOOLEAN /\ q.forms \in Bodies
            BY <1>1, <1>4, <1>7 DEF Placed
        <3> QED BY <2>2, <2>3, <3>1, <3>2, <3>3 DEF Placed
    <2>5. Undisturbed(flow, st, q)
        <3>1. SUFFICES ASSUME q.alone PROVE Undisturbed(flow, st, q)
            BY DEF Undisturbed
        <3>2. \A i \in 1..Len(flow) : i < q.at => Matches(flow[i], q.forms[flow[i]], st[flow[i]])
            <4>1. \A i \in 1..Len(flow) : i < old.at => Matches(flow[i], old.forms[flow[i]], store[flow[i]])
                BY <1>1, <1>3, <1>7, <3>1 DEF Undisturbed
            <4>2. \A i \in 1..Len(flow) : i < old.at => i # old.at
                BY <1>2, <1>3
            <4> QED BY <1>6, <1>7, <2>1, <4>1, <4>2
        <3>3. Before(s, q.forms[s], q.seen[s], st[s], lists[q.pc], q.todo, q.labels)
            <4>1. After(s, old.forms[s], old.seen[s], row, lists[old.pc], labels)
                BY <1>3, <1>7, <3>1
            <4>2. Before(s, old.forms[s], old.seen[s], row, lists[old.pc + 1],
                         Tasks(s, old.forms[s], old.seen[s], lists[old.pc + 1]), labels)
                BY <1>3, <1>4, <1>8, <4>1, Goes
            <4> QED BY <1>5, <1>7, <2>1, <4>2
        <3>4. \A i \in 1..Len(flow) : i > q.at => st[flow[i]] = q.seen[flow[i]]
            <4>1. \A i \in 1..Len(flow) : i > old.at => store[flow[i]] = old.seen[flow[i]]
                BY <1>1, <1>3, <1>7, <3>1 DEF Undisturbed
            <4>2. \A i \in 1..Len(flow) : i > old.at => i # old.at
                BY <1>2, <1>3
            <4> QED BY <1>6, <1>7, <2>1, <4>1, <4>2
        <3> QED BY <2>1, <2>2, <3>2, <3>3, <3>4 DEF Undisturbed
    <2>6. lists[q.pc] \in {"items", "labels", "create"} => Stored(row)
        <3>2. Stored(Seen(r)) => Stored(row)
            BY <1>1, <1>3 DEF RowsStay, Fits
        <3>3. lists[q.pc] \in {"items", "labels", "create"} =>
                  Stored(old.seen[s]) \/ lists[old.pc] \in {"row", "items", "labels", "create"}
            BY <1>3, <1>4, <1>8, <2>1, CostsAfterRow
        <3> QED BY <1>3, <3>2, <3>3
    <2> QED
        <3>1. Undisturbed(flow, [store EXCEPT ![Sec(r)] = row], q)
            BY <1>3, <2>5 DEF st
        <3>2. Works(flow, q) /\ Lists(flow, q)[q.pc] \in {"items", "labels", "create"} =>
                  Stored([store EXCEPT ![Sec(r)] = row][flow[q.at]])
            BY <1>3, <1>5, <2>1, <2>2, <2>6 DEF st
        <3> QED BY <1>7, <2>4, <3>1, <3>2, WritesKeep
<1>9. CASE old.pc = Len(lists)
    <2>1. q.at = old.at + 1 /\ q.pc = 1
        <3>1. ~(old.pc < Len(lists))
            BY <1>4, <1>9
        <3>2. q.at = Entering(old, old.at + 1, 1).at /\ q.pc = Entering(old, old.at + 1, 1).pc
            BY <3>1 DEF Moved, lists
        <3> QED BY <1>1, <3>2, Entered
    <2>2. q.todo = IF old.at + 1 > Len(flow) THEN {}
                   ELSE Tasks(flow[q.at], q.forms[flow[q.at]], q.seen[flow[q.at]], Lists(flow, q)[1])
        <3>1. ~(old.pc < Len(lists))
            BY <1>4, <1>9
        <3>2. q.todo = Entering(old, old.at + 1, 1).todo
            BY <3>1 DEF Moved, lists
        <3> QED BY <1>1, <1>7, <2>1, <3>2, Entered DEF Lists
    <2>3. q.at \in 2..Len(flow) + 1 /\ q.at # 0 /\ (q.at = Len(flow) + 1 <=> old.at + 1 > Len(flow))
        BY <1>2, <1>3, <2>1
    <2>4. Works(flow, q) => /\ flow[q.at] \in Sections /\ q.at # old.at /\ ~(old.at + 1 > Len(flow))
                            /\ q.at \in 1..Len(flow) /\ q.at > old.at
        BY <1>2, <1>3, <2>1 DEF Works
    <2>5. Works(flow, q) => 1 \in 1..Len(Lists(flow, q))
        BY <2>4, Lengths DEF Lists
    <2>6. Placed(flow, q)
        <3>1. q.at \in 1..Len(flow) + 1
            BY <1>2, <2>3
        <3>2. Works(flow, q) =>
                  q.todo \subseteq Tasks(flow[q.at], q.forms[flow[q.at]], q.seen[flow[q.at]], Lists(flow, q)[q.pc])
            BY <2>1, <2>2, <2>4
        <3>3. ~q.failed /\ q.failed \in BOOLEAN /\ q.alone \in BOOLEAN /\ q.forms \in Bodies
            BY <1>1, <1>4, <1>7 DEF Placed
        <3> QED BY <2>1, <2>2, <2>3, <2>5, <3>1, <3>2, <3>3 DEF Placed
    <2>7. Undisturbed(flow, st, q)
        <3>1. SUFFICES ASSUME q.alone PROVE Undisturbed(flow, st, q)
            BY DEF Undisturbed
        <3>2. \A i \in 1..Len(flow) : i < q.at => Matches(flow[i], q.forms[flow[i]], st[flow[i]])
            <4>1. \A i \in 1..Len(flow) : i < old.at => Matches(flow[i], old.forms[flow[i]], store[flow[i]])
                BY <1>1, <1>3, <1>7, <3>1 DEF Undisturbed
            <4>2. After(s, old.forms[s], old.seen[s], row, lists[old.pc], labels)
                BY <1>3, <1>7, <3>1
            <4>3. Matches(s, old.forms[s], row)
                BY <1>3, <1>4, <1>9, <4>2, Goes
            <4>4. \A i \in 1..Len(flow) : i < q.at => i = old.at \/ (i < old.at /\ i # old.at)
                BY <1>2, <1>3, <2>1
            <4> QED BY <1>5, <1>6, <1>7, <4>1, <4>3, <4>4
        <3>3. \A i \in 1..Len(flow) : i >= q.at => st[flow[i]] = q.seen[flow[i]]
            <4>1. \A i \in 1..Len(flow) : i > old.at => store[flow[i]] = old.seen[flow[i]]
                BY <1>1, <1>3, <1>7, <3>1 DEF Undisturbed
            <4>2. \A i \in 1..Len(flow) : i >= q.at => i > old.at /\ i # old.at
                BY <1>2, <1>3, <2>1
            <4> QED BY <1>6, <1>7, <4>1, <4>2
        <3>4. Works(flow, q) =>
                  Before(flow[q.at], q.forms[flow[q.at]], q.seen[flow[q.at]], st[flow[q.at]],
                         Lists(flow, q)[q.pc], q.todo, q.labels)
            <4> SUFFICES ASSUME Works(flow, q)
                         PROVE  Before(flow[q.at], q.forms[flow[q.at]], q.seen[flow[q.at]], st[flow[q.at]],
                                       Lists(flow, q)[q.pc], q.todo, q.labels)
                OBVIOUS
            <4> DEFINE t == flow[q.at]
            <4>1. st[t] = q.seen[t]
                BY <2>3, <2>4, <3>3
            <4>2. ~Stored(q.seen[t]) => q.seen[t].items = {}
                BY <1>1, <1>7, <2>4 DEF Rows
            <4>3. q.todo = Tasks(t, q.forms[t], q.seen[t], Lists(flow, q)[1])
                BY <2>2, <2>4
            <4>4. Lists(flow, q) = Steps(t, ~Stored(q.seen[t]))
                BY DEF Lists
            <4>5. t \in Sections
                BY <2>4
            <4> HIDE DEF t
            <4>6. Before(t, q.forms[t], q.seen[t], q.seen[t], Lists(flow, q)[1], q.todo, q.labels)
                BY <4>2, <4>3, <4>4, <4>5, Begins
            <4> QED BY <2>1, <4>1, <4>6 DEF t
        <3>5. \A i \in 1..Len(flow) : i > q.at => i >= q.at
            BY <1>2, <2>3
        <3> QED BY <3>2, <3>3, <3>4, <3>5 DEF Undisturbed
    <2>8. Works(flow, q) /\ Lists(flow, q)[q.pc] \in {"items", "labels", "create"} => Stored(st[flow[q.at]])
        <3>1. Works(flow, q) /\ Lists(flow, q)[1] \in {"items", "labels", "create"} => Stored(q.seen[flow[q.at]])
            BY <2>4, FirstSteps DEF Lists
        <3>2. Works(flow, q) /\ Stored(q.seen[flow[q.at]]) => Stored(store[flow[q.at]])
            BY <1>1, <1>7, <2>4 DEF RowsStay
        <3>3. Works(flow, q) => st[flow[q.at]] = store[flow[q.at]]
            BY <1>6, <2>4
        <3> QED BY <2>1, <3>1, <3>2, <3>3
    <2> QED
        <3>1. Undisturbed(flow, [store EXCEPT ![Sec(r)] = row], q)
            BY <1>3, <2>7 DEF st
        <3>2. Works(flow, q) /\ Lists(flow, q)[q.pc] \in {"items", "labels", "create"} =>
                  Stored([store EXCEPT ![Sec(r)] = row][flow[q.at]])
            BY <1>3, <2>8 DEF st
        <3> QED BY <1>7, <2>6, <3>1, <3>2, WritesKeep
<1>10. old.pc < Len(lists) \/ old.pc = Len(lists)
    <2>1. Len(lists) \in Nat
        BY <1>3, Lengths
    <2> QED BY <1>4, <2>1
<1> QED BY <1>8, <1>9, <1>10

\* A save that ends leaves its section as the statement left it.
LEMMA EndsKeep ==
    ASSUME SectionsInv, NEW r \in Savers, AtWork(r), NEW row, Fits(r, row), Writes(r, NoSave, row)
    PROVE  SectionsInv'
<1>1. Shapes
    BY DEF SectionsInv
<1>2. SaveShape(NoSave) /\ Placed(flow, NoSave) /\ NoSave.at = 0
    BY <1>1, IdleFits
<1>3. Len(flow) \in {1, 2}
    BY <1>1, Flows DEF Shapes
<1>4. ~Works(flow, NoSave)
    BY <1>2, <1>3 DEF Works
<1>5. Undisturbed(flow, [store EXCEPT ![Sec(r)] = row], NoSave)
    BY <1>2 DEF Undisturbed
<1> QED BY <1>2, <1>4, <1>5, WritesKeep

LEMMA Waiting ==
    ASSUME NEW q, SaveShape(q), NEW rest, NEW failed
    PROVE  [q EXCEPT !.todo = rest, !.failed = failed] =
               [at |-> q.at, pc |-> q.pc, forms |-> q.forms, seen |-> q.seen, todo |-> rest,
                labels |-> q.labels, failed |-> failed, alone |-> q.alone]
<1> DEFINE e == [q EXCEPT !.todo = rest, !.failed = failed]
<1>1. DOMAIN q = {"at", "pc", "forms", "seen", "todo", "labels", "failed", "alone"}
    BY DEF SaveShape
<1>2. e = [x \in {"at", "pc", "forms", "seen", "todo", "labels", "failed", "alone"} |-> e[x]]
    BY <1>1
<1>3. e.at = q.at /\ e.pc = q.pc /\ e.forms = q.forms /\ e.seen = q.seen
    BY <1>1
<1>4. e.todo = rest /\ e.labels = q.labels /\ e.failed = failed /\ e.alone = q.alone
    BY <1>1
<1> HIDE DEF e
<1>5. e = [at |-> e.at, pc |-> e.pc, forms |-> e.forms, seen |-> e.seen, todo |-> e.todo,
           labels |-> e.labels, failed |-> e.failed, alone |-> e.alone]
    BY <1>2
<1> QED BY <1>3, <1>4, <1>5 DEF e

\* One that waits for more of its costs is at the same step, with fewer of them.
LEMMA WaitsKeep ==
    ASSUME SectionsInv, NEW r \in Savers, AtWork(r), NEW row, NEW rest, NEW failed \in BOOLEAN,
           rest # {}, rest \subseteq jobs[r].todo, Fits(r, row),
           Writes(r, [jobs[r] EXCEPT !.todo = rest, !.failed = failed], row),
           Step(r) \in {"items", "labels", "create"} => Stored(row), failed => Together(Sec(r)),
           ~failed /\ jobs[r].alone => Before(Sec(r), Form(r), Seen(r), row, Step(r), rest, jobs[r].labels)
    PROVE  SectionsInv'
<1> DEFINE old == jobs[r]
           q == [old EXCEPT !.todo = rest, !.failed = failed]
           s == flow[old.at]
           st == [store EXCEPT ![s] = row]
<1>1. /\ flow \in Analyzers /\ Rows(store) /\ SaveShape(old)
      /\ Placed(flow, old) /\ RowsStay(flow, store, old) /\ Undisturbed(flow, store, old)
    BY DEF SectionsInv, Shapes
<1>2. /\ Len(flow) \in {1, 2}
      /\ \A i \in 1..Len(flow) : flow[i] \in Sections
      /\ \A i, j \in 1..Len(flow) : flow[i] = flow[j] => i = j
    BY <1>1, Flows
<1>3. /\ old.at \in 1..Len(flow) /\ s \in Sections /\ Works(flow, old) /\ old.at # 0 /\ old.at # Len(flow) + 1
      /\ Sec(r) = s /\ Form(r) = old.forms[s] /\ Seen(r) = old.seen[s]
      /\ Step(r) = Lists(flow, old)[old.pc]
    BY <1>2 DEF AtWork, Sec, Form, Seen, Step, StepsOf, Lists, Works
<1>4. q = [at |-> old.at, pc |-> old.pc, forms |-> old.forms, seen |-> old.seen, todo |-> rest,
           labels |-> old.labels, failed |-> failed, alone |-> old.alone]
    BY <1>1, Waiting
<1>5. /\ q.at = old.at /\ q.pc = old.pc /\ q.forms = old.forms /\ q.seen = old.seen /\ q.todo = rest
      /\ q.labels = old.labels /\ q.failed = failed /\ q.alone = old.alone
    BY <1>4
<1>6. SaveShape(q)
    BY <1>4, <1>5 DEF SaveShape
<1>7. /\ \A t \in Sections : st[t] = IF t = s THEN row ELSE store[t]
      /\ st[s] = row
    BY <1>1, <1>3 DEF Rows
<1>8. Writes(r, q, row)
    OBVIOUS
<1> HIDE DEF q, st
<1>9. \A i \in 1..Len(flow) : i # old.at => st[flow[i]] = store[flow[i]]
    BY <1>2, <1>3, <1>7
<1>10. Works(flow, q) /\ Lists(flow, q) = Lists(flow, old)
    BY <1>3, <1>5 DEF Works, Lists
<1>11. Placed(flow, q)
    <2>1. old.todo \subseteq Tasks(s, old.forms[s], old.seen[s], Lists(flow, old)[old.pc])
        BY <1>1, <1>3 DEF Placed
    <2>2. old.pc \in 1..Len(Lists(flow, old)) /\ old.forms \in Bodies /\ old.alone \in BOOLEAN
        BY <1>1, <1>3 DEF Placed
    <2>3. old.at \in 1..Len(flow) + 1
        BY <1>2, <1>3
    <2>4. rest \subseteq Tasks(s, old.forms[s], old.seen[s], Lists(flow, old)[old.pc])
        BY <2>1
    <2> QED BY <1>3, <1>5, <1>10, <2>2, <2>3, <2>4 DEF Placed
<1>12. Undisturbed(flow, st, q)
    <2> SUFFICES ASSUME q.alone PROVE Undisturbed(flow, st, q)
        BY DEF Undisturbed
    <2>1. \A i \in 1..Len(flow) : i < q.at => Matches(flow[i], q.forms[flow[i]], st[flow[i]])
        <3>1. \A i \in 1..Len(flow) : i < old.at => Matches(flow[i], old.forms[flow[i]], store[flow[i]])
            BY <1>1, <1>3, <1>5 DEF Undisturbed
        <3>2. \A i \in 1..Len(flow) : i < old.at => i # old.at
            BY <1>2, <1>3
        <3> QED BY <1>5, <1>9, <3>1, <3>2
    <2>2. \A i \in 1..Len(flow) : i > q.at => st[flow[i]] = q.seen[flow[i]]
        <3>1. \A i \in 1..Len(flow) : i > old.at => store[flow[i]] = old.seen[flow[i]]
            BY <1>1, <1>3, <1>5 DEF Undisturbed
        <3>2. \A i \in 1..Len(flow) : i > old.at => i # old.at
            BY <1>2, <1>3
        <3> QED BY <1>5, <1>9, <3>1, <3>2
    <2>3. ~failed => Before(s, q.forms[s], q.seen[s], st[s], Lists(flow, q)[q.pc], q.todo, q.labels)
        BY <1>3, <1>5, <1>7, <1>10
    <2> QED BY <1>5, <2>1, <2>2, <2>3 DEF Undisturbed
<1>13. Stored(row) => Stored(st[flow[q.at]])
    BY <1>5, <1>7
<1> QED
    <2>1. Undisturbed(flow, [store EXCEPT ![Sec(r)] = row], q)
        BY <1>3, <1>12 DEF st
    <2>2. Works(flow, q) /\ Lists(flow, q)[q.pc] \in {"items", "labels", "create"} =>
              Stored([store EXCEPT ![Sec(r)] = row][flow[q.at]])
        BY <1>3, <1>5, <1>10, <1>13 DEF st
    <2> QED BY <1>5, <1>6, <1>8, <1>11, <2>1, <2>2, WritesKeep

-----------------------------------------------------------------------------
(* The statements. *)

\* What is known of a save at work, in the terms of its actions.
LEMMA AtSection ==
    ASSUME SectionsInv, NEW r \in Savers, AtWork(r)
    PROVE  /\ Shapes
           /\ Sec(r) \in Sections /\ Sec(r) = flow[jobs[r].at] /\ Form(r) \in FormType
           /\ RowShape(store[Sec(r)]) /\ RowShape(Seen(r))
           /\ \A item \in Seen(r).items : ItemShape(item)
           /\ Fits(r, store[Sec(r)])
           /\ store = [store EXCEPT ![Sec(r)] = store[Sec(r)]]
           /\ Stored(Seen(r)) => Stored(store[Sec(r)])
           /\ Step(r) \in {"items", "labels", "create"} => Stored(store[Sec(r)])
           /\ jobs[r].todo \subseteq Tasks(Sec(r), Form(r), Seen(r), Step(r))
           /\ jobs[r].failed \in BOOLEAN /\ (jobs[r].failed => jobs[r].todo # {} /\ Together(Sec(r)))
           /\ ~jobs[r].failed /\ jobs[r].alone =>
                  Before(Sec(r), Form(r), Seen(r), store[Sec(r)], Step(r), jobs[r].todo, jobs[r].labels)
<1> DEFINE old == jobs[r]  s == flow[old.at]
<1>1. /\ Shapes /\ flow \in Analyzers /\ Rows(store) /\ Rows(old.seen)
      /\ Placed(flow, old) /\ RowsStay(flow, store, old) /\ Undisturbed(flow, store, old)
      /\ OneItem /\ TotalIsSum
    BY DEF SectionsInv, Shapes
<1>2. old.at \in 1..Len(flow) /\ s \in Sections /\ Works(flow, old) /\ old.at # 0
    <2>1. Len(flow) \in {1, 2} /\ \A i \in 1..Len(flow) : flow[i] \in Sections
        BY <1>1, Flows
    <2>2. old.at \in 1..Len(flow)
        BY DEF AtWork
    <2> QED BY <2>1, <2>2 DEF Works
<1>3. /\ Sec(r) = s /\ Form(r) = old.forms[s] /\ Seen(r) = old.seen[s]
      /\ Step(r) = Lists(flow, old)[old.pc]
    BY DEF Sec, Form, Seen, Step, StepsOf, Lists
<1>4. Form(r) \in FormType
    <2>1. old.forms \in [Sections -> FormType]
        BY <1>1, <1>2, ConstantsAssumption DEF Placed
    <2> QED BY <1>2, <1>3, <2>1
<1>5. /\ RowShape(store[s]) /\ \A item \in store[s].items : ItemShape(item)
      /\ ~Stored(store[s]) => store[s].items = {}
      /\ RowShape(old.seen[s]) /\ \A item \in old.seen[s].items : ItemShape(item)
    BY <1>1, <1>2 DEF Rows
<1>6. Fits(r, store[s])
    BY <1>1, <1>3, <1>5 DEF Fits, OneItem, TotalIsSum
<1>7. store = [store EXCEPT ![s] = store[s]]
    BY <1>1, <1>2 DEF Rows
<1>8. /\ Stored(old.seen[s]) => Stored(store[s])
      /\ Step(r) \in {"items", "labels", "create"} => Stored(store[s])
    BY <1>1, <1>2, <1>3 DEF RowsStay
<1>9. /\ old.todo \subseteq Tasks(Sec(r), Form(r), Seen(r), Step(r))
      /\ old.failed \in BOOLEAN /\ (old.failed => old.todo # {} /\ Together(Sec(r)))
    BY <1>1, <1>2, <1>3 DEF Placed
<1>10. ~old.failed /\ old.alone =>
           Before(Sec(r), Form(r), Seen(r), store[Sec(r)], Step(r), old.todo, old.labels)
    BY <1>1, <1>2, <1>3 DEF Undisturbed
<1> QED BY <1>1, <1>2, <1>3, <1>4, <1>5, <1>6, <1>7, <1>8, <1>9, <1>10

\* Unless saves are mixed, the one at work runs alone.
LEMMA Runs ==
    ASSUME SectionsInv, NEW r \in Savers, AtWork(r), ~mixed
    PROVE  jobs[r].alone
<1>1. flow \in Analyzers
    BY DEF SectionsInv, Shapes
<1>2. Busy(r)
    BY <1>1, Flows DEF AtWork, Busy
<1> QED BY <1>2 DEF SectionsInv, Solitary

\* At a step without costs there is nothing to wait for.
LEMMA NoTasks ==
    ASSUME SectionsInv, NEW r \in Savers, AtWork(r), Step(r) \notin {"clear", "items"}
    PROVE  jobs[r].todo = {} /\ ~jobs[r].failed
BY AtSection, TaskSets

\* A save that moves on from a row that fits.
LEMMA OnwardKeeps ==
    ASSUME SectionsInv, NEW r \in Savers, AtWork(r), ~jobs[r].failed, NEW row, Fits(r, row),
           store' = [store EXCEPT ![Sec(r)] = row], UNCHANGED <<flow, mixed>>, Onward(r),
           Step(r) \in {"row", "items", "labels", "create"} => Stored(row),
           jobs[r].alone => After(Sec(r), Form(r), Seen(r), row, Step(r), jobs[r].labels)
    PROVE  SectionsInv'
<1>1. Shapes
    BY DEF SectionsInv
<1>2. PICK q : jobs' = [jobs EXCEPT ![r] = q] /\ Moved(r, q, jobs[r].labels)
    BY <1>1, MovedOn
<1>3. Writes(r, q, row)
    BY <1>2 DEF Writes
<1> QED BY <1>2, <1>3, MovesKeep

LEMMA EndKeeps ==
    ASSUME SectionsInv, NEW r \in Savers, AtWork(r), End(r), UNCHANGED <<flow, mixed, store>>
    PROVE  SectionsInv'
<1>1. Fits(r, store[Sec(r)]) /\ store = [store EXCEPT ![Sec(r)] = store[Sec(r)]]
    BY AtSection
<1>2. Writes(r, NoSave, store[Sec(r)])
    BY <1>1 DEF Writes, End, Now
<1> QED BY <1>1, <1>2, EndsKeep

LEMMA DoneKeeps ==
    ASSUME SectionsInv, NEW r \in Savers, AtWork(r), Step(r) \in {"clear", "items"},
           NEW k \in jobs[r].todo, NEW row, Fits(r, row),
           store' = [store EXCEPT ![Sec(r)] = row], UNCHANGED <<flow, mixed>>, Done(r, k),
           Step(r) = "items" => Stored(row),
           ~jobs[r].failed /\ jobs[r].alone =>
               Before(Sec(r), Form(r), Seen(r), row, Step(r), jobs[r].todo \ {k}, jobs[r].labels)
    PROVE  SectionsInv'
<1> DEFINE rest == jobs[r].todo \ {k}
<1>1. /\ Shapes /\ Sec(r) \in Sections
      /\ jobs[r].failed \in BOOLEAN /\ (jobs[r].failed => Together(Sec(r)))
    BY AtSection
<1>2. CASE rest # {}
    <2>1. jobs' = [jobs EXCEPT ![r] = [jobs[r] EXCEPT !.todo = rest]]
        BY <1>2 DEF Done, Now
    <2>2. [jobs[r] EXCEPT !.todo = rest] = [jobs[r] EXCEPT !.todo = rest, !.failed = jobs[r].failed]
        <3>1. SaveShape(jobs[r])
            BY <1>1 DEF Shapes
        <3> QED BY <3>1 DEF SaveShape
    <2>3. Writes(r, [jobs[r] EXCEPT !.todo = rest, !.failed = jobs[r].failed], row)
        BY <2>1, <2>2 DEF Writes
    <2> HIDE DEF rest
    <2>4. rest \subseteq jobs[r].todo
        BY DEF rest
    <2>5. ~jobs[r].failed /\ jobs[r].alone =>
              Before(Sec(r), Form(r), Seen(r), row, Step(r), rest, jobs[r].labels)
        BY DEF rest
    <2> QED BY <1>1, <1>2, <2>3, <2>4, <2>5, WaitsKeep
<1>3. CASE rest = {} /\ jobs[r].failed
    <2>1. Writes(r, NoSave, row)
        BY <1>3 DEF Done, End, Now, Writes
    <2> QED BY <2>1, EndsKeep
<1>4. CASE rest = {} /\ ~jobs[r].failed
    <2>1. Onward(r)
        BY <1>4 DEF Done
    <2>2. jobs[r].alone => After(Sec(r), Form(r), Seen(r), row, Step(r), jobs[r].labels)
        BY <1>1, <1>4, Completes
    <2> QED BY <1>4, <2>1, <2>2, OnwardKeeps
<1> QED BY <1>1, <1>2, <1>3, <1>4

LEMMA TaskFailsKeeps ==
    ASSUME SectionsInv, NEW r \in Savers, AtWork(r), NEW k \in jobs[r].todo,
           TaskFails(r, k), UNCHANGED <<flow, mixed, store>>
    PROVE  SectionsInv'
<1> DEFINE rest == jobs[r].todo \ {k}
<1>1. /\ Fits(r, store[Sec(r)]) /\ store = [store EXCEPT ![Sec(r)] = store[Sec(r)]]
      /\ Step(r) \in {"items", "labels", "create"} => Stored(store[Sec(r)])
    BY AtSection
<1>2. CASE Together(Sec(r)) /\ rest # {}
    <2>1. Writes(r, [jobs[r] EXCEPT !.todo = rest, !.failed = TRUE], store[Sec(r)])
        BY <1>1, <1>2 DEF TaskFails, Now, Writes
    <2>2. rest \subseteq jobs[r].todo
        OBVIOUS
    <2> HIDE DEF rest
    <2> QED BY <1>1, <1>2, <2>1, <2>2, WaitsKeep
<1>3. CASE ~(Together(Sec(r)) /\ rest # {})
    <2>1. End(r)
        BY <1>3 DEF TaskFails
    <2> QED BY <2>1, EndKeeps
<1> QED BY <1>2, <1>3

LEMMA NewTotal ==
    ASSUME NEW row, RowShape(row), NEW total
    PROVE  /\ [row EXCEPT !.total = total] = [total |-> total, items |-> row.items]
           /\ RowShape([row EXCEPT !.total = total])
           /\ [row EXCEPT !.total = total].total = total
           /\ [row EXCEPT !.total = total].items = row.items
BY DEF RowShape

LEMMA NewItems ==
    ASSUME NEW row, RowShape(row), NEW items
    PROVE  /\ RowShape([row EXCEPT !.items = items])
           /\ [row EXCEPT !.items = items].total = row.total
           /\ [row EXCEPT !.items = items].items = items
BY DEF RowShape

\* The total of a renewed section is the sum of its one cost, as it is counted.
LEMMA RenewedTotal ==
    ASSUME NEW s \in Renewed, NEW f \in FormType, NEW k \in Given(s, f)
    PROVE  Given(s, f) = {k} /\ Sums(s, Total(s, f, NoRow), Columns(s, f.items[k]))
<1>1. s \in Single /\ k = "i" /\ Given(s, f) = {k}
    BY DEF Single, Given
<1> DEFINE cost == f.items[k]
<1>2. cost.amount \in Nat /\ cost.taxes \in Nat \cup {Null}
    <2>1. f.items \in [Slots -> CostType \cup {Null}] /\ k \in Slots
        BY <1>1, ConstantsAssumption DEF FormType
    <2>2. f.items[k] # Null
        BY DEF Given
    <2>3. f.items[k] \in CostType
        BY <2>1, <2>2
    <2> QED BY <2>3 DEF CostType
<1>3. Columns(s, cost).amount = cost.amount
      /\ Columns(s, cost).taxes = IF s \in Taxed /\ cost.taxes # Null THEN cost.taxes ELSE 0
    BY DEF Columns
<1>4. Total(s, f, NoRow) = ItemSum(s, f)
    <2>1. Total(s, f, NoRow) = ItemsOrTotal(s, f)
        BY SectionNames DEF Total, Renewed
    <2> QED BY <1>1, <2>1 DEF ItemsOrTotal
<1>5. CASE s \in Taxed /\ cost.taxes = Null
    <2>1. ItemSum(s, f) = NaN
        BY <1>1, <1>5 DEF ItemSum
    <2> HIDE DEF cost
    <2> QED BY <1>1, <1>3, <1>4, <1>5, <2>1 DEF Sums, cost
<1>6. CASE ~(s \in Taxed /\ cost.taxes = Null)
    <2>1. Counted(s, cost) = cost.amount + Columns(s, cost).taxes
        BY <1>3, <1>6 DEF Counted
    <2>2. Counted(s, cost) \in Nat
        <3>1. Columns(s, cost).taxes \in Nat
            BY <1>2, <1>3, <1>6
        <3> QED BY <1>2, <2>1, <3>1
    <2>3. ItemSum(s, f) = Counted(s, cost)
        BY <1>1, <1>6, <2>2, SumOne
    <2>4. Total(s, f, NoRow) = Columns(s, cost).amount + Columns(s, cost).taxes
        BY <1>3, <1>4, <2>1, <2>3
    <2> HIDE DEF cost
    <2> QED BY <1>1, <2>4 DEF Sums, cost
<1> QED BY <1>5, <1>6

LEMMA LabelSteps ==
    ASSUME NEW s \in Sections, NEW seen, NEW pc \in 1..Len(Steps(s, ~Stored(seen))),
           Steps(s, ~Stored(seen))[pc] \in {"labels", "create"}
    PROVE  /\ s = "refi" /\ pc < Len(Steps(s, ~Stored(seen)))
<1> DEFINE steps == Steps(s, ~Stored(seen))
<1>1. pc \in 1..Len(steps) /\ steps[pc] \in {"labels", "create"}
    OBVIOUS
<1>2. CASE s \in Renewed
    <2>1. steps = IF Stored(seen) THEN <<"clear", "check", "row", "items">> ELSE <<"check", "row", "items">>
        BY <1>2, StepLists
    <2> HIDE DEF steps
    <2>2. CASE Stored(seen)
        <3>1. steps = <<"clear", "check", "row", "items">> /\ Len(steps) = 4
            BY <2>1, <2>2
        <3>2. pc \in {1, 2, 3, 4}
            BY <1>1, <3>1
        <3> QED BY <1>1, <3>1, <3>2
    <2>3. CASE ~Stored(seen)
        <3>1. steps = <<"check", "row", "items">> /\ Len(steps) = 3
            BY <2>1, <2>3
        <3>2. pc \in {1, 2, 3}
            BY <1>1, <3>1
        <3> QED BY <1>1, <3>1, <3>2
    <2> QED BY <2>2, <2>3
<1>3. CASE s \in {"cCoast", "brRefi"}
    <2>1. steps \in {<<"clear", "items", "row">>, <<"check", "row", "items">>, <<"check", "items", "row">>}
        BY <1>3, StepLists
    <2> HIDE DEF steps
    <2>2. Len(steps) = 3
        BY <2>1
    <2>3. pc \in {1, 2, 3}
        BY <1>1, <2>2
    <2> QED BY <1>1, <2>1, <2>3
<1>4. CASE s = "refi"
    <2>1. steps = <<"check", "row", "labels", "create", "items">>
        BY <1>4, StepLists
    <2>2. Len(steps) = 5
        BY <2>1
    <2> HIDE DEF steps
    <2>3. pc \in {1, 2, 3, 4, 5}
        BY <1>1, <2>2
    <2>4. pc < Len(steps)
        BY <1>1, <2>1, <2>2, <2>3
    <2> QED BY <1>4, <2>4 DEF steps
<1>5. CASE s = "sale"
    <2>1. steps \in {<<"items", "row">>, <<"row", "items">>}
        BY <1>5, StepLists
    <2> HIDE DEF steps
    <2>2. Len(steps) = 2
        BY <2>1
    <2>3. pc \in {1, 2}
        BY <1>1, <2>2
    <2> QED BY <1>1, <2>1, <2>3
<1> QED BY <1>2, <1>3, <1>4, <1>5, SectionNames

LEMMA CheckKeeps ==
    ASSUME SectionsInv, NEW r \in Savers, Check(r)
    PROVE  SectionsInv'
<1>1. AtWork(r) /\ Step(r) = "check" /\ UNCHANGED <<flow, mixed, store>>
    BY DEF Check, Quiet
<1>2. CASE Valid(Sec(r), Form(r))
    <2>1. Onward(r)
        BY <1>2 DEF Check
    <2>2. ~jobs[r].failed
        BY <1>1, NoTasks
    <2>3. /\ Fits(r, store[Sec(r)]) /\ store = [store EXCEPT ![Sec(r)] = store[Sec(r)]]
          /\ Sec(r) \in Sections
        BY <1>1, AtSection
    <2>4. store' = [store EXCEPT ![Sec(r)] = store[Sec(r)]]
        BY <1>1, <2>3
    <2>5. jobs[r].alone => After(Sec(r), Form(r), Seen(r), store[Sec(r)], Step(r), jobs[r].labels)
        <3>1. jobs[r].alone => Before(Sec(r), Form(r), Seen(r), store[Sec(r)], "check", jobs[r].todo, jobs[r].labels)
            BY <1>1, <2>2, AtSection
        <3> QED BY <1>1, <2>3, <3>1, CheckLeaves
    <2> QED BY <1>1, <2>1, <2>2, <2>3, <2>4, <2>5, OnwardKeeps
<1>3. CASE ~Valid(Sec(r), Form(r))
    <2>1. End(r)
        BY <1>3 DEF Check
    <2> QED BY <1>1, <2>1, EndKeeps
<1> QED BY <1>2, <1>3

LEMMA WriteRowKeeps ==
    ASSUME SectionsInv, NEW r \in Savers, WriteRow(r)
    PROVE  SectionsInv'
<1> DEFINE s == Sec(r)
           total == Total(s, Form(r), Seen(r))
           new == [store[s] EXCEPT !.total = total]
<1>1. AtWork(r) /\ Step(r) = "row" /\ UNCHANGED <<flow, mixed>>
    BY DEF WriteRow, Quiet
<1>2. CASE total = Null \/ (~Stored(Seen(r)) /\ Stored(store[s]))
    <2>1. End(r) /\ UNCHANGED store
        BY <1>2 DEF WriteRow
    <2> QED BY <1>1, <2>1, EndKeeps
<1>3. CASE ~(total = Null \/ (~Stored(Seen(r)) /\ Stored(store[s])))
    <2>1. Onward(r) /\ store' = [store EXCEPT ![s].total = total]
        BY <1>3 DEF WriteRow
    <2>2. store' = [store EXCEPT ![s] = new]
        BY <2>1
    <2>3. ~jobs[r].failed
        BY <1>1, NoTasks
    <2>4. /\ s \in Sections /\ RowShape(store[s]) /\ Fits(r, store[s])
        BY <1>1, AtSection
    <2>5. RowShape(new) /\ new.total = total /\ new.items = store[s].items
        BY <2>4, NewTotal
    <2>6. jobs[r].alone => Before(s, Form(r), Seen(r), store[s], "row", jobs[r].todo, jobs[r].labels)
        BY <1>1, <2>3, AtSection
    <2>7. ~mixed => jobs[r].alone
        BY <1>1, Runs
    <2> HIDE DEF new
    <2>8. Stored(new)
        BY <1>3, <2>5 DEF Stored
    <2>9. Fits(r, new)
        <3>1. ~mixed /\ s \in Renewed => new.items = {}
            BY <2>5, <2>6, <2>7 DEF Before
        <3> QED BY <2>4, <2>5, <2>8, <3>1 DEF Fits
    <2>10. jobs[r].alone => After(s, Form(r), Seen(r), new, Step(r), jobs[r].labels)
        BY <1>1, <2>4, <2>5, <2>6, RowLeaves
    <2> QED BY <1>1, <2>1, <2>2, <2>3, <2>8, <2>9, <2>10, OnwardKeeps
<1> QED BY <1>2, <1>3

LEMMA NothingToDoKeeps ==
    ASSUME SectionsInv, NEW r \in Savers, NothingToDo(r)
    PROVE  SectionsInv'
<1>1. /\ AtWork(r) /\ Step(r) \in {"clear", "items"} /\ jobs[r].todo = {} /\ Onward(r)
      /\ UNCHANGED <<flow, mixed, store>>
    BY DEF NothingToDo, Quiet
<1>2. /\ Fits(r, store[Sec(r)]) /\ store = [store EXCEPT ![Sec(r)] = store[Sec(r)]]
      /\ Sec(r) \in Sections /\ ~jobs[r].failed
      /\ Step(r) \in {"items", "labels", "create"} => Stored(store[Sec(r)])
    BY <1>1, AtSection
<1>3. jobs[r].alone => Before(Sec(r), Form(r), Seen(r), store[Sec(r)], Step(r), {}, jobs[r].labels)
    BY <1>1, <1>2, AtSection
<1>4. jobs[r].alone => After(Sec(r), Form(r), Seen(r), store[Sec(r)], Step(r), jobs[r].labels)
    BY <1>1, <1>2, <1>3, Completes
<1>5. store' = [store EXCEPT ![Sec(r)] = store[Sec(r)]]
    BY <1>1, <1>2
<1> QED BY <1>1, <1>2, <1>4, <1>5, OnwardKeeps

LEMMA DeleteItemKeeps ==
    ASSUME SectionsInv, NEW r \in Savers, NEW k \in jobs[r].todo, DeleteItem(r, k)
    PROVE  SectionsInv'
<1> DEFINE s == Sec(r)
           left == {item \in store[s].items : item.slot # k \/
                       (s \notin Renewed /\ item.id \notin {i.id : i \in At(Seen(r), k)})}
           new == [store[s] EXCEPT !.items = left]
<1>1. AtWork(r) /\ Step(r) = "clear" /\ UNCHANGED <<flow, mixed>> /\ Done(r, k)
    BY DEF DeleteItem, Quiet
<1>2. store' = [store EXCEPT ![s] = new]
    BY DEF DeleteItem
<1>3. s \in Sections /\ RowShape(store[s]) /\ Fits(r, store[s])
    BY <1>1, AtSection
<1> HIDE DEF left
<1>4. RowShape(new) /\ new.total = store[s].total /\ new.items = left
    BY <1>3, NewItems
<1> HIDE DEF new
<1>5. left \subseteq store[s].items
    BY DEF left
<1>6. Stored(new) <=> Stored(store[s])
    BY <1>4 DEF Stored
<1>7. Fits(r, new)
    BY <1>3, <1>4, <1>5, <1>6 DEF Fits
<1>8. ~jobs[r].failed /\ jobs[r].alone =>
          Before(s, Form(r), Seen(r), new, "clear", jobs[r].todo \ {k}, jobs[r].labels)
    <2>1. ~jobs[r].failed /\ jobs[r].alone =>
              Before(s, Form(r), Seen(r), store[s], "clear", jobs[r].todo, jobs[r].labels)
        BY <1>1, AtSection
    <2>2. new.items = {item \in store[s].items : item.slot # k \/
                       (s \notin Renewed /\ item.id \notin {i.id : i \in At(Seen(r), k)})}
        BY <1>4 DEF left
    <2> QED BY <1>3, <1>4, <2>1, <2>2, DeleteLeaves
<1> QED BY <1>1, <1>2, <1>7, <1>8, DoneKeeps

\* A cost that is stored where there was none of its kind, or in the place of it.
LEMMA ItemKeeps ==
    ASSUME SectionsInv, NEW r \in Savers, AtWork(r), Step(r) = "items", NEW k \in jobs[r].todo,
           NEW old, NEW item, Done(r, k), UNCHANGED <<flow, mixed>>,
           store' = [store EXCEPT ![Sec(r)].items = (@ \ old) \cup {item}],
           ItemShape(item), item.slot = k,
           Sec(r) # "sale" => item.value = Columns(Sec(r), Form(r).items[k]),
           \A x \in old : x.slot = k,
           Sec(r) \in Renewed => At(store[Sec(r)], k) = {}
    PROVE  SectionsInv'
<1> DEFINE s == Sec(r)
           items == (store[s].items \ old) \cup {item}
           new == [store[s] EXCEPT !.items = items]
<1>1. store' = [store EXCEPT ![s] = new]
    OBVIOUS
<1>2. /\ s \in Sections /\ RowShape(store[s]) /\ Fits(r, store[s]) /\ Form(r) \in FormType
      /\ Stored(store[s])
      /\ jobs[r].todo \subseteq Tasks(s, Form(r), Seen(r), Step(r))
      /\ jobs[r].failed => Together(s)
    BY AtSection
<1>3. k \in Given(s, Form(r))
    BY <1>2, TaskSets
<1> HIDE DEF items
<1>4. RowShape(new) /\ new.total = store[s].total /\ new.items = items
    BY <1>2, NewItems
<1> HIDE DEF new
<1>5. Stored(new)
    BY <1>2, <1>4 DEF Stored
<1>6. ~jobs[r].failed /\ jobs[r].alone =>
          Before(s, Form(r), Seen(r), store[s], "items", jobs[r].todo, jobs[r].labels)
    BY AtSection
<1>7. Fits(r, new)
    <2>1. \A x \in items : ItemShape(x)
        BY <1>2 DEF items, Fits
    <2>2. ASSUME s \in Renewed
          PROVE  \A x, y \in items : x.slot = y.slot => x = y
        BY <1>2, <2>2 DEF items, Fits, At
    <2>3. ASSUME s \in Renewed, ~mixed
          PROVE  \A x \in items : Sums(s, store[s].total, x.value)
        <3>1. ~jobs[r].failed
            BY <1>2, <2>3 DEF Together, Renewed
        <3>2. jobs[r].alone
            BY <2>3, Runs
        <3>3. store[s].total = Total(s, Form(r), NoRow)
            BY <1>6, <2>3, <3>1, <3>2 DEF Before
        <3>4. Sums(s, Total(s, Form(r), NoRow), item.value)
            BY <1>2, <1>3, <2>3, RenewedTotal, SectionNames
        <3>5. \A x \in store[s].items : Sums(s, store[s].total, x.value)
            BY <1>2, <2>3 DEF Fits
        <3> QED BY <3>3, <3>4, <3>5 DEF items
    <2> QED BY <1>4, <1>5, <2>1, <2>2, <2>3 DEF Fits
<1>8. ~jobs[r].failed /\ jobs[r].alone =>
          Before(s, Form(r), Seen(r), new, "items", jobs[r].todo \ {k}, jobs[r].labels)
    <2>1. new.items = (store[s].items \ old) \cup {item}
        BY <1>4 DEF items
    <2> QED BY <1>2, <1>3, <1>4, <1>6, <2>1, ItemLeaves
<1> QED BY <1>1, <1>5, <1>7, <1>8, DoneKeeps

LEMMA InsertItemKeeps ==
    ASSUME SectionsInv, NEW r \in Savers, NEW k \in jobs[r].todo, InsertItem(r, k)
    PROVE  SectionsInv'
<1>1. AtWork(r) /\ Step(r) = "items" /\ UNCHANGED <<flow, mixed>>
    BY DEF InsertItem, Quiet
<1>2. CASE At(store[Sec(r)], k) = {}
    <2> DEFINE item == NewItem(Sec(r), k, Form(r).items[k])
    <2>1. /\ store' = [store EXCEPT ![Sec(r)].items = @ \cup {item}]
          /\ Done(r, k)
        BY <1>2 DEF InsertItem
    <2>2. ItemShape(item) /\ item.slot = k /\ item.value = Columns(Sec(r), Form(r).items[k])
        BY DEF ItemShape, NewItem
    <2> HIDE DEF item
    <2>3. store' = [store EXCEPT ![Sec(r)].items = (@ \ {}) \cup {item}]
        <3>1. store[Sec(r)].items \ {} = store[Sec(r)].items
            OBVIOUS
        <3> QED BY <2>1, <3>1
    <2> QED BY <1>1, <1>2, <2>1, <2>2, <2>3, ItemKeeps
<1>3. CASE At(store[Sec(r)], k) # {}
    <2>1. TaskFails(r, k) /\ UNCHANGED store
        BY <1>3 DEF InsertItem
    <2> QED BY <1>1, <2>1, TaskFailsKeeps
<1> QED BY <1>2, <1>3

LEMMA NewValue ==
    ASSUME NEW item, ItemShape(item), NEW n
    PROVE  LET new == [item EXCEPT !.value = n]
           IN  ItemShape(new) /\ new.slot = item.slot /\ new.value = n
BY DEF ItemShape

LEMMA UpdateItemKeeps ==
    ASSUME SectionsInv, NEW r \in Savers, NEW k \in jobs[r].todo, UpdateItem(r, k)
    PROVE  SectionsInv'
<1>1. AtWork(r) /\ Step(r) = "items" /\ UNCHANGED <<flow, mixed>> /\ Sec(r) \notin Renewed
    BY DEF UpdateItem, Quiet
<1>2. PICK old \in At(Seen(r), k) :
          LET there == {item \in At(store[Sec(r)], k) : item.id = old.id} IN
          IF there # {}
          THEN /\ store' = [store EXCEPT ![Sec(r)].items =
                               (@ \ there) \cup {[old EXCEPT !.value = Revised(Sec(r), old, Form(r).items[k])]}]
               /\ Done(r, k)
          ELSE TaskFails(r, k) /\ UNCHANGED store
    BY DEF UpdateItem
<1> DEFINE there == {item \in At(store[Sec(r)], k) : item.id = old.id}
           item == [old EXCEPT !.value = Revised(Sec(r), old, Form(r).items[k])]
<1>3. CASE there # {}
    <2>1. ItemShape(old) /\ old.slot = k
        BY <1>1, AtSection DEF At
    <2>2. ItemShape(item) /\ item.slot = k /\ item.value = Revised(Sec(r), old, Form(r).items[k])
        BY <2>1, NewValue
    <2>5. Sec(r) # "sale" => item.value = Columns(Sec(r), Form(r).items[k])
        <3>1. Sec(r) # "sale" => Sec(r) \notin Taxed
            BY <1>1 DEF Taxed, Renewed
        <3> QED BY <2>2, <3>1 DEF Revised
    <2>3. \A x \in there : x.slot = k
        BY DEF At
    <2>4. store' = [store EXCEPT ![Sec(r)].items = (@ \ there) \cup {item}] /\ Done(r, k)
        BY <1>2, <1>3
    <2> HIDE DEF there, item
    <2> QED BY <1>1, <2>2, <2>3, <2>4, <2>5, ItemKeeps
<1>4. CASE there = {}
    <2>1. TaskFails(r, k) /\ UNCHANGED store
        BY <1>2, <1>4
    <2> QED BY <1>1, <2>1, TaskFailsKeeps
<1> QED BY <1>3, <1>4

LEMMA ReadLabelsKeeps ==
    ASSUME SectionsInv, NEW r \in Savers, ReadLabels(r)
    PROVE  SectionsInv'
<1> DEFINE s == Sec(r)
           old == jobs[r]
           next == Entering(old, old.at, old.pc + 1)
           q == [next EXCEPT !.labels = Slotted(store[s])]
<1>1. AtWork(r) /\ Step(r) = "labels" /\ UNCHANGED <<flow, mixed, store>>
    BY DEF ReadLabels, Quiet
<1>2. jobs' = [jobs EXCEPT ![r] = q]
    BY DEF ReadLabels, Now, Slotted
<1>3. /\ Shapes /\ s \in Sections /\ Fits(r, store[s])
      /\ store = [store EXCEPT ![s] = store[s]]
      /\ Step(r) \in {"items", "labels", "create"} => Stored(store[s])
    BY <1>1, AtSection
<1>4. ~old.failed
    BY <1>1, NoTasks
<1>5. SaveShape(old)
    BY <1>3 DEF Shapes
<1>6. /\ SaveShape(next) /\ next.forms = old.forms /\ next.seen = old.seen
      /\ next.failed = old.failed /\ next.alone = old.alone
    BY <1>5, Entered
<1>7. old.pc < Len(Lists(flow, old))
    <2>1. Lists(flow, old) = Steps(s, ~Stored(old.seen[s])) /\ Step(r) = Lists(flow, old)[old.pc]
        BY DEF Lists, Sec, Step, StepsOf, Seen
    <2>2. old.pc \in 1..Len(Lists(flow, old))
        BY <1>1 DEF SectionsInv, Placed, Works, AtWork
    <2> QED BY <1>1, <1>3, <2>1, <2>2, LabelSteps
<1> HIDE DEF next
<1>8. /\ SaveShape(q) /\ q.at = next.at /\ q.pc = next.pc /\ q.todo = next.todo
      /\ q.forms = next.forms /\ q.seen = next.seen /\ q.labels = Slotted(store[s])
      /\ q.failed = next.failed /\ q.alone = next.alone
    BY <1>6 DEF SaveShape
<1> HIDE DEF q
<1>9. Moved(r, q, Slotted(store[s]))
    BY <1>6, <1>7, <1>8 DEF Moved, next
<1>10. Writes(r, q, store[s])
    BY <1>1, <1>2, <1>3 DEF Writes
<1>11. old.alone => After(s, Form(r), Seen(r), store[s], Step(r), Slotted(store[s]))
    <2>1. old.alone => Before(s, Form(r), Seen(r), store[s], "labels", old.todo, old.labels)
        BY <1>1, <1>4, AtSection
    <2> QED BY <1>1, <1>3, <2>1, LabelsLeave
<1> QED BY <1>1, <1>3, <1>4, <1>9, <1>10, <1>11, MovesKeep

LEMMA CreateRefiItemsKeeps ==
    ASSUME SectionsInv, NEW r \in Savers, CreateRefiItems(r)
    PROVE  SectionsInv'
<1> DEFINE s == Sec(r)
           missing == Given(s, Form(r)) \ (ById(Form(r), Seen(r)) \cup jobs[r].labels)
           items == store[s].items \cup {NewItem(s, k, Form(r).items[k]) : k \in missing}
           new == [store[s] EXCEPT !.items = items]
<1>1. /\ AtWork(r) /\ Step(r) = "create" /\ UNCHANGED <<flow, mixed>> /\ Onward(r)
      /\ store' = [store EXCEPT ![s] = new]
    BY DEF CreateRefiItems, Quiet
<1>2. /\ s \in Sections /\ RowShape(store[s]) /\ Fits(r, store[s])
      /\ Stored(store[s])
    BY <1>1, AtSection
<1>3. ~jobs[r].failed
    BY <1>1, NoTasks
<1>4. s = "refi"
    <2>1. Lists(flow, jobs[r]) = Steps(s, ~Stored(jobs[r].seen[s])) /\ Step(r) = Lists(flow, jobs[r])[jobs[r].pc]
        BY DEF Lists, Sec, Step, StepsOf, Seen
    <2>2. jobs[r].pc \in 1..Len(Lists(flow, jobs[r]))
        BY <1>1 DEF SectionsInv, Placed, Works, AtWork
    <2> QED BY <1>1, <1>2, <2>1, <2>2, LabelSteps
<1>5. \A k \in missing : /\ ItemShape(NewItem(s, k, Form(r).items[k]))
                         /\ NewItem(s, k, Form(r).items[k]).slot = k
    BY DEF ItemShape, NewItem
<1>6. /\ \A x \in items : ItemShape(x)
      /\ \A k \in missing : \E x \in items : x.slot = k
      /\ store[s].items \subseteq items
    <2> HIDE DEF missing
    <2>1. \A x \in store[s].items : ItemShape(x)
        BY <1>2 DEF Fits
    <2> QED BY <1>5, <2>1
<1> HIDE DEF missing, items
<1>7. RowShape(new) /\ new.total = store[s].total /\ new.items = items
    BY <1>2, NewItems
<1> HIDE DEF new
<1>8. Stored(new)
    BY <1>2, <1>7 DEF Stored
<1>9. Fits(r, new)
    BY <1>4, <1>6, <1>7, <1>8, SectionNames DEF Fits, Renewed
<1>10. Slotted(store[s]) \cup missing \subseteq Slotted(new)
    BY <1>6, <1>7 DEF Slotted
<1>11. jobs[r].alone => After(s, Form(r), Seen(r), new, Step(r), jobs[r].labels)
    <2>1. jobs[r].alone => Before(s, Form(r), Seen(r), store[s], "create", jobs[r].todo, jobs[r].labels)
        BY <1>1, <1>3, AtSection
    <2> QED BY <1>1, <1>2, <1>7, <1>10, <2>1, CreateLeaves DEF missing
<1> QED BY <1>1, <1>3, <1>8, <1>9, <1>11, OnwardKeeps

-----------------------------------------------------------------------------
(* The beginning of a save, its answer and the breakdowns. *)

LEMMA NowIdle ==
    ASSUME Shapes, NEW r \in Savers, End(r), UNCHANGED <<flow, store>>
    PROVE  \A p \in Savers : jobs'[p] = IF p = r THEN NoSave ELSE jobs[p]
BY DEF Shapes, End, Now

\* An answer leaves the sections as they are, and says of them what its body says.
LEMMA AnswerMatched ==
    ASSUME SectionsInv, NEW r \in Savers, jobs[r].at = Len(flow) + 1, jobs[r].alone
    PROVE  /\ \A i \in 1..Len(flow) : Matches(flow[i], jobs[r].forms[flow[i]], store[flow[i]])
           /\ \A s \in Renewed : \A item \in store[s].items : Sums(s, store[s].total, item.value)
<1>1. /\ flow \in Analyzers /\ Undisturbed(flow, store, jobs[r]) /\ Placed(flow, jobs[r]) /\ OneItem
      /\ Rows(store)
    BY DEF SectionsInv, Shapes
<1>2. Len(flow) \in {1, 2} /\ \A i \in 1..Len(flow) : flow[i] \in Sections
    BY <1>1, Flows
<1>3. \A i \in 1..Len(flow) : i < jobs[r].at
    BY <1>2
<1>4. jobs[r].at # 0
    BY <1>2
<1>5. \A i \in 1..Len(flow) : Matches(flow[i], jobs[r].forms[flow[i]], store[flow[i]])
    BY <1>1, <1>3, <1>4 DEF Undisturbed
<1>6. ASSUME NEW s \in Renewed, NEW item \in store[s].items
      PROVE  Sums(s, store[s].total, item.value)
    <2>1. PICK i \in 1..Len(flow) : flow[i] = s
        BY <1>1, <1>6 DEF OneItem
    <2> DEFINE f == jobs[r].forms[s]
    <2>2. f \in FormType
        <3>1. jobs[r].forms \in [Sections -> FormType]
            BY <1>1, <1>4, ConstantsAssumption DEF Placed
        <3>2. s \in Sections
            BY DEF Sections, Single
        <3> QED BY <3>1, <3>2
    <2>3. store[s].total = Total(s, f, NoRow) /\ Kept(s, f, store[s])
        BY <1>5, <2>1 DEF Matches
    <2>4. item.slot \in Given(s, f)
        BY <1>6, <2>3 DEF Kept
    <2>5. PICK x \in At(store[s], item.slot) : x.value = Columns(s, f.items[item.slot])
        BY <2>3, <2>4 DEF Kept
    <2>6. x = item
        BY <1>1, <1>6, <2>5 DEF OneItem, At
    <2>7. Sums(s, Total(s, f, NoRow), Columns(s, f.items[item.slot]))
        BY <2>2, <2>4, RenewedTotal
    <2> QED BY <2>3, <2>5, <2>6, <2>7
<1> QED BY <1>5, <1>6

\* A save that ends, whatever it has come to.
LEMMA LeavesKeep ==
    ASSUME SectionsInv, NEW r \in Savers, Busy(r), End(r), UNCHANGED <<flow, store>>,
           mixed' \in BOOLEAN, ~mixed' => ~mixed \/ jobs[r].alone, TotalIsSum'
    PROVE  SectionsInv'
<1>2. /\ Shapes /\ flow \in Analyzers /\ OneItem /\ Solitary /\ TotalIsSum
      /\ jobs = [p \in Savers |-> jobs[p]] /\ mixed \in BOOLEAN
      /\ \A p \in Savers : /\ SaveShape(jobs[p]) /\ Rows(jobs[p].seen)
                             /\ Placed(flow, jobs[p]) /\ RowsStay(flow, store, jobs[p])
                             /\ Undisturbed(flow, store, jobs[p])
    BY DEF SectionsInv, Shapes
<1>3. \A p \in Savers : jobs'[p] = IF p = r THEN NoSave ELSE jobs[p]
    BY <1>2, NowIdle
<1>4. jobs' = [p \in Savers |-> jobs'[p]]
    BY <1>2 DEF End, Now
<1>5. /\ SaveShape(NoSave) /\ Rows(NoSave.seen) /\ Placed(flow, NoSave) /\ RowsStay(flow, store, NoSave)
      /\ Undisturbed(flow, store, NoSave) /\ NoSave.at = 0
    BY <1>2, IdleFits
<1>6. \A p \in Savers : /\ SaveShape(jobs'[p]) /\ Rows(jobs'[p].seen)
                          /\ Placed(flow, jobs'[p]) /\ RowsStay(flow, store, jobs'[p])
                          /\ Undisturbed(flow, store, jobs'[p])
    BY <1>2, <1>3, <1>5
<1>7. flow' = flow /\ store' = store
    OBVIOUS
<1>8. Shapes'
    <2>1. Rows(store)'
        BY <1>2, <1>7 DEF Shapes, Rows, RowShape, ItemShape, Stored
    <2>2. \A p \in Savers : SaveShape(jobs[p])' /\ Rows(jobs[p].seen)'
        BY <1>6 DEF SaveShape, Rows, RowShape, ItemShape, Stored
    <2> QED BY <1>2, <1>4, <1>7, <2>1, <2>2 DEF Shapes
<1>9. \A p \in Savers : Placed(flow, jobs[p])' /\ RowsStay(flow, store, jobs[p])' /\ Undisturbed(flow, store, jobs[p])'
    BY <1>6, <1>7
<1>10. OneItem'
    BY <1>2, <1>7 DEF OneItem
<1>11. jobs[r].at # 0
    BY DEF Busy
<1>12. Solitary'
    <2>1. \A p \in Savers : jobs'[p].at # 0 => p # r /\ jobs'[p] = jobs[p]
        BY <1>3, <1>5
    <2>2. \A p \in Savers : jobs'[p].at # 0 /\ jobs'[p].alone => \A q \in Savers \ {p} : jobs'[q].at = 0
        BY <1>2, <1>3, <1>5, <2>1 DEF Solitary, Busy
    <2>3. ~mixed' => \A p \in Savers : jobs'[p].at # 0 => jobs'[p].alone
        <3>1. CASE ~mixed
            BY <1>2, <2>1, <3>1 DEF Solitary, Busy
        <3>2. CASE jobs[r].alone
            BY <1>2, <1>11, <2>1, <3>2 DEF Solitary, Busy
        <3> QED BY <3>1, <3>2
    <2> QED BY <2>2, <2>3 DEF Solitary, Busy
<1> QED BY <1>8, <1>9, <1>10, <1>12 DEF SectionsInv

LEMMA AnswerKeeps ==
    ASSUME SectionsInv, NEW r \in Savers, AnswerSave(r)
    PROVE  SectionsInv'
<1>1. /\ jobs[r].at = Len(flow) + 1 /\ End(r) /\ UNCHANGED <<flow, store>>
      /\ mixed' = (mixed /\ ~jobs[r].alone)
    BY DEF AnswerSave
<1>2. /\ flow \in Analyzers /\ Placed(flow, jobs[r]) /\ TotalIsSum /\ mixed \in BOOLEAN
    BY DEF SectionsInv, Shapes
<1>3. Busy(r)
    <2>1. Len(flow) \in {1, 2}
        BY <1>2, Flows
    <2> QED BY <1>1, <2>1 DEF Busy
<1>4. mixed' \in BOOLEAN
    <2>1. jobs[r].alone \in BOOLEAN
        BY <1>2 DEF Placed
    <2> QED BY <1>1, <1>2, <2>1
<1>5. TotalIsSum'
    <2>1. CASE ~mixed
        BY <1>1, <1>2, <2>1 DEF TotalIsSum
    <2>2. CASE jobs[r].alone
        <3>1. \A s \in Renewed : \A item \in store[s].items : Sums(s, store[s].total, item.value)
            BY <1>1, <2>2, AnswerMatched
        <3> QED BY <1>1, <3>1 DEF TotalIsSum
    <2>3. CASE mixed /\ ~jobs[r].alone
        BY <1>1, <2>3 DEF TotalIsSum
    <2> QED BY <2>1, <2>2, <2>3
<1> QED BY <1>1, <1>3, <1>4, <1>5, LeavesKeep

LEMMA RestartKeeps ==
    ASSUME SectionsInv, Restart
    PROVE  SectionsInv'
<1>1. flow' = flow /\ store' = store /\ mixed' = mixed /\ jobs' = [p \in Savers |-> NoSave]
    BY DEF Restart
<1>2. Shapes /\ OneItem /\ TotalIsSum /\ flow \in Analyzers /\ mixed \in BOOLEAN
    BY DEF SectionsInv, Shapes
<1>3. /\ SaveShape(NoSave) /\ Rows(NoSave.seen) /\ Placed(flow, NoSave) /\ RowsStay(flow, store, NoSave)
      /\ Undisturbed(flow, store, NoSave) /\ NoSave.at = 0
    BY <1>2, IdleFits
<1>4. jobs' = [p \in Savers |-> jobs'[p]] /\ \A p \in Savers : jobs'[p] = NoSave
    BY <1>1
<1>5. Shapes'
    <2>1. Rows(store)'
        BY <1>1, <1>2 DEF Shapes, Rows, RowShape, ItemShape, Stored
    <2>2. \A p \in Savers : SaveShape(jobs[p])' /\ Rows(jobs[p].seen)'
        BY <1>3, <1>4 DEF SaveShape, Rows, RowShape, ItemShape, Stored
    <2> QED BY <1>1, <1>2, <1>4, <2>1, <2>2 DEF Shapes
<1>6. \A p \in Savers : Placed(flow, jobs[p])' /\ RowsStay(flow, store, jobs[p])' /\ Undisturbed(flow, store, jobs[p])'
    BY <1>1, <1>3, <1>4
<1>7. OneItem' /\ TotalIsSum'
    BY <1>1, <1>2 DEF OneItem, TotalIsSum
<1>8. Solitary'
    BY <1>3, <1>4 DEF Solitary, Busy
<1> QED BY <1>5, <1>6, <1>7, <1>8 DEF SectionsInv

LEMMA StumbleKeeps ==
    ASSUME SectionsInv, NEW r \in Savers, Stumble(r)
    PROVE  SectionsInv'
<1>1. Busy(r) /\ UNCHANGED <<flow, mixed, store>>
    BY DEF Stumble
<1>2. /\ flow \in Analyzers /\ Placed(flow, jobs[r])
    BY DEF SectionsInv, Shapes
<1>3. AtWork(r) \/ jobs[r].at = Len(flow) + 1
    <2>1. Len(flow) \in {1, 2}
        BY <1>2, Flows
    <2>2. jobs[r].at \in 1..Len(flow) + 1
        BY <1>1, <1>2 DEF Placed, Busy
    <2> QED BY <2>1, <2>2 DEF AtWork
<1>4. CASE AtWork(r)
    <2>1. CASE jobs[r].todo # {}
        <3>1. PICK k \in jobs[r].todo : TaskFails(r, k)
            BY <2>1 DEF Stumble
        <3> QED BY <1>1, <1>4, <3>1, TaskFailsKeeps
    <2>2. CASE jobs[r].todo = {}
        <3>1. End(r)
            BY <2>2 DEF Stumble
        <3> QED BY <1>1, <1>4, <3>1, EndKeeps
    <2> QED BY <2>1, <2>2
<1>5. CASE jobs[r].at = Len(flow) + 1
    <2>1. jobs[r].todo = {}
        BY <1>2, <1>5 DEF Placed
    <2>2. End(r)
        BY <2>1 DEF Stumble
    <2>3. TotalIsSum' /\ mixed' \in BOOLEAN
        BY <1>1 DEF SectionsInv, Shapes, TotalIsSum
    <2> QED BY <1>1, <2>2, <2>3, LeavesKeep
<1> QED BY <1>3, <1>4, <1>5

LEMMA NotAlone ==
    ASSUME NEW q, SaveShape(q)
    PROVE  LET new == [q EXCEPT !.alone = FALSE] IN
           /\ SaveShape(new) /\ new.at = q.at /\ new.pc = q.pc /\ new.forms = q.forms
           /\ new.seen = q.seen /\ new.todo = q.todo /\ new.failed = q.failed /\ new.alone = FALSE
<1> DEFINE e == [q EXCEPT !.alone = FALSE]
<1>1. DOMAIN q = {"at", "pc", "forms", "seen", "todo", "labels", "failed", "alone"}
    BY DEF SaveShape
<1>2. e = [x \in {"at", "pc", "forms", "seen", "todo", "labels", "failed", "alone"} |-> e[x]]
    BY <1>1
<1>3. e.at = q.at /\ e.pc = q.pc /\ e.forms = q.forms /\ e.seen = q.seen
    BY <1>1
<1>4. e.todo = q.todo /\ e.failed = q.failed /\ e.alone = FALSE
    BY <1>1
<1> HIDE DEF e
<1>5. SaveShape(e)
    BY <1>2 DEF SaveShape
<1> QED BY <1>3, <1>4, <1>5 DEF e

\* A save begins with the sections as they are stored; others are not alone any more.
LEMMA SaveKeeps ==
    ASSUME SectionsInv, NEW r \in Savers, Save(r)
    PROVE  SectionsInv'
<1>1. PICK forms \in Bodies :
          jobs' = [q \in Savers |->
                     IF q = r
                     THEN Entering([NoSave EXCEPT !.forms = forms, !.seen = store,
                                      !.alone = \A p \in Savers : ~Busy(p)], 1, 1)
                     ELSE IF Busy(q) THEN [jobs[q] EXCEPT !.alone = FALSE] ELSE jobs[q]]
    BY DEF Save
<1>2. /\ flow' = flow /\ store' = store /\ ~Busy(r)
      /\ mixed' = (mixed \/ \E q \in Savers : Busy(q))
    BY DEF Save
<1>3. /\ Shapes /\ flow \in Analyzers /\ OneItem /\ Solitary /\ TotalIsSum /\ Rows(store)
      /\ jobs = [p \in Savers |-> jobs[p]] /\ mixed \in BOOLEAN
      /\ \A p \in Savers : /\ SaveShape(jobs[p]) /\ Rows(jobs[p].seen)
                             /\ Placed(flow, jobs[p]) /\ RowsStay(flow, store, jobs[p])
                             /\ Undisturbed(flow, store, jobs[p])
    BY DEF SectionsInv, Shapes
<1>4. Len(flow) \in {1, 2} /\ 1 \in 1..Len(flow) /\ flow[1] \in Sections
    BY <1>3, Flows
<1> DEFINE free == \A p \in Savers : ~Busy(p)
           first == [NoSave EXCEPT !.forms = forms, !.seen = store, !.alone = free]
           new == Entering(first, 1, 1)
           others(p) == [jobs[p] EXCEPT !.alone = FALSE]
<1>5. /\ SaveShape(first) /\ first.forms = forms /\ first.seen = store /\ first.alone = free
      /\ first.failed = FALSE
    <2> HIDE DEF free
    <2>1. DOMAIN NoSave = {"at", "pc", "forms", "seen", "todo", "labels", "failed", "alone"}
        BY DEF NoSave
    <2>2. first = [x \in {"at", "pc", "forms", "seen", "todo", "labels", "failed", "alone"} |-> first[x]]
        BY <2>1
    <2>3. first.forms = forms /\ first.seen = store /\ first.alone = free
        BY <2>1
    <2>4. first.failed = FALSE
        BY <2>1 DEF NoSave
    <2> HIDE DEF first
    <2>5. SaveShape(first)
        BY <2>2 DEF SaveShape
    <2> QED BY <2>3, <2>4, <2>5
<1>6. /\ SaveShape(new) /\ new.at = 1 /\ new.pc = 1 /\ new.forms = forms /\ new.seen = store
      /\ new.failed = FALSE /\ new.alone = free
      /\ new.todo = Tasks(flow[1], forms[flow[1]], store[flow[1]],
                          Steps(flow[1], ~Stored(store[flow[1]]))[1])
    <2>1. ~(1 > Len(flow))
        BY <1>4
    <2> HIDE DEF free, first
    <2>2. /\ SaveShape(new) /\ new.at = 1 /\ new.pc = 1 /\ new.forms = first.forms /\ new.seen = first.seen
          /\ new.failed = first.failed /\ new.alone = first.alone
          /\ new.todo = IF 1 > Len(flow) THEN {}
                        ELSE LET s == flow[1] IN
                             Tasks(s, first.forms[s], first.seen[s], Steps(s, ~Stored(first.seen[s]))[1])
        BY <1>5, Entered
    <2> HIDE DEF new
    <2> QED BY <1>5, <2>1, <2>2
<1>7. \A p \in Savers : /\ jobs'[p] = IF p = r THEN new ELSE IF Busy(p) THEN others(p) ELSE jobs[p]
    BY <1>1
<1>8. jobs' = [p \in Savers |-> jobs'[p]]
    BY <1>1
<1> HIDE DEF new, first
<1>9. ASSUME NEW p \in Savers
      PROVE  /\ SaveShape(others(p)) /\ others(p).at = jobs[p].at /\ others(p).pc = jobs[p].pc
             /\ others(p).forms = jobs[p].forms /\ others(p).seen = jobs[p].seen
             /\ others(p).todo = jobs[p].todo /\ others(p).failed = jobs[p].failed
             /\ others(p).alone = FALSE
    BY <1>3, NotAlone
<1>10. Works(flow, new) /\ Lists(flow, new) = Steps(flow[1], ~Stored(store[flow[1]])) /\ new.at # 0
    BY <1>4, <1>6 DEF Works, Lists
<1>11. Placed(flow, new)
    <2>1. 1 \in 1..Len(Lists(flow, new)) /\ 1 \in 1..Len(flow) + 1 /\ 1 # Len(flow) + 1
        BY <1>4, <1>10, Lengths
    <2>2. new.alone \in BOOLEAN /\ new.failed \in BOOLEAN
        BY <1>6
    <2> HIDE DEF free
    <2> QED BY <1>6, <1>10, <2>1, <2>2 DEF Placed
<1>12. RowsStay(flow, store, new)
    <2>1. Lists(flow, new)[1] \in {"items", "labels", "create"} => Stored(store[flow[1]])
        BY <1>4, <1>10, FirstSteps
    <2> QED BY <1>6, <2>1 DEF RowsStay
<1>13. Undisturbed(flow, store, new)
    <2>1. ~Stored(store[flow[1]]) => store[flow[1]].items = {}
        BY <1>3, <1>4 DEF Rows
    <2>2. Before(flow[1], new.forms[flow[1]], new.seen[flow[1]], store[flow[1]],
                 Lists(flow, new)[new.pc], new.todo, new.labels)
        <3> DEFINE t == flow[1]
        <3>1. t \in Sections
            BY <1>4
        <3>2. new.todo = Tasks(t, new.forms[t], store[t], Steps(t, ~Stored(store[t]))[1])
            BY <1>6
        <3>3. Lists(flow, new)[new.pc] = Steps(t, ~Stored(store[t]))[1]
            BY <1>6, <1>10
        <3>4. ~Stored(store[t]) => store[t].items = {}
            BY <2>1
        <3> HIDE DEF t
        <3>5. Before(t, new.forms[t], store[t], store[t], Steps(t, ~Stored(store[t]))[1], new.todo, new.labels)
            BY <3>1, <3>2, <3>4, Begins
        <3>6. new.seen[t] = store[t]
            BY <1>6
        <3> QED BY <3>3, <3>5, <3>6 DEF t
    <2>3. \A i \in 1..Len(flow) : ~(i < 1)
        BY <1>4
    <2> QED BY <1>6, <2>2, <2>3 DEF Undisturbed
<1>14. ASSUME NEW p \in Savers
       PROVE  /\ SaveShape(jobs'[p]) /\ Rows(jobs'[p].seen)
              /\ Placed(flow, jobs'[p]) /\ RowsStay(flow, store, jobs'[p]) /\ Undisturbed(flow, store, jobs'[p])
    <2>1. CASE p = r
        BY <1>3, <1>6, <1>7, <1>11, <1>12, <1>13, <2>1
    <2>2. CASE p # r /\ Busy(p)
        <3>1. jobs'[p] = others(p)
            BY <1>7, <2>2
        <3>2. /\ SaveShape(others(p)) /\ others(p).at = jobs[p].at /\ others(p).pc = jobs[p].pc
              /\ others(p).forms = jobs[p].forms /\ others(p).seen = jobs[p].seen
              /\ others(p).todo = jobs[p].todo /\ others(p).failed = jobs[p].failed
              /\ others(p).alone = FALSE
            BY <1>9
        <3> HIDE DEF others
        <3>3. Works(flow, others(p)) = Works(flow, jobs[p]) /\ Lists(flow, others(p)) = Lists(flow, jobs[p])
            BY <3>2 DEF Works, Lists
        <3>4. jobs[p].at # 0
            BY <2>2 DEF Busy
        <3>5. Placed(flow, others(p))
            BY <1>3, <3>2, <3>3, <3>4 DEF Placed
        <3>6. RowsStay(flow, store, others(p))
            BY <1>3, <3>2, <3>3 DEF RowsStay
        <3>7. Undisturbed(flow, store, others(p))
            BY <3>2 DEF Undisturbed
        <3> QED BY <1>3, <3>1, <3>2, <3>5, <3>6, <3>7
    <2>3. CASE p # r /\ ~Busy(p)
        BY <1>3, <1>7, <2>3
    <2> QED BY <2>1, <2>2, <2>3
<1>15. Shapes'
    <2>1. Rows(store)'
        BY <1>2, <1>3 DEF Rows, RowShape, ItemShape, Stored
    <2>2. \A p \in Savers : SaveShape(jobs[p])' /\ Rows(jobs[p].seen)'
        BY <1>14 DEF SaveShape, Rows, RowShape, ItemShape, Stored
    <2>3. mixed' \in BOOLEAN
        BY <1>2, <1>3
    <2> QED BY <1>2, <1>3, <1>8, <2>1, <2>2, <2>3 DEF Shapes
<1>16. \A p \in Savers : Placed(flow, jobs[p])' /\ RowsStay(flow, store, jobs[p])' /\ Undisturbed(flow, store, jobs[p])'
    BY <1>2, <1>14
<1>17. OneItem'
    BY <1>2, <1>3 DEF OneItem
<1>18. TotalIsSum'
    BY <1>2, <1>3 DEF TotalIsSum
<1>19. Solitary'
    <2> HIDE DEF free, others
    <2>1. ASSUME NEW p \in Savers \ {r}
          PROVE  jobs'[p].at = jobs[p].at /\ (jobs[p].at # 0 => jobs'[p].alone = FALSE)
        <3>1. CASE Busy(p)
            BY <1>7, <1>9, <3>1
        <3>2. CASE ~Busy(p)
            BY <1>7, <3>2 DEF Busy
        <3> QED BY <3>1, <3>2
    <2>2. jobs'[r] = new
        BY <1>7
    <2>3. ASSUME NEW p \in Savers, jobs'[p].at # 0, jobs'[p].alone
          PROVE  \A q \in Savers \ {p} : jobs'[q].at = 0
        <3>1. p = r
            <4>1. ASSUME p # r PROVE FALSE
                <5>1. jobs'[p].at = jobs[p].at /\ (jobs[p].at # 0 => jobs'[p].alone = FALSE)
                    BY <2>1, <4>1
                <5> QED BY <2>3, <5>1
            <4> QED BY <4>1
        <3>2. free
            BY <1>6, <2>2, <2>3, <3>1
        <3>3. \A q \in Savers : jobs[q].at = 0
            BY <3>2 DEF free, Busy
        <3> QED BY <2>1, <3>1, <3>3
    <2>4. ASSUME NEW p \in Savers, jobs'[p].at # 0, ~mixed'
          PROVE  jobs'[p].alone
        <3>1. free
            BY <1>2, <2>4 DEF free
        <3>2. \A q \in Savers : jobs[q].at = 0
            BY <3>1 DEF free, Busy
        <3>3. p = r
            BY <2>1, <2>4, <3>2
        <3> QED BY <1>6, <2>2, <3>1, <3>3
    <2> QED BY <2>3, <2>4 DEF Solitary, Busy
<1> QED BY <1>15, <1>16, <1>17, <1>18, <1>19 DEF SectionsInv

LEMMA SectionsInit ==
    ASSUME CostInit
    PROVE  SectionsInv
<1>1. /\ flow \in Analyzers /\ store = [s \in Sections |-> NoRow]
      /\ jobs = [r \in Savers |-> NoSave] /\ mixed = FALSE
    BY DEF CostInit
<1>2. RowShape(NoRow) /\ NoRow.items = {} /\ ~Stored(NoRow)
    BY DEF RowShape, NoRow, Stored
<1>3. Rows(store)
    BY <1>1, <1>2 DEF Rows
<1>4. SaveShape(NoSave) /\ Rows(NoSave.seen) /\ NoSave.at = 0
    <2>1. SaveShape(NoSave) /\ NoSave.at = 0
        BY DEF SaveShape, NoSave
    <2>2. NoSave.seen = [s \in Sections |-> NoRow]
        BY DEF NoSave
    <2> QED BY <1>2, <2>1, <2>2 DEF Rows
<1>5. Shapes
    BY <1>1, <1>3, <1>4 DEF Shapes
<1>6. \A r \in Savers : Placed(flow, jobs[r]) /\ RowsStay(flow, store, jobs[r]) /\ Undisturbed(flow, store, jobs[r])
    BY <1>1, <1>5, IdleFits
<1>7. \A s \in Renewed : store[s].items = {}
    BY <1>1, <1>2 DEF Sections, Single
<1>8. OneItem /\ TotalIsSum
    BY <1>7 DEF OneItem, TotalIsSum
<1>9. Solitary
    BY <1>1, <1>4 DEF Solitary, Busy
<1> QED BY <1>5, <1>6, <1>8, <1>9 DEF SectionsInv

LEMMA SectionsStep ==
    ASSUME SectionsInv, [CostNext]_costVars
    PROVE  SectionsInv'
<1>1. CASE \E r \in Savers : Save(r) \/ SaveSteps(r) \/ Stumble(r)
    <2>1. PICK r \in Savers : Save(r) \/ SaveSteps(r) \/ Stumble(r)
        BY <1>1
    <2>2. CASE Save(r)
        BY <2>2, SaveKeeps
    <2>3. CASE SaveSteps(r)
        <3>1. CASE Check(r)
            BY <3>1, CheckKeeps
        <3>2. CASE WriteRow(r)
            BY <3>2, WriteRowKeeps
        <3>3. CASE NothingToDo(r)
            BY <3>3, NothingToDoKeeps
        <3>4. CASE \E k \in jobs[r].todo : DeleteItem(r, k) \/ InsertItem(r, k) \/ UpdateItem(r, k)
            BY <3>4, DeleteItemKeeps, InsertItemKeeps, UpdateItemKeeps
        <3>5. CASE ReadLabels(r)
            BY <3>5, ReadLabelsKeeps
        <3>6. CASE CreateRefiItems(r)
            BY <3>6, CreateRefiItemsKeeps
        <3>7. CASE AnswerSave(r)
            BY <3>7, AnswerKeeps
        <3> QED BY <2>3, <3>1, <3>2, <3>3, <3>4, <3>5, <3>6, <3>7 DEF SaveSteps
    <2>4. CASE Stumble(r)
        BY <2>4, StumbleKeeps
    <2> QED BY <2>1, <2>2, <2>3, <2>4
<1>2. CASE Restart
    BY <1>2, RestartKeeps
<1>3. CASE UNCHANGED costVars
    <2>1. flow' = flow /\ store' = store /\ jobs' = jobs /\ mixed' = mixed
        BY <1>3 DEF costVars
    <2>2. /\ Shapes /\ OneItem /\ Solitary /\ TotalIsSum
          /\ \A r \in Savers : Placed(flow, jobs[r]) /\ RowsStay(flow, store, jobs[r]) /\ Undisturbed(flow, store, jobs[r])
        BY DEF SectionsInv
    <2>3. Shapes'
        BY <2>1, <2>2 DEF Shapes, SaveShape, Rows, RowShape, ItemShape, Stored
    <2>4. OneItem' /\ TotalIsSum'
        BY <2>1, <2>2 DEF OneItem, TotalIsSum
    <2>5. Solitary'
        BY <2>1, <2>2 DEF Solitary, Busy
    <2>6. \A r \in Savers : Placed(flow, jobs[r])' /\ RowsStay(flow, store, jobs[r])' /\ Undisturbed(flow, store, jobs[r])'
        BY <2>1, <2>2
    <2> QED BY <2>3, <2>4, <2>5, <2>6 DEF SectionsInv
<1> QED BY <1>1, <1>2, <1>3 DEF CostNext

-----------------------------------------------------------------------------
(* Theorems. *)

\* Whatever saves overlap, fail or break off.
LEMMA SectionsSafe == CostSpec => []SectionsInv
<1>1. CostInit => SectionsInv
    BY SectionsInit
<1>2. SectionsInv /\ [CostNext]_costVars => SectionsInv'
    BY SectionsStep
<1> QED BY <1>1, <1>2, PTL DEF CostSpec

\* The total of a renewed section is the sum of the costs stored beside it, without
\* the insurance, or NaN where the taxes were left out (handleHCoastUpdate and its
\* likes, calculateItemizedHoldingCost), whatever fails, as long as saves do not
\* overlap: for any number of saves, and every body, set of costs and bound.
THEOREM TotalsSafe == CostSpec => []TotalIsSum
<1>1. SectionsInv => TotalIsSum
    BY DEF SectionsInv
<1> QED BY <1>1, SectionsSafe, PTL

\* A save that ran alone leaves the costs it was sent, and the total its handlers make
\* of its body, in every section of its analyzer (upsertFFlipBuilderSections and its
\* likes), whatever the saves before it broke off or mixed up: for any number of
\* saves, and every body, set of costs and bound.
THEOREM AnswersSafe == CostSpec => []AnswerMatches
<1>1. SectionsInv => AnswerMatches
    <2> SUFFICES ASSUME SectionsInv, NEW r \in Savers, jobs[r].at = Len(flow) + 1, jobs[r].alone,
                        NEW i \in 1..Len(flow)
                 PROVE  LET s == flow[i]  f == jobs[r].forms[s] IN
                        /\ s \in Renewed \cup {"brRefi", "refi"} => store[s].total = Total(s, f, NoRow)
                        /\ s \in Renewed \cup {"cCoast", "brRefi"} => Kept(s, f, store[s])
                        /\ s = "refi" => Given(s, f) \subseteq {item.slot : item \in store[s].items}
        BY DEF AnswerMatches
    <2>1. Matches(flow[i], jobs[r].forms[flow[i]], store[flow[i]])
        BY AnswerMatched
    <2> QED BY <2>1 DEF Matches, Slotted
<1> QED BY <1>1, SectionsSafe, PTL

-----------------------------------------------------------------------------
(* A cached list: what is stored and remembered. *)

\* A read is of a tranche somebody asks for; its fill begins with page 1.
Asking(q) ==
    q.pc # "idle" => /\ TrancheOf(q.start) \in Tranches
                     /\ q.limit # 0
                     /\ q.pc = "fill" => q.page # 0

CacheTypes ==
    /\ table \in Seq(Row)
    /\ DOMAIN cache \subseteq Tranches \X Nat
    /\ cache = [k \in DOMAIN cache |-> cache[k]]
    /\ \A k \in DOMAIN cache : cache[k] \in Page
    /\ DOMAIN newer = DOMAIN cache
    /\ read \in [Readers -> Request]
    /\ \A r \in Readers : Asking(read[r])
    /\ write \in [Writers -> [pc : {"idle", "written", "sweep"}, todo : SUBSET (Tranches \X Nat)]]
    /\ changes \in 0 .. MaxWrites
    /\ failures \in Nat

RowsOf(list, t) == Slice(list, t * MaxElement, MaxElement)

\* A change of the list is still to remove this key.
Condemned(k) ==
    \E w \in Writers : \/ write[w].pc = "written"
                       \/ write[w].pc = "sweep" /\ k \in write[w].todo

\* Pages and fills are of the list, or known to be old, or about to go.
PagesTrue ==
    \A k \in DOMAIN cache :
        \/ cache[k].old
        \/ Condemned(k)
        \/ cache[k].rows = Segment(k) /\ cache[k].of = PagesOf(Len(RowsOf(table, k[1])))

Fetched(q) == q.pc \in {"fresh", "fill"}

ReadsTrue ==
    \A r \in Readers : Fetched(read[r]) =>
        read[r].old \/ read[r].items = RowsOf(table, TrancheOf(read[r].start))

\* A fill that is not torn meets no invalidation, and an invalidation no page that stays.
UntornApart ==
    /\ \A r \in Readers : Fetched(read[r]) /\ ~read[r].torn => ~Writing
    /\ Writing => \A k \in DOMAIN cache : ~cache[k].torn => Condemned(k)

\* A fill of n pages is still to store page p.
ToStore(q, t, p, n) ==
    /\ q.pc = "fill" /\ TrancheOf(q.start) = t /\ ~q.torn
    /\ PagesOf(Len(q.items)) = n
    /\ q.page <= p

\* The pages beside page 1 are there, to live longer, or still to be stored.
Complete(t) ==
    \A p \in 1 .. cache[<<t, 1>>].of :
        \/ Cached(t, p) /\ (p = 1 \/ p \in newer[<<t, 1>>])
        \/ \E r \in Readers : ToStore(read[r], t, p, cache[<<t, 1>>].of)

TranchesWhole ==
    ~Writing => \A t \in Tranches : Cached(t, 1) /\ ~cache[<<t, 1>>].torn => Complete(t)

\* The pages a read asks for.
FirstPage(q) == ((q.start % MaxElement) \div SegmentSize) + 1
LastPage(q) == (((q.start % MaxElement) + q.limit - 1) \div SegmentSize) + 1

\* Tranches that nothing disturbs, and those whose page 1 is there.
Still ==
    {t \in Tranches :
        /\ ~Writing
        /\ failures = 0
        /\ \A k \in DOMAIN cache : k[1] = t => cache[k].rows = Segment(k)
        /\ Cached(t, 1) => \A p \in 1 .. PagesOf(Len(RowsOf(table, t))) : Cached(t, p)}

Begun == {t \in Tranches : Cached(t, 1)}

\* What a read has got so far of these rows.
Got(q, rows) ==
    LET from == (FirstPage(q) - 1) * SegmentSize IN
    /\ q.pc \in {"look", "fetch"} => q.items = <<>>
    /\ q.pc = "fresh" => q.items = rows
    /\ q.pc = "get" => /\ q.page \in FirstPage(q) .. LastPage(q)
                       /\ q.items = Slice(rows, from, (q.page - FirstPage(q)) * SegmentSize)
    /\ q.pc = "reply" => q.items = Slice(rows, from, (LastPage(q) - FirstPage(q) + 1) * SegmentSize)

QuietReads ==
    \A r \in Readers : read[r].quiet =>
        /\ read[r].pc \in {"look", "fetch", "fresh", "get", "reply"}
        /\ TrancheOf(read[r].start) \in Still
        /\ read[r].pc = "get" => TrancheOf(read[r].start) \in Begun
        /\ Got(read[r], RowsOf(table, TrancheOf(read[r].start)))

CacheInv ==
    /\ CacheTypes
    /\ failures = 0 => PagesTrue /\ ReadsTrue /\ UntornApart /\ TranchesWhole
    /\ QuietReads

-----------------------------------------------------------------------------
(* Pages and slices. *)

LEMMA Division ==
    ASSUME NEW x \in Nat, NEW m \in Nat \ {0}
    PROVE  /\ x \div m \in Nat
           /\ x % m \in 0 .. m - 1
           /\ x = (x \div m) * m + (x % m)
BY SMT

LEMMA MinOf ==
    ASSUME NEW a \in Int, NEW b \in Int
    PROVE  Min({a, b}) = IF a <= b THEN a ELSE b
<1> DEFINE m == IF a <= b THEN a ELSE b
<1>1. m \in {a, b} /\ \A y \in {a, b} : m <= y
    OBVIOUS
<1>2. \A x \in {a, b} : (\A y \in {a, b} : x <= y) => x = m
    OBVIOUS
<1> HIDE DEF m
<1>3. Min({a, b}) = m
    BY <1>1, <1>2 DEF Min
<1> QED BY <1>3 DEF m

\* What is left of n rows behind the first m.
Less(n, m) == IF m <= n THEN n - m ELSE 0

\* No more than n of m rows.
AtMostOf(n, m) == IF n <= m THEN n ELSE m

LEMMA SliceIs ==
    ASSUME NEW s \in Seq(Row), NEW from \in Nat, NEW count \in Nat
    PROVE  /\ Slice(s, from, count) \in Seq(Row)
           /\ Len(Slice(s, from, count)) = AtMostOf(count, Less(Len(s), from))
           /\ \A i \in 1 .. AtMostOf(count, Less(Len(s), from)) : Slice(s, from, count)[i] = s[from + i]
<1> DEFINE n == AtMostOf(count, Less(Len(s), from))
           e == IF from + count <= Len(s) THEN from + count ELSE Len(s)
<1>1. Len(s) \in Nat
    OBVIOUS
<1>2. Min({from + count, Len(s)}) = e
    BY <1>1, MinOf
<1>3. Slice(s, from, count) = SubSeq(s, from + 1, e)
    BY <1>2 DEF Slice
<1>4. SubSeq(s, from + 1, e) = [i \in 1 .. n |-> s[from + i]]
    BY <1>1 DEF AtMostOf, Less
<1>5. n \in Nat /\ \A i \in 1 .. n : from + i \in 1 .. Len(s)
    BY <1>1 DEF AtMostOf, Less
<1>6. \A i \in 1 .. n : s[from + i] \in Row
    BY <1>5
<1> HIDE DEF n
<1>7. [i \in 1 .. n |-> s[from + i]] \in Seq(Row) /\ Len([i \in 1 .. n |-> s[from + i]]) = n
    BY <1>5, <1>6
<1>8. /\ Slice(s, from, count) \in Seq(Row)
      /\ Len(Slice(s, from, count)) = n
      /\ \A i \in 1 .. n : Slice(s, from, count)[i] = s[from + i]
    BY <1>3, <1>4, <1>7
<1> QED BY <1>8 DEF n

LEMMA SameRows ==
    ASSUME NEW u \in Seq(Row), NEW v \in Seq(Row), Len(u) = Len(v), \A i \in 1 .. Len(v) : u[i] = v[i]
    PROVE  u = v
OBVIOUS

\* A slice of a slice, and one slice after the other.
LEMMA SliceOfSlice ==
    ASSUME NEW s \in Seq(Row), NEW a \in Nat, NEW n \in Nat, NEW b \in Nat, NEW m \in Nat
    PROVE  Slice(Slice(s, a, n), b, m) = Slice(s, a + b, AtMostOf(m, Less(n, b)))
<1> DEFINE u == Slice(s, a, n)
           k == AtMostOf(m, Less(n, b))
           v == Slice(u, b, m)
           w == Slice(s, a + b, k)
<1>1. Len(s) \in Nat /\ k \in Nat /\ a + b \in Nat
    BY DEF AtMostOf, Less
<1>2. /\ u \in Seq(Row)
      /\ Len(u) = AtMostOf(n, Less(Len(s), a))
      /\ \A i \in 1 .. AtMostOf(n, Less(Len(s), a)) : u[i] = s[a + i]
    BY SliceIs
<1> HIDE DEF u
<1>3. /\ v \in Seq(Row)
      /\ Len(v) = AtMostOf(m, Less(Len(u), b))
      /\ \A i \in 1 .. AtMostOf(m, Less(Len(u), b)) : v[i] = u[b + i]
    BY <1>2, SliceIs
<1> HIDE DEF v, k
<1>4. /\ w \in Seq(Row)
      /\ Len(w) = AtMostOf(k, Less(Len(s), a + b))
      /\ \A i \in 1 .. AtMostOf(k, Less(Len(s), a + b)) : w[i] = s[a + b + i]
    BY <1>1, SliceIs
<1> HIDE DEF w
<1>5. Len(v) = Len(w) /\ Len(w) \in Nat
    BY <1>1, <1>2, <1>3, <1>4 DEF AtMostOf, Less, k
<1>6. ASSUME NEW i \in 1 .. Len(w)
      PROVE  v[i] = w[i]
    <2>1. b + i \in 1 .. AtMostOf(n, Less(Len(s), a))
        BY <1>1, <1>2, <1>3, <1>5 DEF AtMostOf, Less
    <2>2. v[i] = u[b + i]
        BY <1>3, <1>5
    <2>3. u[b + i] = s[a + (b + i)]
        BY <1>2, <2>1
    <2>4. w[i] = s[a + b + i]
        BY <1>4
    <2>5. a + (b + i) = a + b + i
        BY <1>5
    <2> QED BY <2>2, <2>3, <2>4, <2>5
<1>7. v = w
    BY <1>3, <1>4, <1>5, <1>6, SameRows
<1> QED BY <1>7 DEF u, k, v, w

LEMMA Appended ==
    ASSUME NEW u \in Seq(Row), NEW v \in Seq(Row)
    PROVE  /\ u \o v \in Seq(Row)
           /\ Len(u \o v) = Len(u) + Len(v)
           /\ \A i \in 1 .. Len(u) : (u \o v)[i] = u[i]
           /\ \A i \in 1 .. Len(v) : (u \o v)[Len(u) + i] = v[i]
<1>1. u \o v \in Seq(Row) /\ Len(u \o v) = Len(u) + Len(v)
    OBVIOUS
<1>2. \A i \in 1 .. Len(u) : (u \o v)[i] = u[i]
    OBVIOUS
<1>3. \A i \in 1 .. Len(v) : (u \o v)[Len(u) + i] = v[i]
    OBVIOUS
<1> QED BY <1>1, <1>2, <1>3

LEMMA SliceAfter ==
    ASSUME NEW s \in Seq(Row), NEW a \in Nat, NEW n \in Nat, NEW m \in Nat
    PROVE  Slice(s, a, n) \o Slice(s, a + n, m) = Slice(s, a, n + m)
<1> DEFINE u == Slice(s, a, n)
           k == a + n
           l == n + m
           v == Slice(s, k, m)
           w == Slice(s, a, l)
<1>1. Len(s) \in Nat /\ k \in Nat /\ l \in Nat
    OBVIOUS
<1>2. /\ u \in Seq(Row)
      /\ Len(u) = AtMostOf(n, Less(Len(s), a))
      /\ \A i \in 1 .. AtMostOf(n, Less(Len(s), a)) : u[i] = s[a + i]
    BY SliceIs
<1>3. /\ v \in Seq(Row)
      /\ Len(v) = AtMostOf(m, Less(Len(s), k))
      /\ \A i \in 1 .. AtMostOf(m, Less(Len(s), k)) : v[i] = s[k + i]
    <2> HIDE DEF k
    <2> QED BY <1>1, SliceIs
<1>4. /\ w \in Seq(Row)
      /\ Len(w) = AtMostOf(l, Less(Len(s), a))
      /\ \A i \in 1 .. AtMostOf(l, Less(Len(s), a)) : w[i] = s[a + i]
    <2> HIDE DEF l
    <2> QED BY <1>1, SliceIs
<1> HIDE DEF u, v, w
<1>5. /\ Len(u) \in Nat /\ Len(v) \in Nat /\ Len(w) \in Nat
      /\ Len(u) + Len(v) = Len(w)
      /\ Len(v) # 0 => Len(u) = n
    <2> DEFINE x == Less(Len(s), a)
    <2>1. x \in Nat /\ Less(Len(s), k) = Less(x, n)
        BY <1>1 DEF Less
    <2> HIDE DEF x
    <2>2. /\ Len(u) = AtMostOf(n, x)
          /\ Len(v) = AtMostOf(m, Less(x, n))
          /\ Len(w) = AtMostOf(n + m, x)
        BY <1>2, <1>3, <1>4, <2>1 DEF x, l
    <2>3. /\ AtMostOf(n, x) \in Nat /\ AtMostOf(m, Less(x, n)) \in Nat /\ AtMostOf(n + m, x) \in Nat
          /\ AtMostOf(n, x) + AtMostOf(m, Less(x, n)) = AtMostOf(n + m, x)
          /\ AtMostOf(m, Less(x, n)) # 0 => AtMostOf(n, x) = n
        BY <2>1 DEF AtMostOf, Less
    <2> QED BY <2>2, <2>3
<1>6. /\ u \o v \in Seq(Row)
      /\ Len(u \o v) = Len(u) + Len(v)
      /\ \A i \in 1 .. Len(u) : (u \o v)[i] = u[i]
      /\ \A i \in 1 .. Len(v) : (u \o v)[Len(u) + i] = v[i]
    BY <1>2, <1>3, Appended
<1> DEFINE z == u \o v
<1> HIDE DEF z
<1>7. z \in Seq(Row) /\ Len(z) = Len(w)
    BY <1>5, <1>6 DEF z
<1>8. ASSUME NEW i \in 1 .. Len(w)
      PROVE  z[i] = w[i]
    <2>1. w[i] = s[a + i]
        BY <1>4
    <2>2. CASE i <= Len(u)
        <3>1. i \in 1 .. Len(u)
            BY <1>5, <2>2
        <3>2. z[i] = u[i]
            BY <1>6, <3>1 DEF z
        <3>3. u[i] = s[a + i]
            BY <1>2, <3>1
        <3> QED BY <2>1, <3>2, <3>3
    <2>3. CASE i > Len(u)
        <3>1. PICK j \in 1 .. Len(v) : i = Len(u) + j
            <4>1. i - Len(u) \in 1 .. Len(v) /\ i = Len(u) + (i - Len(u))
                BY <1>5, <2>3
            <4> QED BY <4>1
        <3>2. z[i] = v[j]
            BY <1>6, <3>1 DEF z
        <3>3. Len(u) = n
            BY <1>5, <3>1
        <3>4. v[j] = s[a + n + j]
            BY <1>3, <3>1 DEF k
        <3>5. a + i = a + n + j
            BY <3>1, <3>3
        <3> QED BY <2>1, <3>2, <3>4, <3>5
    <2> QED BY <1>5, <2>2, <2>3
<1>9. z = w
    BY <1>4, <1>7, <1>8, SameRows
<1> QED BY <1>9 DEF k, l, u, v, w, z

\* The pages of n rows hold all of them.
LEMMA PagesHold ==
    ASSUME NEW n \in Nat
    PROVE  /\ PagesOf(n) \in Nat
           /\ \A p \in Nat : p >= PagesOf(n) => p * SegmentSize >= n
<1> USE CacheAssumption
<1> DEFINE x == n + SegmentSize - 1
<1>1. x \in Nat
    OBVIOUS
<1>2. /\ x = (x \div SegmentSize) * SegmentSize + (x % SegmentSize)
      /\ x % SegmentSize \in 0 .. SegmentSize - 1
      /\ x \div SegmentSize \in Nat
    <2> HIDE DEF x
    <2> QED BY <1>1, Division
<1>3. PagesOf(n) \in Nat /\ PagesOf(n) * SegmentSize >= n
    BY <1>2 DEF PagesOf
<1>4. ASSUME NEW p \in Nat, p >= PagesOf(n)
      PROVE  p * SegmentSize >= n
    <2>1. p * SegmentSize >= PagesOf(n) * SegmentSize
        BY <1>3, <1>4, SMT
    <2> QED BY <1>3, <2>1, SMT
<1> QED BY <1>3, <1>4

-----------------------------------------------------------------------------
(* Reading. *)

LEMMA TrancheFacts ==
    ASSUME CacheTypes
    PROVE  /\ Tranches \subseteq Nat
           /\ \A r \in Readers : /\ TrancheOf(read[r].start) \in Nat
                                 /\ read[r].start \in Nat /\ read[r].page \in Nat /\ read[r].limit \in Nat
                                 /\ read[r].items \in Seq(Row) /\ read[r] \in Request
           /\ \A t \in Nat : RowsOf(table, t) \in Seq(Row) /\ PagesOf(Len(RowsOf(table, t))) \in Nat
<1> USE CacheAssumption
<1>1. \A n \in Nat : TrancheOf(n) \in Nat
    BY Division DEF TrancheOf
<1>2. Tranches \subseteq Nat
    BY <1>1 DEF Tranches
<1>3. \A r \in Readers : /\ read[r].start \in Nat /\ read[r].page \in Nat /\ read[r].limit \in Nat
                         /\ read[r].items \in Seq(Row) /\ read[r] \in Request
    BY DEF CacheTypes, Request
<1>4. ASSUME NEW t \in Nat
      PROVE  RowsOf(table, t) \in Seq(Row) /\ PagesOf(Len(RowsOf(table, t))) \in Nat
    <2> DEFINE from == t * MaxElement
    <2>1. from \in Nat /\ MaxElement \in Nat /\ table \in Seq(Row)
        BY DEF CacheTypes
    <2> HIDE DEF from
    <2>2. Slice(table, from, MaxElement) \in Seq(Row)
        BY <2>1, SliceIs
    <2> DEFINE rows == RowsOf(table, t)
    <2>3. rows \in Seq(Row)
        BY <2>2 DEF RowsOf, from
    <2> HIDE DEF rows
    <2>4. Len(rows) \in Nat
        BY <2>3
    <2>5. PagesOf(Len(rows)) \in Nat
        BY <2>4, PagesHold
    <2> QED BY <2>3, <2>5 DEF rows
<1> QED BY <1>1, <1>2, <1>3, <1>4

\* A read that moves on, without storing a page.
LEMMA ReadMoves ==
    ASSUME CacheInv, NEW r \in Readers, NEW n \in Request,
           UNCHANGED <<table, cache, newer, write, changes, failures>>,
           read' = [read EXCEPT ![r] = n],
           read[r].pc # "fill",
           Asking(n),
           failures = 0 /\ Fetched(n) =>
               /\ n.old \/ n.items = RowsOf(table, TrancheOf(n.start))
               /\ ~n.torn => ~Writing,
           n.quiet => /\ n.pc \in {"look", "fetch", "fresh", "get", "reply"}
                      /\ TrancheOf(n.start) \in Still
                      /\ n.pc = "get" => TrancheOf(n.start) \in Begun
                      /\ Got(n, RowsOf(table, TrancheOf(n.start)))
    PROVE  CacheInv'
<1>1. read \in [Readers -> Request] /\ \A s \in Readers : read'[s] = IF s = r THEN n ELSE read[s]
    BY DEF CacheInv, CacheTypes
<1>2. CacheTypes'
    <2>1. read' \in [Readers -> Request]
        BY <1>1
    <2>2. \A s \in Readers : Asking(read'[s])
        BY <1>1 DEF CacheInv, CacheTypes
    <2> QED BY <2>1, <2>2 DEF CacheInv, CacheTypes
<1>3. /\ Writing' = Writing /\ Still' = Still /\ Begun' = Begun
      /\ \A k : Condemned(k)' = Condemned(k) /\ Segment(k)' = Segment(k)
      /\ \A t, p : Cached(t, p)' = Cached(t, p)
    BY DEF Writing, Condemned, Segment, Still, Begun, Cached
<1>4. ASSUME failures = 0
      PROVE  PagesTrue' /\ ReadsTrue' /\ UntornApart' /\ TranchesWhole'
    <2>1. PagesTrue'
        BY <1>3, <1>4 DEF CacheInv, PagesTrue
    <2>2. ReadsTrue'
        BY <1>1, <1>3, <1>4 DEF CacheInv, ReadsTrue
    <2>3. UntornApart'
        BY <1>1, <1>3, <1>4 DEF CacheInv, UntornApart
    <2>4. TranchesWhole'
        <3> SUFFICES ASSUME ~Writing, NEW t \in Tranches, Cached(t, 1), ~cache[<<t, 1>>].torn
                     PROVE  Complete(t)'
            BY <1>3 DEF TranchesWhole
        <3>1. Complete(t)
            BY <1>4 DEF CacheInv, TranchesWhole
        <3>2. ASSUME NEW p, NEW s \in Readers, ToStore(read[s], t, p, cache[<<t, 1>>].of)
              PROVE  ToStore(read'[s], t, p, cache[<<t, 1>>].of)
            BY <1>1, <3>2 DEF ToStore
        <3> QED BY <1>3, <3>1, <3>2 DEF Complete
    <2> QED BY <2>1, <2>2, <2>3, <2>4
<1>5. QuietReads'
    BY <1>1, <1>3 DEF CacheInv, QuietReads
<1> QED BY <1>2, <1>4, <1>5 DEF CacheInv

LEMMA NoReadFits ==
    NoRead \in Request /\ NoRead.pc = "idle" /\ NoRead.quiet = FALSE
BY DEF NoRead, Request

LEMMA NothingCondemned ==
    ASSUME CacheTypes, ~Writing
    PROVE  \A k : ~Condemned(k)
BY DEF Writing, Condemned, NoWrite

\* What a read finds settled stands still.
LEMMA SettledStill ==
    ASSUME CacheInv, NEW t \in Tranches, Settled(t)
    PROVE  t \in Still
<1>1. /\ ~Writing /\ failures = 0
      /\ \A r \in Readers : Fetched(read[r]) => TrancheOf(read[r].start) # t
      /\ \A k \in DOMAIN cache : k[1] = t => ~cache[k].old /\ ~cache[k].torn
    BY DEF Settled, Fetched
<1>2. PagesTrue /\ TranchesWhole /\ CacheTypes
    BY <1>1 DEF CacheInv
<1>3. \A k \in DOMAIN cache : k[1] = t => /\ cache[k].rows = Segment(k)
                                          /\ cache[k].of = PagesOf(Len(RowsOf(table, t)))
    BY <1>1, <1>2, NothingCondemned DEF PagesTrue
<1>4. ASSUME Cached(t, 1), NEW p \in 1 .. PagesOf(Len(RowsOf(table, t)))
      PROVE  Cached(t, p)
    <2>1. <<t, 1>> \in DOMAIN cache /\ <<t, 1>>[1] = t
        BY <1>4 DEF Cached
    <2>2. cache[<<t, 1>>].of = PagesOf(Len(RowsOf(table, t))) /\ ~cache[<<t, 1>>].torn
        BY <1>1, <1>3, <2>1
    <2>3. Complete(t)
        BY <1>1, <1>2, <1>4, <2>2 DEF TranchesWhole
    <2>4. \A r \in Readers : ~ToStore(read[r], t, p, cache[<<t, 1>>].of)
        BY <1>1 DEF ToStore, Fetched
    <2> QED BY <2>2, <2>3, <2>4 DEF Complete
<1> QED BY <1>1, <1>3, <1>4 DEF Still

LEMMA AskListSafe ==
    ASSUME CacheInv, NEW r \in Readers, NEW q \in Queries, AskList(r, q)
    PROVE  CacheInv'
<1> DEFINE t == TrancheOf(q.start)
           s == Settled(t)
           n == [NoRead EXCEPT !.pc = "look", !.start = q.start, !.limit = q.limit, !.quiet = s]
<1>1. q.start \in Nat /\ q.limit \in Nat /\ q.limit # 0 /\ t \in Tranches
    BY CacheAssumption DEF Tranches
<1>2. Settled(t) \in BOOLEAN
    BY DEF Settled
<1>3. /\ n \in Request /\ n.pc = "look" /\ n.start = q.start /\ n.limit = q.limit
      /\ n.quiet = Settled(t) /\ n.items = <<>>
    <2>1. s \in BOOLEAN
        BY <1>2
    <2> HIDE DEF t, s
    <2>2. n = [pc |-> "look", start |-> q.start, limit |-> q.limit, page |-> 0, items |-> <<>>,
               quiet |-> s, old |-> FALSE, torn |-> FALSE]
        <3> DEFINE F == {"pc", "start", "limit", "page", "items", "quiet", "old", "torn"}
        <3>1. DOMAIN n = F /\ n = [f \in F |-> n[f]]
            BY DEF NoRead
        <3>2. /\ n.pc = "look" /\ n.start = q.start /\ n.limit = q.limit /\ n.page = 0 /\ n.items = <<>>
              /\ n.quiet = s /\ n.old = FALSE /\ n.torn = FALSE
            BY DEF NoRead
        <3> HIDE DEF n
        <3> QED BY <3>1, <3>2
    <2> HIDE DEF n
    <2>3. n \in Request
        BY <1>1, <2>1, <2>2 DEF Request
    <2> QED BY <2>2, <2>3 DEF s
<1>4. Settled(t) => t \in Still
    BY <1>1, SettledStill
<1>5. read[r].pc # "fill" /\ UNCHANGED <<table, cache, newer, write, changes, failures>>
      /\ read' = [read EXCEPT ![r] = n]
    BY DEF AskList
<1> HIDE DEF n, t
<1>6. TrancheOf(n.start) = t
    BY <1>3 DEF t
<1>7. Got(n, RowsOf(table, TrancheOf(n.start)))
    BY <1>3 DEF Got
<1> QED BY <1>1, <1>3, <1>4, <1>5, <1>6, <1>7, ReadMoves DEF Asking, Fetched

LEMMA Ordered ==
    ASSUME NEW q, q.start \in Nat, q.limit \in Nat \ {0}
    PROVE  FirstPage(q) \in Nat \ {0} /\ LastPage(q) \in Nat /\ FirstPage(q) <= LastPage(q)
<1> USE CacheAssumption
<1> DEFINE x == q.start % MaxElement
           y == x + q.limit - 1
<1>1. x \in Nat
    BY Division
<1> HIDE DEF x
<1>2. y \in Nat /\ x <= y
    BY <1>1
<1> HIDE DEF y
<1>3. /\ x \div SegmentSize \in Nat /\ x = (x \div SegmentSize) * SegmentSize + (x % SegmentSize)
      /\ x % SegmentSize \in 0 .. SegmentSize - 1
    BY <1>1, Division
<1>4. /\ y \div SegmentSize \in Nat /\ y = (y \div SegmentSize) * SegmentSize + (y % SegmentSize)
      /\ y % SegmentSize \in 0 .. SegmentSize - 1
    BY <1>2, Division
<1>5. ASSUME NEW a \in Nat, NEW b \in Nat, b < a
      PROVE  a * SegmentSize >= b * SegmentSize + SegmentSize
    <2>1. a >= b + 1
        BY <1>5
    <2>2. a * SegmentSize >= (b + 1) * SegmentSize
        BY <2>1, SMT
    <2> QED BY <2>2, SMT
<1>6. x \div SegmentSize <= y \div SegmentSize
    <2> DEFINE a == x \div SegmentSize
               b == y \div SegmentSize
               c == a * SegmentSize
               d == b * SegmentSize
    <2>1. a \in Nat /\ b \in Nat /\ c \in Nat /\ d \in Nat /\ x = c + (x % SegmentSize) /\ y = d + (y % SegmentSize)
        BY <1>3, <1>4
    <2>2. b < a => c >= d + SegmentSize
        BY <1>3, <1>4, <1>5
    <2> HIDE DEF a, b, c, d
    <2>3. a <= b
        BY <1>1, <1>2, <1>3, <1>4, <2>1, <2>2
    <2> QED BY <2>3 DEF a, b
<1>7. FirstPage(q) = (x \div SegmentSize) + 1 /\ LastPage(q) = (y \div SegmentSize) + 1
    BY DEF FirstPage, LastPage, x, y
<1> QED BY <1>3, <1>4, <1>6, <1>7

LEMMA NoRows ==
    ASSUME NEW s \in Seq(Row), NEW from \in Nat, NEW count \in Nat, count = 0 \/ from >= Len(s)
    PROVE  Slice(s, from, count) = <<>>
<1> DEFINE u == Slice(s, from, count)
<1>1. u \in Seq(Row) /\ Len(u) = AtMostOf(count, Less(Len(s), from))
    BY SliceIs
<1>2. Len(s) \in Nat
    OBVIOUS
<1>3. AtMostOf(count, Less(Len(s), from)) = 0
    BY <1>2 DEF AtMostOf, Less
<1> HIDE DEF u
<1>4. u = <<>>
    BY <1>1, <1>3
<1> QED BY <1>4 DEF u

LEMMA LookSafe ==
    ASSUME CacheInv, NEW r \in Readers, Look(r)
    PROVE  CacheInv'
<1> DEFINE q == read[r]
           t == TrancheOf(q.start)
           n == IF Cached(t, 1) THEN [q EXCEPT !.pc = "get", !.page = FirstPage(q)]
                ELSE [q EXCEPT !.pc = "fetch"]
<1>1. /\ q \in Request /\ q.start \in Nat /\ q.limit \in Nat \ {0} /\ t \in Tranches /\ q.pc = "look"
      /\ t \in Nat /\ RowsOf(table, t) \in Seq(Row)
    BY TrancheFacts DEF CacheInv, CacheTypes, Look, Asking
<1>2. /\ read' = [read EXCEPT ![r] = n]
      /\ UNCHANGED <<table, cache, newer, write, changes, failures>>
    BY DEF Look, FirstPage, CacheInv, CacheTypes
<1>3. FirstPage(q) \in Nat \ {0} /\ LastPage(q) \in Nat /\ FirstPage(q) <= LastPage(q)
    BY <1>1, Ordered
<1>4. /\ n \in Request /\ n.start = q.start /\ n.limit = q.limit /\ n.items = q.items /\ n.quiet = q.quiet
      /\ n.pc = IF Cached(t, 1) THEN "get" ELSE "fetch"
      /\ Cached(t, 1) => n.page = FirstPage(q)
    <2> HIDE DEF t
    <2> QED BY <1>1, <1>3 DEF Request
<1>5. q.quiet => t \in Still /\ q.items = <<>>
    BY <1>1 DEF CacheInv, QuietReads, Got
<1>6. Cached(t, 1) => t \in Begun
    BY <1>1 DEF Begun
<1> HIDE DEF n
<1>7. FirstPage(n) = FirstPage(q) /\ LastPage(n) = LastPage(q) /\ TrancheOf(n.start) = t
    BY <1>4 DEF FirstPage, LastPage
<1>8. ASSUME q.quiet
      PROVE  Got(n, RowsOf(table, t))
    <2> DEFINE from == (FirstPage(n) - 1) * SegmentSize
    <2>1. from \in Nat /\ (n.page - FirstPage(n)) * SegmentSize \in Int
        BY <1>3, <1>4, <1>7, CacheAssumption DEF Request
    <2>2. n.pc = "get" => (n.page - FirstPage(n)) * SegmentSize = 0
        <3>1. n.pc = "get" => n.page - FirstPage(n) = 0
            BY <1>3, <1>4, <1>7
        <3> QED BY <3>1, CacheAssumption
    <2> HIDE DEF from, t, q
    <2>3. Slice(RowsOf(table, t), from, 0) = <<>>
        BY <1>1, <2>1, NoRows
    <2>4. n.pc = "get" => n.page \in FirstPage(n) .. LastPage(n)
        BY <1>3, <1>4, <1>7
    <2>5. n.items = <<>>
        BY <1>4, <1>5, <1>8
    <2>6. n.pc \in {"get", "fetch"}
        BY <1>4
    <2> QED BY <2>2, <2>3, <2>4, <2>5, <2>6 DEF Got, from
<1> HIDE DEF t, q
<1>9. ~Fetched(n) /\ n.pc \in {"look", "fetch", "fresh", "get", "reply"}
    BY <1>4 DEF Fetched
<1>10. read[r].pc # "fill"
    BY <1>1 DEF q
<1> QED BY <1>1, <1>2, <1>4, <1>5, <1>6, <1>7, <1>8, <1>9, <1>10, ReadMoves DEF Asking

\* A page that stands still is what the list has there, or not there at all.
LEMMA FoundPage ==
    ASSUME CacheInv, NEW t \in Still, t \in Begun, NEW p \in Nat \ {0}
    PROVE  Slice(RowsOf(table, t), (p - 1) * SegmentSize, SegmentSize)
             = IF Cached(t, p) THEN cache[<<t, p>>].rows ELSE <<>>
<1> USE CacheAssumption
<1> DEFINE rows == RowsOf(table, t)
           from == (p - 1) * SegmentSize
<1>1. t \in Tranches /\ t \in Nat /\ rows \in Seq(Row) /\ from \in Nat
    <2>1. t \in Tranches /\ CacheTypes
        BY DEF Still, CacheInv
    <2>2. t \in Nat /\ rows \in Seq(Row)
        BY <2>1, TrancheFacts
    <2>3. from \in Nat
        OBVIOUS
    <2> QED BY <2>1, <2>2, <2>3
<1>2. CASE Cached(t, p)
    <2>1. <<t, p>> \in DOMAIN cache /\ <<t, p>>[1] = t /\ <<t, p>>[2] = p
        BY <1>2 DEF Cached
    <2>2. cache[<<t, p>>].rows = Segment(<<t, p>>)
        BY <2>1 DEF Still
    <2> QED BY <1>2, <2>1, <2>2 DEF Segment, RowsOf
<1>3. CASE ~Cached(t, p)
    <2>1. Len(rows) \in Nat
        BY <1>1
    <2>2. PagesOf(Len(rows)) \in Nat /\ \A m \in Nat : m >= PagesOf(Len(rows)) => m * SegmentSize >= Len(rows)
        <3> HIDE DEF rows
        <3> QED BY <2>1, PagesHold
    <2>3. p \notin 1 .. PagesOf(Len(rows))
        BY <1>1, <1>3 DEF Still, Begun
    <2>4. p - 1 \in Nat /\ p - 1 >= PagesOf(Len(rows))
        BY <2>2, <2>3
    <2>5. from >= Len(rows)
        BY <2>2, <2>4
    <2> HIDE DEF rows, from
    <2>6. Slice(rows, from, SegmentSize) = <<>>
        BY <1>1, <2>5, NoRows
    <2> QED BY <1>3, <2>6 DEF rows, from
<1> QED BY <1>2, <1>3

LEMMA GetPageSafe ==
    ASSUME CacheInv, NEW r \in Readers, GetPage(r)
    PROVE  CacheInv'
<1> DEFINE q == read[r]
           t == TrancheOf(q.start)
           found == IF Cached(t, q.page) THEN cache[<<t, q.page>>].rows ELSE <<>>
           items == q.items \o found
           pc == IF q.page < LastPage(q) THEN "get" ELSE "reply"
           next == q.page + 1
           n == [q EXCEPT !.items = items, !.page = next, !.pc = pc]
<1>1. /\ q \in Request /\ q.start \in Nat /\ q.limit \in Nat \ {0} /\ t \in Tranches /\ q.pc = "get"
      /\ t \in Nat /\ RowsOf(table, t) \in Seq(Row) /\ q.items \in Seq(Row) /\ q.page \in Nat
    BY TrancheFacts DEF CacheInv, CacheTypes, GetPage, Asking
<1>2. /\ read' = [read EXCEPT ![r] = n]
      /\ UNCHANGED <<table, cache, newer, write, changes, failures>>
    BY DEF GetPage, LastPage
<1>3. FirstPage(q) \in Nat \ {0} /\ LastPage(q) \in Nat /\ FirstPage(q) <= LastPage(q)
    BY <1>1, Ordered
<1>4. found \in Seq(Row)
    BY DEF CacheInv, CacheTypes, Page, Cached
<1>5. /\ n \in Request /\ n.start = q.start /\ n.limit = q.limit /\ n.quiet = q.quiet
      /\ n.items = q.items \o found /\ n.page = q.page + 1
      /\ n.pc = IF q.page < LastPage(q) THEN "get" ELSE "reply"
    <2> HIDE DEF t, found
    <2>1. items \in Seq(Row) /\ pc \in {"get", "reply"} /\ next \in Nat
        BY <1>1, <1>4
    <2> HIDE DEF items, pc, next
    <2>2. /\ n \in Request /\ n.start = q.start /\ n.limit = q.limit /\ n.quiet = q.quiet
          /\ n.items = items /\ n.page = next /\ n.pc = pc
        BY <1>1, <2>1 DEF Request
    <2> HIDE DEF n
    <2> QED BY <2>2 DEF items, pc, next
<1>6. q.quiet => /\ t \in Still /\ t \in Begun
                 /\ q.page \in FirstPage(q) .. LastPage(q)
                 /\ q.items = Slice(RowsOf(table, t), (FirstPage(q) - 1) * SegmentSize,
                                    (q.page - FirstPage(q)) * SegmentSize)
    BY <1>1 DEF CacheInv, QuietReads, Got
<1> HIDE DEF n
<1>7. FirstPage(n) = FirstPage(q) /\ LastPage(n) = LastPage(q) /\ TrancheOf(n.start) = t
    BY <1>5 DEF FirstPage, LastPage
<1>8. ASSUME q.quiet
      PROVE  Got(n, RowsOf(table, t))
    <2> DEFINE rows == RowsOf(table, t)
               first == FirstPage(q)
               page == q.page
               from == (first - 1) * SegmentSize
               count == (page - first) * SegmentSize
    <2>1. page \in Nat \ {0} /\ first \in Nat \ {0} /\ first <= page /\ page <= LastPage(q)
        BY <1>3, <1>6, <1>8
    <2>2. found = Slice(rows, (page - 1) * SegmentSize, SegmentSize)
        <3> HIDE DEF q, t
        <3> QED BY <1>6, <1>8, <2>1, FoundPage DEF found, rows, page, q
    <2>3. q.items = Slice(rows, from, count) /\ rows \in Seq(Row)
        BY <1>1, <1>6, <1>8
    <2>4. n.items = q.items \o found /\ n.page = page + 1 /\ n.pc = IF page < LastPage(q) THEN "get" ELSE "reply"
        BY <1>5
    <2>5. /\ from \in Nat /\ count \in Nat /\ from + count = (page - 1) * SegmentSize
          /\ count + SegmentSize = (page + 1 - first) * SegmentSize /\ SegmentSize \in Nat
        <3> HIDE DEF page, first
        <3>1. first - 1 \in Nat /\ page - first \in Nat /\ SegmentSize \in Nat
            BY <2>1, CacheAssumption
        <3>2. from \in Nat /\ count \in Nat
            BY <3>1
        <3>3. from + count = (page - 1) * SegmentSize
            BY <2>1, <3>1
        <3>4. count + SegmentSize = (page + 1 - first) * SegmentSize
            BY <2>1, <3>1
        <3> QED BY <3>1, <3>2, <3>3, <3>4
    <2> HIDE DEF from, count, rows, first, page, found, q, t
    <2>6. Slice(rows, from, count) \o Slice(rows, from + count, SegmentSize)
            = Slice(rows, from, count + SegmentSize)
        BY <2>3, <2>5, SliceAfter
    <2>7. n.items = Slice(rows, from, (page + 1 - first) * SegmentSize)
        BY <2>2, <2>3, <2>4, <2>5, <2>6
    <2>8. CASE page < LastPage(q)
        <3>1. n.pc = "get" /\ n.page \in FirstPage(n) .. LastPage(n)
            BY <1>3, <1>7, <2>1, <2>4, <2>8 DEF first
        <3>2. FirstPage(n) = first /\ n.page - FirstPage(n) = page + 1 - first
            BY <1>3, <1>7, <2>1, <2>4 DEF first
        <3>3. n.items = Slice(rows, (FirstPage(n) - 1) * SegmentSize, (n.page - FirstPage(n)) * SegmentSize)
            BY <2>7, <3>2 DEF from
        <3> QED BY <3>1, <3>3 DEF Got, rows
    <2>9. CASE ~(page < LastPage(q))
        <3>1. n.pc = "reply" /\ page = LastPage(n)
            BY <1>3, <1>7, <2>1, <2>4, <2>9
        <3>2. page + 1 - first = LastPage(n) - FirstPage(n) + 1
            BY <1>3, <1>7, <2>1, <3>1 DEF first
        <3>3. n.items = Slice(rows, (FirstPage(n) - 1) * SegmentSize, (LastPage(n) - FirstPage(n) + 1) * SegmentSize)
            BY <1>7, <2>7, <3>2 DEF from, first
        <3> QED BY <3>1, <3>3 DEF Got, rows
    <2> QED BY <2>8, <2>9
<1> HIDE DEF t, q, found
<1>9. ~Fetched(n) /\ n.pc \in {"look", "fetch", "fresh", "get", "reply"}
    BY <1>5 DEF Fetched
<1>10. read[r].pc # "fill"
    BY <1>1 DEF q
<1> QED BY <1>1, <1>2, <1>5, <1>6, <1>7, <1>8, <1>9, <1>10, ReadMoves DEF Asking

LEMMA FetchSafe ==
    ASSUME CacheInv, NEW r \in Readers, Fetch(r)
    PROVE  CacheInv'
<1> DEFINE q == read[r]
           t == TrancheOf(q.start)
           rows == RowsOf(table, t)
           w == Writing
           n == [q EXCEPT !.items = rows, !.torn = w, !.pc = "fresh"]
<1>1. /\ q \in Request /\ q.limit # 0 /\ t \in Tranches /\ q.pc = "fetch"
      /\ t \in Nat /\ rows \in Seq(Row) /\ w \in BOOLEAN
    BY TrancheFacts DEF CacheInv, CacheTypes, Fetch, Writing, Asking
<1>2. /\ read' = [read EXCEPT ![r] = n]
      /\ UNCHANGED <<table, cache, newer, write, changes, failures>>
    BY DEF Fetch, RowsOf, CacheInv, CacheTypes
<1>3. q.quiet => t \in Still
    BY <1>1 DEF CacheInv, QuietReads
<1> HIDE DEF rows, t, w
<1>4. /\ n \in Request /\ n.start = q.start /\ n.limit = q.limit /\ n.quiet = q.quiet
      /\ n.items = rows /\ n.torn = w /\ n.pc = "fresh"
    BY <1>1 DEF Request
<1> HIDE DEF n
<1>5. Got(n, rows)
    BY <1>4 DEF Got
<1>6. TrancheOf(n.start) = t /\ read[r].pc # "fill"
    BY <1>1, <1>4 DEF t
<1> HIDE DEF q
<1> QED BY <1>1, <1>2, <1>3, <1>4, <1>5, <1>6, ReadMoves DEF Asking, rows, w

LEMMA ReplySafe ==
    ASSUME CacheInv, NEW r \in Readers, Reply(r)
    PROVE  CacheInv'
<1> DEFINE q == read[r]
           t == TrancheOf(q.start)
           n == IF q.pc = "fresh" /\ q.items # <<>>
                THEN [q EXCEPT !.pc = "fill", !.page = 1, !.quiet = FALSE] ELSE NoRead
<1>1. q \in Request /\ q.pc \in {"reply", "fresh"} /\ q.limit # 0 /\ t \in Tranches
    BY DEF CacheInv, CacheTypes, Reply, Asking
<1>2. /\ read' = [read EXCEPT ![r] = n]
      /\ UNCHANGED <<table, cache, newer, write, changes, failures>>
    BY DEF Reply
<1>3. CASE q.pc = "fresh" /\ q.items # <<>>
    <2>1. /\ n \in Request /\ n.pc = "fill" /\ n.quiet = FALSE /\ n.start = q.start /\ n.limit = q.limit
          /\ n.items = q.items /\ n.old = q.old /\ n.torn = q.torn /\ n.page = 1
        BY <1>1, <1>3 DEF Request
    <2> HIDE DEF n
    <2>2. failures = 0 => /\ q.old \/ q.items = RowsOf(table, t)
                          /\ ~q.torn => ~Writing
        BY <1>3 DEF CacheInv, ReadsTrue, UntornApart, Fetched
    <2>3. TrancheOf(n.start) = t /\ read[r].pc # "fill"
        BY <1>1, <2>1
    <2> HIDE DEF t, q
    <2>4. Asking(n)
        BY <1>1, <2>1, <2>3 DEF Asking
    <2> QED BY <1>2, <2>1, <2>2, <2>3, <2>4, ReadMoves
<1>4. CASE ~(q.pc = "fresh" /\ q.items # <<>>)
    <2>1. n = NoRead /\ read[r].pc # "fill"
        BY <1>1, <1>4
    <2> HIDE DEF n
    <2>2. n \in Request /\ n.pc = "idle" /\ n.quiet = FALSE /\ ~Fetched(n)
        BY <2>1, NoReadFits DEF Fetched
    <2> QED BY <1>2, <2>1, <2>2, ReadMoves DEF Asking
<1> QED BY <1>3, <1>4

-----------------------------------------------------------------------------
(* Filling and expiry. *)

LEMMA NobodyQuiet ==
    ASSUME \A r \in Readers : read'[r].quiet = FALSE
    PROVE  QuietReads'
BY DEF QuietReads

LEMMA FilledIs ==
    ASSUME CacheInv, NEW r \in Readers, read[r].pc = "fill"
    PROVE  LET q == read[r]
               f == Filled(q)
           IN  /\ f \in Request /\ f.quiet = FALSE
               /\ Asking(f)
               /\ f.pc = IF q.page < PagesOf(Len(q.items)) THEN "fill" ELSE "idle"
               /\ q.page < PagesOf(Len(q.items)) =>
                    /\ f.start = q.start /\ f.items = q.items /\ f.old = q.old /\ f.torn = q.torn
                    /\ f.page = q.page + 1
<1> DEFINE q == read[r]
           f == Filled(q)
           next == q.page + 1
<1>1. q \in Request /\ q.page \in Nat /\ TrancheOf(q.start) \in Tranches /\ q.limit # 0
    BY TrancheFacts DEF CacheInv, CacheTypes, Asking
<1>2. q.quiet = FALSE
    BY <1>1 DEF CacheInv, QuietReads, Request
<1>3. CASE q.page < PagesOf(Len(q.items))
    <2>1. next \in Nat
        BY <1>1
    <2>2. f = [q EXCEPT !.page = next]
        BY <1>3 DEF Filled
    <2> HIDE DEF next, f, q
    <2>3. /\ f \in Request /\ f.pc = q.pc /\ f.quiet = q.quiet /\ f.limit = q.limit
          /\ f.start = q.start /\ f.items = q.items /\ f.old = q.old /\ f.torn = q.torn
          /\ f.page = next
        BY <1>1, <2>1, <2>2 DEF Request
    <2>4. f.pc = "fill"
        BY <2>3 DEF q
    <2> QED BY <1>1, <1>2, <1>3, <2>3, <2>4 DEF Asking, next, f, q
<1>4. CASE ~(q.page < PagesOf(Len(q.items)))
    BY <1>4, NoReadFits DEF Asking, Filled
<1> QED BY <1>3, <1>4

\* Readers whose fields, but quiet, stay as they are.
LEMMA NoticedIs ==
    ASSUME CacheTypes
    PROVE  /\ Noticed(read) \in [Readers -> Request]
           /\ \A s \in Readers :
                /\ Noticed(read)[s].quiet = FALSE
                /\ Noticed(read)[s].pc = read[s].pc /\ Noticed(read)[s].start = read[s].start
                /\ Noticed(read)[s].limit = read[s].limit
                /\ Noticed(read)[s].page = read[s].page /\ Noticed(read)[s].items = read[s].items
                /\ Noticed(read)[s].old = read[s].old /\ Noticed(read)[s].torn = read[s].torn
<1> DEFINE x(s) == [read[s] EXCEPT !.quiet = FALSE]
<1>1. ASSUME NEW s \in Readers
      PROVE  /\ x(s) \in Request /\ x(s).quiet = FALSE /\ x(s).pc = read[s].pc /\ x(s).start = read[s].start
             /\ x(s).limit = read[s].limit /\ x(s).page = read[s].page /\ x(s).items = read[s].items
             /\ x(s).old = read[s].old /\ x(s).torn = read[s].torn
    <2>1. read[s] \in Request
        BY DEF CacheTypes
    <2> QED BY <2>1 DEF Request
<1>2. Noticed(read) = [s \in Readers |-> x(s)]
    BY DEF Noticed
<1> HIDE DEF x
<1>3. Noticed(read) \in [Readers -> Request] /\ \A s \in Readers : Noticed(read)[s] = x(s)
    BY <1>1, <1>2
<1> QED BY <1>1, <1>3

\* The same readers, when one of them has filled a page.
LEMMA FilledRead ==
    ASSUME CacheInv, NEW r \in Readers, read[r].pc = "fill",
           read' = [Noticed(read) EXCEPT ![r] = Filled(read[r])]
    PROVE  /\ read' \in [Readers -> Request]
           /\ \A s \in Readers : read'[s].quiet = FALSE
           /\ \A s \in Readers : Asking(read'[s])
           /\ read'[r] = Filled(read[r])
           /\ \A s \in Readers \ {r} :
                /\ read'[s].pc = read[s].pc /\ read'[s].start = read[s].start
                /\ read'[s].page = read[s].page /\ read'[s].items = read[s].items
                /\ read'[s].old = read[s].old /\ read'[s].torn = read[s].torn
<1> DEFINE f == Filled(read[r])
           m == Noticed(read)
<1>1. f \in Request /\ f.quiet = FALSE /\ Asking(f)
    BY FilledIs
<1>2. /\ m \in [Readers -> Request]
      /\ \A s \in Readers :
           /\ m[s].quiet = FALSE
           /\ m[s].pc = read[s].pc /\ m[s].start = read[s].start /\ m[s].limit = read[s].limit
           /\ m[s].page = read[s].page /\ m[s].items = read[s].items
           /\ m[s].old = read[s].old /\ m[s].torn = read[s].torn
    BY NoticedIs DEF CacheInv
<1>3. \A s \in Readers : Asking(read[s])
    BY DEF CacheInv, CacheTypes
<1>4. read' = [m EXCEPT ![r] = f]
    OBVIOUS
<1> HIDE DEF f, m
<1>5. read' \in [Readers -> Request] /\ \A s \in Readers : read'[s] = IF s = r THEN f ELSE m[s]
    BY <1>1, <1>2, <1>4
<1>6. \A s \in Readers : read'[s].quiet = FALSE
    BY <1>1, <1>2, <1>5
<1>7. \A s \in Readers : Asking(read'[s])
    BY <1>1, <1>2, <1>3, <1>5 DEF Asking
<1>8. \A s \in Readers \ {r} :
                /\ read'[s].pc = read[s].pc /\ read'[s].start = read[s].start
                /\ read'[s].page = read[s].page /\ read'[s].items = read[s].items
                /\ read'[s].old = read[s].old /\ read'[s].torn = read[s].torn
    BY <1>2, <1>5
<1> QED BY <1>5, <1>6, <1>7, <1>8 DEF f

LEMMA StoreFailsSafe ==
    ASSUME CacheInv, NEW r \in Readers, StoreFails(r)
    PROVE  CacheInv'
<1>1. read[r].pc = "fill" /\ read' = [Noticed(read) EXCEPT ![r] = Filled(read[r])]
    BY DEF StoreFails
<1>2. /\ read' \in [Readers -> Request]
      /\ \A s \in Readers : read'[s].quiet = FALSE
      /\ \A s \in Readers : Asking(read'[s])
    BY <1>1, FilledRead
<1>3. UNCHANGED <<table, cache, newer, write, changes>> /\ failures' = failures + 1 /\ failures \in Nat
    BY DEF StoreFails, CacheInv, CacheTypes
<1>4. failures' \in Nat /\ failures' # 0 /\ CacheTypes
    BY <1>3 DEF CacheInv
<1>5. CacheTypes'
    BY <1>2, <1>3, <1>4 DEF CacheTypes
<1>6. QuietReads'
    BY <1>2, NobodyQuiet
<1> QED BY <1>4, <1>5, <1>6 DEF CacheInv

LEMMA StorePageSafe ==
    ASSUME CacheInv, NEW r \in Readers, StorePage(r)
    PROVE  CacheInv'
<1> DEFINE q == read[r]
           t == TrancheOf(q.start)
           key == <<t, q.page>>
           page == PageOf(q)
           f == Filled(q)
           of == PagesOf(Len(q.items))
<1>1. /\ q \in Request /\ q.pc = "fill" /\ t \in Tranches /\ t \in Nat /\ q.page \in Nat \ {0}
      /\ q.items \in Seq(Row) /\ key \in Tranches \X Nat
    BY TrancheFacts DEF CacheInv, CacheTypes, StorePage, Asking
<1>2. /\ cache' = [k \in DOMAIN cache \cup {key} |-> IF k = key THEN page ELSE cache[k]]
      /\ newer' = SetLast(t, q.page)
      /\ read' = [Noticed(read) EXCEPT ![r] = f]
      /\ UNCHANGED <<table, write, changes, failures>>
    BY DEF StorePage
<1>3. /\ read' \in [Readers -> Request]
      /\ \A s \in Readers : read'[s].quiet = FALSE
      /\ \A s \in Readers : Asking(read'[s])
      /\ read'[r] = f
      /\ \A s \in Readers \ {r} :
           /\ read'[s].pc = read[s].pc /\ read'[s].start = read[s].start
           /\ read'[s].page = read[s].page /\ read'[s].items = read[s].items
           /\ read'[s].old = read[s].old /\ read'[s].torn = read[s].torn
    BY <1>1, <1>2, FilledRead
<1>4. /\ f.pc = IF q.page < of THEN "fill" ELSE "idle"
      /\ q.page < of => /\ f.start = q.start /\ f.items = q.items /\ f.old = q.old /\ f.torn = q.torn
                        /\ f.page = q.page + 1
    BY <1>1, FilledIs
<1>5. of \in Nat
    <2>1. Len(q.items) \in Nat
        BY <1>1
    <2> QED BY <2>1, PagesHold
<1>6. page \in Page /\ page.of = of /\ page.old = q.old /\ page.torn = q.torn
      /\ page.rows = Slice(q.items, (q.page - 1) * SegmentSize, SegmentSize)
    <2> DEFINE rows == Slice(q.items, (q.page - 1) * SegmentSize, SegmentSize)
               from == (q.page - 1) * SegmentSize
    <2>1. rows \in Seq(Row)
        <3>1. from \in Nat /\ SegmentSize \in Nat
            <4>1. q.page - 1 \in Nat /\ SegmentSize \in Nat
                BY <1>1, CacheAssumption
            <4> QED BY <4>1
        <3> HIDE DEF from, q
        <3>2. Slice(q.items, from, SegmentSize) \in Seq(Row)
            BY <1>1, <3>1, SliceIs
        <3> QED BY <3>2 DEF from
    <2>2. page = [rows |-> rows, of |-> of, old |-> q.old, torn |-> q.torn]
        BY DEF PageOf
    <2>3. q.old \in BOOLEAN /\ q.torn \in BOOLEAN
        BY <1>1 DEF Request
    <2> HIDE DEF rows, of, page
    <2> QED BY <1>5, <2>1, <2>2, <2>3 DEF Page, rows
<1>7. /\ DOMAIN newer' = DOMAIN newer \cup {key}
      /\ \A k \in DOMAIN newer \cup {key} :
           newer'[k] = IF k = key THEN {} ELSE IF k[1] = t THEN newer[k] \cup {q.page} ELSE newer[k]
    BY <1>2 DEF SetLast
<1>8. /\ DOMAIN cache' = DOMAIN cache \cup {key}
      /\ \A k \in DOMAIN cache \cup {key} : cache'[k] = IF k = key THEN page ELSE cache[k]
      /\ cache' = [k \in DOMAIN cache' |-> cache'[k]]
    BY <1>2
<1>9. key[1] = t /\ key[2] = q.page /\ \A m, n : <<m, n>> = key <=> m = t /\ n = q.page
    OBVIOUS
<1> HIDE DEF f, of, page, key
<1>10. CacheTypes'
    <2>1. CacheTypes
        BY DEF CacheInv
    <2>2. /\ DOMAIN cache' \subseteq Tranches \X Nat
          /\ \A k \in DOMAIN cache' : cache'[k] \in Page
          /\ DOMAIN newer' = DOMAIN cache'
        BY <1>1, <1>6, <1>7, <1>8, <2>1 DEF CacheTypes
    <2> QED BY <1>2, <1>3, <1>8, <2>1, <2>2 DEF CacheTypes
<1>11. QuietReads'
    BY <1>3, NobodyQuiet
<1>12. Writing' = Writing /\ \A k : Condemned(k)' = Condemned(k) /\ Segment(k)' = Segment(k)
    BY <1>2 DEF Writing, Condemned, Segment
<1>13. ASSUME failures = 0
       PROVE  PagesTrue' /\ ReadsTrue' /\ UntornApart'
    <2>1. /\ q.old \/ q.items = RowsOf(table, t)
          /\ ~q.torn => ~Writing
        BY <1>1, <1>13 DEF CacheInv, ReadsTrue, UntornApart, Fetched
    <2>2. ~q.old => page.rows = Segment(key) /\ page.of = PagesOf(Len(RowsOf(table, t)))
        BY <1>6, <1>9, <2>1 DEF Segment, RowsOf, of
    <2>3. PagesTrue'
        <3> SUFFICES ASSUME NEW k \in DOMAIN cache'
                     PROVE  \/ cache'[k].old
                            \/ Condemned(k)
                            \/ cache'[k].rows = Segment(k) /\ cache'[k].of = PagesOf(Len(RowsOf(table, k[1])))
            BY <1>2, <1>12 DEF PagesTrue
        <3>1. CASE k = key
            BY <1>6, <1>8, <1>9, <2>2, <3>1
        <3>2. CASE k # key
            BY <1>8, <1>13, <3>2 DEF CacheInv, PagesTrue
        <3> QED BY <3>1, <3>2
    <2>4. \A s \in Readers : Fetched(read'[s]) =>
            /\ read'[s].old \/ read'[s].items = RowsOf(table, TrancheOf(read'[s].start))
            /\ ~read'[s].torn => ~Writing
        <3> SUFFICES ASSUME NEW s \in Readers, Fetched(read'[s])
                     PROVE  /\ read'[s].old \/ read'[s].items = RowsOf(table, TrancheOf(read'[s].start))
                            /\ ~read'[s].torn => ~Writing
            OBVIOUS
        <3>1. CASE s = r
            <4>1. f.start = q.start /\ f.items = q.items /\ f.old = q.old /\ f.torn = q.torn /\ read'[s] = f
                BY <1>3, <1>4, <3>1 DEF Fetched
            <4> QED BY <2>1, <4>1
        <3>2. CASE s # r
            BY <1>3, <1>13, <3>2 DEF CacheInv, ReadsTrue, UntornApart, Fetched
        <3> QED BY <3>1, <3>2
    <2>5. ReadsTrue'
        BY <1>2, <2>4 DEF ReadsTrue, Fetched
    <2>6. Writing => \A k \in DOMAIN cache' : ~cache'[k].torn => Condemned(k)
        <3> SUFFICES ASSUME Writing, NEW k \in DOMAIN cache', ~cache'[k].torn
                     PROVE  Condemned(k)
            OBVIOUS
        <3>1. k # key
            BY <1>6, <1>8, <2>1
        <3> QED BY <1>8, <1>13, <3>1 DEF CacheInv, UntornApart
    <2>7. UntornApart'
        BY <1>12, <2>4, <2>6 DEF UntornApart, Fetched
    <2> QED BY <2>3, <2>5, <2>7
<1>14. ASSUME failures = 0
       PROVE  TranchesWhole'
    <2> SUFFICES ASSUME ~Writing, NEW u \in Tranches, <<u, 1>> \in DOMAIN cache', ~cache'[<<u, 1>>].torn,
                        NEW p \in 1 .. cache'[<<u, 1>>].of
                 PROVE  \/ <<u, p>> \in DOMAIN cache' /\ (p = 1 \/ p \in newer'[<<u, 1>>])
                        \/ \E s \in Readers : ToStore(read'[s], u, p, cache'[<<u, 1>>].of)
        BY <1>12 DEF TranchesWhole, Complete, Cached, ToStore
    <2>1. ASSUME NEW s \in Readers \ {r}, NEW m, ToStore(read[s], u, p, m)
          PROVE  ToStore(read'[s], u, p, m)
        BY <1>3, <2>1 DEF ToStore
    <2>2. ASSUME u = t, ~q.torn, cache'[<<u, 1>>].of = of, q.page < p
          PROVE  ToStore(f, u, p, cache'[<<u, 1>>].of)
        <3>1. p \in Nat /\ p <= of /\ q.page < of /\ q.page + 1 <= p
            BY <1>1, <1>5, <2>2
        <3>2. f.pc = "fill" /\ f.start = q.start /\ f.items = q.items /\ f.torn = q.torn /\ f.page = q.page + 1
            BY <1>4, <3>1
        <3> QED BY <2>2, <3>1, <3>2 DEF ToStore, of
    <2>3. CASE <<u, 1>> = key
        <3>1. u = t /\ q.page = 1 /\ cache'[<<u, 1>>] = page
            BY <1>8, <1>9, <2>3
        <3>2. ~q.torn /\ cache'[<<u, 1>>].of = of
            BY <1>6, <3>1
        <3>3. p = 1 \/ q.page < p
            BY <1>5, <3>1, <3>2
        <3> QED BY <1>3, <2>2, <3>1, <3>2, <3>3
    <2>4. CASE <<u, 1>> # key
        <3> DEFINE one == <<u, 1>>
        <3>1. one \in DOMAIN cache /\ cache'[one] = cache[one] /\ one[1] = u
            BY <1>8, <2>4
        <3>2. one \in DOMAIN newer /\ newer'[one] = IF u = t THEN newer[one] \cup {q.page} ELSE newer[one]
            BY <1>7, <2>4, <3>1 DEF CacheInv, CacheTypes
        <3>3. Complete(u) /\ p \in 1 .. cache[one].of
            BY <1>14, <3>1 DEF CacheInv, TranchesWhole, Cached
        <3>4. \/ <<u, p>> \in DOMAIN cache /\ (p = 1 \/ p \in newer[one])
              \/ \E s \in Readers : ToStore(read[s], u, p, cache[one].of)
            BY <3>3 DEF Complete, Cached
        <3>5. CASE <<u, p>> \in DOMAIN cache /\ (p = 1 \/ p \in newer[one])
            BY <1>8, <3>2, <3>5
        <3>6. CASE \E s \in Readers \ {r} : ToStore(read[s], u, p, cache[one].of)
            BY <2>1, <3>1, <3>6
        <3>7. CASE ToStore(q, u, p, cache[one].of)
            <4>1. u = t /\ ~q.torn /\ cache'[one].of = of /\ q.page <= p
                BY <3>1, <3>7 DEF ToStore, of
            <4>2. CASE q.page = p
                BY <1>8, <1>9, <3>2, <4>1, <4>2
            <4>3. CASE q.page # p
                <5>1. q.page < p
                    BY <1>1, <1>5, <4>1, <4>3
                <5> QED BY <1>3, <2>2, <4>1, <5>1
            <4> QED BY <4>2, <4>3
        <3> QED BY <3>4, <3>5, <3>6, <3>7
    <2> QED BY <2>3, <2>4
<1> QED BY <1>2, <1>10, <1>11, <1>13, <1>14 DEF CacheInv

\* A key is dropped: the ones that stay are as they were, or fewer are set after them.
LEMMA Dropped ==
    ASSUME CacheTypes, NEW k, Forget({k})
    PROVE  /\ DOMAIN cache' = DOMAIN cache \ {k} /\ DOMAIN newer' = DOMAIN newer \ {k}
           /\ cache' = [j \in DOMAIN cache' |-> cache'[j]]
           /\ \A j \in DOMAIN cache' : cache'[j] = cache[j]
           /\ \A j \in DOMAIN newer' : newer'[j] = {p \in newer[j] : <<j[1], p>> # k}
BY DEF Forget, CacheTypes

LEMMA ExpireSafe ==
    ASSUME CacheInv, NEW t \in Tranches, Expire(t)
    PROVE  CacheInv'
<1>1. CacheTypes
    BY DEF CacheInv
<1>2. PICK k \in DOMAIN newer : /\ k[1] = t
                                /\ \A j \in DOMAIN newer : j[1] = t => k[2] \notin newer[j]
                                /\ Forget({k})
    BY DEF Expire
<1>3. read' = Noticed(read) /\ UNCHANGED <<table, write, changes, failures>>
    BY DEF Expire
<1>4. /\ DOMAIN cache' = DOMAIN cache \ {k} /\ DOMAIN newer' = DOMAIN newer \ {k}
      /\ cache' = [j \in DOMAIN cache' |-> cache'[j]]
      /\ \A j \in DOMAIN cache' : cache'[j] = cache[j]
      /\ \A j \in DOMAIN newer' : newer'[j] = {p \in newer[j] : <<j[1], p>> # k}
    BY <1>1, <1>2, Dropped
<1>5. /\ read' \in [Readers -> Request]
      /\ \A s \in Readers :
           /\ read'[s].quiet = FALSE
           /\ read'[s].pc = read[s].pc /\ read'[s].start = read[s].start /\ read'[s].limit = read[s].limit
           /\ read'[s].page = read[s].page /\ read'[s].items = read[s].items
           /\ read'[s].old = read[s].old /\ read'[s].torn = read[s].torn
    BY <1>1, <1>3, NoticedIs
<1>6. CacheTypes'
    <2>1. \A s \in Readers : Asking(read'[s])
        BY <1>1, <1>5 DEF CacheTypes, Asking
    <2>2. /\ DOMAIN cache' \subseteq Tranches \X Nat
          /\ \A j \in DOMAIN cache' : cache'[j] \in Page
          /\ DOMAIN newer' = DOMAIN cache'
        BY <1>1, <1>4 DEF CacheTypes
    <2> QED BY <1>1, <1>3, <1>4, <1>5, <2>1, <2>2 DEF CacheTypes
<1>7. QuietReads'
    BY <1>5, NobodyQuiet
<1>8. Writing' = Writing /\ \A j : Condemned(j)' = Condemned(j) /\ Segment(j)' = Segment(j)
    BY <1>3 DEF Writing, Condemned, Segment
<1>9. ASSUME failures = 0
      PROVE  PagesTrue' /\ ReadsTrue' /\ UntornApart'
    <2>1. PagesTrue'
        BY <1>3, <1>4, <1>8, <1>9 DEF CacheInv, PagesTrue
    <2>2. ReadsTrue'
        BY <1>3, <1>5, <1>9 DEF CacheInv, ReadsTrue, Fetched
    <2>3. UntornApart'
        BY <1>4, <1>5, <1>8, <1>9 DEF CacheInv, UntornApart, Fetched
    <2> QED BY <2>1, <2>2, <2>3
<1>10. ASSUME failures = 0
       PROVE  TranchesWhole'
    <2> SUFFICES ASSUME ~Writing, NEW u \in Tranches, <<u, 1>> \in DOMAIN cache', ~cache'[<<u, 1>>].torn,
                        NEW p \in 1 .. cache'[<<u, 1>>].of
                 PROVE  \/ <<u, p>> \in DOMAIN cache' /\ (p = 1 \/ p \in newer'[<<u, 1>>])
                        \/ \E s \in Readers : ToStore(read'[s], u, p, cache'[<<u, 1>>].of)
        BY <1>8 DEF TranchesWhole, Complete, Cached, ToStore
    <2> DEFINE one == <<u, 1>>
    <2>1. one \in DOMAIN cache /\ cache'[one] = cache[one] /\ one \in DOMAIN newer' /\ one[1] = u /\ one # k
        BY <1>1, <1>4 DEF CacheTypes
    <2>2. Complete(u)
        BY <1>10, <2>1 DEF CacheInv, TranchesWhole, Cached
    <2>3. \/ <<u, p>> \in DOMAIN cache /\ (p = 1 \/ p \in newer[one])
          \/ \E s \in Readers : ToStore(read[s], u, p, cache[one].of)
        BY <2>1, <2>2 DEF Complete, Cached
    <2>4. CASE \E s \in Readers : ToStore(read[s], u, p, cache[one].of)
        BY <1>5, <2>1, <2>4 DEF ToStore
    <2>5. CASE <<u, p>> \in DOMAIN cache /\ (p = 1 \/ p \in newer[one])
        <3>1. <<u, p>> # k
            <4> SUFFICES ASSUME <<u, p>> = k
                         PROVE  FALSE
                OBVIOUS
            <4>1. k[1] = u /\ k[2] = p
                OBVIOUS
            <4>2. p \in newer[one]
                BY <2>1, <2>5
            <4> QED BY <1>2, <1>4, <2>1, <4>1, <4>2
        <3>2. p \in newer[one] => p \in newer'[one]
            BY <1>4, <2>1, <3>1
        <3> QED BY <1>4, <2>5, <3>1, <3>2
    <2> QED BY <2>3, <2>4, <2>5
<1> QED BY <1>3, <1>6, <1>7, <1>9, <1>10 DEF CacheInv

-----------------------------------------------------------------------------
(* Changes and invalidations. *)

WriteSet == [pc : {"idle", "written", "sweep"}, todo : SUBSET (Tranches \X Nat)]

\* The list changes: every page is to go, and whoever has read the list is late.
LEMMA Changed ==
    ASSUME CacheInv, NEW w \in Writers,
           table' \in Seq(Row), changes' \in 0 .. MaxWrites,
           write' = [write EXCEPT ![w].pc = "written"],
           read' = Overtaken,
           UNCHANGED <<cache, newer, failures>>
    PROVE  CacheInv'
<1>1. CacheTypes
    BY DEF CacheInv
<1> DEFINE x(s) == [read[s] EXCEPT !.quiet = FALSE, !.old = @ \/ read[s].pc \in {"fresh", "fill"},
                                   !.torn = @ \/ read[s].pc \in {"fresh", "fill"}]
<1>2. ASSUME NEW s \in Readers
      PROVE  /\ x(s) \in Request /\ x(s).quiet = FALSE /\ x(s).pc = read[s].pc /\ x(s).start = read[s].start
             /\ x(s).limit = read[s].limit /\ x(s).page = read[s].page
             /\ Fetched(read[s]) => x(s).old /\ x(s).torn
    <2>1. read[s] \in Request
        BY <1>1 DEF CacheTypes
    <2> QED BY <2>1 DEF Request, Fetched
<1>3. Overtaken = [s \in Readers |-> x(s)]
    BY DEF Overtaken
<1> HIDE DEF x
<1>4. /\ read' \in [Readers -> Request]
      /\ \A s \in Readers : /\ read'[s].quiet = FALSE /\ Asking(read'[s])
                            /\ Fetched(read'[s]) => read'[s].old /\ read'[s].torn
    BY <1>1, <1>2, <1>3 DEF CacheTypes, Asking, Fetched
<1>5. write' \in [Writers -> WriteSet] /\ write'[w].pc = "written"
    BY <1>1 DEF CacheTypes, WriteSet
<1>6. CacheTypes'
    BY <1>1, <1>4, <1>5 DEF CacheTypes, WriteSet
<1>7. QuietReads'
    BY <1>4, NobodyQuiet
<1>8. Writing' /\ \A k : Condemned(k)'
    BY <1>5 DEF Writing, Condemned, NoWrite
<1>9. PagesTrue' /\ ReadsTrue' /\ UntornApart' /\ TranchesWhole'
    BY <1>4, <1>8 DEF PagesTrue, ReadsTrue, UntornApart, TranchesWhole, Fetched
<1> QED BY <1>6, <1>7, <1>9 DEF CacheInv

LEMMA InsertSafe ==
    ASSUME CacheInv, NEW w \in Writers, Insert(w)
    PROVE  CacheInv'
<1> DEFINE n == InitialRows + changes + 1
<1>1. n \in Row /\ changes + 1 \in 0 .. MaxWrites /\ table \in Seq(Row)
    BY CacheAssumption DEF CacheInv, CacheTypes, Insert, Row
<1> HIDE DEF n
<1>2. <<n>> \o table \in Seq(Row)
    BY <1>1
<1> QED BY <1>1, <1>2, Changed DEF Insert, n

LEMMA DeleteSafe ==
    ASSUME CacheInv, NEW w \in Writers, Delete(w)
    PROVE  CacheInv'
<1>1. changes + 1 \in 0 .. MaxWrites /\ table \in Seq(Row)
    BY CacheAssumption DEF CacheInv, CacheTypes, Delete
<1>2. PICK i \in DOMAIN table : table' = RemoveAt(table, i)
    BY DEF Delete
<1>3. table' \in Seq(Row)
    <2> DEFINE a == SubSeq(table, 1, i - 1)
               b == SubSeq(table, i + 1, Len(table))
    <2>1. Len(table) \in Nat /\ i \in 1 .. Len(table)
        BY <1>1
    <2>2. a \in Seq(Row) /\ b \in Seq(Row)
        BY <1>1, <2>1
    <2> HIDE DEF a, b
    <2>3. a \o b \in Seq(Row)
        BY <2>2
    <2> QED BY <1>2, <2>3 DEF RemoveAt, a, b
<1> QED BY <1>1, <1>3, Changed DEF Delete

\* Nobody is quiet beside a change.
LEMMA LoudBeside ==
    ASSUME CacheInv, Writing
    PROVE  \A r \in Readers : read[r].quiet = FALSE
BY DEF CacheInv, CacheTypes, QuietReads, Still, Request

LEMMA ScanSafe ==
    ASSUME CacheInv, NEW w \in Writers, Scan(w)
    PROVE  CacheInv'
<1>1. CacheTypes /\ write[w].pc = "written" /\ UNCHANGED <<table, cache, newer, read, changes, failures>>
      /\ write' = [write EXCEPT ![w] = [pc |-> "sweep", todo |-> DOMAIN cache]]
    BY DEF CacheInv, Scan
<1>2. /\ write' \in [Writers -> WriteSet] /\ write'[w].pc = "sweep" /\ write'[w].todo = DOMAIN cache
    BY <1>1 DEF CacheTypes, WriteSet
<1>3. Writing /\ Writing' /\ \A k \in DOMAIN cache : Condemned(k)'
    BY <1>1, <1>2 DEF Writing, Condemned, NoWrite
<1>4. CacheTypes'
    BY <1>1, <1>2 DEF CacheTypes, WriteSet, Asking
<1>5. QuietReads'
    BY <1>1, <1>3, LoudBeside, NobodyQuiet
<1>6. failures = 0 => PagesTrue' /\ ReadsTrue' /\ UntornApart' /\ TranchesWhole'
    BY <1>1, <1>3 DEF CacheInv, PagesTrue, ReadsTrue, UntornApart, TranchesWhole, Fetched
<1> QED BY <1>1, <1>4, <1>5, <1>6 DEF CacheInv

LEMMA UnlinkSafe ==
    ASSUME CacheInv, NEW w \in Writers, Unlink(w)
    PROVE  CacheInv'
<1>1. CacheTypes /\ write[w].pc = "sweep" /\ UNCHANGED <<table, changes, failures>>
    BY DEF CacheInv, Unlink
<1>2. PICK k \in DOMAIN cache : Forget({k}) /\ write' = [write EXCEPT ![w].todo = @ \ {k}]
    BY DEF Unlink
<1>3. /\ DOMAIN cache' = DOMAIN cache \ {k} /\ DOMAIN newer' = DOMAIN newer \ {k}
      /\ cache' = [j \in DOMAIN cache' |-> cache'[j]]
      /\ \A j \in DOMAIN cache' : cache'[j] = cache[j]
      /\ \A j \in DOMAIN newer' : newer'[j] = {p \in newer[j] : <<j[1], p>> # k}
    BY <1>1, <1>2, Dropped
<1> DEFINE x(s) == [read[s] EXCEPT !.quiet = FALSE, !.torn = @ \/ read[s].pc \in {"fresh", "fill"}]
<1>4. ASSUME NEW s \in Readers
      PROVE  /\ x(s) \in Request /\ x(s).quiet = FALSE /\ x(s).pc = read[s].pc /\ x(s).start = read[s].start
             /\ x(s).limit = read[s].limit /\ x(s).page = read[s].page /\ x(s).items = read[s].items
             /\ x(s).old = read[s].old
             /\ Fetched(read[s]) => x(s).torn
    <2>1. read[s] \in Request
        BY <1>1 DEF CacheTypes
    <2> QED BY <2>1 DEF Request, Fetched
<1>5. read' = [s \in Readers |-> x(s)]
    BY DEF Unlink
<1> HIDE DEF x
<1>6. /\ read' \in [Readers -> Request]
      /\ \A s \in Readers : /\ read'[s].quiet = FALSE /\ Asking(read'[s])
                            /\ read'[s].pc = read[s].pc /\ read'[s].start = read[s].start
                            /\ read'[s].items = read[s].items /\ read'[s].old = read[s].old
                            /\ Fetched(read'[s]) => read'[s].torn
    BY <1>1, <1>4, <1>5 DEF CacheTypes, Asking, Fetched
<1>7. /\ write' \in [Writers -> WriteSet] /\ write'[w].pc = "sweep" /\ write'[w].todo = write[w].todo \ {k}
      /\ \A v \in Writers \ {w} : write'[v] = write[v]
    BY <1>1, <1>2 DEF CacheTypes, WriteSet
<1>8. CacheTypes'
    <2>1. /\ DOMAIN cache' \subseteq Tranches \X Nat
          /\ \A j \in DOMAIN cache' : cache'[j] \in Page
          /\ DOMAIN newer' = DOMAIN cache'
        BY <1>1, <1>3 DEF CacheTypes
    <2> QED BY <1>1, <1>3, <1>6, <1>7, <2>1 DEF CacheTypes, WriteSet
<1>9. QuietReads'
    BY <1>6, NobodyQuiet
<1>10. Writing /\ Writing'
    BY <1>1, <1>7 DEF Writing, NoWrite
<1>11. \A j \in DOMAIN cache' : Condemned(j) => Condemned(j)'
    <2> SUFFICES ASSUME NEW j \in DOMAIN cache', NEW v \in Writers,
                        write[v].pc = "written" \/ (write[v].pc = "sweep" /\ j \in write[v].todo)
                 PROVE  write'[v].pc = "written" \/ (write'[v].pc = "sweep" /\ j \in write'[v].todo)
        BY DEF Condemned
    <2>1. j # k
        BY <1>3
    <2> QED BY <1>1, <1>7, <2>1
<1>12. \A j : Segment(j)' = Segment(j)
    BY <1>1 DEF Segment
<1>13. ASSUME failures = 0
       PROVE  PagesTrue' /\ ReadsTrue' /\ UntornApart' /\ TranchesWhole'
    <2>1. PagesTrue'
        BY <1>1, <1>3, <1>11, <1>12, <1>13 DEF CacheInv, PagesTrue
    <2>2. ReadsTrue'
        BY <1>1, <1>6, <1>13 DEF CacheInv, ReadsTrue, Fetched
    <2>3. UntornApart'
        BY <1>3, <1>6, <1>10, <1>11, <1>13 DEF CacheInv, UntornApart, Fetched
    <2>4. TranchesWhole'
        BY <1>10 DEF TranchesWhole
    <2> QED BY <2>1, <2>2, <2>3, <2>4
<1> QED BY <1>1, <1>8, <1>9, <1>13 DEF CacheInv

LEMMA SweptSafe ==
    ASSUME CacheInv, NEW w \in Writers, Swept(w)
    PROVE  CacheInv'
<1>1. CacheTypes /\ write[w].pc = "sweep" /\ write[w].todo \cap DOMAIN cache = {}
      /\ UNCHANGED <<table, cache, newer, read, changes, failures>>
      /\ write' = [write EXCEPT ![w] = NoWrite]
    BY DEF CacheInv, Swept
<1>2. /\ write' \in [Writers -> WriteSet] /\ write'[w] = NoWrite
      /\ \A v \in Writers \ {w} : write'[v] = write[v]
    BY <1>1 DEF CacheTypes, WriteSet, NoWrite
<1>3. Writing
    BY <1>1 DEF Writing, NoWrite
<1>4. CacheTypes'
    BY <1>1, <1>2 DEF CacheTypes, WriteSet, Asking
<1>5. QuietReads'
    BY <1>1, <1>3, LoudBeside, NobodyQuiet
<1>6. \A k \in DOMAIN cache : Condemned(k) => Condemned(k)' /\ Writing'
    <2> SUFFICES ASSUME NEW k \in DOMAIN cache, NEW v \in Writers,
                        write[v].pc = "written" \/ (write[v].pc = "sweep" /\ k \in write[v].todo)
                 PROVE  /\ write'[v].pc = "written" \/ (write'[v].pc = "sweep" /\ k \in write'[v].todo)
                        /\ write'[v] # NoWrite
        BY DEF Condemned, Writing
    <2>1. v # w
        BY <1>1
    <2> QED BY <1>2, <2>1 DEF NoWrite
<1>7. \A k : Segment(k)' = Segment(k)
    BY <1>1 DEF Segment
<1>8. ASSUME failures = 0
      PROVE  PagesTrue' /\ ReadsTrue' /\ UntornApart' /\ TranchesWhole'
    <2>1. PagesTrue'
        BY <1>1, <1>6, <1>7, <1>8 DEF CacheInv, PagesTrue
    <2>2. ReadsTrue'
        BY <1>1, <1>8 DEF CacheInv, ReadsTrue, Fetched
    <2>3. \A r \in Readers : Fetched(read[r]) => read[r].torn = TRUE
        BY <1>1, <1>3, <1>8 DEF CacheInv, UntornApart, CacheTypes, Request
    <2>4. \A k \in DOMAIN cache : ~cache[k].torn => Condemned(k)
        BY <1>3, <1>8 DEF CacheInv, UntornApart
    <2>5. UntornApart'
        BY <1>1, <1>6, <2>3, <2>4 DEF UntornApart, Fetched
    <2>6. TranchesWhole'
        BY <1>1, <1>6, <2>4 DEF TranchesWhole, Cached
    <2> QED BY <2>1, <2>2, <2>5, <2>6
<1> QED BY <1>1, <1>4, <1>5, <1>8 DEF CacheInv

LEMMA SweepFailsSafe ==
    ASSUME CacheInv, NEW w \in Writers, SweepFails(w)
    PROVE  CacheInv'
<1>1. CacheTypes /\ UNCHANGED <<table, cache, newer, changes>> /\ failures' = failures + 1 /\ failures \in Nat
      /\ write' = [write EXCEPT ![w] = NoWrite] /\ read' = Noticed(read)
    BY DEF CacheInv, CacheTypes, SweepFails
<1>2. failures' \in Nat /\ failures' # 0
    BY <1>1
<1>3. write' \in [Writers -> WriteSet]
    BY <1>1 DEF CacheTypes, WriteSet, NoWrite
<1>4. read' \in [Readers -> Request] /\ \A s \in Readers : read'[s].quiet = FALSE /\ Asking(read'[s])
    BY <1>1, NoticedIs DEF CacheTypes, Asking
<1>5. CacheTypes'
    BY <1>1, <1>2, <1>3, <1>4 DEF CacheTypes, WriteSet
<1>6. QuietReads'
    BY <1>4, NobodyQuiet
<1> QED BY <1>2, <1>5, <1>6 DEF CacheInv

LEMMA CacheRestartSafe ==
    ASSUME CacheInv, CacheRestart
    PROVE  CacheInv'
<1>1. CacheTypes /\ UNCHANGED <<table, cache, newer, changes>> /\ failures' = failures + 1 /\ failures \in Nat
      /\ write' = [w \in Writers |-> NoWrite] /\ read' = [r \in Readers |-> NoRead]
    BY DEF CacheInv, CacheTypes, CacheRestart
<1>2. failures' \in Nat /\ failures' # 0
    BY <1>1
<1>3. write' \in [Writers -> WriteSet]
    BY <1>1 DEF WriteSet, NoWrite
<1>4. read' \in [Readers -> Request] /\ \A s \in Readers : read'[s].quiet = FALSE /\ Asking(read'[s])
    BY <1>1, NoReadFits DEF Asking
<1>5. CacheTypes'
    BY <1>1, <1>2, <1>3, <1>4 DEF CacheTypes, WriteSet
<1>6. QuietReads'
    BY <1>4, NobodyQuiet
<1> QED BY <1>2, <1>5, <1>6 DEF CacheInv

LEMMA CacheInitSafe ==
    ASSUME CacheInit
    PROVE  CacheInv
<1> USE CacheAssumption
<1>1. /\ read = [r \in Readers |-> NoRead] /\ write = [w \in Writers |-> NoWrite]
      /\ cache = <<>> /\ newer = <<>> /\ changes = 0 /\ failures = 0
      /\ table = [i \in 1 .. InitialRows |-> i]
    BY DEF CacheInit
<1>2. table \in Seq(Row)
    BY <1>1 DEF Row
<1>3. write \in [Writers -> WriteSet]
    BY <1>1 DEF WriteSet, NoWrite
<1>4. /\ read \in [Readers -> Request]
      /\ \A s \in Readers : read[s].quiet = FALSE /\ Asking(read[s]) /\ ~Fetched(read[s])
    BY <1>1, NoReadFits DEF Asking, Fetched
<1>5. DOMAIN cache = {} /\ DOMAIN newer = {} /\ cache = [k \in DOMAIN cache |-> cache[k]]
    BY <1>1
<1>6. changes \in 0 .. MaxWrites /\ failures \in Nat
    BY <1>1
<1>7. CacheTypes
    BY <1>2, <1>3, <1>4, <1>5, <1>6 DEF CacheTypes, WriteSet
<1>8. PagesTrue /\ ReadsTrue /\ UntornApart /\ TranchesWhole /\ QuietReads
    BY <1>4, <1>5 DEF PagesTrue, ReadsTrue, UntornApart, TranchesWhole, QuietReads, Cached
<1> QED BY <1>7, <1>8 DEF CacheInv

LEMMA CacheStep ==
    ASSUME CacheInv, [CacheNext]_cacheVars
    PROVE  CacheInv'
<1>1. ASSUME NEW r \in Readers, (\E q \in Queries : AskList(r, q)) \/ Read(r) \/ StoreFails(r)
      PROVE  CacheInv'
    BY <1>1, AskListSafe, LookSafe, GetPageSafe, FetchSafe, ReplySafe, StorePageSafe, StoreFailsSafe DEF Read
<1>2. ASSUME NEW w \in Writers, Change(w) \/ Invalidate(w) \/ SweepFails(w)
      PROVE  CacheInv'
    BY <1>2, InsertSafe, DeleteSafe, ScanSafe, UnlinkSafe, SweptSafe, SweepFailsSafe DEF Change, Invalidate
<1>3. ASSUME NEW t \in Tranches, Expire(t)
      PROVE  CacheInv'
    BY <1>3, ExpireSafe
<1>4. CASE CacheRestart
    BY <1>4, CacheRestartSafe
<1>5. CASE UNCHANGED cacheVars
    BY <1>5 DEF cacheVars, CacheInv, CacheTypes, Asking, PagesTrue, ReadsTrue, UntornApart, TranchesWhole,
        QuietReads, Fetched, Condemned, Segment, Writing, Complete, ToStore, Cached, Still, Begun
<1> QED BY <1>1, <1>2, <1>3, <1>4, <1>5 DEF CacheNext

\* The pages of a read begin before its first row and end after its last.
LEMMA PagesCover ==
    ASSUME NEW q, q.start \in Nat, q.limit \in Nat \ {0}
    PROVE  LET x == q.start % MaxElement
               from == (FirstPage(q) - 1) * SegmentSize
               count == (LastPage(q) - FirstPage(q) + 1) * SegmentSize
           IN  /\ x \in Nat /\ from \in Nat /\ count \in Nat /\ x % SegmentSize \in Nat
               /\ from + (x % SegmentSize) = x
               /\ (x % SegmentSize) + q.limit <= count
<1> USE CacheAssumption
<1> DEFINE x == q.start % MaxElement
           z == x + q.limit - 1
           a == x \div SegmentSize
           b == z \div SegmentSize
           from == (FirstPage(q) - 1) * SegmentSize
           count == (LastPage(q) - FirstPage(q) + 1) * SegmentSize
<1>1. x \in Nat
    BY Division
<1> HIDE DEF x
<1>2. z \in Nat
    BY <1>1
<1>3. a \in Nat /\ x = a * SegmentSize + (x % SegmentSize) /\ x % SegmentSize \in 0 .. SegmentSize - 1
    BY <1>1, Division
<1> HIDE DEF z
<1>4. b \in Nat /\ z = b * SegmentSize + (z % SegmentSize) /\ z % SegmentSize \in 0 .. SegmentSize - 1
    BY <1>2, Division
<1>5. FirstPage(q) = a + 1 /\ LastPage(q) = b + 1 /\ a <= b
    <2>1. FirstPage(q) = a + 1 /\ LastPage(q) = b + 1
        BY DEF FirstPage, LastPage, x, z
    <2>2. FirstPage(q) <= LastPage(q)
        BY Ordered
    <2> HIDE DEF a, b
    <2> QED BY <1>3, <1>4, <2>1, <2>2
<1> DEFINE y == x % SegmentSize
           e == z % SegmentSize
           c == a * SegmentSize
           d == b * SegmentSize
<1>6. y \in 0 .. SegmentSize - 1 /\ e \in 0 .. SegmentSize - 1 /\ c \in Nat /\ d \in Nat /\ x = c + y /\ z = d + e
    BY <1>3, <1>4
<1>7. from = c
    <2> HIDE DEF a, b
    <2>1. FirstPage(q) - 1 = a
        BY <1>3, <1>5
    <2> QED BY <2>1
<1>8. count = d - c + SegmentSize
    <2> HIDE DEF a, b
    <2>1. LastPage(q) - FirstPage(q) + 1 = b - a + 1
        BY <1>3, <1>4, <1>5
    <2>2. (b - a + 1) * SegmentSize = d - c + SegmentSize
        BY <1>3, <1>4
    <2> QED BY <2>1, <2>2
<1>9. c <= d
    <2> HIDE DEF a, b
    <2> QED BY <1>3, <1>4, <1>5, SMT
<1> HIDE DEF a, b, c, d, e, y, from, count
<1>10. from \in Nat /\ count \in Nat /\ from + y = x
    BY <1>6, <1>7, <1>8, <1>9
<1>11. y + q.limit <= count
    <2>1. x + q.limit = d + e + 1
        BY <1>1, <1>2, <1>6 DEF z
    <2> QED BY <1>1, <1>6, <1>8, <1>9, <2>1
<1> QED BY <1>1, <1>6, <1>10, <1>11 DEF x, y, from, count

LEMMA SlicesOfSlice ==
    \A s \in Seq(Row) : \A a \in Nat : \A n \in Nat : \A b \in Nat : \A c \in Nat :
        Slice(Slice(s, a, n), b, c) = Slice(s, a + b, AtMostOf(c, Less(n, b)))
BY SliceOfSlice

\* Rows of a tranche, counted from the start of the list.
LEMMA RowsOfList ==
    ASSUME CacheTypes, NEW q, q.start \in Nat, q.limit \in Nat \ {0}
    PROVE  Slice(RowsOf(table, TrancheOf(q.start)), q.start % MaxElement, q.limit)
             = Slice(table, q.start, Min({q.limit, MaxElement - (q.start % MaxElement)}))
<1> USE CacheAssumption
<1> DEFINE x == q.start % MaxElement
           t == TrancheOf(q.start)
           base == t * MaxElement
           m == AtMostOf(q.limit, Less(MaxElement, x))
<1>1. /\ x \in 0 .. MaxElement - 1 /\ t \in Nat
      /\ q.start = base + x
    BY Division DEF TrancheOf
<1>2. base \in Nat
    <2> HIDE DEF t
    <2> QED BY <1>1
<1> HIDE DEF x, t, base
<1>3. Slice(Slice(table, base, MaxElement), x, q.limit) = Slice(table, base + x, m)
    <2>1. table \in Seq(Row) /\ MaxElement \in Nat /\ q.limit \in Nat /\ x \in Nat
        BY <1>1 DEF CacheTypes
    <2> HIDE DEF m
    <2>2. Slice(Slice(table, base, MaxElement), x, q.limit)
            = Slice(table, base + x, AtMostOf(q.limit, Less(MaxElement, x)))
        <3>1. \A n \in Nat : \A b \in Nat : \A c \in Nat :
                Slice(Slice(table, base, n), b, c) = Slice(table, base + b, AtMostOf(c, Less(n, b)))
            BY <1>2, <2>1, SlicesOfSlice
        <3>2. \A c \in Nat :
                Slice(Slice(table, base, MaxElement), x, c) = Slice(table, base + x, AtMostOf(c, Less(MaxElement, x)))
            BY <1>2, <2>1, <3>1
        <3> QED BY <1>2, <2>1, <3>2
    <2> QED BY <2>2 DEF m
<1>4. Min({q.limit, MaxElement - x}) = m
    <2>1. MaxElement - x \in Int /\ x <= MaxElement
        BY <1>1
    <2>2. Min({q.limit, MaxElement - x}) = IF q.limit <= MaxElement - x THEN q.limit ELSE MaxElement - x
        BY <2>1, MinOf
    <2> QED BY <2>1, <2>2 DEF AtMostOf, Less
<1>5. Slice(RowsOf(table, t), x, q.limit) = Slice(table, q.start, Min({q.limit, MaxElement - x}))
    BY <1>1, <1>3, <1>4 DEF RowsOf, base
<1> QED BY <1>5 DEF x, t

LEMMA QuietAnswers ==
    ASSUME CacheInv
    PROVE  AnswerIsSlice
<1> SUFFICES ASSUME NEW r \in Readers, read[r].pc \in {"reply", "fresh"}, read[r].quiet
             PROVE  AnswerOf(read[r]) = Slice(table, read[r].start,
                        Min({read[r].limit, MaxElement - (read[r].start % MaxElement)}))
    BY DEF AnswerIsSlice
<1> DEFINE q == read[r]
           rows == RowsOf(table, TrancheOf(q.start))
           x == q.start % MaxElement
<1>1. CacheTypes /\ q.start \in Nat /\ q.limit \in Nat \ {0} /\ rows \in Seq(Row)
    BY TrancheFacts DEF CacheInv, CacheTypes, Asking
<1>2. Got(q, rows) /\ q.pc \in {"reply", "fresh"}
    BY DEF CacheInv, QuietReads
<1>3. Slice(rows, x, q.limit)
        = Slice(table, q.start, Min({q.limit, MaxElement - (q.start % MaxElement)}))
    <2> HIDE DEF q
    <2> QED BY <1>1, RowsOfList
<1>4. CASE q.pc = "fresh"
    BY <1>2, <1>3, <1>4 DEF AnswerOf, Got
<1>5. CASE q.pc = "reply"
    <2> DEFINE y == x % SegmentSize
               from == (FirstPage(q) - 1) * SegmentSize
               count == (LastPage(q) - FirstPage(q) + 1) * SegmentSize
    <2>1. /\ x \in Nat /\ from \in Nat /\ count \in Nat /\ y \in Nat
          /\ from + y = x
          /\ y + q.limit <= count
        <3> HIDE DEF q
        <3> QED BY <1>1, PagesCover
    <2>2. q.items = Slice(rows, from, count)
        BY <1>2, <1>5 DEF Got
    <2>3. AnswerOf(q) = Slice(q.items, y, q.limit)
        BY <1>5 DEF AnswerOf
    <2> HIDE DEF from, count, y, x, rows, q
    <2>4. Slice(Slice(rows, from, count), y, q.limit) = Slice(rows, from + y, AtMostOf(q.limit, Less(count, y)))
        <3>1. \A n \in Nat : \A b \in Nat : \A c \in Nat :
                Slice(Slice(rows, from, n), b, c) = Slice(rows, from + b, AtMostOf(c, Less(n, b)))
            BY <1>1, <2>1, SlicesOfSlice
        <3>2. \A c \in Nat :
                Slice(Slice(rows, from, count), y, c) = Slice(rows, from + y, AtMostOf(c, Less(count, y)))
            BY <1>1, <2>1, <3>1
        <3> QED BY <1>1, <2>1, <3>2
    <2>5. AtMostOf(q.limit, Less(count, y)) = q.limit
        BY <1>1, <2>1 DEF AtMostOf, Less
    <2>6. AnswerOf(q) = Slice(rows, x, q.limit)
        BY <2>1, <2>2, <2>3, <2>4, <2>5
    <2> QED BY <1>3, <2>6 DEF q, rows, x
<1> QED BY <1>2, <1>4, <1>5

-----------------------------------------------------------------------------
(* What the cache promises. *)

\* Whatever reads, fills, changes and failures overlap.
LEMMA CacheSafe == CacheSpec => []CacheInv
<1> QED BY CacheInitSafe, CacheStep, PTL DEF CacheSpec

\* Once the invalidations are done, a page differs from the list only if its fill
\* crossed a change (deleteKeysByBase after the write, cacheSegmentedResults in the
\* background): for any number of reads and changes, every size of pages and
\* tranches, every query and every bound.
THEOREM StaleSafe == CacheSpec => []StaleOnlyCrossed
<1>1. CacheInv => StaleOnlyCrossed
    BY NothingCondemned DEF CacheInv, StaleOnlyCrossed, PagesTrue
<1> QED BY <1>1, CacheSafe, PTL

\* Page 1 stands for its whole tranche (getSmartPaginatedResult looks for no other)
\* though pages expire one by one, fills overlap and invalidations come between.
THEOREM NoHoleSafe == CacheSpec => []NoHole
<1>1. CacheInv => NoHole
    <2> SUFFICES ASSUME CacheInv, failures = 0, ~Writing, NEW t \in Tranches, Cached(t, 1),
                        ~cache[<<t, 1>>].torn,
                        \A r \in Readers : read[r].pc = "fill" => TrancheOf(read[r].start) # t,
                        NEW p \in 1 .. cache[<<t, 1>>].of
                 PROVE  Cached(t, p)
        BY DEF NoHole
    <2>1. Complete(t)
        BY DEF CacheInv, TranchesWhole
    <2>2. \A r \in Readers : ~ToStore(read[r], t, p, cache[<<t, 1>>].of)
        BY DEF ToStore
    <2> QED BY <2>1, <2>2 DEF Complete
<1> QED BY <1>1, CacheSafe, PTL

\* A read that nothing disturbs gets the rows it asked for, up to the end of its
\* tranche, whether its pages come from the cache (getItemsFromCacheByRange) or
\* from the database (getAndCacheFreshSegmentedData).
THEOREM SlicesSafe == CacheSpec => []AnswerIsSlice
<1>1. CacheInv => AnswerIsSlice
    BY QuietAnswers
<1> QED BY <1>1, CacheSafe, PTL

=============================================================================
