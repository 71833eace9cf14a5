----------------------------- MODULE CostSections -----------------------------
(***************************************************************************)
(* The sections of a builder that keep a total beside the costs it was     *)
(* made of: the holding costs of fix and flip, wholesale and investment    *)
(* strategy, the carrying costs and the two refinances, and the sale.  An  *)
(* analyzer saves its sections one after the other, each by a chain of     *)
(* single statements without a transaction, judging them by the builder as *)
(* it was read when the save began.  Each section orders these statements  *)
(* in its own way: costs may be deleted before the body is judged, written *)
(* before the total or after it.                                           *)
(*                                                                         *)
(* The builder and its property details are there; making them, with the   *)
(* sections every analyzer shares, is the subject of RentalAnalysis.       *)
(***************************************************************************)
EXTENDS Naturals, Sequences, FiniteSetsExt

CONSTANTS
    Slots,          \* the costs a section can have: kinds of repairs, or labels
    Savers,         \* saves the server can be serving at once
    Bodies,         \* bodies that can be sent, a form for every section
    MaxSaves,       \* bound on saves
    MaxBreakdowns,  \* bound on failed statements and restarts
    NaN,            \* what adding undefined to a number yields
    Null

\* The sections each analyzer saves, in order.
FFlip == <<"hCoast", "sale">>
BrAnalyzer == <<"cCoast", "brRefi">>
IStrategy == <<"rDuration", "refi">>
Wholesale == <<"hDuration">>
Analyzers == {FFlip, BrAnalyzer, IStrategy, Wholesale}

\* Those whose one item is deleted and stored anew by every save.
Renewed == {"hCoast", "hDuration", "rDuration"}
Single == Renewed \cup {"sale"}
Sections == Single \cup {"cCoast", "brRefi", "refi"}

\* Those whose item has property taxes, the one field that may be left out.
Taxed == {"hCoast", "rDuration", "sale"}

\* A cost: the required fields every sum counts, the insurance of a holding
\* cost, which is required but not counted, and the property taxes.
CostType == [amount: Nat, insurance: Nat, taxes: Nat \cup {Null}]

\* ids tells whether the costs that were stored are sent with their ids.
FormType == [hasItems: BOOLEAN, total: Nat \cup {Null}, items: [Slots -> CostType \cup {Null}],
             ids: BOOLEAN]

ASSUME ConstantsAssumption ==
    /\ "i" \in Slots
    /\ IsFiniteSet(Slots)
    /\ Bodies \subseteq [Sections -> FormType]
    /\ MaxSaves \in Nat /\ MaxBreakdowns \in Nat
    /\ {Null, NaN} \cap (Nat \cup CostType) = {} /\ Null # NaN

VARIABLES
    flow,    \* the sections of the builder's analyzer
    store,   \* the row of each section and the costs that belong to it
    jobs,    \* what each save has read and is about to do
    mixed,   \* saves have overlapped, and none has run alone to its answer since
    saves, breakdowns

costVars == <<flow, store, jobs, mixed, saves, breakdowns>>

-----------------------------------------------------------------------------
(* Bodies and rows. *)

Given(s, f) == {k \in IF s \in Single THEN {"i"} ELSE Slots : f.items[k] # Null}

Counted(s, cost) == cost.amount + IF s \in Taxed THEN cost.taxes ELSE 0

\* Taxes that are left out are undefined, and undefined is not NaN: they are added.
ItemSum(s, f) ==
    IF s \in Taxed /\ \E k \in Given(s, f) : f.items[k].taxes = Null
    THEN NaN
    ELSE MapThenSumSet(LAMBDA k : Counted(s, f.items[k]), Given(s, f))

\* What a cost is stored as, in the columns its table has; 0 is their default.
Columns(s, cost) ==
    [amount |-> cost.amount,
     insurance |-> IF s = "hCoast" THEN cost.insurance ELSE 0,
     taxes |-> IF s \in Taxed /\ cost.taxes # Null THEN cost.taxes ELSE 0]

\* What an UPDATE of the cost old makes of it; a field left out keeps its value.
Revised(s, old, cost) ==
    IF s \in Taxed /\ cost.taxes = Null
    THEN [Columns(s, cost) EXCEPT !.taxes = old.value.taxes]
    ELSE Columns(s, cost)

\* total ?? 0, and the test of total as a condition.
OrZero(n) == IF n = Null THEN 0 ELSE n
Truthy(n) == n # Null /\ n # 0

NoRow == [total |-> Null, items |-> {}]
Stored(row) == row.total # Null

At(row, k) == {item \in row.items : item.slot = k}

\* A cost or its items, never both and never neither; all kinds of repairs for carrying costs.
Valid(s, f) ==
    IF f.hasItems
    THEN f.total = Null /\ IF s = "cCoast" THEN Given(s, f) = Slots ELSE Given(s, f) # {}
    ELSE f.total # Null

-----------------------------------------------------------------------------
(* What each handler writes, and in which order. *)

\* Mutant: the item that was stored is not deleted before the update.
HCoastSteps_keeps(new) == <<"check", "row", "items">>

\* The statements of a save, for a section that is new and for one that was seen.
HCoastSteps(new) == IF new THEN <<"check", "row", "items">>
                           ELSE <<"clear", "check", "row", "items">>
HDurationSteps(new) == HCoastSteps(new)
RDurationSteps(new) == HCoastSteps(new)

\* Mutant: an update deletes no repairs.
CCoastSteps_keeps(new) == IF new THEN <<"check", "row", "items">> ELSE <<"items", "row">>

CCoastSteps(new) == IF new THEN <<"check", "row", "items">> ELSE <<"clear", "items", "row">>
BrRefiSteps(new) == IF new THEN <<"check", "row", "items">> ELSE <<"check", "items", "row">>
RefiSteps(new) == <<"check", "row", "labels", "create", "items">>
SaleSteps(new) == IF new THEN <<"row", "items">> ELSE <<"items", "row">>

Steps(s, new) == CASE s = "hCoast" -> HCoastSteps(new)
                   [] s = "hDuration" -> HDurationSteps(new)
                   [] s = "rDuration" -> RDurationSteps(new)
                   [] s = "cCoast" -> CCoastSteps(new)
                   [] s = "brRefi" -> BrRefiSteps(new)
                   [] s = "refi" -> RefiSteps(new)
                   [] s = "sale" -> SaleSteps(new)

\* The total of a body: its items' when it has any, else the one given.
ItemsOrTotal(s, f) == IF Given(s, f) # {} THEN ItemSum(s, f) ELSE OrZero(f.total)

ResolveHoldingCoast(f) == IF f.total # Null THEN f.total ELSE ItemSum("cCoast", f)

\* An update that is sent no total keeps the one there was.
CCoastTotal(f, seen) ==
    IF Stored(seen) /\ ~Truthy(f.total) THEN seen.total ELSE ResolveHoldingCoast(f)

BrRefiTotal(f) == IF f.hasItems THEN ItemSum("brRefi", f) ELSE OrZero(f.total)

\* Null when a new sale has neither a total nor an item: the sum throws.
CreateSaleTotal(f) == IF Truthy(f.total) THEN f.total
                      ELSE IF Given("sale", f) # {} THEN ItemSum("sale", f) ELSE Null

SaleTotal(f, seen) ==
    IF ~Stored(seen) THEN CreateSaleTotal(f)
    ELSE IF At(seen, "i") # {} /\ Given("sale", f) # {} THEN ItemSum("sale", f) ELSE seen.total

Total(s, f, seen) == CASE s = "cCoast" -> CCoastTotal(f, seen)
                       [] s = "brRefi" -> BrRefiTotal(f)
                       [] s = "sale" -> SaleTotal(f, seen)
                       [] OTHER -> ItemsOrTotal(s, f)

\* The costs sent with the id of a row that was stored.
ById(f, seen) == IF f.ids THEN {k \in Given("refi", f) : At(seen, k) # {}} ELSE {}

\* Started together by Promise.all: one that fails leaves the others running.
Together(s) == s \in {"cCoast", "brRefi"}

\* The costs a step has a statement for.
Tasks(s, f, seen, step) ==
    CASE step = "clear" -> {item.slot : item \in seen.items}
                              \ (IF s = "cCoast" THEN Given(s, f) ELSE {})
      [] step = "items" -> IF s = "refi" THEN ById(f, seen)
                           ELSE IF s = "sale" /\ Stored(seen)
                           THEN {k \in Given(s, f) : At(seen, k) # {}}
                           ELSE Given(s, f)
      [] OTHER -> {}

-----------------------------------------------------------------------------
(* A save. *)

\* todo holds the costs the statements under way are about.
NoSave == [at |-> 0, pc |-> 0, forms |-> <<>>, seen |-> [s \in Sections |-> NoRow],
         todo |-> {}, labels |-> {}, failed |-> FALSE, alone |-> TRUE]

CostInit == /\ flow \in Analyzers
        /\ store = [s \in Sections |-> NoRow]
        /\ jobs = [r \in Savers |-> NoSave]
        /\ mixed = FALSE
        /\ saves = 0
        /\ breakdowns = 0

Busy(r) == jobs[r].at # 0
AtWork(r) == jobs[r].at \in 1..Len(flow)
Sec(r) == flow[jobs[r].at]
Form(r) == jobs[r].forms[Sec(r)]
Seen(r) == jobs[r].seen[Sec(r)]
StepsOf(r) == Steps(Sec(r), ~Stored(Seen(r)))
Step(r) == StepsOf(r)[jobs[r].pc]

\* q at step pc of section i, with the costs that step is about.
Entering(q, i, pc) ==
    [q EXCEPT !.at = i, !.pc = pc,
              !.todo = IF i > Len(flow) THEN {}
                       ELSE LET s == flow[i] IN
                            Tasks(s, q.forms[s], q.seen[s],
                                  Steps(s, ~Stored(q.seen[s]))[pc])]

Now(r, q) == jobs' = [jobs EXCEPT ![r] = q]
End(r) == Now(r, NoSave)
Onward(r) == Now(r, IF jobs[r].pc < Len(StepsOf(r))
                    THEN Entering(jobs[r], jobs[r].at, jobs[r].pc + 1)
                    ELSE Entering(jobs[r], jobs[r].at + 1, 1))

Quiet == UNCHANGED <<flow, mixed, saves, breakdowns>>

\* The builder is read once; alone remembers whether another save ran meanwhile.
Save(r) ==
    /\ ~Busy(r)
    /\ saves < MaxSaves
    /\ \E forms \in Bodies :
         jobs' = [q \in Savers |->
                    IF q = r
                    THEN Entering([NoSave EXCEPT !.forms = forms, !.seen = store,
                                     !.alone = \A p \in Savers : ~Busy(p)], 1, 1)
                    ELSE IF Busy(q) THEN [jobs[q] EXCEPT !.alone = FALSE] ELSE jobs[q]]
    /\ mixed' = (mixed \/ \E q \in Savers : Busy(q))
    /\ saves' = saves + 1
    /\ UNCHANGED <<flow, store, breakdowns>>

\* The body is judged, with whatever was deleted before.
Check(r) ==
    /\ AtWork(r) /\ Step(r) = "check"
    /\ IF Valid(Sec(r), Form(r)) THEN Onward(r) ELSE End(r)
    /\ UNCHANGED store /\ Quiet

\* One row per builder (a unique join column); a row that is there stays.
WriteRow(r) ==
    /\ AtWork(r) /\ Step(r) = "row"
    /\ LET total == Total(Sec(r), Form(r), Seen(r)) IN
       IF total = Null \/ (~Stored(Seen(r)) /\ Stored(store[Sec(r)]))
       THEN End(r) /\ UNCHANGED store
       ELSE store' = [store EXCEPT ![Sec(r)].total = total] /\ Onward(r)
    /\ Quiet

Done(r, k) ==
    LET rest == jobs[r].todo \ {k} IN
    IF rest # {} THEN Now(r, [jobs[r] EXCEPT !.todo = rest])
    ELSE IF jobs[r].failed THEN End(r) ELSE Onward(r)

TaskFails(r, k) ==
    LET rest == jobs[r].todo \ {k} IN
    IF Together(Sec(r)) /\ rest # {}
    THEN Now(r, [jobs[r] EXCEPT !.todo = rest, !.failed = TRUE])
    ELSE End(r)

NothingToDo(r) ==
    /\ AtWork(r) /\ Step(r) \in {"clear", "items"} /\ jobs[r].todo = {}
    /\ Onward(r)
    /\ UNCHANGED store /\ Quiet

\* An id no row of this cost has or was seen to have.
Fresh(s, k) ==
    LET used == {item.id : item \in At(store[s], k)}
                  \cup UNION {{item.id : item \in At(jobs[r].seen[s], k)} : r \in Savers}
    IN Min((1..Cardinality(used) + 1) \ used)

NewItem(s, k, cost) == [slot |-> k, id |-> Fresh(s, k), value |-> Columns(s, cost)]

\* Deleted through its section where a save renews it, by the id seen otherwise.
DeleteItem(r, k) ==
    /\ AtWork(r) /\ Step(r) = "clear" /\ k \in jobs[r].todo
    /\ store' = [store EXCEPT ![Sec(r)].items =
                    {item \in @ : item.slot # k \/
                        (Sec(r) \notin Renewed
                            /\ item.id \notin {i.id : i \in At(Seen(r), k)})}]
    /\ Done(r, k)
    /\ Quiet

\* One item per section and kind (unique join columns).
InsertItem(r, k) ==
    /\ AtWork(r) /\ Step(r) = "items" /\ k \in jobs[r].todo
    /\ Sec(r) \in Renewed \/ At(Seen(r), k) = {}
    /\ IF At(store[Sec(r)], k) = {}
       THEN /\ store' = [store EXCEPT ![Sec(r)].items =
                            @ \cup {NewItem(Sec(r), k, Form(r).items[k])}]
            /\ Done(r, k)
       ELSE TaskFails(r, k) /\ UNCHANGED store
    /\ Quiet

\* UPDATE by id, then the read that throws when nothing is found.
UpdateItem(r, k) ==
    /\ AtWork(r) /\ Step(r) = "items" /\ k \in jobs[r].todo
    /\ Sec(r) \notin Renewed
    /\ \E old \in At(Seen(r), k) :
         LET there == {item \in At(store[Sec(r)], k) : item.id = old.id} IN
         IF there # {}
         THEN /\ store' = [store EXCEPT ![Sec(r)].items =
                              (@ \ there) \cup {[old EXCEPT !.value = Revised(Sec(r), old, Form(r).items[k])]}]
              /\ Done(r, k)
         ELSE TaskFails(r, k) /\ UNCHANGED store
    /\ Quiet

\* The labels there are, read for the costs sent without an id.
ReadLabels(r) ==
    /\ AtWork(r) /\ Step(r) = "labels"
    /\ Now(r, [Entering(jobs[r], jobs[r].at, jobs[r].pc + 1)
                  EXCEPT !.labels = {item.slot : item \in store[Sec(r)].items}])
    /\ UNCHANGED store /\ Quiet

\* A label that was not read is stored anew, all of them in one save.
CreateRefiItems(r) ==
    /\ AtWork(r) /\ Step(r) = "create"
    /\ LET s == Sec(r)
           new == Given(s, Form(r)) \ (ById(Form(r), Seen(r)) \cup jobs[r].labels)
       IN store' = [store EXCEPT ![s].items =
                       @ \cup {NewItem(s, k, Form(r).items[k]) : k \in new}]
    /\ Onward(r)
    /\ Quiet

\* The builder is read again and answered.
AnswerSave(r) ==
    /\ jobs[r].at = Len(flow) + 1
    /\ End(r)
    /\ mixed' = (mixed /\ ~jobs[r].alone)
    /\ UNCHANGED <<flow, store, saves, breakdowns>>

-----------------------------------------------------------------------------
(* Faults. *)

\* A statement throws.
Stumble(r) ==
    /\ Busy(r)
    /\ breakdowns < MaxBreakdowns
    /\ breakdowns' = breakdowns + 1
    /\ IF jobs[r].todo # {} THEN \E k \in jobs[r].todo : TaskFails(r, k) ELSE End(r)
    /\ UNCHANGED <<flow, store, mixed, saves>>

Restart ==
    /\ breakdowns < MaxBreakdowns
    /\ breakdowns' = breakdowns + 1
    /\ jobs' = [r \in Savers |-> NoSave]
    /\ UNCHANGED <<flow, store, mixed, saves>>

SaveSteps(r) ==
    \/ Check(r) \/ WriteRow(r) \/ NothingToDo(r)
    \/ \E k \in jobs[r].todo : DeleteItem(r, k) \/ InsertItem(r, k) \/ UpdateItem(r, k)
    \/ ReadLabels(r) \/ CreateRefiItems(r) \/ AnswerSave(r)

CostNext ==
    \/ \E r \in Savers : Save(r) \/ SaveSteps(r) \/ Stumble(r)
    \/ Restart

CostSpec == CostInit /\ [][CostNext]_costVars

-----------------------------------------------------------------------------
(* Properties. *)

\* The sum of a cost as it is stored, insurance apart; or NaN, where its taxes
\* were left out and so stored as 0.
Sums(s, total, cost) ==
    \/ total = cost.amount + cost.taxes
    \/ s \in Taxed /\ cost.taxes = 0 /\ total = NaN

\* A total belongs to the costs that are stored beside it: it is their sum, as
\* calculateItemizedHoldingCost and its likes count them, insurance left out and
\* NaN for taxes not given.  Whatever failed half way, unless two saves overlapped
\* and none has been answered alone since (handleHCoastUpdate and its likes write
\* costs and total one by one).
TotalIsSum ==
    ~mixed => \A s \in Renewed : \A item \in store[s].items :
        Sums(s, store[s].total, item.value)

\* What a body leaves behind: every cost sent is stored, and those left out are
\* gone where the handler deletes them.
Kept(s, f, row) ==
    /\ \A k \in Given(s, f) : \E item \in At(row, k) : item.value = Columns(s, f.items[k])
    /\ s \in Renewed \cup {"cCoast"} => \A item \in row.items : item.slot \in Given(s, f)

\* A save that is about to answer and met no other has left in every section the
\* costs of its body and the total its handler makes of that body alone, whatever
\* earlier saves broke off or mixed up there (the sale and the total of stored
\* carrying costs apart, which updates leave stale).
AnswerMatches ==
    \A r \in Savers : jobs[r].at = Len(flow) + 1 /\ jobs[r].alone =>
        \A i \in 1..Len(flow) :
            LET s == flow[i]  f == jobs[r].forms[s] IN
            /\ s \in Renewed \cup {"brRefi", "refi"} => store[s].total = Total(s, f, NoRow)
            /\ s \in Renewed \cup {"cCoast", "brRefi"} => Kept(s, f, store[s])
            /\ s = "refi" => Given(s, f) \subseteq {item.slot : item \in store[s].items}

=============================================================================
