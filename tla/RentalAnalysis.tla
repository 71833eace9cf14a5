---------------------------- MODULE RentalAnalysis ----------------------------
(***************************************************************************)
(* The analyses of the rental analyzer: creating one, saving its builder   *)
(* (property details and units, acquisition details and their items,       *)
(* repairs and their items, fixed expenses), the parameters a summary      *)
(* leaves behind, duplicating one, and the usage counted for each.  The    *)
(* code opens no transaction: a request is a chain of single statements,   *)
(* other requests run between any two of them, and a statement that fails  *)
(* is answered by hand-written clean-up, by nothing, or by the other tasks *)
(* of a Promise.all going on without the one that failed.                  *)
(*                                                                         *)
(* The rows of an analysis form a tree, one row per part; a row is the id  *)
(* statements find it by and the form last written into it.                *)
(***************************************************************************)
EXTENDS Naturals, FiniteSetsExt

CONSTANTS
    Analyses,   \* rows of analysis, there or yet to be made
    Existing,   \* those made before the first step
    Requests,   \* requests the server can be serving at once
    Kinds,      \* interior, exterior and other repairs
    Forms,      \* bodies a save can send
    MaxIds,     \* bound on the ids in use in one table
    MaxAsked,   \* bound on requests
    MaxFaults,  \* bound on failed statements and restarts
    None

FormType == [units: BOOLEAN, crowded: BOOLEAN, items: BOOLEAN, cost: BOOLEAN,
             kinds: SUBSET Kinds]

ASSUME ConstantsAssumption ==
    /\ Existing \subseteq Analyses
    /\ IsFiniteSet(Existing)
    /\ Kinds \subseteq {"i", "e", "o"}
    /\ Forms \subseteq FormType
    /\ MaxIds \in Nat /\ MaxAsked \in Nat /\ MaxFaults \in Nat
    /\ None \notin Analyses \cup Forms

VARIABLES
    made,   \* the analyses that exist
    rows,   \* the tree of rows of each analysis
    uses,   \* rows of analysis usage
    count,  \* usageCount of the module
    req,    \* what each request has read and is about to do
    asked, faults

vars == <<made, rows, uses, count, req, asked, faults>>

-----------------------------------------------------------------------------
(* The tables. *)

Parts == {"analyzer", "builder", "pd", "units", "ad", "item", "rep", "fe", "params"} \cup Kinds

Parent(p) == IF p \in Kinds THEN "rep"
             ELSE IF p = "units" THEN "pd"
             ELSE IF p = "item" THEN "ad"
             ELSE IF p \in {"builder", "params"} THEN "analyzer" ELSE "builder"

\* The parts that ON DELETE CASCADE takes along.
Below(p) == IF p = "analyzer" THEN Parts \ {"analyzer"}
            ELSE IF p = "builder" THEN Parts \ {"analyzer", "builder", "params"}
            ELSE {q \in Parts \ {"analyzer"} : Parent(q) = p}

\* For the units the id counts the batches stored: they have no unique column.
Row == [id: 0..MaxIds, of: Forms \cup {None}]
NoRow == [id |-> 0, of |-> None]
NoTree == [p \in Parts |-> NoRow]

With(tree, p, row) == [tree EXCEPT ![p] = row]
Has(tree, p) == tree[p].id # 0

\* The ids nobody holds, and the least of them.
Free(p) == (1..MaxIds) \ ({rows[a][p].id : a \in Analyses}
                           \cup {req[r].seen[p].id : r \in Requests}
                           \cup {req[r].own[p].id : r \in Requests})
Least(p) == {i \in Free(p) : \A j \in Free(p) : i <= j}

\* One row per parent (a unique join column, but for units), which must be there.
CanInsert(a, p, parent) ==
    /\ p = "units" \/ ~Has(rows[a], p)
    /\ p = "analyzer" \/ (parent # 0 /\ rows[a][Parent(p)].id = parent)

\* The row an INSERT makes.
NewRows(a, p, f) == [id: IF p = "units" THEN {rows[a][p].id + 1} \cap 1..MaxIds ELSE Least(p),
                     of: {f}]

Put(a, p, row) == rows' = [rows EXCEPT ![a][p] = row]

Insert(a, p, f) == \E row \in NewRows(a, p, f) : Put(a, p, row)

\* UPDATE by id, then the read that throws when nothing is found.
Rewrite(a, p, f) == Put(a, p, [id |-> rows[a][p].id, of |-> f])

\* Mutant: the units go with the details they belong to.
Blocked_cascade(a, p) == FALSE

\* The units' foreign key has no ON DELETE: rows that hold units stay.
Blocked(a, p) == "units" \in Below(p) /\ Has(rows[a], "units")

Remove(a, gone) == rows' = [rows EXCEPT ![a] =
                        [p \in Parts |-> IF p \in gone THEN NoRow ELSE @[p]]]

-----------------------------------------------------------------------------
(* A request. *)

\* seen is the tree as first read, own the rows read again or made since.
Idle == [kind |-> "none", pc |-> "idle", a |-> None, src |-> None, form |-> None,
         seen |-> NoTree, own |-> NoTree, todo |-> {}, failed |-> FALSE,
         alone |-> TRUE, count |-> 0]

SavePcs == {"analyzer", "find", "make", "again", "makeAgain", "unitsOut", "unitsIn",
            "pdWrite", "newPd", "newUnits", "dropPd", "dropBuilder", "dropAnalyzer",
            "ad", "adWrite", "item", "newItem", "dropAd", "rep", "newKinds", "kinds",
            "fe", "answer"}
CopyPcs == {"copyRow", "copyEntity", "copyFind", "copyBuilder", "copyParts", "copyUsage"}
Pcs == SavePcs \cup CopyPcs \cup {"idle", "newRow", "usage", "count", "params", "done"}

Init == /\ made = Existing
        /\ rows = [a \in Analyses |-> NoTree]
        /\ uses = Cardinality(Existing)
        /\ count = Cardinality(Existing)
        /\ req = [r \in Requests |-> Idle]
        /\ asked = 0
        /\ faults = 0

Writes(s, a) == req[s].kind \in {"save", "copy"} /\ req[s].a = a

\* alone remembers whether another request wrote the same analysis meanwhile.
Start(r, new) ==
    /\ req[r].pc = "idle"
    /\ asked < MaxAsked
    /\ asked' = asked + 1
    /\ req' = [s \in Requests |->
                  IF s = r
                  THEN [new EXCEPT !.alone =
                            new.a = None \/ \A t \in Requests : ~Writes(t, new.a)]
                  ELSE IF new.kind = "save" /\ Writes(s, new.a)
                  THEN [req[s] EXCEPT !.alone = FALSE]
                  ELSE req[s]]
    /\ UNCHANGED <<made, rows, uses, count, faults>>

Now(r, new) == req' = [req EXCEPT ![r] = new]
End(r) == Now(r, Idle)
Go(r, pc) == Now(r, [req[r] EXCEPT !.pc = pc])

\* The catch block that answers a failed statement.
Handler(pc) == CASE pc \in {"find", "make", "again", "makeAgain"} -> "dropAnalyzer"
                 [] pc = "newPd" -> "dropBuilder"
                 [] pc = "newUnits" -> "dropPd"
                 [] pc = "newItem" -> "dropAd"
                 [] OTHER -> "idle"

Fails(r) == IF Handler(req[r].pc) = "idle" THEN End(r) ELSE Go(r, Handler(req[r].pc))

Quiet == UNCHANGED <<made, uses, count, asked, faults>>

-----------------------------------------------------------------------------
(* Saving the builder. *)

\* The relations read with the analysis: its analyzer and that one's parameters.
ReadAnalysis(a) == [NoTree EXCEPT !["analyzer"] = rows[a]["analyzer"],
                                  !["params"] = rows[a]["params"]]

Save(r, a, f) ==
    /\ a \in made
    /\ Start(r, [Idle EXCEPT !.kind = "save", !.a = a, !.form = f,
                             !.seen = ReadAnalysis(a),
                             !.pc = IF Has(rows[a], "analyzer") THEN "find" ELSE "analyzer"])

CreateRAnalyzer(r) ==
    /\ req[r].pc = "analyzer"
    /\ LET a == req[r].a IN
       IF CanInsert(a, "analyzer", 0)
       THEN \E row \in NewRows(a, "analyzer", None) :
            /\ Put(a, "analyzer", row)
            /\ Now(r, [req[r] EXCEPT !.seen = With(@, "analyzer", row), !.pc = "find"])
       ELSE End(r) /\ UNCHANGED rows
    /\ Quiet

\* The builder joined to an analyzer, with every part under it in one read.
FoundBuilder(a, analyzer) == rows[a]["analyzer"].id = analyzer /\ Has(rows[a], "builder")

\* Read once for the save, and once more before the property details.
FindBuilder(r) ==
    LET a == req[r].a  found == FoundBuilder(a, req[r].seen["analyzer"].id) IN
    /\ \/ /\ req[r].pc = "find"
          /\ IF found THEN Now(r, [req[r] EXCEPT !.seen = rows[a], !.pc = "again"])
                      ELSE Go(r, "make")
       \/ /\ req[r].pc = "again"
          /\ IF found
             THEN Now(r, [req[r] EXCEPT !.own = rows[a],
                                    !.pc = IF Has(rows[a], "pd") THEN "unitsOut" ELSE "newPd"])
             ELSE Go(r, "makeAgain")
    /\ UNCHANGED rows /\ Quiet

CreateABuilder(r) ==
    /\ req[r].pc \in {"make", "makeAgain"}
    /\ LET a == req[r].a IN
       IF CanInsert(a, "builder", req[r].seen["analyzer"].id)
       THEN \E row \in NewRows(a, "builder", None) :
            /\ Put(a, "builder", row)
            /\ IF req[r].pc = "make"
               THEN Now(r, [req[r] EXCEPT !.seen = With(@, "builder", row), !.pc = "again"])
               ELSE Now(r, [req[r] EXCEPT !.own = With(@, "builder", row), !.pc = "newPd"])
       ELSE Fails(r) /\ UNCHANGED rows
    /\ Quiet

\* The details are read, their units deleted, and only then the form judged.
DeletePDetailsUnits(r) ==
    /\ req[r].pc = "unitsOut"
    /\ LET a == req[r].a IN
       IF rows[a]["pd"].id = req[r].own["pd"].id
       THEN /\ Remove(a, {"units"})
            /\ IF req[r].form.crowded THEN End(r)
               ELSE Go(r, IF req[r].form.units THEN "unitsIn" ELSE "pdWrite")
       ELSE End(r) /\ UNCHANGED rows
    /\ Quiet

CreatePDetailsUnits(r) ==
    /\ req[r].pc \in {"unitsIn", "newUnits"}
    /\ LET a == req[r].a IN
       IF CanInsert(a, "units", req[r].own["pd"].id)
       THEN /\ Insert(a, "units", req[r].form)
            /\ Go(r, IF req[r].pc = "unitsIn" THEN "pdWrite" ELSE "ad")
       ELSE Fails(r) /\ UNCHANGED rows
    /\ Quiet

UpdatePDetails(r) ==
    /\ req[r].pc = "pdWrite"
    /\ LET a == req[r].a IN
       IF rows[a]["pd"].id = req[r].own["pd"].id
       THEN Rewrite(a, "pd", req[r].form) /\ Go(r, "ad")
       ELSE End(r) /\ UNCHANGED rows
    /\ Quiet

CreatePDetails(r) ==
    /\ req[r].pc = "newPd"
    /\ LET a == req[r].a IN
       IF CanInsert(a, "pd", req[r].own["builder"].id)
       THEN \E row \in NewRows(a, "pd", req[r].form) :
            /\ Put(a, "pd", row)
            /\ Now(r, [req[r] EXCEPT !.own = With(@, "pd", row),
                                   !.pc = IF req[r].form.units THEN "newUnits" ELSE "ad"])
       ELSE Fails(r) /\ UNCHANGED rows
    /\ Quiet

\* The part a clean-up step deletes, by the id the request holds, and the next one.
CleanUps == [dropPd |-> "pd", dropBuilder |-> "builder", dropAnalyzer |-> "analyzer",
             dropAd |-> "ad"]
NextCleanUp == [dropPd |-> "dropBuilder", dropBuilder |-> "dropAnalyzer",
                dropAnalyzer |-> "idle", dropAd |-> "idle"]

HeldId(r, p) == IF p \in {"pd", "builder"} THEN req[r].own[p].id ELSE req[r].seen[p].id

CleanUp(r) ==
    /\ req[r].pc \in DOMAIN CleanUps
    /\ LET a == req[r].a  p == CleanUps[req[r].pc]  pc == NextCleanUp[req[r].pc]
           there == rows[a][p].id = HeldId(r, p)
       IN \/ /\ there /\ Blocked(a, p)
             /\ End(r) /\ UNCHANGED rows
          \/ /\ ~(there /\ Blocked(a, p))
             /\ IF there THEN Remove(a, {p} \cup Below(p)) ELSE UNCHANGED rows
             /\ IF pc = "idle" THEN End(r) ELSE Go(r, pc)
    /\ Quiet

-----------------------------------------------------------------------------
(* The other sections, written under the builder as first read. *)

\* A cost or the items it is the sum of, never both and never neither.
Valid(f) == f.items # f.cost

CreateADetails(r) ==
    /\ req[r].pc = "ad" /\ ~Has(req[r].seen, "ad")
    /\ LET a == req[r].a IN
       IF Valid(req[r].form) /\ CanInsert(a, "ad", req[r].seen["builder"].id)
       THEN \E row \in NewRows(a, "ad", req[r].form) :
            /\ Put(a, "ad", row)
            /\ Now(r, [req[r] EXCEPT !.seen = With(@, "ad", row),
                                   !.pc = IF req[r].form.items THEN "newItem" ELSE "rep"])
       ELSE End(r) /\ UNCHANGED rows
    /\ Quiet

ItemLeftOut(r) == Has(req[r].seen, "item") /\ ~req[r].form.items

DeleteAdItemized(r) ==
    /\ req[r].pc = "ad" /\ Has(req[r].seen, "ad") /\ ItemLeftOut(r)
    /\ IF rows[req[r].a]["item"].id = req[r].seen["item"].id
       THEN Remove(req[r].a, {"item"}) ELSE UNCHANGED rows
    /\ Go(r, "adWrite")
    /\ Quiet

UpdateADetails(r) ==
    /\ \/ req[r].pc = "adWrite"
       \/ req[r].pc = "ad" /\ Has(req[r].seen, "ad") /\ ~ItemLeftOut(r)
    /\ LET a == req[r].a IN
       IF rows[a]["ad"].id = req[r].seen["ad"].id
       THEN /\ Rewrite(a, "ad", req[r].form)
            /\ Go(r, IF ~req[r].form.items THEN "rep"
                     ELSE IF Has(req[r].seen, "item") THEN "item" ELSE "newItem")
       ELSE End(r) /\ UNCHANGED rows
    /\ Quiet

UpdateAdItemized(r) ==
    /\ req[r].pc = "item"
    /\ LET a == req[r].a IN
       IF /\ rows[a]["item"].id = req[r].seen["item"].id
          /\ rows[a]["ad"].id = req[r].seen["ad"].id
       THEN Rewrite(a, "item", req[r].form) /\ Go(r, "rep")
       ELSE End(r) /\ UNCHANGED rows
    /\ Quiet

CreateAdItemized(r) ==
    /\ req[r].pc = "newItem"
    /\ LET a == req[r].a IN
       IF CanInsert(a, "item", req[r].seen["ad"].id)
       THEN Insert(a, "item", req[r].form) /\ Go(r, "rep")
       ELSE Fails(r) /\ UNCHANGED rows
    /\ Quiet

CreateRepairs(r) ==
    /\ req[r].pc = "rep" /\ ~Has(req[r].seen, "rep")
    /\ LET a == req[r].a IN
       IF CanInsert(a, "rep", req[r].seen["builder"].id)
       THEN \E row \in NewRows(a, "rep", req[r].form) :
            /\ Put(a, "rep", row)
            /\ Now(r, [req[r] EXCEPT !.seen = With(@, "rep", row), !.pc = "newKinds",
                                   !.todo = req[r].form.kinds])
       ELSE End(r) /\ UNCHANGED rows
    /\ Quiet

\* The items deleted are those the form does carry.
Reconciled(seen, f) == {k \in f.kinds : Has(seen, k)}

ReconcileRepairs(r) ==
    /\ req[r].pc = "rep" /\ Has(req[r].seen, "rep")
    /\ LET a == req[r].a IN
       Remove(a, {k \in Reconciled(req[r].seen, req[r].form) :
                      rows[a][k].id = req[r].seen[k].id})
    /\ Now(r, [req[r] EXCEPT !.pc = "kinds", !.todo = req[r].form.kinds])
    /\ Quiet

\* Mutant: the failure of a task is not passed on.
TaskFailed_settled(r, p) == Now(r, [req[r] EXCEPT !.todo = @ \ ({p} \cup Below(p))])

\* One task of a Promise.all fails: the request is answered, the others go on.
TaskFailed(r, p) == Now(r, [req[r] EXCEPT !.todo = @ \ ({p} \cup Below(p)),
                                          !.failed = TRUE])

WriteRepairItem(r, k) ==
    /\ req[r].pc \in {"newKinds", "kinds"} /\ k \in req[r].todo
    /\ LET a == req[r].a  update == Has(req[r].seen, k) IN
       IF IF update THEN rows[a][k].id = req[r].seen[k].id
                    ELSE CanInsert(a, k, req[r].seen["rep"].id)
       THEN /\ IF update THEN Rewrite(a, k, req[r].form)
                         ELSE Insert(a, k, req[r].form)
            /\ Now(r, [req[r] EXCEPT !.todo = @ \ {k}])
       ELSE TaskFailed(r, k) /\ UNCHANGED rows
    /\ Quiet

\* Only an update stores the total afterwards.
FinishRepairs(r) ==
    /\ req[r].pc \in {"newKinds", "kinds"} /\ req[r].todo = {}
    /\ LET a == req[r].a  update == req[r].pc = "kinds" IN
       IF req[r].failed \/ (update /\ rows[a]["rep"].id # req[r].seen["rep"].id)
       THEN End(r) /\ UNCHANGED rows
       ELSE /\ IF update THEN Rewrite(a, "rep", req[r].form) ELSE UNCHANGED rows
            /\ Go(r, "fe")
    /\ Quiet

UpsertFExpenses(r) ==
    /\ req[r].pc = "fe"
    /\ LET a == req[r].a  f == req[r].form  update == Has(req[r].seen, "fe") IN
       IF IF update THEN rows[a]["fe"].id = req[r].seen["fe"].id
                    ELSE CanInsert(a, "fe", req[r].seen["builder"].id)
       THEN /\ IF update THEN Rewrite(a, "fe", f) ELSE Insert(a, "fe", f)
            /\ Go(r, "answer")
       ELSE End(r) /\ UNCHANGED rows
    /\ Quiet

\* The answer is the builder as stored now; own keeps what it showed.
Answer(r) ==
    /\ req[r].pc = "answer"
    /\ IF rows[req[r].a]["builder"].id = req[r].seen["builder"].id
       THEN Now(r, [req[r] EXCEPT !.own = rows[req[r].a], !.pc = "done"])
       ELSE End(r)
    /\ UNCHANGED rows /\ Quiet

Finish(r) == req[r].pc = "done" /\ End(r) /\ UNCHANGED rows /\ Quiet

-----------------------------------------------------------------------------
(* A summary stores the parameters it was asked with. *)

Summary(r, a) ==
    /\ a \in made /\ Has(rows[a], "analyzer")
    /\ Start(r, [Idle EXCEPT !.kind = "summary", !.a = a, !.seen = ReadAnalysis(a),
                             !.pc = "params"])

UpsertRParam(r) ==
    /\ req[r].pc = "params"
    /\ LET a == req[r].a  seen == req[r].seen IN
       IF /\ FoundBuilder(a, seen["analyzer"].id)
          /\ ~Has(seen, "params")
          /\ CanInsert(a, "params", seen["analyzer"].id)
       THEN Insert(a, "params", None) ELSE UNCHANGED rows
    /\ End(r)
    /\ Quiet

-----------------------------------------------------------------------------
(* Creating, using and duplicating an analysis. *)

CreateAnalysis(r) == Start(r, [Idle EXCEPT !.kind = "create", !.count = count,
                                           !.pc = "newRow"])

SaveUsage(r, a) == a \in made /\ Start(r, [Idle EXCEPT !.kind = "use", !.a = a,
                                                       !.count = count, !.pc = "usage"])

InsertAnalysis(r) ==
    /\ req[r].pc \in {"newRow", "copyRow"}
    /\ \E a \in Analyses \ made :
           /\ made' = made \cup {a}
           /\ Now(r, [req[r] EXCEPT !.a = a,
                                 !.pc = IF req[r].pc = "newRow" THEN "usage" ELSE "copyEntity"])
    /\ UNCHANGED <<rows, uses, count, asked, faults>>

\* Mutant: the usage row is not waited for and may be lost.
CreateAUsage_detached(r) ==
    /\ req[r].pc \in {"usage", "copyUsage"}
    /\ uses' \in {uses, uses + 1}
    /\ Go(r, IF req[r].pc = "usage" THEN "count" ELSE "done")
    /\ UNCHANGED <<made, rows, count, asked, faults>>

CreateAUsage(r) ==
    /\ req[r].pc \in {"usage", "copyUsage"}
    /\ uses' = uses + 1
    /\ Go(r, IF req[r].pc = "usage" THEN "count" ELSE "done")
    /\ UNCHANGED <<made, rows, count, asked, faults>>

\* The count read when the request began, plus one.
UpdateUsageCount(r) ==
    /\ req[r].pc = "count"
    /\ count' = req[r].count + 1
    /\ End(r)
    /\ UNCHANGED <<made, rows, uses, asked, faults>>

DuplicateAnalysis(r, src) ==
    /\ src \in made
    /\ Start(r, [Idle EXCEPT !.kind = "copy", !.src = src, !.pc = "copyRow",
                             !.seen = With(@, "analyzer", rows[src]["analyzer"])])

CreateModuleEntity(r) ==
    /\ req[r].pc = "copyEntity"
    /\ LET a == req[r].a IN
       IF CanInsert(a, "analyzer", 0)
       THEN \E row \in NewRows(a, "analyzer", None) :
            /\ Put(a, "analyzer", row)
            /\ Now(r, [req[r] EXCEPT !.own = With(@, "analyzer", row), !.pc = "copyFind"])
       ELSE End(r) /\ UNCHANGED rows
    /\ Quiet

GetExistingBuilder(r) ==
    /\ req[r].pc = "copyFind"
    /\ LET src == req[r].src  seen == req[r].seen IN
       IF Has(seen, "analyzer") /\ FoundBuilder(src, seen["analyzer"].id)
       THEN Now(r, [req[r] EXCEPT !.seen = rows[src], !.pc = "copyBuilder"])
       ELSE End(r)
    /\ UNCHANGED rows /\ Quiet

\* The parts a copy takes over: the parameters of its summaries are not among them.
CopyParts == Parts \ {"analyzer", "builder", "params"}

\* Mutant: the itemized costs are forgotten.
ToClone_noItem(tree) == {p \in CopyParts \ {"item"} : Has(tree, p)}

ToClone(tree) == {p \in CopyParts : Has(tree, p)}

CopyBuilder(r) ==
    /\ req[r].pc = "copyBuilder"
    /\ LET a == req[r].a IN
       IF CanInsert(a, "builder", req[r].own["analyzer"].id)
       THEN \E row \in NewRows(a, "builder", None) :
            /\ Put(a, "builder", row)
            /\ Now(r, [req[r] EXCEPT !.own = With(@, "builder", row), !.pc = "copyParts",
                                   !.todo = ToClone(req[r].seen)])
       ELSE End(r) /\ UNCHANGED rows
    /\ Quiet

\* Sections side by side, each before what hangs from it.
ClonePart(r, p) ==
    /\ req[r].pc = "copyParts" /\ p \in req[r].todo /\ Parent(p) \notin req[r].todo
    /\ LET a == req[r].a IN
       IF CanInsert(a, p, req[r].own[Parent(p)].id)
       THEN \E row \in NewRows(a, p, req[r].seen[p].of) :
            /\ Put(a, p, row)
            /\ Now(r, [req[r] EXCEPT !.own = With(@, p, row), !.todo = @ \ {p}])
       ELSE TaskFailed(r, p) /\ UNCHANGED rows
    /\ Quiet

Cloned(r) ==
    /\ req[r].pc = "copyParts" /\ req[r].todo = {}
    /\ IF req[r].failed THEN End(r) ELSE Go(r, "copyUsage")
    /\ UNCHANGED rows /\ Quiet

-----------------------------------------------------------------------------
(* Faults. *)

\* The statement a request waits for fails: the connection is lost.
Stumble(r) ==
    /\ faults < MaxFaults
    /\ faults' = faults + 1
    /\ req[r].pc \notin {"idle", "done"}
    /\ IF req[r].todo # {}
       THEN \E p \in req[r].todo : Parent(p) \notin req[r].todo /\ TaskFailed(r, p)
       ELSE Fails(r)
    /\ UNCHANGED <<made, rows, uses, count, asked>>

Restart ==
    /\ faults < MaxFaults
    /\ faults' = faults + 1
    /\ \E r \in Requests : req[r].pc \notin {"idle", "done"}
    /\ req' = [r \in Requests |-> Idle]
    /\ UNCHANGED <<made, rows, uses, count, asked>>

SaveStep(r) ==
    \/ \E a \in Analyses, f \in Forms : Save(r, a, f)
    \/ CreateRAnalyzer(r) \/ FindBuilder(r) \/ CreateABuilder(r)
    \/ DeletePDetailsUnits(r) \/ CreatePDetailsUnits(r) \/ UpdatePDetails(r)
    \/ CreatePDetails(r) \/ CleanUp(r)
    \/ CreateADetails(r) \/ DeleteAdItemized(r) \/ UpdateADetails(r)
    \/ UpdateAdItemized(r) \/ CreateAdItemized(r)
    \/ CreateRepairs(r) \/ ReconcileRepairs(r) \/ FinishRepairs(r)
    \/ \E k \in Kinds : WriteRepairItem(r, k)
    \/ UpsertFExpenses(r) \/ Answer(r) \/ Finish(r)

OtherStep(r) ==
    \/ \E a \in Analyses : Summary(r, a) \/ SaveUsage(r, a) \/ DuplicateAnalysis(r, a)
    \/ UpsertRParam(r)
    \/ CreateAnalysis(r) \/ InsertAnalysis(r) \/ CreateAUsage(r) \/ UpdateUsageCount(r)
    \/ CreateModuleEntity(r) \/ GetExistingBuilder(r) \/ CopyBuilder(r) \/ Cloned(r)
    \/ \E p \in CopyParts : ClonePart(r, p)

Next == (\E r \in Requests : SaveStep(r) \/ OtherStep(r) \/ Stumble(r)) \/ Restart

Spec == Init /\ [][Next]_vars

-----------------------------------------------------------------------------
(* Properties. *)

Tree == [Parts -> Row]
RequestType == [kind: {"none", "save", "summary", "create", "use", "copy"}, pc: Pcs,
                a: Analyses \cup {None}, src: Analyses \cup {None}, form: Forms \cup {None},
                seen: Tree, own: Tree, todo: SUBSET Parts, failed: BOOLEAN,
                alone: BOOLEAN, count: Nat]

\* Every variable keeps its type, and no row hangs from one that is gone.
TypeOK == /\ made \subseteq Analyses
          /\ rows \in [Analyses -> Tree]
          /\ \A a \in Analyses, p \in Parts \ {"analyzer"} :
                 Has(rows[a], p) => Has(rows[a], Parent(p)) /\ a \in made
          /\ uses \in Nat /\ count \in Nat
          /\ req \in [Requests -> RequestType]
          /\ asked \in 0..MaxAsked /\ faults \in 0..MaxFaults

\* The parts a form asks for.
Wanted(f) == {"analyzer", "builder", "pd", "ad", "rep", "fe"} \cup f.kinds
             \cup (IF f.units THEN {"units"} ELSE {})
             \cup (IF f.items THEN {"item"} ELSE {})

\* A save that is answered with the builder, and had the analysis to itself,
\* shows every section and item of its form, whatever it found there and
\* whatever failed on the way (resolveRaBuilder).
AnswerWhole ==
    \A r \in Requests :
        req[r].pc = "done" /\ req[r].kind = "save" /\ req[r].alone
            => \A p \in Wanted(req[r].form) : Has(req[r].own, p)

\* A duplicate that is answered, and that nobody has saved yet, holds exactly
\* the sections and items its original held at one moment (duplicateAnalysis).
CopyMatches ==
    \A r \in Requests :
        req[r].pc = "done" /\ req[r].kind = "copy" /\ req[r].alone
            => \A p \in CopyParts :
                   /\ Has(rows[req[r].a], p) = Has(req[r].seen, p)
                   /\ rows[req[r].a][p].of = req[r].seen[p].of

\* The count shown for the module never exceeds the usages recorded: requests
\* that read the same count lose an update, and none counts what it did not record.
CountBacked == count <= uses

\* Once units are stored the rows they hang from stay: no clean-up of a failed
\* save, its own or another's, takes away an analysis that holds units.
SavedStays ==
    [][\A a \in Analyses :
           Has(rows[a], "units")
               => \A p \in {"analyzer", "builder", "pd"} : rows'[a][p].id = rows[a][p].id]_vars
=============================================================================
