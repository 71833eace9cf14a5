------------------------- MODULE RentalAnalysisProofs -------------------------
(***************************************************************************)
(* Five facts about RentalAnalysis for any number of analyses, requests    *)
(* and forms: its type invariant, that no clean-up takes away an analysis  *)
(* that holds units, that the usage count of the module never exceeds the  *)
(* usages recorded, that a save which had its analysis to itself answers   *)
(* with every part of its form, and that a duplicate holds the parts of    *)
(* its original.                                                           *)
(***************************************************************************)
EXTENDS RentalAnalysis, FiniteSetTheorems, TLAPS

-----------------------------------------------------------------------------
(* The inductive invariant. *)

\* No row hangs from one that is gone.
Rooted == \A a \in Analyses, p \in Parts \ {"analyzer"} :
             Has(rows[a], p) => Has(rows[a], Parent(p)) /\ a \in made

RowsInv == rows \in [Analyses -> Tree] /\ Rooted

\* What a request may rely on at its next step.
RequestOK(q) ==
    /\ q.pc \notin {"idle", "newRow", "copyRow"} => q.a \in made
    /\ q.pc \in SavePcs => q.form \in Forms
    /\ q.pc \in CopyPcs => q.src \in Analyses
    /\ q.pc \in {"newRow", "usage"} => q.count <= uses
    /\ q.pc = "count" => q.count < uses

ReqInv == /\ req \in [Requests -> RequestType]
          /\ \A r \in Requests : RequestOK(req[r])

CountInv == /\ made \subseteq Analyses
            /\ uses \in Nat /\ count \in Nat /\ count <= uses
            /\ asked \in 0..MaxAsked /\ faults \in 0..MaxFaults

IInv == RowsInv /\ ReqInv /\ CountInv

Trunk == {"analyzer", "builder", "pd"}

\* What a step may do to the trunk of an analysis that holds units: nothing.
TrunkStays == \A a \in Analyses :
                 Has(rows[a], "units") => \A p \in Trunk : rows'[a][p].id = rows[a][p].id

-----------------------------------------------------------------------------
(* Parts and rows. *)

LEMMA PartsFacts ==
    /\ Trunk \cup {"units", "ad", "item", "rep", "fe", "params"} \subseteq Parts
    /\ Kinds \subseteq Parts
    /\ (Trunk \cup {"units", "ad", "item", "rep", "fe", "params"}) \cap Kinds = {}
BY ConstantsAssumption, SMT DEF Trunk, Parts

LEMMA ParentFacts ==
    /\ Parent("units") = "pd" /\ Parent("pd") = "builder" /\ Parent("builder") = "analyzer"
    /\ Parent("params") = "analyzer"
    /\ \A p \in Parts \ {"analyzer"} :
          /\ Parent(p) \in Trunk \cup {"ad", "rep"}
          /\ Parent(p) = "pd" => p = "units"
          /\ Parent(p) = "ad" => p = "item"
          /\ Parent(p) = "rep" => p \in Kinds
          /\ Parent(p) = "analyzer" => p \in {"builder", "params"}
<1>1. {"units", "pd", "builder", "params"} \cap Kinds = {}
  BY PartsFacts, SMT DEF Trunk
<1>2. Parent("units") = "pd"
  BY <1>1, SMT DEF Parent
<1>3. Parent("pd") = "builder"
  BY <1>1, SMT DEF Parent
<1>4. Parent("builder") = "analyzer"
  BY <1>1, SMT DEF Parent
<1>5. Parent("params") = "analyzer"
  BY <1>1, SMT DEF Parent
<1>7. ASSUME NEW p \in Parts \ {"analyzer"}
      PROVE  /\ Parent(p) \in Trunk \cup {"ad", "rep"}
             /\ Parent(p) = "pd" => p = "units"
             /\ Parent(p) = "ad" => p = "item"
             /\ Parent(p) = "rep" => p \in Kinds
             /\ Parent(p) = "analyzer" => p \in {"builder", "params"}
  BY SMT DEF Parent, Trunk
<1> QED
  BY <1>2, <1>3, <1>4, <1>5, <1>7

\* An analysis with units has its whole trunk.
LEMMA TrunkThere ==
    ASSUME RowsInv, NEW a \in Analyses, Has(rows[a], "units")
    PROVE  \A p \in Trunk : Has(rows[a], p)
<1>1. Has(rows[a], "pd")
  BY PartsFacts, ParentFacts, SMT DEF RowsInv, Rooted
<1>2. Has(rows[a], "builder")
  BY <1>1, PartsFacts, ParentFacts, SMT DEF RowsInv, Rooted, Trunk
<1>3. Has(rows[a], "analyzer")
  BY <1>2, PartsFacts, ParentFacts, SMT DEF RowsInv, Rooted, Trunk
<1> QED
  BY <1>1, <1>2, <1>3 DEF Trunk

LEMMA NewRowType ==
    ASSUME RowsInv, NEW a \in Analyses, NEW p \in Parts, NEW f \in Forms \cup {None},
           NEW row \in NewRows(a, p, f)
    PROVE  row \in Row /\ row.id # 0
<1>1. Least(p) \subseteq 1..MaxIds
  BY SMT DEF Least, Free
<1>2. row.id \in 1..MaxIds /\ row.of = f /\ row = [id |-> row.id, of |-> row.of]
  BY <1>1, SMT DEF NewRows
<1> QED
  BY <1>2, ConstantsAssumption, SMT DEF Row

\* An insertion: the part was absent, or is a batch of units, and its parent is there.
LEMMA PutSafe ==
    ASSUME RowsInv, NEW a \in made, made \subseteq Analyses, NEW p \in Parts,
           NEW parent, NEW row \in Row, CanInsert(a, p, parent), Put(a, p, row), made' = made
    PROVE  RowsInv' /\ TrunkStays
<1>1. /\ rows' \in [Analyses -> Tree]
      /\ \A b \in Analyses, q \in Parts :
             rows'[b][q] = IF b = a /\ q = p THEN row ELSE rows[b][q]
  BY SMT DEF RowsInv, Tree, Put
<1>2. p # "analyzer" => Has(rows[a], Parent(p)) /\ Parent(p) # p /\ Parent(p) \in Parts
  BY ParentFacts, PartsFacts, SMT DEF CanInsert, Has, Trunk
<1>3. ASSUME NEW b \in Analyses, NEW q \in Parts \ {"analyzer"}, Has(rows'[b], q)
      PROVE  Has(rows'[b], Parent(q)) /\ b \in made
  <2>1. CASE b = a /\ q = p
    BY <1>1, <1>2, <2>1, SMT DEF Has
  <2>2. CASE ~(b = a /\ q = p) /\ ~(b = a /\ Parent(q) = p)
    BY <1>1, <1>3, <2>2, ParentFacts, PartsFacts, SMT DEF Has, RowsInv, Rooted, Trunk
  <2>3. CASE b = a /\ q # p /\ Parent(q) = p
    <3>1. Has(rows[a], p) /\ p # "units"
      BY <1>1, <1>3, <2>3, ParentFacts, SMT DEF Has, RowsInv, Rooted, Trunk
    <3> QED BY <3>1 DEF CanInsert
  <2> QED BY <2>1, <2>2, <2>3
<1>4. TrunkStays
  <2> SUFFICES ASSUME NEW b \in Analyses, Has(rows[b], "units"), NEW q \in Trunk
               PROVE  rows'[b][q].id = rows[b][q].id
    BY DEF TrunkStays
  <2>1. Has(rows[b], q) /\ q \in Parts /\ q # "units"
    BY TrunkThere, PartsFacts, SMT DEF Trunk
  <2>2. ~(b = a /\ q = p)
    BY <2>1 DEF CanInsert
  <2> QED BY <1>1, <2>1, <2>2, SMT
<1> QED
  BY <1>1, <1>3, <1>4, SMT DEF RowsInv, Rooted

LEMMA RewriteSafe ==
    ASSUME RowsInv, NEW a \in Analyses, NEW p \in Parts, NEW f \in Forms \cup {None},
           Rewrite(a, p, f), made' = made
    PROVE  RowsInv' /\ TrunkStays
<1> DEFINE new == [id |-> rows[a][p].id, of |-> f]
<1>1. rows' = [rows EXCEPT ![a][p] = new] /\ new.id = rows[a][p].id /\ new \in Row
  BY SMT DEF Put, Rewrite, RowsInv, Tree, Row
<1> HIDE DEF new
<1>2. /\ rows' \in [Analyses -> Tree]
      /\ \A b \in Analyses, q \in Parts : rows'[b][q] = IF b = a /\ q = p THEN new ELSE rows[b][q]
  BY <1>1, SMT DEF RowsInv, Tree
<1>3. \A b \in Analyses, q \in Parts : rows'[b][q].id = rows[b][q].id
  BY <1>1, <1>2, SMT
<1>4. Rooted'
  BY <1>3, ParentFacts, PartsFacts, SMT DEF RowsInv, Rooted, Has, Trunk
<1> QED
  BY <1>2, <1>3, <1>4, PartsFacts, SMT DEF RowsInv, TrunkStays

\* A deletion that takes the children of what it takes, and spares the trunk of units.
LEMMA RemoveSafe ==
    ASSUME RowsInv, NEW a \in Analyses, NEW gone \in SUBSET Parts, Remove(a, gone),
           \A p \in Parts \ {"analyzer"} : Parent(p) \in gone => p \in gone,
           Has(rows[a], "units") => gone \cap Trunk = {},
           made' = made
    PROVE  RowsInv' /\ TrunkStays
<1>0. NoRow \in Row /\ NoRow.id = 0
  BY ConstantsAssumption, SMT DEF NoRow, Row
<1>1. /\ rows' \in [Analyses -> Tree]
      /\ \A b \in Analyses, q \in Parts :
             rows'[b][q] = IF b = a /\ q \in gone THEN NoRow ELSE rows[b][q]
  BY <1>0, SMT DEF RowsInv, Tree, Remove
<1>2. Rooted'
  BY <1>0, <1>1, ParentFacts, PartsFacts, SMT DEF RowsInv, Rooted, Has, Trunk
<1>3. TrunkStays
  BY <1>1, PartsFacts, SMT DEF TrunkStays
<1> QED
  BY <1>1, <1>2, <1>3 DEF RowsInv

-----------------------------------------------------------------------------
(* Requests. *)

LEMMA IdleType == Idle \in RequestType /\ NoTree \in Tree /\ Idle.pc = "idle"
<1>1. NoTree \in Tree
  BY ConstantsAssumption, SMT DEF NoTree, NoRow, Tree, Row
<1> QED
  BY <1>1, SMT DEF Idle, RequestType, Pcs

\* A step of one request that leaves the others alone.
LEMMA ReqStep ==
    ASSUME IInv, NEW r \in Requests, req' \in [Requests -> RequestType],
           \A s \in Requests \ {r} : req'[s] = req[s],
           made \subseteq made', uses' \in Nat, uses <= uses',
           RequestOK(req[r])'
    PROVE  ReqInv'
<1>1. ASSUME NEW s \in Requests, s # r
      PROVE  RequestOK(req[s])'
  BY <1>1, SMT DEF IInv, ReqInv, CountInv, RequestOK, RequestType
<1> QED
  BY <1>1 DEF ReqInv

LEMMA RowsKept ==
    ASSUME IInv, UNCHANGED rows, made \subseteq made'
    PROVE  RowsInv' /\ TrunkStays
BY SMT DEF IInv, RowsInv, Rooted, TrunkStays

LEMMA QuietSafe ==
    ASSUME IInv, Quiet
    PROVE  CountInv' /\ made' = made /\ uses' = uses /\ uses \in Nat /\ made \subseteq Analyses
BY DEF IInv, CountInv, Quiet

\* What a request may rely on is kept by a step that makes it new.
LEMMA NowSafe ==
    ASSUME IInv, NEW r \in Requests, NEW new \in RequestType, Now(r, new), RequestOK(new)',
           made \subseteq made', uses' \in Nat, uses <= uses'
    PROVE  ReqInv'
<1>1. /\ req' \in [Requests -> RequestType] /\ req'[r] = new
      /\ \A s \in Requests \ {r} : req'[s] = req[s]
  BY SMT DEF IInv, ReqInv, Now
<1> QED
  BY <1>1, ReqStep

\* The fields a later step relies on.
Same(new, q) == new.a = q.a /\ new.form = q.form /\ new.src = q.src /\ new.count = q.count

LEMMA PcOnly ==
    ASSUME NEW q \in RequestType, NEW pc \in Pcs
    PROVE  LET new == [q EXCEPT !.pc = pc]
           IN  new \in RequestType /\ Same(new, q) /\ new.pc = pc
BY DEF RequestType, Same

LEMMA TodoOnly ==
    ASSUME NEW q \in RequestType, NEW d \in SUBSET Parts
    PROVE  LET new == [q EXCEPT !.todo = d]
           IN  new \in RequestType /\ Same(new, q) /\ new.pc = q.pc
BY DEF RequestType, Same

LEMMA TodoFailed ==
    ASSUME NEW q \in RequestType, NEW d \in SUBSET Parts
    PROVE  LET new == [q EXCEPT !.todo = d, !.failed = TRUE]
           IN  new \in RequestType /\ Same(new, q) /\ new.pc = q.pc
BY DEF RequestType, Same

LEMMA PcTodo ==
    ASSUME NEW q \in RequestType, NEW pc \in Pcs, NEW d \in SUBSET Parts
    PROVE  LET new == [q EXCEPT !.pc = pc, !.todo = d]
           IN  new \in RequestType /\ Same(new, q) /\ new.pc = pc
BY DEF RequestType, Same

LEMMA SeenPc ==
    ASSUME NEW q \in RequestType, NEW t \in Tree, NEW pc \in Pcs
    PROVE  LET new == [q EXCEPT !.seen = t, !.pc = pc]
           IN  new \in RequestType /\ Same(new, q) /\ new.pc = pc
BY DEF RequestType, Same

LEMMA OwnPc ==
    ASSUME NEW q \in RequestType, NEW t \in Tree, NEW pc \in Pcs
    PROVE  LET new == [q EXCEPT !.own = t, !.pc = pc]
           IN  new \in RequestType /\ Same(new, q) /\ new.pc = pc
BY DEF RequestType, Same

LEMMA SeenPcTodo ==
    ASSUME NEW q \in RequestType, NEW t \in Tree, NEW pc \in Pcs, NEW d \in SUBSET Parts
    PROVE  LET new == [q EXCEPT !.seen = t, !.pc = pc, !.todo = d]
           IN  new \in RequestType /\ Same(new, q) /\ new.pc = pc
BY DEF RequestType, Same

LEMMA OwnPcTodo ==
    ASSUME NEW q \in RequestType, NEW t \in Tree, NEW pc \in Pcs, NEW d \in SUBSET Parts
    PROVE  LET new == [q EXCEPT !.own = t, !.pc = pc, !.todo = d]
           IN  new \in RequestType /\ Same(new, q) /\ new.pc = pc
BY DEF RequestType, Same

LEMMA OwnTodo ==
    ASSUME NEW q \in RequestType, NEW t \in Tree, NEW d \in SUBSET Parts
    PROVE  LET new == [q EXCEPT !.own = t, !.todo = d]
           IN  new \in RequestType /\ Same(new, q) /\ new.pc = q.pc
BY DEF RequestType, Same

\* The steps a request can go on to without a new duty.
Working == Pcs \ {"idle", "newRow", "copyRow", "usage", "count"}

\* A request that goes on with the same work.
LEMMA WorkSafe ==
    ASSUME IInv, NEW r \in Requests, NEW new \in RequestType, Now(r, new),
           Same(new, req[r]), new.pc \in Working, made' = made, uses' = uses,
           req[r].pc \notin {"idle", "newRow", "copyRow"},
           new.pc \in SavePcs => req[r].pc \in SavePcs,
           new.pc \in CopyPcs => req[r].pc \in CopyPcs
    PROVE  ReqInv'
<1>1. RequestOK(new)'
  BY SMT DEF IInv, ReqInv, RequestOK, Working, Same
<1> QED
  BY <1>1, NowSafe, SMT DEF IInv, CountInv

LEMMA EndSafe ==
    ASSUME IInv, NEW r \in Requests, End(r), made \subseteq made', uses' = uses
    PROVE  ReqInv'
<1>1. RequestOK(Idle)'
  BY IdleType, SMT DEF RequestOK, SavePcs, CopyPcs
<1> QED
  BY <1>1, IdleType, NowSafe, SMT DEF IInv, CountInv, End

LEMMA GoSafe ==
    ASSUME IInv, NEW r \in Requests, NEW pc \in Working, Go(r, pc), made' = made, uses' = uses,
           req[r].pc \notin {"idle", "newRow", "copyRow"},
           pc \in SavePcs => req[r].pc \in SavePcs,
           pc \in CopyPcs => req[r].pc \in CopyPcs
    PROVE  ReqInv'
<1> DEFINE new == [req[r] EXCEPT !.pc = pc]
<1>1. req[r] \in RequestType /\ pc \in Pcs
  BY DEF IInv, ReqInv, Working
<1>2. new \in RequestType /\ Same(new, req[r]) /\ new.pc = pc
  BY <1>1, PcOnly
<1>3. Now(r, new)
  BY DEF Go
<1> HIDE DEF new
<1> QED
  BY <1>2, <1>3, WorkSafe

LEMMA FailsSafe ==
    ASSUME IInv, NEW r \in Requests, Fails(r), made' = made, uses' = uses
    PROVE  ReqInv'
<1> DEFINE pc == Handler(req[r].pc)
<1>1. CASE pc = "idle"
  BY <1>1, EndSafe DEF Fails
<1>2. CASE pc # "idle"
  <2>1. /\ pc \in {"dropAnalyzer", "dropBuilder", "dropPd", "dropAd"}
        /\ req[r].pc \in {"find", "make", "again", "makeAgain", "newPd", "newUnits", "newItem"}
    BY <1>2, SMT DEF Handler
  <2>2. pc \in Working /\ pc \in SavePcs /\ pc \notin CopyPcs /\ req[r].pc \in SavePcs
    BY <2>1, SMT DEF Working, Pcs, SavePcs, CopyPcs
  <2>3. Go(r, pc)
    BY <1>2 DEF Fails
  <2>4. req[r].pc \notin {"idle", "newRow", "copyRow"}
    BY <2>1, SMT
  <2> HIDE DEF pc
  <2> QED BY <2>2, <2>3, <2>4, GoSafe
<1> QED BY <1>1, <1>2

\* A request that loses a task stands where it stood.
LEMMA StaySafe ==
    ASSUME IInv, NEW r \in Requests, NEW new \in RequestType, Now(r, new),
           Same(new, req[r]), new.pc = req[r].pc, made' = made, uses' = uses
    PROVE  ReqInv'
<1>1. RequestOK(new)'
  BY SMT DEF IInv, ReqInv, RequestOK, Same
<1> QED
  BY <1>1, NowSafe, SMT DEF IInv, CountInv

LEMMA TaskFailedSafe ==
    ASSUME IInv, NEW r \in Requests, NEW p \in Parts, TaskFailed(r, p),
           made' = made, uses' = uses
    PROVE  ReqInv'
<1> DEFINE rest == req[r].todo \ ({p} \cup Below(p))
           new == [req[r] EXCEPT !.todo = rest, !.failed = TRUE]
<1>1. req[r] \in RequestType /\ RequestOK(req[r])
  BY DEF IInv, ReqInv
<1>2. rest \in SUBSET Parts
  BY <1>1, SMT DEF RequestType
<1>3. new \in RequestType /\ Same(new, req[r]) /\ new.pc = req[r].pc
  BY <1>1, <1>2, TodoFailed
<1>4. Now(r, new)
  BY DEF TaskFailed
<1> HIDE DEF new
<1> QED
  BY <1>3, <1>4, StaySafe

-----------------------------------------------------------------------------
(* The same facts in the shape the actions need. *)

\* A request may go on from one step to another without a new duty.
Onward(from, to) ==
    /\ from \notin {"idle", "newRow", "copyRow"} /\ to \in Working
    /\ to \in SavePcs => from \in SavePcs
    /\ to \in CopyPcs => from \in CopyPcs

LEMMA ReqFacts ==
    ASSUME IInv, NEW r \in Requests, req[r].pc \notin {"idle", "newRow", "copyRow"}
    PROVE  /\ RowsInv /\ req[r] \in RequestType
           /\ req[r].a \in made /\ req[r].a \in Analyses /\ made \subseteq Analyses
           /\ req[r].seen \in Tree /\ req[r].own \in Tree /\ req[r].todo \in SUBSET Parts
           /\ req[r].pc \in SavePcs => req[r].form \in Forms
           /\ req[r].pc \in CopyPcs => req[r].src \in Analyses
BY SMT DEF IInv, ReqInv, CountInv, RequestOK, RequestType

LEMMA WithType ==
    ASSUME NEW t \in Tree, NEW p \in Parts, NEW row \in Row
    PROVE  With(t, p, row) \in Tree
BY DEF Tree, With

\* A step that touches neither the usages nor the analyses there are.
LEMMA Together ==
    ASSUME IInv, Quiet, RowsInv' /\ TrunkStays, ReqInv'
    PROVE  IInv' /\ TrunkStays
BY QuietSafe DEF IInv

LEMMA InsertSafe ==
    ASSUME IInv, NEW a \in made, NEW p \in Parts, NEW parent, CanInsert(a, p, parent),
           NEW f \in Forms \cup {None}, NEW row \in NewRows(a, p, f), Put(a, p, row),
           made' = made
    PROVE  RowsInv' /\ TrunkStays
<1>1. RowsInv /\ made \subseteq Analyses /\ a \in Analyses
  BY DEF IInv, CountInv
<1>2. row \in Row
  BY <1>1, NewRowType
<1> QED
  BY <1>1, <1>2, PutSafe

LEMMA OnSafe ==
    ASSUME IInv, NEW r \in Requests, NEW pc, Onward(req[r].pc, pc), Go(r, pc),
           made' = made, uses' = uses
    PROVE  ReqInv'
BY GoSafe DEF Onward

LEMMA SeenSafe ==
    ASSUME IInv, NEW r \in Requests, NEW pc, Onward(req[r].pc, pc), NEW t \in Tree,
           Now(r, [req[r] EXCEPT !.seen = t, !.pc = pc]), made' = made, uses' = uses
    PROVE  ReqInv'
<1> DEFINE new == [req[r] EXCEPT !.seen = t, !.pc = pc]
<1>1. req[r] \in RequestType /\ pc \in Pcs
  BY DEF IInv, ReqInv, Onward, Working
<1>2. new \in RequestType /\ Same(new, req[r]) /\ new.pc = pc
  BY <1>1, SeenPc
<1>3. Now(r, new) OBVIOUS
<1> HIDE DEF new
<1> QED BY <1>2, <1>3, WorkSafe DEF Onward

LEMMA OwnSafe ==
    ASSUME IInv, NEW r \in Requests, NEW pc, Onward(req[r].pc, pc), NEW t \in Tree,
           Now(r, [req[r] EXCEPT !.own = t, !.pc = pc]), made' = made, uses' = uses
    PROVE  ReqInv'
<1> DEFINE new == [req[r] EXCEPT !.own = t, !.pc = pc]
<1>1. req[r] \in RequestType /\ pc \in Pcs
  BY DEF IInv, ReqInv, Onward, Working
<1>2. new \in RequestType /\ Same(new, req[r]) /\ new.pc = pc
  BY <1>1, OwnPc
<1>3. Now(r, new) OBVIOUS
<1> HIDE DEF new
<1> QED BY <1>2, <1>3, WorkSafe DEF Onward

LEMMA SeenTodoSafe ==
    ASSUME IInv, NEW r \in Requests, NEW pc, Onward(req[r].pc, pc), NEW t \in Tree,
           NEW d \in SUBSET Parts,
           Now(r, [req[r] EXCEPT !.seen = t, !.pc = pc, !.todo = d]), made' = made, uses' = uses
    PROVE  ReqInv'
<1> DEFINE new == [req[r] EXCEPT !.seen = t, !.pc = pc, !.todo = d]
<1>1. req[r] \in RequestType /\ pc \in Pcs
  BY DEF IInv, ReqInv, Onward, Working
<1>2. new \in RequestType /\ Same(new, req[r]) /\ new.pc = pc
  BY <1>1 DEF RequestType, Same
<1>3. Now(r, new) OBVIOUS
<1> HIDE DEF new
<1> QED BY <1>2, <1>3, WorkSafe DEF Onward

LEMMA OwnTodoSafe ==
    ASSUME IInv, NEW r \in Requests, NEW pc, Onward(req[r].pc, pc), NEW t \in Tree,
           NEW d \in SUBSET Parts,
           Now(r, [req[r] EXCEPT !.own = t, !.pc = pc, !.todo = d]), made' = made, uses' = uses
    PROVE  ReqInv'
<1> DEFINE new == [req[r] EXCEPT !.own = t, !.pc = pc, !.todo = d]
<1>1. req[r] \in RequestType /\ pc \in Pcs
  BY DEF IInv, ReqInv, Onward, Working
<1>2. new \in RequestType /\ Same(new, req[r]) /\ new.pc = pc
  BY <1>1 DEF RequestType, Same
<1>3. Now(r, new) OBVIOUS
<1> HIDE DEF new
<1> QED BY <1>2, <1>3, WorkSafe DEF Onward

LEMMA PcTodoSafe ==
    ASSUME IInv, NEW r \in Requests, NEW pc, Onward(req[r].pc, pc), NEW d \in SUBSET Parts,
           Now(r, [req[r] EXCEPT !.pc = pc, !.todo = d]), made' = made, uses' = uses
    PROVE  ReqInv'
<1> DEFINE new == [req[r] EXCEPT !.pc = pc, !.todo = d]
<1>1. req[r] \in RequestType /\ pc \in Pcs
  BY DEF IInv, ReqInv, Onward, Working
<1>2. new \in RequestType /\ Same(new, req[r]) /\ new.pc = pc
  BY <1>1, PcTodo
<1>3. Now(r, new) OBVIOUS
<1> HIDE DEF new
<1> QED BY <1>2, <1>3, WorkSafe DEF Onward

LEMMA TodoSafe ==
    ASSUME IInv, NEW r \in Requests, NEW d \in SUBSET Parts,
           Now(r, [req[r] EXCEPT !.todo = d]), made' = made, uses' = uses
    PROVE  ReqInv'
<1> DEFINE new == [req[r] EXCEPT !.todo = d]
<1>1. new \in RequestType /\ Same(new, req[r]) /\ new.pc = req[r].pc
  BY TodoOnly DEF IInv, ReqInv
<1>2. Now(r, new) OBVIOUS
<1> HIDE DEF new
<1> QED BY <1>1, <1>2, StaySafe

LEMMA OwnTodoStay ==
    ASSUME IInv, NEW r \in Requests, NEW t \in Tree, NEW d \in SUBSET Parts,
           Now(r, [req[r] EXCEPT !.own = t, !.todo = d]), made' = made, uses' = uses
    PROVE  ReqInv'
<1> DEFINE new == [req[r] EXCEPT !.own = t, !.todo = d]
<1>1. new \in RequestType /\ Same(new, req[r]) /\ new.pc = req[r].pc
  BY OwnTodo DEF IInv, ReqInv
<1>2. Now(r, new) OBVIOUS
<1> HIDE DEF new
<1> QED BY <1>1, <1>2, StaySafe

LEMMA SaveOn ==
    ASSUME NEW from \in SavePcs, NEW to \in SavePcs \cup {"done"}
    PROVE  Onward(from, to) /\ from \notin {"idle", "newRow", "copyRow"}
BY SMT DEF Onward, Working, Pcs, SavePcs, CopyPcs

LEMMA CopyOn ==
    ASSUME NEW from \in CopyPcs \ {"copyRow"}, NEW to \in CopyPcs \cup {"done"}, to # "copyRow"
    PROVE  Onward(from, to) /\ from \notin {"idle", "newRow", "copyRow"}
BY SMT DEF Onward, Working, Pcs, SavePcs, CopyPcs

\* A statement that failed wrote nothing.
LEMMA EndKept ==
    ASSUME IInv, NEW r \in Requests, End(r), UNCHANGED rows, Quiet
    PROVE  IInv' /\ TrunkStays
BY EndSafe, RowsKept, Together, QuietSafe

LEMMA FailsKept ==
    ASSUME IInv, NEW r \in Requests, Fails(r), UNCHANGED rows, Quiet
    PROVE  IInv' /\ TrunkStays
BY FailsSafe, RowsKept, Together, QuietSafe

LEMMA TaskFailedKept ==
    ASSUME IInv, NEW r \in Requests, NEW p \in Parts, TaskFailed(r, p), UNCHANGED rows, Quiet
    PROVE  IInv' /\ TrunkStays
BY TaskFailedSafe, RowsKept, Together, QuietSafe

-----------------------------------------------------------------------------
(* One statement and the step after it. *)

LEMMA InsertSeen ==
    ASSUME IInv, Quiet, NEW r \in Requests, NEW p \in Parts, NEW parent, NEW f \in Forms \cup {None},
           CanInsert(req[r].a, p, parent), NEW row \in NewRows(req[r].a, p, f),
           Put(req[r].a, p, row), NEW to, Onward(req[r].pc, to),
           Now(r, [req[r] EXCEPT !.seen = With(req[r].seen, p, row), !.pc = to])
    PROVE  IInv' /\ TrunkStays
<1>1. /\ req[r].a \in made /\ req[r].a \in Analyses /\ RowsInv /\ req[r].seen \in Tree
      /\ made' = made /\ uses' = uses
  BY ReqFacts DEF Onward, Quiet
<1>2. With(req[r].seen, p, row) \in Tree
  BY <1>1, NewRowType, WithType
<1>3. RowsInv' /\ TrunkStays
  BY <1>1, InsertSafe
<1>4. ReqInv'
  BY <1>1, <1>2, SeenSafe
<1> QED BY <1>3, <1>4, Together

LEMMA InsertOwn ==
    ASSUME IInv, Quiet, NEW r \in Requests, NEW p \in Parts, NEW parent, NEW f \in Forms \cup {None},
           CanInsert(req[r].a, p, parent), NEW row \in NewRows(req[r].a, p, f),
           Put(req[r].a, p, row), NEW to, Onward(req[r].pc, to),
           Now(r, [req[r] EXCEPT !.own = With(req[r].own, p, row), !.pc = to])
    PROVE  IInv' /\ TrunkStays
<1>1. /\ req[r].a \in made /\ req[r].a \in Analyses /\ RowsInv /\ req[r].own \in Tree
      /\ made' = made /\ uses' = uses
  BY ReqFacts DEF Onward, Quiet
<1>2. With(req[r].own, p, row) \in Tree
  BY <1>1, NewRowType, WithType
<1>3. RowsInv' /\ TrunkStays
  BY <1>1, InsertSafe
<1>4. ReqInv'
  BY <1>1, <1>2, OwnSafe
<1> QED BY <1>3, <1>4, Together

LEMMA InsertSeenTodo ==
    ASSUME IInv, Quiet, NEW r \in Requests, NEW p \in Parts, NEW parent, NEW f \in Forms \cup {None},
           CanInsert(req[r].a, p, parent), NEW row \in NewRows(req[r].a, p, f),
           Put(req[r].a, p, row), NEW to, Onward(req[r].pc, to), NEW d \in SUBSET Parts,
           Now(r, [req[r] EXCEPT !.seen = With(req[r].seen, p, row), !.pc = to, !.todo = d])
    PROVE  IInv' /\ TrunkStays
<1>1. /\ req[r].a \in made /\ req[r].a \in Analyses /\ RowsInv /\ req[r].seen \in Tree
      /\ made' = made /\ uses' = uses
  BY ReqFacts DEF Onward, Quiet
<1>2. With(req[r].seen, p, row) \in Tree
  BY <1>1, NewRowType, WithType
<1>3. RowsInv' /\ TrunkStays
  BY <1>1, InsertSafe
<1>4. ReqInv'
  BY <1>1, <1>2, SeenTodoSafe
<1> QED BY <1>3, <1>4, Together

LEMMA InsertOwnTodo ==
    ASSUME IInv, Quiet, NEW r \in Requests, NEW p \in Parts, NEW parent, NEW f \in Forms \cup {None},
           CanInsert(req[r].a, p, parent), NEW row \in NewRows(req[r].a, p, f),
           Put(req[r].a, p, row), NEW to, Onward(req[r].pc, to), NEW d \in SUBSET Parts,
           Now(r, [req[r] EXCEPT !.own = With(req[r].own, p, row), !.pc = to, !.todo = d])
    PROVE  IInv' /\ TrunkStays
<1>1. /\ req[r].a \in made /\ req[r].a \in Analyses /\ RowsInv /\ req[r].own \in Tree
      /\ made' = made /\ uses' = uses
  BY ReqFacts DEF Onward, Quiet
<1>2. With(req[r].own, p, row) \in Tree
  BY <1>1, NewRowType, WithType
<1>3. RowsInv' /\ TrunkStays
  BY <1>1, InsertSafe
<1>4. ReqInv'
  BY <1>1, <1>2, OwnTodoSafe
<1> QED BY <1>3, <1>4, Together

\* An insertion whose row the request does not keep.
LEMMA InsertGo ==
    ASSUME IInv, Quiet, NEW r \in Requests, NEW p \in Parts, NEW parent, NEW f \in Forms \cup {None},
           CanInsert(req[r].a, p, parent), Insert(req[r].a, p, f), ReqInv',
           req[r].pc \notin {"idle", "newRow", "copyRow"}
    PROVE  IInv' /\ TrunkStays
<1>1. PICK row \in NewRows(req[r].a, p, f) : Put(req[r].a, p, row)
  BY DEF Insert
<1>2. req[r].a \in made /\ made' = made
  BY ReqFacts DEF Quiet
<1>3. RowsInv' /\ TrunkStays
  BY <1>1, <1>2, InsertSafe
<1> QED BY <1>3, Together

LEMMA RewriteGo ==
    ASSUME IInv, Quiet, NEW r \in Requests, NEW p \in Parts, NEW f \in Forms \cup {None},
           Rewrite(req[r].a, p, f), ReqInv', req[r].pc \notin {"idle", "newRow", "copyRow"}
    PROVE  IInv' /\ TrunkStays
<1>1. RowsInv /\ req[r].a \in Analyses /\ made' = made
  BY ReqFacts DEF Quiet
<1>2. RowsInv' /\ TrunkStays
  BY <1>1, RewriteSafe
<1> QED BY <1>2, Together

LEMMA RemoveGo ==
    ASSUME IInv, Quiet, NEW r \in Requests, NEW gone \in SUBSET Parts, Remove(req[r].a, gone),
           \A p \in Parts \ {"analyzer"} : Parent(p) \in gone => p \in gone,
           Has(rows[req[r].a], "units") => gone \cap Trunk = {},
           ReqInv', req[r].pc \notin {"idle", "newRow", "copyRow"}
    PROVE  IInv' /\ TrunkStays
<1>1. RowsInv /\ req[r].a \in Analyses /\ made' = made
  BY ReqFacts DEF Quiet
<1>2. RowsInv' /\ TrunkStays
  BY <1>1, RemoveSafe
<1> QED BY <1>2, Together

-----------------------------------------------------------------------------
(* The actions of a save. *)

LEMMA CreateRAnalyzerSafe ==
    ASSUME IInv, NEW r \in Requests, CreateRAnalyzer(r)
    PROVE  IInv' /\ TrunkStays
<1>0. req[r].pc = "analyzer" /\ Quiet
  BY DEF CreateRAnalyzer
<1>1. /\ Quiet /\ Onward(req[r].pc, "find")
      /\ "analyzer" \in Parts /\ None \in Forms \cup {None}
  BY <1>0, SaveOn, PartsFacts, SMT DEF SavePcs, Trunk
<1>2. CASE ~CanInsert(req[r].a, "analyzer", 0)
  BY <1>1, <1>2, EndKept DEF CreateRAnalyzer
<1>3. CASE CanInsert(req[r].a, "analyzer", 0)
  <2>1. PICK row \in NewRows(req[r].a, "analyzer", None) :
            /\ Put(req[r].a, "analyzer", row)
            /\ Now(r, [req[r] EXCEPT !.seen = With(req[r].seen, "analyzer", row), !.pc = "find"])
    BY <1>3 DEF CreateRAnalyzer
  <2> QED BY <1>1, <1>3, <2>1, InsertSeen
<1> QED BY <1>2, <1>3

LEMMA FindBuilderSafe ==
    ASSUME IInv, NEW r \in Requests, FindBuilder(r)
    PROVE  IInv' /\ TrunkStays
<1>1. req[r].pc \in {"find", "again"} /\ UNCHANGED rows /\ Quiet
  BY DEF FindBuilder
<1>2. /\ req[r].pc \in SavePcs /\ req[r].pc \notin {"idle", "newRow", "copyRow"}
      /\ \A pc \in {"make", "again", "unitsOut", "newPd", "makeAgain"} : Onward(req[r].pc, pc)
  BY <1>1, SaveOn, SMT DEF SavePcs
<1>3. rows[req[r].a] \in Tree /\ made' = made /\ uses' = uses
  BY <1>1, <1>2, ReqFacts DEF RowsInv, Quiet
<1>4. ReqInv'
  <2>1. CASE Go(r, "make") \/ Go(r, "makeAgain")
    BY <1>2, <1>3, <2>1, OnSafe
  <2>2. CASE Now(r, [req[r] EXCEPT !.seen = rows[req[r].a], !.pc = "again"])
    BY <1>2, <1>3, <2>2, SeenSafe
  <2>3. CASE Now(r, [req[r] EXCEPT !.own = rows[req[r].a],
                          !.pc = IF Has(rows[req[r].a], "pd") THEN "unitsOut" ELSE "newPd"])
    BY <1>2, <1>3, <2>3, OwnSafe
  <2> QED BY <2>1, <2>2, <2>3 DEF FindBuilder
<1> QED BY <1>1, <1>3, <1>4, RowsKept, Together

LEMMA CreateABuilderSafe ==
    ASSUME IInv, NEW r \in Requests, CreateABuilder(r)
    PROVE  IInv' /\ TrunkStays
<1> DEFINE parent == req[r].seen["analyzer"].id
<1>0. req[r].pc \in {"make", "makeAgain"} /\ Quiet
  BY DEF CreateABuilder
<1>1. /\ Quiet /\ \A pc \in {"again", "newPd"} : Onward(req[r].pc, pc)
      /\ "builder" \in Parts /\ None \in Forms \cup {None}
  BY <1>0, SaveOn, PartsFacts, SMT DEF SavePcs, Trunk
<1>2. CASE ~CanInsert(req[r].a, "builder", parent)
  BY <1>1, <1>2, FailsKept DEF CreateABuilder
<1>3. CASE CanInsert(req[r].a, "builder", parent)
  <2>1. PICK row \in NewRows(req[r].a, "builder", None) :
            /\ Put(req[r].a, "builder", row)
            /\ \/ Now(r, [req[r] EXCEPT !.seen = With(req[r].seen, "builder", row), !.pc = "again"])
               \/ Now(r, [req[r] EXCEPT !.own = With(req[r].own, "builder", row), !.pc = "newPd"])
    BY <1>3 DEF CreateABuilder
  <2> QED BY <1>1, <1>3, <2>1, InsertSeen, InsertOwn
<1> QED BY <1>2, <1>3

LEMMA DeletePDetailsUnitsSafe ==
    ASSUME IInv, NEW r \in Requests, DeletePDetailsUnits(r)
    PROVE  IInv' /\ TrunkStays
<1>1. /\ Quiet /\ made' = made /\ uses' = uses
      /\ \A pc \in {"unitsIn", "pdWrite"} : Onward(req[r].pc, pc)
      /\ req[r].pc \notin {"idle", "newRow", "copyRow"}
  BY SaveOn, SMT DEF DeletePDetailsUnits, SavePcs, Quiet
<1>2. ReqInv'
  BY <1>1, EndSafe, OnSafe DEF DeletePDetailsUnits
<1>3. CASE UNCHANGED rows
  BY <1>1, <1>2, <1>3, RowsKept, Together
<1>4. CASE Remove(req[r].a, {"units"})
  <2>1. /\ {"units"} \in SUBSET Parts /\ {"units"} \cap Trunk = {}
        /\ \A p \in Parts \ {"analyzer"} : Parent(p) \notin {"units"}
    BY PartsFacts, ParentFacts, SMT DEF Trunk
  <2> QED BY <1>1, <1>2, <1>4, <2>1, RemoveGo
<1> QED BY <1>3, <1>4 DEF DeletePDetailsUnits

LEMMA CreatePDetailsUnitsSafe ==
    ASSUME IInv, NEW r \in Requests, CreatePDetailsUnits(r)
    PROVE  IInv' /\ TrunkStays
<1> DEFINE parent == req[r].own["pd"].id
<1>1. /\ Quiet /\ made' = made /\ uses' = uses
      /\ \A pc \in {"pdWrite", "ad"} : Onward(req[r].pc, pc)
      /\ req[r].pc \in SavePcs /\ req[r].pc \notin {"idle", "newRow", "copyRow"}
  BY SaveOn, SMT DEF CreatePDetailsUnits, SavePcs, Quiet
<1>2. CASE ~CanInsert(req[r].a, "units", parent)
  BY <1>1, <1>2, FailsKept DEF CreatePDetailsUnits
<1>3. CASE CanInsert(req[r].a, "units", parent)
  <2>1. ReqInv'
    BY <1>1, <1>3, OnSafe DEF CreatePDetailsUnits
  <2>2. req[r].form \in Forms /\ "units" \in Parts
    BY <1>1, ReqFacts, PartsFacts
  <2>3. Insert(req[r].a, "units", req[r].form)
    BY <1>3 DEF CreatePDetailsUnits
  <2> QED BY <1>1, <1>3, <2>1, <2>2, <2>3, InsertGo
<1> QED BY <1>2, <1>3

LEMMA UpdatePDetailsSafe ==
    ASSUME IInv, NEW r \in Requests, UpdatePDetails(r)
    PROVE  IInv' /\ TrunkStays
<1>1. /\ Quiet /\ made' = made /\ uses' = uses /\ Onward(req[r].pc, "ad")
      /\ req[r].pc \in SavePcs /\ req[r].pc \notin {"idle", "newRow", "copyRow"}
  BY SaveOn, SMT DEF UpdatePDetails, SavePcs, Quiet
<1>2. CASE End(r) /\ UNCHANGED rows
  BY <1>1, <1>2, EndKept
<1>3. CASE Rewrite(req[r].a, "pd", req[r].form) /\ Go(r, "ad")
  <2>1. ReqInv'
    BY <1>1, <1>3, OnSafe
  <2>2. req[r].form \in Forms /\ "pd" \in Parts
    BY <1>1, ReqFacts, PartsFacts DEF Trunk
  <2> QED BY <1>1, <1>3, <2>1, <2>2, RewriteGo
<1> QED BY <1>2, <1>3 DEF UpdatePDetails

LEMMA CreatePDetailsSafe ==
    ASSUME IInv, NEW r \in Requests, CreatePDetails(r)
    PROVE  IInv' /\ TrunkStays
<1> DEFINE parent == req[r].own["builder"].id
           next == IF req[r].form.units THEN "newUnits" ELSE "ad"
<1>0. req[r].pc = "newPd" /\ Quiet
  BY DEF CreatePDetails
<1>1. /\ Quiet /\ Onward(req[r].pc, next) /\ "pd" \in Parts
      /\ req[r].pc \in SavePcs /\ req[r].pc \notin {"idle", "newRow", "copyRow"}
  BY <1>0, SaveOn, PartsFacts, SMT DEF SavePcs, Trunk
<1>2. req[r].form \in Forms
  BY <1>1, ReqFacts
<1>3. CASE ~CanInsert(req[r].a, "pd", parent)
  BY <1>1, <1>3, FailsKept DEF CreatePDetails
<1>4. CASE CanInsert(req[r].a, "pd", parent)
  <2>1. PICK row \in NewRows(req[r].a, "pd", req[r].form) :
            /\ Put(req[r].a, "pd", row)
            /\ Now(r, [req[r] EXCEPT !.own = With(req[r].own, "pd", row), !.pc = next])
    BY <1>4 DEF CreatePDetails
  <2> HIDE DEF next
  <2> QED BY <1>1, <1>2, <1>4, <2>1, InsertOwn
<1> QED BY <1>3, <1>4

LEMMA CleanUpSafe ==
    ASSUME IInv, NEW r \in Requests, CleanUp(r)
    PROVE  IInv' /\ TrunkStays
<1> DEFINE a == req[r].a
           p == CleanUps[req[r].pc]
           next == NextCleanUp[req[r].pc]
<1>1. req[r].pc \in {"dropPd", "dropBuilder", "dropAnalyzer", "dropAd"} /\ Quiet
  BY DEF CleanUp, CleanUps
<1>2. /\ p \in Trunk \cup {"ad"} /\ next \in {"dropBuilder", "dropAnalyzer", "idle"}
      /\ p \in Parts
  BY <1>1, PartsFacts, SMT DEF CleanUps, NextCleanUp, Trunk
<1>3. /\ \A pc \in {"dropBuilder", "dropAnalyzer"} : Onward(req[r].pc, pc)
      /\ req[r].pc \notin {"idle", "newRow", "copyRow"} /\ made' = made /\ uses' = uses
  BY <1>1, SaveOn, SMT DEF SavePcs, Quiet
<1>4. ReqInv'
  <2>1. CASE End(r)
    BY <1>3, <2>1, EndSafe
  <2>2. CASE next # "idle" /\ Go(r, next)
    <3>1. Onward(req[r].pc, next)
      BY <1>2, <1>3, <2>2
    <3> HIDE DEF next
    <3> QED BY <1>3, <2>2, <3>1, OnSafe
  <2> QED BY <2>1, <2>2 DEF CleanUp
<1>5. CASE UNCHANGED rows
  BY <1>1, <1>3, <1>4, <1>5, RowsKept, Together
<1>6. CASE ~Blocked(a, p) /\ Remove(a, {p} \cup Below(p))
  <2>1. {p} \cup Below(p) \in SUBSET Parts
    BY <1>2, SMT DEF Below
  <2>2. \A q \in Parts \ {"analyzer"} : Parent(q) \in {p} \cup Below(p) => q \in {p} \cup Below(p)
    <3>1. CASE p = "analyzer"
      BY <3>1, SMT DEF Below
    <3>2. CASE p = "builder"
      BY <3>2, ParentFacts, SMT DEF Below, Trunk
    <3>3. CASE p \in {"pd", "ad"}
      BY <3>3, ParentFacts, PartsFacts, SMT DEF Below, Trunk
    <3> QED BY <1>2, <3>1, <3>2, <3>3 DEF Trunk
  <2>3. Has(rows[a], "units") => ({p} \cup Below(p)) \cap Trunk = {}
    BY <1>2, <1>6, ParentFacts, PartsFacts, SMT DEF Below, Trunk, Blocked
  <2> HIDE DEF p
  <2> QED BY <1>1, <1>3, <1>4, <1>6, <2>1, <2>2, <2>3, RemoveGo
<1> QED BY <1>5, <1>6 DEF CleanUp

LEMMA CreateADetailsSafe ==
    ASSUME IInv, NEW r \in Requests, CreateADetails(r)
    PROVE  IInv' /\ TrunkStays
<1> DEFINE parent == req[r].seen["builder"].id
           next == IF req[r].form.items THEN "newItem" ELSE "rep"
<1>1. req[r].pc = "ad" /\ Quiet
  BY DEF CreateADetails
<1>2. /\ Onward(req[r].pc, next) /\ "ad" \in Parts
      /\ req[r].pc \in SavePcs /\ req[r].pc \notin {"idle", "newRow", "copyRow"}
  BY <1>1, SaveOn, PartsFacts, SMT DEF SavePcs
<1>3. req[r].form \in Forms
  BY <1>2, ReqFacts
<1>4. CASE End(r) /\ UNCHANGED rows
  BY <1>1, <1>4, EndKept
<1>5. CASE Valid(req[r].form) /\ CanInsert(req[r].a, "ad", parent)
  <2>1. PICK row \in NewRows(req[r].a, "ad", req[r].form) :
            /\ Put(req[r].a, "ad", row)
            /\ Now(r, [req[r] EXCEPT !.seen = With(req[r].seen, "ad", row), !.pc = next])
    BY <1>5 DEF CreateADetails
  <2> HIDE DEF next
  <2> QED BY <1>1, <1>2, <1>3, <1>5, <2>1, InsertSeen
<1> QED BY <1>4, <1>5 DEF CreateADetails

LEMMA DeleteAdItemizedSafe ==
    ASSUME IInv, NEW r \in Requests, DeleteAdItemized(r)
    PROVE  IInv' /\ TrunkStays
<1>1. req[r].pc = "ad" /\ Quiet /\ Go(r, "adWrite")
  BY DEF DeleteAdItemized
<1>2. /\ Onward(req[r].pc, "adWrite") /\ req[r].pc \notin {"idle", "newRow", "copyRow"}
      /\ made' = made /\ uses' = uses
  BY <1>1, SaveOn, SMT DEF SavePcs, Quiet
<1>3. ReqInv'
  BY <1>1, <1>2, OnSafe
<1>4. CASE UNCHANGED rows
  BY <1>1, <1>2, <1>3, <1>4, RowsKept, Together
<1>5. CASE Remove(req[r].a, {"item"})
  <2>1. /\ {"item"} \in SUBSET Parts /\ {"item"} \cap Trunk = {}
        /\ \A p \in Parts \ {"analyzer"} : Parent(p) \notin {"item"}
    BY PartsFacts, ParentFacts, SMT DEF Trunk
  <2> QED BY <1>1, <1>2, <1>3, <1>5, <2>1, RemoveGo
<1> QED BY <1>4, <1>5 DEF DeleteAdItemized

LEMMA UpdateADetailsSafe ==
    ASSUME IInv, NEW r \in Requests, UpdateADetails(r)
    PROVE  IInv' /\ TrunkStays
<1>1. req[r].pc \in {"ad", "adWrite"} /\ Quiet
  BY DEF UpdateADetails
<1>2. /\ \A pc \in {"rep", "item", "newItem"} : Onward(req[r].pc, pc)
      /\ req[r].pc \in SavePcs /\ req[r].pc \notin {"idle", "newRow", "copyRow"}
      /\ made' = made /\ uses' = uses
  BY <1>1, SaveOn, SMT DEF SavePcs, Quiet
<1>3. req[r].form \in Forms /\ "ad" \in Parts
  BY <1>2, ReqFacts, PartsFacts
<1>4. ReqInv'
  BY <1>2, EndSafe, OnSafe DEF UpdateADetails
<1>5. CASE UNCHANGED rows
  BY <1>1, <1>2, <1>4, <1>5, RowsKept, Together
<1>6. CASE Rewrite(req[r].a, "ad", req[r].form)
  BY <1>1, <1>2, <1>3, <1>4, <1>6, RewriteGo
<1> QED BY <1>5, <1>6 DEF UpdateADetails

LEMMA UpdateAdItemizedSafe ==
    ASSUME IInv, NEW r \in Requests, UpdateAdItemized(r)
    PROVE  IInv' /\ TrunkStays
<1>1. req[r].pc = "item" /\ Quiet
  BY DEF UpdateAdItemized
<1>2. /\ Onward(req[r].pc, "rep")
      /\ req[r].pc \in SavePcs /\ req[r].pc \notin {"idle", "newRow", "copyRow"}
      /\ made' = made /\ uses' = uses
  BY <1>1, SaveOn, SMT DEF SavePcs, Quiet
<1>3. req[r].form \in Forms /\ "item" \in Parts
  BY <1>2, ReqFacts, PartsFacts
<1>4. ReqInv'
  BY <1>2, EndSafe, OnSafe DEF UpdateAdItemized
<1>5. CASE UNCHANGED rows
  BY <1>1, <1>2, <1>4, <1>5, RowsKept, Together
<1>6. CASE Rewrite(req[r].a, "item", req[r].form)
  BY <1>1, <1>2, <1>3, <1>4, <1>6, RewriteGo
<1> QED BY <1>5, <1>6 DEF UpdateAdItemized

LEMMA CreateAdItemizedSafe ==
    ASSUME IInv, NEW r \in Requests, CreateAdItemized(r)
    PROVE  IInv' /\ TrunkStays
<1> DEFINE parent == req[r].seen["ad"].id
<1>1. req[r].pc = "newItem" /\ Quiet
  BY DEF CreateAdItemized
<1>2. /\ Onward(req[r].pc, "rep")
      /\ req[r].pc \in SavePcs /\ req[r].pc \notin {"idle", "newRow", "copyRow"}
      /\ made' = made /\ uses' = uses
  BY <1>1, SaveOn, SMT DEF SavePcs, Quiet
<1>3. req[r].form \in Forms /\ "item" \in Parts
  BY <1>2, ReqFacts, PartsFacts
<1>4. CASE ~CanInsert(req[r].a, "item", parent)
  BY <1>1, <1>4, FailsKept DEF CreateAdItemized
<1>5. CASE CanInsert(req[r].a, "item", parent)
  <2>1. Insert(req[r].a, "item", req[r].form) /\ Go(r, "rep")
    BY <1>5 DEF CreateAdItemized
  <2>2. ReqInv'
    BY <1>2, <2>1, OnSafe
  <2> QED BY <1>1, <1>2, <1>3, <1>5, <2>1, <2>2, InsertGo
<1> QED BY <1>4, <1>5

LEMMA CreateRepairsSafe ==
    ASSUME IInv, NEW r \in Requests, CreateRepairs(r)
    PROVE  IInv' /\ TrunkStays
<1> DEFINE parent == req[r].seen["builder"].id
<1>1. req[r].pc = "rep" /\ Quiet
  BY DEF CreateRepairs
<1>2. /\ Onward(req[r].pc, "newKinds") /\ "rep" \in Parts
      /\ req[r].pc \in SavePcs /\ req[r].pc \notin {"idle", "newRow", "copyRow"}
  BY <1>1, SaveOn, PartsFacts, SMT DEF SavePcs
<1>3. req[r].form \in Forms
  BY <1>2, ReqFacts
<1>4. req[r].form.kinds \in SUBSET Parts
  <2>1. req[r].form.kinds \in SUBSET Kinds
    BY <1>3, ConstantsAssumption, SMT DEF FormType
  <2> QED BY <2>1, PartsFacts, SMT
<1>5. CASE ~CanInsert(req[r].a, "rep", parent)
  BY <1>1, <1>5, EndKept DEF CreateRepairs
<1>6. CASE CanInsert(req[r].a, "rep", parent)
  <2>1. PICK row \in NewRows(req[r].a, "rep", req[r].form) :
            /\ Put(req[r].a, "rep", row)
            /\ Now(r, [req[r] EXCEPT !.seen = With(req[r].seen, "rep", row), !.pc = "newKinds",
                                     !.todo = req[r].form.kinds])
    BY <1>6 DEF CreateRepairs
  <2> QED BY <1>1, <1>2, <1>3, <1>4, <1>6, <2>1, InsertSeenTodo
<1> QED BY <1>5, <1>6

LEMMA ReconcileRepairsSafe ==
    ASSUME IInv, NEW r \in Requests, ReconcileRepairs(r)
    PROVE  IInv' /\ TrunkStays
<1> DEFINE gone == {k \in Reconciled(req[r].seen, req[r].form) :
                       rows[req[r].a][k].id = req[r].seen[k].id}
<1>1. req[r].pc = "rep" /\ Quiet
  BY DEF ReconcileRepairs
<1>2. /\ Onward(req[r].pc, "kinds") /\ made' = made /\ uses' = uses
      /\ req[r].pc \in SavePcs /\ req[r].pc \notin {"idle", "newRow", "copyRow"}
  BY <1>1, SaveOn, SMT DEF SavePcs, Quiet
<1>3. req[r].form \in Forms
  BY <1>2, ReqFacts
<1>4. req[r].form.kinds \in SUBSET Kinds
  BY <1>3, ConstantsAssumption, SMT DEF FormType
<1>5. ReqInv'
  <2>1. req[r].form.kinds \in SUBSET Parts
    BY <1>4, PartsFacts, SMT
  <2>2. Now(r, [req[r] EXCEPT !.pc = "kinds", !.todo = req[r].form.kinds])
    BY DEF ReconcileRepairs
  <2> QED BY <1>2, <2>1, <2>2, PcTodoSafe
<1>6. Remove(req[r].a, gone)
  BY DEF ReconcileRepairs
<1>7. gone \subseteq Kinds
  BY <1>4, SMT DEF Reconciled
<1>8. /\ gone \in SUBSET Parts /\ gone \cap Trunk = {}
      /\ \A p \in Parts \ {"analyzer"} : Parent(p) \notin gone
  <2> HIDE DEF gone
  <2> QED BY <1>7, PartsFacts, ParentFacts, SMT
<1> HIDE DEF gone
<1> QED BY <1>1, <1>2, <1>5, <1>6, <1>8, RemoveGo

LEMMA WriteRepairItemSafe ==
    ASSUME IInv, NEW r \in Requests, NEW k \in Kinds, WriteRepairItem(r, k)
    PROVE  IInv' /\ TrunkStays
<1> DEFINE parent == req[r].seen["rep"].id
<1>1. req[r].pc \in {"newKinds", "kinds"} /\ Quiet
  BY DEF WriteRepairItem
<1>2. /\ req[r].pc \in SavePcs /\ req[r].pc \notin {"idle", "newRow", "copyRow"}
      /\ made' = made /\ uses' = uses
  BY <1>1, SMT DEF SavePcs, Quiet
<1>3. req[r].form \in Forms /\ k \in Parts /\ req[r].todo \in SUBSET Parts
  BY <1>2, ReqFacts, PartsFacts
<1>4. CASE TaskFailed(r, k) /\ UNCHANGED rows
  BY <1>1, <1>3, <1>4, TaskFailedKept
<1>5. CASE Now(r, [req[r] EXCEPT !.todo = req[r].todo \ {k}])
  <2>1. req[r].todo \ {k} \in SUBSET Parts
    BY <1>3
  <2>2. ReqInv'
    BY <1>2, <1>5, <2>1, TodoSafe
  <2>3. CASE Rewrite(req[r].a, k, req[r].form)
    BY <1>1, <1>2, <1>3, <2>2, <2>3, RewriteGo
  <2>4. CASE CanInsert(req[r].a, k, parent) /\ Insert(req[r].a, k, req[r].form)
    BY <1>1, <1>2, <1>3, <2>2, <2>4, InsertGo
  <2>5. \/ Rewrite(req[r].a, k, req[r].form)
        \/ CanInsert(req[r].a, k, parent) /\ Insert(req[r].a, k, req[r].form)
        \/ TaskFailed(r, k) /\ UNCHANGED rows
    BY Zenon DEF WriteRepairItem
  <2> QED BY <1>4, <2>3, <2>4, <2>5
<1>6. \/ Now(r, [req[r] EXCEPT !.todo = req[r].todo \ {k}])
      \/ TaskFailed(r, k) /\ UNCHANGED rows
  BY Zenon DEF WriteRepairItem
<1> QED BY <1>4, <1>5, <1>6

LEMMA FinishRepairsSafe ==
    ASSUME IInv, NEW r \in Requests, FinishRepairs(r)
    PROVE  IInv' /\ TrunkStays
<1>1. req[r].pc \in {"newKinds", "kinds"} /\ Quiet
  BY DEF FinishRepairs
<1>2. /\ Onward(req[r].pc, "fe") /\ made' = made /\ uses' = uses
      /\ req[r].pc \in SavePcs /\ req[r].pc \notin {"idle", "newRow", "copyRow"}
  BY <1>1, SaveOn, SMT DEF SavePcs, Quiet
<1>3. req[r].form \in Forms /\ "rep" \in Parts
  BY <1>2, ReqFacts, PartsFacts
<1>4. ReqInv'
  BY <1>2, EndSafe, OnSafe DEF FinishRepairs
<1>5. CASE UNCHANGED rows
  BY <1>1, <1>2, <1>4, <1>5, RowsKept, Together
<1>6. CASE Rewrite(req[r].a, "rep", req[r].form)
  BY <1>1, <1>2, <1>3, <1>4, <1>6, RewriteGo
<1> QED BY <1>5, <1>6 DEF FinishRepairs

LEMMA UpsertFExpensesSafe ==
    ASSUME IInv, NEW r \in Requests, UpsertFExpenses(r)
    PROVE  IInv' /\ TrunkStays
<1> DEFINE parent == req[r].seen["builder"].id
<1>1. req[r].pc = "fe" /\ Quiet
  BY DEF UpsertFExpenses
<1>2. /\ Onward(req[r].pc, "answer") /\ made' = made /\ uses' = uses
      /\ req[r].pc \in SavePcs /\ req[r].pc \notin {"idle", "newRow", "copyRow"}
  BY <1>1, SaveOn, SMT DEF SavePcs, Quiet
<1>3. req[r].form \in Forms /\ "fe" \in Parts
  BY <1>2, ReqFacts, PartsFacts
<1>4. ReqInv'
  BY <1>2, EndSafe, OnSafe, Zenon DEF UpsertFExpenses
<1>5. CASE UNCHANGED rows
  BY <1>1, <1>2, <1>4, <1>5, RowsKept, Together
<1>6. CASE Rewrite(req[r].a, "fe", req[r].form)
  BY <1>1, <1>2, <1>3, <1>4, <1>6, RewriteGo
<1>7. CASE CanInsert(req[r].a, "fe", parent) /\ Insert(req[r].a, "fe", req[r].form)
  BY <1>1, <1>2, <1>3, <1>4, <1>7, InsertGo
<1>8. \/ UNCHANGED rows
      \/ Rewrite(req[r].a, "fe", req[r].form)
      \/ CanInsert(req[r].a, "fe", parent) /\ Insert(req[r].a, "fe", req[r].form)
  BY Zenon DEF UpsertFExpenses
<1> QED BY <1>5, <1>6, <1>7, <1>8

LEMMA AnswerSafe ==
    ASSUME IInv, NEW r \in Requests, Answer(r)
    PROVE  IInv' /\ TrunkStays
<1>1. req[r].pc = "answer" /\ Quiet /\ UNCHANGED rows
  BY DEF Answer
<1>2. /\ Onward(req[r].pc, "done") /\ made' = made /\ uses' = uses
      /\ req[r].pc \in SavePcs /\ req[r].pc \notin {"idle", "newRow", "copyRow"}
  BY <1>1, SaveOn, SMT DEF SavePcs, Quiet
<1>3. rows[req[r].a] \in Tree
  BY <1>2, ReqFacts DEF RowsInv
<1>4. ReqInv'
  BY <1>2, <1>3, EndSafe, OwnSafe DEF Answer
<1> QED BY <1>1, <1>2, <1>4, RowsKept, Together

LEMMA FinishSafe ==
    ASSUME IInv, NEW r \in Requests, Finish(r)
    PROVE  IInv' /\ TrunkStays
BY EndKept DEF Finish

-----------------------------------------------------------------------------
(* A summary, a use and a copy. *)

LEMMA UpsertRParamSafe ==
    ASSUME IInv, NEW r \in Requests, UpsertRParam(r)
    PROVE  IInv' /\ TrunkStays
<1> DEFINE parent == req[r].seen["analyzer"].id
<1>1. req[r].pc = "params" /\ Quiet /\ End(r)
  BY DEF UpsertRParam
<1>2. /\ made' = made /\ uses' = uses /\ "params" \in Parts
      /\ req[r].pc \notin {"idle", "newRow", "copyRow"} /\ None \in Forms \cup {None}
  BY <1>1, PartsFacts, SMT DEF Quiet
<1>3. ReqInv'
  BY <1>1, <1>2, EndSafe
<1>4. CASE UNCHANGED rows
  BY <1>1, <1>2, <1>3, <1>4, RowsKept, Together
<1>5. CASE CanInsert(req[r].a, "params", parent) /\ Insert(req[r].a, "params", None)
  BY <1>1, <1>2, <1>3, <1>5, InsertGo
<1> QED BY <1>4, <1>5 DEF UpsertRParam

LEMMA InsertAnalysisSafe ==
    ASSUME IInv, NEW r \in Requests, InsertAnalysis(r)
    PROVE  IInv' /\ TrunkStays
<1>1. /\ req[r].pc \in {"newRow", "copyRow"}
      /\ UNCHANGED <<rows, uses, count, asked, faults>>
  BY DEF InsertAnalysis
<1> DEFINE next == IF req[r].pc = "newRow" THEN "usage" ELSE "copyEntity"
<1>2. PICK a \in Analyses \ made : /\ made' = made \cup {a}
                                    /\ Now(r, [req[r] EXCEPT !.a = a, !.pc = next])
  BY DEF InsertAnalysis
<1>3. PICK q \in RequestType : q = req[r] /\ RequestOK(q)
  BY DEF IInv, ReqInv
<1>4. next \in Pcs
  BY SMT DEF Pcs, CopyPcs
<1>5. PICK pc \in Pcs : pc = next
  BY <1>4
<1> DEFINE new == [q EXCEPT !.a = a, !.pc = pc]
<1>6. /\ new \in RequestType /\ new.a = a /\ new.form = q.form /\ new.src = q.src
      /\ new.count = q.count /\ new.pc = pc
  BY <1>2 DEF RequestType
<1>7. Now(r, new)
  BY <1>2, <1>3, <1>5
<1> HIDE DEF new
<1>8. RequestOK(new)'
  BY <1>1, <1>2, <1>3, <1>5, <1>6, SMT DEF RequestOK, SavePcs, CopyPcs
<1>9. ReqInv'
  BY <1>1, <1>2, <1>6, <1>7, <1>8, NowSafe, SMT DEF IInv, CountInv
<1>10. CountInv'
  BY <1>1, <1>2, SMT DEF IInv, CountInv
<1>11. RowsInv' /\ TrunkStays
  BY <1>1, <1>2, RowsKept
<1> QED BY <1>9, <1>10, <1>11 DEF IInv

LEMMA CreateAUsageSafe ==
    ASSUME IInv, NEW r \in Requests, CreateAUsage(r)
    PROVE  IInv' /\ TrunkStays
<1>1. /\ req[r].pc \in {"usage", "copyUsage"} /\ uses' = uses + 1
      /\ UNCHANGED <<made, rows, count, asked, faults>>
  BY DEF CreateAUsage
<1>2. PICK pc \in {"count", "done"} :
          /\ Go(r, pc) /\ (pc = "count" <=> req[r].pc = "usage")
  BY <1>1, SMT DEF CreateAUsage
<1>3. PICK q \in RequestType : q = req[r] /\ RequestOK(q)
  BY DEF IInv, ReqInv
<1> DEFINE new == [q EXCEPT !.pc = pc]
<1>4. new \in RequestType /\ Same(new, q) /\ new.pc = pc
  BY <1>2, PcOnly, SMT DEF Pcs
<1>5. Now(r, new)
  BY <1>2, <1>3 DEF Go
<1> HIDE DEF new
<1>6. uses \in Nat /\ q.count \in Nat
  BY DEF IInv, CountInv, RequestType
<1>7. RequestOK(new)'
  BY <1>1, <1>2, <1>3, <1>4, <1>6, SMT DEF RequestOK, Same, SavePcs, CopyPcs
<1>8. ReqInv'
  BY <1>1, <1>4, <1>5, <1>6, <1>7, NowSafe, SMT
<1>9. CountInv'
  BY <1>1, SMT DEF IInv, CountInv
<1>10. RowsInv' /\ TrunkStays
  BY <1>1, RowsKept
<1> QED BY <1>8, <1>9, <1>10 DEF IInv

LEMMA UpdateUsageCountSafe ==
    ASSUME IInv, NEW r \in Requests, UpdateUsageCount(r)
    PROVE  IInv' /\ TrunkStays
<1>1. /\ req[r].pc = "count" /\ count' = req[r].count + 1 /\ End(r)
      /\ UNCHANGED <<made, rows, uses, asked, faults>>
  BY DEF UpdateUsageCount
<1>2. req[r].count \in Nat /\ req[r].count < uses
  BY <1>1 DEF IInv, ReqInv, RequestOK, RequestType
<1>3. CountInv'
  BY <1>1, <1>2, SMT DEF IInv, CountInv
<1>4. ReqInv' /\ RowsInv' /\ TrunkStays
  BY <1>1, EndSafe, RowsKept
<1> QED BY <1>3, <1>4 DEF IInv

LEMMA CreateModuleEntitySafe ==
    ASSUME IInv, NEW r \in Requests, CreateModuleEntity(r)
    PROVE  IInv' /\ TrunkStays
<1>1. req[r].pc = "copyEntity" /\ Quiet
  BY DEF CreateModuleEntity
<1>2. /\ Onward(req[r].pc, "copyFind") /\ "analyzer" \in Parts /\ None \in Forms \cup {None}
  BY <1>1, CopyOn, PartsFacts, SMT DEF CopyPcs, Trunk
<1>3. CASE ~CanInsert(req[r].a, "analyzer", 0)
  BY <1>1, <1>3, EndKept DEF CreateModuleEntity
<1>4. CASE CanInsert(req[r].a, "analyzer", 0)
  <2>1. PICK row \in NewRows(req[r].a, "analyzer", None) :
            /\ Put(req[r].a, "analyzer", row)
            /\ Now(r, [req[r] EXCEPT !.own = With(req[r].own, "analyzer", row), !.pc = "copyFind"])
    BY <1>4 DEF CreateModuleEntity
  <2> QED BY <1>1, <1>2, <1>4, <2>1, InsertOwn
<1> QED BY <1>3, <1>4

LEMMA GetExistingBuilderSafe ==
    ASSUME IInv, NEW r \in Requests, GetExistingBuilder(r)
    PROVE  IInv' /\ TrunkStays
<1>1. req[r].pc = "copyFind" /\ Quiet /\ UNCHANGED rows
  BY DEF GetExistingBuilder
<1>2. /\ Onward(req[r].pc, "copyBuilder") /\ made' = made /\ uses' = uses
      /\ req[r].pc \in CopyPcs /\ req[r].pc \notin {"idle", "newRow", "copyRow"}
  BY <1>1, CopyOn, SMT DEF CopyPcs, Quiet
<1>3. rows[req[r].src] \in Tree
  BY <1>2, ReqFacts DEF RowsInv
<1>4. ReqInv'
  BY <1>2, <1>3, EndSafe, SeenSafe DEF GetExistingBuilder
<1> QED BY <1>1, <1>2, <1>4, RowsKept, Together

LEMMA CopyBuilderSafe ==
    ASSUME IInv, NEW r \in Requests, CopyBuilder(r)
    PROVE  IInv' /\ TrunkStays
<1> DEFINE parent == req[r].own["analyzer"].id
<1>1. req[r].pc = "copyBuilder" /\ Quiet
  BY DEF CopyBuilder
<1>2. /\ Onward(req[r].pc, "copyParts") /\ "builder" \in Parts /\ None \in Forms \cup {None}
  BY <1>1, CopyOn, PartsFacts, SMT DEF CopyPcs, Trunk
<1>3. ToClone(req[r].seen) \in SUBSET Parts
  BY SMT DEF ToClone, CopyParts
<1>4. CASE ~CanInsert(req[r].a, "builder", parent)
  BY <1>1, <1>4, EndKept DEF CopyBuilder
<1>5. CASE CanInsert(req[r].a, "builder", parent)
  <2>1. PICK row \in NewRows(req[r].a, "builder", None) :
            /\ Put(req[r].a, "builder", row)
            /\ Now(r, [req[r] EXCEPT !.own = With(req[r].own, "builder", row), !.pc = "copyParts",
                                     !.todo = ToClone(req[r].seen)])
    BY <1>5 DEF CopyBuilder
  <2> QED BY <1>1, <1>2, <1>3, <1>5, <2>1, InsertOwnTodo
<1> QED BY <1>4, <1>5

LEMMA ClonePartSafe ==
    ASSUME IInv, NEW r \in Requests, NEW p \in CopyParts, ClonePart(r, p)
    PROVE  IInv' /\ TrunkStays
<1> DEFINE parent == req[r].own[Parent(p)].id
           f == req[r].seen[p].of
           a == req[r].a
           rest == req[r].todo \ {p}
<1>1. req[r].pc = "copyParts" /\ Quiet
  BY DEF ClonePart
<1>2. /\ req[r].pc \notin {"idle", "newRow", "copyRow"} /\ made' = made /\ uses' = uses
      /\ p \in Parts
  BY <1>1, SMT DEF Quiet, CopyParts
<1>3. /\ req[r].seen \in Tree /\ req[r].own \in Tree /\ rest \in SUBSET Parts
      /\ a \in made /\ a \in Analyses /\ RowsInv
  BY <1>2, ReqFacts
<1>4. f \in Forms \cup {None}
  BY <1>2, <1>3 DEF Tree, Row
<1>5. CASE ~CanInsert(a, p, parent)
  BY <1>1, <1>2, <1>5, TaskFailedKept DEF ClonePart
<1>6. CASE CanInsert(a, p, parent)
  <2>1. PICK row \in NewRows(a, p, f) :
            /\ Put(a, p, row)
            /\ Now(r, [req[r] EXCEPT !.own = With(req[r].own, p, row), !.todo = rest])
    BY <1>6 DEF ClonePart
  <2>2. With(req[r].own, p, row) \in Tree
    BY <1>2, <1>3, <1>4, NewRowType, WithType
  <2>3. RowsInv' /\ TrunkStays
    BY <1>2, <1>3, <1>4, <1>6, <2>1, InsertSafe
  <2>4. ReqInv'
    <3> HIDE DEF rest
    <3> QED BY <1>2, <1>3, <2>1, <2>2, OwnTodoStay
  <2> QED BY <1>1, <2>3, <2>4, Together
<1> QED BY <1>5, <1>6

LEMMA ClonedSafe ==
    ASSUME IInv, NEW r \in Requests, Cloned(r)
    PROVE  IInv' /\ TrunkStays
<1>1. req[r].pc = "copyParts" /\ Quiet /\ UNCHANGED rows
  BY DEF Cloned
<1>2. Onward(req[r].pc, "copyUsage") /\ made' = made /\ uses' = uses
  BY <1>1, CopyOn, SMT DEF CopyPcs, Quiet
<1>3. ReqInv'
  BY <1>2, EndSafe, OnSafe DEF Cloned
<1> QED BY <1>1, <1>2, <1>3, RowsKept, Together

LEMMA StumbleSafe ==
    ASSUME IInv, NEW r \in Requests, Stumble(r)
    PROVE  IInv' /\ TrunkStays
<1>1. /\ faults < MaxFaults /\ faults' = faults + 1
      /\ UNCHANGED <<made, rows, uses, count, asked>>
  BY DEF Stumble
<1>2. CountInv'
  BY <1>1, ConstantsAssumption, SMT DEF IInv, CountInv
<1>3. RowsInv' /\ TrunkStays
  BY <1>1, RowsKept
<1>4. ReqInv'
  <2>1. CASE Fails(r)
    BY <1>1, <2>1, FailsSafe
  <2>2. CASE \E p \in req[r].todo : TaskFailed(r, p)
    BY <1>1, <2>2, TaskFailedSafe DEF IInv, ReqInv, RequestType
  <2> QED BY <2>1, <2>2 DEF Stumble
<1> QED BY <1>2, <1>3, <1>4 DEF IInv

LEMMA RestartSafe ==
    ASSUME IInv, Restart
    PROVE  IInv' /\ TrunkStays
<1>1. /\ faults < MaxFaults /\ faults' = faults + 1
      /\ UNCHANGED <<made, rows, uses, count, asked>>
      /\ req' = [r \in Requests |-> Idle]
  BY DEF Restart
<1>2. CountInv'
  BY <1>1, ConstantsAssumption, SMT DEF IInv, CountInv
<1>3. RowsInv' /\ TrunkStays
  BY <1>1, RowsKept
<1>4. ReqInv'
  BY <1>1, IdleType, SMT DEF ReqInv, RequestOK, SavePcs, CopyPcs
<1> QED BY <1>2, <1>3, <1>4 DEF IInv

-----------------------------------------------------------------------------
(* A request begins. *)

\* Whether it was alone is a matter of no other field.
LEMMA AloneOnly ==
    ASSUME NEW q \in RequestType, NEW b \in BOOLEAN
    PROVE  LET new == [q EXCEPT !.alone = b]
           IN  new \in RequestType /\ Same(new, q) /\ new.pc = q.pc
BY DEF RequestType, Same

LEMMA StartSafe ==
    ASSUME IInv, NEW r \in Requests, NEW new \in RequestType, RequestOK(new), Start(r, new)
    PROVE  IInv' /\ TrunkStays
<1> DEFINE b == (new.a = None \/ \A t \in Requests : ~Writes(t, new.a))
           first == [new EXCEPT !.alone = b]
<1>1. /\ asked < MaxAsked /\ asked' = asked + 1
      /\ UNCHANGED <<made, rows, uses, count, faults>>
  BY DEF Start
<1>2. b \in BOOLEAN OBVIOUS
<1>3. first \in RequestType /\ Same(first, new) /\ first.pc = new.pc
  <2> HIDE DEF b
  <2> QED BY <1>2, AloneOnly
<1>4. ASSUME NEW s \in Requests
      PROVE  \E q \in RequestType : req'[s] = q /\ RequestOK(q)
  <2>1. req[s] \in RequestType /\ RequestOK(req[s])
    BY DEF IInv, ReqInv
  <2> DEFINE other == [req[s] EXCEPT !.alone = FALSE]
  <2>2. other \in RequestType /\ Same(other, req[s]) /\ other.pc = req[s].pc
    BY <2>1, AloneOnly
  <2>3. req'[s] = first \/ req'[s] = other \/ req'[s] = req[s]
    BY Zenon DEF Start
  <2> HIDE DEF first, other
  <2>4. RequestOK(first)
    BY <1>3, SMT DEF RequestOK, Same
  <2>5. RequestOK(other)
    BY <2>1, <2>2, SMT DEF RequestOK, Same
  <2> QED BY <1>3, <2>1, <2>2, <2>3, <2>4, <2>5
<1>5. req' \in [Requests -> RequestType]
  <2>1. \A s \in Requests : req'[s] \in RequestType
    BY <1>4
  <2>2. req' = [s \in Requests |-> req'[s]]
    BY DEF Start
  <2> QED BY <2>1, <2>2
<1>6. ASSUME NEW s \in Requests PROVE RequestOK(req[s])'
  <2>1. PICK q \in RequestType : req'[s] = q /\ RequestOK(q)
    BY <1>4
  <2> QED BY <1>1, <2>1, SMT DEF RequestOK
<1>7. CountInv'
  BY <1>1, ConstantsAssumption, SMT DEF IInv, CountInv
<1>8. RowsInv' /\ TrunkStays
  BY <1>1, RowsKept
<1> QED BY <1>5, <1>6, <1>7, <1>8 DEF IInv, ReqInv

LEMMA ReadType ==
    ASSUME IInv, NEW a \in Analyses
    PROVE  ReadAnalysis(a) \in Tree
<1>1. /\ NoTree \in Tree /\ rows[a] \in Tree /\ "analyzer" \in Parts /\ "params" \in Parts
  BY IdleType, PartsFacts DEF IInv, RowsInv, Trunk
<1>2. rows[a]["analyzer"] \in Row /\ rows[a]["params"] \in Row
  BY <1>1 DEF Tree
<1> QED BY <1>1, <1>2, SMT DEF ReadAnalysis, Tree

LEMMA SaveSafe ==
    ASSUME IInv, NEW r \in Requests, NEW a \in Analyses, NEW f \in Forms, Save(r, a, f)
    PROVE  IInv' /\ TrunkStays
<1> DEFINE t == ReadAnalysis(a)
<1>1. t \in Tree /\ a \in made
  BY ReadType DEF Save
<1>2. PICK pc \in {"find", "analyzer"} :
          Start(r, [Idle EXCEPT !.kind = "save", !.a = a, !.form = f, !.seen = t, !.pc = pc])
  BY DEF Save
<1> HIDE DEF t
<1> DEFINE new == [Idle EXCEPT !.kind = "save", !.a = a, !.form = f, !.seen = t, !.pc = pc]
<1>3. pc \in Pcs
  BY <1>2, SMT DEF Pcs, SavePcs
<1>4. new \in RequestType /\ new.a = a /\ new.form = f /\ new.pc = pc
  BY <1>1, <1>3, IdleType DEF RequestType
<1>5. Start(r, new)
  BY <1>2
<1> HIDE DEF new
<1>6. RequestOK(new)
  BY <1>1, <1>2, <1>4, SMT DEF RequestOK, SavePcs, CopyPcs
<1> QED BY <1>4, <1>5, <1>6, StartSafe

LEMMA SummarySafe ==
    ASSUME IInv, NEW r \in Requests, NEW a \in Analyses, Summary(r, a)
    PROVE  IInv' /\ TrunkStays
<1> DEFINE t == ReadAnalysis(a)
<1>1. /\ t \in Tree /\ a \in made
      /\ Start(r, [Idle EXCEPT !.kind = "summary", !.a = a, !.seen = t, !.pc = "params"])
  BY ReadType DEF Summary
<1> HIDE DEF t
<1> DEFINE new == [Idle EXCEPT !.kind = "summary", !.a = a, !.seen = t, !.pc = "params"]
<1>2. "params" \in Pcs
  BY SMT DEF Pcs
<1>3. new \in RequestType /\ new.a = a /\ new.pc = "params"
  BY <1>1, <1>2, IdleType DEF RequestType
<1>4. Start(r, new)
  BY <1>1
<1> HIDE DEF new
<1>5. RequestOK(new)
  BY <1>1, <1>3, SMT DEF RequestOK, SavePcs, CopyPcs
<1> QED BY <1>3, <1>4, <1>5, StartSafe

LEMMA CreateAnalysisSafe ==
    ASSUME IInv, NEW r \in Requests, CreateAnalysis(r)
    PROVE  IInv' /\ TrunkStays
<1> DEFINE new == [Idle EXCEPT !.kind = "create", !.count = count, !.pc = "newRow"]
<1>1. "newRow" \in Pcs /\ count \in Nat /\ count <= uses
  BY SMT DEF Pcs, IInv, CountInv
<1>2. new \in RequestType /\ new.count = count /\ new.pc = "newRow"
  BY <1>1, IdleType DEF RequestType
<1>3. Start(r, new)
  BY DEF CreateAnalysis
<1> HIDE DEF new
<1>4. RequestOK(new)
  BY <1>1, <1>2, SMT DEF RequestOK, SavePcs, CopyPcs
<1> QED BY <1>2, <1>3, <1>4, StartSafe

LEMMA SaveUsageSafe ==
    ASSUME IInv, NEW r \in Requests, NEW a \in Analyses, SaveUsage(r, a)
    PROVE  IInv' /\ TrunkStays
<1> DEFINE new == [Idle EXCEPT !.kind = "use", !.a = a, !.count = count, !.pc = "usage"]
<1>1. "usage" \in Pcs /\ count \in Nat /\ count <= uses /\ a \in made
  BY SMT DEF Pcs, IInv, CountInv, SaveUsage
<1>2. new \in RequestType /\ new.count = count /\ new.pc = "usage" /\ new.a = a
  BY <1>1, IdleType DEF RequestType
<1>3. Start(r, new)
  BY DEF SaveUsage
<1> HIDE DEF new
<1>4. RequestOK(new)
  BY <1>1, <1>2, SMT DEF RequestOK, SavePcs, CopyPcs
<1> QED BY <1>2, <1>3, <1>4, StartSafe

LEMMA DuplicateAnalysisSafe ==
    ASSUME IInv, NEW r \in Requests, NEW src \in Analyses, DuplicateAnalysis(r, src)
    PROVE  IInv' /\ TrunkStays
<1> DEFINE t == With(Idle.seen, "analyzer", rows[src]["analyzer"])
<1>1. Start(r, [Idle EXCEPT !.kind = "copy", !.src = src, !.pc = "copyRow", !.seen = t])
  BY DEF DuplicateAnalysis
<1>2. t \in Tree
  <2>1. Idle.seen \in Tree
    BY IdleType DEF RequestType
  <2>2. "analyzer" \in Parts
    BY PartsFacts DEF Trunk
  <2>3. rows[src]["analyzer"] \in Row
    BY <2>2 DEF IInv, RowsInv, Tree
  <2> QED BY <2>1, <2>2, <2>3, WithType
<1> HIDE DEF t
<1> DEFINE new == [Idle EXCEPT !.kind = "copy", !.src = src, !.pc = "copyRow", !.seen = t]
<1>3. "copyRow" \in Pcs
  BY SMT DEF Pcs, CopyPcs
<1>4. new \in RequestType /\ new.src = src /\ new.pc = "copyRow"
  BY <1>2, <1>3, IdleType DEF RequestType
<1>5. Start(r, new)
  BY <1>1
<1> HIDE DEF new
<1>6. RequestOK(new)
  BY <1>4, SMT DEF RequestOK, SavePcs, CopyPcs
<1> QED BY <1>4, <1>5, <1>6, StartSafe

-----------------------------------------------------------------------------
(* The theorems. *)

LEMMA InitSafe ==
    ASSUME Init
    PROVE  IInv
<1>1. RowsInv
  BY IdleType, SMT DEF Init, RowsInv, Rooted, Has, Tree, NoTree, NoRow
<1>2. ReqInv
  BY IdleType, SMT DEF Init, ReqInv, RequestOK, SavePcs, CopyPcs
<1>3. Cardinality(Existing) \in Nat
  BY ConstantsAssumption, FS_CardinalityType
<1>4. CountInv
  BY <1>3, ConstantsAssumption, SMT DEF Init, CountInv
<1> QED BY <1>1, <1>2, <1>4 DEF IInv

LEMMA StepSafe ==
    ASSUME IInv, Next
    PROVE  IInv' /\ TrunkStays
<1>1. CASE Restart
  BY <1>1, RestartSafe
<1>2. CASE \E r \in Requests : SaveStep(r)
  BY <1>2, SaveSafe, CreateRAnalyzerSafe, FindBuilderSafe, CreateABuilderSafe,
     DeletePDetailsUnitsSafe, CreatePDetailsUnitsSafe, UpdatePDetailsSafe, CreatePDetailsSafe,
     CleanUpSafe, CreateADetailsSafe, DeleteAdItemizedSafe, UpdateADetailsSafe,
     UpdateAdItemizedSafe, CreateAdItemizedSafe, CreateRepairsSafe, ReconcileRepairsSafe,
     FinishRepairsSafe, WriteRepairItemSafe, UpsertFExpensesSafe, AnswerSafe, FinishSafe
     DEF SaveStep
<1>3. CASE \E r \in Requests : OtherStep(r)
  BY <1>3, SummarySafe, SaveUsageSafe, DuplicateAnalysisSafe, UpsertRParamSafe,
     CreateAnalysisSafe, InsertAnalysisSafe, CreateAUsageSafe, UpdateUsageCountSafe,
     CreateModuleEntitySafe, GetExistingBuilderSafe, CopyBuilderSafe, ClonedSafe, ClonePartSafe
     DEF OtherStep
<1>4. CASE \E r \in Requests : Stumble(r)
  BY <1>4, StumbleSafe
<1> QED BY <1>1, <1>2, <1>3, <1>4 DEF Next

LEMMA StutterSafe ==
    ASSUME IInv, UNCHANGED vars
    PROVE  IInv' /\ TrunkStays
BY DEF vars, IInv, RowsInv, Rooted, ReqInv, RequestOK, CountInv, TrunkStays

\* Every variable keeps its type and no row hangs from one that is gone, whatever
\* the number of analyses, requests and forms and whichever statements fail.
THEOREM TypeCorrect == Spec => []TypeOK
<1>1. Init => IInv
  BY InitSafe
<1>2. IInv /\ [Next]_vars => IInv'
  BY StepSafe, StutterSafe
<1>3. IInv => TypeOK
  BY DEF IInv, RowsInv, Rooted, ReqInv, CountInv, TypeOK
<1> QED
  BY <1>1, <1>2, <1>3, PTL DEF Spec

\* The usage count shown for the module never exceeds the usages recorded.
THEOREM CountSafe == Spec => []CountBacked
<1>1. Init => IInv
  BY InitSafe
<1>2. IInv /\ [Next]_vars => IInv'
  BY StepSafe, StutterSafe
<1>3. IInv => CountBacked
  BY DEF IInv, CountInv, CountBacked
<1> QED
  BY <1>1, <1>2, <1>3, PTL DEF Spec

\* No clean-up of a failed save takes away the rows that stored units hang from.
THEOREM TrunkSafe == Spec => SavedStays
<1>1. Init => IInv
  BY InitSafe
<1>2. IInv /\ [Next]_vars => IInv'
  BY StepSafe, StutterSafe
<1>3. IInv /\ [Next]_vars
        => [\A a \in Analyses :
               Has(rows[a], "units")
                   => \A p \in {"analyzer", "builder", "pd"} : rows'[a][p].id = rows[a][p].id]_vars
  BY StepSafe DEF TrunkStays, Trunk
<1> QED
  BY <1>1, <1>2, <1>3, PTL DEF Spec, SavedStays

-----------------------------------------------------------------------------
(* Requests that have an analysis to themselves: what they have stored.    *)

\* The requests that write the rows of an analysis.
Writing(q) == q.kind \in {"save", "copy"}

Kinded(q) ==
    /\ q.pc \in SavePcs => q.kind = "save"
    /\ q.pc \in CopyPcs => q.kind = "copy"
    /\ Writing(q) => q.pc \in SavePcs \cup CopyPcs \cup {"done"}
    /\ q.pc = "copyRow" => q.a = None

\* No other request writes the analysis of one that is alone.
Apart ==
    \A r, s \in Requests :
        Writing(req[r]) /\ Writing(req[s]) /\ req[r].alone /\ req[r].a # None /\ req[s].a = req[r].a
            => r = s

\* A row that is not there says nothing.
Blank(tree) == \A p \in Parts : ~Has(tree, p) => tree[p] = NoRow

\* What the ids a request holds say of the way it took.
Knows(q) ==
    /\ q.pc \in {"unitsOut", "unitsIn", "pdWrite"} => Has(q.own, "pd")
    /\ q.pc \in {"adWrite", "item"} => Has(q.seen, "ad")
    /\ q.pc = "item" => Has(q.seen, "item")
    /\ q.pc = "kinds" => Has(q.seen, "rep")
    /\ q.pc \in {"copyBuilder", "copyParts"} => Blank(q.seen)

PastItem == {"rep", "newKinds", "kinds", "fe", "answer"}
PastAd == {"item", "newItem"} \cup PastItem
PastPd == {"ad", "adWrite"} \cup PastAd

\* What a save has stored of its form when it comes to a step.
Stored(q, tree) ==
    /\ q.pc \in {"pdWrite"} \cup PastPd /\ q.form.units => Has(tree, "units")
    /\ q.pc \in {"newUnits"} \cup PastPd => Has(tree, "pd")
    /\ q.pc \in PastAd => Has(tree, "ad")
    /\ q.pc \in PastItem /\ q.form.items => Has(tree, "item")
    /\ q.pc \in {"newKinds", "fe", "answer"} => Has(tree, "rep")
    /\ q.pc \in {"newKinds", "kinds"} =>
           \A k \in q.form.kinds : k \in q.todo \/ q.failed \/ Has(tree, k)
    /\ q.pc \in {"fe", "answer"} => \A k \in q.form.kinds : Has(tree, k)
    /\ q.pc = "answer" => Has(tree, "fe")
    /\ q.pc = "done" => \A p \in Wanted(q.form) : Has(q.own, p)

Matches(tree, seen, p) == Has(tree, p) = Has(seen, p) /\ tree[p].of = seen[p].of

\* What a copy has made of what it read.
Copied(q, tree) ==
    /\ q.pc \in {"copyEntity", "copyFind", "copyBuilder"} => \A p \in CopyParts : ~Has(tree, p)
    /\ q.pc = "copyParts" =>
           \A p \in CopyParts : IF p \in q.todo THEN Has(q.seen, p)
                                ELSE q.failed \/ Matches(tree, q.seen, p)
    /\ q.pc \in {"copyUsage", "done"} => \A p \in CopyParts : Matches(tree, q.seen, p)

Claims(q, tree) == /\ q.kind = "save" => Stored(q, tree)
                   /\ q.kind = "copy" => Copied(q, tree)

WholeInv ==
    /\ \A a \in Analyses : Blank(rows[a])
    /\ \A r \in Requests : Kinded(req[r]) /\ Knows(req[r])
    /\ Apart
    /\ \A r \in Requests : req[r].alone => Claims(req[r], rows[req[r].a])

\* A step of r that keeps to the analysis it writes, parameters apart.
Keeps(r) ==
    \A b \in Analyses, p \in Parts \ {"params"} :
        rows'[b][p] # rows[b][p] => Writing(req[r]) /\ b = req[r].a

LEMMA CopyPartsFacts ==
    /\ CopyParts \subseteq Parts \ {"analyzer", "builder", "params"}
    /\ Kinds \subseteq Parts \ {"params"}
    /\ {"units", "pd", "ad", "item", "rep", "fe"} \subseteq Parts \ {"params"}
BY PartsFacts, SMT DEF CopyParts, Trunk

\* Who writes has an analysis, or is a copy about to make one.
LEMMA WriterMade ==
    ASSUME IInv, WholeInv, NEW s \in Requests, Writing(req[s])
    PROVE  (req[s].a \in made /\ req[s].a \in Analyses) \/ (req[s].pc = "copyRow" /\ req[s].a = None)
<1>1. req[s].pc \in SavePcs \cup CopyPcs \cup {"done"} /\ (req[s].pc = "copyRow" => req[s].a = None)
  BY DEF WholeInv, Kinded
<1>2. req[s].pc \notin {"idle", "newRow"}
  BY <1>1, SMT DEF SavePcs, CopyPcs
<1>3. req[s].pc # "copyRow" => req[s].a \in made /\ made \subseteq Analyses
  BY <1>2 DEF IInv, ReqInv, RequestOK, CountInv
<1> QED BY <1>1, <1>3

\* The claims do not rest on the parameters.
LEMMA ClaimsFrame ==
    ASSUME NEW q, q.pc \in SavePcs => q.form \in Forms, NEW t, NEW u, Claims(q, t),
           \A p \in Parts \ {"params"} : u[p] = t[p]
    PROVE  Claims(q, u)
<1>1. q.pc \in SavePcs => q.form.kinds \subseteq Parts \ {"params"}
  BY ConstantsAssumption, CopyPartsFacts DEF FormType
<1>2. {"newKinds", "kinds", "fe", "answer"} \subseteq SavePcs
  BY SMT DEF SavePcs
<1>3. ASSUME Stored(q, t) PROVE Stored(q, u)
  <2>1. /\ u["units"] = t["units"] /\ u["pd"] = t["pd"] /\ u["ad"] = t["ad"] /\ u["item"] = t["item"]
        /\ u["rep"] = t["rep"] /\ u["fe"] = t["fe"]
    BY CopyPartsFacts
  <2>2. q.pc \in {"newKinds", "kinds", "fe", "answer"} => \A k \in q.form.kinds : u[k] = t[k]
    BY <1>1, <1>2
  <2> QED BY <1>3, <2>1, <2>2 DEF Stored, Has
<1>4. ASSUME Copied(q, t) PROVE Copied(q, u)
  <2>1. \A p \in CopyParts : u[p] = t[p]
    BY CopyPartsFacts
  <2> QED BY <1>4, <2>1 DEF Copied, Matches, Has
<1> QED BY <1>3, <1>4 DEF Claims

\* What a step of r leaves of another request.
LEMMA OthersCarry ==
    ASSUME IInv, WholeInv, NEW r \in Requests, Keeps(r), NEW s \in Requests, s # r, req'[s] = req[s]
    PROVE  /\ Kinded(req'[s]) /\ Knows(req'[s])
           /\ req'[s].alone => Claims(req'[s], rows'[req'[s].a])
<1>1. Kinded(req'[s]) /\ Knows(req'[s])
  BY DEF WholeInv
<1>2. ASSUME req[s].alone PROVE Claims(req[s], rows'[req[s].a])
  <2>1. Claims(req[s], rows[req[s].a])
    BY <1>2 DEF WholeInv
  <2>2. CASE ~Writing(req[s])
    BY <2>2 DEF Claims, Writing
  <2>3. CASE Writing(req[s]) /\ req[s].pc = "copyRow"
    <3>1. req[s].kind = "copy"
      BY <2>3 DEF WholeInv, Kinded, CopyPcs
    <3> QED BY <2>3, <3>1 DEF Claims, Copied
  <2>4. CASE Writing(req[s]) /\ req[s].a \in Analyses
    <3>1. req[s].a # None
      BY <2>4, ConstantsAssumption
    <3>2. ~(Writing(req[r]) /\ req[r].a = req[s].a)
      BY <1>2, <2>4, <3>1 DEF WholeInv, Apart
    <3>3. \A p \in Parts \ {"params"} : rows'[req[s].a][p] = rows[req[s].a][p]
      BY <2>4, <3>2 DEF Keeps
    <3>4. req[s].pc \in SavePcs => req[s].form \in Forms
      BY DEF IInv, ReqInv, RequestOK
    <3> QED BY <2>1, <3>3, <3>4, ClaimsFrame
  <2> QED BY <2>2, <2>3, <2>4, WriterMade
<1> QED BY <1>1, <1>2

LEMMA Carries ==
    ASSUME IInv, WholeInv, NEW r \in Requests, NEW new, Now(r, new), Keeps(r),
           \A b \in Analyses : Blank(rows'[b]),
           new.kind = req[r].kind, new.alone = req[r].alone,
           new.a = req[r].a \/ new.a \in Analyses \ made,
           Kinded(new), Knows(new), new.alone => Claims(new, rows'[new.a])
    PROVE  WholeInv'
<1>1. req'[r] = new /\ \A s \in Requests : s # r => req'[s] = req[s]
  BY DEF Now, IInv, ReqInv
<1>2. Apart'
  <2> SUFFICES ASSUME NEW p \in Requests, NEW s \in Requests, Writing(req'[p]), Writing(req'[s]),
                      req'[p].alone, req'[p].a # None, req'[s].a = req'[p].a, p # s
               PROVE  FALSE
    BY DEF Apart, Writing
  <2>1. Writing(req[p]) /\ Writing(req[s]) /\ req[p].alone
    BY <1>1 DEF Writing
  <2>2. CASE new.a = req[r].a
    BY <1>1, <2>1, <2>2 DEF WholeInv, Apart
  <2>3. CASE new.a \in Analyses \ made
    <3>1. \A z \in Requests : Writing(req[z]) => req[z].a \in made \/ req[z].a = None
      BY WriterMade
    <3>2. p # r /\ s # r
      BY <1>1, <2>1, <2>3, <3>1, ConstantsAssumption
    <3> QED BY <1>1, <2>1, <3>2 DEF WholeInv, Apart
  <2> QED BY <2>2, <2>3
<1>3. ASSUME NEW s \in Requests
      PROVE  /\ Kinded(req'[s]) /\ Knows(req'[s])
             /\ req'[s].alone => Claims(req'[s], rows'[req'[s].a])
  BY <1>1, OthersCarry
<1> QED BY <1>2, <1>3 DEF WholeInv

LEMMA IdleWhole ==
    Kinded(Idle) /\ Knows(Idle) /\ ~Writing(Idle) /\ \A t : Claims(Idle, t)
BY SMT DEF Idle, Kinded, Knows, Writing, Claims, SavePcs, CopyPcs

LEMMA EndCarries ==
    ASSUME IInv, WholeInv, NEW r \in Requests, End(r), Keeps(r), \A b \in Analyses : Blank(rows'[b])
    PROVE  WholeInv'
<1>1. req'[r] = Idle /\ \A s \in Requests : s # r => req'[s] = req[s]
  BY DEF End, Now, IInv, ReqInv
<1>2. Apart'
  <2> SUFFICES ASSUME NEW p \in Requests, NEW s \in Requests, Writing(req'[p]), Writing(req'[s]),
                      req'[p].alone, req'[p].a # None, req'[s].a = req'[p].a
               PROVE  p = s
    BY DEF Apart, Writing
  <2>1. p # r /\ s # r
    BY <1>1, IdleWhole
  <2> QED BY <1>1, <2>1 DEF WholeInv, Apart
<1>3. ASSUME NEW s \in Requests
      PROVE  /\ Kinded(req'[s]) /\ Knows(req'[s])
             /\ req'[s].alone => Claims(req'[s], rows'[req'[s].a])
  BY <1>1, OthersCarry, IdleWhole
<1> QED BY <1>2, <1>3 DEF WholeInv

-----------------------------------------------------------------------------
(* What a statement makes of the rows. *)

LEMMA SameRows ==
    ASSUME WholeInv, NEW r \in Requests, UNCHANGED rows
    PROVE  Keeps(r) /\ \A b \in Analyses : Blank(rows'[b])
BY DEF Keeps, WholeInv

LEMMA PutRows ==
    ASSUME RowsInv, WholeInv, NEW r \in Requests, NEW a \in Analyses, NEW p \in Parts, NEW row,
           Put(a, p, row), row.id # 0, p = "params" \/ (Writing(req[r]) /\ req[r].a = a)
    PROVE  /\ Keeps(r) /\ \A b \in Analyses : Blank(rows'[b])
           /\ \A q \in Parts : rows'[a][q] = IF q = p THEN row ELSE rows[a][q]
<1>1. \A b \in Analyses, q \in Parts : rows'[b][q] = IF b = a /\ q = p THEN row ELSE rows[b][q]
  BY SMT DEF RowsInv, Tree, Put
<1>2. Keeps(r)
  BY <1>1 DEF Keeps
<1>3. \A b \in Analyses : Blank(rows'[b])
  BY <1>1 DEF Blank, Has, WholeInv
<1> QED BY <1>1, <1>2, <1>3

LEMMA RewriteRows ==
    ASSUME RowsInv, WholeInv, NEW r \in Requests, NEW a \in Analyses, NEW p \in Parts, NEW f,
           Rewrite(a, p, f), Has(rows[a], p), Writing(req[r]) /\ req[r].a = a
    PROVE  /\ Keeps(r) /\ \A b \in Analyses : Blank(rows'[b])
           /\ \A q \in Parts : Has(rows'[a], q) = Has(rows[a], q)
<1>1. PICK row : row = [id |-> rows[a][p].id, of |-> f]
  OBVIOUS
<1>2. Put(a, p, row) /\ row.id = rows[a][p].id /\ row.id # 0
  BY <1>1 DEF Rewrite, Has
<1> QED BY <1>2, PutRows DEF Has

LEMMA RemoveRows ==
    ASSUME RowsInv, WholeInv, NEW r \in Requests, NEW a \in Analyses, NEW gone,
           Remove(a, gone), Writing(req[r]) /\ req[r].a = a
    PROVE  /\ Keeps(r) /\ \A b \in Analyses : Blank(rows'[b])
           /\ \A q \in Parts : rows'[a][q] = IF q \in gone THEN NoRow ELSE rows[a][q]
<1>1. \A b \in Analyses, q \in Parts :
          rows'[b][q] = IF b = a /\ q \in gone THEN NoRow ELSE rows[b][q]
  BY SMT DEF RowsInv, Tree, Remove
<1>2. Keeps(r)
  BY <1>1 DEF Keeps
<1>3. \A b \in Analyses : Blank(rows'[b])
  BY <1>1 DEF Blank, Has, WholeInv
<1> QED BY <1>1, <1>2, <1>3

-----------------------------------------------------------------------------
(* The steps of a save. *)

LEMMA SaveFacts ==
    ASSUME IInv, WholeInv, NEW r \in Requests, req[r].pc \in SavePcs
    PROVE  /\ req[r].kind = "save" /\ Writing(req[r])
           /\ req[r] \in RequestType /\ RowsInv /\ rows[req[r].a] \in Tree
           /\ req[r].a \in Analyses /\ req[r].a \in made
           /\ req[r].form \in Forms /\ req[r].form \in FormType
           /\ req[r].seen \in Tree /\ req[r].own \in Tree
           /\ Knows(req[r])
           /\ req[r].alone => Stored(req[r], rows[req[r].a])
<1>1. req[r].kind = "save" /\ Knows(req[r]) /\ (req[r].alone => Claims(req[r], rows[req[r].a]))
  BY DEF WholeInv, Kinded
<1>2. req[r].pc \notin {"idle", "newRow", "copyRow"}
  BY SMT DEF SavePcs
<1>3. rows[req[r].a] \in Tree
  BY <1>2, ReqFacts DEF RowsInv
<1> QED BY <1>1, <1>2, <1>3, ReqFacts, ConstantsAssumption DEF Writing, Claims

\* A save goes on.
LEMMA SaveCarries ==
    ASSUME IInv, WholeInv, NEW r \in Requests, req[r].pc \in SavePcs, NEW new, Now(r, new), Keeps(r),
           \A b \in Analyses : Blank(rows'[b]),
           new.kind = "save", new.alone = req[r].alone, new.a = req[r].a,
           new.pc \in SavePcs \cup {"done"}, Knows(new),
           req[r].alone => Stored(new, rows'[req[r].a])
    PROVE  WholeInv'
<1>1. Kinded(new)
  BY SMT DEF Kinded, Writing, SavePcs, CopyPcs
<1>2. new.alone => Claims(new, rows'[new.a])
  BY DEF Claims
<1> QED BY <1>1, <1>2, SaveFacts, Carries

\* Only the step changes.
LEMMA SaveGoes ==
    ASSUME IInv, WholeInv, NEW r \in Requests, req[r].pc \in SavePcs, NEW pc \in SavePcs, Go(r, pc), Keeps(r),
           \A b \in Analyses : Blank(rows'[b]),
           \A new : /\ new.pc = pc /\ new.form = req[r].form /\ new.seen = req[r].seen
                    /\ new.own = req[r].own /\ new.todo = req[r].todo /\ new.failed = req[r].failed
                    => Knows(new) /\ (req[r].alone => Stored(new, rows'[req[r].a]))
    PROVE  WholeInv'
<1>1. PICK new : new = [req[r] EXCEPT !.pc = pc]
  OBVIOUS
<1>2. req[r] \in RequestType
  BY SaveFacts
<1>3. /\ new.pc = pc /\ new.form = req[r].form /\ new.seen = req[r].seen /\ new.own = req[r].own
      /\ new.todo = req[r].todo /\ new.failed = req[r].failed
      /\ new.kind = req[r].kind /\ new.alone = req[r].alone /\ new.a = req[r].a
  BY <1>1, <1>2 DEF RequestType
<1>4. Now(r, new) /\ new.kind = "save"
  BY <1>1, <1>3, SaveFacts DEF Go
<1>5. Knows(new) /\ (req[r].alone => Stored(new, rows'[req[r].a]))
  BY <1>3
<1> QED BY <1>3, <1>4, <1>5, SaveCarries

LEMMA DropIn == {"dropAnalyzer", "dropBuilder", "dropPd", "dropAd"} \subseteq SavePcs
BY SMT DEF SavePcs

\* A clean-up claims nothing.
LEMMA DropsCarry ==
    ASSUME IInv, WholeInv, NEW r \in Requests, req[r].pc \in SavePcs, Keeps(r),
           \A b \in Analyses : Blank(rows'[b]),
           NEW pc \in {"dropAnalyzer", "dropBuilder", "dropPd", "dropAd"}, Go(r, pc)
    PROVE  WholeInv'
<1>1. ASSUME NEW new, new.pc = pc PROVE Knows(new) /\ \A t : Stored(new, t)
  BY <1>1, SMT DEF Knows, Stored, PastPd, PastAd, PastItem
<1>2. pc \in SavePcs
  BY DropIn
<1> QED BY <1>1, <1>2, SaveGoes

LEMMA FailsCarry ==
    ASSUME IInv, WholeInv, NEW r \in Requests, Fails(r), UNCHANGED rows
    PROVE  WholeInv'
<1>1. Keeps(r) /\ \A b \in Analyses : Blank(rows'[b])
  BY SameRows
<1>2. CASE End(r)
  BY <1>1, <1>2, EndCarries
<1>3. CASE ~End(r)
  <2>1. Go(r, Handler(req[r].pc)) /\ Handler(req[r].pc) # "idle"
    BY <1>3 DEF Fails
  <2>2. PICK pc : pc = Handler(req[r].pc)
    OBVIOUS
  <2>3. /\ req[r].pc \in {"find", "make", "again", "makeAgain", "newPd", "newUnits", "newItem"}
        /\ pc \in {"dropAnalyzer", "dropBuilder", "dropPd", "dropAd"}
    BY <2>1, <2>2, SMT DEF Handler
  <2>4. req[r].pc \in SavePcs
    BY <2>3, SMT DEF SavePcs
  <2> QED BY <1>1, <2>1, <2>2, <2>3, <2>4, DropsCarry
<1> QED BY <1>2, <1>3

LEMMA TaskFailedCarry ==
    ASSUME IInv, WholeInv, NEW r \in Requests, NEW p, TaskFailed(r, p), UNCHANGED rows
    PROVE  WholeInv'
<1>1. Keeps(r) /\ \A b \in Analyses : Blank(rows'[b])
  BY SameRows
<1>2. PICK rest : rest = req[r].todo \ ({p} \cup Below(p))
  OBVIOUS
<1>3. PICK new : new = [req[r] EXCEPT !.todo = rest, !.failed = TRUE]
  OBVIOUS
<1>4. req[r] \in RequestType /\ Kinded(req[r]) /\ Knows(req[r])
      /\ (req[r].alone => Claims(req[r], rows[req[r].a]))
  BY DEF IInv, ReqInv, WholeInv
<1>5. /\ new.pc = req[r].pc /\ new.form = req[r].form /\ new.seen = req[r].seen /\ new.own = req[r].own
      /\ new.todo = rest /\ new.failed
      /\ new.kind = req[r].kind /\ new.alone = req[r].alone /\ new.a = req[r].a
  BY <1>3, <1>4 DEF RequestType
<1>6. Now(r, new)
  BY <1>2, <1>3 DEF TaskFailed
<1>7. Kinded(new) /\ Knows(new)
  BY <1>4, <1>5 DEF Kinded, Knows, Writing
<1>8. ASSUME NEW t, Claims(req[r], t) PROVE Claims(new, t)
  <2>1. Stored(req[r], t) => Stored(new, t)
    BY <1>5 DEF Stored
  <2>2. Copied(req[r], t) => Copied(new, t)
    BY <1>2, <1>5 DEF Copied
  <2> QED BY <1>5, <1>8, <2>1, <2>2 DEF Claims
<1>9. new.alone => Claims(new, rows'[new.a])
  BY <1>4, <1>5, <1>8
<1> QED BY <1>1, <1>5, <1>6, <1>7, <1>9, Carries

LEMMA CreateRAnalyzerCarry ==
    ASSUME IInv, WholeInv, NEW r \in Requests, CreateRAnalyzer(r)
    PROVE  WholeInv'
<1>0. req[r].pc = "analyzer"
  BY DEF CreateRAnalyzer
<1>1. req[r].pc = "analyzer" /\ req[r].pc \in SavePcs /\ "find" \in SavePcs
  BY <1>0, SMT DEF SavePcs
<1>2. CASE End(r) /\ UNCHANGED rows
  BY <1>2, EndCarries, SameRows
<1>3. CASE CanInsert(req[r].a, "analyzer", 0)
  <2>1. PICK row \in NewRows(req[r].a, "analyzer", None) :
            /\ Put(req[r].a, "analyzer", row)
            /\ Now(r, [req[r] EXCEPT !.seen = With(req[r].seen, "analyzer", row), !.pc = "find"])
    BY <1>3 DEF CreateRAnalyzer
  <2>2. row.id # 0 /\ "analyzer" \in Parts
    BY <1>1, SaveFacts, NewRowType, PartsFacts DEF Trunk
  <2>3. Keeps(r) /\ \A b \in Analyses : Blank(rows'[b])
    BY <1>1, <2>1, <2>2, SaveFacts, PutRows
  <2>4. PICK seen : seen = With(req[r].seen, "analyzer", row)
    OBVIOUS
  <2>5. PICK new : new = [req[r] EXCEPT !.seen = seen, !.pc = "find"]
    OBVIOUS
  <2>6. new.pc = "find" /\ new.kind = "save" /\ new.alone = req[r].alone /\ new.a = req[r].a
    BY <1>1, <2>5, SaveFacts DEF RequestType
  <2>7. Knows(new) /\ \A t : Stored(new, t)
    BY <2>6, SMT DEF Knows, Stored, PastPd, PastAd, PastItem
  <2> QED BY <1>1, <2>1, <2>3, <2>4, <2>5, <2>6, <2>7, SaveCarries
<1> QED BY <1>2, <1>3 DEF CreateRAnalyzer

\* The fields of a request that its steps leave alone.
Alike(new, q) == new.kind = q.kind /\ new.alone = q.alone /\ new.a = q.a /\ new.form = q.form

\* The steps before anything of the form is stored: they claim nothing.
Early == {"find", "make", "again", "makeAgain", "newPd"}

LEMMA EarlyCarries ==
    ASSUME IInv, WholeInv, NEW r \in Requests, req[r].pc \in SavePcs, NEW new, Now(r, new), Keeps(r),
           \A b \in Analyses : Blank(rows'[b]),
           Alike(new, req[r]),
           new.pc \in Early \/ (new.pc \in {"unitsOut", "unitsIn"} /\ Has(new.own, "pd"))
    PROVE  WholeInv'
<1>1. new.pc \in Early \cup {"unitsOut", "unitsIn"}
  OBVIOUS
<1>2. Knows(new)
  BY SMT DEF Knows, Early
<1>3. \A t : Stored(new, t)
  BY <1>1, SMT DEF Stored, Early, PastPd, PastAd, PastItem
<1>4. new.pc \in SavePcs
  BY <1>1, SMT DEF Early, SavePcs
<1>5. new.kind = "save" /\ new.alone = req[r].alone /\ new.a = req[r].a
  BY SaveFacts DEF Alike
<1> QED BY <1>2, <1>3, <1>4, <1>5, SaveCarries

\* An insertion of a save: the part is there, and those that were there still are.
LEMMA InsertRows ==
    ASSUME IInv, WholeInv, NEW r \in Requests, req[r].pc \in SavePcs, NEW p \in Parts,
           NEW f \in Forms \cup {None}, NEW row \in NewRows(req[r].a, p, f), Put(req[r].a, p, row)
    PROVE  /\ Keeps(r) /\ \A b \in Analyses : Blank(rows'[b])
           /\ row.id # 0 /\ Has(rows'[req[r].a], p)
           /\ \A q \in Parts : Has(rows[req[r].a], q) => Has(rows'[req[r].a], q)
<1>1. row.id # 0
  BY SaveFacts, NewRowType
<1>2. /\ Keeps(r) /\ \A b \in Analyses : Blank(rows'[b])
      /\ \A q \in Parts : rows'[req[r].a][q] = IF q = p THEN row ELSE rows[req[r].a][q]
  BY <1>1, SaveFacts, PutRows
<1> QED BY <1>1, <1>2 DEF Has

LEMMA FindBuilderCarry ==
    ASSUME IInv, WholeInv, NEW r \in Requests, FindBuilder(r)
    PROVE  WholeInv'
<1>1. req[r].pc \in {"find", "again"} /\ UNCHANGED rows
  BY DEF FindBuilder
<1>2. req[r].pc \in SavePcs
  BY <1>1, SMT DEF SavePcs
<1>3. Keeps(r) /\ \A b \in Analyses : Blank(rows'[b])
  BY <1>1, SameRows
<1>4. req[r] \in RequestType
  BY <1>2, SaveFacts
<1>5. PICK tree : tree = rows[req[r].a]
  OBVIOUS
<1>6. \/ Now(r, [req[r] EXCEPT !.seen = tree, !.pc = "again"])
      \/ Now(r, [req[r] EXCEPT !.pc = "make"]) \/ Now(r, [req[r] EXCEPT !.pc = "makeAgain"])
      \/ Now(r, [req[r] EXCEPT !.own = tree, !.pc = "newPd"])
      \/ Has(tree, "pd") /\ Now(r, [req[r] EXCEPT !.own = tree, !.pc = "unitsOut"])
  BY <1>5 DEF FindBuilder, Go
<1>7. ASSUME NEW new, Now(r, new),
             \/ new = [req[r] EXCEPT !.seen = tree, !.pc = "again"]
             \/ new = [req[r] EXCEPT !.pc = "make"]
             \/ new = [req[r] EXCEPT !.pc = "makeAgain"]
             \/ new = [req[r] EXCEPT !.own = tree, !.pc = "newPd"]
             \/ Has(tree, "pd") /\ new = [req[r] EXCEPT !.own = tree, !.pc = "unitsOut"]
      PROVE  WholeInv'
  <2>1. Alike(new, req[r]) /\ (new.pc \in Early \/ (new.pc = "unitsOut" /\ Has(new.own, "pd")))
    <3>1. CASE new = [req[r] EXCEPT !.seen = tree, !.pc = "again"]
      BY <1>4, <3>1 DEF RequestType, Alike, Early
    <3>2. CASE new = [req[r] EXCEPT !.pc = "make"]
      BY <1>4, <3>2 DEF RequestType, Alike, Early
    <3>3. CASE new = [req[r] EXCEPT !.pc = "makeAgain"]
      BY <1>4, <3>3 DEF RequestType, Alike, Early
    <3>4. CASE new = [req[r] EXCEPT !.own = tree, !.pc = "newPd"]
      BY <1>4, <3>4 DEF RequestType, Alike, Early
    <3>5. CASE Has(tree, "pd") /\ new = [req[r] EXCEPT !.own = tree, !.pc = "unitsOut"]
      BY <1>4, <3>5 DEF RequestType, Alike
    <3> QED BY <1>7, <3>1, <3>2, <3>3, <3>4, <3>5
  <2> QED BY <1>2, <1>3, <1>7, <2>1, EarlyCarries
<1> QED BY <1>6, <1>7

LEMMA CreateABuilderCarry ==
    ASSUME IInv, WholeInv, NEW r \in Requests, CreateABuilder(r)
    PROVE  WholeInv'
<1>1. req[r].pc \in {"make", "makeAgain"}
  BY DEF CreateABuilder
<1>2. req[r].pc \in SavePcs
  BY <1>1, SMT DEF SavePcs
<1>3. CASE Fails(r) /\ UNCHANGED rows
  BY <1>3, FailsCarry
<1>4. CASE CanInsert(req[r].a, "builder", req[r].seen["analyzer"].id)
  <2>1. PICK row \in NewRows(req[r].a, "builder", None) :
            /\ Put(req[r].a, "builder", row)
            /\ \/ Now(r, [req[r] EXCEPT !.seen = With(req[r].seen, "builder", row), !.pc = "again"])
               \/ Now(r, [req[r] EXCEPT !.own = With(req[r].own, "builder", row), !.pc = "newPd"])
    BY <1>4 DEF CreateABuilder
  <2>2. "builder" \in Parts
    BY PartsFacts DEF Trunk
  <2>3. Keeps(r) /\ \A b \in Analyses : Blank(rows'[b])
    BY <1>2, <2>1, <2>2, InsertRows
  <2>4. PICK t : t = With(req[r].seen, "builder", row)
    OBVIOUS
  <2>5. PICK u : u = With(req[r].own, "builder", row)
    OBVIOUS
  <2>6. req[r] \in RequestType
    BY <1>2, SaveFacts
  <2>7. ASSUME NEW new, Now(r, new),
               \/ new = [req[r] EXCEPT !.seen = t, !.pc = "again"]
               \/ new = [req[r] EXCEPT !.own = u, !.pc = "newPd"]
        PROVE  WholeInv'
    <3>1. Alike(new, req[r]) /\ new.pc \in Early
      <4>1. CASE new = [req[r] EXCEPT !.seen = t, !.pc = "again"]
        BY <2>6, <4>1 DEF RequestType, Alike, Early
      <4>2. CASE new = [req[r] EXCEPT !.own = u, !.pc = "newPd"]
        BY <2>6, <4>2 DEF RequestType, Alike, Early
      <4> QED BY <2>7, <4>1, <4>2
    <3> QED BY <1>2, <2>3, <2>7, <3>1, EarlyCarries
  <2> QED BY <2>1, <2>4, <2>5, <2>7
<1> QED BY <1>3, <1>4 DEF CreateABuilder

LEMMA DeletePDetailsUnitsCarry ==
    ASSUME IInv, WholeInv, NEW r \in Requests, DeletePDetailsUnits(r)
    PROVE  WholeInv'
<1>1. req[r].pc = "unitsOut"
  BY DEF DeletePDetailsUnits
<1>2. req[r].pc \in SavePcs /\ "unitsIn" \in SavePcs /\ "pdWrite" \in SavePcs
  BY <1>1, SMT DEF SavePcs
<1>3. CASE End(r) /\ UNCHANGED rows
  BY <1>3, EndCarries, SameRows
<1>4. CASE Remove(req[r].a, {"units"})
  <2>1. Keeps(r) /\ \A b \in Analyses : Blank(rows'[b])
    BY <1>2, <1>4, SaveFacts, RemoveRows
  <2>2. CASE End(r)
    BY <2>1, <2>2, EndCarries
  <2>3. Has(req[r].own, "pd")
    BY <1>1, <1>2, SaveFacts DEF Knows
  <2>4. CASE Go(r, "unitsIn")
    <3>1. ASSUME NEW new, new.pc = "unitsIn", new.own = req[r].own
          PROVE  Knows(new) /\ \A t : Stored(new, t)
      BY <2>3, <3>1, SMT DEF Knows, Stored, PastPd, PastAd, PastItem
    <3> QED BY <1>2, <2>1, <2>4, <3>1, SaveGoes
  <2>5. CASE Go(r, "pdWrite") /\ ~req[r].form.units
    <3>1. ASSUME NEW new, new.pc = "pdWrite", new.own = req[r].own, new.form = req[r].form
          PROVE  Knows(new) /\ \A t : Stored(new, t)
      BY <2>3, <2>5, <3>1, SMT DEF Knows, Stored, PastPd, PastAd, PastItem
    <3> QED BY <1>2, <2>1, <2>5, <3>1, SaveGoes
  <2> QED BY <2>2, <2>4, <2>5 DEF DeletePDetailsUnits
<1> QED BY <1>3, <1>4 DEF DeletePDetailsUnits

\* The parts a save writes.
LEMMA SaveParts == {"builder", "pd", "units", "ad", "item", "rep", "fe"} \cup Kinds \subseteq Parts
BY PartsFacts DEF Trunk

LEMMA CreatePDetailsUnitsCarry ==
    ASSUME IInv, WholeInv, NEW r \in Requests, CreatePDetailsUnits(r)
    PROVE  WholeInv'
<1>1. req[r].pc \in {"unitsIn", "newUnits"}
  BY DEF CreatePDetailsUnits
<1>2. req[r].pc \in SavePcs /\ "pdWrite" \in SavePcs /\ "ad" \in SavePcs
  BY <1>1, SMT DEF SavePcs
<1>3. CASE Fails(r) /\ UNCHANGED rows
  BY <1>3, FailsCarry
<1>4. CASE /\ CanInsert(req[r].a, "units", req[r].own["pd"].id)
           /\ Insert(req[r].a, "units", req[r].form)
           /\ Go(r, IF req[r].pc = "unitsIn" THEN "pdWrite" ELSE "ad")
  <2>1. PICK row \in NewRows(req[r].a, "units", req[r].form) : Put(req[r].a, "units", row)
    BY <1>4 DEF Insert
  <2>2. "units" \in Parts /\ "pd" \in Parts /\ req[r].form \in Forms \cup {None}
    BY <1>2, SaveFacts, SaveParts
  <2>3. /\ Keeps(r) /\ \A b \in Analyses : Blank(rows'[b])
        /\ Has(rows'[req[r].a], "units")
        /\ \A q \in Parts : Has(rows[req[r].a], q) => Has(rows'[req[r].a], q)
    BY <1>2, <2>1, <2>2, InsertRows
  <2>4. CASE req[r].pc = "unitsIn"
    <3>1. ASSUME NEW new, new.pc = "pdWrite", new.own = req[r].own
          PROVE  Knows(new) /\ Stored(new, rows'[req[r].a])
      <4>1. Has(new.own, "pd")
        BY <1>2, <2>4, <3>1, SaveFacts DEF Knows
      <4> QED BY <2>3, <3>1, <4>1, SMT DEF Knows, Stored, PastPd, PastAd, PastItem
    <3> QED BY <1>2, <1>4, <2>3, <2>4, <3>1, SaveGoes
  <2>5. CASE req[r].pc = "newUnits"
    <3>1. ASSUME NEW new, new.pc = "ad"
          PROVE  Knows(new) /\ (req[r].alone => Stored(new, rows'[req[r].a]))
      <4>1. req[r].alone => Has(rows[req[r].a], "pd")
        BY <1>2, <2>5, SaveFacts DEF Stored
      <4>2. req[r].alone => Has(rows'[req[r].a], "pd")
        BY <2>2, <2>3, <4>1
      <4> QED BY <2>3, <3>1, <4>2, SMT DEF Knows, Stored, PastPd, PastAd, PastItem
    <3> QED BY <1>2, <1>4, <2>3, <2>5, <3>1, SaveGoes
  <2> QED BY <1>1, <2>4, <2>5
<1> QED BY <1>3, <1>4 DEF CreatePDetailsUnits

LEMMA UpdatePDetailsCarry ==
    ASSUME IInv, WholeInv, NEW r \in Requests, UpdatePDetails(r)
    PROVE  WholeInv'
<1>1. req[r].pc = "pdWrite"
  BY DEF UpdatePDetails
<1>2. req[r].pc \in SavePcs /\ "ad" \in SavePcs
  BY <1>1, SMT DEF SavePcs
<1>3. CASE End(r) /\ UNCHANGED rows
  BY <1>3, EndCarries, SameRows
<1>4. CASE /\ rows[req[r].a]["pd"].id = req[r].own["pd"].id
           /\ Rewrite(req[r].a, "pd", req[r].form) /\ Go(r, "ad")
  <2>1. Has(rows[req[r].a], "pd")
    BY <1>1, <1>2, <1>4, SaveFacts DEF Knows, Has
  <2>2. /\ Keeps(r) /\ \A b \in Analyses : Blank(rows'[b])
        /\ \A q \in Parts : Has(rows'[req[r].a], q) = Has(rows[req[r].a], q)
    BY <1>2, <1>4, <2>1, SaveFacts, SaveParts, RewriteRows
  <2>3. ASSUME NEW new, new.pc = "ad", new.form = req[r].form
        PROVE  Knows(new) /\ (req[r].alone => Stored(new, rows'[req[r].a]))
    <3>1. req[r].alone /\ new.form.units => Has(rows[req[r].a], "units")
      BY <1>1, <1>2, <2>3, SaveFacts DEF Stored
    <3>2. Has(rows'[req[r].a], "pd") /\ (req[r].alone /\ new.form.units => Has(rows'[req[r].a], "units"))
      BY <2>1, <2>2, <3>1, SaveParts
    <3> QED BY <2>3, <3>2, SMT DEF Knows, Stored, PastPd, PastAd, PastItem
  <2> QED BY <1>2, <1>4, <2>2, <2>3, SaveGoes
<1> QED BY <1>3, <1>4 DEF UpdatePDetails

LEMMA CreatePDetailsCarry ==
    ASSUME IInv, WholeInv, NEW r \in Requests, CreatePDetails(r)
    PROVE  WholeInv'
<1>1. req[r].pc = "newPd"
  BY DEF CreatePDetails
<1>2. req[r].pc \in SavePcs /\ "newUnits" \in SavePcs /\ "ad" \in SavePcs
  BY <1>1, SMT DEF SavePcs
<1>3. CASE Fails(r) /\ UNCHANGED rows
  BY <1>3, FailsCarry
<1>4. CASE CanInsert(req[r].a, "pd", req[r].own["builder"].id)
  <2>1. PICK pc : pc = IF req[r].form.units THEN "newUnits" ELSE "ad"
    OBVIOUS
  <2>2. PICK row \in NewRows(req[r].a, "pd", req[r].form) :
            /\ Put(req[r].a, "pd", row)
            /\ Now(r, [req[r] EXCEPT !.own = With(req[r].own, "pd", row), !.pc = pc])
    BY <1>4, <2>1 DEF CreatePDetails
  <2>3. /\ Keeps(r) /\ \A b \in Analyses : Blank(rows'[b])
        /\ Has(rows'[req[r].a], "pd")
    BY <1>2, <2>2, SaveFacts, SaveParts, InsertRows
  <2>4. PICK t : t = With(req[r].own, "pd", row)
    OBVIOUS
  <2>5. PICK new : new = [req[r] EXCEPT !.own = t, !.pc = pc]
    OBVIOUS
  <2>6. new.pc = pc /\ Alike(new, req[r])
    BY <1>2, <2>5, SaveFacts DEF RequestType, Alike
  <2>7. Knows(new)
    BY <2>1, <2>6, SMT DEF Knows
  <2>8. Stored(new, rows'[req[r].a])
    BY <2>1, <2>3, <2>6, SMT DEF Stored, PastPd, PastAd, PastItem, Alike
  <2>9. new.kind = "save" /\ new.alone = req[r].alone /\ new.a = req[r].a /\ new.pc \in SavePcs
    BY <1>2, <2>1, <2>6, SaveFacts DEF Alike
  <2> QED BY <1>2, <2>2, <2>3, <2>4, <2>5, <2>7, <2>8, <2>9, SaveCarries
<1> QED BY <1>3, <1>4 DEF CreatePDetails

LEMMA CleanUpCarry ==
    ASSUME IInv, WholeInv, NEW r \in Requests, CleanUp(r)
    PROVE  WholeInv'
<1>1. req[r].pc \in {"dropAnalyzer", "dropBuilder", "dropPd", "dropAd"}
  BY SMT DEF CleanUp, CleanUps
<1>2. req[r].pc \in SavePcs
  BY <1>1, DropIn
<1>3. PICK pc : pc = NextCleanUp[req[r].pc]
  OBVIOUS
<1>4. pc = "idle" \/ pc \in {"dropAnalyzer", "dropBuilder", "dropPd", "dropAd"}
  BY <1>1, <1>3, SMT DEF NextCleanUp
<1>5. UNCHANGED rows \/ \E gone : Remove(req[r].a, gone)
  BY DEF CleanUp
<1>6. Keeps(r) /\ \A b \in Analyses : Blank(rows'[b])
  BY <1>2, <1>5, SaveFacts, SameRows, RemoveRows
<1>7. End(r) \/ (pc # "idle" /\ Go(r, pc))
  BY <1>3 DEF CleanUp
<1>8. CASE End(r)
  BY <1>6, <1>8, EndCarries
<1>9. CASE pc # "idle" /\ Go(r, pc)
  BY <1>2, <1>4, <1>6, <1>9, DropsCarry
<1> QED BY <1>7, <1>8, <1>9

-----------------------------------------------------------------------------
(* The steps of the acquisition details. *)

LEMMA PastFacts ==
    ASSUME NEW q, NEW t, Stored(q, t), q.pc \in PastPd
    PROVE  /\ Has(t, "pd") /\ (q.form.units => Has(t, "units"))
           /\ q.pc \in PastAd => Has(t, "ad")
           /\ q.pc \in PastItem /\ q.form.items => Has(t, "item")
BY DEF Stored

\* What the property and acquisition details have left, when nothing of it goes.
LEMMA PastKept ==
    ASSUME NEW q, NEW new, NEW t, NEW u, q.pc \in PastPd, new.form = q.form, Stored(q, t),
           \A p \in Parts : Has(t, p) => Has(u, p),
           new.pc \in PastAd => q.pc \in PastAd \/ Has(u, "ad"),
           new.pc \in PastItem /\ q.form.items => q.pc \in PastItem \/ Has(u, "item"),
           new.pc \in PastPd \ {"newKinds", "kinds", "fe", "answer"}
    PROVE  Stored(new, u)
<1>1. Has(u, "pd") /\ (new.form.units => Has(u, "units"))
  BY PastFacts, SaveParts
<1>2. new.pc \in PastAd => Has(u, "ad")
  BY PastFacts, SaveParts
<1>3. new.pc \in PastItem /\ new.form.items => Has(u, "item")
  BY PastFacts, SaveParts
<1>4. new.pc # "done"
  BY SMT DEF PastPd, PastAd, PastItem
<1> QED BY <1>1, <1>2, <1>3, <1>4 DEF Stored

LEMMA PastSteps ==
    /\ PastPd \subseteq SavePcs
    /\ PastAd \subseteq PastPd /\ PastItem \subseteq PastAd
    /\ "ad" \in PastPd \ PastAd /\ "adWrite" \in PastPd \ PastAd
    /\ "item" \in PastAd \ PastItem /\ "newItem" \in PastAd \ PastItem
    /\ {"rep", "newKinds", "kinds", "fe", "answer"} \subseteq PastItem
BY SMT DEF PastPd, PastAd, PastItem, SavePcs

LEMMA CreateADetailsCarry ==
    ASSUME IInv, WholeInv, NEW r \in Requests, CreateADetails(r)
    PROVE  WholeInv'
<1>1. req[r].pc = "ad"
  BY DEF CreateADetails
<1>2. req[r].pc \in PastPd /\ req[r].pc \in SavePcs
  BY <1>1, PastSteps
<1>3. CASE End(r) /\ UNCHANGED rows
  BY <1>3, EndCarries, SameRows
<1>4. CASE CanInsert(req[r].a, "ad", req[r].seen["builder"].id) /\ ~(End(r) /\ UNCHANGED rows)
  <2>1. PICK pc : pc = IF req[r].form.items THEN "newItem" ELSE "rep"
    OBVIOUS
  <2>2. PICK row \in NewRows(req[r].a, "ad", req[r].form) :
            /\ Put(req[r].a, "ad", row)
            /\ Now(r, [req[r] EXCEPT !.seen = With(req[r].seen, "ad", row), !.pc = pc])
    BY <1>4, <2>1 DEF CreateADetails
  <2>3. /\ Keeps(r) /\ \A b \in Analyses : Blank(rows'[b])
        /\ Has(rows'[req[r].a], "ad")
        /\ \A q \in Parts : Has(rows[req[r].a], q) => Has(rows'[req[r].a], q)
    BY <1>2, <2>2, SaveFacts, SaveParts, InsertRows
  <2>4. PICK t : t = With(req[r].seen, "ad", row)
    OBVIOUS
  <2>5. PICK new : new = [req[r] EXCEPT !.seen = t, !.pc = pc]
    OBVIOUS
  <2>6. new.pc = pc /\ Alike(new, req[r])
    BY <1>2, <2>5, SaveFacts DEF RequestType, Alike
  <2>7. Knows(new)
    BY <2>1, <2>6, SMT DEF Knows
  <2>8. /\ new.pc \in {"newItem", "rep"} /\ (new.pc = "rep" => ~req[r].form.items)
        /\ new.pc \in PastPd \ {"newKinds", "kinds", "fe", "answer"}
    BY <2>1, <2>6, PastSteps
  <2>9. req[r].alone => Stored(new, rows'[req[r].a])
    <3>1. new.pc \in PastItem => ~req[r].form.items
      BY <2>8, PastSteps
    <3>2. req[r].alone => Stored(req[r], rows[req[r].a])
      BY <1>2, SaveFacts
    <3>3. new.form = req[r].form
      BY <2>6 DEF Alike
    <3> QED BY <1>2, <2>3, <2>8, <3>1, <3>2, <3>3, PastKept
  <2>10. new.kind = "save" /\ new.alone = req[r].alone /\ new.a = req[r].a /\ new.pc \in SavePcs
    BY <1>2, <2>6, <2>8, PastSteps, SaveFacts DEF Alike
  <2> QED BY <1>2, <2>2, <2>3, <2>4, <2>5, <2>7, <2>9, <2>10, SaveCarries
<1> QED BY <1>3, <1>4 DEF CreateADetails

LEMMA DeleteAdItemizedCarry ==
    ASSUME IInv, WholeInv, NEW r \in Requests, DeleteAdItemized(r)
    PROVE  WholeInv'
<1>1. req[r].pc = "ad" /\ Has(req[r].seen, "ad") /\ Go(r, "adWrite")
      /\ (Remove(req[r].a, {"item"}) \/ UNCHANGED rows)
  BY DEF DeleteAdItemized
<1>2. req[r].pc \in PastPd /\ req[r].pc \in SavePcs /\ "adWrite" \in SavePcs
  BY <1>1, PastSteps
<1>3. Keeps(r) /\ \A b \in Analyses : Blank(rows'[b])
  BY <1>1, <1>2, SaveFacts, SameRows, RemoveRows
<1>4. \A q \in Parts : q # "item" => rows'[req[r].a][q] = rows[req[r].a][q]
  BY <1>1, <1>2, SaveFacts, RemoveRows
<1>5. ASSUME NEW new, new.pc = "adWrite", new.form = req[r].form, new.seen = req[r].seen
      PROVE  Knows(new) /\ (req[r].alone => Stored(new, rows'[req[r].a]))
  <2>1. Knows(new)
    BY <1>1, <1>5, SMT DEF Knows
  <2>2. /\ Has(rows'[req[r].a], "pd") = Has(rows[req[r].a], "pd")
        /\ Has(rows'[req[r].a], "units") = Has(rows[req[r].a], "units")
    BY <1>4, SaveParts DEF Has
  <2>3. req[r].alone => Has(rows'[req[r].a], "pd")
                        /\ (new.form.units => Has(rows'[req[r].a], "units"))
    BY <1>2, <1>5, <2>2, SaveFacts, PastFacts
  <2>4. req[r].alone => Stored(new, rows'[req[r].a])
    BY <1>5, <2>3, PastSteps, SMT DEF Stored, PastAd, PastItem
  <2> QED BY <2>1, <2>4
<1> QED BY <1>1, <1>2, <1>3, <1>5, SaveGoes

LEMMA UpdateADetailsCarry ==
    ASSUME IInv, WholeInv, NEW r \in Requests, UpdateADetails(r)
    PROVE  WholeInv'
<1>1. req[r].pc = "adWrite" \/ (req[r].pc = "ad" /\ Has(req[r].seen, "ad"))
  BY DEF UpdateADetails
<1>2. req[r].pc \in PastPd /\ req[r].pc \in SavePcs
  BY <1>1, PastSteps
<1>3. Has(req[r].seen, "ad")
  BY <1>1, <1>2, SaveFacts DEF Knows
<1>4. CASE End(r) /\ UNCHANGED rows
  BY <1>4, EndCarries, SameRows
<1>5. CASE rows[req[r].a]["ad"].id = req[r].seen["ad"].id
  <2>1. Has(rows[req[r].a], "ad")
    BY <1>3, <1>5 DEF Has
  <2>2. PICK pc : pc = IF ~req[r].form.items THEN "rep"
                       ELSE IF Has(req[r].seen, "item") THEN "item" ELSE "newItem"
    OBVIOUS
  <2>3. Rewrite(req[r].a, "ad", req[r].form) /\ Go(r, pc)
    BY <1>5, <2>2 DEF UpdateADetails
  <2>4. /\ Keeps(r) /\ \A b \in Analyses : Blank(rows'[b])
        /\ \A q \in Parts : Has(rows'[req[r].a], q) = Has(rows[req[r].a], q)
    BY <1>2, <2>1, <2>3, SaveFacts, SaveParts, RewriteRows
  <2>5. /\ pc \in {"rep", "item", "newItem"} /\ (pc = "rep" => ~req[r].form.items)
        /\ pc = "item" => Has(req[r].seen, "item")
    BY <2>2
  <2>6. pc \in SavePcs /\ pc \in PastPd \ {"newKinds", "kinds", "fe", "answer"}
        /\ (pc \in PastItem => ~req[r].form.items)
    BY <2>5, PastSteps
  <2>7. ASSUME NEW new, new.pc = pc, new.form = req[r].form, new.seen = req[r].seen
        PROVE  Knows(new) /\ (req[r].alone => Stored(new, rows'[req[r].a]))
    <3>1. Knows(new)
      BY <1>3, <2>5, <2>7, SMT DEF Knows
    <3>2. Has(rows'[req[r].a], "ad")
      BY <2>1, <2>4, SaveParts
    <3>3. req[r].alone => Stored(req[r], rows[req[r].a])
      BY <1>2, SaveFacts
    <3>4. req[r].alone => Stored(new, rows'[req[r].a])
      BY <1>2, <2>4, <2>6, <2>7, <3>2, <3>3, PastKept
    <3> QED BY <3>1, <3>4
  <2> QED BY <1>2, <2>3, <2>4, <2>6, <2>7, SaveGoes
<1> QED BY <1>4, <1>5 DEF UpdateADetails

\* The itemized costs are there: the repairs are next.
LEMMA ItemDone ==
    ASSUME IInv, WholeInv, NEW r \in Requests, req[r].pc \in {"item", "newItem"}, Go(r, "rep"),
           Keeps(r), \A b \in Analyses : Blank(rows'[b]), Has(rows'[req[r].a], "item"),
           \A q \in Parts : Has(rows[req[r].a], q) => Has(rows'[req[r].a], q)
    PROVE  WholeInv'
<1>1. /\ req[r].pc \in PastPd /\ req[r].pc \in PastAd /\ req[r].pc \in SavePcs
      /\ "rep" \in SavePcs /\ "rep" \in PastPd \ {"newKinds", "kinds", "fe", "answer"}
  BY PastSteps
<1>2. ASSUME NEW new, new.pc = "rep", new.form = req[r].form
      PROVE  Knows(new) /\ (req[r].alone => Stored(new, rows'[req[r].a]))
  <2>1. Knows(new)
    BY <1>2, SMT DEF Knows
  <2>2. req[r].alone => Stored(req[r], rows[req[r].a])
    BY <1>1, SaveFacts
  <2>3. req[r].alone => Stored(new, rows'[req[r].a])
    BY <1>1, <1>2, <2>2, PastKept
  <2> QED BY <2>1, <2>3
<1> QED BY <1>1, <1>2, SaveGoes

LEMMA UpdateAdItemizedCarry ==
    ASSUME IInv, WholeInv, NEW r \in Requests, UpdateAdItemized(r)
    PROVE  WholeInv'
<1>1. req[r].pc = "item"
  BY DEF UpdateAdItemized
<1>2. req[r].pc \in SavePcs
  BY <1>1, PastSteps
<1>3. CASE End(r) /\ UNCHANGED rows
  BY <1>3, EndCarries, SameRows
<1>4. CASE /\ rows[req[r].a]["item"].id = req[r].seen["item"].id
           /\ Rewrite(req[r].a, "item", req[r].form) /\ Go(r, "rep")
  <2>1. Has(rows[req[r].a], "item")
    BY <1>1, <1>2, <1>4, SaveFacts DEF Knows, Has
  <2>2. /\ Keeps(r) /\ \A b \in Analyses : Blank(rows'[b])
        /\ \A q \in Parts : Has(rows'[req[r].a], q) = Has(rows[req[r].a], q)
    BY <1>2, <1>4, <2>1, SaveFacts, SaveParts, RewriteRows
  <2>3. Has(rows'[req[r].a], "item")
    BY <2>1, <2>2, SaveParts
  <2> QED BY <1>1, <1>4, <2>2, <2>3, ItemDone
<1> QED BY <1>3, <1>4 DEF UpdateAdItemized

LEMMA CreateAdItemizedCarry ==
    ASSUME IInv, WholeInv, NEW r \in Requests, CreateAdItemized(r)
    PROVE  WholeInv'
<1>1. req[r].pc = "newItem"
  BY DEF CreateAdItemized
<1>2. req[r].pc \in SavePcs
  BY <1>1, PastSteps
<1>3. CASE Fails(r) /\ UNCHANGED rows
  BY <1>3, FailsCarry
<1>4. CASE Insert(req[r].a, "item", req[r].form) /\ Go(r, "rep")
  <2>1. PICK row \in NewRows(req[r].a, "item", req[r].form) : Put(req[r].a, "item", row)
    BY <1>4 DEF Insert
  <2>2. /\ Keeps(r) /\ \A b \in Analyses : Blank(rows'[b])
        /\ Has(rows'[req[r].a], "item")
        /\ \A q \in Parts : Has(rows[req[r].a], q) => Has(rows'[req[r].a], q)
    BY <1>2, <2>1, SaveFacts, SaveParts, InsertRows
  <2> QED BY <1>1, <1>4, <2>2, ItemDone
<1> QED BY <1>3, <1>4 DEF CreateAdItemized

-----------------------------------------------------------------------------
(* The steps of the repairs and the fixed expenses, and the answer. *)

LEMMA SaveKinds ==
    ASSUME IInv, WholeInv, NEW r \in Requests, req[r].pc \in SavePcs
    PROVE  /\ req[r].form.kinds \subseteq Kinds /\ req[r].form.kinds \subseteq Parts
           /\ {"pd", "units", "ad", "item", "rep", "fe"} \cap Kinds = {}
BY SaveFacts, PartsFacts DEF FormType, Trunk

\* From the repairs on the details stay, and the step answers for the rest.
LEMMA RepairsStored ==
    ASSUME NEW q, NEW new, NEW t, NEW u, q.pc \in PastItem, new.pc \in PastItem, new.form = q.form,
           Stored(q, t),
           \A p \in {"pd", "units", "ad", "item"} : Has(t, p) => Has(u, p),
           new.pc \in {"newKinds", "fe", "answer"} => Has(u, "rep"),
           new.pc \in {"newKinds", "kinds"} =>
               \A k \in q.form.kinds : k \in new.todo \/ new.failed \/ Has(u, k),
           new.pc \in {"fe", "answer"} => \A k \in q.form.kinds : Has(u, k),
           new.pc = "answer" => Has(u, "fe")
    PROVE  Stored(new, u)
<1>1. q.pc \in PastPd /\ q.pc \in PastAd
  BY PastSteps
<1>2. /\ Has(u, "pd") /\ (new.form.units => Has(u, "units"))
      /\ Has(u, "ad") /\ (new.form.items => Has(u, "item"))
  BY <1>1, PastFacts
<1>3. new.pc # "done"
  BY SMT DEF PastItem
<1> QED BY <1>2, <1>3 DEF Stored

LEMMA CreateRepairsCarry ==
    ASSUME IInv, WholeInv, NEW r \in Requests, CreateRepairs(r)
    PROVE  WholeInv'
<1>1. req[r].pc = "rep"
  BY DEF CreateRepairs
<1>2. req[r].pc \in PastItem /\ req[r].pc \in SavePcs /\ "newKinds" \in SavePcs
  BY <1>1, PastSteps
<1>3. CASE End(r) /\ UNCHANGED rows
  BY <1>3, EndCarries, SameRows
<1>4. CASE CanInsert(req[r].a, "rep", req[r].seen["builder"].id)
  <2>1. PICK row \in NewRows(req[r].a, "rep", req[r].form) :
            /\ Put(req[r].a, "rep", row)
            /\ Now(r, [req[r] EXCEPT !.seen = With(req[r].seen, "rep", row), !.pc = "newKinds",
                                     !.todo = req[r].form.kinds])
    BY <1>4 DEF CreateRepairs
  <2>2. /\ Keeps(r) /\ \A b \in Analyses : Blank(rows'[b])
        /\ Has(rows'[req[r].a], "rep")
        /\ \A q \in Parts : Has(rows[req[r].a], q) => Has(rows'[req[r].a], q)
    BY <1>2, <2>1, SaveFacts, SaveParts, InsertRows
  <2>3. PICK t : t = With(req[r].seen, "rep", row)
    OBVIOUS
  <2>4. PICK d : d = req[r].form.kinds
    OBVIOUS
  <2>5. PICK new : new = [req[r] EXCEPT !.seen = t, !.pc = "newKinds", !.todo = d]
    OBVIOUS
  <2>6. new.pc = "newKinds" /\ new.todo = d /\ Alike(new, req[r])
    BY <1>2, <2>5, SaveFacts DEF RequestType, Alike
  <2>7. Knows(new)
    BY <2>6, SMT DEF Knows
  <2>8. req[r].alone => Stored(new, rows'[req[r].a])
    <3>1. req[r].alone => Stored(req[r], rows[req[r].a])
      BY <1>2, SaveFacts
    <3>2. new.form = req[r].form /\ new.pc \in PastItem /\ new.pc \notin {"fe", "answer"}
      BY <2>6, PastSteps DEF Alike
    <3>3. \A k \in req[r].form.kinds : k \in new.todo
      BY <2>4, <2>6
    <3>4. \A p \in {"pd", "units", "ad", "item"} : Has(rows[req[r].a], p) => Has(rows'[req[r].a], p)
      BY <2>2, SaveParts
    <3> QED BY <1>2, <2>2, <3>1, <3>2, <3>3, <3>4, RepairsStored
  <2>9. new.kind = "save" /\ new.alone = req[r].alone /\ new.a = req[r].a /\ new.pc \in SavePcs
    BY <1>2, <2>6, SaveFacts DEF Alike
  <2> QED BY <1>2, <2>1, <2>2, <2>3, <2>4, <2>5, <2>7, <2>8, <2>9, SaveCarries
<1> QED BY <1>3, <1>4 DEF CreateRepairs

LEMMA ReconcileRepairsCarry ==
    ASSUME IInv, WholeInv, NEW r \in Requests, ReconcileRepairs(r)
    PROVE  WholeInv'
<1>1. req[r].pc = "rep" /\ Has(req[r].seen, "rep")
  BY DEF ReconcileRepairs
<1>2. req[r].pc \in PastItem /\ req[r].pc \in SavePcs /\ "kinds" \in SavePcs
  BY <1>1, PastSteps
<1>3. PICK gone : gone = {k \in Reconciled(req[r].seen, req[r].form) :
                             rows[req[r].a][k].id = req[r].seen[k].id}
  OBVIOUS
<1>4. Remove(req[r].a, gone)
  BY <1>3 DEF ReconcileRepairs
<1>5. gone \subseteq Kinds
  BY <1>2, <1>3, SaveKinds DEF Reconciled
<1>6. /\ Keeps(r) /\ \A b \in Analyses : Blank(rows'[b])
      /\ \A q \in Parts : rows'[req[r].a][q] = IF q \in gone THEN NoRow ELSE rows[req[r].a][q]
  BY <1>2, <1>4, SaveFacts, RemoveRows
<1>7. PICK d : d = req[r].form.kinds
  OBVIOUS
<1>8. PICK new : new = [req[r] EXCEPT !.pc = "kinds", !.todo = d]
  OBVIOUS
<1>9. new.pc = "kinds" /\ new.todo = d /\ new.seen = req[r].seen /\ Alike(new, req[r])
  BY <1>2, <1>8, SaveFacts DEF RequestType, Alike
<1>10. Knows(new)
  BY <1>1, <1>9, SMT DEF Knows
<1>11. req[r].alone => Stored(new, rows'[req[r].a])
  <2>1. req[r].alone => Stored(req[r], rows[req[r].a])
    BY <1>2, SaveFacts
  <2>2. new.form = req[r].form /\ new.pc \in PastItem /\ new.pc \notin {"newKinds", "fe", "answer"}
    BY <1>9, PastSteps DEF Alike
  <2>3. \A k \in req[r].form.kinds : k \in new.todo
    BY <1>7, <1>9
  <2>4. \A p \in {"pd", "units", "ad", "item"} : Has(rows[req[r].a], p) => Has(rows'[req[r].a], p)
    BY <1>2, <1>5, <1>6, SaveKinds, SaveParts DEF Has
  <2> QED BY <1>2, <2>1, <2>2, <2>3, <2>4, RepairsStored
<1>12. new.kind = "save" /\ new.alone = req[r].alone /\ new.a = req[r].a /\ new.pc \in SavePcs
  BY <1>2, <1>9, SaveFacts DEF Alike
<1>13. Now(r, new)
  BY <1>7, <1>8 DEF ReconcileRepairs
<1> QED BY <1>2, <1>6, <1>10, <1>11, <1>12, <1>13, SaveCarries

LEMMA WriteRepairItemCarry ==
    ASSUME IInv, WholeInv, NEW r \in Requests, NEW k \in Kinds, WriteRepairItem(r, k)
    PROVE  WholeInv'
<1>1. req[r].pc \in {"newKinds", "kinds"} /\ k \in req[r].todo
  BY DEF WriteRepairItem
<1>2. req[r].pc \in PastItem /\ req[r].pc \in SavePcs /\ k \in Parts
  BY <1>1, PastSteps, SaveParts
<1>3. CASE TaskFailed(r, k) /\ UNCHANGED rows
  BY <1>3, TaskFailedCarry
<1>4. CASE /\ \/ /\ Has(req[r].seen, k) /\ rows[req[r].a][k].id = req[r].seen[k].id
                 /\ Rewrite(req[r].a, k, req[r].form)
              \/ Insert(req[r].a, k, req[r].form)
           /\ Now(r, [req[r] EXCEPT !.todo = req[r].todo \ {k}])
  <2>1. /\ Keeps(r) /\ \A b \in Analyses : Blank(rows'[b])
        /\ Has(rows'[req[r].a], k)
        /\ \A q \in Parts : Has(rows[req[r].a], q) => Has(rows'[req[r].a], q)
    <3>1. CASE /\ Has(req[r].seen, k) /\ rows[req[r].a][k].id = req[r].seen[k].id
               /\ Rewrite(req[r].a, k, req[r].form)
      <4>1. Has(rows[req[r].a], k)
        BY <3>1 DEF Has
      <4>2. /\ Keeps(r) /\ \A b \in Analyses : Blank(rows'[b])
            /\ \A q \in Parts : Has(rows'[req[r].a], q) = Has(rows[req[r].a], q)
        BY <1>2, <3>1, <4>1, SaveFacts, RewriteRows
      <4> QED BY <1>2, <4>1, <4>2
    <3>2. CASE Insert(req[r].a, k, req[r].form)
      <4>1. PICK row \in NewRows(req[r].a, k, req[r].form) : Put(req[r].a, k, row)
        BY <3>2 DEF Insert
      <4> QED BY <1>2, <4>1, SaveFacts, InsertRows
    <3> QED BY <1>4, <3>1, <3>2
  <2>2. PICK d : d = req[r].todo \ {k}
    OBVIOUS
  <2>3. PICK new : new = [req[r] EXCEPT !.todo = d]
    OBVIOUS
  <2>4. /\ new.pc = req[r].pc /\ new.todo = d /\ new.seen = req[r].seen /\ new.failed = req[r].failed
        /\ Alike(new, req[r])
    BY <1>2, <2>3, SaveFacts DEF RequestType, Alike
  <2>5. Knows(new)
    <3>1. req[r].pc = "kinds" => Has(new.seen, "rep")
      BY <1>2, <2>4, SaveFacts DEF Knows
    <3> QED BY <1>1, <2>4, <3>1, SMT DEF Knows
  <2>6. req[r].alone => Stored(new, rows'[req[r].a])
    <3>1. req[r].alone => Stored(req[r], rows[req[r].a])
      BY <1>2, SaveFacts
    <3>2. new.form = req[r].form /\ new.pc \in PastItem /\ new.pc \notin {"fe", "answer"}
      BY <1>1, <1>2, <2>4 DEF Alike
    <3>3. req[r].alone => \A j \in req[r].form.kinds :
              j \in req[r].todo \/ req[r].failed \/ Has(rows[req[r].a], j)
      BY <1>1, <3>1 DEF Stored
    <3>4. req[r].alone => \A j \in req[r].form.kinds :
              j \in new.todo \/ new.failed \/ Has(rows'[req[r].a], j)
      BY <1>2, <2>1, <2>2, <2>4, <3>3, SaveKinds
    <3>5. req[r].alone /\ new.pc = "newKinds" => Has(rows'[req[r].a], "rep")
      BY <2>1, <2>4, <3>1, SaveParts DEF Stored
    <3>6. \A p \in {"pd", "units", "ad", "item"} : Has(rows[req[r].a], p) => Has(rows'[req[r].a], p)
      BY <2>1, SaveParts
    <3> QED BY <1>2, <3>1, <3>2, <3>4, <3>5, <3>6, RepairsStored
  <2>7. new.kind = "save" /\ new.alone = req[r].alone /\ new.a = req[r].a /\ new.pc \in SavePcs
    BY <1>2, <2>4, SaveFacts DEF Alike
  <2>8. Now(r, new)
    BY <1>4, <2>2, <2>3
  <2> QED BY <1>2, <2>1, <2>5, <2>6, <2>7, <2>8, SaveCarries
<1> QED BY <1>3, <1>4 DEF WriteRepairItem

LEMMA FinishRepairsCarry ==
    ASSUME IInv, WholeInv, NEW r \in Requests, FinishRepairs(r)
    PROVE  WholeInv'
<1>1. req[r].pc \in {"newKinds", "kinds"} /\ req[r].todo = {}
  BY DEF FinishRepairs
<1>2. req[r].pc \in PastItem /\ req[r].pc \in SavePcs /\ "fe" \in SavePcs
  BY <1>1, PastSteps
<1>3. CASE End(r) /\ UNCHANGED rows
  BY <1>3, EndCarries, SameRows
<1>4. CASE /\ ~req[r].failed /\ Go(r, "fe")
           /\ \/ req[r].pc = "newKinds" /\ UNCHANGED rows
              \/ /\ req[r].pc = "kinds" /\ rows[req[r].a]["rep"].id = req[r].seen["rep"].id
                 /\ Rewrite(req[r].a, "rep", req[r].form)
  <2>1. req[r].alone => Stored(req[r], rows[req[r].a])
    BY <1>2, SaveFacts
  <2>2. /\ Keeps(r) /\ \A b \in Analyses : Blank(rows'[b])
        /\ req[r].alone => Has(rows'[req[r].a], "rep")
        /\ \A q \in Parts : Has(rows'[req[r].a], q) = Has(rows[req[r].a], q)
    <3>1. CASE req[r].pc = "newKinds" /\ UNCHANGED rows
      BY <2>1, <3>1, SameRows DEF Stored
    <3>2. CASE /\ req[r].pc = "kinds" /\ rows[req[r].a]["rep"].id = req[r].seen["rep"].id
               /\ Rewrite(req[r].a, "rep", req[r].form)
      <4>1. Has(rows[req[r].a], "rep")
        BY <1>2, <3>2, SaveFacts DEF Knows, Has
      <4>2. /\ Keeps(r) /\ \A b \in Analyses : Blank(rows'[b])
            /\ \A q \in Parts : Has(rows'[req[r].a], q) = Has(rows[req[r].a], q)
        BY <1>2, <3>2, <4>1, SaveFacts, SaveParts, RewriteRows
      <4> QED BY <4>1, <4>2, SaveParts
    <3> QED BY <1>4, <3>1, <3>2
  <2>3. ASSUME NEW new, new.pc = "fe", new.form = req[r].form
        PROVE  Knows(new) /\ (req[r].alone => Stored(new, rows'[req[r].a]))
    <3>1. Knows(new)
      BY <2>3, SMT DEF Knows
    <3>2. req[r].alone => \A k \in req[r].form.kinds : Has(rows[req[r].a], k)
      BY <1>1, <1>4, <2>1 DEF Stored
    <3>3. req[r].alone => \A k \in req[r].form.kinds : Has(rows'[req[r].a], k)
      BY <1>2, <2>2, <3>2, SaveKinds
    <3>4. \A p \in {"pd", "units", "ad", "item"} : Has(rows[req[r].a], p) => Has(rows'[req[r].a], p)
      BY <2>2, SaveParts
    <3>5. new.pc \in PastItem /\ new.pc \notin {"newKinds", "kinds", "answer"}
      BY <2>3, PastSteps
    <3>6. req[r].alone => Stored(new, rows'[req[r].a])
      BY <1>2, <2>1, <2>2, <2>3, <3>3, <3>4, <3>5, RepairsStored
    <3> QED BY <3>1, <3>6
  <2> QED BY <1>2, <1>4, <2>2, <2>3, SaveGoes
<1> QED BY <1>1, <1>3, <1>4 DEF FinishRepairs

LEMMA UpsertFExpensesCarry ==
    ASSUME IInv, WholeInv, NEW r \in Requests, UpsertFExpenses(r)
    PROVE  WholeInv'
<1>1. req[r].pc = "fe"
  BY DEF UpsertFExpenses
<1>2. req[r].pc \in PastItem /\ req[r].pc \in SavePcs /\ "answer" \in SavePcs
  BY <1>1, PastSteps
<1>3. CASE End(r) /\ UNCHANGED rows
  BY <1>3, EndCarries, SameRows
<1>4. CASE /\ Go(r, "answer")
           /\ \/ /\ Has(req[r].seen, "fe") /\ rows[req[r].a]["fe"].id = req[r].seen["fe"].id
                 /\ Rewrite(req[r].a, "fe", req[r].form)
              \/ Insert(req[r].a, "fe", req[r].form)
  <2>1. /\ Keeps(r) /\ \A b \in Analyses : Blank(rows'[b])
        /\ Has(rows'[req[r].a], "fe")
        /\ \A q \in Parts : Has(rows[req[r].a], q) => Has(rows'[req[r].a], q)
    <3>1. CASE /\ Has(req[r].seen, "fe") /\ rows[req[r].a]["fe"].id = req[r].seen["fe"].id
               /\ Rewrite(req[r].a, "fe", req[r].form)
      <4>1. Has(rows[req[r].a], "fe")
        BY <3>1 DEF Has
      <4>2. /\ Keeps(r) /\ \A b \in Analyses : Blank(rows'[b])
            /\ \A q \in Parts : Has(rows'[req[r].a], q) = Has(rows[req[r].a], q)
        BY <1>2, <3>1, <4>1, SaveFacts, SaveParts, RewriteRows
      <4> QED BY <4>1, <4>2, SaveParts
    <3>2. CASE Insert(req[r].a, "fe", req[r].form)
      <4>1. PICK row \in NewRows(req[r].a, "fe", req[r].form) : Put(req[r].a, "fe", row)
        BY <3>2 DEF Insert
      <4> QED BY <1>2, <4>1, SaveFacts, SaveParts, InsertRows
    <3> QED BY <1>4, <3>1, <3>2
  <2>2. ASSUME NEW new, new.pc = "answer", new.form = req[r].form
        PROVE  Knows(new) /\ (req[r].alone => Stored(new, rows'[req[r].a]))
    <3>1. Knows(new)
      BY <2>2, SMT DEF Knows
    <3>2. req[r].alone => Stored(req[r], rows[req[r].a])
      BY <1>2, SaveFacts
    <3>3. req[r].alone => /\ Has(rows[req[r].a], "rep")
                          /\ \A k \in req[r].form.kinds : Has(rows[req[r].a], k)
      BY <1>1, <3>2 DEF Stored
    <3>4. req[r].alone => /\ Has(rows'[req[r].a], "rep")
                          /\ \A k \in req[r].form.kinds : Has(rows'[req[r].a], k)
      BY <1>2, <2>1, <3>3, SaveKinds, SaveParts
    <3>5. \A p \in {"pd", "units", "ad", "item"} : Has(rows[req[r].a], p) => Has(rows'[req[r].a], p)
      BY <2>1, SaveParts
    <3>6. new.pc \in PastItem /\ new.pc \notin {"newKinds", "kinds"}
      BY <2>2, PastSteps
    <3>7. req[r].alone => Stored(new, rows'[req[r].a])
      BY <1>2, <2>1, <2>2, <3>2, <3>4, <3>5, <3>6, RepairsStored
    <3> QED BY <3>1, <3>7
  <2> QED BY <1>2, <1>4, <2>1, <2>2, SaveGoes
<1> QED BY <1>3, <1>4 DEF UpsertFExpenses

LEMMA AnswerCarry ==
    ASSUME IInv, WholeInv, NEW r \in Requests, Answer(r)
    PROVE  WholeInv'
<1>1. req[r].pc = "answer" /\ UNCHANGED rows
  BY DEF Answer
<1>2. req[r].pc \in PastPd /\ req[r].pc \in PastAd /\ req[r].pc \in PastItem /\ req[r].pc \in SavePcs
  BY <1>1, PastSteps
<1>3. Keeps(r) /\ \A b \in Analyses : Blank(rows'[b])
  BY <1>1, SameRows
<1>4. CASE End(r)
  BY <1>3, <1>4, EndCarries
<1>5. CASE Now(r, [req[r] EXCEPT !.own = rows[req[r].a], !.pc = "done"])
  <2>1. PICK t : t = rows[req[r].a]
    OBVIOUS
  <2>2. PICK new : new = [req[r] EXCEPT !.own = t, !.pc = "done"]
    OBVIOUS
  <2>3. new.pc = "done" /\ new.own = t /\ Alike(new, req[r])
    BY <1>2, <2>2, SaveFacts DEF RequestType, Alike
  <2>4. Knows(new)
    BY <2>3, SMT DEF Knows
  <2>5. ASSUME req[r].alone PROVE \A p \in Wanted(req[r].form) : Has(t, p)
    <3>1. Stored(req[r], t)
      BY <1>2, <2>1, <2>5, SaveFacts
    <3>2. /\ Has(t, "pd") /\ Has(t, "ad") /\ (req[r].form.units => Has(t, "units"))
          /\ req[r].form.items => Has(t, "item")
      BY <1>2, <3>1, PastFacts
    <3>3. /\ Has(t, "rep") /\ Has(t, "fe") /\ \A k \in req[r].form.kinds : Has(t, k)
      BY <1>1, <3>1 DEF Stored
    <3>4. Has(t, "builder")
      BY <1>2, <2>1, <3>2, SaveFacts, SaveParts, ParentFacts DEF RowsInv, Rooted
    <3>5. Has(t, "analyzer")
      BY <1>2, <2>1, <3>4, SaveFacts, SaveParts, ParentFacts DEF RowsInv, Rooted
    <3> QED BY <3>2, <3>3, <3>4, <3>5 DEF Wanted
  <2>6. req[r].alone => Stored(new, rows'[req[r].a])
    <3>1. new.form = req[r].form
      BY <2>3 DEF Alike
    <3>2. new.pc \notin PastPd \cup {"pdWrite", "newUnits", "newKinds", "fe", "answer", "kinds"}
          /\ new.pc \notin PastAd /\ new.pc \notin PastItem
      BY <2>3, SMT DEF PastPd, PastAd, PastItem
    <3> QED BY <2>3, <2>5, <3>1, <3>2 DEF Stored
  <2>7. new.kind = "save" /\ new.alone = req[r].alone /\ new.a = req[r].a
    BY <1>2, <2>3, SaveFacts DEF Alike
  <2> QED BY <1>2, <1>3, <1>5, <2>1, <2>2, <2>3, <2>4, <2>6, <2>7, SaveCarries
<1> QED BY <1>4, <1>5 DEF Answer

LEMMA FinishCarry ==
    ASSUME IInv, WholeInv, NEW r \in Requests, Finish(r)
    PROVE  WholeInv'
BY EndCarries, SameRows DEF Finish

-----------------------------------------------------------------------------
(* The steps of a copy. *)

LEMMA CopyFacts ==
    ASSUME IInv, WholeInv, NEW r \in Requests, req[r].pc \in CopyPcs \ {"copyRow"}
    PROVE  /\ req[r].kind = "copy" /\ Writing(req[r])
           /\ req[r] \in RequestType /\ RowsInv
           /\ req[r].a \in Analyses /\ req[r].src \in Analyses
           /\ req[r].seen \in Tree /\ req[r].own \in Tree
           /\ Knows(req[r])
           /\ req[r].alone => Copied(req[r], rows[req[r].a])
<1>1. req[r].kind = "copy" /\ Knows(req[r]) /\ (req[r].alone => Claims(req[r], rows[req[r].a]))
  BY DEF WholeInv, Kinded
<1>2. req[r].pc \notin {"idle", "newRow", "copyRow"}
  BY SMT DEF CopyPcs
<1> QED BY <1>1, <1>2, ReqFacts DEF Writing, Claims

LEMMA CopyCarries ==
    ASSUME IInv, WholeInv, NEW r \in Requests, req[r].pc \in CopyPcs \ {"copyRow"},
           NEW new, Now(r, new), Keeps(r), \A b \in Analyses : Blank(rows'[b]),
           Alike(new, req[r]), new.pc \in (CopyPcs \ {"copyRow"}) \cup {"done"}, Knows(new),
           req[r].alone => Copied(new, rows'[req[r].a])
    PROVE  WholeInv'
<1>1. new.kind = "copy" /\ new.kind = req[r].kind /\ new.alone = req[r].alone /\ new.a = req[r].a
  BY CopyFacts DEF Alike
<1>2. Kinded(new)
  BY <1>1, SMT DEF Kinded, Writing, SavePcs, CopyPcs
<1>3. new.alone => Claims(new, rows'[new.a])
  BY <1>1 DEF Claims
<1> QED BY <1>1, <1>2, <1>3, Carries

LEMMA CopySteps ==
    /\ {"copyEntity", "copyFind", "copyBuilder", "copyParts", "copyUsage"} \subseteq CopyPcs \ {"copyRow"}
    /\ {"copyEntity", "copyFind", "copyBuilder", "copyParts", "copyUsage"} \cap SavePcs = {}
BY SMT DEF CopyPcs, SavePcs

\* A row of a copy, of a part its original has no such row of, leaves its parts as they were.
LEMMA CopyRows ==
    ASSUME IInv, WholeInv, NEW r \in Requests, req[r].pc \in CopyPcs \ {"copyRow"}, NEW p \in Parts,
           NEW f \in Forms \cup {None}, NEW row \in NewRows(req[r].a, p, f), Put(req[r].a, p, row)
    PROVE  /\ Keeps(r) /\ \A b \in Analyses : Blank(rows'[b])
           /\ row.id # 0 /\ row.of = f
           /\ \A q \in Parts : rows'[req[r].a][q] = IF q = p THEN row ELSE rows[req[r].a][q]
<1>1. row.id # 0
  BY CopyFacts, NewRowType
<1>2. row.of = f
  BY SMT DEF NewRows
<1> QED BY <1>1, <1>2, CopyFacts, PutRows

LEMMA CreateModuleEntityCarry ==
    ASSUME IInv, WholeInv, NEW r \in Requests, CreateModuleEntity(r)
    PROVE  WholeInv'
<1>1. req[r].pc = "copyEntity"
  BY DEF CreateModuleEntity
<1>2. req[r].pc \in CopyPcs \ {"copyRow"}
  BY <1>1, CopySteps
<1>3. CASE End(r) /\ UNCHANGED rows
  BY <1>3, EndCarries, SameRows
<1>4. CASE CanInsert(req[r].a, "analyzer", 0)
  <2>1. PICK row \in NewRows(req[r].a, "analyzer", None) :
            /\ Put(req[r].a, "analyzer", row)
            /\ Now(r, [req[r] EXCEPT !.own = With(req[r].own, "analyzer", row), !.pc = "copyFind"])
    BY <1>4 DEF CreateModuleEntity
  <2>2. "analyzer" \in Parts
    BY PartsFacts DEF Trunk
  <2>3. /\ Keeps(r) /\ \A b \in Analyses : Blank(rows'[b])
        /\ \A q \in Parts : rows'[req[r].a][q] = IF q = "analyzer" THEN row ELSE rows[req[r].a][q]
    BY <1>2, <2>1, <2>2, CopyRows
  <2>4. PICK t : t = With(req[r].own, "analyzer", row)
    OBVIOUS
  <2>5. PICK new : new = [req[r] EXCEPT !.own = t, !.pc = "copyFind"]
    OBVIOUS
  <2>6. new.pc = "copyFind" /\ Alike(new, req[r])
    BY <1>2, <2>5, CopyFacts DEF RequestType, Alike
  <2>7. Knows(new)
    BY <2>6, SMT DEF Knows
  <2>8. req[r].alone => Copied(new, rows'[req[r].a])
    <3>1. req[r].alone => \A p \in CopyParts : ~Has(rows[req[r].a], p)
      BY <1>1, <1>2, CopyFacts DEF Copied
    <3>2. req[r].alone => \A p \in CopyParts : ~Has(rows'[req[r].a], p)
      BY <2>3, <3>1, CopyPartsFacts DEF Has
    <3> QED BY <2>6, <3>2 DEF Copied
  <2> QED BY <1>2, <2>1, <2>3, <2>4, <2>5, <2>6, <2>7, <2>8, CopySteps, CopyCarries
<1> QED BY <1>3, <1>4 DEF CreateModuleEntity

LEMMA GetExistingBuilderCarry ==
    ASSUME IInv, WholeInv, NEW r \in Requests, GetExistingBuilder(r)
    PROVE  WholeInv'
<1>1. req[r].pc = "copyFind" /\ UNCHANGED rows
  BY DEF GetExistingBuilder
<1>2. req[r].pc \in CopyPcs \ {"copyRow"}
  BY <1>1, CopySteps
<1>3. Keeps(r) /\ \A b \in Analyses : Blank(rows'[b])
  BY <1>1, SameRows
<1>4. CASE End(r)
  BY <1>3, <1>4, EndCarries
<1>5. CASE Now(r, [req[r] EXCEPT !.seen = rows[req[r].src], !.pc = "copyBuilder"])
  <2>1. PICK t : t = rows[req[r].src]
    OBVIOUS
  <2>2. PICK new : new = [req[r] EXCEPT !.seen = t, !.pc = "copyBuilder"]
    OBVIOUS
  <2>3. new.pc = "copyBuilder" /\ new.seen = t /\ Alike(new, req[r])
    BY <1>2, <2>2, CopyFacts DEF RequestType, Alike
  <2>4. Blank(t)
    BY <1>2, <2>1, CopyFacts DEF WholeInv
  <2>5. Knows(new)
    BY <2>3, <2>4, SMT DEF Knows
  <2>6. req[r].alone => Copied(new, rows'[req[r].a])
    <3>1. req[r].alone => \A p \in CopyParts : ~Has(rows'[req[r].a], p)
      BY <1>1, <1>2, CopyFacts DEF Copied
    <3> QED BY <2>3, <3>1 DEF Copied
  <2> QED BY <1>2, <1>3, <1>5, <2>1, <2>2, <2>3, <2>5, <2>6, CopySteps, CopyCarries
<1> QED BY <1>4, <1>5 DEF GetExistingBuilder

LEMMA CopyBuilderCarry ==
    ASSUME IInv, WholeInv, NEW r \in Requests, CopyBuilder(r)
    PROVE  WholeInv'
<1>1. req[r].pc = "copyBuilder"
  BY DEF CopyBuilder
<1>2. req[r].pc \in CopyPcs \ {"copyRow"}
  BY <1>1, CopySteps
<1>3. CASE End(r) /\ UNCHANGED rows
  BY <1>3, EndCarries, SameRows
<1>4. CASE CanInsert(req[r].a, "builder", req[r].own["analyzer"].id)
  <2>1. PICK row \in NewRows(req[r].a, "builder", None) :
            /\ Put(req[r].a, "builder", row)
            /\ Now(r, [req[r] EXCEPT !.own = With(req[r].own, "builder", row), !.pc = "copyParts",
                                     !.todo = ToClone(req[r].seen)])
    BY <1>4 DEF CopyBuilder
  <2>2. /\ Keeps(r) /\ \A b \in Analyses : Blank(rows'[b])
        /\ \A q \in Parts : rows'[req[r].a][q] = IF q = "builder" THEN row ELSE rows[req[r].a][q]
    <3>1. "builder" \in Parts
      BY SaveParts
    <3> QED BY <1>2, <2>1, <3>1, CopyRows
  <2>3. PICK t : t = With(req[r].own, "builder", row)
    OBVIOUS
  <2>4. PICK d : d = ToClone(req[r].seen)
    OBVIOUS
  <2>5. PICK new : new = [req[r] EXCEPT !.own = t, !.pc = "copyParts", !.todo = d]
    OBVIOUS
  <2>6. new.pc = "copyParts" /\ new.todo = d /\ new.seen = req[r].seen /\ Alike(new, req[r])
    BY <1>2, <2>5, CopyFacts DEF RequestType, Alike
  <2>7. Blank(req[r].seen)
    BY <1>1, <1>2, CopyFacts DEF Knows
  <2>8. Knows(new)
    BY <2>6, <2>7, SMT DEF Knows
  <2>9. req[r].alone => Copied(new, rows'[req[r].a])
    <3>1. req[r].alone => \A p \in CopyParts : ~Has(rows[req[r].a], p)
      BY <1>1, <1>2, CopyFacts DEF Copied
    <3>2. req[r].alone => \A p \in CopyParts : ~Has(rows'[req[r].a], p)
      BY <2>2, <3>1, CopyPartsFacts DEF Has
    <3>3. Blank(rows'[req[r].a])
      BY <1>2, <2>2, CopyFacts
    <3>4. \A p \in CopyParts : p \in new.todo <=> Has(new.seen, p)
      BY <2>4, <2>6 DEF ToClone
    <3>5. ASSUME req[r].alone, NEW p \in CopyParts, p \notin new.todo
          PROVE  Matches(rows'[req[r].a], new.seen, p)
      <4>1. ~Has(new.seen, p) /\ ~Has(rows'[req[r].a], p)
        BY <3>2, <3>4, <3>5
      <4>2. new.seen[p] = NoRow /\ rows'[req[r].a][p] = NoRow
        BY <2>6, <2>7, <3>3, <4>1, CopyPartsFacts DEF Blank
      <4> QED BY <4>2 DEF Matches, Has
    <3> QED BY <2>6, <3>4, <3>5 DEF Copied
  <2> QED BY <1>2, <2>1, <2>2, <2>3, <2>4, <2>5, <2>6, <2>8, <2>9, CopySteps, CopyCarries
<1> QED BY <1>3, <1>4 DEF CopyBuilder

LEMMA ClonePartCarry ==
    ASSUME IInv, WholeInv, NEW r \in Requests, NEW p \in CopyParts, ClonePart(r, p)
    PROVE  WholeInv'
<1>1. req[r].pc = "copyParts" /\ p \in req[r].todo
  BY DEF ClonePart
<1>2. req[r].pc \in CopyPcs \ {"copyRow"} /\ p \in Parts
  BY <1>1, CopySteps, CopyPartsFacts
<1>3. CASE TaskFailed(r, p) /\ UNCHANGED rows
  BY <1>3, TaskFailedCarry
<1>4. CASE CanInsert(req[r].a, p, req[r].own[Parent(p)].id)
  <2>1. PICK row \in NewRows(req[r].a, p, req[r].seen[p].of) :
            /\ Put(req[r].a, p, row)
            /\ Now(r, [req[r] EXCEPT !.own = With(req[r].own, p, row), !.todo = req[r].todo \ {p}])
    BY <1>4 DEF ClonePart
  <2>2. req[r].seen[p].of \in Forms \cup {None}
    BY <1>2, CopyFacts DEF Tree, Row
  <2>3. /\ Keeps(r) /\ \A b \in Analyses : Blank(rows'[b])
        /\ row.id # 0 /\ row.of = req[r].seen[p].of
        /\ \A q \in Parts : rows'[req[r].a][q] = IF q = p THEN row ELSE rows[req[r].a][q]
    BY <1>2, <2>1, <2>2, CopyRows
  <2>4. PICK t : t = With(req[r].own, p, row)
    OBVIOUS
  <2>5. PICK d : d = req[r].todo \ {p}
    OBVIOUS
  <2>6. PICK new : new = [req[r] EXCEPT !.own = t, !.todo = d]
    OBVIOUS
  <2>7. /\ new.pc = "copyParts" /\ new.todo = d /\ new.seen = req[r].seen
        /\ new.failed = req[r].failed /\ Alike(new, req[r])
    BY <1>1, <1>2, <2>6, CopyFacts DEF RequestType, Alike
  <2>8. Blank(req[r].seen)
    BY <1>1, <1>2, CopyFacts DEF Knows
  <2>9. Knows(new)
    BY <2>7, <2>8, SMT DEF Knows
  <2>10. ASSUME req[r].alone PROVE Copied(new, rows'[req[r].a])
    <3>1. \A q \in CopyParts : IF q \in req[r].todo THEN Has(req[r].seen, q)
                               ELSE req[r].failed \/ Matches(rows[req[r].a], req[r].seen, q)
      BY <1>1, <1>2, <2>10, CopyFacts DEF Copied
    <3>2. Matches(rows'[req[r].a], req[r].seen, p)
      <4>1. rows'[req[r].a][p] = row
        BY <1>2, <2>3
      <4>2. Has(req[r].seen, p) /\ Has(rows'[req[r].a], p)
        BY <1>1, <2>3, <3>1, <4>1 DEF Has
      <4> QED BY <2>3, <4>1, <4>2 DEF Matches
    <3>3. ASSUME NEW q \in CopyParts, q # p
          PROVE  IF q \in new.todo THEN Has(new.seen, q)
                 ELSE new.failed \/ Matches(rows'[req[r].a], new.seen, q)
      <4>1. rows'[req[r].a][q] = rows[req[r].a][q]
        BY <2>3, <3>3, CopyPartsFacts
      <4>2. Matches(rows'[req[r].a], req[r].seen, q) = Matches(rows[req[r].a], req[r].seen, q)
        BY <4>1 DEF Matches, Has
      <4>3. q \in new.todo <=> q \in req[r].todo
        BY <2>5, <2>7, <3>3
      <4> QED BY <2>7, <3>1, <4>2, <4>3
    <3>4. p \notin new.todo
      BY <2>5, <2>7
    <3> QED BY <2>7, <3>2, <3>3, <3>4 DEF Copied
  <2> QED BY <1>2, <2>1, <2>3, <2>4, <2>5, <2>6, <2>7, <2>9, <2>10, CopySteps, CopyCarries
<1> QED BY <1>3, <1>4 DEF ClonePart

LEMMA ClonedCarry ==
    ASSUME IInv, WholeInv, NEW r \in Requests, Cloned(r)
    PROVE  WholeInv'
<1>1. req[r].pc = "copyParts" /\ req[r].todo = {} /\ UNCHANGED rows
  BY DEF Cloned
<1>2. req[r].pc \in CopyPcs \ {"copyRow"}
  BY <1>1, CopySteps
<1>3. Keeps(r) /\ \A b \in Analyses : Blank(rows'[b])
  BY <1>1, SameRows
<1>4. CASE End(r)
  BY <1>3, <1>4, EndCarries
<1>5. CASE ~req[r].failed /\ Go(r, "copyUsage")
  <2>1. PICK new : new = [req[r] EXCEPT !.pc = "copyUsage"]
    OBVIOUS
  <2>2. new.pc = "copyUsage" /\ new.seen = req[r].seen /\ Alike(new, req[r])
    BY <1>2, <2>1, CopyFacts DEF RequestType, Alike
  <2>3. Knows(new)
    BY <2>2, SMT DEF Knows
  <2>4. req[r].alone => \A p \in CopyParts : Matches(rows[req[r].a], req[r].seen, p)
    BY <1>1, <1>2, <1>5, CopyFacts DEF Copied
  <2>5. req[r].alone => Copied(new, rows'[req[r].a])
    BY <1>1, <2>2, <2>4 DEF Copied
  <2>6. Now(r, new)
    BY <1>5, <2>1 DEF Go
  <2> QED BY <1>2, <1>3, <2>2, <2>3, <2>5, <2>6, CopySteps, CopyCarries
<1> QED BY <1>4, <1>5 DEF Cloned

-----------------------------------------------------------------------------
(* The other steps. *)

LEMMA InsertAnalysisCarry ==
    ASSUME IInv, WholeInv, NEW r \in Requests, InsertAnalysis(r)
    PROVE  WholeInv'
<1>1. req[r].pc \in {"newRow", "copyRow"} /\ UNCHANGED rows
  BY DEF InsertAnalysis
<1>2. Keeps(r) /\ \A b \in Analyses : Blank(rows'[b])
  BY <1>1, SameRows
<1>3. PICK pc : pc = IF req[r].pc = "newRow" THEN "usage" ELSE "copyEntity"
  OBVIOUS
<1>4. PICK a \in Analyses \ made : Now(r, [req[r] EXCEPT !.a = a, !.pc = pc])
  BY <1>3 DEF InsertAnalysis
<1>5. PICK new : new = [req[r] EXCEPT !.a = a, !.pc = pc]
  OBVIOUS
<1>6. req[r] \in RequestType /\ Kinded(req[r])
  BY DEF IInv, ReqInv, WholeInv
<1>7. /\ new.pc = pc /\ new.a = a /\ new.kind = req[r].kind /\ new.alone = req[r].alone
  BY <1>5, <1>6 DEF RequestType
<1>8. pc \in {"usage", "copyEntity"}
  BY <1>3
<1>9. Knows(new)
  BY <1>7, <1>8, SMT DEF Knows
<1>10. (pc = "usage" => ~Writing(req[r])) /\ (pc = "copyEntity" => req[r].kind = "copy")
  <2>1. CASE req[r].pc = "newRow"
    <3>1. req[r].pc \notin SavePcs \cup CopyPcs \cup {"done"}
      BY <2>1, SMT DEF SavePcs, CopyPcs
    <3> QED BY <1>3, <1>6, <2>1, <3>1 DEF Kinded
  <2>2. CASE req[r].pc = "copyRow"
    <3>1. req[r].pc \in CopyPcs
      BY <2>2, SMT DEF CopyPcs
    <3> QED BY <1>3, <1>6, <2>2, <3>1 DEF Kinded
  <2> QED BY <1>1, <2>1, <2>2
<1>11. Kinded(new)
  BY <1>7, <1>8, <1>10, SMT DEF Kinded, Writing, SavePcs, CopyPcs
<1>12. Claims(new, rows'[new.a])
  <2>1. CASE pc = "usage"
    BY <1>7, <1>10, <2>1 DEF Claims, Writing
  <2>2. CASE pc = "copyEntity"
    <3>1. \A p \in CopyParts : ~Has(rows[a], p)
      BY CopyPartsFacts DEF IInv, RowsInv, Rooted
    <3> QED BY <1>1, <1>7, <1>10, <2>2, <3>1 DEF Claims, Copied
  <2> QED BY <1>8, <2>1, <2>2
<1> QED BY <1>2, <1>4, <1>5, <1>7, <1>9, <1>11, <1>12, Carries

LEMMA CreateAUsageCarry ==
    ASSUME IInv, WholeInv, NEW r \in Requests, CreateAUsage(r)
    PROVE  WholeInv'
<1>1. req[r].pc \in {"usage", "copyUsage"} /\ UNCHANGED rows
  BY DEF CreateAUsage
<1>2. Keeps(r) /\ \A b \in Analyses : Blank(rows'[b])
  BY <1>1, SameRows
<1>3. PICK pc : pc = IF req[r].pc = "usage" THEN "count" ELSE "done"
  OBVIOUS
<1>4. PICK new : new = [req[r] EXCEPT !.pc = pc]
  OBVIOUS
<1>5. Now(r, new)
  BY <1>3, <1>4 DEF CreateAUsage, Go
<1>6. req[r] \in RequestType /\ Kinded(req[r])
  BY DEF IInv, ReqInv, WholeInv
<1>7. new.pc = pc /\ new.seen = req[r].seen /\ Alike(new, req[r])
  BY <1>4, <1>6 DEF RequestType, Alike
<1>8. Knows(new)
  BY <1>3, <1>7, SMT DEF Knows
<1>9. CASE req[r].pc = "usage"
  <2>1. req[r].pc \notin SavePcs \cup CopyPcs \cup {"done"}
    BY <1>9, SMT DEF SavePcs, CopyPcs
  <2>2. ~Writing(req[r])
    BY <1>6, <2>1 DEF Kinded
  <2>3. ~Writing(new) /\ new.kind = req[r].kind /\ new.alone = req[r].alone /\ new.a = req[r].a
    BY <1>7, <2>2 DEF Writing, Alike
  <2>4. Kinded(new)
    BY <1>3, <1>7, <1>9, <2>3, SMT DEF Kinded, SavePcs, CopyPcs
  <2>5. Claims(new, rows'[new.a])
    BY <2>3 DEF Claims, Writing
  <2> QED BY <1>2, <1>5, <1>8, <2>3, <2>4, <2>5, Carries
<1>10. CASE req[r].pc = "copyUsage"
  <2>1. req[r].pc \in CopyPcs \ {"copyRow"} /\ pc = "done"
    BY <1>3, <1>10, CopySteps
  <2>2. req[r].alone => Copied(new, rows'[req[r].a])
    BY <1>1, <1>7, <1>10, <2>1, CopyFacts DEF Copied
  <2> QED BY <1>2, <1>5, <1>7, <1>8, <2>1, <2>2, CopyCarries
<1> QED BY <1>1, <1>9, <1>10

LEMMA UpdateUsageCountCarry ==
    ASSUME IInv, WholeInv, NEW r \in Requests, UpdateUsageCount(r)
    PROVE  WholeInv'
BY EndCarries, SameRows DEF UpdateUsageCount

LEMMA UpsertRParamCarry ==
    ASSUME IInv, WholeInv, NEW r \in Requests, UpsertRParam(r)
    PROVE  WholeInv'
<1>1. End(r)
  BY DEF UpsertRParam
<1>2. CASE UNCHANGED rows
  BY <1>1, <1>2, EndCarries, SameRows
<1>3. CASE Insert(req[r].a, "params", None)
  <2>1. PICK row \in NewRows(req[r].a, "params", None) : Put(req[r].a, "params", row)
    BY <1>3 DEF Insert
  <2>2. RowsInv /\ req[r].a \in Analyses /\ "params" \in Parts
    BY ReqFacts, PartsFacts DEF UpsertRParam
  <2>3. row.id # 0
    BY <2>2, NewRowType
  <2>4. Keeps(r) /\ \A b \in Analyses : Blank(rows'[b])
    BY <2>1, <2>2, <2>3, PutRows
  <2> QED BY <1>1, <2>4, EndCarries
<1> QED BY <1>2, <1>3 DEF UpsertRParam

LEMMA StumbleCarry ==
    ASSUME IInv, WholeInv, NEW r \in Requests, Stumble(r)
    PROVE  WholeInv'
<1>1. UNCHANGED rows /\ (Fails(r) \/ \E p \in req[r].todo : TaskFailed(r, p))
  BY DEF Stumble
<1> QED BY <1>1, FailsCarry, TaskFailedCarry

LEMMA RestartCarry ==
    ASSUME IInv, WholeInv, Restart
    PROVE  WholeInv'
<1>1. UNCHANGED rows /\ \A r \in Requests : req'[r] = Idle
  BY DEF Restart
<1>2. \A r \in Requests : Kinded(req'[r]) /\ Knows(req'[r]) /\ ~Writing(req'[r])
                          /\ Claims(req'[r], rows'[req'[r].a])
  BY <1>1, IdleWhole
<1>3. Apart'
  BY <1>2 DEF Apart, Writing
<1>4. \A a \in Analyses : Blank(rows'[a])
  BY <1>1 DEF WholeInv
<1> QED BY <1>2, <1>3, <1>4 DEF WholeInv

-----------------------------------------------------------------------------
(* A request begins. *)

LEMMA IdleFields == Idle.kind = "none" /\ Idle.a = None
BY DEF Idle

\* What a new request says of itself, whoever else is at work.
Fresh(new) ==
    \/ new.kind = "save" /\ new.pc \in {"find", "analyzer"}
    \/ new.kind = "copy" /\ new.pc = "copyRow" /\ new.a = None
    \/ new.kind \notin {"save", "copy"} /\ new.pc \in {"params", "newRow", "usage"}

LEMMA FreshFacts ==
    ASSUME NEW new, Fresh(new)
    PROVE  Kinded(new) /\ Knows(new) /\ \A t : Claims(new, t)
<1>1. Kinded(new)
  BY SMT DEF Fresh, Kinded, Writing, SavePcs, CopyPcs
<1>2. Knows(new)
  BY SMT DEF Fresh, Knows
<1>3. new.kind = "save" => \A t : Stored(new, t)
  BY SMT DEF Fresh, Stored, PastPd, PastAd, PastItem
<1>4. new.kind = "copy" => \A t : Copied(new, t)
  BY SMT DEF Fresh, Copied
<1> QED BY <1>1, <1>2, <1>3, <1>4 DEF Claims

\* Whether it was alone says nothing of its work.
LEMMA AloneFields ==
    ASSUME NEW q \in RequestType, NEW b, NEW new, new = [q EXCEPT !.alone = b]
    PROVE  /\ new.kind = q.kind /\ new.pc = q.pc /\ new.a = q.a /\ new.alone = b
           /\ Kinded(q) => Kinded(new)
           /\ Knows(q) => Knows(new)
           /\ Fresh(q) => Fresh(new)
<1>1. /\ new.kind = q.kind /\ new.pc = q.pc /\ new.a = q.a /\ new.alone = b
      /\ new.seen = q.seen /\ new.own = q.own
  BY DEF RequestType
<1>2. Kinded(q) => Kinded(new)
  BY <1>1 DEF Kinded, Writing
<1>3. Knows(q) => Knows(new)
  BY <1>1 DEF Knows
<1>4. Fresh(q) => Fresh(new)
  BY <1>1 DEF Fresh
<1> QED BY <1>1, <1>2, <1>3, <1>4

LEMMA StartCarry ==
    ASSUME IInv, WholeInv, NEW r \in Requests, NEW new \in RequestType, Fresh(new), Start(r, new)
    PROVE  WholeInv'
<1>1. PICK b : b = (new.a = None \/ \A t \in Requests : ~Writes(t, new.a))
  OBVIOUS
<1>2. PICK first : first = [new EXCEPT !.alone = b]
  OBVIOUS
<1>3. req'[r] = first /\ UNCHANGED rows
  BY <1>1, <1>2 DEF Start
<1>4. /\ first.kind = new.kind /\ first.a = new.a /\ first.alone = b /\ Fresh(first)
  BY <1>2, AloneFields
<1>5. ASSUME NEW s \in Requests, s # r
      PROVE  /\ req'[s].kind = req[s].kind /\ req'[s].a = req[s].a
             /\ Kinded(req'[s]) /\ Knows(req'[s])
             /\ req'[s].alone => req'[s] = req[s] /\ ~(new.kind = "save" /\ Writes(s, new.a))
  <2>1. req[s] \in RequestType /\ Kinded(req[s]) /\ Knows(req[s])
    BY DEF IInv, ReqInv, WholeInv
  <2>2. CASE new.kind = "save" /\ Writes(s, new.a)
    <3>1. req'[s] = [req[s] EXCEPT !.alone = FALSE]
      BY <1>5, <2>2 DEF Start
    <3>2. PICK other : other = [req[s] EXCEPT !.alone = FALSE]
      OBVIOUS
    <3>3. other.alone = FALSE /\ other.kind = req[s].kind /\ other.a = req[s].a
          /\ Kinded(other) /\ Knows(other)
      BY <2>1, <3>2, AloneFields
    <3> QED BY <3>1, <3>2, <3>3
  <2>3. CASE ~(new.kind = "save" /\ Writes(s, new.a))
    <3>1. req'[s] = req[s]
      BY <1>5, <2>3 DEF Start
    <3> QED BY <2>1, <2>3, <3>1
  <2> QED BY <2>2, <2>3
<1>6. Apart'
  <2> SUFFICES ASSUME NEW p \in Requests, NEW s \in Requests, Writing(req'[p]), Writing(req'[s]),
                      req'[p].alone, req'[p].a # None, req'[s].a = req'[p].a, p # s
               PROVE  FALSE
    BY DEF Apart, Writing
  <2>1. CASE p = r
    <3>1. new.a = req[s].a /\ new.a # None /\ Writing(req[s])
      BY <1>3, <1>4, <1>5, <2>1 DEF Writing
    <3>2. ~Writes(s, new.a)
      BY <1>1, <1>3, <1>4, <2>1, <3>1
    <3> QED BY <3>1, <3>2 DEF Writes, Writing
  <2>2. CASE s = r
    <3>1. new.a = req[p].a /\ Writing(req[p]) /\ Writing(new) /\ new.a # None
      BY <1>3, <1>4, <1>5, <2>2 DEF Writing
    <3>2. new.kind = "save"
      BY <3>1 DEF Fresh, Writing
    <3>3. Writes(p, new.a)
      BY <3>1 DEF Writes, Writing
    <3> QED BY <1>5, <2>2, <3>2, <3>3
  <2>3. CASE p # r /\ s # r
    <3>1. Writing(req[p]) /\ Writing(req[s]) /\ req[p].alone /\ req[p].a # None /\ req[s].a = req[p].a
      BY <1>5, <2>3 DEF Writing
    <3> QED BY <3>1 DEF WholeInv, Apart
  <2> QED BY <2>1, <2>2, <2>3
<1>7. ASSUME NEW s \in Requests
      PROVE  /\ Kinded(req'[s]) /\ Knows(req'[s])
             /\ req'[s].alone => Claims(req'[s], rows'[req'[s].a])
  <2>1. CASE s = r
    BY <1>3, <1>4, <2>1, FreshFacts
  <2>2. CASE s # r
    BY <1>3, <1>5, <2>2 DEF WholeInv
  <2> QED BY <2>1, <2>2
<1>8. \A a \in Analyses : Blank(rows'[a])
  BY <1>3 DEF WholeInv
<1> QED BY <1>6, <1>7, <1>8 DEF WholeInv

LEMMA SaveCarry ==
    ASSUME IInv, WholeInv, NEW r \in Requests, NEW a \in Analyses, NEW f \in Forms, Save(r, a, f)
    PROVE  WholeInv'
<1>1. PICK t \in Tree : t = ReadAnalysis(a)
  BY ReadType
<1>2. PICK pc \in {"find", "analyzer"} :
          Start(r, [Idle EXCEPT !.kind = "save", !.a = a, !.form = f, !.seen = t, !.pc = pc])
  BY <1>1 DEF Save
<1>3. PICK new : new = [Idle EXCEPT !.kind = "save", !.a = a, !.form = f, !.seen = t, !.pc = pc]
  OBVIOUS
<1>4. pc \in Pcs
  BY SMT DEF Pcs, SavePcs
<1>5. new \in RequestType /\ new.kind = "save" /\ new.pc = pc
  BY <1>3, <1>4, IdleType DEF RequestType
<1>6. Fresh(new)
  BY <1>5 DEF Fresh
<1> QED BY <1>2, <1>3, <1>5, <1>6, StartCarry

LEMMA SummaryCarry ==
    ASSUME IInv, WholeInv, NEW r \in Requests, NEW a \in Analyses, Summary(r, a)
    PROVE  WholeInv'
<1>1. PICK t \in Tree : t = ReadAnalysis(a)
  BY ReadType
<1>2. PICK new : new = [Idle EXCEPT !.kind = "summary", !.a = a, !.seen = t, !.pc = "params"]
  OBVIOUS
<1>3. Start(r, new)
  BY <1>1, <1>2 DEF Summary
<1>4. "params" \in Pcs
  BY SMT DEF Pcs
<1>5. new \in RequestType /\ new.kind = "summary" /\ new.pc = "params"
  BY <1>2, <1>4, IdleType DEF RequestType
<1>6. Fresh(new)
  BY <1>5 DEF Fresh
<1> QED BY <1>3, <1>5, <1>6, StartCarry

LEMMA CreateAnalysisCarry ==
    ASSUME IInv, WholeInv, NEW r \in Requests, CreateAnalysis(r)
    PROVE  WholeInv'
<1>1. PICK new : new = [Idle EXCEPT !.kind = "create", !.count = count, !.pc = "newRow"]
  OBVIOUS
<1>2. Start(r, new)
  BY <1>1 DEF CreateAnalysis
<1>3. "newRow" \in Pcs /\ count \in Nat
  BY SMT DEF Pcs, IInv, CountInv
<1>4. new \in RequestType /\ new.kind = "create" /\ new.pc = "newRow"
  BY <1>1, <1>3, IdleType DEF RequestType
<1>5. Fresh(new)
  BY <1>4 DEF Fresh
<1> QED BY <1>2, <1>4, <1>5, StartCarry

LEMMA SaveUsageCarry ==
    ASSUME IInv, WholeInv, NEW r \in Requests, NEW a \in Analyses, SaveUsage(r, a)
    PROVE  WholeInv'
<1>1. PICK new : new = [Idle EXCEPT !.kind = "use", !.a = a, !.count = count, !.pc = "usage"]
  OBVIOUS
<1>2. Start(r, new)
  BY <1>1 DEF SaveUsage
<1>3. "usage" \in Pcs /\ count \in Nat
  BY SMT DEF Pcs, IInv, CountInv
<1>4. new \in RequestType /\ new.kind = "use" /\ new.pc = "usage"
  BY <1>1, <1>3, IdleType DEF RequestType
<1>5. Fresh(new)
  BY <1>4 DEF Fresh
<1> QED BY <1>2, <1>4, <1>5, StartCarry

LEMMA DuplicateAnalysisCarry ==
    ASSUME IInv, WholeInv, NEW r \in Requests, NEW src \in Analyses, DuplicateAnalysis(r, src)
    PROVE  WholeInv'
<1>1. PICK t : t = With(Idle.seen, "analyzer", rows[src]["analyzer"])
  OBVIOUS
<1>2. t \in Tree
  <2>1. Idle.seen \in Tree
    BY IdleType DEF RequestType
  <2>2. "analyzer" \in Parts
    BY PartsFacts DEF Trunk
  <2>3. rows[src]["analyzer"] \in Row
    BY <2>2 DEF IInv, RowsInv, Tree
  <2> QED BY <1>1, <2>1, <2>2, <2>3, WithType
<1>3. PICK new : new = [Idle EXCEPT !.kind = "copy", !.src = src, !.pc = "copyRow", !.seen = t]
  OBVIOUS
<1>4. Start(r, new)
  BY <1>1, <1>3 DEF DuplicateAnalysis
<1>5. "copyRow" \in Pcs
  BY SMT DEF Pcs, CopyPcs
<1>6. new \in RequestType /\ new.kind = "copy" /\ new.pc = "copyRow" /\ new.a = Idle.a
  BY <1>2, <1>3, <1>5, IdleType DEF RequestType
<1>7. Fresh(new)
  BY <1>6, IdleFields DEF Fresh
<1> QED BY <1>4, <1>6, <1>7, StartCarry

-----------------------------------------------------------------------------
(* The theorems. *)

LEMMA WholeInit ==
    ASSUME Init
    PROVE  WholeInv
<1>1. \A r \in Requests : Kinded(req[r]) /\ Knows(req[r]) /\ ~Writing(req[r])
                          /\ Claims(req[r], rows[req[r].a])
  BY IdleWhole DEF Init
<1>2. Apart
  BY <1>1 DEF Apart
<1>3. Blank(NoTree)
  BY SMT DEF Blank, NoTree
<1>4. \A a \in Analyses : Blank(rows[a])
  BY <1>3 DEF Init
<1> QED BY <1>1, <1>2, <1>4 DEF WholeInv

LEMMA WholeStep ==
    ASSUME IInv, WholeInv, Next
    PROVE  WholeInv'
<1>1. CASE Restart
  BY <1>1, RestartCarry
<1>2. CASE \E r \in Requests : SaveStep(r)
  BY <1>2, SaveCarry, CreateRAnalyzerCarry, FindBuilderCarry, CreateABuilderCarry,
     DeletePDetailsUnitsCarry, CreatePDetailsUnitsCarry, UpdatePDetailsCarry,
     CreatePDetailsCarry, CleanUpCarry, CreateADetailsCarry, DeleteAdItemizedCarry,
     UpdateADetailsCarry, UpdateAdItemizedCarry, CreateAdItemizedCarry, CreateRepairsCarry,
     ReconcileRepairsCarry, FinishRepairsCarry, WriteRepairItemCarry, UpsertFExpensesCarry,
     AnswerCarry, FinishCarry
     DEF SaveStep
<1>3. CASE \E r \in Requests : OtherStep(r)
  BY <1>3, SummaryCarry, SaveUsageCarry, DuplicateAnalysisCarry, UpsertRParamCarry,
     CreateAnalysisCarry, InsertAnalysisCarry, CreateAUsageCarry, UpdateUsageCountCarry,
     CreateModuleEntityCarry, GetExistingBuilderCarry, CopyBuilderCarry, ClonedCarry,
     ClonePartCarry
     DEF OtherStep
<1>4. CASE \E r \in Requests : Stumble(r)
  BY <1>4, StumbleCarry
<1> QED BY <1>1, <1>2, <1>3, <1>4 DEF Next

LEMMA WholeStutter ==
    ASSUME WholeInv, UNCHANGED vars
    PROVE  WholeInv'
<1>1. rows' = rows /\ req' = req
  BY DEF vars
<1>2. Apart'
  BY <1>1 DEF WholeInv, Apart, Writing
<1>3. \A r \in Requests : Kinded(req'[r]) /\ Knows(req'[r])
                          /\ (req'[r].alone => Claims(req'[r], rows'[req'[r].a]))
  BY <1>1 DEF WholeInv
<1>4. \A a \in Analyses : Blank(rows'[a])
  BY <1>1 DEF WholeInv
<1> QED BY <1>2, <1>3, <1>4 DEF WholeInv

\* A save that is answered, and had the analysis to itself, shows every section
\* and item of its form, whatever it found there and whatever failed on the way.
THEOREM WholeAnswers == Spec => []AnswerWhole
<1>1. Init => IInv /\ WholeInv
  BY InitSafe, WholeInit
<1>2. IInv /\ WholeInv /\ [Next]_vars => IInv' /\ WholeInv'
  BY StepSafe, StutterSafe, WholeStep, WholeStutter
<1>3. IInv /\ WholeInv => AnswerWhole
  BY DEF WholeInv, Claims, Stored, AnswerWhole
<1> QED
  BY <1>1, <1>2, <1>3, PTL DEF Spec

\* A duplicate that is answered, and that nobody has saved yet, holds exactly the
\* sections and items its original held when it was read.
THEOREM CopiesMatch == Spec => []CopyMatches
<1>1. Init => IInv /\ WholeInv
  BY InitSafe, WholeInit
<1>2. IInv /\ WholeInv /\ [Next]_vars => IInv' /\ WholeInv'
  BY StepSafe, StutterSafe, WholeStep, WholeStutter
<1>3. IInv /\ WholeInv => CopyMatches
  BY DEF WholeInv, Claims, Copied, Matches, CopyMatches
<1> QED
  BY <1>1, <1>2, <1>3, PTL DEF Spec
=============================================================================
