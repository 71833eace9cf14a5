------------------------------ MODULE CachePages ------------------------------
(***************************************************************************)
(* A cached list: helpers/cache/cache.service and its callers.             *)
(*                                                                         *)
(* One list, whose query is the sequence table.  Redis keeps its pages,    *)
(* each with a time to live; those of one tranche get the same.  A step is *)
(* one query or one Redis command; the process sends its commands over one *)
(* connection, in order, so a SET and its answer are one step.  The total  *)
(* of an answer, counted by a query of its own, is left out.               *)
(***************************************************************************)
EXTENDS Naturals, SequencesExt, FiniteSetsExt

CONSTANTS
    Readers,        \* reads that may be in flight at once
    Writers,        \* changes of the list that may be in flight at once
    MaxElement,     \* rows in a tranche: cacheMaxElement
    SegmentSize,    \* rows in a page of the cache: segmentSize
    Queries,        \* first row and number of rows a client asks for
    InitialRows,    \* rows in the list at first
    MaxWrites,      \* bound: changes of the list
    MaxFailures     \* bound: failed commands and crashes

ASSUME CacheAssumption ==
    /\ MaxElement \in Nat \ {0}
    /\ SegmentSize \in Nat \ {0}
    /\ Queries \subseteq [start : Nat, limit : Nat \ {0}]
    /\ InitialRows \in Nat
    /\ MaxWrites \in Nat
    /\ MaxFailures \in Nat

VARIABLES
    table,      \* the rows of the list (Row), newest first
    cache,      \* Redis: a Page by tranche and number
    newer,      \* for each key that expires, the pages of its tranche SET after it
    read,       \* reads in flight, and the fills they leave: a Request each
    write,      \* changes in flight
    changes,    \* changes so far
    failures    \* failures so far

cacheVars == <<table, cache, newer, read, write, changes, failures>>

-----------------------------------------------------------------------------
\* Rounded up.
PagesOf(rows) == (rows + SegmentSize - 1) \div SegmentSize

\* JavaScript's slice, from index 0.
Slice(s, from, count) == SubSeq(s, from + 1, Min({from + count, Len(s)}))

TrancheOf(start) == start \div MaxElement

Tranches == {TrancheOf(q.start) : q \in Queries}

Keys == Tranches \X (1 .. PagesOf(MaxElement))

Row == 1 .. InitialRows + MaxWrites

\* of: the number of pages of the fill.  old: the list changed after its rows
\* were read.  torn: an invalidation was under way beside the fill.
Page == [rows : Seq(Row), of : Nat, old : BOOLEAN, torn : BOOLEAN]

NoRead == [pc |-> "idle", start |-> 0, limit |-> 0, page |-> 0, items |-> <<>>,
         quiet |-> FALSE, old |-> FALSE, torn |-> FALSE]

Request == [pc : {"idle", "look", "get", "fetch", "reply", "fresh", "fill"}, start : Nat,
            limit : Nat, page : Nat, items : Seq(Row),
            quiet : BOOLEAN, old : BOOLEAN, torn : BOOLEAN]

NoWrite == [pc |-> "idle", todo |-> {}]

CacheInit ==
    /\ table = [i \in 1 .. InitialRows |-> i]
    /\ cache = <<>>
    /\ newer = <<>>
    /\ read = [r \in Readers |-> NoRead]
    /\ write = [w \in Writers |-> NoWrite]
    /\ changes = 0
    /\ failures = 0

-----------------------------------------------------------------------------
Cached(t, p) == <<t, p>> \in DOMAIN cache

Writing == \E w \in Writers : write[w] # NoWrite

\* A read is quiet while nobody else changes what it may see.
Noticed(requests) == [r \in Readers |-> [requests[r] EXCEPT !.quiet = FALSE]]

\* Nothing is under way about a tranche, and its pages are of one fill.
Settled(t) ==
    /\ ~Writing
    /\ failures = 0
    /\ \A r \in Readers : read[r].pc \in {"fresh", "fill"} => TrancheOf(read[r].start) # t
    /\ \A k \in DOMAIN cache : k[1] = t => ~cache[k].old /\ ~cache[k].torn

Forget(keys) ==
    /\ cache' = [k \in DOMAIN cache \ keys |-> cache[k]]
    /\ newer' = [k \in DOMAIN newer \ keys |-> {p \in newer[k] : <<k[1], p>> \notin keys}]

(* Reading. *)

\* retrieveGenericPaginated.
AskList(r, q) ==
    /\ read[r].pc = "idle"
    /\ read' = [read EXCEPT ![r] = [NoRead EXCEPT !.pc = "look", !.start = q.start, !.limit = q.limit,
                                             !.quiet = Settled(TrancheOf(q.start))]]
    /\ UNCHANGED <<table, cache, newer, write, changes, failures>>

\* getSmartPaginatedResult looks for page 1 of the tranche; the first page to
\* get is getItemsFromCacheByRange's.
Look(r) ==
    LET q == read[r]
        first == ((q.start % MaxElement) \div SegmentSize) + 1
    IN  /\ q.pc = "look"
        /\ read' = IF Cached(TrancheOf(q.start), 1)
                  THEN [read EXCEPT ![r].pc = "get", ![r].page = first]
                  ELSE [read EXCEPT ![r].pc = "fetch"]
        /\ UNCHANGED <<table, cache, newer, write, changes, failures>>

\* A page that is missing is skipped.
GetPage(r) ==
    LET q == read[r]
        t == TrancheOf(q.start)
        last == (((q.start % MaxElement) + q.limit - 1) \div SegmentSize) + 1
        found == IF Cached(t, q.page) THEN cache[<<t, q.page>>].rows ELSE <<>>
    IN  /\ q.pc = "get"
        /\ read' = [read EXCEPT ![r] = [q EXCEPT !.items = @ \o found,
                                              !.page = @ + 1,
                                              !.pc = IF q.page < last THEN "get" ELSE "reply"]]
        /\ UNCHANGED <<table, cache, newer, write, changes, failures>>

\* getMany: the rows of the tranche.
Fetch(r) ==
    LET q == read[r]
    IN  /\ q.pc = "fetch"
        /\ read' = [read EXCEPT ![r].items = Slice(table, TrancheOf(q.start) * MaxElement, MaxElement),
                              ![r].torn = Writing,
                              ![r].pc = "fresh"]
        /\ UNCHANGED <<table, cache, newer, write, changes, failures>>

\* Mutant: the place in a page is counted from the start of the list.
AnswerOf_absolute(q) ==
    Slice(q.items, IF q.pc = "fresh" THEN q.start % MaxElement ELSE q.start % SegmentSize, q.limit)

\* What the client gets, of the pages or of the tranche.
AnswerOf(q) ==
    LET inTranche == q.start % MaxElement
    IN  Slice(q.items, IF q.pc = "fresh" THEN inTranche ELSE inTranche % SegmentSize, q.limit)

\* The answer is sent; setImmediate leaves the fill, of no page if there are no
\* rows.
Reply(r) ==
    LET q == read[r]
    IN  /\ q.pc \in {"reply", "fresh"}
        /\ read' = [read EXCEPT ![r] = IF q.pc = "fresh" /\ q.items # <<>>
                                     THEN [q EXCEPT !.pc = "fill", !.page = 1, !.quiet = FALSE]
                                     ELSE NoRead]
        /\ UNCHANGED <<table, cache, newer, write, changes, failures>>

-----------------------------------------------------------------------------
(* Filling: cacheSegmentedResults, a page at a time. *)

PageOf(q) == [rows |-> Slice(q.items, (q.page - 1) * SegmentSize, SegmentSize),
              of |-> PagesOf(Len(q.items)), old |-> q.old, torn |-> q.torn]

Filled(q) == IF q.page < PagesOf(Len(q.items)) THEN [q EXCEPT !.page = @ + 1] ELSE NoRead

\* Page p of tranche t, SET now, lives longer than the pages there were.
SetLast(t, p) ==
    [k \in DOMAIN newer \cup {<<t, p>>} |->
       IF k = <<t, p>> THEN {} ELSE IF k[1] = t THEN newer[k] \cup {p} ELSE newer[k]]

\* Mutant: a SET of a key that exists keeps its time to live.
StorePage_keepExpiry(r) ==
    LET q == read[r]
        t == TrancheOf(q.start)
    IN  /\ q.pc = "fill"
        /\ cache' = [k \in DOMAIN cache \cup {<<t, q.page>>} |->
                       IF k = <<t, q.page>> THEN PageOf(q) ELSE cache[k]]
        /\ newer' = IF <<t, q.page>> \in DOMAIN newer THEN newer ELSE SetLast(t, q.page)
        /\ read' = [Noticed(read) EXCEPT ![r] = Filled(q)]
        /\ UNCHANGED <<table, write, changes, failures>>

\* Mutant: SET without EX.
StorePage_noExpiry(r) ==
    LET q == read[r]
        t == TrancheOf(q.start)
    IN  /\ q.pc = "fill"
        /\ cache' = [k \in DOMAIN cache \cup {<<t, q.page>>} |->
                       IF k = <<t, q.page>> THEN PageOf(q) ELSE cache[k]]
        /\ read' = [Noticed(read) EXCEPT ![r] = Filled(q)]
        /\ UNCHANGED <<table, newer, write, changes, failures>>

StorePage(r) ==
    LET q == read[r]
        t == TrancheOf(q.start)
    IN  /\ q.pc = "fill"
        /\ cache' = [k \in DOMAIN cache \cup {<<t, q.page>>} |->
                       IF k = <<t, q.page>> THEN PageOf(q) ELSE cache[k]]
        /\ newer' = SetLast(t, q.page)
        /\ read' = [Noticed(read) EXCEPT ![r] = Filled(q)]
        /\ UNCHANGED <<table, write, changes, failures>>

\* A SET that fails is logged.
StoreFails(r) ==
    /\ read[r].pc = "fill"
    /\ failures < MaxFailures
    /\ failures' = failures + 1
    /\ read' = [Noticed(read) EXCEPT ![r] = Filled(read[r])]
    /\ UNCHANGED <<table, cache, newer, write, changes>>

\* Redis drops the page of a tranche that was set first: they live equally long.
Expire(t) ==
    /\ \E k \in DOMAIN newer :
         /\ k[1] = t
         /\ \A j \in DOMAIN newer : j[1] = t => k[2] \notin newer[j]
         /\ Forget({k})
    /\ read' = Noticed(read)
    /\ UNCHANGED <<table, write, changes, failures>>

-----------------------------------------------------------------------------
(* Changing the list: the row first, then deleteKeysByBase. *)

\* What reads took from the list until now is old.
Overtaken == [r \in Readers |-> [read[r] EXCEPT !.quiet = FALSE,
                                    !.old = @ \/ read[r].pc \in {"fresh", "fill"},
                                    !.torn = @ \/ read[r].pc \in {"fresh", "fill"}]]

Insert(w) ==
    /\ write[w] = NoWrite
    /\ changes < MaxWrites
    /\ changes' = changes + 1
    /\ table' = <<InitialRows + changes + 1>> \o table
    /\ write' = [write EXCEPT ![w].pc = "written"]
    /\ read' = Overtaken
    /\ UNCHANGED <<cache, newer, failures>>

Delete(w) ==
    /\ write[w] = NoWrite
    /\ changes < MaxWrites
    /\ changes' = changes + 1
    /\ \E i \in DOMAIN table : table' = RemoveAt(table, i)
    /\ write' = [write EXCEPT ![w].pc = "written"]
    /\ read' = Overtaken
    /\ UNCHANGED <<cache, newer, failures>>

\* Mutant: the pattern names the first tranche.
Scan_first(w) ==
    /\ write[w].pc = "written"
    /\ write' = [write EXCEPT ![w] = [pc |-> "sweep", todo |-> {k \in DOMAIN cache : k[1] = 0}]]
    /\ UNCHANGED <<table, cache, newer, read, changes, failures>>

\* The SCAN returns the keys there are now and stay, and perhaps later ones.
Scan(w) ==
    /\ write[w].pc = "written"
    /\ write' = [write EXCEPT ![w] = [pc |-> "sweep", todo |-> DOMAIN cache]]
    /\ UNCHANGED <<table, cache, newer, read, changes, failures>>

Unlink(w) ==
    /\ write[w].pc = "sweep"
    /\ \E k \in DOMAIN cache :
         /\ Forget({k})
         /\ write' = [write EXCEPT ![w].todo = @ \ {k}]
    /\ read' = [r \in Readers |-> [read[r] EXCEPT !.quiet = FALSE,
                                    !.torn = @ \/ read[r].pc \in {"fresh", "fill"}]]
    /\ UNCHANGED <<table, changes, failures>>

\* Keys that went otherwise need no DEL.
Swept(w) ==
    /\ write[w].pc = "sweep"
    /\ write[w].todo \cap DOMAIN cache = {}
    /\ write' = [write EXCEPT ![w] = NoWrite]
    /\ UNCHANGED <<table, cache, newer, read, changes, failures>>

\* The invalidation fails: nobody tries again.
SweepFails(w) ==
    /\ write[w] # NoWrite
    /\ failures < MaxFailures
    /\ failures' = failures + 1
    /\ write' = [write EXCEPT ![w] = NoWrite]
    /\ read' = Noticed(read)
    /\ UNCHANGED <<table, cache, newer, changes>>

\* The process ends; Redis and the database go on.
CacheRestart ==
    /\ failures < MaxFailures
    /\ failures' = failures + 1
    /\ read' = [r \in Readers |-> NoRead]
    /\ write' = [w \in Writers |-> NoWrite]
    /\ UNCHANGED <<table, cache, newer, changes>>

-----------------------------------------------------------------------------
Read(r) == Look(r) \/ GetPage(r) \/ Fetch(r) \/ Reply(r) \/ StorePage(r)

Change(w) == Insert(w) \/ Delete(w)

Invalidate(w) == Scan(w) \/ Unlink(w) \/ Swept(w)

CacheNext ==
    \/ \E r \in Readers : (\E q \in Queries : AskList(r, q)) \/ Read(r) \/ StoreFails(r)
    \/ \E w \in Writers : Change(w) \/ Invalidate(w) \/ SweepFails(w)
    \/ \E t \in Tranches : Expire(t)
    \/ CacheRestart

\* Time passes.  No request, fill or invalidation has to be finished.
Fairness == \A t \in Tranches : WF_cacheVars(Expire(t))

CacheSpec == CacheInit /\ [][CacheNext]_cacheVars /\ Fairness

-----------------------------------------------------------------------------
(* Properties. *)

\* What the list has where a page is.
Segment(k) == Slice(Slice(table, k[1] * MaxElement, MaxElement), (k[2] - 1) * SegmentSize, SegmentSize)

\* StaleOnlyCrossed: once the invalidations that follow the changes are done, a
\* page differs from the list only if its fill had read the list before a
\* change and stored the page after it (the fill runs in the background, and
\* nothing tells it of the change).
StaleOnlyCrossed ==
    ~Writing /\ failures = 0 =>
        \A k \in DOMAIN cache : cache[k].old \/ cache[k].rows = Segment(k)

\* NoHole: while no fill or invalidation is under way, a tranche whose page 1 is
\* there has all pages of that fill, though each expires by itself: only
\* page 1 is looked for.  (Not so after a fill beside an invalidation.)
NoHole ==
    failures = 0 /\ ~Writing =>
        \A t \in Tranches :
            /\ Cached(t, 1)
            /\ ~cache[<<t, 1>>].torn
            /\ \A r \in Readers : read[r].pc = "fill" => TrancheOf(read[r].start) # t
            => \A p \in 1 .. cache[<<t, 1>>].of : Cached(t, p)

\* AnswerIsSlice: a read that nothing disturbs gets the rows it asked for up to
\* the end of its tranche, the same from the cache as from the database.
\* (Rows it asked for beyond the tranche are not in its answer.)
AnswerIsSlice ==
    \A r \in Readers :
        LET q == read[r]
        IN  q.pc \in {"reply", "fresh"} /\ q.quiet =>
              AnswerOf(q) = Slice(table, q.start, Min({q.limit, MaxElement - (q.start % MaxElement)}))

\* TrueAtLast: when the list no longer changes, its pages end up right for good,
\* whatever fill came late and whatever invalidation failed: every page is
\* set with a time to live, and reading does not extend it.
TrueAtLast == <>[](\A k \in DOMAIN cache : cache[k].rows = Segment(k))

=============================================================================
