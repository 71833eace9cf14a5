------------------------------ MODULE Content ------------------------------
(***************************************************************************)
(* Guides and advertisements, the files they show and the counters of      *)
(* their lists: core/guides, core/ads, core/files and helpers/base-stats.  *)
(*                                                                         *)
(* A file is an object in a storage and a row; what shows a file holds a   *)
(* row of file_links that points to it.  A step is one query.  Once a      *)
(* write is answered, a setImmediate callback takes the old link away and, *)
(* with the last link, the file: a callback that throws is an unhandled    *)
(* rejection, which ends the Node process.  Labels, texts, dates, sockets  *)
(* and the cache are left out; so is every request refused at its first    *)
(* queries, which changes nothing.                                         *)
(***************************************************************************)
EXTENDS Integers, FiniteSets

CONSTANTS
    Files,          \* pool of uploads
    Guides,         \* pool of ids of guides
    Ads,            \* pool of ids of ads_entry
    Statuses,       \* draft and published; scheduled, running and expired
    Requests,       \* requests that may be in flight at once
    None,           \* no value
    MaxLinks,       \* bound: links made
    MaxRequests,    \* bound: requests, uploads aside
    MaxFaults       \* bound: failed queries and restarts from outside

ASSUME ContentAssumption ==
    /\ Guides \cap Ads = {}
    /\ None \notin Files \cup Guides \cup Ads \cup Statuses
    /\ "total" \notin Statuses
    /\ MaxLinks \in Nat
    /\ MaxRequests \in Nat
    /\ MaxFaults \in Nat

VARIABLES
    files,      \* each file: its object and its row
    links,      \* table file_links, by id in the order of insertion
    rows,       \* tables guides and ads_entry
    stats,      \* the single row of guides_stats and that of ads_stats
    req,        \* requests in flight, their callbacks included
    made,       \* links made so far
    begun,      \* requests begun so far
    faults,     \* faults so far, and ends of the process
    swept,      \* files without a link at the count of a clean-up
    calm,       \* so far no two writes of a kind met, and none broke off with its counter open
    shown       \* the links that each row has shown so far

contentVars == <<files, links, rows, stats>>
ghosts == <<swept, calm, shown>>
vars == <<contentVars, req, made, begun, faults, ghosts>>

-----------------------------------------------------------------------------
Rows == Guides \cup Ads
Kinds == {"guide", "ad"}
KindOf(g) == IF g \in Guides THEN "guide" ELSE "ad"

LinkIds == 1 .. MaxLinks

\* late: made when a clean-up of the file had counted no link.
NoLink == [state |-> "none", file |-> None, late |-> FALSE]
Link == [state : {"live", "unlinked", "cascaded"}, file : Files, late : BOOLEAN]

NoRow == [state |-> "none", link |-> 0, status |-> None]
Row == [state : {"there", "gone"}, link : LinkIds, status : Statuses]

Counters == [Statuses \cup {"total"} -> Int]
NoCounts == [c \in Statuses \cup {"total"} |-> 0]

\* old: the row as it was read; to: the status asked for; found: the category was.
Idle == [pc |-> "idle", op |-> "none", row |-> None, file |-> None, link |-> 0,
         old |-> NoRow, to |-> None, found |-> TRUE, counts |-> NoCounts]

Cleaning == {"cleanFind", "unlink", "count", "object", "row"}
Counting == {"reload", "readCounts", "writeCounts"}
Foreground == {"find", "link", "persist", "apply", "delete"} \cup Counting

Request == [pc : {"saveFile"} \cup Foreground \cup Cleaning,
            op : {"upload", "attach", "create", "update", "delete"},
            row : Rows \cup {None}, file : Files \cup {None}, link : LinkIds \cup {0},
            old : Row \cup {NoRow}, to : Statuses \cup {None}, found : BOOLEAN,
            counts : Counters]

Init ==
    /\ files = [f \in Files |-> "none"]
    /\ links = [l \in LinkIds |-> NoLink]
    /\ rows = [g \in Rows |-> NoRow]
    /\ stats = [k \in Kinds |-> NoCounts]
    /\ req = [r \in Requests |-> Idle]
    /\ made = 0
    /\ begun = 0
    /\ faults = 0
    /\ swept = {}
    /\ calm = [k \in Kinds |-> TRUE]
    /\ shown = [g \in Rows |-> {}]

-----------------------------------------------------------------------------
LinksOf(f) == {l \in LinkIds : links[l].state = "live" /\ links[l].file = f}

\* A foreign key without ON DELETE: a link that a guide or an ad shows stays.
Shown(l) == \E g \in Rows : rows[g].state = "there" /\ rows[g].link = l

Respond(r) == req' = [req EXCEPT ![r] = Idle]
Goto(r, pc) == req' = [req EXCEPT ![r].pc = pc]

Busy(k) == \E r \in Requests :
    req[r].pc \in Foreground /\ req[r].row # None /\ KindOf(req[r].row) = k

\* Kinds of which a write has changed the row and not yet its counter.
Open(R) == {KindOf(req[r].row) : r \in {s \in R : req[s].pc \in Counting}}

\* A request with its first queries behind it.
Begin(r, request) ==
    /\ req[r].pc = "idle"
    /\ begun < MaxRequests
    /\ begun' = begun + 1
    /\ req' = [req EXCEPT ![r] = request]
    /\ calm' = IF request.row = None THEN calm
               ELSE [calm EXCEPT ![KindOf(request.row)] = @ /\ ~Busy(KindOf(request.row))]
    /\ UNCHANGED <<contentVars, made, faults, swept, shown>>

\* The process ends with all it was doing, and is started again.
ProcessEnds ==
    /\ req' = [r \in Requests |-> Idle]
    /\ faults' = faults + 1
    /\ calm' = [k \in Kinds |-> calm[k] /\ k \notin Open(Requests)]

-----------------------------------------------------------------------------
\* createFileFromUpload: first the object ...
UploadObject(r, f) ==
    /\ req[r].pc = "idle"
    /\ files[f] = "none"
    /\ files' = [files EXCEPT ![f] = "object"]
    /\ req' = [req EXCEPT ![r] = [Idle EXCEPT !.pc = "saveFile", !.op = "upload", !.file = f]]
    /\ UNCHANGED <<links, rows, stats, made, begun, faults, ghosts>>

\* ... then the row that names it.
UploadRow(r) ==
    /\ req[r].pc = "saveFile"
    /\ files' = [files EXCEPT ![req[r].file] = "stored"]
    /\ Respond(r)
    /\ UNCHANGED <<links, rows, stats, made, begun, faults, ghosts>>

\* linkFilesToEntity, for a message: its link belongs to no guide and no ad.
Attach(r, f) == Begin(r, [Idle EXCEPT !.pc = "find", !.op = "attach", !.file = f])

\* createGuide, createAds.  The category of a guide is looked up beside the
\* linking of its file: the answer 404 does not stop the link.
Create(r, g, f, status, found) ==
    /\ rows[g] = NoRow
    /\ \A s \in Requests : req[s].op = "create" => req[s].row # g
    /\ ~found => g \in Guides
    /\ Begin(r, [Idle EXCEPT !.pc = "find", !.op = "create", !.row = g, !.file = f,
                             !.to = status, !.found = found])

\* updateGuide, updateAds, toggleAds: what the body names, after the row is read.
Update(r, g, f, status) ==
    /\ rows[g].state = "there"
    /\ Begin(r, [Idle EXCEPT !.pc = IF f = None THEN "apply" ELSE "find", !.op = "update",
                             !.row = g, !.file = f, !.old = rows[g], !.to = status])

\* deleteGuide; no request deletes an ad.
Delete(r, g) ==
    /\ g \in Guides
    /\ rows[g].state = "there"
    /\ Begin(r, [Idle EXCEPT !.pc = "delete", !.op = "delete", !.row = g, !.old = rows[g]])

-----------------------------------------------------------------------------
\* linkFileToEntity reads the file, or answers 404 ...
FindFile(r) ==
    /\ req[r].pc = "find"
    /\ IF files[req[r].file] = "stored" THEN Goto(r, "link") ELSE Respond(r)
    /\ UNCHANGED <<contentVars, made, begun, faults, ghosts>>

AfterLink(q, l) ==
    IF q.op = "attach" \/ ~q.found THEN Idle
    ELSE [q EXCEPT !.link = l, !.pc = IF q.op = "create" THEN "persist" ELSE "apply"]

\* ... and inserts the link: the foreign key refuses one to a row that is gone.
InsertLink(r) ==
    LET f == req[r].file IN
    /\ req[r].pc = "link"
    /\ made < MaxLinks
    /\ IF files[f] = "stored"
       THEN /\ made' = made + 1
            /\ links' = [links EXCEPT ![made + 1] =
                 [state |-> "live", file |-> f, late |-> f \in swept]]
            /\ req' = [req EXCEPT ![r] = AfterLink(req[r], made + 1)]
       ELSE Respond(r) /\ UNCHANGED <<links, made>>
    /\ UNCHANGED <<files, rows, stats, begun, faults, ghosts>>

\* persistGuide, persistAds; the foreign key refuses a link that is gone.
Persist(r) ==
    LET q == req[r] IN
    /\ q.pc = "persist"
    /\ IF links[q.link].state = "live"
       THEN /\ rows' = [rows EXCEPT ![q.row] =
                 [state |-> "there", link |-> q.link, status |-> q.to]]
            /\ shown' = [shown EXCEPT ![q.row] = @ \cup {q.link}]
            /\ Goto(r, "readCounts")
       ELSE Respond(r) /\ UNCHANGED <<rows, shown>>
    /\ UNCHANGED <<files, links, stats, made, begun, faults, swept, calm>>

\* updateGuideDetails, updateAdsDetails: an UPDATE by id of the columns given,
\* then a read of the row, which throws if it is gone.
Apply(r) ==
    LET q == req[r] IN
    /\ q.pc = "apply"
    /\ IF rows[q.row].state = "there" /\ (q.file # None => links[q.link].state = "live")
       THEN /\ rows' = [rows EXCEPT
                 ![q.row].link = IF q.file = None THEN @ ELSE q.link,
                 ![q.row].status = IF q.to = None THEN @ ELSE q.to]
            /\ shown' = [shown EXCEPT ![q.row] = IF q.file = None THEN @ ELSE @ \cup {q.link}]
            /\ Goto(r, "reload")
       ELSE Respond(r) /\ UNCHANGED <<rows, shown>>
    /\ UNCHANGED <<files, links, stats, made, begun, faults, swept, calm>>

AfterWrite(q) == IF q.op = "delete" \/ (q.op = "update" /\ q.file # None)
                 THEN [q EXCEPT !.pc = "cleanFind"] ELSE Idle

\* Mutant: the old status is taken from the row as it is re-read.
Reload_oldStatus(r) ==
    LET q == req[r]
        g == rows[q.row]
        new == IF q.row \in Ads THEN g.status ELSE q.to
    IN
    /\ q.pc = "reload"
    /\ req' = [req EXCEPT ![r] =
         IF g.state = "gone" THEN Idle
         ELSE IF new \in {None, g.status} THEN AfterWrite(q)
         ELSE [q EXCEPT !.pc = "readCounts", !.to = new]]
    /\ UNCHANGED <<contentVars, made, begun, faults, ghosts>>

\* The row is read again, and 404 if it is gone.  A guide's new status is what
\* the body asked for, an ad's what was read; without a change nothing is counted.
Reload(r) ==
    LET q == req[r]
        g == rows[q.row]
        new == IF q.row \in Ads THEN g.status ELSE q.to
    IN
    /\ q.pc = "reload"
    /\ req' = [req EXCEPT ![r] =
         IF g.state = "gone" THEN Idle
         ELSE IF new \in {None, q.old.status} THEN AfterWrite(q)
         ELSE [q EXCEPT !.pc = "readCounts", !.to = new]]
    /\ UNCHANGED <<contentVars, made, begun, faults, ghosts>>

DeleteRow(r) ==
    LET g == req[r].row IN
    /\ req[r].pc = "delete"
    /\ rows' = [rows EXCEPT ![g].state = "gone"]
    /\ Goto(r, "readCounts")
    /\ UNCHANGED <<files, links, stats, made, begun, faults, ghosts>>

\* getSingleton
ReadCounts(r) ==
    /\ req[r].pc = "readCounts"
    /\ req' = [req EXCEPT ![r].pc = "writeCounts", ![r].counts = stats[KindOf(req[r].row)]]
    /\ UNCHANGED <<contentVars, made, begun, faults, ghosts>>

\* onCreate and onDelete write every column as it was read and changed in
\* memory, onStatusChange two of them.
CountsOf(q, current) ==
    CASE q.op = "create" -> [q.counts EXCEPT !["total"] = @ + 1, ![q.to] = @ + 1]
      [] q.op = "delete" -> [q.counts EXCEPT !["total"] = IF @ > 0 THEN @ - 1 ELSE 0,
                                             ![q.old.status] = @ - 1]
      [] OTHER -> [current EXCEPT ![q.old.status] = q.counts[q.old.status] - 1,
                                  ![q.to] = q.counts[q.to] + 1]

\* The counters written, and the answer.
WriteCounts(r) ==
    LET k == KindOf(req[r].row) IN
    /\ req[r].pc = "writeCounts"
    /\ stats' = [stats EXCEPT ![k] = CountsOf(req[r], @)]
    /\ req' = [req EXCEPT ![r] = AfterWrite(req[r])]
    /\ UNCHANGED <<files, links, rows, made, begun, faults, ghosts>>

-----------------------------------------------------------------------------
\* unlinkAndCleanup, of the link the row had when it was first read: it may be
\* gone already ...
CleanFind(r) ==
    LET old == links[req[r].old.link] IN
    /\ req[r].pc = "cleanFind"
    /\ req' = [req EXCEPT ![r] =
         IF old.state = "live" THEN [@ EXCEPT !.pc = "unlink", !.file = old.file] ELSE Idle]
    /\ UNCHANGED <<contentVars, made, begun, faults, ghosts>>

\* Mutant: the links are counted before this one is deleted.
CleanUnlink_counted(r) ==
    LET l == req[r].old.link IN
    /\ req[r].pc = "unlink"
    /\ links' = [links EXCEPT ![l].state = IF @ = "live" THEN "unlinked" ELSE @]
    /\ IF LinksOf(req[r].file) = {} THEN Goto(r, "count") ELSE Respond(r)
    /\ UNCHANGED <<files, rows, stats, made, begun, faults, ghosts>>

\* ... it is deleted ...
CleanUnlink(r) ==
    LET l == req[r].old.link IN
    /\ req[r].pc = "unlink"
    /\ IF Shown(l)
       THEN ProcessEnds /\ UNCHANGED links
       ELSE /\ links' = [links EXCEPT ![l].state = IF @ = "live" THEN "unlinked" ELSE @]
            /\ Goto(r, "count")
            /\ UNCHANGED <<faults, calm>>
    /\ UNCHANGED <<files, rows, stats, made, begun, swept, shown>>

\* Mutant: the file goes with any of its links.
CleanCount_always(r) ==
    /\ req[r].pc = "count"
    /\ Goto(r, "object")
    /\ UNCHANGED <<contentVars, made, begun, faults, ghosts>>

\* ... the links that remain are counted ...
CleanCount(r) ==
    LET f == req[r].file IN
    /\ req[r].pc = "count"
    /\ IF LinksOf(f) = {}
       THEN Goto(r, "object") /\ swept' = swept \cup {f}
       ELSE Respond(r) /\ UNCHANGED swept
    /\ UNCHANGED <<contentVars, made, begun, faults, calm, shown>>

\* ... the storage is asked to delete what it finds under the file's path.  The
\* path is the URL that uploadFile returned, and no object has that name: the
\* storage answers well and the object stays.
CleanObject(r) ==
    /\ req[r].pc = "object"
    /\ Goto(r, "row")
    /\ UNCHANGED <<contentVars, made, begun, faults, ghosts>>

\* ... and the file's row is deleted.  Its links go with it, unless one is shown.
CleanRow(r) ==
    LET f == req[r].file IN
    /\ req[r].pc = "row"
    /\ IF \E l \in LinksOf(f) : Shown(l)
       THEN ProcessEnds /\ UNCHANGED <<files, links>>
       ELSE /\ files' = [files EXCEPT ![f] = "gone"]
            /\ links' = [l \in LinkIds |->
                 IF l \in LinksOf(f) THEN [links[l] EXCEPT !.state = "cascaded"] ELSE links[l]]
            /\ Respond(r)
            /\ UNCHANGED <<faults, calm>>
    /\ UNCHANGED <<rows, stats, made, begun, swept, shown>>

-----------------------------------------------------------------------------
\* A query of a request throws; in a callback this ends the process.
RequestFails(r) ==
    /\ faults < MaxFaults
    /\ req[r].pc # "idle"
    /\ IF req[r].pc \in Cleaning THEN ProcessEnds
       ELSE /\ Respond(r)
            /\ faults' = faults + 1
            /\ calm' = [k \in Kinds |-> calm[k] /\ k \notin Open({r})]
    /\ UNCHANGED <<contentVars, made, begun, swept, shown>>

Restart ==
    /\ faults < MaxFaults
    /\ ProcessEnds
    /\ UNCHANGED <<contentVars, made, begun, swept, shown>>

Arrive(r) ==
    \/ \E f \in Files : UploadObject(r, f) \/ Attach(r, f)
    \/ \E g \in Rows, f \in Files, status \in Statuses, found \in BOOLEAN :
          Create(r, g, f, status, found)
    \/ \E g \in Rows, f \in Files \cup {None}, status \in Statuses \cup {None} :
          Update(r, g, f, status)
    \/ \E g \in Rows : Delete(r, g)

Serve(r) ==
    \/ UploadRow(r)
    \/ FindFile(r) \/ InsertLink(r)
    \/ Persist(r) \/ Apply(r) \/ Reload(r) \/ DeleteRow(r)
    \/ ReadCounts(r) \/ WriteCounts(r)

Clean(r) ==
    \/ CleanFind(r) \/ CleanUnlink(r) \/ CleanCount(r)
    \/ CleanObject(r) \/ CleanRow(r)

Next ==
    \/ \E r \in Requests : Arrive(r) \/ Serve(r) \/ Clean(r) \/ RequestFails(r)
    \/ Restart

Spec == Init /\ [][Next]_vars

-----------------------------------------------------------------------------
\* A link that went with its file's row, without a clean-up of its own, was made
\* when a clean-up had already counted the file's links and found none: no file
\* is taken from a message or a page that held it at the count.
LinksSurvive ==
    \A l \in LinkIds : links[l].state = "cascaded" => links[l].late

Shows(g, l) == rows[g].state = "there" /\ rows[g].link = l

\* A write, or its clean-up, that took l from g and has yet to delete it.
Owes(q, g, l) ==
    /\ q.row = g /\ q.old.link = l
    /\ \/ q.pc \in {"cleanFind", "unlink"}
       \/ q.pc \in Counting /\ (q.op = "delete" \/ (q.op = "update" /\ q.file # None))

\* A link that a guide or an ad showed and shows no more goes, unless two writes
\* overlapped: of two updates the later one overwrites the link of the other, and
\* both take away the one they had read.
OldLinksGo ==
    \A g \in Rows : calm[KindOf(g)] =>
        \A l \in shown[g] : links[l].state = "live" /\ ~Shows(g, l) =>
            \E r \in Requests : Owes(req[r], g, l)

\* A file with no link left goes: the last of several clean-ups that delete its
\* links side by side finds none left, whatever is linked and updated meanwhile.
EmptyFilesGo ==
    \A f \in Files :
        /\ files[f] = "stored"
        /\ \E l \in LinkIds : links[l].file = f
        /\ LinksOf(f) = {}
        => \E r \in Requests : req[r].pc \in {"count", "object", "row"} /\ req[r].file = f

\* As long as nothing fails, what a row showed and shows no more goes, first the
\* link and with the last link the row of the file (updateGuide, deleteGuide,
\* unlinkAndCleanup), unless writes of guides, or of ads, overlapped.
OldFilesGo == faults = 0 => OldLinksGo /\ EmptyFilesGo

\* If the writes of a kind do not overlap and none breaks off, the counters of
\* its list are the numbers of its rows, in total and by status.
CountsTrue ==
    \A k \in Kinds :
        LET there == {g \in Rows : rows[g].state = "there" /\ KindOf(g) = k} IN
        calm[k] /\ ~Busy(k) =>
            /\ stats[k]["total"] = Cardinality(there)
            /\ \A s \in Statuses :
                 stats[k][s] = Cardinality({g \in there : rows[g].status = s})

=============================================================================
