--------------------------- MODULE ContentProofs ---------------------------
(***************************************************************************)
(* What TLAPS proves of Content, for any files, guides, ads, requests and  *)
(* bounds: the state is well typed, a clean-up takes a file only from      *)
(* links made after it had counted none, without a fault a file that lost  *)
(* its last link is on its way out, and, where the writes come one after   *)
(* the other, so is a link that its row shows no more, and the counters of *)
(* a list count its rows.                                                  *)
(***************************************************************************)
EXTENDS Content, FiniteSetTheorems, TLAPS

\* Files, links, rows and requests are what the tables and handlers make them.
TypeOK ==
    /\ files \in [Files -> {"none", "object", "stored", "gone"}]
    /\ links \in [LinkIds -> Link \cup {NoLink}]
    /\ rows \in [Rows -> Row \cup {NoRow}]
    /\ stats \in [Kinds -> Counters]
    /\ req \in [Requests -> Request \cup {Idle}]
    /\ made \in 0 .. MaxLinks
    /\ begun \in Nat
    /\ faults \in Nat
    /\ swept \subseteq Files
    /\ calm \in [Kinds -> BOOLEAN]

Deleting == {"count", "object", "row"}

\* What a handler holds when it gets to a step: the file, the row, the link it
\* made, the status asked for, and the row as it was read.
Held(q) ==
    /\ q.pc \in {"saveFile", "find", "link", "unlink"} \cup Deleting => q.file \in Files
    /\ q.pc \in {"find", "link"} => q.op \in {"attach", "create", "update"}
    /\ q.pc \in {"find", "link"} /\ q.op # "attach" => q.row \in Rows
    /\ q.pc \in {"persist", "apply", "delete"} \cup Counting => q.row \in Rows
    /\ q.pc \in {"find", "link", "persist"} /\ q.op = "create" => q.to \in Statuses
    /\ q.pc = "persist" => q.op = "create" /\ q.link \in LinkIds
    /\ q.pc = "apply" /\ q.file # None => q.link \in LinkIds
    /\ q.op \in {"update", "delete"} => q.old \in Row
    /\ q.pc \in Cleaning => q.op \in {"update", "delete"}

Holding == \A r \in Requests : Held(req[r])

\* Links are numbered in the order they are made.
Numbered == \A l \in LinkIds : l > made => links[l] = NoLink

\* A live link to a file that a count found without links is younger than the count.
YoungLinks == \A l \in LinkIds :
    links[l].state = "live" /\ links[l].file \in swept => links[l].late

\* Who is to delete a file has counted its links.
CountedFirst == \A r \in Requests :
    req[r].pc \in {"object", "row"} => req[r].file \in swept

\* Each upload is at work on a file of its own, which has no row yet ...
UploadsApart == \A r \in Requests : req[r].pc = "saveFile" =>
    /\ files[req[r].file] = "object"
    /\ \A s \in Requests : req[s].pc = "saveFile" /\ req[s].file = req[r].file => s = r

\* ... and what is linked has, or had, one.
LinkedStored == \A l \in LinkIds :
    links[l] # NoLink => files[links[l].file] \in {"stored", "gone"}

\* A clean-up is at work on the file of the link it was called for.
OwnFile(q) == q.pc \in {"unlink"} \cup Deleting =>
    links[q.old.link] # NoLink /\ links[q.old.link].file = q.file
CleansOwn == \A r \in Requests : OwnFile(req[r])

\* A row that is to be deleted was once there.
DeletesRow == \A r \in Requests : req[r].pc = "delete" => rows[req[r].row] # NoRow

\* Without a fault, a file with no link left goes.
FilesFollow == faults = 0 => EmptyFilesGo

Inv ==
    /\ TypeOK /\ Holding /\ DeletesRow
    /\ Numbered /\ YoungLinks /\ CountedFirst /\ LinksSurvive
    /\ UploadsApart /\ LinkedStored /\ CleansOwn /\ FilesFollow

-----------------------------------------------------------------------------
(* Requests. *)

LEMMA IdleHeld == Idle.pc = "idle" /\ Held(Idle) /\ OwnFile(Idle)
  BY DEF Idle, Held, OwnFile, Deleting, Cleaning, Counting

\* What the types say of one request and of the link it is to clean up.
LEMMA OneRequest ==
    ASSUME Inv, NEW r \in Requests, req[r].pc # "idle"
    PROVE  /\ req[r] \in Request
           /\ Held(req[r])
           /\ OwnFile(req[r])
           /\ req[r].op \in {"update", "delete"} => req[r].old.link \in LinkIds
  <1>1. req[r] \in Request /\ Held(req[r]) /\ OwnFile(req[r])
    BY DEF Inv, TypeOK, Holding, CleansOwn, Idle
  <1>2. req[r].op \in {"update", "delete"} => req[r].old \in Row
    BY <1>1 DEF Held
  <1> QED  BY <1>1, <1>2 DEF Row

LEMMA OneLink ==
    ASSUME Inv, NEW l \in LinkIds, links[l] # NoLink
    PROVE  links[l] \in Link /\ files[links[l].file] \in {"stored", "gone"}
  BY DEF Inv, TypeOK, LinkedStored

\* A request that moves on is typed and holds what it needs.
LEMMA MovedRequest ==
    ASSUME Inv, NEW r \in Requests, NEW q \in Request \cup {Idle}, Held(q),
           req' = [req EXCEPT ![r] = q]
    PROVE  /\ req' \in [Requests -> Request \cup {Idle}]
           /\ Holding'
           /\ \A s \in Requests : req'[s] = IF s = r THEN q ELSE req[s]
  <1>1. \A s \in Requests : req'[s] = IF s = r THEN q ELSE req[s]
    BY DEF Inv, TypeOK
  <1>2. \A s \in Requests : Held(req'[s])
    BY <1>1 DEF Inv, Holding
  <1>3. Holding'
    BY <1>2 DEF Holding, Held
  <1> QED  BY <1>1, <1>3 DEF Inv, TypeOK

\* What makes a clean-up of a file count as under way, or excuses it.
Excused(q, p) ==
    \/ faults' # 0
    \/ q.pc \in Deleting => p.pc \in Deleting /\ p.file = q.file

\* No row becomes one that was never made.
RowsStay ==
    /\ rows' \in [Rows -> Row \cup {NoRow}]
    /\ \A g \in Rows : rows[g] # NoRow => rows'[g] # NoRow

\* A step of one request that leaves files and links alone.
LEMMA OneMoves ==
    ASSUME Inv, NEW r \in Requests, NEW q \in Request \cup {Idle}, Held(q), OwnFile(q),
           req' = [req EXCEPT ![r] = q],
           UNCHANGED <<files, links, made, swept>>,
           RowsStay,
           stats' \in [Kinds -> Counters],
           begun' \in Nat,
           calm' \in [Kinds -> BOOLEAN],
           faults' = faults \/ faults' = faults + 1,
           q.pc # "saveFile",
           q.pc \in {"object", "row"} => q.file \in swept,
           q.pc = "delete" => q.row \in Rows /\ rows[q.row] # NoRow,
           Excused(req[r], q)
    PROVE  Inv'
  <1>1. /\ req' \in [Requests -> Request \cup {Idle}]
        /\ Holding'
        /\ \A s \in Requests : req'[s] = IF s = r THEN q ELSE req[s]
    BY MovedRequest
  <1>2. TypeOK'
    BY <1>1 DEF Inv, TypeOK, RowsStay
  <1>3. Numbered' /\ YoungLinks' /\ LinksSurvive' /\ LinkedStored'
    BY DEF Inv, Numbered, YoungLinks, LinksSurvive, LinkedStored
  <1>4. CountedFirst'
    BY <1>1 DEF Inv, CountedFirst
  <1>5. UploadsApart'
    BY <1>1 DEF Inv, UploadsApart
  <1>6. \A s \in Requests : OwnFile(req'[s])
    BY <1>1 DEF Inv, CleansOwn
  <1>7. CleansOwn'
    BY <1>6 DEF CleansOwn, OwnFile
  <1>8. FilesFollow'
    <2>1. SUFFICES ASSUME faults' = 0, NEW f \in Files, files[f] = "stored",
                          \E l \in LinkIds : links[l].file = f, LinksOf(f) = {}
                   PROVE  \E s \in Requests : req'[s].pc \in Deleting /\ req'[s].file = f
      BY DEF FilesFollow, EmptyFilesGo, LinksOf, Deleting
    <2>2. faults = 0
      BY <2>1 DEF Inv, TypeOK
    <2>3. PICK s \in Requests : req[s].pc \in Deleting /\ req[s].file = f
      BY <2>1, <2>2 DEF Inv, FilesFollow, EmptyFilesGo, Deleting
    <2> QED  BY <1>1, <2>1, <2>3 DEF Excused
  <1>9. DeletesRow'
    <2>1. \A s \in Requests : req[s].pc = "delete" => req[s].row \in Rows /\ rows[req[s].row] # NoRow
      BY DEF Inv, DeletesRow, Holding, Held
    <2> QED  BY <1>1, <2>1 DEF DeletesRow, RowsStay
  <1> QED  BY <1>1, <1>2, <1>3, <1>4, <1>5, <1>7, <1>8, <1>9 DEF Inv

\* The end of the process.
LEMMA AllStop ==
    ASSUME Inv, ProcessEnds, UNCHANGED <<files, links, rows, stats, made, begun, swept>>
    PROVE  Inv'
  <1>1. \A s \in Requests : req'[s] = Idle
    BY DEF ProcessEnds
  <1>2. faults' = faults + 1 /\ faults' # 0 /\ faults' \in Nat
    BY DEF ProcessEnds, Inv, TypeOK
  <1>3. TypeOK'
    <2>1. calm' \in [Kinds -> BOOLEAN]
      BY DEF Inv, TypeOK, ProcessEnds
    <2>2. req' \in [Requests -> Request \cup {Idle}]
      BY DEF ProcessEnds
    <2> QED  BY <1>2, <2>1, <2>2 DEF Inv, TypeOK
  <1>4. Numbered' /\ YoungLinks' /\ LinksSurvive' /\ LinkedStored'
    BY DEF Inv, Numbered, YoungLinks, LinksSurvive, LinkedStored
  <1>5. CountedFirst' /\ UploadsApart' /\ CleansOwn' /\ DeletesRow'
    BY <1>1, IdleHeld DEF CountedFirst, DeletesRow, UploadsApart, CleansOwn, OwnFile, Deleting
  <1>6. Holding'
    BY <1>1, IdleHeld DEF Holding, Held, Counting, Deleting, Cleaning, Idle
  <1>7. FilesFollow'
    BY <1>2 DEF FilesFollow, EmptyFilesGo
  <1> QED  BY <1>3, <1>4, <1>5, <1>6, <1>7 DEF Inv

-----------------------------------------------------------------------------
(* Steps that leave files and links alone. *)

LEMMA BeginInv ==
    ASSUME Inv, NEW r \in Requests, NEW q \in Request, Held(q), OwnFile(q),
           q.pc \notin {"saveFile"} \cup Deleting,
           q.pc = "delete" => q.row \in Rows /\ rows[q.row] # NoRow,
           Begin(r, q)
    PROVE  Inv'
  <1>1. begun' \in Nat
    BY DEF Begin, Inv, TypeOK
  <1>2. calm' \in [Kinds -> BOOLEAN]
    BY DEF Begin, Inv, TypeOK, Busy
  <1>3. Excused(req[r], q)
    BY DEF Begin, Excused, Deleting
  <1>4. /\ UNCHANGED <<files, links, rows, stats, made, faults, swept>>
        /\ req' = [req EXCEPT ![r] = q]
    BY DEF Begin, contentVars
  <1>5. RowsStay /\ stats' \in [Kinds -> Counters]
    BY <1>4 DEF Inv, TypeOK, RowsStay
  <1> QED  BY <1>1, <1>2, <1>3, <1>4, <1>5, OneMoves DEF Deleting

\* A request that is answered, or breaks off.
LEMMA RespondInv ==
    ASSUME Inv, NEW r \in Requests, Respond(r),
           UNCHANGED <<files, links, made, begun, swept>>,
           RowsStay,
           stats' \in [Kinds -> Counters],
           calm' \in [Kinds -> BOOLEAN],
           \/ faults' = faults /\ req[r].pc \notin Deleting
           \/ faults' = faults + 1
    PROVE  Inv'
  <1>1. Excused(req[r], Idle)
    BY DEF Inv, TypeOK, Excused
  <1> QED  BY <1>1, IdleHeld, OneMoves DEF Respond, Inv, TypeOK, Deleting

\* A request that takes the next step of its handler with what it holds.
LEMMA GotoInv ==
    ASSUME Inv, NEW r \in Requests, NEW q \in Request, Held(q), OwnFile(q),
           q.pc \notin {"saveFile", "delete"} \cup Deleting, req[r].pc \notin Deleting,
           req' = [req EXCEPT ![r] = q],
           UNCHANGED <<files, links, made, begun, faults, swept, calm>>,
           RowsStay,
           stats' \in [Kinds -> Counters]
    PROVE  Inv'
  <1>1. Excused(req[r], q)
    BY DEF Excused
  <1> QED  BY <1>1, OneMoves DEF Inv, TypeOK, Deleting

LEMMA FreshOwn ==
    ASSUME NEW q, q.pc \notin {"unlink"} \cup Deleting
    PROVE  OwnFile(q)
  BY DEF OwnFile

LEMMA ArriveInv ==
    ASSUME Inv, NEW r \in Requests
    PROVE  /\ \A f \in Files : Attach(r, f) => Inv'
           /\ \A g \in Rows, f \in Files, status \in Statuses, found \in BOOLEAN :
                 Create(r, g, f, status, found) => Inv'
           /\ \A g \in Rows, f \in Files \cup {None}, status \in Statuses \cup {None} :
                 Update(r, g, f, status) => Inv'
           /\ \A g \in Rows : Delete(r, g) => Inv'
  <1>n. NoRow \in Row \cup {NoRow} /\ NoCounts \in Counters
    BY DEF NoCounts, Counters
  <1>1. ASSUME NEW f \in Files, Attach(r, f) PROVE Inv'
    <2> DEFINE q == [Idle EXCEPT !.pc = "find", !.op = "attach", !.file = f]
    <2>1. q \in Request /\ q.pc = "find" /\ q.op = "attach" /\ q.file = f
      BY <1>n DEF Idle, Request, Foreground
    <2>2. Held(q) /\ OwnFile(q)
      BY <2>1, FreshOwn DEF Held, Deleting, Cleaning, Counting
    <2>3. Begin(r, q)
      BY <1>1 DEF Attach
    <2> HIDE DEF q
    <2> QED  BY <2>1, <2>2, <2>3, BeginInv DEF Deleting
  <1>2. ASSUME NEW g \in Rows, NEW f \in Files, NEW status \in Statuses, NEW found \in BOOLEAN,
               Create(r, g, f, status, found)
        PROVE  Inv'
    <2> DEFINE q == [Idle EXCEPT !.pc = "find", !.op = "create", !.row = g, !.file = f,
                                 !.to = status, !.found = found]
    <2>1. /\ q \in Request
          /\ q.pc = "find" /\ q.op = "create" /\ q.row = g /\ q.file = f /\ q.to = status
      BY <1>n DEF Idle, Request, Foreground
    <2>2. Held(q) /\ OwnFile(q)
      BY <2>1, FreshOwn DEF Held, Deleting, Cleaning, Counting
    <2>3. Begin(r, q)
      BY <1>2 DEF Create
    <2> HIDE DEF q
    <2> QED  BY <2>1, <2>2, <2>3, BeginInv DEF Deleting
  <1>3. ASSUME NEW g \in Rows, NEW f \in Files \cup {None}, NEW status \in Statuses \cup {None},
               Update(r, g, f, status)
        PROVE  Inv'
    <2> DEFINE q == [Idle EXCEPT !.pc = IF f = None THEN "apply" ELSE "find", !.op = "update",
                                 !.row = g, !.file = f, !.old = rows[g], !.to = status]
    <2>1. rows[g] \in Row
      BY <1>3 DEF Update, Inv, TypeOK, NoRow
    <2>2. /\ q \in Request
          /\ q.pc = IF f = None THEN "apply" ELSE "find"
          /\ q.op = "update" /\ q.row = g /\ q.file = f /\ q.old \in Row
      BY <1>n, <2>1 DEF Idle, Request, Foreground
    <2>3. \/ q.pc = "apply" /\ q.file = None
          \/ q.pc = "find" /\ q.file \in Files
      BY <2>2
    <2>4. Begin(r, q)
      BY <1>3 DEF Update
    <2> HIDE DEF q
    <2>5. Held(q) /\ OwnFile(q)
      BY <2>2, <2>3, FreshOwn DEF Held, Deleting, Cleaning, Counting
    <2> QED  BY <2>2, <2>3, <2>4, <2>5, BeginInv DEF Deleting
  <1>4. ASSUME NEW g \in Rows, Delete(r, g) PROVE Inv'
    <2> DEFINE q == [Idle EXCEPT !.pc = "delete", !.op = "delete", !.row = g, !.old = rows[g]]
    <2>1. rows[g] \in Row /\ rows[g] # NoRow
      BY <1>4 DEF Delete, Inv, TypeOK, NoRow
    <2>2. q \in Request /\ q.pc = "delete" /\ q.op = "delete" /\ q.row = g /\ q.old \in Row
      BY <1>n, <2>1 DEF Idle, Request, Foreground
    <2>3. Held(q) /\ OwnFile(q)
      BY <2>2, FreshOwn DEF Held, Deleting, Cleaning, Counting
    <2>4. Begin(r, q)
      BY <1>4 DEF Delete
    <2> HIDE DEF q
    <2> QED  BY <2>1, <2>2, <2>3, <2>4, BeginInv DEF Deleting
  <1> QED  BY <1>1, <1>2, <1>3, <1>4

\* The writes, and the counters after them.
LEMMA CountsTyped ==
    ASSUME NEW q \in Request, NEW current \in Counters
    PROVE  CountsOf(q, current) \in Counters
  <1> DEFINE C == Statuses \cup {"total"}
  <1>1. q.counts \in [C -> Int] /\ current \in [C -> Int]
    BY DEF Request, Counters
  <1>2. \A c \in C : q.counts[c] \in Int /\ current[c] \in Int
    BY <1>1
  <1>3. ASSUME NEW f \in [C -> Int], NEW c, NEW v, c \in C => v \in Int
        PROVE  [f EXCEPT ![c] = v] \in [C -> Int]
    BY <1>3
  <1>4. CASE q.op = "create"
    <2> DEFINE one == [q.counts EXCEPT !["total"] = q.counts["total"] + 1]
    <2>1. one \in [C -> Int]
      BY <1>1, <1>2, <1>3
    <2>2. CountsOf(q, current) = [one EXCEPT ![q.to] = one[q.to] + 1]
      BY <1>4 DEF CountsOf
    <2>3. q.to \in C => one[q.to] + 1 \in Int
      BY <2>1
    <2> HIDE DEF one
    <2>4. [one EXCEPT ![q.to] = one[q.to] + 1] \in [C -> Int]
      BY <1>3, <2>1, <2>3
    <2> QED  BY <2>2, <2>4 DEF Counters
  <1>5. CASE q.op = "delete"
    <2> DEFINE one == [q.counts EXCEPT !["total"] =
                          IF q.counts["total"] > 0 THEN q.counts["total"] - 1 ELSE 0]
               s == q.old.status
    <2>1. one \in [C -> Int]
      BY <1>1, <1>2, <1>3
    <2>2. CountsOf(q, current) = [one EXCEPT ![s] = one[s] - 1]
      BY <1>5 DEF CountsOf
    <2>3. s \in C => one[s] - 1 \in Int
      BY <2>1
    <2> HIDE DEF one, s
    <2>4. [one EXCEPT ![s] = one[s] - 1] \in [C -> Int]
      BY <1>3, <2>1, <2>3
    <2> QED  BY <2>2, <2>4 DEF Counters
  <1>6. CASE q.op \notin {"create", "delete"}
    <2> DEFINE s == q.old.status
               one == [current EXCEPT ![s] = q.counts[s] - 1]
    <2>0. s \in C => q.counts[s] - 1 \in Int
      BY <1>2
    <2>1. one \in [C -> Int]
      <3> HIDE DEF s, C
      <3> QED  BY <1>1, <1>3, <2>0
    <2>2. CountsOf(q, current) = [one EXCEPT ![q.to] = q.counts[q.to] + 1]
      BY <1>6 DEF CountsOf
    <2>3. q.to \in C => q.counts[q.to] + 1 \in Int
      BY <1>2
    <2> HIDE DEF one, s
    <2>4. [one EXCEPT ![q.to] = q.counts[q.to] + 1] \in [C -> Int]
      BY <1>3, <2>1, <2>3
    <2> QED  BY <2>2, <2>4 DEF Counters
  <1> QED  BY <1>4, <1>5, <1>6

-----------------------------------------------------------------------------
(* The handlers, query by query. *)

LEMMA FindInv ==
    ASSUME Inv, NEW r \in Requests, FindFile(r)
    PROVE  Inv'
  <1>1. req[r].pc = "find" /\ UNCHANGED <<files, links, rows, stats, made, begun, faults, swept, calm>>
    BY DEF FindFile, contentVars, ghosts
  <1>2. req[r] \in Request /\ Held(req[r])
    BY <1>1, OneRequest
  <1>3. CASE Respond(r)
    BY <1>1, <1>3, RespondInv DEF RowsStay, Inv, TypeOK, Deleting
  <1>4. CASE Goto(r, "link")
    <2> DEFINE q == [req[r] EXCEPT !.pc = "link"]
    <2>1. req' = [req EXCEPT ![r] = q]
      BY <1>4 DEF Goto
    <2>2. /\ q \in Request /\ q.pc = "link" /\ q.file = req[r].file /\ q.op = req[r].op
          /\ q.row = req[r].row /\ q.to = req[r].to /\ q.old = req[r].old
      BY <1>2 DEF Request, Foreground
    <2>3. Held(q) /\ OwnFile(q)
      BY <1>1, <1>2, <2>2, FreshOwn DEF Held, Deleting, Cleaning, Counting
    <2> HIDE DEF q
    <2> QED  BY <1>1, <2>1, <2>2, <2>3, GotoInv DEF RowsStay, Inv, TypeOK, Deleting
  <1> QED  BY <1>3, <1>4 DEF FindFile

LEMMA PersistInv ==
    ASSUME Inv, NEW r \in Requests, Persist(r)
    PROVE  Inv'
  <1>1. req[r].pc = "persist" /\ UNCHANGED <<files, links, stats, made, begun, faults, swept, calm>>
    BY DEF Persist, ghosts
  <1>2. /\ req[r] \in Request /\ req[r].row \in Rows /\ req[r].op = "create"
        /\ req[r].link \in LinkIds /\ req[r].to \in Statuses
    BY <1>1, OneRequest DEF Held
  <1>3. CASE Respond(r) /\ UNCHANGED rows
    BY <1>1, <1>3, RespondInv DEF RowsStay, Inv, TypeOK, Deleting
  <1>4. CASE /\ rows' = [rows EXCEPT ![req[r].row] =
                   [state |-> "there", link |-> req[r].link, status |-> req[r].to]]
             /\ Goto(r, "readCounts")
    <2> DEFINE q == [req[r] EXCEPT !.pc = "readCounts"]
    <2>1. req' = [req EXCEPT ![r] = q]
      BY <1>4 DEF Goto
    <2>2. q \in Request /\ q.pc = "readCounts" /\ q.op = "create" /\ q.row \in Rows
      BY <1>2 DEF Request, Foreground, Counting
    <2>3. Held(q) /\ OwnFile(q)
      BY <2>2, FreshOwn DEF Held, Deleting, Cleaning, Counting
    <2>4. RowsStay
      <3>1. [state |-> "there", link |-> req[r].link, status |-> req[r].to] \in Row
        BY <1>2 DEF Row
      <3>2. rows \in [Rows -> Row \cup {NoRow}]
        BY DEF Inv, TypeOK
      <3> QED  BY <1>2, <1>4, <3>1, <3>2 DEF RowsStay, Row, NoRow
    <2> HIDE DEF q
    <2> QED  BY <1>1, <2>1, <2>2, <2>3, <2>4, GotoInv DEF RowsStay, Inv, TypeOK, Deleting
  <1> QED  BY <1>3, <1>4 DEF Persist

LEMMA ApplyInv ==
    ASSUME Inv, NEW r \in Requests, Apply(r)
    PROVE  Inv'
  <1> DEFINE p == req[r]
             link == IF p.file = None THEN rows[p.row].link ELSE p.link
             status == IF p.to = None THEN rows[p.row].status ELSE p.to
             one == [rows[p.row] EXCEPT !.link = link]
             new == [one EXCEPT !.status = status]
  <1>1. p.pc = "apply" /\ UNCHANGED <<files, links, stats, made, begun, faults, swept, calm>>
    BY DEF Apply, ghosts
  <1>2. /\ p \in Request /\ p.row \in Rows
        /\ p.file # None => p.link \in LinkIds
        /\ p.to # None => p.to \in Statuses
        /\ p.op \in {"update", "delete"} => p.old \in Row
    <2>1. p \in Request /\ Held(p)
      BY <1>1, OneRequest
    <2> QED  BY <1>1, <2>1 DEF Held, Request
  <1>3. CASE Respond(r) /\ UNCHANGED rows
    BY <1>1, <1>3, RespondInv DEF RowsStay, Inv, TypeOK, Deleting
  <1>4. CASE /\ rows[p.row].state = "there"
             /\ rows' = [rows EXCEPT ![p.row].link = link, ![p.row].status = status]
             /\ Goto(r, "reload")
    <2> DEFINE q == [p EXCEPT !.pc = "reload"]
    <2>1. req' = [req EXCEPT ![r] = q]
      BY <1>4 DEF Goto
    <2>2. q \in Request /\ q.pc = "reload" /\ q.op = p.op /\ q.row = p.row /\ q.old = p.old
      BY <1>2 DEF Request, Foreground, Counting
    <2>3. Held(q) /\ OwnFile(q)
      <3> HIDE DEF q, p
      <3> QED  BY <1>2, <2>2, FreshOwn DEF Held, Deleting, Cleaning, Counting
    <2>4. RowsStay
      <3>1. rows \in [Rows -> Row \cup {NoRow}]
        BY DEF Inv, TypeOK
      <3>2. rows[p.row] \in Row
        BY <1>2, <1>4, <3>1 DEF NoRow
      <3>3. new \in Row
        <4> HIDE DEF p
        <4> QED  BY <1>2, <3>2 DEF Row
      <3>4. new # NoRow
        BY <3>3 DEF Row, NoRow
      <3>5. rows' = [rows EXCEPT ![p.row] = new]
        <4> HIDE DEF link, status
        <4>2. [rows EXCEPT ![p.row].link = link] = [rows EXCEPT ![p.row] = one]
          OBVIOUS
        <4>3. rows' = [[rows EXCEPT ![p.row].link = link] EXCEPT ![p.row].status = status]
          BY <1>4
        <4> HIDE DEF p, one
        <4> QED  BY <1>2, <4>2, <4>3, <3>1
      <3> HIDE DEF new
      <3> QED  BY <1>2, <3>1, <3>3, <3>4, <3>5 DEF RowsStay
    <2> HIDE DEF q
    <2> QED  BY <1>1, <2>1, <2>2, <2>3, <2>4, GotoInv DEF RowsStay, Inv, TypeOK, Deleting
  <1> QED  BY <1>3, <1>4 DEF Apply

\* After a write: the clean-up, if there is one, or the end.
LEMMA AfterWriteInv ==
    ASSUME Inv, NEW r \in Requests, req[r].pc \in Foreground,
           req' = [req EXCEPT ![r] = AfterWrite(req[r])],
           UNCHANGED <<files, links, rows, made, begun, faults, swept, calm>>,
           stats' \in [Kinds -> Counters]
    PROVE  Inv'
  <1>0. req[r].pc \notin Deleting /\ req[r].pc # "idle"
    BY DEF Foreground, Counting, Deleting
  <1>1. req[r] \in Request /\ Held(req[r])
    BY <1>0, OneRequest
  <1>2. CASE AfterWrite(req[r]) = Idle
    BY <1>0, <1>2, RespondInv DEF RowsStay, Respond, Inv, TypeOK
  <1>3. CASE /\ req[r].op \in {"update", "delete"}
             /\ AfterWrite(req[r]) = [req[r] EXCEPT !.pc = "cleanFind"]
    <2> DEFINE q == [req[r] EXCEPT !.pc = "cleanFind"]
    <2>1. req' = [req EXCEPT ![r] = q]
      BY <1>3
    <2>2. q \in Request /\ q.pc = "cleanFind" /\ q.op = req[r].op /\ q.old = req[r].old
      BY <1>1 DEF Request, Cleaning
    <2>3. Held(q) /\ OwnFile(q)
      BY <1>1, <1>3, <2>2, FreshOwn DEF Held, Deleting, Cleaning, Counting
    <2> HIDE DEF q
    <2> QED  BY <1>0, <2>1, <2>2, <2>3, GotoInv DEF RowsStay, Inv, TypeOK, Deleting
  <1> QED  BY <1>2, <1>3 DEF AfterWrite

LEMMA ReloadInv ==
    ASSUME Inv, NEW r \in Requests, Reload(r)
    PROVE  Inv'
  <1> DEFINE p == req[r]
             new == IF p.row \in Ads THEN rows[p.row].status ELSE p.to
  <1>1. /\ p.pc = "reload"
        /\ UNCHANGED <<files, links, rows, stats, made, begun, faults, swept, calm>>
    BY DEF Reload, contentVars, ghosts
  <1>2. /\ p \in Request /\ p.row \in Rows
        /\ p.op \in {"update", "delete"} => p.old \in Row
    BY <1>1, OneRequest DEF Held, Counting
  <1>3. CASE req' = [req EXCEPT ![r] = Idle]
    BY <1>1, <1>3, RespondInv DEF RowsStay, Respond, Inv, TypeOK, Deleting
  <1>4. CASE req' = [req EXCEPT ![r] = AfterWrite(p)]
    BY <1>1, <1>4, AfterWriteInv DEF Inv, TypeOK, Foreground, Counting
  <1>5. CASE req' = [req EXCEPT ![r] = [p EXCEPT !.pc = "readCounts", !.to = new]]
    <2> DEFINE q == [p EXCEPT !.pc = "readCounts", !.to = new]
    <2>1. new \in Statuses \cup {None}
      <3>1. rows[p.row] \in Row \cup {NoRow}
        BY <1>2 DEF Inv, TypeOK
      <3>2. rows[p.row].status \in Statuses \cup {None}
        BY <3>1 DEF Row, NoRow
      <3>3. p.to \in Statuses \cup {None}
        BY <1>2 DEF Request
      <3> QED  BY <3>2, <3>3
    <2> HIDE DEF new
    <2>2. q \in Request /\ q.pc = "readCounts" /\ q.op = p.op /\ q.row = p.row /\ q.old = p.old
      BY <1>2, <2>1 DEF Request, Foreground, Counting
    <2>3. Held(q) /\ OwnFile(q)
      <3> HIDE DEF q, p
      <3> QED  BY <1>2, <2>2, FreshOwn DEF Held, Deleting, Cleaning, Counting
    <2>4. req' = [req EXCEPT ![r] = q]
      BY <1>5
    <2> HIDE DEF q
    <2> QED  BY <1>1, <2>2, <2>3, <2>4, GotoInv DEF RowsStay, Inv, TypeOK, Deleting
  <1> QED  BY <1>3, <1>4, <1>5 DEF Reload

LEMMA DeleteRowInv ==
    ASSUME Inv, NEW r \in Requests, DeleteRow(r)
    PROVE  Inv'
  <1> DEFINE p == req[r]
             q == [p EXCEPT !.pc = "readCounts"]
  <1>1. /\ p.pc = "delete" /\ req' = [req EXCEPT ![r] = q]
        /\ UNCHANGED <<files, links, stats, made, begun, faults, swept, calm>>
    BY DEF DeleteRow, ghosts, Goto
  <1>2. p \in Request /\ Held(p)
    BY <1>1, OneRequest
  <1>3. q \in Request /\ q.pc = "readCounts" /\ q.op = p.op /\ q.row = p.row /\ q.old = p.old
    BY <1>2 DEF Request, Foreground, Counting
  <1>4. Held(q) /\ OwnFile(q)
    <2> HIDE DEF q, p
    <2> QED  BY <1>1, <1>2, <1>3, FreshOwn DEF Held, Deleting, Cleaning, Counting
  <1>5. RowsStay
    <2>1. rows' = [rows EXCEPT ![p.row].state = "gone"]
      BY DEF DeleteRow
    <2>2. rows \in [Rows -> Row \cup {NoRow}]
      BY DEF Inv, TypeOK
    <2>3. p.row \in Rows
      BY <1>1, <1>2 DEF Held
    <2>4. rows[p.row] \in Row
      BY <1>1, <2>2, <2>3 DEF Inv, DeletesRow
    <2>5. [rows[p.row] EXCEPT !.state = "gone"] \in Row
      BY <2>4 DEF Row
    <2>6. [rows[p.row] EXCEPT !.state = "gone"] # NoRow
      BY <2>5 DEF Row, NoRow
    <2> QED  BY <2>1, <2>2, <2>3, <2>5, <2>6 DEF RowsStay
  <1> HIDE DEF q
  <1> QED  BY <1>1, <1>3, <1>4, <1>5, GotoInv DEF RowsStay, Inv, TypeOK, Deleting

LEMMA ReadCountsInv ==
    ASSUME Inv, NEW r \in Requests, ReadCounts(r)
    PROVE  Inv'
  <1> DEFINE p == req[r]
             q == [p EXCEPT !.pc = "writeCounts", !.counts = stats[KindOf(p.row)]]
  <1>1. /\ p.pc = "readCounts"
        /\ UNCHANGED <<files, links, rows, stats, made, begun, faults, swept, calm>>
    BY DEF ReadCounts, contentVars, ghosts
  <1>2. p \in Request /\ Held(p)
    BY <1>1, OneRequest
  <1>3. stats[KindOf(p.row)] \in Counters
    BY DEF Inv, TypeOK, KindOf, Kinds
  <1>4. q \in Request /\ q.pc = "writeCounts" /\ q.op = p.op /\ q.row = p.row /\ q.old = p.old
    BY <1>2, <1>3 DEF Request, Foreground, Counting
  <1>5. Held(q) /\ OwnFile(q)
    <2> HIDE DEF q, p
    <2> QED  BY <1>1, <1>2, <1>4, FreshOwn DEF Held, Deleting, Cleaning, Counting
  <1>6. req' = [req EXCEPT ![r] = q]
    BY DEF ReadCounts
  <1> HIDE DEF q
  <1> QED  BY <1>1, <1>4, <1>5, <1>6, GotoInv DEF RowsStay, Inv, TypeOK, Deleting

LEMMA WriteCountsInv ==
    ASSUME Inv, NEW r \in Requests, WriteCounts(r)
    PROVE  Inv'
  <1> DEFINE k == KindOf(req[r].row)
  <1>1. /\ req[r].pc = "writeCounts"
        /\ stats' = [stats EXCEPT ![k] = CountsOf(req[r], stats[k])]
        /\ req' = [req EXCEPT ![r] = AfterWrite(req[r])]
        /\ UNCHANGED <<files, links, rows, made, begun, faults, swept, calm>>
    BY DEF WriteCounts, ghosts
  <1>2. req[r] \in Request
    BY <1>1, OneRequest
  <1>3. stats \in [Kinds -> Counters] /\ k \in Kinds
    BY DEF Inv, TypeOK, KindOf, Kinds
  <1> HIDE DEF k
  <1>4. CountsOf(req[r], stats[k]) \in Counters
    BY <1>2, <1>3, CountsTyped
  <1>5. stats' \in [Kinds -> Counters]
    BY <1>1, <1>3, <1>4
  <1> QED  BY <1>1, <1>5, AfterWriteInv DEF Foreground, Counting

LEMMA CleanFindInv ==
    ASSUME Inv, NEW r \in Requests, CleanFind(r)
    PROVE  Inv'
  <1> DEFINE p == req[r]
             old == links[p.old.link]
             q == [p EXCEPT !.pc = "unlink", !.file = old.file]
  <1>1. /\ p.pc = "cleanFind"
        /\ UNCHANGED <<files, links, rows, stats, made, begun, faults, swept, calm>>
    BY DEF CleanFind, contentVars, ghosts
  <1>2. /\ p \in Request /\ p.op \in {"update", "delete"} /\ p.old \in Row
        /\ p.old.link \in LinkIds
    BY <1>1, OneRequest DEF Held, Cleaning
  <1>3. CASE req' = [req EXCEPT ![r] = Idle]
    BY <1>1, <1>3, RespondInv DEF RowsStay, Respond, Inv, TypeOK, Deleting
  <1>4. CASE old.state = "live" /\ req' = [req EXCEPT ![r] = q]
    <2>1. old # NoLink /\ old.file \in Files
      <3>1. old \in Link \cup {NoLink}
        BY <1>2 DEF Inv, TypeOK
      <3> HIDE DEF old
      <3> QED  BY <1>4, <3>1 DEF Link, NoLink
    <2>2. /\ q \in Request /\ q.pc = "unlink" /\ q.op = p.op /\ q.old = p.old
          /\ q.file = old.file
      <3> HIDE DEF old, p
      <3> QED  BY <1>2, <2>1 DEF Request, Cleaning
    <2>3. Held(q) /\ OwnFile(q)
      <3>1. q.old.link = p.old.link
        BY <2>2
      <3>2. OwnFile(q)
        BY <2>1, <2>2 DEF OwnFile
      <3> HIDE DEF q, p, old
      <3> QED  BY <1>2, <2>1, <2>2, <3>2 DEF Held, Deleting, Cleaning, Counting
    <2> HIDE DEF q
    <2> QED  BY <1>1, <1>4, <2>2, <2>3, GotoInv DEF RowsStay, Inv, TypeOK, Deleting
  <1> QED  BY <1>3, <1>4 DEF CleanFind

LEMMA CleanObjectInv ==
    ASSUME Inv, NEW r \in Requests, CleanObject(r)
    PROVE  Inv'
  <1> DEFINE p == req[r]
             q == [p EXCEPT !.pc = "row"]
  <1>1. /\ p.pc = "object" /\ req' = [req EXCEPT ![r] = q]
        /\ UNCHANGED <<files, links, rows, stats, made, begun, faults, swept, calm>>
    BY DEF CleanObject, contentVars, ghosts, Goto
  <1>2. p \in Request /\ Held(p) /\ OwnFile(p) /\ p.file \in swept
    BY <1>1, OneRequest DEF Inv, CountedFirst
  <1>3. /\ q \in Request /\ q.pc = "row" /\ q.op = p.op /\ q.old = p.old /\ q.file = p.file
    BY <1>2 DEF Request, Cleaning
  <1>4. Held(q) /\ OwnFile(q)
    <2> HIDE DEF q, p
    <2> QED  BY <1>1, <1>2, <1>3 DEF Held, OwnFile, Deleting, Cleaning, Counting
  <1>5. Excused(p, q)
    BY <1>3 DEF Excused, Deleting
  <1> HIDE DEF q
  <1> QED  BY <1>1, <1>2, <1>3, <1>4, <1>5, OneMoves DEF RowsStay, Inv, TypeOK, Deleting

LEMMA RequestFailsInv ==
    ASSUME Inv, NEW r \in Requests, RequestFails(r)
    PROVE  Inv'
  <1>1. UNCHANGED <<files, links, rows, stats, made, begun, swept>>
    BY DEF RequestFails, contentVars
  <1>2. CASE ProcessEnds
    BY <1>1, <1>2, AllStop
  <1>3. CASE /\ Respond(r)
             /\ faults' = faults + 1
             /\ calm' = [k \in Kinds |-> calm[k] /\ k \notin Open({r})]
    BY <1>1, <1>3, RespondInv DEF RowsStay, Inv, TypeOK
  <1> QED  BY <1>2, <1>3 DEF RequestFails

-----------------------------------------------------------------------------
(* Steps that change a file or a link. *)

LEMMA UploadObjectInv ==
    ASSUME Inv, NEW r \in Requests, NEW f \in Files, UploadObject(r, f)
    PROVE  Inv'
  <1> DEFINE q == [Idle EXCEPT !.pc = "saveFile", !.op = "upload", !.file = f]
  <1>1. /\ req[r].pc = "idle" /\ files[f] = "none"
        /\ files' = [files EXCEPT ![f] = "object"] /\ req' = [req EXCEPT ![r] = q]
        /\ UNCHANGED <<links, rows, stats, made, begun, faults, swept, calm>>
    BY DEF UploadObject, ghosts
  <1>2. q \in Request /\ q.pc = "saveFile" /\ q.op = "upload" /\ q.file = f
    <2>1. NoRow \in Row \cup {NoRow} /\ NoCounts \in Counters
      BY DEF NoCounts, Counters
    <2> QED  BY <2>1 DEF Idle, Request
  <1>3. Held(q) /\ OwnFile(q)
    BY <1>2, FreshOwn DEF Held, Deleting, Cleaning, Counting
  <1> HIDE DEF q
  <1>4. /\ req' \in [Requests -> Request \cup {Idle}]
        /\ Holding'
        /\ \A s \in Requests : req'[s] = IF s = r THEN q ELSE req[s]
    BY <1>1, <1>2, <1>3, MovedRequest
  <1>5. /\ TypeOK'
        /\ \A g \in Files : files'[g] = IF g = f THEN "object" ELSE files[g]
    BY <1>1, <1>4 DEF Inv, TypeOK
  <1>6. Numbered' /\ YoungLinks' /\ LinksSurvive'
    BY <1>1 DEF Inv, Numbered, YoungLinks, LinksSurvive
  <1>7. LinkedStored'
    <2>1. ASSUME NEW l \in LinkIds, links[l] # NoLink
          PROVE  links[l].file \in Files /\ links[l].file # f
                 /\ files[links[l].file] \in {"stored", "gone"}
      BY <2>1, <1>1, OneLink DEF Link
    <2> QED  BY <1>1, <1>5, <2>1 DEF LinkedStored
  <1>8. CountedFirst' /\ DeletesRow'
    BY <1>1, <1>2, <1>4 DEF Inv, CountedFirst, DeletesRow
  <1>9. UploadsApart'
    <2>1. \A s \in Requests : req[s].pc = "saveFile" => req[s].file # f
      BY <1>1 DEF Inv, UploadsApart
    <2>2. \A s \in Requests : req[s].pc = "saveFile" => req[s].file \in Files
      BY DEF Inv, Holding, Held
    <2> QED  BY <1>2, <1>4, <1>5, <2>1, <2>2 DEF Inv, UploadsApart
  <1>10. CleansOwn'
    <2>1. \A s \in Requests : OwnFile(req'[s])
      BY <1>3, <1>4 DEF Inv, CleansOwn
    <2> QED  BY <1>1, <2>1 DEF CleansOwn, OwnFile
  <1>11. FilesFollow'
    <2>1. ASSUME faults = 0, NEW g \in Files, files'[g] = "stored",
                 \E l \in LinkIds : links[l].file = g, LinksOf(g) = {}
          PROVE  \E s \in Requests : req'[s].pc \in Deleting /\ req'[s].file = g
      <3>1. files[g] = "stored"
        BY <1>5, <2>1
      <3>2. PICK s \in Requests : req[s].pc \in Deleting /\ req[s].file = g
        BY <2>1, <3>1 DEF Inv, FilesFollow, EmptyFilesGo, Deleting
      <3> QED  BY <1>1, <1>4, <3>2 DEF Deleting
    <2> QED  BY <1>1, <2>1 DEF FilesFollow, EmptyFilesGo, LinksOf, Deleting
  <1> QED  BY <1>4, <1>5, <1>6, <1>7, <1>8, <1>9, <1>10, <1>11 DEF Inv

LEMMA UploadRowInv ==
    ASSUME Inv, NEW r \in Requests, UploadRow(r)
    PROVE  Inv'
  <1> DEFINE f == req[r].file
  <1>1. /\ req[r].pc = "saveFile" /\ req' = [req EXCEPT ![r] = Idle]
        /\ files' = [files EXCEPT ![f] = "stored"]
        /\ UNCHANGED <<links, rows, stats, made, begun, faults, swept, calm>>
    BY DEF UploadRow, ghosts, Respond
  <1>2. f \in Files /\ files[f] = "object"
    BY <1>1, OneRequest DEF Held, Inv, UploadsApart
  <1>3. /\ req' \in [Requests -> Request \cup {Idle}]
        /\ Holding'
        /\ \A s \in Requests : req'[s] = IF s = r THEN Idle ELSE req[s]
    BY <1>1, IdleHeld, MovedRequest
  <1>4. /\ TypeOK'
        /\ \A g \in Files : files'[g] = IF g = f THEN "stored" ELSE files[g]
    BY <1>1, <1>3 DEF Inv, TypeOK
  <1>5. \A l \in LinkIds : links[l] # NoLink => links[l].file \in Files /\ links[l].file # f
    BY <1>2, OneLink DEF Link
  <1>6. Numbered' /\ YoungLinks' /\ LinksSurvive'
    BY <1>1 DEF Inv, Numbered, YoungLinks, LinksSurvive
  <1>7. LinkedStored'
    BY <1>1, <1>4, <1>5, OneLink DEF LinkedStored
  <1>8. CountedFirst' /\ DeletesRow'
    BY <1>1, <1>3, IdleHeld DEF Inv, CountedFirst, DeletesRow
  <1>9. UploadsApart'
    <2>1. \A s \in Requests : s # r /\ req[s].pc = "saveFile" =>
             req[s].file # f /\ req[s].file \in Files
      BY <1>1 DEF Inv, UploadsApart, Holding, Held
    <2> HIDE DEF f
    <2> QED  BY <1>3, <1>4, <2>1, IdleHeld DEF Inv, UploadsApart
  <1>10. CleansOwn'
    <2>1. \A s \in Requests : OwnFile(req'[s])
      BY <1>3, IdleHeld DEF Inv, CleansOwn
    <2> QED  BY <1>1, <2>1 DEF CleansOwn, OwnFile
  <1>11. FilesFollow'
    <2>1. ASSUME faults = 0, NEW g \in Files, files'[g] = "stored",
                 NEW l \in LinkIds, links[l].file = g, LinksOf(g) = {}
          PROVE  \E s \in Requests : req'[s].pc \in Deleting /\ req'[s].file = g
      <3>1. links[l] # NoLink
        BY <2>1, ContentAssumption DEF NoLink
      <3>2. files[g] = "stored"
        BY <1>4, <1>5, <2>1, <3>1
      <3>3. PICK s \in Requests : req[s].pc \in Deleting /\ req[s].file = g
        BY <2>1, <3>2 DEF Inv, FilesFollow, EmptyFilesGo, Deleting
      <3> QED  BY <1>1, <1>3, <3>3 DEF Deleting
    <2> QED  BY <1>1, <2>1 DEF FilesFollow, EmptyFilesGo, LinksOf, Deleting
  <1> QED  BY <1>3, <1>4, <1>6, <1>7, <1>8, <1>9, <1>10, <1>11 DEF Inv

LEMMA InsertLinkInv ==
    ASSUME Inv, NEW r \in Requests, InsertLink(r)
    PROVE  Inv'
  <1> DEFINE p == req[r]
             f == p.file
             n == made + 1
             new == [state |-> "live", file |-> f, late |-> f \in swept]
             q == AfterLink(p, n)
  <1>1. /\ p.pc = "link" /\ made < MaxLinks
        /\ UNCHANGED <<files, rows, stats, begun, faults, swept, calm>>
    BY DEF InsertLink, ghosts
  <1>2. /\ p \in Request /\ Held(p) /\ f \in Files
        /\ p.op \in {"attach", "create", "update"}
    BY <1>1, OneRequest DEF Held
  <1>3. CASE Respond(r) /\ UNCHANGED <<links, made>>
    BY <1>1, <1>3, RespondInv DEF RowsStay, Inv, TypeOK, Deleting
  <1>4. CASE /\ files[f] = "stored" /\ made' = n
             /\ links' = [links EXCEPT ![n] = new]
             /\ req' = [req EXCEPT ![r] = q]
    <2>1. n \in LinkIds /\ links[n] = NoLink /\ made' \in 0 .. MaxLinks
      BY <1>1, <1>4, ContentAssumption DEF Inv, TypeOK, Numbered, LinkIds
    <2>2. new \in Link /\ new.state = "live" /\ new.file = f /\ new.late = (f \in swept) /\ new # NoLink
      BY <1>2 DEF Link, NoLink
    <2>3. links \in [LinkIds -> Link \cup {NoLink}]
      BY DEF Inv, TypeOK
    <2> HIDE DEF new, n
    <2>4. /\ links' \in [LinkIds -> Link \cup {NoLink}]
          /\ \A l \in LinkIds : links'[l] = IF l = n THEN new ELSE links[l]
      BY <1>4, <2>1, <2>2, <2>3
    <2>5. /\ q \in Request \cup {Idle} /\ Held(q) /\ OwnFile(q)
          /\ q.pc \in {"idle", "persist", "apply"}
      <3>1. CASE q = Idle
        BY <3>1, IdleHeld
      <3>2. CASE /\ p.op # "attach"
                 /\ q = [p EXCEPT !.link = n, !.pc = IF p.op = "create" THEN "persist" ELSE "apply"]
        <4>1. /\ q \in Request /\ q.link = n /\ q.op = p.op /\ q.row = p.row /\ q.old = p.old
              /\ q.to = p.to /\ q.file = p.file
              /\ q.pc = IF p.op = "create" THEN "persist" ELSE "apply"
          <5> HIDE DEF p, q
          <5> QED  BY <1>2, <2>1, <3>2 DEF Request, Foreground
        <4> HIDE DEF p, q, f
        <4>2. /\ p.op = "create" => p.to \in Statuses
              /\ p.op = "update" => p.old \in Row
              /\ p.row \in Rows
          BY <1>1, <1>2, <3>2 DEF Held
        <4>3. CASE p.op = "create" /\ q.pc = "persist"
          BY <2>1, <4>1, <4>2, <4>3, FreshOwn DEF Held, Deleting, Cleaning, Counting
        <4>4. CASE p.op = "update" /\ q.pc = "apply"
          BY <2>1, <4>1, <4>2, <4>4, FreshOwn DEF Held, Deleting, Cleaning, Counting
        <4> QED  BY <1>2, <3>2, <4>1, <4>3, <4>4
      <3> QED  BY <3>1, <3>2 DEF AfterLink
    <2> HIDE DEF q
    <2>6. /\ req' \in [Requests -> Request \cup {Idle}]
          /\ Holding'
          /\ \A s \in Requests : req'[s] = IF s = r THEN q ELSE req[s]
      BY <1>4, <2>5, MovedRequest
    <2>7. TypeOK'
      BY <1>1, <2>1, <2>4, <2>6 DEF Inv, TypeOK
    <2>8. Numbered'
      BY <1>4, <2>1, <2>4 DEF Inv, TypeOK, Numbered, LinkIds, n
    <2>9. YoungLinks' /\ LinksSurvive'
      BY <1>1, <2>2, <2>4 DEF Inv, YoungLinks, LinksSurvive
    <2>10. LinkedStored'
      BY <1>1, <1>4, <2>2, <2>4 DEF Inv, LinkedStored
    <2>11. CountedFirst' /\ UploadsApart' /\ DeletesRow'
      BY <1>1, <2>5, <2>6 DEF Inv, CountedFirst, UploadsApart, DeletesRow
    <2>12. CleansOwn'
      <3>1. ASSUME NEW s \in Requests, req'[s].pc \in {"unlink"} \cup Deleting
            PROVE  /\ links'[req'[s].old.link] # NoLink
                   /\ links'[req'[s].old.link].file = req'[s].file
        <4>1. s # r /\ req'[s] = req[s]
          BY <2>5, <2>6, <3>1 DEF Deleting
        <4>2. req[s].old.link \in LinkIds /\ OwnFile(req[s])
          BY <3>1, <4>1, OneRequest DEF Held, Deleting, Cleaning
        <4> QED  BY <2>1, <2>4, <3>1, <4>1, <4>2 DEF OwnFile
      <3> QED  BY <3>1 DEF CleansOwn, OwnFile
    <2>13. FilesFollow'
      <3>1. ASSUME faults = 0, NEW g \in Files, files[g] = "stored",
                   NEW l \in LinkIds, links'[l].file = g, LinksOf(g)' = {}
            PROVE  \E s \in Requests : req'[s].pc \in Deleting /\ req'[s].file = g
        <4>1. g # f
          BY <2>1, <2>2, <2>4, <3>1 DEF LinksOf, n
        <4>2. links[l].file = g
          BY <2>2, <2>4, <3>1, <4>1
        <4>3. LinksOf(g) = {}
          BY <2>1, <2>4, <3>1 DEF LinksOf, NoLink
        <4>4. PICK s \in Requests : req[s].pc \in Deleting /\ req[s].file = g
          BY <3>1, <4>2, <4>3 DEF Inv, FilesFollow, EmptyFilesGo, Deleting
        <4> QED  BY <1>1, <2>6, <4>4 DEF Deleting
      <3> QED  BY <1>1, <3>1 DEF FilesFollow, EmptyFilesGo, Deleting
    <2> QED  BY <2>6, <2>7, <2>8, <2>9, <2>10, <2>11, <2>12, <2>13 DEF Inv
  <1> QED  BY <1>3, <1>4 DEF InsertLink

LEMMA CleanUnlinkInv ==
    ASSUME Inv, NEW r \in Requests, CleanUnlink(r)
    PROVE  Inv'
  <1> DEFINE p == req[r]
             n == p.old.link
             gone == [links[n] EXCEPT !.state = IF @ = "live" THEN "unlinked" ELSE @]
             q == [p EXCEPT !.pc = "count"]
  <1>1. p.pc = "unlink" /\ UNCHANGED <<files, rows, stats, made, begun, swept>>
    BY DEF CleanUnlink
  <1>2. CASE ProcessEnds /\ UNCHANGED links
    BY <1>1, <1>2, AllStop
  <1>3. CASE /\ links' = [links EXCEPT ![n].state = IF @ = "live" THEN "unlinked" ELSE @]
             /\ Goto(r, "count")
             /\ UNCHANGED <<faults, calm>>
    <2>1. /\ p \in Request /\ Held(p) /\ p.op \in {"update", "delete"} /\ n \in LinkIds
          /\ links[n] # NoLink /\ links[n].file = p.file /\ links[n] \in Link
      BY <1>1, OneRequest, OneLink DEF Held, Cleaning, OwnFile
    <2>2. /\ gone \in Link /\ gone # NoLink /\ gone.file = links[n].file
          /\ gone.late = links[n].late
          /\ gone.state # "live" /\ (gone.state = "cascaded" => links[n].state = "cascaded")
      BY <2>1 DEF Link, NoLink
    <2>3. links \in [LinkIds -> Link \cup {NoLink}]
      BY DEF Inv, TypeOK
    <2>4. links' = [links EXCEPT ![n] = gone]
      BY <1>3
    <2>5. /\ q \in Request /\ q.pc = "count" /\ q.op = p.op /\ q.old = p.old /\ q.file = p.file
      BY <2>1 DEF Request, Cleaning
    <2>6. req' = [req EXCEPT ![r] = q]
      BY <1>3 DEF Goto
    <2> HIDE DEF gone, q
    <2>7. /\ links' \in [LinkIds -> Link \cup {NoLink}]
          /\ \A l \in LinkIds : links'[l] = IF l = n THEN gone ELSE links[l]
      BY <2>1, <2>2, <2>3, <2>4
    <2>8. Held(q)
      BY <1>1, <2>1, <2>5 DEF Held, Deleting, Cleaning, Counting
    <2>9. /\ req' \in [Requests -> Request \cup {Idle}]
          /\ Holding'
          /\ \A s \in Requests : req'[s] = IF s = r THEN q ELSE req[s]
      BY <2>5, <2>6, <2>8, MovedRequest
    <2>10. \A l \in LinkIds : /\ links'[l].file = links[l].file
                              /\ links'[l].late = links[l].late
                              /\ links'[l] = NoLink <=> links[l] = NoLink
                              /\ links'[l].state = "live" => l # n /\ links[l].state = "live"
                              /\ links'[l].state = "cascaded" => links[l].state = "cascaded"
      <3> HIDE DEF n, p
      <3> QED  BY <2>1, <2>2, <2>7
    <2>11. TypeOK'
      BY <1>1, <1>3, <2>7, <2>9 DEF Inv, TypeOK
    <2>12. Numbered' /\ YoungLinks' /\ LinksSurvive' /\ LinkedStored'
      BY <1>1, <2>10 DEF Inv, Numbered, YoungLinks, LinksSurvive, LinkedStored
    <2>13. CountedFirst' /\ UploadsApart' /\ DeletesRow'
      BY <1>1, <2>5, <2>9 DEF Inv, CountedFirst, UploadsApart, DeletesRow
    <2>14. CleansOwn'
      <3>1. ASSUME NEW s \in Requests, req'[s].pc \in {"unlink"} \cup Deleting
            PROVE  /\ links'[req'[s].old.link] # NoLink
                   /\ links'[req'[s].old.link].file = req'[s].file
        <4>1. CASE s = r
          BY <2>1, <2>5, <2>9, <2>10, <4>1
        <4>2. CASE s # r
          <5>1. req'[s] = req[s]
            BY <2>9, <4>2
          <5>2. req[s].old.link \in LinkIds /\ OwnFile(req[s])
            BY <3>1, <5>1, OneRequest DEF Held, Deleting, Cleaning
          <5> QED  BY <2>10, <3>1, <5>1, <5>2 DEF OwnFile
        <4> QED  BY <4>1, <4>2
      <3> QED  BY <3>1 DEF CleansOwn, OwnFile
    <2>15. FilesFollow'
      <3>1. ASSUME faults = 0, NEW g \in Files, files[g] = "stored",
                   NEW l \in LinkIds, links'[l].file = g, LinksOf(g)' = {}
            PROVE  \E s \in Requests : req'[s].pc \in Deleting /\ req'[s].file = g
        <4>1. CASE g = p.file
          BY <2>5, <2>9, <4>1 DEF Deleting
        <4>2. CASE g # p.file
          <5>1. LinksOf(g) = {}
            BY <2>1, <2>7, <3>1, <4>2 DEF LinksOf
          <5>2. PICK s \in Requests : req[s].pc \in Deleting /\ req[s].file = g
            BY <2>10, <3>1, <5>1 DEF Inv, FilesFollow, EmptyFilesGo, Deleting
          <5> QED  BY <1>1, <2>9, <5>2 DEF Deleting
        <4> QED  BY <4>1, <4>2
      <3> QED  BY <1>1, <1>3, <3>1 DEF FilesFollow, EmptyFilesGo, Deleting
    <2> QED  BY <2>9, <2>11, <2>12, <2>13, <2>14, <2>15 DEF Inv
  <1> QED  BY <1>2, <1>3 DEF CleanUnlink

LEMMA CleanCountInv ==
    ASSUME Inv, NEW r \in Requests, CleanCount(r)
    PROVE  Inv'
  <1> DEFINE p == req[r]
             f == p.file
             q == [p EXCEPT !.pc = "object"]
  <1>1. p.pc = "count" /\ UNCHANGED <<files, links, rows, stats, made, begun, faults, calm>>
    BY DEF CleanCount, contentVars
  <1>2. p \in Request /\ Held(p) /\ OwnFile(p) /\ f \in Files
    BY <1>1, OneRequest DEF Held, Deleting
  <1>3. CASE LinksOf(f) # {} /\ Respond(r) /\ UNCHANGED swept
    <2>1. /\ req' \in [Requests -> Request \cup {Idle}]
          /\ Holding'
          /\ \A s \in Requests : req'[s] = IF s = r THEN Idle ELSE req[s]
      BY <1>3, IdleHeld, MovedRequest DEF Respond
    <2>2. TypeOK'
      BY <1>1, <1>3, <2>1 DEF Inv, TypeOK
    <2>3. Numbered' /\ YoungLinks' /\ LinksSurvive' /\ LinkedStored'
      BY <1>1, <1>3 DEF Inv, Numbered, YoungLinks, LinksSurvive, LinkedStored
    <2>4. CountedFirst' /\ UploadsApart' /\ DeletesRow'
      BY <1>1, <1>3, <2>1, IdleHeld DEF Inv, CountedFirst, UploadsApart, DeletesRow
    <2>5. \A s \in Requests : OwnFile(req'[s])
      BY <2>1, IdleHeld DEF Inv, CleansOwn
    <2>6. CleansOwn'
      BY <1>1, <2>5 DEF CleansOwn, OwnFile
    <2>7. FilesFollow'
      <3>1. ASSUME faults = 0, NEW g \in Files, files[g] = "stored",
                   \E l \in LinkIds : links[l].file = g, LinksOf(g) = {}
            PROVE  \E s \in Requests : req'[s].pc \in Deleting /\ req'[s].file = g
        <4>1. g # f
          BY <1>3, <3>1
        <4>2. PICK s \in Requests : req[s].pc \in Deleting /\ req[s].file = g
          BY <3>1 DEF Inv, FilesFollow, EmptyFilesGo, Deleting
        <4> QED  BY <2>1, <4>1, <4>2
      <3> QED  BY <1>1, <3>1 DEF FilesFollow, EmptyFilesGo, LinksOf, Deleting
    <2> QED  BY <2>1, <2>2, <2>3, <2>4, <2>6, <2>7 DEF Inv
  <1>4. CASE LinksOf(f) = {} /\ Goto(r, "object") /\ swept' = swept \cup {f}
    <2>1. q \in Request /\ q.pc = "object" /\ q.op = p.op /\ q.old = p.old /\ q.file = f
      BY <1>2 DEF Request, Cleaning
    <2>2. req' = [req EXCEPT ![r] = q]
      BY <1>4 DEF Goto
    <2> HIDE DEF q
    <2>3. Held(q) /\ OwnFile(q)
      <3> HIDE DEF p
      <3> QED  BY <1>1, <1>2, <2>1 DEF Held, OwnFile, Deleting, Cleaning, Counting
    <2>4. /\ req' \in [Requests -> Request \cup {Idle}]
          /\ Holding'
          /\ \A s \in Requests : req'[s] = IF s = r THEN q ELSE req[s]
      BY <2>1, <2>2, <2>3, MovedRequest
    <2>5. TypeOK'
      BY <1>1, <1>2, <1>4, <2>4 DEF Inv, TypeOK
    <2>6. YoungLinks'
      BY <1>1, <1>4 DEF Inv, YoungLinks, LinksOf
    <2>7. Numbered' /\ LinksSurvive' /\ LinkedStored'
      BY <1>1 DEF Inv, Numbered, LinksSurvive, LinkedStored
    <2>8. CountedFirst' /\ UploadsApart' /\ DeletesRow'
      BY <1>1, <1>4, <2>1, <2>4 DEF Inv, CountedFirst, UploadsApart, DeletesRow
    <2>9. \A s \in Requests : OwnFile(req'[s])
      BY <2>3, <2>4 DEF Inv, CleansOwn
    <2>10. CleansOwn'
      BY <1>1, <2>9 DEF CleansOwn, OwnFile
    <2>11. FilesFollow'
      <3>1. ASSUME faults = 0, NEW g \in Files, files[g] = "stored",
                   \E l \in LinkIds : links[l].file = g, LinksOf(g) = {}
            PROVE  \E s \in Requests : req'[s].pc \in Deleting /\ req'[s].file = g
        <4>1. PICK s \in Requests : req[s].pc \in Deleting /\ req[s].file = g
          BY <3>1 DEF Inv, FilesFollow, EmptyFilesGo, Deleting
        <4> QED  BY <2>1, <2>4, <4>1 DEF Deleting
      <3> QED  BY <1>1, <3>1 DEF FilesFollow, EmptyFilesGo, LinksOf, Deleting
    <2> QED  BY <2>4, <2>5, <2>6, <2>7, <2>8, <2>10, <2>11 DEF Inv
  <1> QED  BY <1>3, <1>4 DEF CleanCount

LEMMA CleanRowInv ==
    ASSUME Inv, NEW r \in Requests, CleanRow(r)
    PROVE  Inv'
  <1> DEFINE p == req[r]
             f == p.file
  <1>1. p.pc = "row" /\ UNCHANGED <<rows, stats, made, begun, swept>>
    BY DEF CleanRow
  <1>2. CASE ProcessEnds /\ UNCHANGED <<files, links>>
    BY <1>1, <1>2, AllStop
  <1>3. CASE /\ files' = [files EXCEPT ![f] = "gone"]
             /\ links' = [l \in LinkIds |->
                  IF l \in LinksOf(f) THEN [links[l] EXCEPT !.state = "cascaded"] ELSE links[l]]
             /\ Respond(r)
             /\ UNCHANGED <<faults, calm>>
    <2>1. /\ p.old.link \in LinkIds /\ OwnFile(p) /\ f \in Files /\ f \in swept
      BY <1>1, OneRequest DEF Held, Deleting, Cleaning, Inv, CountedFirst
    <2>2. files[f] \in {"stored", "gone"}
      BY <1>1, <2>1, OneLink DEF OwnFile, Deleting
    <2>3. /\ req' \in [Requests -> Request \cup {Idle}]
          /\ Holding'
          /\ \A s \in Requests : req'[s] = IF s = r THEN Idle ELSE req[s]
      BY <1>3, IdleHeld, MovedRequest DEF Respond
    <2>4. /\ files' \in [Files -> {"none", "object", "stored", "gone"}]
          /\ \A g \in Files : files'[g] = IF g = f THEN "gone" ELSE files[g]
      BY <1>3, <2>1 DEF Inv, TypeOK
    <2>5. ASSUME NEW l \in LinkIds
          PROVE  /\ links'[l] \in Link \cup {NoLink}
                 /\ links'[l].file = links[l].file
                 /\ links'[l].late = links[l].late
                 /\ links'[l] = NoLink <=> links[l] = NoLink
                 /\ links'[l].state = "live" => links[l].state = "live"
                 /\ links'[l].state = "live" <=> links[l].state = "live" /\ links[l].file # f
                 /\ links'[l].state = "cascaded" =>
                      \/ links[l].state = "cascaded"
                      \/ links[l].state = "live" /\ links[l].file = f
      <3>1. links[l] \in Link \cup {NoLink}
        BY DEF Inv, TypeOK
      <3>2. CASE l \in LinksOf(f)
        <4>1. links[l] \in Link /\ links[l].state = "live" /\ links[l].file = f
          BY <3>1, <3>2 DEF LinksOf, NoLink
        <4>2. links'[l] = [links[l] EXCEPT !.state = "cascaded"]
          BY <1>3, <3>2
        <4> HIDE DEF f
        <4> QED  BY <4>1, <4>2 DEF Link, NoLink
      <3>3. CASE l \notin LinksOf(f)
        BY <1>3, <3>1, <3>3 DEF LinksOf
      <3> QED  BY <3>2, <3>3
    <2>6. links' \in [LinkIds -> Link \cup {NoLink}]
      BY <1>3, <2>5
    <2>7. TypeOK'
      BY <1>1, <1>3, <2>3, <2>4, <2>6 DEF Inv, TypeOK
    <2>8. Numbered' /\ YoungLinks'
      BY <1>1, <2>5 DEF Inv, Numbered, YoungLinks
    <2>9. LinksSurvive'
      BY <2>1, <2>5 DEF Inv, LinksSurvive, YoungLinks
    <2>10. LinkedStored'
      <3>1. \A l \in LinkIds : links[l] # NoLink => links[l].file \in Files
        BY OneLink DEF Link
      <3> QED  BY <2>4, <2>5, <3>1 DEF Inv, LinkedStored
    <2>11. CountedFirst' /\ DeletesRow'
      BY <1>1, <2>3, IdleHeld DEF Inv, CountedFirst, DeletesRow
    <2>12. UploadsApart'
      <3>1. \A s \in Requests : req[s].pc = "saveFile" => req[s].file \in Files /\ req[s].file # f
        BY <2>2 DEF Inv, UploadsApart, Holding, Held
      <3> HIDE DEF f
      <3> QED  BY <2>3, <2>4, <3>1, IdleHeld DEF Inv, UploadsApart
    <2>13. CleansOwn'
      <3>1. ASSUME NEW s \in Requests, req'[s].pc \in {"unlink"} \cup Deleting
            PROVE  /\ links'[req'[s].old.link] # NoLink
                   /\ links'[req'[s].old.link].file = req'[s].file
        <4>1. req'[s] = req[s]
          BY <2>3, <3>1, IdleHeld DEF Deleting
        <4>2. req[s].old.link \in LinkIds /\ OwnFile(req[s])
          BY <3>1, <4>1, OneRequest DEF Held, Deleting, Cleaning
        <4> QED  BY <2>5, <3>1, <4>1, <4>2 DEF OwnFile
      <3> QED  BY <3>1 DEF CleansOwn, OwnFile
    <2>14. FilesFollow'
      <3>1. ASSUME faults = 0, NEW g \in Files, files'[g] = "stored",
                   NEW l \in LinkIds, links'[l].file = g, LinksOf(g)' = {}
            PROVE  \E s \in Requests : req'[s].pc \in Deleting /\ req'[s].file = g
        <4>1. g # f /\ files[g] = "stored"
          BY <2>4, <3>1
        <4>2. LinksOf(g) = {}
          BY <2>5, <3>1, <4>1 DEF LinksOf
        <4>3. PICK s \in Requests : req[s].pc \in Deleting /\ req[s].file = g
          BY <2>5, <3>1, <4>1, <4>2 DEF Inv, FilesFollow, EmptyFilesGo, Deleting
        <4> QED  BY <2>3, <4>1, <4>3
      <3> QED  BY <1>3, <3>1 DEF FilesFollow, EmptyFilesGo, Deleting
    <2> QED  BY <2>3, <2>7, <2>8, <2>9, <2>10, <2>11, <2>12, <2>13, <2>14 DEF Inv
  <1> QED  BY <1>2, <1>3 DEF CleanRow

-----------------------------------------------------------------------------
LEMMA InitInv == Init => Inv
  <1> SUFFICES ASSUME Init PROVE Inv
    OBVIOUS
  <1>1. \A r \in Requests : req[r] = Idle
    BY DEF Init
  <1>2. \A l \in LinkIds : links[l] = NoLink
    BY DEF Init
  <1>3. TypeOK
    BY ContentAssumption DEF Init, TypeOK, NoCounts, Counters
  <1>4. Holding /\ CleansOwn
    <2>1. \A r \in Requests : Held(req[r]) /\ OwnFile(req[r])
      <3> TAKE r \in Requests
      <3>1. req[r] = Idle
        BY <1>1
      <3> HIDE DEF Idle
      <3> QED  BY <3>1, IdleHeld DEF Held, OwnFile
    <2> QED  BY <2>1 DEF Holding, CleansOwn
  <1>5. DeletesRow /\ CountedFirst /\ UploadsApart
    BY <1>1, IdleHeld DEF DeletesRow, CountedFirst, UploadsApart
  <1>6. Numbered /\ YoungLinks /\ LinksSurvive /\ LinkedStored
    <2>1. \A l \in LinkIds : links[l].state = "none"
      BY <1>2 DEF NoLink
    <2> QED  BY <1>2, <2>1 DEF Numbered, YoungLinks, LinksSurvive, LinkedStored
  <1>7. FilesFollow
    BY DEF Init, FilesFollow, EmptyFilesGo
  <1> QED  BY <1>3, <1>4, <1>5, <1>6, <1>7 DEF Inv

LEMMA StepInv == Inv /\ [Next]_vars => Inv'
  <1> SUFFICES ASSUME Inv, [Next]_vars PROVE Inv'
    OBVIOUS
  <1>1. ASSUME NEW r \in Requests, Arrive(r) PROVE Inv'
    <2>1. ASSUME NEW f \in Files, UploadObject(r, f) \/ Attach(r, f) PROVE Inv'
      BY <2>1, ArriveInv, UploadObjectInv
    <2>2. ASSUME NEW g \in Rows, NEW f \in Files, NEW status \in Statuses,
                 NEW found \in BOOLEAN, Create(r, g, f, status, found)
          PROVE  Inv'
      BY <2>2, ArriveInv
    <2>3. ASSUME NEW g \in Rows, NEW f \in Files \cup {None}, NEW status \in Statuses \cup {None},
                 Update(r, g, f, status)
          PROVE  Inv'
      BY <2>3, ArriveInv
    <2>4. ASSUME NEW g \in Rows, Delete(r, g) PROVE Inv'
      BY <2>4, ArriveInv
    <2> QED  BY <1>1, <2>1, <2>2, <2>3, <2>4 DEF Arrive
  <1>2. ASSUME NEW r \in Requests, Serve(r) PROVE Inv'
    BY <1>2, UploadRowInv, FindInv, InsertLinkInv, PersistInv, ApplyInv, ReloadInv,
       DeleteRowInv, ReadCountsInv, WriteCountsInv DEF Serve
  <1>3. ASSUME NEW r \in Requests, Clean(r) PROVE Inv'
    BY <1>3, CleanFindInv, CleanUnlinkInv, CleanCountInv, CleanObjectInv, CleanRowInv DEF Clean
  <1>4. ASSUME NEW r \in Requests, RequestFails(r) PROVE Inv'
    BY <1>4, RequestFailsInv
  <1>5. ASSUME Restart PROVE Inv'
    BY <1>5, AllStop DEF Restart, contentVars
  <1>6. ASSUME UNCHANGED vars PROVE Inv'
    <2>1. UNCHANGED <<files, links, rows, stats, req, made, begun, faults, swept, calm>>
      BY <1>6 DEF vars, contentVars, ghosts
    <2>2. TypeOK' /\ Holding'
      BY <2>1 DEF Inv, TypeOK, Holding, Held
    <2>3. Numbered' /\ YoungLinks' /\ LinksSurvive' /\ LinkedStored' /\ CountedFirst'
      BY <2>1 DEF Inv, Numbered, YoungLinks, LinksSurvive, LinkedStored, CountedFirst
    <2>4. UploadsApart' /\ CleansOwn' /\ DeletesRow'
      BY <2>1 DEF Inv, UploadsApart, CleansOwn, OwnFile, DeletesRow
    <2>5. FilesFollow'
      BY <2>1 DEF Inv, FilesFollow, EmptyFilesGo, LinksOf
    <2> QED  BY <2>2, <2>3, <2>4, <2>5 DEF Inv
  <1> QED  BY <1>1, <1>2, <1>3, <1>4, <1>5, <1>6 DEF Next

LEMMA InvHolds == Spec => []Inv
  BY InitInv, StepInv, PTL DEF Spec

\* A clean-up takes no file from a link that was there when it counted the
\* file's links: what goes with the file's row was made after the count.
THEOREM LinksSafe == Spec => []LinksSurvive
  <1>1. Inv => LinksSurvive
    BY DEF Inv
  <1> QED  BY <1>1, InvHolds, PTL

-----------------------------------------------------------------------------
(* Counters and rows. *)

There(table, k) == {g \in Rows : table[g].state = "there" /\ KindOf(g) = k}
Marked(table, k, s) == {g \in There(table, k) : table[g].status = s}

\* Counters that count the rows of a table.
Tally(counts, table, k) ==
    /\ counts["total"] = Cardinality(There(table, k))
    /\ \A s \in Statuses : counts[s] = Cardinality(Marked(table, k, s))

\* The requests that Busy is about.
AtWork(q, k) == q.pc \in Foreground /\ q.row # None /\ KindOf(q.row) = k

\* The table as it was before the write, which is what the counters still count.
Before(q, table) == [table EXCEPT ![q.row] = q.old]

\* What a write that nobody crosses knows of its row and of the counters it read.
Knows(q, table, counts) ==
    /\ q.op = "create" => q.old = NoRow /\ q.to \in Statuses
    /\ q.op # "create" => q.old \in Row /\ q.old.state = "there"
    /\ q.pc \notin Counting => table[q.row] = q.old
    /\ q.pc \in {"persist"} => q.op = "create"
    /\ q.pc \in {"apply", "reload"} => q.op = "update"
    /\ q.pc = "delete" => q.op = "delete"
    /\ q.pc = "reload" =>
           /\ table[q.row].state = "there"
           /\ table[q.row].status = IF q.to = None THEN q.old.status ELSE q.to
    /\ q.pc \in {"readCounts", "writeCounts"} =>
           /\ q.op \in {"create", "update", "delete"}
           /\ q.op = "delete" => table[q.row].state = "gone"
           /\ q.op # "delete" => table[q.row].state = "there" /\ table[q.row].status = q.to
           /\ q.op = "update" => q.to \in Statuses /\ q.to # q.old.status
    /\ q.pc = "writeCounts" => q.counts = counts

Booked(k) ==
    calm[k] =>
        /\ \A r, s \in Requests : AtWork(req[r], k) /\ AtWork(req[s], k) => r = s
        /\ \A r \in Requests : AtWork(req[r], k) =>
               Knows(req[r], rows, stats[k]) /\ Tally(stats[k], Before(req[r], rows), k)
        /\ (\A r \in Requests : ~AtWork(req[r], k)) => Tally(stats[k], rows, k)

BooksInv ==
    /\ IsFiniteSet({g \in Rows : rows[g] # NoRow})
    /\ \A k \in Kinds : Booked(k)

\* Two tables that agree on which rows of a kind are there, and how marked.
LEMMA TallySame ==
    ASSUME NEW k, NEW t, NEW u, NEW c, Tally(c, t, k),
           \A g \in Rows : KindOf(g) = k =>
               /\ t[g].state = "there" <=> u[g].state = "there"
               /\ t[g].state = "there" => t[g].status = u[g].status
    PROVE  Tally(c, u, k)
  <1>1. There(u, k) = There(t, k)
    BY DEF There
  <1>2. \A s : Marked(u, k, s) = Marked(t, k, s)
    BY <1>1 DEF Marked, There
  <1> QED  BY <1>1, <1>2 DEF Tally

\* A row more, and a row less.
LEMMA OneMore ==
    ASSUME NEW S, NEW T, NEW x, IsFiniteSet(S), x \notin S, T = S \cup {x}
    PROVE  Cardinality(T) = Cardinality(S) + 1 /\ Cardinality(S) \in Nat
  BY FS_AddElement, FS_CardinalityType

LEMMA OneLess ==
    ASSUME NEW S, NEW T, NEW x, IsFiniteSet(S), x \in S, T = S \ {x}
    PROVE  Cardinality(T) = Cardinality(S) - 1 /\ Cardinality(S) \in Nat /\ Cardinality(S) > 0
  <1>1. Cardinality(T) = Cardinality(S) - 1 /\ Cardinality(S) \in Nat
    BY FS_RemoveElement, FS_CardinalityType
  <1>2. Cardinality(S) # 0
    BY FS_EmptySet
  <1> QED  BY <1>1, <1>2

LEMMA TableFinite ==
    ASSUME NEW t, NEW k, IsFiniteSet({g \in Rows : t[g] # NoRow})
    PROVE  IsFiniteSet(There(t, k)) /\ \A s : IsFiniteSet(Marked(t, k, s))
  <1>1. NoRow.state = "none"
    BY DEF NoRow
  <1>2. There(t, k) \subseteq {g \in Rows : t[g] # NoRow}
    BY <1>1 DEF There
  <1>3. \A s : Marked(t, k, s) \subseteq {g \in Rows : t[g] # NoRow}
    BY <1>2 DEF Marked
  <1> QED  BY <1>2, <1>3, FS_Subset

LEMMA BeforeFacts ==
    ASSUME TypeOK, NEW q, q.row \in Rows
    PROVE  /\ \A g \in Rows : Before(q, rows)[g] = IF g = q.row THEN q.old ELSE rows[g]
           /\ IsFiniteSet({g \in Rows : rows[g] # NoRow})
                  => IsFiniteSet({g \in Rows : Before(q, rows)[g] # NoRow})
  <1>1. \A g \in Rows : Before(q, rows)[g] = IF g = q.row THEN q.old ELSE rows[g]
    BY DEF Before, TypeOK
  <1>2. {g \in Rows : Before(q, rows)[g] # NoRow} \subseteq {g \in Rows : rows[g] # NoRow} \cup {q.row}
    BY <1>1
  <1>3. ASSUME IsFiniteSet({g \in Rows : rows[g] # NoRow})
        PROVE  IsFiniteSet({g \in Rows : Before(q, rows)[g] # NoRow})
    <2>1. IsFiniteSet({g \in Rows : rows[g] # NoRow} \cup {q.row})
      BY <1>3, FS_AddElement
    <2> QED  BY <1>2, <2>1, FS_Subset
  <1> QED  BY <1>1, <1>3

\* What the counters become, of the row written: they count the table again.
LEMMA CountsAgain ==
    ASSUME TypeOK, NEW q \in Request, NEW k \in Kinds, NEW c \in Counters, q.pc = "writeCounts",
           AtWork(q, k), Knows(q, rows, c), Tally(c, Before(q, rows), k),
           IsFiniteSet({g \in Rows : rows[g] # NoRow})
    PROVE  Tally(CountsOf(q, c), rows, k)
  <1> DEFINE t == Before(q, rows)
             g == q.row
  <1>1. g \in Rows /\ KindOf(g) = k /\ q.counts = c
    BY DEF AtWork, Request, Knows
  <1>2. \A h \in Rows : t[h] = IF h = g THEN q.old ELSE rows[h]
    BY <1>1, BeforeFacts
  <1>3. IsFiniteSet(There(t, k)) /\ \A s : IsFiniteSet(Marked(t, k, s))
    BY <1>1, BeforeFacts, TableFinite
  <1>4. /\ c["total"] = Cardinality(There(t, k))
        /\ \A s \in Statuses : c[s] = Cardinality(Marked(t, k, s))
    BY DEF Tally
  <1>5. "total" \notin Statuses /\ c \in [Statuses \cup {"total"} -> Int]
    BY ContentAssumption DEF Counters
  <1> HIDE DEF t
  <1>6. CASE q.op = "create"
    <2>1. q.to \in Statuses /\ t[g].state # "there" /\ rows[g].state = "there" /\ rows[g].status = q.to
      BY <1>1, <1>2, <1>6 DEF Knows, NoRow
    <2>2. There(rows, k) = There(t, k) \cup {g} /\ g \notin There(t, k)
      BY <1>1, <1>2, <2>1 DEF There
    <2>3. Marked(rows, k, q.to) = Marked(t, k, q.to) \cup {g} /\ g \notin Marked(t, k, q.to)
      BY <1>1, <1>2, <2>1, <2>2 DEF Marked, There
    <2>4. \A s \in Statuses : s # q.to => Marked(rows, k, s) = Marked(t, k, s)
      BY <1>1, <1>2, <2>1, <2>2 DEF Marked, There
    <2>5. Cardinality(There(rows, k)) = c["total"] + 1
      BY <1>3, <1>4, <2>2, OneMore
    <2>6. Cardinality(Marked(rows, k, q.to)) = c[q.to] + 1
      BY <1>3, <1>4, <2>1, <2>3, OneMore
    <2>7. CountsOf(q, c) = [c EXCEPT !["total"] = @ + 1, ![q.to] = @ + 1]
      BY <1>1, <1>6 DEF CountsOf
    <2>8. /\ CountsOf(q, c)["total"] = c["total"] + 1 /\ CountsOf(q, c)[q.to] = c[q.to] + 1
          /\ \A s \in Statuses : s # q.to => CountsOf(q, c)[s] = c[s]
      BY <1>5, <2>1, <2>7
    <2> QED  BY <1>4, <2>4, <2>5, <2>6, <2>8 DEF Tally
  <1>7. CASE q.op = "delete"
    <2>1. /\ q.old.status \in Statuses /\ t[g].state = "there" /\ t[g].status = q.old.status
          /\ rows[g].state # "there"
      BY <1>1, <1>2, <1>7 DEF Knows, Row
    <2>2. There(rows, k) = There(t, k) \ {g} /\ g \in There(t, k)
      BY <1>1, <1>2, <2>1 DEF There
    <2>3. Marked(rows, k, q.old.status) = Marked(t, k, q.old.status) \ {g} /\ g \in Marked(t, k, q.old.status)
      BY <1>1, <1>2, <2>1, <2>2 DEF Marked, There
    <2>4. \A s \in Statuses : s # q.old.status => Marked(rows, k, s) = Marked(t, k, s)
      BY <1>1, <1>2, <2>1, <2>2 DEF Marked, There
    <2>5. Cardinality(There(rows, k)) = c["total"] - 1 /\ c["total"] > 0
      BY <1>3, <1>4, <2>2, OneLess
    <2>6. Cardinality(Marked(rows, k, q.old.status)) = c[q.old.status] - 1
      BY <1>3, <1>4, <2>1, <2>3, OneLess
    <2>7. CountsOf(q, c) = [c EXCEPT !["total"] = IF @ > 0 THEN @ - 1 ELSE 0, ![q.old.status] = @ - 1]
      BY <1>1, <1>7 DEF CountsOf
    <2>8. /\ CountsOf(q, c)["total"] = c["total"] - 1
          /\ CountsOf(q, c)[q.old.status] = c[q.old.status] - 1
          /\ \A s \in Statuses : s # q.old.status => CountsOf(q, c)[s] = c[s]
      BY <1>5, <2>1, <2>5, <2>7
    <2> QED  BY <1>4, <2>4, <2>5, <2>6, <2>8 DEF Tally
  <1>8. CASE q.op = "update"
    <2>1. /\ q.old.status \in Statuses /\ t[g].state = "there" /\ t[g].status = q.old.status
          /\ q.to \in Statuses /\ q.to # q.old.status
          /\ rows[g].state = "there" /\ rows[g].status = q.to
      BY <1>1, <1>2, <1>8 DEF Knows, Row
    <2>2. There(rows, k) = There(t, k) /\ g \in There(t, k)
      BY <1>1, <1>2, <2>1 DEF There
    <2>3. Marked(rows, k, q.old.status) = Marked(t, k, q.old.status) \ {g} /\ g \in Marked(t, k, q.old.status)
      BY <1>1, <1>2, <2>1, <2>2 DEF Marked, There
    <2>4. Marked(rows, k, q.to) = Marked(t, k, q.to) \cup {g} /\ g \notin Marked(t, k, q.to)
      BY <1>1, <1>2, <2>1, <2>2 DEF Marked, There
    <2>5. \A s \in Statuses : s # q.old.status /\ s # q.to => Marked(rows, k, s) = Marked(t, k, s)
      BY <1>1, <1>2, <2>1, <2>2 DEF Marked, There
    <2>6. Cardinality(Marked(rows, k, q.old.status)) = c[q.old.status] - 1
      BY <1>3, <1>4, <2>1, <2>3, OneLess
    <2>7. Cardinality(Marked(rows, k, q.to)) = c[q.to] + 1
      BY <1>3, <1>4, <2>1, <2>4, OneMore
    <2>8. CountsOf(q, c) = [c EXCEPT ![q.old.status] = c[q.old.status] - 1, ![q.to] = c[q.to] + 1]
      BY <1>1, <1>8 DEF CountsOf
    <2>9. /\ CountsOf(q, c)["total"] = c["total"]
          /\ CountsOf(q, c)[q.old.status] = c[q.old.status] - 1
          /\ CountsOf(q, c)[q.to] = c[q.to] + 1
          /\ \A s \in Statuses : s # q.old.status /\ s # q.to => CountsOf(q, c)[s] = c[s]
      BY <1>5, <2>1, <2>8
    <2> QED  BY <1>4, <2>2, <2>5, <2>6, <2>7, <2>9 DEF Tally
  <1> QED  BY <1>6, <1>7, <1>8 DEF Knows

-----------------------------------------------------------------------------
(* Steps and the counters of a kind. *)

LEMMA WorkRow ==
    ASSUME TypeOK, NEW r \in Requests, NEW k, AtWork(req[r], k)
    PROVE  req[r].row \in Rows /\ req[r] \in Request /\ k \in Kinds
  <1>1. req[r].pc # "idle"
    BY DEF AtWork, Foreground, Counting
  <1>2. req[r] \in Request
    BY <1>1 DEF TypeOK, Idle
  <1> QED  BY <1>2 DEF AtWork, Request, KindOf, Kinds

\* What a writer knows is about its own row.
LEMMA KnowsSame ==
    ASSUME NEW q, NEW t, NEW u, NEW c, Knows(q, t, c), u[q.row] = t[q.row]
    PROVE  Knows(q, u, c)
  BY DEF Knows

\* A step of one request that is at work on a row, or touches none.
LEMMA WorkStep ==
    ASSUME Inv, Inv', BooksInv, NEW r \in Requests, NEW p, req' = [req EXCEPT ![r] = p],
           p.pc \in Foreground =>
               req[r].pc \in Foreground /\ p.row = req[r].row /\ p.old = req[r].old,
           \A g \in Rows : rows'[g] # rows[g] => g = req[r].row /\ req[r].pc \in Foreground,
           \A k \in Kinds : stats'[k] # stats[k] => AtWork(req[r], k),
           \A k \in Kinds : calm'[k] => calm[k],
           \A k \in Kinds :
               /\ AtWork(req[r], k) /\ calm'[k]
               /\ Knows(req[r], rows, stats[k]) /\ Tally(stats[k], Before(req[r], rows), k)
               => IF p.pc \in Foreground THEN stats'[k] = stats[k] /\ Knows(p, rows', stats[k])
                  ELSE Tally(stats'[k], rows', k)
    PROVE  BooksInv'
  <1>1. TypeOK /\ TypeOK'
    BY DEF Inv
  <1>2. \A s \in Requests : req'[s] = IF s = r THEN p ELSE req[s]
    BY <1>1 DEF TypeOK
  <1>3. IsFiniteSet({g \in Rows : rows'[g] # NoRow})
    <2>1. {g \in Rows : rows'[g] # NoRow} \subseteq {g \in Rows : rows[g] # NoRow} \cup {req[r].row}
      OBVIOUS
    <2>2. IsFiniteSet({g \in Rows : rows[g] # NoRow} \cup {req[r].row})
      BY FS_AddElement DEF BooksInv
    <2> QED  BY <2>1, <2>2, FS_Subset
  <1>4. ASSUME NEW k \in Kinds, calm'[k]
        PROVE  /\ \A s, z \in Requests : AtWork(req'[s], k) /\ AtWork(req'[z], k) => s = z
               /\ \A s \in Requests : AtWork(req'[s], k) =>
                      Knows(req'[s], rows', stats'[k]) /\ Tally(stats'[k], Before(req'[s], rows'), k)
               /\ (\A s \in Requests : ~AtWork(req'[s], k)) => Tally(stats'[k], rows', k)
    <2>1. /\ \A s, z \in Requests : AtWork(req[s], k) /\ AtWork(req[z], k) => s = z
          /\ \A s \in Requests : AtWork(req[s], k) =>
                 Knows(req[s], rows, stats[k]) /\ Tally(stats[k], Before(req[s], rows), k)
          /\ (\A s \in Requests : ~AtWork(req[s], k)) => Tally(stats[k], rows, k)
      BY <1>4 DEF BooksInv, Booked
    <2>2. CASE AtWork(req[r], k)
      <3>1. \A s \in Requests : AtWork(req'[s], k) => s = r
        BY <1>2, <2>1, <2>2
      <3>2. Knows(req[r], rows, stats[k]) /\ Tally(stats[k], Before(req[r], rows), k)
        BY <2>1, <2>2
      <3>3. CASE p.pc \in Foreground
        <4>1. stats'[k] = stats[k] /\ Knows(p, rows', stats[k])
          BY <1>4, <2>2, <3>2, <3>3
        <4>2. p.row \in Rows /\ p.row = req[r].row /\ p.old = req[r].old
          BY <1>1, <2>2, <3>3, WorkRow
        <4>3. \A g \in Rows : Before(p, rows')[g] = Before(req[r], rows)[g]
          BY <1>1, <4>2 DEF Before, TypeOK
        <4>4. Tally(stats[k], Before(p, rows'), k)
          BY <3>2, <4>3, TallySame
        <4>5. AtWork(req'[r], k)
          BY <1>2, <2>2, <3>3, <4>2 DEF AtWork
        <4> QED  BY <1>2, <3>1, <4>1, <4>4, <4>5
      <3>4. CASE p.pc \notin Foreground
        <4>1. Tally(stats'[k], rows', k)
          BY <1>4, <2>2, <3>2, <3>4
        <4>2. ~AtWork(req'[r], k)
          BY <1>2, <3>4 DEF AtWork
        <4> QED  BY <3>1, <4>1, <4>2
      <3> QED  BY <3>3, <3>4
    <2>3. CASE ~AtWork(req[r], k)
      <3>1. ~AtWork(p, k)
        BY <2>3 DEF AtWork
      <3>2. \A s \in Requests : AtWork(req'[s], k) <=> AtWork(req[s], k)
        BY <1>2, <2>3, <3>1
      <3>3. \A s \in Requests : AtWork(req[s], k) => req'[s] = req[s]
        BY <1>2, <2>3
      <3>4. \A g \in Rows : KindOf(g) = k => rows'[g] = rows[g]
        BY <2>3, ContentAssumption DEF AtWork, Rows
      <3>5. stats'[k] = stats[k]
        BY <2>3
      <3>6. ASSUME NEW s \in Requests, AtWork(req[s], k)
            PROVE  Knows(req[s], rows', stats[k]) /\ Tally(stats[k], Before(req[s], rows'), k)
        <4>1. req[s].row \in Rows /\ KindOf(req[s].row) = k
          BY <1>1, <3>6, WorkRow DEF AtWork
        <4>2. Knows(req[s], rows', stats[k])
          BY <2>1, <3>4, <3>6, <4>1, KnowsSame
        <4>3. \A g \in Rows : KindOf(g) = k => Before(req[s], rows')[g] = Before(req[s], rows)[g]
          BY <1>1, <3>4, <4>1 DEF Before, TypeOK
        <4> QED  BY <2>1, <3>6, <4>2, <4>3, TallySame
      <3>7. Tally(stats[k], rows, k) => Tally(stats[k], rows', k)
        BY <3>4, TallySame
      <3> QED  BY <2>1, <3>2, <3>3, <3>5, <3>6, <3>7
    <2> QED  BY <2>2, <2>3
  <1> QED  BY <1>3, <1>4 DEF BooksInv, Booked

\* A request that is at work on no row and stays so.
LEMMA IdleStep ==
    ASSUME Inv, Inv', BooksInv, NEW r \in Requests, NEW p, req' = [req EXCEPT ![r] = p],
           p.pc \in Foreground => req[r].pc \in Foreground /\ p.row = req[r].row /\ p.old = req[r].old,
           req[r].pc \notin Foreground \/ req[r].row = None,
           UNCHANGED <<rows, stats>>, \A k \in Kinds : calm'[k] => calm[k]
    PROVE  BooksInv'
  <1>1. \A k \in Kinds : ~AtWork(req[r], k)
    BY DEF AtWork
  <1> QED  BY <1>1, WorkStep

\* A request begins: nobody else is at work on the kind, or calm ends.
LEMMA BeginBooks ==
    ASSUME Inv, Inv', BooksInv, NEW r \in Requests, NEW p \in Request, Begin(r, p),
           p.row \in Rows => \A c : Knows(p, rows, c) /\ rows[p.row] = p.old
    PROVE  BooksInv'
  <1>1. TypeOK /\ TypeOK'
    BY DEF Inv
  <1>2. /\ \A s \in Requests : req'[s] = IF s = r THEN p ELSE req[s]
        /\ rows' = rows /\ stats' = stats /\ req[r].pc = "idle"
    BY <1>1 DEF Begin, TypeOK, contentVars
  <1>3. \A k : ~AtWork(req[r], k)
    BY <1>2 DEF AtWork, Foreground, Counting
  <1>4. ASSUME NEW k \in Kinds, calm'[k]
        PROVE  /\ calm[k]
               /\ AtWork(p, k) => \A s \in Requests : ~AtWork(req[s], k)
    <2>1. CASE p.row = None
      BY <1>4, <2>1 DEF Begin, AtWork
    <2>2. CASE p.row # None /\ KindOf(p.row) = k
      <3>1. calm[k] /\ ~Busy(k)
        BY <1>1, <1>4, <2>2 DEF Begin, TypeOK
      <3> QED  BY <3>1 DEF Busy, AtWork
    <2>3. CASE p.row # None /\ KindOf(p.row) # k
      BY <1>1, <1>4, <2>3 DEF Begin, TypeOK, AtWork
    <2> QED  BY <2>1, <2>2, <2>3
  <1>5. ASSUME NEW k \in Kinds, calm'[k]
        PROVE  /\ \A s, z \in Requests : AtWork(req'[s], k) /\ AtWork(req'[z], k) => s = z
               /\ \A s \in Requests : AtWork(req'[s], k) =>
                      Knows(req'[s], rows, stats[k]) /\ Tally(stats[k], Before(req'[s], rows), k)
               /\ (\A s \in Requests : ~AtWork(req'[s], k)) => Tally(stats[k], rows, k)
    <2>1. /\ \A s, z \in Requests : AtWork(req[s], k) /\ AtWork(req[z], k) => s = z
          /\ \A s \in Requests : AtWork(req[s], k) =>
                 Knows(req[s], rows, stats[k]) /\ Tally(stats[k], Before(req[s], rows), k)
          /\ (\A s \in Requests : ~AtWork(req[s], k)) => Tally(stats[k], rows, k)
      BY <1>4, <1>5 DEF BooksInv, Booked
    <2>2. CASE AtWork(p, k)
      <3>1. \A s \in Requests : AtWork(req'[s], k) => s = r
        BY <1>2, <1>4, <1>5, <2>2
      <3>2. p.row \in Rows
        BY <2>2 DEF AtWork, Request
      <3>3. Tally(stats[k], rows, k)
        BY <1>4, <1>5, <2>1, <2>2
      <3>4. \A g \in Rows : Before(p, rows)[g] = rows[g]
        BY <1>1, <3>2, BeforeFacts
      <3>5. Tally(stats[k], Before(p, rows), k)
        BY <3>3, <3>4, TallySame
      <3>6. Knows(p, rows, stats[k])
        BY <3>2
      <3> QED  BY <1>2, <2>2, <3>1, <3>3, <3>5, <3>6
    <2>3. CASE ~AtWork(p, k)
      <3>1. \A s \in Requests : AtWork(req'[s], k) <=> AtWork(req[s], k)
        BY <1>2, <1>3, <2>3
      <3>2. \A s \in Requests : AtWork(req[s], k) => req'[s] = req[s]
        BY <1>2, <1>3
      <3> QED  BY <2>1, <3>1, <3>2
    <2> QED  BY <2>2, <2>3
  <1> QED  BY <1>2, <1>5 DEF BooksInv, Booked

\* The process ends: calm stays where no row waits for its counter.
LEMMA StopBooks ==
    ASSUME Inv, Inv', BooksInv, ProcessEnds, UNCHANGED <<rows, stats>>
    PROVE  BooksInv'
  <1>1. \A s \in Requests : \A k : ~AtWork(req'[s], k)
    BY DEF ProcessEnds, AtWork, Idle, Foreground, Counting
  <1>2. ASSUME NEW k \in Kinds, calm'[k] PROVE Tally(stats[k], rows, k)
    <2>1. calm[k] /\ k \notin Open(Requests)
      BY <1>2 DEF ProcessEnds
    <2>2. CASE \A s \in Requests : ~AtWork(req[s], k)
      BY <2>1, <2>2 DEF BooksInv, Booked
    <2>3. CASE \E s \in Requests : AtWork(req[s], k)
      <3>1. PICK s \in Requests : AtWork(req[s], k)
        BY <2>3
      <3>2. Knows(req[s], rows, stats[k]) /\ Tally(stats[k], Before(req[s], rows), k)
        BY <2>1, <3>1 DEF BooksInv, Booked
      <3>3. req[s].pc \notin Counting
        BY <2>1, <3>1 DEF Open, AtWork
      <3>4. rows[req[s].row] = req[s].old
        BY <3>2, <3>3 DEF Knows
      <3>5. \A g \in Rows : Before(req[s], rows)[g] = rows[g]
        BY <3>1, <3>4, WorkRow, BeforeFacts DEF Inv
      <3> QED  BY <3>2, <3>5, TallySame
    <2> QED  BY <2>2, <2>3
  <1> QED  BY <1>1, <1>2 DEF BooksInv, Booked

\* A request that is done with its row, which is counted as it stands.
LEMMA DropBooks ==
    ASSUME Inv, Inv', BooksInv, NEW r \in Requests, NEW p, req' = [req EXCEPT ![r] = p],
           p.pc \notin Foreground, UNCHANGED <<rows, stats>>, \A k \in Kinds : calm'[k] => calm[k],
           \A k \in Kinds :
               AtWork(req[r], k) /\ calm'[k] /\ Knows(req[r], rows, stats[k]) =>
                   LET g == rows[req[r].row] IN
                   /\ g.state = "there" <=> req[r].old.state = "there"
                   /\ g.state = "there" => g.status = req[r].old.status
    PROVE  BooksInv'
  <1>1. ASSUME NEW k \in Kinds, AtWork(req[r], k), calm'[k], Knows(req[r], rows, stats[k]),
               Tally(stats[k], Before(req[r], rows), k)
        PROVE  Tally(stats[k], rows, k)
    <2>1. PICK q : q = req[r]
      OBVIOUS
    <2>2. /\ rows[q.row].state = "there" <=> q.old.state = "there"
          /\ rows[q.row].state = "there" => rows[q.row].status = q.old.status
      BY <1>1, <2>1
    <2>3. \A g \in Rows : Before(q, rows)[g] = IF g = q.row THEN q.old ELSE rows[g]
      <3>1. TypeOK /\ q.row \in Rows
        BY <1>1, <2>1, WorkRow DEF Inv
      <3> QED  BY <3>1, BeforeFacts
    <2>4. \A g \in Rows : /\ Before(q, rows)[g].state = "there" <=> rows[g].state = "there"
                          /\ Before(q, rows)[g].state = "there" => Before(q, rows)[g].status = rows[g].status
      BY <2>2, <2>3
    <2> QED  BY <1>1, <2>1, <2>4, TallySame
  <1> QED  BY <1>1, WorkStep

\* A request that has not written its row yet may stop at any time.
LEMMA EarlyDrop ==
    ASSUME Inv, Inv', BooksInv, NEW r \in Requests, NEW p, req' = [req EXCEPT ![r] = p],
           p.pc \notin Foreground, UNCHANGED <<rows, stats>>, \A k \in Kinds : calm'[k] => calm[k],
           \A k \in Kinds : AtWork(req[r], k) /\ calm'[k] => req[r].pc \notin Counting
    PROVE  BooksInv'
  <1>1. \A k \in Kinds : AtWork(req[r], k) /\ calm'[k] /\ Knows(req[r], rows, stats[k])
                             => rows[req[r].row] = req[r].old
    BY DEF Knows
  <1> QED  BY <1>1, DropBooks

LEMMA IdleOut == Idle.pc \notin Foreground
  BY DEF Idle, Foreground, Counting

LEMMA RespondEarly ==
    ASSUME Inv, Inv', BooksInv, NEW r \in Requests, Respond(r), UNCHANGED <<rows, stats, calm>>,
           req[r].pc \notin Counting
    PROVE  BooksInv'
  BY IdleOut, EarlyDrop DEF Respond

LEMMA FindBooks ==
    ASSUME Inv, Inv', BooksInv, NEW r \in Requests, FindFile(r)
    PROVE  BooksInv'
  <1>1. req[r].pc = "find" /\ UNCHANGED <<rows, stats, calm>>
    BY DEF FindFile, contentVars, ghosts
  <1>2. req[r].pc \notin Counting
    BY <1>1 DEF Counting
  <1>3. CASE Respond(r)
    BY <1>1, <1>2, <1>3, RespondEarly
  <1>4. CASE Goto(r, "link")
    <2>1. PICK p : p = [req[r] EXCEPT !.pc = "link"]
      OBVIOUS
    <2>2. req' = [req EXCEPT ![r] = p]
      BY <1>4, <2>1 DEF Goto
    <2>3. req[r] \in Request
      BY <1>1, OneRequest
    <2>4. /\ p.pc = "link" /\ p.row = req[r].row /\ p.old = req[r].old
          /\ p.op = req[r].op /\ p.to = req[r].to
      BY <2>1, <2>3 DEF Request
    <2>5. p.pc \in Foreground /\ req[r].pc \in Foreground /\ p.pc \notin Counting
      BY <1>1, <2>4 DEF Foreground, Counting
    <2>6. \A c : Knows(req[r], rows, c) => Knows(p, rows, c)
      BY <1>1, <1>2, <2>4, <2>5 DEF Knows
    <2> QED  BY <1>1, <2>2, <2>4, <2>5, <2>6, WorkStep
  <1> QED  BY <1>3, <1>4 DEF FindFile

LEMMA InsertLinkBooks ==
    ASSUME Inv, Inv', BooksInv, NEW r \in Requests, InsertLink(r)
    PROVE  BooksInv'
  <1>1. req[r].pc = "link" /\ UNCHANGED <<rows, stats, calm>>
    BY DEF InsertLink, ghosts
  <1>2. req[r].pc \notin Counting /\ req[r].pc \in Foreground
    BY <1>1 DEF Counting, Foreground
  <1>3. CASE Respond(r)
    BY <1>1, <1>2, <1>3, RespondEarly
  <1>4. CASE req' = [req EXCEPT ![r] = AfterLink(req[r], made + 1)]
    <2>1. req[r] \in Request /\ Held(req[r])
      BY <1>1, OneRequest
    <2>2. CASE req[r].op = "attach" \/ ~req[r].found
      <3>1. Respond(r)
        BY <1>4, <2>2 DEF AfterLink, Respond
      <3> QED  BY <1>1, <1>2, <3>1, RespondEarly
    <2>3. CASE req[r].op # "attach" /\ req[r].found
      <3>1. PICK pc : pc = IF req[r].op = "create" THEN "persist" ELSE "apply"
        OBVIOUS
      <3>2. PICK p : p = [req[r] EXCEPT !.link = made + 1, !.pc = pc]
        OBVIOUS
      <3>3. req' = [req EXCEPT ![r] = p]
        BY <1>4, <2>3, <3>1, <3>2 DEF AfterLink
      <3>4. /\ p.pc = pc /\ p.row = req[r].row /\ p.old = req[r].old
            /\ p.op = req[r].op /\ p.to = req[r].to
        BY <2>1, <3>2 DEF Request
      <3>5. req[r].op \in {"create", "update"}
        BY <1>1, <2>1, <2>3 DEF Held
      <3>6. p.pc \in Foreground /\ p.pc \notin Counting
        BY <3>1, <3>4 DEF Foreground, Counting
      <3>7. \A c : Knows(req[r], rows, c) => Knows(p, rows, c)
        BY <1>1, <1>2, <3>1, <3>4, <3>5, <3>6 DEF Knows
      <3> QED  BY <1>1, <1>2, <3>3, <3>4, <3>6, <3>7, WorkStep
    <2> QED  BY <2>2, <2>3
  <1> QED  BY <1>3, <1>4 DEF InsertLink

LEMMA PersistBooks ==
    ASSUME Inv, Inv', BooksInv, NEW r \in Requests, Persist(r)
    PROVE  BooksInv'
  <1>1. req[r].pc = "persist" /\ UNCHANGED <<stats, calm>>
    BY DEF Persist, ghosts
  <1>2. req[r].pc \notin Counting /\ req[r].pc \in Foreground
    BY <1>1 DEF Counting, Foreground
  <1>3. CASE Respond(r) /\ UNCHANGED rows
    BY <1>1, <1>2, <1>3, RespondEarly
  <1>4. CASE /\ rows' = [rows EXCEPT ![req[r].row] =
                 [state |-> "there", link |-> req[r].link, status |-> req[r].to]]
             /\ Goto(r, "readCounts")
    <2>1. req[r] \in Request /\ req[r].row \in Rows /\ req[r].op = "create"
      BY <1>1, OneRequest DEF Held
    <2>2. PICK p : p = [req[r] EXCEPT !.pc = "readCounts"]
      OBVIOUS
    <2>3. req' = [req EXCEPT ![r] = p]
      BY <1>4, <2>2 DEF Goto
    <2>4. /\ p.pc = "readCounts" /\ p.row = req[r].row /\ p.old = req[r].old
          /\ p.op = "create" /\ p.to = req[r].to
      BY <2>1, <2>2 DEF Request
    <2>5. p.pc \in Foreground /\ p.pc \in Counting
      BY <2>4 DEF Foreground, Counting
    <2>6. /\ rows'[p.row].state = "there" /\ rows'[p.row].status = p.to
          /\ \A g \in Rows : rows'[g] # rows[g] => g = req[r].row
      BY <1>4, <2>1, <2>4 DEF Inv, TypeOK
    <2>7. \A c : Knows(req[r], rows, c) => Knows(p, rows', c)
      BY <2>1, <2>4, <2>5, <2>6 DEF Knows
    <2> QED  BY <1>1, <1>2, <2>3, <2>4, <2>5, <2>6, <2>7, WorkStep
  <1> QED  BY <1>3, <1>4 DEF Persist

LEMMA ApplyBooks ==
    ASSUME Inv, Inv', BooksInv, NEW r \in Requests, Apply(r)
    PROVE  BooksInv'
  <1>1. req[r].pc = "apply" /\ UNCHANGED <<stats, calm>>
    BY DEF Apply, ghosts
  <1>2. req[r].pc \notin Counting /\ req[r].pc \in Foreground
    BY <1>1 DEF Counting, Foreground
  <1>3. CASE Respond(r) /\ UNCHANGED rows
    BY <1>1, <1>2, <1>3, RespondEarly
  <1>4. CASE /\ rows[req[r].row].state = "there"
             /\ rows' = [rows EXCEPT
                    ![req[r].row].link = IF req[r].file = None THEN @ ELSE req[r].link,
                    ![req[r].row].status = IF req[r].to = None THEN @ ELSE req[r].to]
             /\ Goto(r, "reload")
    <2>1. req[r] \in Request /\ req[r].row \in Rows
      BY <1>1, OneRequest DEF Held
    <2>2. PICK p : p = [req[r] EXCEPT !.pc = "reload"]
      OBVIOUS
    <2>3. req' = [req EXCEPT ![r] = p]
      BY <1>4, <2>2 DEF Goto
    <2>4. /\ p.pc = "reload" /\ p.row = req[r].row /\ p.old = req[r].old
          /\ p.op = req[r].op /\ p.to = req[r].to
      BY <2>1, <2>2 DEF Request
    <2>5. p.pc \in Foreground /\ p.pc \in Counting
      BY <2>4 DEF Foreground, Counting
    <2>6. rows \in [Rows -> Row \cup {NoRow}] /\ rows[req[r].row] \in Row
      <3>1. rows \in [Rows -> Row \cup {NoRow}] /\ NoRow.state = "none"
        BY DEF Inv, TypeOK, NoRow
      <3> QED  BY <1>4, <2>1, <3>1
    <2>7. \A g \in Rows : rows'[g] # rows[g] => g = req[r].row
      BY <1>4, <2>1, <2>6
    <2>8. /\ rows'[p.row].state = "there"
          /\ rows'[p.row].status = IF p.to = None THEN rows[p.row].status ELSE p.to
      BY <1>4, <2>1, <2>4, <2>6 DEF Row
    <2>9. \A c : Knows(req[r], rows, c) => Knows(p, rows', c)
      BY <1>1, <1>2, <2>4, <2>5, <2>8 DEF Knows
    <2> QED  BY <1>1, <1>2, <2>3, <2>4, <2>5, <2>7, <2>9, WorkStep
  <1> QED  BY <1>3, <1>4 DEF Apply

\* A write that is answered is at work no more.
LEMMA AfterOut ==
    ASSUME NEW q \in Request
    PROVE  AfterWrite(q).pc \notin Foreground
  <1>1. [q EXCEPT !.pc = "cleanFind"].pc = "cleanFind"
    BY DEF Request
  <1> QED  BY <1>1, IdleOut DEF AfterWrite, Foreground, Counting

LEMMA ReloadBooks ==
    ASSUME Inv, Inv', BooksInv, NEW r \in Requests, Reload(r)
    PROVE  BooksInv'
  <1>1. req[r].pc = "reload" /\ UNCHANGED <<rows, stats, calm>>
    BY DEF Reload, contentVars, ghosts
  <1>2. req[r] \in Request /\ req[r].row \in Rows /\ req[r].pc \in Foreground /\ req[r].pc \in Counting
    BY <1>1, OneRequest DEF Held, Foreground, Counting
  <1>3. PICK q, g, new : /\ q = req[r] /\ g = rows[q.row]
                         /\ new = IF q.row \in Ads THEN g.status ELSE q.to
    OBVIOUS
  <1>4. req' = [req EXCEPT ![r] =
           IF g.state = "gone" THEN Idle
           ELSE IF new \in {None, q.old.status} THEN AfterWrite(q)
           ELSE [q EXCEPT !.pc = "readCounts", !.to = new]]
    BY <1>3 DEF Reload
  <1>5. ASSUME NEW c, Knows(q, rows, c)
        PROVE  /\ q.op = "update" /\ q.old.state = "there" /\ g.state = "there"
               /\ g.status = IF q.to = None THEN q.old.status ELSE q.to
    BY <1>1, <1>3, <1>5 DEF Knows
  <1>6. g.state = "there" => g.status \in Statuses /\ g.status # None
    <2>1. g \in Row \cup {NoRow} /\ NoRow.state = "none"
      BY <1>2, <1>3 DEF Inv, TypeOK, NoRow
    <2> QED  BY <2>1, ContentAssumption DEF Row
  <1>7. CASE g.state = "gone"
    <2>1. req' = [req EXCEPT ![r] = Idle]
      BY <1>4, <1>7
    <2>2. \A k \in Kinds : ~Knows(req[r], rows, stats[k])
      BY <1>3, <1>5, <1>7
    <2> QED  BY <1>1, <2>1, <2>2, IdleOut, DropBooks
  <1>8. CASE g.state # "gone" /\ new \in {None, q.old.status}
    <2>1. req' = [req EXCEPT ![r] = AfterWrite(q)]
      BY <1>4, <1>8
    <2>2. AfterWrite(q).pc \notin Foreground
      BY <1>2, <1>3, AfterOut
    <2>3. ASSUME NEW k \in Kinds, Knows(q, rows, stats[k])
          PROVE  g.state = "there" /\ q.old.state = "there" /\ g.status = q.old.status
      BY <1>3, <1>5, <1>6, <1>8, <2>3
    <2> QED  BY <1>1, <1>3, <2>1, <2>2, <2>3, DropBooks
  <1>9. CASE g.state # "gone" /\ new \notin {None, q.old.status}
    <2>1. PICK p : p = [q EXCEPT !.pc = "readCounts", !.to = new]
      OBVIOUS
    <2>2. req' = [req EXCEPT ![r] = p]
      BY <1>4, <1>9, <2>1
    <2>3. /\ p.pc = "readCounts" /\ p.row = q.row /\ p.old = q.old
          /\ p.op = q.op /\ p.to = new
      BY <1>2, <1>3, <2>1 DEF Request
    <2>4. p.pc \in Foreground /\ p.pc \in Counting
      BY <2>3 DEF Foreground, Counting
    <2>5. ASSUME NEW c, Knows(q, rows, c) PROVE Knows(p, rows, c)
      <3>1. q.to \in Statuses \cup {None}
        BY <1>2, <1>3 DEF Request
      <3>2. new \in Statuses /\ new # q.old.status /\ g.status = new
        BY <1>3, <1>5, <1>6, <1>9, <2>5, <3>1
      <3>3. q.op = "update" /\ q.old \in Row /\ q.old.state = "there" /\ g.state = "there"
        BY <1>5, <2>5 DEF Knows
      <3> QED  BY <1>3, <2>3, <2>4, <3>2, <3>3 DEF Knows
    <2> QED  BY <1>1, <1>2, <1>3, <2>2, <2>3, <2>4, <2>5, WorkStep
  <1> QED  BY <1>7, <1>8, <1>9

LEMMA DeleteRowBooks ==
    ASSUME Inv, Inv', BooksInv, NEW r \in Requests, DeleteRow(r)
    PROVE  BooksInv'
  <1>1. req[r].pc = "delete" /\ UNCHANGED <<stats, calm>>
    BY DEF DeleteRow, ghosts
  <1>2. req[r] \in Request /\ req[r].row \in Rows /\ req[r].pc \in Foreground /\ req[r].pc \notin Counting
    BY <1>1, OneRequest DEF Held, Foreground, Counting
  <1>3. PICK p : p = [req[r] EXCEPT !.pc = "readCounts"]
    OBVIOUS
  <1>4. req' = [req EXCEPT ![r] = p]
    BY <1>3 DEF DeleteRow, Goto
  <1>5. /\ p.pc = "readCounts" /\ p.row = req[r].row /\ p.old = req[r].old
        /\ p.op = req[r].op /\ p.to = req[r].to
    BY <1>2, <1>3 DEF Request
  <1>6. p.pc \in Foreground /\ p.pc \in Counting
    BY <1>5 DEF Foreground, Counting
  <1>7. \A g \in Rows : rows'[g] # rows[g] => g = req[r].row
    BY <1>2 DEF DeleteRow, Inv, TypeOK
  <1>8. rows'[p.row].state = "gone"
    <2>1. rows[req[r].row] \in Row \cup {NoRow}
      BY <1>2 DEF Inv, TypeOK
    <2>2. [rows[req[r].row] EXCEPT !.state = "gone"].state = "gone"
      BY <2>1 DEF Row, NoRow
    <2>3. rows'[req[r].row] = [rows[req[r].row] EXCEPT !.state = "gone"]
      BY <1>2 DEF DeleteRow, Inv, TypeOK
    <2> QED  BY <1>5, <2>2, <2>3
  <1>9. ASSUME NEW c, Knows(req[r], rows, c) PROVE Knows(p, rows', c)
    <2>1. req[r].op = "delete"
      BY <1>1, <1>9 DEF Knows
    <2> QED  BY <1>5, <1>6, <1>8, <1>9, <2>1 DEF Knows
  <1> QED  BY <1>1, <1>2, <1>4, <1>5, <1>6, <1>7, <1>9, WorkStep

LEMMA ReadCountsBooks ==
    ASSUME Inv, Inv', BooksInv, NEW r \in Requests, ReadCounts(r)
    PROVE  BooksInv'
  <1>1. req[r].pc = "readCounts" /\ UNCHANGED <<rows, stats, calm>>
    BY DEF ReadCounts, contentVars, ghosts
  <1>2. req[r] \in Request /\ req[r].pc \in Foreground
    BY <1>1, OneRequest DEF Foreground, Counting
  <1>3. PICK p : p = [req[r] EXCEPT !.pc = "writeCounts", !.counts = stats[KindOf(req[r].row)]]
    OBVIOUS
  <1>4. req' = [req EXCEPT ![r] = p]
    BY <1>3 DEF ReadCounts
  <1>5. /\ p.pc = "writeCounts" /\ p.row = req[r].row /\ p.old = req[r].old
        /\ p.op = req[r].op /\ p.to = req[r].to /\ p.counts = stats[KindOf(req[r].row)]
    BY <1>2, <1>3 DEF Request
  <1>6. p.pc \in Foreground /\ p.pc \in Counting
    BY <1>5 DEF Foreground, Counting
  <1>7. ASSUME NEW k \in Kinds, AtWork(req[r], k), Knows(req[r], rows, stats[k])
        PROVE  Knows(p, rows, stats[k])
    <2>1. p.counts = stats[k]
      BY <1>5, <1>7 DEF AtWork
    <2> QED  BY <1>1, <1>5, <1>6, <1>7, <2>1 DEF Knows
  <1> QED  BY <1>1, <1>2, <1>4, <1>5, <1>6, <1>7, WorkStep

LEMMA WriteCountsBooks ==
    ASSUME Inv, Inv', BooksInv, NEW r \in Requests, WriteCounts(r)
    PROVE  BooksInv'
  <1>1. req[r].pc = "writeCounts" /\ UNCHANGED <<rows, calm>>
    BY DEF WriteCounts, ghosts
  <1>2. req[r] \in Request /\ req[r].row \in Rows /\ req[r].pc \in Foreground
    BY <1>1, OneRequest DEF Held, Foreground, Counting
  <1>3. req' = [req EXCEPT ![r] = AfterWrite(req[r])] /\ AfterWrite(req[r]).pc \notin Foreground
    BY <1>2, AfterOut DEF WriteCounts
  <1>4. TypeOK
    BY DEF Inv
  <1>5. \A k \in Kinds : stats'[k] = IF k = KindOf(req[r].row) THEN CountsOf(req[r], stats[k]) ELSE stats[k]
    BY <1>4 DEF WriteCounts, TypeOK
  <1>6. AtWork(req[r], KindOf(req[r].row))
    BY <1>2, ContentAssumption DEF AtWork, Rows
  <1>7. ASSUME NEW k \in Kinds, AtWork(req[r], k), Knows(req[r], rows, stats[k]),
               Tally(stats[k], Before(req[r], rows), k)
        PROVE  Tally(stats'[k], rows', k)
    <2>1. stats'[k] = CountsOf(req[r], stats[k])
      BY <1>5, <1>7 DEF AtWork
    <2>2. stats[k] \in Counters /\ IsFiniteSet({g \in Rows : rows[g] # NoRow})
      BY <1>4 DEF TypeOK, BooksInv
    <2>3. Tally(CountsOf(req[r], stats[k]), rows, k)
      BY <1>1, <1>2, <1>4, <1>7, <2>2, CountsAgain
    <2> QED  BY <1>1, <2>1, <2>3
  <1> QED  BY <1>1, <1>3, <1>5, <1>6, <1>7, WorkStep

LEMMA ArriveBooks ==
    ASSUME Inv, Inv', BooksInv, NEW r \in Requests, Arrive(r)
    PROVE  BooksInv'
  <1>n. NoRow \in Row \cup {NoRow} /\ NoCounts \in Counters
    BY DEF NoCounts, Counters
  <1>1. ASSUME NEW f \in Files, UploadObject(r, f) PROVE BooksInv'
    <2>1. PICK p : p = [Idle EXCEPT !.pc = "saveFile", !.op = "upload", !.file = f]
      OBVIOUS
    <2>2. req' = [req EXCEPT ![r] = p] /\ req[r].pc = "idle" /\ UNCHANGED <<rows, stats, calm>>
      BY <1>1, <2>1 DEF UploadObject, ghosts
    <2>3. p.pc = "saveFile"
      BY <2>1 DEF Idle
    <2>4. p.pc \notin Foreground /\ req[r].pc \notin Foreground
      BY <2>2, <2>3 DEF Foreground, Counting
    <2> QED  BY <2>2, <2>4, IdleStep
  <1>2. ASSUME NEW f \in Files, Attach(r, f) PROVE BooksInv'
    <2>1. PICK q : q = [Idle EXCEPT !.pc = "find", !.op = "attach", !.file = f]
      OBVIOUS
    <2>2. q \in Request /\ q.row = None
      BY <1>n, <2>1 DEF Idle, Request, Foreground
    <2>3. Begin(r, q) /\ q.row \notin Rows
      BY <1>2, <2>1, <2>2, ContentAssumption DEF Attach, Rows
    <2> QED  BY <2>2, <2>3, BeginBooks
  <1>3. ASSUME NEW g \in Rows, NEW f \in Files, NEW status \in Statuses, NEW found \in BOOLEAN,
               Create(r, g, f, status, found)
        PROVE  BooksInv'
    <2>1. PICK q : q = [Idle EXCEPT !.pc = "find", !.op = "create", !.row = g, !.file = f,
                                    !.to = status, !.found = found]
      OBVIOUS
    <2>2. /\ q \in Request
          /\ q.pc = "find" /\ q.op = "create" /\ q.row = g /\ q.old = NoRow /\ q.to = status
      BY <1>n, <2>1 DEF Idle, Request, Foreground
    <2>3. Begin(r, q) /\ rows[q.row] = q.old
      BY <1>3, <2>1, <2>2 DEF Create
    <2>4. \A c : Knows(q, rows, c)
      BY <2>2, <2>3 DEF Knows
    <2> QED  BY <2>2, <2>3, <2>4, BeginBooks
  <1>4. ASSUME NEW g \in Rows, NEW f \in Files \cup {None}, NEW status \in Statuses \cup {None},
               Update(r, g, f, status)
        PROVE  BooksInv'
    <2>1. PICK q : q = [Idle EXCEPT !.pc = IF f = None THEN "apply" ELSE "find", !.op = "update",
                                    !.row = g, !.file = f, !.old = rows[g], !.to = status]
      OBVIOUS
    <2>2. rows[g] \in Row /\ rows[g].state = "there"
      BY <1>4 DEF Update, Inv, TypeOK, NoRow
    <2>3. /\ q \in Request
          /\ q.pc = IF f = None THEN "apply" ELSE "find"
          /\ q.op = "update" /\ q.row = g /\ q.old = rows[g]
      BY <1>n, <2>1, <2>2 DEF Idle, Request, Foreground
    <2>4. Begin(r, q) /\ rows[q.row] = q.old
      BY <1>4, <2>1, <2>3 DEF Update
    <2>5. q.pc \in {"apply", "find"}
      BY <2>3
    <2>6. \A c : Knows(q, rows, c)
      BY <2>2, <2>3, <2>4, <2>5 DEF Knows
    <2> QED  BY <2>3, <2>4, <2>6, BeginBooks
  <1>5. ASSUME NEW g \in Rows, Delete(r, g) PROVE BooksInv'
    <2>1. PICK q : q = [Idle EXCEPT !.pc = "delete", !.op = "delete", !.row = g, !.old = rows[g]]
      OBVIOUS
    <2>2. rows[g] \in Row /\ rows[g].state = "there"
      BY <1>5 DEF Delete, Inv, TypeOK, NoRow
    <2>3. q \in Request /\ q.pc = "delete" /\ q.op = "delete" /\ q.row = g /\ q.old = rows[g]
      BY <1>n, <2>1, <2>2 DEF Idle, Request, Foreground
    <2>4. Begin(r, q) /\ rows[q.row] = q.old
      BY <1>5, <2>1, <2>3 DEF Delete
    <2>5. \A c : Knows(q, rows, c)
      BY <2>2, <2>3, <2>4 DEF Knows
    <2> QED  BY <2>3, <2>4, <2>5, BeginBooks
  <1> QED  BY <1>1, <1>2, <1>3, <1>4, <1>5 DEF Arrive

\* Uploads and clean-ups are at work on no row: they leave rows and counters alone.
LEMMA AsideBooks ==
    ASSUME Inv, Inv', BooksInv, NEW r \in Requests, UploadRow(r) \/ Clean(r)
    PROVE  BooksInv'
  <1>1. req[r].pc \notin Foreground
    BY DEF UploadRow, Clean, CleanFind, CleanUnlink, CleanCount, CleanObject, CleanRow,
           Foreground, Counting
  <1>2. UNCHANGED <<rows, stats>>
    BY DEF UploadRow, Clean, CleanFind, CleanUnlink, CleanCount, CleanObject, CleanRow,
           contentVars
  <1>3. req[r] \in Request
    <2>1. req[r].pc # "idle"
      BY DEF UploadRow, Clean, CleanFind, CleanUnlink, CleanCount, CleanObject, CleanRow
    <2> QED  BY <2>1, OneRequest
  <1>4. ASSUME NEW pc \in Cleaning, Goto(r, pc), UNCHANGED calm PROVE BooksInv'
    <2>1. PICK p : p = [req[r] EXCEPT !.pc = pc]
      OBVIOUS
    <2>2. p.pc = pc
      BY <1>3, <2>1 DEF Request
    <2>3. p.pc \notin Foreground /\ req' = [req EXCEPT ![r] = p]
      BY <1>4, <2>1, <2>2 DEF Goto, Foreground, Counting, Cleaning
    <2> QED  BY <1>1, <1>2, <1>4, <2>3, IdleStep
  <1>5. ASSUME Respond(r), UNCHANGED calm PROVE BooksInv'
    BY <1>1, <1>2, <1>5, IdleOut, IdleStep DEF Respond
  <1>6. ASSUME UploadRow(r) PROVE BooksInv'
    BY <1>5, <1>6 DEF UploadRow, ghosts
  <1>7. ASSUME CleanFind(r) PROVE BooksInv'
    <2>1. UNCHANGED calm
      BY <1>7 DEF CleanFind, ghosts
    <2>2. PICK p : p = [req[r] EXCEPT !.pc = "unlink", !.file = links[req[r].old.link].file]
      OBVIOUS
    <2>3. p.pc = "unlink"
      BY <1>3, <2>2 DEF Request
    <2>4. req' = [req EXCEPT ![r] = p] \/ Respond(r)
      BY <1>7, <2>2 DEF CleanFind, Respond
    <2>5. p.pc \notin Foreground
      BY <2>3 DEF Foreground, Counting
    <2> QED  BY <1>1, <1>2, <1>5, <2>1, <2>4, <2>5, IdleStep
  <1>8. ASSUME CleanUnlink(r) PROVE BooksInv'
    <2>1. ProcessEnds \/ (Goto(r, "count") /\ UNCHANGED calm)
      BY <1>8 DEF CleanUnlink
    <2> QED  BY <1>2, <1>4, <2>1, StopBooks DEF Cleaning
  <1>9. ASSUME CleanCount(r) PROVE BooksInv'
    <2>1. (Goto(r, "object") \/ Respond(r)) /\ UNCHANGED calm
      BY <1>9 DEF CleanCount
    <2> QED  BY <1>4, <1>5, <2>1 DEF Cleaning
  <1>10. ASSUME CleanObject(r) PROVE BooksInv'
    BY <1>4, <1>10 DEF CleanObject, Cleaning, ghosts
  <1>11. ASSUME CleanRow(r) PROVE BooksInv'
    <2>1. ProcessEnds \/ (Respond(r) /\ UNCHANGED calm)
      BY <1>11 DEF CleanRow
    <2> QED  BY <1>2, <1>5, <2>1, StopBooks
  <1> QED  BY <1>6, <1>7, <1>8, <1>9, <1>10, <1>11 DEF Clean

LEMMA RequestFailsBooks ==
    ASSUME Inv, Inv', BooksInv, NEW r \in Requests, RequestFails(r)
    PROVE  BooksInv'
  <1>1. UNCHANGED <<rows, stats>>
    BY DEF RequestFails, contentVars
  <1>2. CASE ProcessEnds
    BY <1>1, <1>2, StopBooks
  <1>3. CASE Respond(r) /\ calm' = [k \in Kinds |-> calm[k] /\ k \notin Open({r})]
    <2>1. \A k \in Kinds : calm'[k] => calm[k] /\ k \notin Open({r})
      BY <1>3
    <2>2. \A k \in Kinds : AtWork(req[r], k) /\ calm'[k] => req[r].pc \notin Counting
      BY <2>1 DEF Open, AtWork
    <2> QED  BY <1>1, <1>3, <2>1, <2>2, IdleOut, EarlyDrop DEF Respond
  <1> QED  BY <1>2, <1>3 DEF RequestFails

LEMMA InitBooks == Init => BooksInv
  <1> SUFFICES ASSUME Init PROVE BooksInv
    OBVIOUS
  <1>1. \A g \in Rows : rows[g] = NoRow
    BY DEF Init
  <1>2. {g \in Rows : rows[g] # NoRow} = {} /\ IsFiniteSet({}) /\ Cardinality({}) = 0
    BY <1>1, FS_EmptySet
  <1>3. \A k, s : There(rows, k) = {} /\ Marked(rows, k, s) = {}
    BY <1>1 DEF There, Marked, NoRow
  <1>4. \A k \in Kinds : Tally(stats[k], rows, k)
    BY <1>2, <1>3 DEF Init, NoCounts, Tally
  <1>5. \A r \in Requests : \A k : ~AtWork(req[r], k)
    BY DEF Init, AtWork, Idle, Foreground, Counting
  <1> QED  BY <1>2, <1>4, <1>5 DEF BooksInv, Booked

LEMMA StepBooks == Inv /\ BooksInv /\ [Next]_vars => BooksInv'
  <1> SUFFICES ASSUME Inv, BooksInv, [Next]_vars PROVE BooksInv'
    OBVIOUS
  <1>1. Inv'
    BY StepInv
  <1>2. ASSUME NEW r \in Requests, Arrive(r) PROVE BooksInv'
    BY <1>1, <1>2, ArriveBooks
  <1>3. ASSUME NEW r \in Requests, Serve(r) PROVE BooksInv'
    BY <1>1, <1>3, AsideBooks, FindBooks, InsertLinkBooks, PersistBooks, ApplyBooks,
       ReloadBooks, DeleteRowBooks, ReadCountsBooks, WriteCountsBooks DEF Serve
  <1>4. ASSUME NEW r \in Requests, Clean(r) PROVE BooksInv'
    BY <1>1, <1>4, AsideBooks
  <1>5. ASSUME NEW r \in Requests, RequestFails(r) PROVE BooksInv'
    BY <1>1, <1>5, RequestFailsBooks
  <1>6. ASSUME Restart PROVE BooksInv'
    BY <1>1, <1>6, StopBooks DEF Restart, contentVars
  <1>7. ASSUME UNCHANGED vars PROVE BooksInv'
    <2>1. UNCHANGED <<rows, stats, req, calm>>
      BY <1>7 DEF vars, contentVars, ghosts
    <2>2. /\ rows' = rows /\ calm' = calm
          /\ \A k \in Kinds : stats'[k] = stats[k]
          /\ \A r \in Requests : req'[r] = req[r]
      BY <2>1
    <2> QED  BY <2>2 DEF BooksInv, Booked
  <1> QED  BY <1>2, <1>3, <1>4, <1>5, <1>6, <1>7 DEF Next

\* While the writes of guides, or of ads, come one after the other, and none
\* breaks off between its row and its counters, the counters of the list count
\* the rows that are there, in total and of each status, between two writes.
THEOREM CountsSafe == Spec => []CountsTrue
  <1>1. Inv /\ BooksInv => CountsTrue
    <2> SUFFICES ASSUME BooksInv, NEW k \in Kinds, calm[k], ~Busy(k)
                 PROVE  Tally(stats[k], rows, k)
      BY DEF CountsTrue, Tally, There, Marked
    <2>1. \A r \in Requests : ~AtWork(req[r], k)
      BY DEF Busy, AtWork
    <2> QED  BY <2>1 DEF BooksInv, Booked
  <1>2. Init => Inv /\ BooksInv
    BY InitInv, InitBooks
  <1>3. Inv /\ BooksInv /\ [Next]_vars => Inv' /\ BooksInv'
    BY StepInv, StepBooks
  <1> QED  BY <1>1, <1>2, <1>3, PTL DEF Spec

-----------------------------------------------------------------------------
(* Links that were shown. *)

\* What a row has shown was made.
ShownMade ==
    /\ shown \in [Rows -> SUBSET LinkIds]
    /\ \A g \in Rows : \A l \in shown[g] : links[l] # NoLink

LinksInv == ShownMade /\ (faults = 0 => OldLinksGo)

\* What a step of one request must do for the links that rows have shown: whoever
\* owed one still does, and it owes those it takes from its row.
LEMMA OwedStep ==
    ASSUME Inv, LinksInv, NEW r \in Requests, NEW p, req' = [req EXCEPT ![r] = p],
           ShownMade', faults' = 0 => faults = 0, \A k \in Kinds : calm'[k] => calm[k],
           \A g \in Rows, l \in LinkIds :
               /\ faults = 0 /\ calm[KindOf(g)]
               /\ l \in shown'[g] /\ links'[l].state = "live" /\ ~Shows(g, l)'
               => \/ l \in shown[g] /\ links[l].state = "live" /\ ~Shows(g, l)
                  \/ Owes(p, g, l),
           \A g \in Rows, l \in LinkIds :
               /\ faults = 0 /\ calm[KindOf(g)] /\ links'[l].state = "live"
               /\ Owes(req[r], g, l)
               => Owes(p, g, l)
    PROVE  LinksInv'
  <1>1. \A s \in Requests : req'[s] = IF s = r THEN p ELSE req[s]
    BY DEF Inv, TypeOK
  <1>2. ASSUME faults' = 0, NEW g \in Rows, calm'[KindOf(g)], NEW l \in shown'[g],
               links'[l].state = "live", ~Shows(g, l)'
        PROVE  \E s \in Requests : Owes(req'[s], g, l)
    <2>1. faults = 0 /\ KindOf(g) \in Kinds /\ calm[KindOf(g)]
      BY <1>2 DEF KindOf, Kinds
    <2>2. l \in LinkIds
      BY <1>2 DEF ShownMade
    <2>3. CASE Owes(p, g, l)
      BY <1>1, <2>3
    <2>4. CASE l \in shown[g] /\ links[l].state = "live" /\ ~Shows(g, l)
      <3>1. PICK s \in Requests : Owes(req[s], g, l)
        BY <1>2, <2>1, <2>4 DEF LinksInv, OldLinksGo
      <3>2. s = r => Owes(p, g, l)
        BY <1>2, <2>1, <2>2, <3>1
      <3> QED  BY <1>1, <3>1, <3>2
    <2> QED  BY <1>2, <2>1, <2>2, <2>3, <2>4
  <1>3. faults' = 0 => OldLinksGo'
    BY <1>2 DEF OldLinksGo, Owes
  <1> QED  BY <1>3 DEF LinksInv

\* Where a fault is counted nothing is promised.
LEMMA FaultOwes ==
    ASSUME Inv, LinksInv, faults' = faults + 1, UNCHANGED shown,
           \A l \in LinkIds : links[l] # NoLink => links'[l] # NoLink
    PROVE  LinksInv'
  <1>1. faults' # 0
    BY DEF Inv, TypeOK
  <1>2. ShownMade'
    BY DEF LinksInv, ShownMade
  <1> QED  BY <1>1, <1>2 DEF LinksInv

\* A step that leaves rows and links alone.
LEMMA AsideOwes ==
    ASSUME Inv, LinksInv, NEW r \in Requests, NEW p, req' = [req EXCEPT ![r] = p],
           UNCHANGED <<links, rows, shown, faults>>, \A k \in Kinds : calm'[k] => calm[k],
           \A g \in Rows, l \in LinkIds :
               calm[KindOf(g)] /\ links[l].state = "live" /\ Owes(req[r], g, l) => Owes(p, g, l)
    PROVE  LinksInv'
  <1>1. ShownMade'
    BY DEF LinksInv, ShownMade
  <1>2. \A g \in Rows, l \in LinkIds : Shows(g, l)' <=> Shows(g, l)
    BY DEF Shows
  <1> QED  BY <1>1, <1>2, OwedStep

\* A step of a request that owes nothing.
LEMMA FreeOwes ==
    ASSUME Inv, LinksInv, NEW r \in Requests, NEW p, req' = [req EXCEPT ![r] = p],
           UNCHANGED <<links, rows, shown, faults>>, \A k \in Kinds : calm'[k] => calm[k],
           req[r].pc \notin {"cleanFind", "unlink"} \cup Counting
    PROVE  LinksInv'
  <1>1. \A g, l : ~Owes(req[r], g, l)
    BY DEF Owes
  <1> QED  BY <1>1, AsideOwes

LEMMA PcMoves ==
    ASSUME Inv, NEW r \in Requests, req[r].pc # "idle", NEW pc
    PROVE  LET q == req[r]
               p == [req[r] EXCEPT !.pc = pc]
           IN  p.pc = pc /\ p.op = q.op /\ p.row = q.row /\ p.file = q.file /\ p.old = q.old
  <1>1. req[r] \in Request
    BY OneRequest
  <1> QED  BY <1>1 DEF Request

\* Who is at work on a row of a kind that is calm knows its row.
LEMMA CalmKnows ==
    ASSUME Inv, BooksInv, NEW r \in Requests, req[r].pc \in Foreground, req[r].row \in Rows,
           calm[KindOf(req[r].row)]
    PROVE  \E c : Knows(req[r], rows, c)
  <1>1. KindOf(req[r].row) \in Kinds /\ req[r].row # None
    BY ContentAssumption DEF KindOf, Kinds, Rows
  <1> QED  BY <1>1 DEF BooksInv, Booked, AtWork

LEMMA NoDebt == \A g, l : ~Owes(Idle, g, l)
  BY DEF Idle, Owes, Counting

LEMMA ArriveOwes ==
    ASSUME Inv, LinksInv, NEW r \in Requests, Arrive(r)
    PROVE  LinksInv'
  <1>1. PICK p : /\ req' = [req EXCEPT ![r] = p] /\ req[r].pc = "idle"
                 /\ UNCHANGED <<links, rows, shown, faults>>
                 /\ \A k \in Kinds : calm'[k] => calm[k]
    <2>1. ASSUME NEW q, Begin(r, q)
          PROVE  /\ req' = [req EXCEPT ![r] = q] /\ req[r].pc = "idle"
                 /\ UNCHANGED <<links, rows, shown, faults>>
                 /\ \A k \in Kinds : calm'[k] => calm[k]
      BY <2>1 DEF Begin, contentVars, Inv, TypeOK
    <2>2. ASSUME NEW f \in Files, UploadObject(r, f)
          PROVE  \E p : /\ req' = [req EXCEPT ![r] = p] /\ req[r].pc = "idle"
                        /\ UNCHANGED <<links, rows, shown, faults>>
                        /\ \A k \in Kinds : calm'[k] => calm[k]
      BY <2>2 DEF UploadObject, ghosts
    <2>3. (\E f \in Files : UploadObject(r, f)) \/ \E q : Begin(r, q)
      BY DEF Arrive, Attach, Create, Update, Delete
    <2> QED  BY <2>1, <2>2, <2>3
  <1> QED  BY <1>1, FreeOwes DEF Counting

LEMMA UploadRowOwes ==
    ASSUME Inv, LinksInv, NEW r \in Requests, UploadRow(r) \/ FindFile(r)
    PROVE  LinksInv'
  <1>1. /\ req[r].pc \in {"saveFile", "find"} /\ UNCHANGED <<links, rows, shown, faults, calm>>
        /\ Respond(r) \/ Goto(r, "link")
    BY DEF UploadRow, FindFile, contentVars, ghosts
  <1>2. PICK p : req' = [req EXCEPT ![r] = p]
    BY <1>1 DEF Respond, Goto
  <1> QED  BY <1>1, <1>2, FreeOwes DEF Counting

LEMMA InsertLinkOwes ==
    ASSUME Inv, LinksInv, NEW r \in Requests, InsertLink(r)
    PROVE  LinksInv'
  <1>1. req[r].pc = "link" /\ UNCHANGED <<rows, shown, faults, calm>>
    BY DEF InsertLink, ghosts
  <1>2. CASE files[req[r].file] = "stored"
    <2> DEFINE new == made + 1
               link == [state |-> "live", file |-> req[r].file, late |-> req[r].file \in swept]
    <2>1. /\ links' = [links EXCEPT ![new] = link] /\ req' = [req EXCEPT ![r] = AfterLink(req[r], new)]
          /\ made < MaxLinks
      BY <1>2 DEF InsertLink
    <2>2. new \in LinkIds /\ new > made
      BY <2>1, ContentAssumption DEF Inv, TypeOK, LinkIds
    <2>3. links[new] = NoLink
      BY <2>2 DEF Inv, Numbered
    <2>4. \A l \in LinkIds : links'[l] = IF l = new THEN link ELSE links[l]
      BY <2>1 DEF Inv, TypeOK
    <2>5. \A g \in Rows : new \notin shown[g] /\ shown[g] \subseteq LinkIds
      BY <2>3 DEF LinksInv, ShownMade
    <2>6. \A g \in Rows : \A l \in shown[g] : links'[l] = links[l]
      BY <2>4, <2>5
    <2> HIDE DEF new, link
    <2>7. ShownMade'
      BY <1>1, <2>6 DEF LinksInv, ShownMade
    <2>8. \A g, l : ~Owes(req[r], g, l)
      BY <1>1 DEF Owes, Counting
    <2>9. \A g, l : Shows(g, l)' <=> Shows(g, l)
      BY <1>1 DEF Shows
    <2>10. \A g \in Rows, l \in LinkIds :
               l \in shown'[g] /\ links'[l].state = "live" /\ ~Shows(g, l)'
               => l \in shown[g] /\ links[l].state = "live" /\ ~Shows(g, l)
      BY <1>1, <2>6, <2>9
    <2>11. PICK p : req' = [req EXCEPT ![r] = p]
      BY <2>1
    <2> QED  BY <1>1, <2>7, <2>8, <2>10, <2>11, OwedStep
  <1>3. CASE files[req[r].file] # "stored"
    <2>1. Respond(r) /\ UNCHANGED links
      BY <1>3 DEF InsertLink
    <2> QED  BY <1>1, <2>1, FreeOwes DEF Respond, Counting
  <1> QED  BY <1>2, <1>3

LEMMA PersistOwes ==
    ASSUME Inv, BooksInv, LinksInv, NEW r \in Requests, Persist(r)
    PROVE  LinksInv'
  <1> DEFINE q == req[r]
             g0 == req[r].row
             row == [state |-> "there", link |-> q.link, status |-> q.to]
  <1>1. q.pc = "persist" /\ UNCHANGED <<links, faults, calm>>
    BY DEF Persist
  <1>2. CASE links[q.link].state = "live"
    <2>1. /\ rows' = [rows EXCEPT ![g0] = row]
          /\ shown' = [shown EXCEPT ![g0] = @ \cup {q.link}]
          /\ req' = [req EXCEPT ![r] = [q EXCEPT !.pc = "readCounts"]]
      BY <1>2 DEF Persist, Goto
    <2>2. g0 \in Rows /\ q.link \in LinkIds
      BY <1>1, OneRequest DEF Held
    <2>3. \A g \in Rows : /\ rows'[g] = IF g = g0 THEN row ELSE rows[g]
                          /\ shown'[g] = IF g = g0 THEN shown[g] \cup {q.link} ELSE shown[g]
      BY <2>1, <2>2 DEF Inv, TypeOK, LinksInv, ShownMade
    <2>4. links[q.link] # NoLink
      BY <1>2 DEF NoLink
    <2>5. ShownMade'
      BY <1>1, <2>1, <2>2, <2>3, <2>4 DEF LinksInv, ShownMade
    <2>6. calm[KindOf(g0)] => rows[g0].state # "there"
      <3>1. ASSUME calm[KindOf(g0)] PROVE \E c : Knows(q, rows, c)
        BY <1>1, <2>2, <3>1, CalmKnows DEF Foreground
      <3>2. ASSUME NEW c, Knows(q, rows, c) PROVE rows[g0] = NoRow
        BY <1>1, <3>2 DEF Knows, Counting
      <3> QED  BY <3>1, <3>2 DEF NoRow
    <2>7. row.state = "there" /\ row.link = q.link
      OBVIOUS
    <2> HIDE DEF row
    <2>8. ASSUME NEW g \in Rows, NEW l \in LinkIds, calm[KindOf(g)], l \in shown'[g], ~Shows(g, l)'
          PROVE  l \in shown[g] /\ ~Shows(g, l)
      BY <2>3, <2>6, <2>7, <2>8 DEF Shows
    <2>9. \A g, l : ~Owes(q, g, l)
      BY <1>1 DEF Owes, Counting
    <2> HIDE DEF g0
    <2> QED  BY <1>1, <2>1, <2>5, <2>8, <2>9, OwedStep
  <1>3. CASE links[q.link].state # "live"
    <2>1. Respond(r) /\ UNCHANGED <<rows, shown>>
      BY <1>3 DEF Persist
    <2> QED  BY <1>1, <2>1, FreeOwes DEF Respond, Counting
  <1> QED  BY <1>2, <1>3

LEMMA ApplyOwes ==
    ASSUME Inv, BooksInv, LinksInv, NEW r \in Requests, Apply(r)
    PROVE  LinksInv'
  <1> DEFINE q == req[r]
             g0 == req[r].row
             p == [req[r] EXCEPT !.pc = "reload"]
  <1>1. q.pc = "apply" /\ UNCHANGED <<links, faults, calm>>
    BY DEF Apply
  <1>2. g0 \in Rows /\ (q.file # None => q.link \in LinkIds)
    BY <1>1, OneRequest DEF Held
  <1>3. CASE rows[g0].state = "there" /\ (q.file # None => links[q.link].state = "live")
    <2>1. /\ rows' = [rows EXCEPT ![g0].link = IF q.file = None THEN @ ELSE q.link,
                                  ![g0].status = IF q.to = None THEN @ ELSE q.to]
          /\ shown' = [shown EXCEPT ![g0] = IF q.file = None THEN @ ELSE @ \cup {q.link}]
          /\ req' = [req EXCEPT ![r] = p]
      BY <1>3 DEF Apply, Goto
    <2>2. rows[g0] \in Row
      BY <1>2, <1>3 DEF Inv, TypeOK, NoRow
    <2>3. /\ \A g \in Rows : g # g0 => rows'[g] = rows[g]
          /\ rows'[g0].state = "there"
          /\ rows'[g0].link = IF q.file = None THEN rows[g0].link ELSE q.link
      <3>1. \A g \in Rows : g # g0 => rows'[g] = rows[g]
        BY <1>2, <2>1 DEF Inv, TypeOK
      <3>2. rows'[g0] = [rows[g0] EXCEPT !.link = IF q.file = None THEN @ ELSE q.link,
                                         !.status = IF q.to = None THEN @ ELSE q.to]
        BY <1>2, <2>1 DEF Inv, TypeOK
      <3> QED  BY <1>3, <2>2, <3>1, <3>2 DEF Row
    <2>4. \A g \in Rows : shown'[g] = IF g = g0 /\ q.file # None THEN shown[g] \cup {q.link} ELSE shown[g]
      BY <1>2, <2>1 DEF LinksInv, ShownMade
    <2>5. ShownMade'
      <3>1. q.file # None => links[q.link] # NoLink
        BY <1>3 DEF NoLink
      <3> QED  BY <1>1, <1>2, <2>1, <2>4, <3>1 DEF LinksInv, ShownMade
    <2>6. p.pc = "reload" /\ p.op = q.op /\ p.row = g0 /\ p.file = q.file /\ p.old = q.old
      BY <1>1, PcMoves
    <2>7. calm[KindOf(g0)] => q.op = "update" /\ q.old = rows[g0]
      <3>1. ASSUME calm[KindOf(g0)] PROVE \E c : Knows(q, rows, c)
        BY <1>1, <1>2, <3>1, CalmKnows DEF Foreground
      <3>2. ASSUME NEW c, Knows(q, rows, c) PROVE q.op = "update" /\ q.old = rows[g0]
        BY <1>1, <3>2 DEF Knows, Counting
      <3> QED  BY <3>1, <3>2
    <2> HIDE DEF p, g0
    <2>8. ASSUME NEW g \in Rows, NEW l \in LinkIds, calm[KindOf(g)], l \in shown'[g], ~Shows(g, l)'
          PROVE  (l \in shown[g] /\ ~Shows(g, l)) \/ Owes(p, g, l)
      <3>1. CASE g # g0
        BY <2>3, <2>4, <2>8, <3>1 DEF Shows
      <3>2. CASE g = g0 /\ q.file = None
        BY <2>3, <2>4, <2>8, <3>2 DEF Shows
      <3>3. CASE g = g0 /\ q.file # None
        <4>1. l # q.link /\ l \in shown[g]
          BY <2>3, <2>4, <2>8, <3>3 DEF Shows
        <4>2. Shows(g, l) => Owes(p, g, l)
          BY <2>6, <2>7, <2>8, <3>3 DEF Shows, Owes, Counting
        <4> QED  BY <4>1, <4>2
      <3> QED  BY <3>1, <3>2, <3>3
    <2>9. \A g, l : ~Owes(q, g, l)
      BY <1>1 DEF Owes, Counting
    <2> QED  BY <1>1, <2>1, <2>5, <2>8, <2>9, OwedStep
  <1>4. CASE ~(rows[g0].state = "there" /\ (q.file # None => links[q.link].state = "live"))
    <2>1. Respond(r) /\ UNCHANGED <<rows, shown>>
      BY <1>4 DEF Apply
    <2> QED  BY <1>1, <2>1, FreeOwes DEF Respond, Counting
  <1> QED  BY <1>3, <1>4

\* What follows a write: its clean-up takes over what it owes.
LEMMA AfterOwes ==
    ASSUME Inv, NEW r \in Requests, req[r].pc \in Counting
    PROVE  \A g, l : Owes(req[r], g, l) => Owes(AfterWrite(req[r]), g, l)
  <1> DEFINE q == req[r]
             p == [req[r] EXCEPT !.pc = "cleanFind"]
  <1>1. p.pc = "cleanFind" /\ p.row = q.row /\ p.old = q.old
    BY PcMoves DEF Counting
  <1>2. SUFFICES ASSUME NEW g, NEW l, Owes(q, g, l) PROVE Owes(AfterWrite(q), g, l)
    OBVIOUS
  <1>3. q.op = "delete" \/ (q.op = "update" /\ q.file # None)
    BY <1>2 DEF Owes, Counting
  <1>4. AfterWrite(q) = p
    BY <1>3 DEF AfterWrite
  <1> HIDE DEF p
  <1> QED  BY <1>1, <1>2, <1>4 DEF Owes

LEMMA ReloadOwes ==
    ASSUME Inv, BooksInv, LinksInv, NEW r \in Requests, Reload(r)
    PROVE  LinksInv'
  <1> DEFINE q == req[r]
             g0 == rows[req[r].row]
             new == IF q.row \in Ads THEN g0.status ELSE q.to
             on == [req[r] EXCEPT !.pc = "readCounts", !.to = new]
             p == IF g0.state = "gone" THEN Idle
                  ELSE IF new \in {None, q.old.status} THEN AfterWrite(q) ELSE on
  <1>1. q.pc = "reload" /\ UNCHANGED <<links, rows, shown, faults, calm>> /\ req' = [req EXCEPT ![r] = p]
    BY DEF Reload, contentVars, ghosts
  <1>2. q \in Request /\ q.row \in Rows
    BY <1>1, OneRequest DEF Held, Counting
  <1>3. on.pc = "readCounts" /\ on.op = q.op /\ on.row = q.row /\ on.file = q.file /\ on.old = q.old
    BY <1>2 DEF Request
  <1>4. calm[KindOf(q.row)] => g0.state # "gone"
    <2>1. ASSUME calm[KindOf(q.row)] PROVE \E c : Knows(q, rows, c)
      BY <1>1, <1>2, <2>1, CalmKnows DEF Foreground, Counting
    <2>2. ASSUME NEW c, Knows(q, rows, c) PROVE g0.state = "there"
      BY <1>1, <2>2 DEF Knows
    <2> QED  BY <2>1, <2>2
  <1>5. \A g, l : Owes(q, g, l) => Owes(AfterWrite(q), g, l)
    BY <1>1, AfterOwes DEF Counting
  <1> HIDE DEF g0, new, on
  <1>6. \A g, l : Owes(q, g, l) => Owes(on, g, l)
    BY <1>1, <1>3 DEF Owes, Counting
  <1>7. \A g, l : calm[KindOf(g)] /\ Owes(q, g, l) => Owes(p, g, l)
    <2>1. SUFFICES ASSUME NEW g, NEW l, calm[KindOf(g)], Owes(q, g, l) PROVE Owes(p, g, l)
      OBVIOUS
    <2>2. g = q.row
      BY <2>1 DEF Owes
    <2> QED  BY <1>4, <1>5, <1>6, <2>1, <2>2
  <1> HIDE DEF p
  <1> QED  BY <1>1, <1>7, AsideOwes

LEMMA DeleteRowOwes ==
    ASSUME Inv, BooksInv, LinksInv, NEW r \in Requests, DeleteRow(r)
    PROVE  LinksInv'
  <1> DEFINE q == req[r]
             g0 == req[r].row
             p == [req[r] EXCEPT !.pc = "readCounts"]
  <1>1. /\ q.pc = "delete" /\ UNCHANGED <<links, faults, calm, shown>>
        /\ rows' = [rows EXCEPT ![g0].state = "gone"]
        /\ req' = [req EXCEPT ![r] = p]
    BY DEF DeleteRow, Goto, ghosts
  <1>2. g0 \in Rows
    BY <1>1, OneRequest DEF Held
  <1>3. \A g \in Rows : g # g0 => rows'[g] = rows[g]
    BY <1>1, <1>2 DEF Inv, TypeOK
  <1>4. p.pc = "readCounts" /\ p.op = q.op /\ p.row = g0 /\ p.old = q.old
    BY <1>1, PcMoves
  <1>5. calm[KindOf(g0)] => q.op = "delete" /\ q.old = rows[g0]
    <2>1. ASSUME calm[KindOf(g0)] PROVE \E c : Knows(q, rows, c)
      BY <1>1, <1>2, <2>1, CalmKnows DEF Foreground
    <2>2. ASSUME NEW c, Knows(q, rows, c) PROVE q.op = "delete" /\ q.old = rows[g0]
      BY <1>1, <2>2 DEF Knows, Counting
    <2> QED  BY <2>1, <2>2
  <1> HIDE DEF p, g0
  <1>6. ASSUME NEW g \in Rows, NEW l \in LinkIds, calm[KindOf(g)], l \in shown'[g], ~Shows(g, l)'
        PROVE  (l \in shown[g] /\ ~Shows(g, l)) \/ Owes(p, g, l)
    <2>1. CASE g # g0
      BY <1>1, <1>3, <1>6, <2>1 DEF Shows
    <2>2. CASE g = g0
      <3>1. Shows(g, l) => Owes(p, g, l)
        BY <1>4, <1>5, <1>6, <2>2 DEF Shows, Owes, Counting
      <3> QED  BY <1>1, <1>6, <3>1
    <2> QED  BY <2>1, <2>2
  <1>7. ShownMade'
    BY <1>1 DEF LinksInv, ShownMade
  <1>8. \A g, l : ~Owes(q, g, l)
    BY <1>1 DEF Owes, Counting
  <1> QED  BY <1>1, <1>6, <1>7, <1>8, OwedStep

LEMMA CountsOwes ==
    ASSUME Inv, LinksInv, NEW r \in Requests, ReadCounts(r) \/ WriteCounts(r)
    PROVE  LinksInv'
  <1> DEFINE q == req[r]
  <1>1. UNCHANGED <<links, rows, shown, faults, calm>> /\ q.pc \in Counting
    BY DEF ReadCounts, WriteCounts, contentVars, ghosts, Counting
  <1>2. CASE ReadCounts(r)
    <2> DEFINE p == [req[r] EXCEPT !.pc = "writeCounts", !.counts = stats[KindOf(req[r].row)]]
    <2>1. req' = [req EXCEPT ![r] = p]
      BY <1>2 DEF ReadCounts
    <2>2. q \in Request
      BY <1>1, OneRequest DEF Counting
    <2>3. p.pc = "writeCounts" /\ p.op = q.op /\ p.row = q.row /\ p.file = q.file /\ p.old = q.old
      BY <2>2 DEF Request
    <2> HIDE DEF p
    <2>4. \A g, l : Owes(q, g, l) => Owes(p, g, l)
      BY <1>1, <2>3 DEF Owes, Counting
    <2> QED  BY <1>1, <2>1, <2>4, AsideOwes
  <1>3. CASE WriteCounts(r)
    <2>1. req' = [req EXCEPT ![r] = AfterWrite(q)]
      BY <1>3 DEF WriteCounts
    <2>2. \A g, l : Owes(q, g, l) => Owes(AfterWrite(q), g, l)
      BY <1>1, AfterOwes
    <2> QED  BY <1>1, <2>1, <2>2, AsideOwes
  <1> QED  BY <1>2, <1>3

LEMMA StopOwes ==
    ASSUME Inv, LinksInv, ProcessEnds, UNCHANGED <<links, shown>>
    PROVE  LinksInv'
  BY FaultOwes DEF ProcessEnds

LEMMA CleanOwes ==
    ASSUME Inv, LinksInv, NEW r \in Requests, Clean(r)
    PROVE  LinksInv'
  <1> DEFINE q == req[r]
  <1>1. CASE CleanFind(r)
    <2> DEFINE old == links[q.old.link]
               on == [req[r] EXCEPT !.pc = "unlink", !.file = old.file]
               p == IF old.state = "live" THEN on ELSE Idle
    <2>1. /\ q.pc = "cleanFind" /\ UNCHANGED <<links, rows, shown, faults, calm>>
          /\ req' = [req EXCEPT ![r] = p]
      BY <1>1 DEF CleanFind, contentVars, ghosts
    <2>2. q \in Request
      BY <2>1, OneRequest
    <2>3. on.pc = "unlink" /\ on.row = q.row /\ on.old = q.old
      BY <2>2 DEF Request
    <2> HIDE DEF on
    <2>4. \A g, l : links[l].state = "live" /\ Owes(q, g, l) => Owes(p, g, l)
      BY <2>3 DEF Owes
    <2> HIDE DEF p
    <2> QED  BY <2>1, <2>4, AsideOwes
  <1>2. CASE CleanUnlink(r)
    <2> DEFINE l0 == q.old.link
    <2>1. q.pc = "unlink" /\ UNCHANGED <<rows, shown>>
      BY <1>2 DEF CleanUnlink
    <2>2. CASE Shown(l0)
      BY <1>2, <2>1, <2>2, StopOwes DEF CleanUnlink
    <2>3. CASE ~Shown(l0)
      <3> DEFINE p == [req[r] EXCEPT !.pc = "count"]
      <3>1. /\ links' = [links EXCEPT ![l0].state = IF @ = "live" THEN "unlinked" ELSE @]
            /\ req' = [req EXCEPT ![r] = p] /\ UNCHANGED <<faults, calm>>
        BY <1>2, <2>3 DEF CleanUnlink, Goto
      <3>2. l0 \in LinkIds
        BY <2>1, OneRequest DEF Held, Cleaning
      <3>3. links[l0] # NoLink /\ links[l0] \in Link
        BY <2>1, <3>2, OneRequest, OneLink DEF OwnFile
      <3>4. /\ \A l \in LinkIds : l # l0 => links'[l] = links[l]
            /\ links'[l0].state # "live" /\ links'[l0] # NoLink
        <4>1. \A l \in LinkIds : l # l0 => links'[l] = links[l]
          BY <3>1 DEF Inv, TypeOK
        <4>2. links'[l0] = [links[l0] EXCEPT !.state = IF @ = "live" THEN "unlinked" ELSE @]
          BY <3>1, <3>2 DEF Inv, TypeOK
        <4>3. links'[l0].state \in {"unlinked", "cascaded"}
          BY <3>3, <4>2 DEF Link
        <4> QED  BY <4>1, <4>3 DEF NoLink
      <3> HIDE DEF p, l0
      <3>5. ShownMade'
        BY <2>1, <3>4 DEF LinksInv, ShownMade
      <3>6. \A g, l : Owes(q, g, l) => l = l0
        BY DEF Owes, l0
      <3>7. \A g, l : Shows(g, l)' <=> Shows(g, l)
        BY <2>1 DEF Shows
      <3>8. \A l \in LinkIds : links'[l].state = "live" => links[l].state = "live" /\ l # l0
        BY <3>4
      <3> QED  BY <2>1, <3>1, <3>5, <3>6, <3>7, <3>8, OwedStep
    <2> QED  BY <2>2, <2>3
  <1>3. CASE CleanCount(r) \/ CleanObject(r)
    <2>1. /\ q.pc \in {"count", "object"} /\ UNCHANGED <<links, rows, shown, faults, calm>>
          /\ Respond(r) \/ Goto(r, "object") \/ Goto(r, "row")
      BY <1>3 DEF CleanCount, CleanObject, contentVars, ghosts
    <2>2. PICK p : req' = [req EXCEPT ![r] = p]
      BY <2>1 DEF Respond, Goto
    <2> QED  BY <2>1, <2>2, FreeOwes DEF Counting
  <1>4. CASE CleanRow(r)
    <2>1. q.pc = "row" /\ UNCHANGED <<rows, shown>>
      BY <1>4 DEF CleanRow
    <2>2. CASE \E l \in LinksOf(q.file) : Shown(l)
      BY <1>4, <2>1, <2>2, StopOwes DEF CleanRow
    <2>3. CASE ~\E l \in LinksOf(q.file) : Shown(l)
      <3>1. /\ links' = [l \in LinkIds |-> IF l \in LinksOf(q.file)
                                           THEN [links[l] EXCEPT !.state = "cascaded"] ELSE links[l]]
            /\ req' = [req EXCEPT ![r] = Idle] /\ UNCHANGED <<faults, calm>>
        BY <1>4, <2>3 DEF CleanRow, Respond
      <3>2. \A l \in LinksOf(q.file) : links[l] \in Link
        BY OneLink DEF LinksOf, NoLink
      <3>3. \A l \in LinksOf(q.file) : links'[l].state = "cascaded"
        BY <3>1, <3>2 DEF LinksOf, Link
      <3>4. \A l \in LinkIds : l \notin LinksOf(q.file) => links'[l] = links[l]
        BY <3>1
      <3>5. \A l \in LinkIds : links'[l].state = "live" => links[l].state = "live"
        BY <3>3, <3>4
      <3>6. \A l \in LinkIds : links[l] # NoLink => links'[l] # NoLink
        BY <3>3, <3>4 DEF NoLink
      <3>7. ShownMade'
        BY <2>1, <3>6 DEF LinksInv, ShownMade
      <3>8. \A g, l : ~Owes(q, g, l)
        BY <2>1 DEF Owes, Counting
      <3>9. \A g, l : Shows(g, l)' <=> Shows(g, l)
        BY <2>1 DEF Shows
      <3> QED  BY <2>1, <3>1, <3>5, <3>7, <3>8, <3>9, OwedStep
    <2> QED  BY <2>2, <2>3
  <1> QED  BY <1>1, <1>2, <1>3, <1>4 DEF Clean

LEMMA RequestFailsOwes ==
    ASSUME Inv, LinksInv, NEW r \in Requests, RequestFails(r)
    PROVE  LinksInv'
  <1>1. UNCHANGED <<links, shown>> /\ faults' = faults + 1
    BY DEF RequestFails, ProcessEnds, contentVars
  <1> QED  BY <1>1, FaultOwes

LEMMA InitOwes == Init => LinksInv
  BY DEF Init, LinksInv, ShownMade, OldLinksGo

LEMMA StepOwes == Inv /\ BooksInv /\ LinksInv /\ [Next]_vars => LinksInv'
  <1> SUFFICES ASSUME Inv, BooksInv, LinksInv, [Next]_vars PROVE LinksInv'
    OBVIOUS
  <1>1. ASSUME NEW r \in Requests, Arrive(r) PROVE LinksInv'
    BY <1>1, ArriveOwes
  <1>2. ASSUME NEW r \in Requests, Serve(r) PROVE LinksInv'
    BY <1>2, UploadRowOwes, InsertLinkOwes, PersistOwes, ApplyOwes, ReloadOwes, DeleteRowOwes,
       CountsOwes DEF Serve
  <1>3. ASSUME NEW r \in Requests, Clean(r) PROVE LinksInv'
    BY <1>3, CleanOwes
  <1>4. ASSUME NEW r \in Requests, RequestFails(r) PROVE LinksInv'
    BY <1>4, RequestFailsOwes
  <1>5. ASSUME Restart PROVE LinksInv'
    BY <1>5, StopOwes DEF Restart, contentVars
  <1>6. ASSUME UNCHANGED vars PROVE LinksInv'
    <2>1. UNCHANGED <<links, rows, shown, faults, calm, req>>
      BY <1>6 DEF vars, contentVars, ghosts
    <2>2. ShownMade'
      BY <2>1 DEF LinksInv, ShownMade
    <2>3. OldLinksGo => OldLinksGo'
      BY <2>1 DEF OldLinksGo, Owes, Shows
    <2> QED  BY <2>1, <2>2, <2>3 DEF LinksInv
  <1> QED  BY <1>1, <1>2, <1>3, <1>4, <1>5, <1>6 DEF Next

\* Without a fault what a guide or an ad showed and shows no more goes: the link, unless
\* two writes of the kind overlapped, and with its last link the file; until then
\* a write that took it away, or its clean-up, is under way.
THEOREM FilesGo == Spec => []OldFilesGo
  <1>1. Inv /\ LinksInv => OldFilesGo
    BY DEF Inv, FilesFollow, LinksInv, OldFilesGo
  <1>2. Init => Inv /\ BooksInv /\ LinksInv
    BY InitInv, InitBooks, InitOwes
  <1>3. Inv /\ BooksInv /\ LinksInv /\ [Next]_vars => Inv' /\ BooksInv' /\ LinksInv'
    BY StepInv, StepBooks, StepOwes
  <1> QED  BY <1>1, <1>2, <1>3, PTL DEF Spec

=============================================================================
