--------------------------- MODULE NewsletterProofs ---------------------------
(***************************************************************************)
(* Proofs about Newsletter, for any newsletters, requests, users and       *)
(* bounds.  The three properties speak of calm executions; the types and   *)
(* the versions hold whatever requests, callbacks, jobs, failures and      *)
(* restarts meet.                                                          *)
(***************************************************************************)
EXTENDS Newsletter, SequenceTheorems, TLAPS

Statuses == {"DRAFT", "SCHEDULED", "PENDING", "SENT", "FAILED"}

News == [status : Statuses, mode : Modes, at : Nat, audience : Audiences, ver : Nat \ {0}]

\* What an update gives, before it is a version.
Change == [status : Statuses, mode : Modes \cup {"none"}, at : Nat,
           audience : Audiences \cup {"none"}, ver : {0}]

Job == [state : {"delayed", "active", "failed"}, due : Nat, list : BOOLEAN, stalled : BOOLEAN]

Work == [pc : {"find"}, news : {NoRow}] \cup [pc : {"send", "sent", "failed", "cleanup"}, news : News]

Call == [pc : {"begin", "sent", "failed"}, id : Ids, news : News, list : BOOLEAN, by : Requests]

Updating == [pc : {"write", "reread"}, id : Ids, news : Change, list : BOOLEAN]
Canceling == [pc : {"cancel"}, id : Ids, news : News, list : BOOLEAN]
Deleting == [pc : {"deleteCancel", "deleteRow"}, id : Ids, news : {NoRow}, list : {FALSE}]

Delivery == [id : Ids, news : News, at : Nat, to : SUBSET (Subscribers \cup Staff)]

TypeOK ==
    /\ rows \in [Ids -> News \cup {NoRow}]
    /\ queue \in [Ids -> Job \cup {NoJob}]
    /\ work \in [Ids -> Work \cup {NoWork}]
    /\ calls \subseteq Call
    /\ req \in [Requests -> Updating \cup Canceling \cup Deleting \cup {Idle}]
    /\ delivered \in Seq(Delivery)
    /\ saves \in Nat
    /\ now \in Nat
    /\ faults \in Nat
    /\ calm \in BOOLEAN

\* The processor works for a job that is locked.
WorkLocked == \A i \in Ids : work[i] # NoWork => queue[i].state = "active"

\* Every save has a number of its own.
Versions ==
    /\ \A i \in Ids : rows[i].ver <= saves
    /\ \A i, j \in Ids : rows[i] # NoRow /\ rows[i].ver = rows[j].ver => i = j

-----------------------------------------------------------------------------
(* What holds while nothing has met anything else. *)

\* At most one request or callback is under way, and beside it no job is due.
Alone ==
    /\ \A r, s \in Requests : req[r] # Idle /\ req[s] # Idle => r = s
    /\ \A r \in Requests : req[r] # Idle => calls = {}
    /\ \A c, d \in calls : c = d
    /\ ~Settled => \A i \in Ids : ~Due(i)

Sent == {delivered[n].news.ver : n \in DOMAIN delivered}

\* A row that was just saved: validated, and not sent yet.
Fresh(news) ==
    /\ StatusConstraints(news.status, news.mode, news.at)
    /\ news.ver \notin Sent

\* A job is for the row as it is, and a row that waits for a date has its job.
InSync(i) ==
    /\ queue[i] # NoJob => rows[i] # NoRow
    /\ queue[i].state \in {"delayed", "active"} =>
         rows[i].mode = "SCHEDULED" /\ rows[i].at = queue[i].due
    /\ queue[i].state = "active" => queue[i].due <= now
    /\ queue[i].state = "delayed" => rows[i].status = "SCHEDULED"
    /\ rows[i].status = "SCHEDULED" /\ rows[i].at > now => queue[i].state = "delayed"

\* A request or a callback is between the row of i and its job.
Between(i) ==
    \/ \E r \in Requests : req[r].id = i /\ req[r].pc \in {"reread", "cancel", "deleteRow"}
    \/ \E c \in calls : c.id = i /\ c.pc = "begin"

RequestKnows(q) ==
    /\ q.pc = "write" =>
         /\ rows[q.id] # NoRow
         /\ StatusConstraints(q.news.status,
                IF q.news.mode = "none" THEN rows[q.id].mode ELSE q.news.mode, q.news.at)
    /\ q.pc = "reread" => rows[q.id] # NoRow /\ Fresh(rows[q.id])
    /\ q.pc = "cancel" => rows[q.id] = q.news /\ Fresh(rows[q.id])
    /\ q.pc = "deleteRow" => queue[q.id] = NoJob

CallKnows(c) ==
    /\ queue[c.id] = NoJob
    /\ rows[c.id] # NoRow
    /\ c.pc = "begin" => rows[c.id] = c.news /\ Fresh(rows[c.id])

WorkKnows(i) == work[i].pc = "send" => work[i].news = rows[i]

\* What is about to be sent was not.
Unsent(i) ==
    queue[i].state = "delayed" \/ work[i].pc \in {"find", "send"} => rows[i].ver \notin Sent

\* What was delivered is some saved versions, each once and in its time.
Log ==
    /\ \A v \in Sent : v <= saves
    /\ DeliveredOnce
    /\ SentAsPlanned

CalmInv ==
    /\ Alone
    /\ \A i \in Ids : InSync(i) \/ Between(i)
    /\ \A i \in Ids : WorkKnows(i) /\ Unsent(i)
    /\ \A r \in Requests : RequestKnows(req[r])
    /\ \A c \in calls : CallKnows(c)
    /\ Log

Inv == TypeOK /\ WorkLocked /\ Versions /\ (calm => CalmInv)

-----------------------------------------------------------------------------
(* Types. *)

Typed == TypeOK /\ WorkLocked

LEMMA Kinds ==
    ASSUME TypeOK, NEW r \in Requests
    PROVE  /\ req[r].pc \in {"write", "reread"} => req[r] \in Updating
           /\ req[r].pc = "cancel" => req[r] \in Canceling
           /\ req[r].pc \in {"deleteCancel", "deleteRow"} => req[r] \in Deleting
           /\ req[r].pc = "idle" <=> req[r] = Idle
  <1>1. req[r] \in Updating \cup Canceling \cup Deleting \cup {Idle}
    BY DEF TypeOK
  <1>2. /\ req[r] \in Updating => req[r].pc \in {"write", "reread"}
        /\ req[r] \in Canceling => req[r].pc = "cancel"
        /\ req[r] \in Deleting => req[r].pc \in {"deleteCancel", "deleteRow"}
        /\ Idle.pc = "idle"
    BY DEF Updating, Canceling, Deleting, Idle
  <1> QED  BY <1>1, <1>2

\* An id that is given no row has a row's type only if there is one.
LEMMA Kept ==
    ASSUME TypeOK, NEW i \in Ids
    PROVE  /\ rows[i] # NoRow => rows[i] \in News
           /\ rows[i] = NoRow => rows[i].ver = 0 /\ rows[i].status = "none" /\ rows[i].mode = "none"
           /\ queue[i] # NoJob => queue[i] \in Job
           /\ queue[i].state # "none" <=> queue[i] # NoJob
           /\ work[i] # NoWork => work[i] \in Work
           /\ work[i].pc # "none" <=> work[i] # NoWork
  <1>1. /\ rows[i] \in News \cup {NoRow} /\ queue[i] \in Job \cup {NoJob}
        /\ work[i] \in Work \cup {NoWork}
    BY DEF TypeOK
  <1>2. NoRow.ver = 0 /\ NoRow.status = "none" /\ NoRow.mode = "none"
    BY DEF NoRow
  <1>3. NoJob.state = "none" /\ \A j \in Job : j.state # "none"
    BY DEF NoJob, Job
  <1>4. NoWork.pc = "none" /\ \A w \in Work : w.pc # "none"
    BY DEF NoWork, Work
  <1> QED  BY <1>1, <1>2, <1>3, <1>4

LEMMA NewsNotNone == NoRow \notin News
  BY DEF News, NoRow, Statuses

\* What validation lets through is a row's.
LEMMA Resolved ==
    ASSUME NEW status \in {"DRAFT", "SENT"}, NEW at, NEW mode
    PROVE  ResolveStatus(status, at, mode) \in Statuses
  BY DEF ResolveStatus, Statuses

LEMMA DatesNat == Dates \subseteq Nat
  BY NewsletterAssumption DEF Dates

\* A send reaches some of the users, or nobody.
LEMMA SendGoes ==
    ASSUME TypeOK, NEW i \in Ids, NEW news \in News, NEW list, NEW outcome,
           SendNewsLetter(i, news, list, outcome)
    PROVE  /\ faults' \in Nat
           /\ \/ UNCHANGED delivered
              \/ /\ outcome \in {"sent", "failed"}
                 /\ \E d \in Delivery : /\ d.news = news /\ d.at = now
                                        /\ delivered' = Append(delivered, d)
  <1>1. Recipients(news.audience) \subseteq Subscribers \cup Staff
    BY NewsletterAssumption DEF Recipients
  <1>2. faults' \in Nat
    BY DEF SendNewsLetter, TypeOK
  <1>3. \A to \in SUBSET (Subscribers \cup Staff) :
          [id |-> i, news |-> news, at |-> now, to |-> to] \in Delivery
    BY DEF Delivery, TypeOK
  <1>4. \/ UNCHANGED delivered
        \/ outcome \in {"sent", "failed"} /\ \E to \in SUBSET (Subscribers \cup Staff) :
             delivered' = Append(delivered, [id |-> i, news |-> news, at |-> now, to |-> to])
    BY <1>1 DEF SendNewsLetter
  <1>5. ASSUME NEW to \in SUBSET (Subscribers \cup Staff),
               delivered' = Append(delivered, [id |-> i, news |-> news, at |-> now, to |-> to])
        PROVE  \E d \in Delivery : /\ d.news = news /\ d.at = now
                                   /\ delivered' = Append(delivered, d)
    <2>1. PICK d : d = [id |-> i, news |-> news, at |-> now, to |-> to]
      OBVIOUS
    <2> QED  BY <1>3, <1>5, <2>1
  <1> QED  BY <1>2, <1>4, <1>5

LEMMA DeliveredSeq ==
    ASSUME TypeOK, UNCHANGED delivered \/ \E d \in Delivery : delivered' = Append(delivered, d)
    PROVE  delivered' \in Seq(Delivery)
  BY DEF TypeOK

LEMMA TypeInit == Init => Typed
  BY EmptySeq DEF Init, Typed, TypeOK, WorkLocked

LEMMA CreateType ==
    ASSUME Typed, NEW r \in Requests, NEW i \in Ids, NEW status \in {"DRAFT", "SENT"}, NEW mode \in Modes,
           NEW at \in Dates, NEW audience \in Audiences, NEW list \in BOOLEAN,
           CreateNewsletter(r, i, status, mode, at, audience, list)
    PROVE  Typed'
  <1>1. PICK news : /\ news = [status |-> ResolveStatus(status, at, mode), mode |-> mode, at |-> at,
                               audience |-> audience, ver |-> saves + 1]
                    /\ rows' = [rows EXCEPT ![i] = news]
                    /\ HandlePostSave(r, i, news, list)
    BY DEF CreateNewsletter
  <1>2. news \in News
    BY <1>1, Resolved, DatesNat DEF News, Typed, TypeOK
  <1>3. [pc |-> "begin", id |-> i, news |-> news, list |-> list, by |-> r] \in Call
    BY <1>2 DEF Call
  <1>4. calls' \subseteq Call
    BY <1>1, <1>3 DEF HandlePostSave, Typed, TypeOK
  <1>5. rows' \in [Ids -> News \cup {NoRow}]
    BY <1>1, <1>2 DEF Typed, TypeOK
  <1>6. /\ saves' \in Nat /\ calm' \in BOOLEAN
        /\ UNCHANGED <<queue, work, req, delivered, now, faults>>
    BY DEF CreateNewsletter, Arrives, Typed, TypeOK
  <1> QED  BY <1>4, <1>5, <1>6 DEF Typed, TypeOK, WorkLocked

LEMMA UpdateType ==
    ASSUME Typed, NEW r \in Requests, NEW i \in Ids, NEW status \in {"DRAFT", "SENT"},
           NEW mode \in Modes \cup {"none"}, NEW at \in Dates, NEW audience \in Audiences \cup {"none"},
           NEW list \in BOOLEAN, UpdateNewsletter(r, i, status, mode, at, audience, list)
    PROVE  Typed'
  <1> DEFINE merged == IF mode = "none" THEN rows[i].mode ELSE mode
             date == IF mode \in {"none", "SCHEDULED"} THEN at ELSE 0
             news == [status |-> ResolveStatus(status, at, merged), mode |-> mode, at |-> date,
                      audience |-> audience, ver |-> 0]
             q == [pc |-> "write", id |-> i, list |-> list, news |-> news]
  <1>1. date \in {0, at} /\ req' = [req EXCEPT ![r] = q]
    BY DEF UpdateNewsletter
  <1>2. news \in Change
    BY <1>1, Resolved, DatesNat DEF Change
  <1> HIDE DEF news
  <1>3. q \in Updating
    BY <1>2 DEF Updating
  <1> HIDE DEF q
  <1>4. /\ calm' \in BOOLEAN
        /\ UNCHANGED <<rows, queue, work, calls, delivered, saves, now, faults>>
    BY DEF UpdateNewsletter, Arrives, Typed, TypeOK
  <1> QED  BY <1>1, <1>3, <1>4 DEF Typed, TypeOK, WorkLocked

LEMMA DeleteType ==
    ASSUME Typed, NEW r \in Requests, NEW i \in Ids, DeleteNewLetter(r, i)
    PROVE  Typed'
  <1>1. PICK q : q = [Idle EXCEPT !.pc = "deleteCancel", !.id = i] /\ req' = [req EXCEPT ![r] = q]
    BY DEF DeleteNewLetter
  <1>2. q \in Deleting
    BY <1>1 DEF Deleting, Idle
  <1>3. /\ calm' \in BOOLEAN
        /\ UNCHANGED <<rows, queue, work, calls, delivered, saves, now, faults>>
    BY DEF DeleteNewLetter, Arrives, Typed, TypeOK
  <1> QED  BY <1>1, <1>2, <1>3 DEF Typed, TypeOK, WorkLocked

\* The row an UPDATE leaves.
Updated(i, new) ==
    [new EXCEPT !.mode = IF @ = "none" THEN rows[i].mode ELSE @,
                !.audience = IF @ = "none" THEN rows[i].audience ELSE @,
                !.ver = saves + 1]

LEMMA UpdatedRow ==
    ASSUME Typed, NEW i \in Ids, rows[i] # NoRow, NEW new \in Change
    PROVE  /\ Updated(i, new) \in News
           /\ Updated(i, new).ver = saves + 1
           /\ Updated(i, new).status = new.status
           /\ Updated(i, new).mode = IF new.mode = "none" THEN rows[i].mode ELSE new.mode
           /\ Updated(i, new).at = new.at
  <1>1. rows[i] \in News
    BY Kept DEF Typed
  <1>2. PICK mode, audience : /\ mode = IF new.mode = "none" THEN rows[i].mode ELSE new.mode
                              /\ audience = IF new.audience = "none" THEN rows[i].audience ELSE new.audience
    OBVIOUS
  <1>3. Updated(i, new) = [new EXCEPT !.mode = mode, !.audience = audience, !.ver = saves + 1]
    BY <1>2 DEF Updated
  <1>4. mode \in Modes /\ audience \in Audiences
    BY <1>1, <1>2 DEF News, Change
  <1>5. saves + 1 \in Nat \ {0}
    BY DEF Typed, TypeOK
  <1>6. Updated(i, new) = [status |-> new.status, mode |-> mode, at |-> new.at,
                           audience |-> audience, ver |-> saves + 1]
    BY <1>3 DEF Change
  <1>7. Updated(i, new) \in News
    BY <1>4, <1>5, <1>6 DEF News, Change
  <1> QED  BY <1>2, <1>6, <1>7

LEMMA WriteType ==
    ASSUME Typed, NEW r \in Requests, UpdateWrite(r), UNCHANGED calm
    PROVE  Typed'
  <1>1. req[r] \in Updating /\ req[r].id \in Ids /\ req[r].news \in Change
    BY Kinds DEF UpdateWrite, Typed, Updating
  <1>2. CASE rows[req[r].id] = NoRow
    BY <1>2 DEF UpdateWrite, Respond, Typed, TypeOK, WorkLocked
  <1>3. CASE rows[req[r].id] # NoRow
    <2>1. PICK row, q : /\ row = Updated(req[r].id, req[r].news) /\ rows' = [rows EXCEPT ![req[r].id] = row]
                        /\ q = [req[r] EXCEPT !.pc = "reread"] /\ req' = [req EXCEPT ![r] = q]
                        /\ saves' = saves + 1
      BY <1>3 DEF UpdateWrite, Updated
    <2>2. row \in News /\ q \in Updating
      BY <1>1, <1>3, <2>1, UpdatedRow DEF Updating
    <2>3. UNCHANGED <<queue, work, calls, delivered, now, faults>>
      BY DEF UpdateWrite
    <2> QED  BY <1>1, <2>1, <2>2, <2>3 DEF Typed, TypeOK, WorkLocked
  <1> QED  BY <1>2, <1>3

LEMMA RereadType ==
    ASSUME Typed, NEW r \in Requests, UpdateReread(r), UNCHANGED calm
    PROVE  Typed'
  <1>1. req[r] \in Updating /\ req[r].id \in Ids
    BY Kinds DEF UpdateReread, Typed, Updating
  <1>2. CASE rows[req[r].id] = NoRow
    BY <1>2 DEF UpdateReread, Respond, Typed, TypeOK, WorkLocked
  <1>3. CASE rows[req[r].id] # NoRow
    <2>1. PICK q : /\ q = [[req[r] EXCEPT !.pc = "cancel"] EXCEPT !.news = rows[req[r].id]]
                   /\ req' = [req EXCEPT ![r] = q]
      BY <1>1, <1>3 DEF UpdateReread, Typed, TypeOK
    <2>2. rows[req[r].id] \in News
      BY <1>1, <1>3, Kept DEF Typed
    <2>3. q \in Canceling
      BY <1>1, <2>1, <2>2 DEF Updating, Canceling
    <2>4. UNCHANGED <<rows, queue, work, calls, delivered, saves, now, faults>>
      BY DEF UpdateReread
    <2> QED  BY <2>1, <2>3, <2>4 DEF Typed, TypeOK, WorkLocked
  <1> QED  BY <1>2, <1>3

LEMMA CancelType ==
    ASSUME Typed, NEW r \in Requests, UpdateCancel(r), UNCHANGED calm
    PROVE  Typed'
  <1>1. req[r] \in Canceling /\ req[r].id \in Ids
    BY Kinds DEF UpdateCancel, Typed, Canceling
  <1>2. PICK c : c = [pc |-> "begin", id |-> req[r].id, news |-> req[r].news, list |-> req[r].list, by |-> r]
    OBVIOUS
  <1>3. c \in Call
    BY <1>1, <1>2 DEF Canceling, Call
  <1>4. calls' \subseteq Call
    BY <1>2, <1>3 DEF UpdateCancel, HandlePostSave, Typed, TypeOK
  <1>5. queue' \in [Ids -> Job \cup {NoJob}]
    BY DEF UpdateCancel, Typed, TypeOK
  <1>6. WorkLocked'
    BY <1>1 DEF UpdateCancel, Removable, Typed, TypeOK, WorkLocked
  <1>7. req' = [req EXCEPT ![r] = Idle] /\ UNCHANGED <<rows, work, delivered, saves, now, faults>>
    BY DEF UpdateCancel, Respond
  <1> QED  BY <1>4, <1>5, <1>6, <1>7 DEF Typed, TypeOK

LEMMA DeleteStepType ==
    ASSUME Typed, NEW r \in Requests, DeleteCancel(r) \/ DeleteRow(r), UNCHANGED calm
    PROVE  Typed'
  <1>1. req[r] \in Deleting /\ req[r].id \in Ids
    BY Kinds DEF DeleteCancel, DeleteRow, Typed, Deleting
  <1>2. PICK q : q = [req[r] EXCEPT !.pc = "deleteRow"]
    OBVIOUS
  <1>3. q \in Deleting
    BY <1>1, <1>2 DEF Deleting
  <1>4. req' = [req EXCEPT ![r] = q] \/ req' = [req EXCEPT ![r] = Idle]
    BY <1>2 DEF DeleteCancel, DeleteRow, Respond
  <1>5. queue' \in [Ids -> Job \cup {NoJob}] /\ rows' \in [Ids -> News \cup {NoRow}]
    BY DEF DeleteCancel, DeleteRow, Typed, TypeOK
  <1>6. UNCHANGED <<work, calls, delivered, saves, now, faults>>
    BY DEF DeleteCancel, DeleteRow
  <1>7. WorkLocked'
    BY <1>1, <1>6 DEF DeleteCancel, DeleteRow, Removable, Typed, TypeOK, WorkLocked
  <1> QED  BY <1>3, <1>4, <1>5, <1>6, <1>7 DEF Typed, TypeOK

\* A row gets a status and keeps the rest.
StatusSet(i, row, status) ==
    /\ row \in News
    /\ rows' = [rows EXCEPT ![i] = row]
    /\ row.status = status
    /\ row.mode = rows[i].mode /\ row.at = rows[i].at /\ row.ver = rows[i].ver

LEMMA StatusType ==
    ASSUME Typed, NEW i \in Ids, rows[i] # NoRow, NEW status \in {"SENT", "FAILED"},
           rows' = [rows EXCEPT ![i].status = status]
    PROVE  \E row : StatusSet(i, row, status)
  <1>1. PICK row : row = [rows[i] EXCEPT !.status = status]
    OBVIOUS
  <1>2. rows[i] \in News
    BY Kept DEF Typed
  <1>3. rows' = [rows EXCEPT ![i] = row]
    BY <1>1 DEF Typed, TypeOK
  <1>4. row \in News /\ row.status = status
        /\ row.mode = rows[i].mode /\ row.at = rows[i].at /\ row.ver = rows[i].ver
    BY <1>1, <1>2 DEF News, Statuses
  <1> QED  BY <1>3, <1>4 DEF StatusSet

LEMMA RestartType ==
    ASSUME Typed, Restart
    PROVE  /\ queue' \in [Ids -> Job \cup {NoJob}]
           /\ work' \in [Ids -> Work \cup {NoWork}]
           /\ calls' \subseteq Call
           /\ req' \in [Requests -> Updating \cup Canceling \cup Deleting \cup {Idle}]
           /\ WorkLocked'
  <1>1. ASSUME NEW i \in Ids
        PROVE  queue'[i] \in Job \cup {NoJob}
    <2>1. CASE queue[i].state # "active"
      BY <2>1 DEF Restart, Typed, TypeOK
    <2>2. CASE queue[i].state = "active"
      <3>1. queue[i] \in Job
        BY <2>2, Kept DEF Typed, NoJob
      <3>2. PICK state : state = IF queue[i].stalled THEN "failed" ELSE "delayed"
        OBVIOUS
      <3>3. PICK job : job = [queue[i] EXCEPT !.state = state, !.stalled = TRUE]
        OBVIOUS
      <3>4. queue'[i] = job
        BY <2>2, <3>2, <3>3 DEF Restart
      <3> QED  BY <3>1, <3>2, <3>3, <3>4 DEF Job
    <2> QED  BY <2>1, <2>2
  <1>2. queue' \in [Ids -> Job \cup {NoJob}]
    BY <1>1 DEF Restart
  <1> QED  BY <1>2 DEF Restart, WorkLocked

LEMMA CallSendType ==
    ASSUME Typed, NEW c \in calls, CallSend(c), UNCHANGED calm
    PROVE  Typed'
  <1>1. c \in Call /\ c.id \in Ids /\ c.news \in News
    BY DEF Typed, TypeOK, Call
  <1>2. PICK outcome \in {"sent", "nobody", "failed"} :
          /\ SendNewsLetter(c.id, c.news, c.list, outcome)
          /\ calls' = (calls \ {c}) \cup IF outcome = "nobody" THEN {} ELSE {[c EXCEPT !.pc = outcome]}
    BY DEF CallSend
  <1>3. faults' \in Nat /\ delivered' \in Seq(Delivery)
    BY <1>1, <1>2, SendGoes, DeliveredSeq DEF Typed
  <1>4. outcome # "nobody" => [c EXCEPT !.pc = outcome] \in Call
    BY <1>1, <1>2 DEF Call
  <1>5. UNCHANGED <<rows, queue, work, req, saves, now>>
    BY DEF CallSend
  <1> QED  BY <1>2, <1>3, <1>4, <1>5 DEF Typed, TypeOK, WorkLocked

LEMMA CallStatusType ==
    ASSUME Typed, NEW c \in calls, CallStatus(c), UNCHANGED calm
    PROVE  Typed'
  <1>1. c \in Call /\ c.id \in Ids
    BY DEF Typed, TypeOK, Call
  <1>2. UNCHANGED <<delivered, saves, now, faults>>
    BY DEF CallStatus
  <1>3. CASE rows[c.id] = NoRow
    BY <1>2, <1>3, RestartType DEF CallStatus, Typed, TypeOK
  <1>4. CASE rows[c.id] # NoRow
    <2>1. PICK row, status : StatusSet(c.id, row, status)
      BY <1>1, <1>4, StatusType DEF CallStatus
    <2>2. rows' \in [Ids -> News \cup {NoRow}]
      BY <2>1 DEF StatusSet, Typed, TypeOK
    <2>3. \/ Restart
          \/ calls' = calls \ {c} /\ UNCHANGED <<queue, work, req>>
      BY <1>4 DEF CallStatus
    <2> QED  BY <1>2, <2>2, <2>3, RestartType DEF Typed, TypeOK, WorkLocked
  <1> QED  BY <1>3, <1>4

LEMMA CallAddType ==
    ASSUME Typed, NEW c \in calls, CallAdd(c) \/ CallNothing(c), UNCHANGED calm
    PROVE  Typed'
  <1>1. c \in Call /\ c.id \in Ids /\ c.news \in News
    BY DEF Typed, TypeOK, Call
  <1>2. PICK job : job = [state |-> "delayed", due |-> c.news.at, list |-> FALSE, stalled |-> FALSE]
    OBVIOUS
  <1>3. job \in Job
    BY <1>1, <1>2 DEF Job, News
  <1>4. queue' = queue \/ (queue[c.id] = NoJob /\ queue' = [queue EXCEPT ![c.id] = job])
    BY <1>2 DEF CallAdd, CallNothing
  <1>5. calls' = calls \ {c} /\ UNCHANGED <<rows, work, req, delivered, saves, now, faults>>
    BY DEF CallAdd, CallNothing
  <1>6. WorkLocked'
    BY <1>1, <1>4, <1>5, Kept DEF Typed, TypeOK, WorkLocked, NoJob
  <1> QED  BY <1>3, <1>4, <1>5, <1>6 DEF Typed, TypeOK

\* A job's state is set.
LEMMA JobSet ==
    ASSUME Typed, NEW i \in Ids, queue[i] # NoJob, NEW state \in {"delayed", "active", "failed"},
           queue' = [queue EXCEPT ![i].state = state]
    PROVE  \E job \in Job : /\ queue' = [queue EXCEPT ![i] = job]
                            /\ job.state = state /\ job.due = queue[i].due
  <1>1. queue[i] \in Job
    BY Kept DEF Typed
  <1>2. PICK job : job = [queue[i] EXCEPT !.state = state]
    OBVIOUS
  <1>3. queue' = [queue EXCEPT ![i] = job]
    BY <1>2 DEF Typed, TypeOK
  <1>4. job \in Job /\ job.state = state /\ job.due = queue[i].due
    BY <1>1, <1>2 DEF Job
  <1> QED  BY <1>3, <1>4

LEMMA JobFailsType ==
    ASSUME Typed, NEW i \in Ids, work[i] # NoWork, JobFails(i)
    PROVE  /\ queue' \in [Ids -> Job \cup {NoJob}] /\ work' \in [Ids -> Work \cup {NoWork}]
           /\ WorkLocked'
  <1>1. queue[i] # NoJob
    BY DEF Typed, WorkLocked, NoJob
  <1>2. PICK job \in Job : queue' = [queue EXCEPT ![i] = job]
    BY <1>1, JobSet DEF JobFails
  <1> QED  BY <1>2 DEF JobFails, Typed, TypeOK, WorkLocked

LEMMA JobStartType ==
    ASSUME Typed, NEW i \in Ids, JobStart(i), UNCHANGED calm
    PROVE  Typed'
  <1>1. queue[i] # NoJob
    BY DEF JobStart, NoJob
  <1>2. PICK job \in Job : queue' = [queue EXCEPT ![i] = job] /\ job.state = "active"
    BY <1>1, JobSet DEF JobStart
  <1>3. PICK w : w = [pc |-> "find", news |-> NoRow] /\ work' = [work EXCEPT ![i] = w]
    BY DEF JobStart
  <1>4. w \in Work
    BY <1>3 DEF Work
  <1>5. UNCHANGED <<rows, calls, req, delivered, saves, now, faults>>
    BY DEF JobStart
  <1> QED  BY <1>2, <1>3, <1>4, <1>5 DEF Typed, TypeOK, WorkLocked

\* The processor's next step.
LEMMA WorkSet ==
    ASSUME Typed, NEW i \in Ids, work[i] \in Work, work[i].news \in News,
           NEW pc \in {"send", "sent", "failed", "cleanup"}, work' = [work EXCEPT ![i].pc = pc]
    PROVE  \E w \in Work : work' = [work EXCEPT ![i] = w] /\ w.pc = pc /\ w.news = work[i].news
  <1>1. PICK w : w = [work[i] EXCEPT !.pc = pc]
    OBVIOUS
  <1>2. w \in Work /\ w.pc = pc /\ w.news = work[i].news
    BY <1>1 DEF Work
  <1> QED  BY <1>1, <1>2 DEF Typed, TypeOK

LEMMA JobStepType ==
    ASSUME Typed, NEW i \in Ids, JobFind(i) \/ JobSend(i) \/ JobStatus(i) \/ JobCleanup(i), UNCHANGED calm
    PROVE  Typed'
  <1>1. work[i] # NoWork /\ work[i] \in Work /\ queue[i].state = "active"
    BY Kept DEF JobFind, JobSend, JobStatus, JobCleanup, Typed, NoWork, WorkLocked
  <1>2. work[i].pc # "find" => work[i].news \in News
    BY <1>1 DEF Work
  <1>3. ASSUME NEW w \in Work, work' = [work EXCEPT ![i] = w], queue' = queue
        PROVE  /\ queue' \in [Ids -> Job \cup {NoJob}] /\ work' \in [Ids -> Work \cup {NoWork}]
               /\ WorkLocked'
    BY <1>1, <1>3 DEF Typed, TypeOK, WorkLocked
  <1>4. CASE JobFind(i)
    <2>1. CASE rows[i] = NoRow
      BY <1>1, <1>4, <2>1, JobFailsType DEF JobFind, Typed, TypeOK
    <2>2. CASE rows[i] # NoRow
      <3>1. PICK w : w = [pc |-> "send", news |-> rows[i]] /\ work' = [work EXCEPT ![i] = w]
        BY <1>4, <2>2 DEF JobFind
      <3>2. w \in Work
        BY <2>2, <3>1, Kept DEF Work, Typed
      <3> QED  BY <1>3, <1>4, <2>2, <3>1, <3>2 DEF JobFind, Typed, TypeOK
    <2> QED  BY <2>1, <2>2
  <1>5. CASE JobSend(i)
    <2>1. PICK outcome \in {"sent", "nobody", "failed"} :
            /\ SendNewsLetter(i, work[i].news, queue[i].list, outcome)
            /\ work' = [work EXCEPT ![i].pc = IF outcome = "nobody" THEN "cleanup" ELSE outcome]
      BY <1>5 DEF JobSend
    <2>2. work[i].news \in News
      BY <1>2, <1>5 DEF JobSend
    <2>3. faults' \in Nat /\ delivered' \in Seq(Delivery)
      BY <2>1, <2>2, SendGoes, DeliveredSeq DEF Typed
    <2>4. PICK pc \in {"send", "sent", "failed", "cleanup"} :
            pc = IF outcome = "nobody" THEN "cleanup" ELSE outcome
      OBVIOUS
    <2>5. work' = [work EXCEPT ![i].pc = pc]
      BY <2>1, <2>4
    <2>6. PICK w \in Work : work' = [work EXCEPT ![i] = w]
      BY <1>1, <2>2, <2>5, WorkSet
    <2> QED  BY <1>3, <1>5, <2>3, <2>6 DEF JobSend, Typed, TypeOK
  <1>6. CASE JobStatus(i)
    <2>1. rows' \in [Ids -> News \cup {NoRow}]
      <3>1. CASE rows' = rows
        BY <3>1 DEF Typed, TypeOK
      <3>2. CASE rows' # rows
        <4>1. PICK row, status : StatusSet(i, row, status)
          BY <1>6, <3>2, StatusType DEF JobStatus
        <4> QED  BY <4>1 DEF StatusSet, Typed, TypeOK
      <3> QED  BY <3>1, <3>2
    <2>2. UNCHANGED <<calls, req, delivered, saves, now, faults>>
      BY <1>6 DEF JobStatus
    <2>3. CASE JobFails(i)
      BY <1>1, <2>1, <2>2, <2>3, JobFailsType DEF Typed, TypeOK
    <2>4. CASE ~JobFails(i)
      <3>1. PICK w \in Work : work' = [work EXCEPT ![i] = w]
        BY <1>1, <1>2, <1>6, <2>4, WorkSet DEF JobStatus
      <3> QED  BY <1>3, <1>6, <2>1, <2>2, <2>4, <3>1 DEF JobStatus, Typed, TypeOK
    <2> QED  BY <2>3, <2>4
  <1>7. CASE JobCleanup(i)
    BY <1>1, <1>7, JobFailsType DEF JobCleanup, Typed, TypeOK
  <1> QED  BY <1>4, <1>5, <1>6, <1>7

LEMMA FaultType ==
    ASSUME Typed, Fault
    PROVE  faults' \in Nat /\ calm' \in BOOLEAN
  <1>1. faults \in Nat
    BY DEF Typed, TypeOK
  <1>2. faults' = faults + 1
    BY DEF Fault
  <1>3. faults' \in Nat
    BY <1>1, <1>2
  <1>4. calm' = FALSE
    BY DEF Fault
  <1>5. calm' \in BOOLEAN
    BY <1>4
  <1> QED  BY <1>3, <1>5

LEMMA RequestFailsType ==
    ASSUME Typed, NEW r \in Requests, RequestFails(r)
    PROVE  Typed'
  <1>1. /\ UNCHANGED <<rows, queue, work, calls, delivered, saves, now>>
        /\ req' = [req EXCEPT ![r] = Idle] /\ faults' \in Nat /\ calm' \in BOOLEAN
    BY FaultType DEF RequestFails, Respond
  <1> QED  BY <1>1 DEF Typed, TypeOK, WorkLocked

LEMMA CallFailsType ==
    ASSUME Typed, NEW c \in calls, CallFails(c)
    PROVE  Typed'
  <1>1. /\ UNCHANGED <<rows, delivered, saves, now>>
        /\ faults' \in Nat /\ calm' \in BOOLEAN
    BY FaultType DEF CallFails
  <1>2. CASE Restart
    BY <1>1, <1>2, RestartType DEF Typed, TypeOK
  <1>3. CASE ~Restart
    <2>1. PICK d : d = [c EXCEPT !.pc = "failed"] /\ calls' = (calls \ {c}) \cup {d}
      BY <1>3 DEF CallFails
    <2>2. c \in Call
      BY DEF Typed, TypeOK
    <2>3. d \in Call
      BY <2>1, <2>2 DEF Call
    <2>4. UNCHANGED <<queue, work, req>>
      BY <1>3 DEF CallFails
    <2> QED  BY <1>1, <2>1, <2>3, <2>4 DEF Typed, TypeOK, WorkLocked
  <1> QED  BY <1>2, <1>3

LEMMA WorkFailsType ==
    ASSUME Typed, NEW i \in Ids, WorkFails(i)
    PROVE  Typed'
  <1>1. /\ UNCHANGED <<rows, calls, req, delivered, saves, now>>
        /\ faults' \in Nat /\ calm' \in BOOLEAN
    BY FaultType DEF WorkFails
  <1>2. work[i] # NoWork /\ work[i] \in Work /\ queue[i].state = "active"
    BY Kept DEF WorkFails, Typed, NoWork, WorkLocked
  <1>3. CASE work[i].pc = "sent"
    <2>1. work' = [work EXCEPT ![i].pc = "failed"] /\ UNCHANGED queue
      BY <1>3 DEF WorkFails
    <2>2. work[i].news \in News
      BY <1>2, <1>3 DEF Work
    <2>3. PICK w \in Work : work' = [work EXCEPT ![i] = w]
      BY <1>2, <2>1, <2>2, WorkSet
    <2> QED  BY <1>1, <1>2, <2>1, <2>3 DEF Typed, TypeOK, WorkLocked
  <1>4. CASE work[i].pc # "sent"
    <2>1. JobFails(i)
      BY <1>4 DEF WorkFails
    <2> QED  BY <1>1, <1>2, <2>1, JobFailsType DEF Typed, TypeOK
  <1> QED  BY <1>3, <1>4

LEMMA TypeStep == Typed /\ [Next]_vars => Typed'
  <1> SUFFICES ASSUME Typed, [Next]_vars PROVE Typed'
    OBVIOUS
  <1>1. CASE Arrival
    BY <1>1, CreateType, UpdateType, DeleteType DEF Arrival
  <1>2. ASSUME NEW r \in Requests, RequestStep(r)
        PROVE  Typed'
    BY <1>2, WriteType, RereadType, CancelType, DeleteStepType DEF RequestStep
  <1>3. ASSUME NEW c \in calls, CallStep(c)
        PROVE  Typed'
    BY <1>3, CallSendType, CallStatusType, CallAddType DEF CallStep
  <1>4. ASSUME NEW i \in Ids, JobStep(i)
        PROVE  Typed'
    BY <1>4, JobStartType, JobStepType DEF JobStep
  <1>5. CASE Tick
    BY <1>5 DEF Tick, serverVars, Typed, TypeOK, WorkLocked
  <1>6. CASE Crash
    <2>1. Restart /\ faults' = faults + 1 /\ calm' = FALSE /\ UNCHANGED <<rows, delivered, saves, now>>
      BY <1>6 DEF Crash, Fault
    <2>2. WorkLocked' /\ queue' \in [Ids -> Job \cup {NoJob}] /\ work' \in [Ids -> Work \cup {NoWork}]
          /\ calls' \subseteq Call
          /\ req' \in [Requests -> Updating \cup Canceling \cup Deleting \cup {Idle}]
      BY <2>1, RestartType
    <2>3. rows' \in [Ids -> News \cup {NoRow}] /\ delivered' \in Seq(Delivery)
          /\ saves' \in Nat /\ now' \in Nat
      BY <2>1 DEF Typed, TypeOK
    <2>4. faults' \in Nat
      BY <2>1 DEF Typed, TypeOK
    <2>5. calm' \in BOOLEAN
      BY <2>1
    <2> QED  BY <2>2, <2>3, <2>4, <2>5 DEF Typed, TypeOK
  <1>7. CASE UNCHANGED vars
    BY <1>7 DEF vars, serverVars, Typed, TypeOK, WorkLocked
  <1>8. ASSUME NEW r \in Requests, RequestFails(r)
        PROVE  Typed'
    BY <1>8, RequestFailsType
  <1>9. ASSUME NEW c \in calls, CallFails(c)
        PROVE  Typed'
    BY <1>9, CallFailsType
  <1>10. ASSUME NEW i \in Ids, WorkFails(i)
        PROVE  Typed'
    BY <1>10, WorkFailsType
  <1> QED  BY <1>1, <1>2, <1>3, <1>4, <1>5, <1>6, <1>7, <1>8, <1>9, <1>10 DEF Next

\* TypeCorrect: rows, jobs, work, callbacks and requests keep their shape, and the processor works
\* for locked jobs only, whatever meets, breaks off or restarts.
THEOREM TypeCorrect == Spec => []TypeOK
  <1>1. Typed => TypeOK
    BY DEF Typed
  <1> QED  BY <1>1, TypeInit, TypeStep, PTL DEF Spec

-----------------------------------------------------------------------------
(* Versions. *)

\* A step writes at most one row: it saves a new version, sets the status of the one there, or drops it.
LEMMA RowsGo ==
    ASSUME Typed, [Next]_vars
    PROVE  \/ UNCHANGED <<rows, saves>>
           \/ /\ saves' = saves
              /\ \E i \in Ids, row \in News : row.ver = rows[i].ver /\ rows' = [rows EXCEPT ![i] = row]
           \/ saves' = saves /\ \E i \in Ids : rows' = [rows EXCEPT ![i] = NoRow]
           \/ /\ saves' = saves + 1
              /\ \E i \in Ids, row \in News : row.ver = saves + 1 /\ rows' = [rows EXCEPT ![i] = row]
  <1>1. ASSUME NEW r \in Requests, NEW i \in Ids, NEW status \in {"DRAFT", "SENT"}, NEW mode \in Modes,
               NEW at \in Dates, NEW audience \in Audiences, NEW list \in BOOLEAN,
               CreateNewsletter(r, i, status, mode, at, audience, list)
        PROVE  /\ saves' = saves + 1
               /\ \E j \in Ids, row \in News : row.ver = saves + 1 /\ rows' = [rows EXCEPT ![j] = row]
    <2>1. PICK news : /\ news = [status |-> ResolveStatus(status, at, mode), mode |-> mode, at |-> at,
                                 audience |-> audience, ver |-> saves + 1]
                      /\ rows' = [rows EXCEPT ![i] = news]
      BY <1>1 DEF CreateNewsletter
    <2>2. news \in News
      BY <2>1, Resolved, DatesNat DEF News, Typed, TypeOK
    <2>3. saves' = saves + 1 /\ news.ver = saves + 1
      BY <1>1, <2>1 DEF CreateNewsletter
    <2> QED  BY <2>1, <2>2, <2>3
  <1>2. ASSUME NEW r \in Requests, UpdateWrite(r)
        PROVE  \/ UNCHANGED <<rows, saves>>
               \/ /\ saves' = saves + 1
                  /\ \E i \in Ids, row \in News : row.ver = saves + 1 /\ rows' = [rows EXCEPT ![i] = row]
    <2>1. req[r].id \in Ids /\ req[r].news \in Change
      BY <1>2, Kinds DEF UpdateWrite, Typed, Updating
    <2>2. CASE rows[req[r].id] = NoRow
      BY <1>2, <2>2 DEF UpdateWrite
    <2>3. CASE rows[req[r].id] # NoRow
      <3>1. PICK row : row = Updated(req[r].id, req[r].news) /\ rows' = [rows EXCEPT ![req[r].id] = row]
                       /\ saves' = saves + 1
        BY <1>2, <2>3 DEF UpdateWrite, Updated
      <3> QED  BY <2>1, <2>3, <3>1, UpdatedRow
    <2> QED  BY <2>2, <2>3
  <1>3. ASSUME NEW r \in Requests, DeleteRow(r)
        PROVE  saves' = saves /\ \E i \in Ids : rows' = [rows EXCEPT ![i] = NoRow]
    BY <1>3, Kinds DEF DeleteRow, Typed, Deleting
  <1>4. ASSUME NEW i \in Ids, rows[i] # NoRow, NEW status \in {"SENT", "FAILED"},
               rows' = [rows EXCEPT ![i].status = status]
        PROVE  \E j \in Ids, row \in News : row.ver = rows[j].ver /\ rows' = [rows EXCEPT ![j] = row]
    BY <1>4, StatusType DEF StatusSet
  <1>5. ASSUME NEW c \in calls, CallStatus(c)
        PROVE  /\ saves' = saves
               /\ \/ rows' = rows
                  \/ \E j \in Ids, row \in News : row.ver = rows[j].ver /\ rows' = [rows EXCEPT ![j] = row]
    <2>1. c.id \in Ids
      BY DEF Typed, TypeOK, Call
    <2> QED  BY <1>4, <1>5, <2>1 DEF CallStatus
  <1>6. ASSUME NEW i \in Ids, JobStatus(i)
        PROVE  /\ saves' = saves
               /\ \/ rows' = rows
                  \/ \E j \in Ids, row \in News : row.ver = rows[j].ver /\ rows' = [rows EXCEPT ![j] = row]
    BY <1>4, <1>6 DEF JobStatus
  <1>7. CASE Arrival
    BY <1>1, <1>7 DEF Arrival, UpdateNewsletter, DeleteNewLetter
  <1>8. CASE \E r \in Requests : RequestStep(r)
    BY <1>2, <1>3, <1>8 DEF RequestStep, UpdateReread, UpdateCancel, DeleteCancel
  <1>9. CASE \E c \in calls : CallStep(c)
    <2>1. PICK c \in calls : CallStep(c)
      BY <1>9
    <2>2. CallStatus(c) \/ UNCHANGED <<rows, saves>>
      BY <2>1 DEF CallStep, CallSend, CallAdd, CallNothing
    <2> QED  BY <1>5, <2>2
  <1>10. CASE \E i \in Ids : JobStep(i)
    <2>1. PICK i \in Ids : JobStep(i)
      BY <1>10
    <2>2. JobStatus(i) \/ UNCHANGED <<rows, saves>>
      BY <2>1 DEF JobStep, JobStart, JobFind, JobSend, JobCleanup
    <2> QED  BY <1>6, <2>2
  <1>11. CASE Tick \/ Crash \/ UNCHANGED vars
    BY <1>11 DEF Tick, Crash, vars
  <1>12. ASSUME NEW r \in Requests, RequestFails(r)
         PROVE  UNCHANGED <<rows, saves>>
    BY <1>12 DEF RequestFails
  <1>13. ASSUME NEW c \in calls, CallFails(c)
         PROVE  UNCHANGED <<rows, saves>>
    BY <1>13 DEF CallFails
  <1>14. ASSUME NEW i \in Ids, WorkFails(i)
         PROVE  UNCHANGED <<rows, saves>>
    BY <1>14 DEF WorkFails
  <1> QED  BY <1>7, <1>8, <1>9, <1>10, <1>11, <1>12, <1>13, <1>14 DEF Next

LEMMA VersionsStep ==
    ASSUME Typed, Versions, [Next]_vars
    PROVE  Versions'
  <1>1. NoRow.ver = 0 /\ saves \in Nat /\ \A i \in Ids : rows[i].ver \in Nat
    BY Kept DEF NoRow, Typed, TypeOK, News
  <1>2. \A row \in News : row # NoRow /\ row.ver # 0
    BY NewsNotNone DEF News
  <1>3. CASE UNCHANGED <<rows, saves>>
    BY <1>3 DEF Versions
  <1>4. ASSUME saves' = saves, NEW i \in Ids, NEW row \in News, row.ver = rows[i].ver,
               rows' = [rows EXCEPT ![i] = row]
        PROVE  Versions'
    <2>1. rows[i] # NoRow
      BY <1>1, <1>2, <1>4
    <2>2. \A j \in Ids : rows'[j] = IF j = i THEN row ELSE rows[j]
      BY <1>4 DEF Typed, TypeOK
    <2> QED  BY <1>4, <2>1, <2>2 DEF Versions
  <1>5. ASSUME saves' = saves, NEW i \in Ids, rows' = [rows EXCEPT ![i] = NoRow]
        PROVE  Versions'
    <2>1. \A j \in Ids : rows'[j] = IF j = i THEN NoRow ELSE rows[j]
      BY <1>5 DEF Typed, TypeOK
    <2>2. \A j \in Ids : rows[j] # NoRow => rows[j].ver # 0
      BY <1>2, Kept DEF Typed
    <2> QED  BY <1>1, <1>5, <2>1, <2>2 DEF Versions
  <1>6. ASSUME saves' = saves + 1, NEW i \in Ids, NEW row \in News, row.ver = saves + 1,
               rows' = [rows EXCEPT ![i] = row]
        PROVE  Versions'
    <2>1. \A j \in Ids : rows'[j] = IF j = i THEN row ELSE rows[j]
      BY <1>6 DEF Typed, TypeOK
    <2> QED  BY <1>1, <1>6, <2>1 DEF Versions
  <1> QED  BY <1>3, <1>4, <1>5, <1>6, RowsGo

-----------------------------------------------------------------------------
(* Calm steps. *)

Calm == Typed /\ Versions /\ CalmInv /\ calm

LEMMA NothingSent ==
    ASSUME Calm, UNCHANGED delivered, saves' \in {saves, saves + 1}
    PROVE  Log' /\ Sent' = Sent
  <1>1. Sent' = Sent
    BY DEF Sent
  <1>2. \A v \in Sent : v \in Nat /\ v <= saves
    <2>1. delivered \in Seq(Delivery)
      BY DEF Calm, Typed, TypeOK
    <2>2. \A n \in DOMAIN delivered : delivered[n] \in Delivery
      BY <2>1
    <2>3. \A n \in DOMAIN delivered : delivered[n].news.ver \in Nat
      BY <2>2 DEF Delivery, News
    <2> QED  BY <2>3 DEF Calm, CalmInv, Log, Sent
  <1>3. \A v \in Sent' : v <= saves'
    BY <1>1, <1>2 DEF Calm, Typed, TypeOK
  <1>4. DeliveredOnce' /\ SentAsPlanned'
    BY DEF Calm, CalmInv, Log, DeliveredOnce, SentAsPlanned
  <1> QED  BY <1>1, <1>3, <1>4 DEF Log

\* The version of row i is sent.
LEMMA OneSent ==
    ASSUME Calm, NEW i \in Ids, rows[i] # NoRow, rows[i].ver \notin Sent,
           rows[i].mode # "MANUAL", rows[i].at <= now,
           NEW d \in Delivery, d.news = rows[i], d.at = now,
           delivered' = Append(delivered, d), saves' = saves
    PROVE  Log' /\ Sent' = Sent \cup {rows[i].ver}
  <1>1. /\ delivered \in Seq(Delivery) /\ Len(delivered) \in Nat
        /\ DOMAIN delivered = 1 .. Len(delivered) /\ DOMAIN delivered' = 1 .. Len(delivered) + 1
        /\ \A n \in DOMAIN delivered : delivered'[n] = delivered[n]
        /\ delivered'[Len(delivered) + 1] = d
    BY DEF Calm, Typed, TypeOK
  <1>2. \A n \in DOMAIN delivered' : n \in DOMAIN delivered \/ n = Len(delivered) + 1
    BY <1>1
  <1>3. Sent' = Sent \cup {rows[i].ver}
    BY <1>1, <1>2 DEF Sent
  <1>4. \A v \in Sent' : v <= saves'
    BY <1>3 DEF Calm, CalmInv, Log, Versions
  <1>5. \A n \in DOMAIN delivered : delivered[n].news.ver # d.news.ver
    BY DEF Sent
  <1>6. DeliveredOnce'
    <2> SUFFICES ASSUME NEW m \in DOMAIN delivered', NEW n \in DOMAIN delivered',
                        delivered'[m].news.ver = delivered'[n].news.ver
                 PROVE  m = n
      BY DEF DeliveredOnce
    <2>1. CASE m \in DOMAIN delivered /\ n \in DOMAIN delivered
      BY <1>1, <2>1 DEF Calm, CalmInv, Log, DeliveredOnce
    <2>2. CASE m = Len(delivered) + 1 /\ n = Len(delivered) + 1
      BY <2>2
    <2>3. CASE m = Len(delivered) + 1 /\ n \in DOMAIN delivered
      BY <1>1, <1>5, <2>3
    <2>4. CASE m \in DOMAIN delivered /\ n = Len(delivered) + 1
      BY <1>1, <1>5, <2>4
    <2> QED  BY <1>2, <2>1, <2>2, <2>3, <2>4
  <1>7. SentAsPlanned'
    <2> SUFFICES ASSUME NEW n \in DOMAIN delivered'
                 PROVE  delivered'[n].news.mode # "MANUAL" /\ delivered'[n].at >= delivered'[n].news.at
      BY DEF SentAsPlanned
    <2>1. CASE n \in DOMAIN delivered
      BY <1>1, <2>1 DEF Calm, CalmInv, Log, SentAsPlanned
    <2>2. CASE n = Len(delivered) + 1
      <3>1. delivered'[n] = d /\ rows[i].at \in Nat /\ now \in Nat
        BY <1>1, <2>2, Kept DEF Calm, Typed, TypeOK, News
      <3> QED  BY <3>1
    <2> QED  BY <1>2, <2>1, <2>2
  <1> QED  BY <1>3, <1>4, <1>6, <1>7 DEF Log

LEMMA IdlePc == Idle.pc = "idle"
  BY DEF Idle

\* No job is due or worked off.
Still == \A i \in Ids : queue[i].state # "active" /\ work[i] = NoWork /\ ~Due(i)

LEMMA Undisturbing ==
    ASSUME Calm, Undisturbed
    PROVE  /\ Still /\ calls = {} /\ \A r \in Requests : req[r] = Idle /\ req[r].pc = "idle"
           /\ \A i \in Ids : InSync(i)
  <1>0. calls = {} /\ \A r \in Requests : req[r] = Idle
    BY DEF Undisturbed
  <1>1. Still /\ calls = {} /\ \A r \in Requests : req[r] = Idle /\ req[r].pc = "idle"
    BY <1>0, IdlePc DEF Undisturbed, Due, Still, Calm, Typed, WorkLocked
  <1> QED  BY <1>1 DEF Calm, CalmInv, Between

LEMMA OneAsking ==
    ASSUME Calm, NEW r \in Requests, req[r].pc # "idle"
    PROVE  /\ Still /\ calls = {} /\ \A s \in Requests : s # r => req[s] = Idle /\ req[s].pc = "idle"
           /\ RequestKnows(req[r])
           /\ \A i \in Ids : InSync(i) \/ (i = req[r].id /\ req[r].pc \in {"reread", "cancel", "deleteRow"})
  <1>1. req[r] # Idle /\ ~Settled
    BY IdlePc DEF Settled
  <1>2. Still
    BY <1>1 DEF Due, Still, Calm, CalmInv, Alone, Typed, WorkLocked
  <1>3. calls = {} /\ \A s \in Requests : s # r => req[s] = Idle /\ req[s].pc = "idle"
    BY <1>1, IdlePc DEF Calm, CalmInv, Alone
  <1> QED  BY <1>2, <1>3 DEF Calm, CalmInv, Between

LEMMA OneCalling ==
    ASSUME Calm, NEW c \in calls
    PROVE  /\ Still /\ calls = {c} /\ \A s \in Requests : req[s] = Idle /\ req[s].pc = "idle"
           /\ c \in Call /\ c.id \in Ids /\ c.news \in News
           /\ CallKnows(c) /\ rows[c.id] \in News
           /\ \A i \in Ids : InSync(i) \/ (i = c.id /\ c.pc = "begin")
  <1>1. ~Settled
    BY DEF Settled
  <1>2. Still
    BY <1>1 DEF Due, Still, Calm, CalmInv, Alone, Typed, WorkLocked
  <1>3. calls = {c} /\ \A s \in Requests : req[s] = Idle /\ req[s].pc = "idle"
    BY IdlePc DEF Calm, CalmInv, Alone
  <1>4. c \in Call /\ c.id \in Ids /\ c.news \in News
    BY DEF Calm, Typed, TypeOK, Call
  <1>5. CallKnows(c) /\ rows[c.id] \in News
    BY <1>4, Kept DEF Calm, CalmInv, CallKnows, Typed
  <1> QED  BY <1>2, <1>3, <1>4, <1>5 DEF Calm, CalmInv, Between

\* A step of a request or a callback after which one request q or one callback is under way, or none,
\* about id: every other id is as it was.
LEMMA StepsOn ==
    ASSUME Calm, Still, NEW id \in Ids, NEW r \in Requests,
           UNCHANGED <<work, now, delivered>>, saves' \in {saves, saves + 1},
           \A i \in Ids : i # id => InSync(i) /\ rows'[i] = rows[i] /\ queue'[i] = queue[i],
           queue'[id] \in {queue[id], NoJob},
           \A s \in Requests : s # r => req'[s] = Idle,
           req'[r] # Idle => calls' = {},
           \A c, d \in calls' : c = d,
           InSync(id)' \/ Between(id)',
           queue'[id].state = "delayed" => rows'[id].ver \notin Sent,
           RequestKnows(req[r])',
           \A c \in calls' : CallKnows(c)'
    PROVE  CalmInv'
  <1>1. Log' /\ Sent' = Sent
    BY NothingSent
  <1>2. Still'
    BY DEF Still, Due, NoJob
  <1>3. Alone'
    BY <1>2 DEF Alone, Still
  <1>4. \A i \in Ids : InSync(i)' \/ Between(i)'
    BY DEF InSync
  <1>5. \A i \in Ids : WorkKnows(i)' /\ Unsent(i)'
    BY <1>1, <1>2 DEF Still, WorkKnows, Unsent, NoWork, Calm, CalmInv
  <1>6. \A s \in Requests : RequestKnows(req[s])'
    BY IdlePc DEF RequestKnows
  <1> QED  BY <1>1, <1>3, <1>4, <1>5, <1>6 DEF CalmInv

LEMMA CreateCalm ==
    ASSUME Calm, NEW r \in Requests, NEW i \in Ids, NEW status \in {"DRAFT", "SENT"}, NEW mode \in Modes,
           NEW at \in Dates, NEW audience \in Audiences, NEW list \in BOOLEAN,
           CreateNewsletter(r, i, status, mode, at, audience, list), Undisturbed
    PROVE  CalmInv'
  <1>1. /\ Still /\ calls = {} /\ \A s \in Requests : req[s] = Idle /\ req[s].pc = "idle"
        /\ \A j \in Ids : InSync(j)
    BY Undisturbing
  <1>2. PICK news, c :
          /\ news = [status |-> ResolveStatus(status, at, mode), mode |-> mode, at |-> at,
                     audience |-> audience, ver |-> saves + 1]
          /\ c = [pc |-> "begin", id |-> i, news |-> news, list |-> list, by |-> r]
          /\ rows' = [rows EXCEPT ![i] = news] /\ calls' = {c}
    BY <1>1 DEF CreateNewsletter, HandlePostSave
  <1>3. /\ rows[i] = NoRow /\ saves' = saves + 1
        /\ UNCHANGED <<queue, work, req, delivered, now>>
        /\ StatusConstraints(news.status, news.mode, news.at)
    BY <1>2 DEF CreateNewsletter
  <1>4. \A j \in Ids : rows'[j] = IF j = i THEN news ELSE rows[j]
    BY <1>2 DEF Calm, Typed, TypeOK
  <1>5. news.ver = saves + 1 /\ news # NoRow
    BY <1>2 DEF NoRow, Calm, Typed, TypeOK
  <1>6. queue[i] = NoJob
    BY <1>1, <1>3 DEF InSync
  <1>7. news.ver \notin Sent
    BY <1>5 DEF Calm, CalmInv, Log, Typed, TypeOK
  <1>8. c.id = i /\ c.pc = "begin" /\ c.news = news
    BY <1>2
  <1>9. Sent' = Sent
    BY <1>3 DEF Sent
  <1>10. CallKnows(c)'
    BY <1>3, <1>4, <1>5, <1>6, <1>7, <1>8, <1>9 DEF CallKnows, Fresh
  <1>11. Between(i)'
    BY <1>2, <1>8 DEF Between
  <1>12. RequestKnows(req[r])'
    BY <1>1, <1>3 DEF RequestKnows
  <1> QED  BY <1>1, <1>2, <1>3, <1>4, <1>6, <1>10, <1>11, <1>12, StepsOn DEF NoJob

LEMMA UpdateCalm ==
    ASSUME Calm, NEW r \in Requests, NEW i \in Ids, NEW status \in {"DRAFT", "SENT"},
           NEW mode \in Modes \cup {"none"}, NEW at \in Dates, NEW audience \in Audiences \cup {"none"},
           NEW list \in BOOLEAN, UpdateNewsletter(r, i, status, mode, at, audience, list), Undisturbed
    PROVE  CalmInv'
  <1>1. /\ Still /\ calls = {} /\ \A s \in Requests : req[s] = Idle /\ req[s].pc = "idle"
        /\ \A j \in Ids : InSync(j)
    BY Undisturbing
  <1> DEFINE merged == IF mode = "none" THEN rows[i].mode ELSE mode
             date == IF mode \in {"none", "SCHEDULED"} THEN at ELSE 0
             news == [status |-> ResolveStatus(status, at, merged), mode |-> mode, at |-> date,
                      audience |-> audience, ver |-> 0]
             q == [pc |-> "write", id |-> i, list |-> list, news |-> news]
  <1>2. /\ rows[i] # NoRow /\ StatusConstraints(news.status, merged, news.at)
        /\ req' = [req EXCEPT ![r] = q]
        /\ UNCHANGED <<rows, queue, work, calls, delivered, saves, now>>
    BY DEF UpdateNewsletter
  <1>3. news.mode = mode
    OBVIOUS
  <1> HIDE DEF news
  <1>4. q.pc = "write" /\ q.id = i /\ q.news = news
    OBVIOUS
  <1> HIDE DEF q
  <1>5. req'[r] = q /\ \A s \in Requests : s # r => req'[s] = Idle
    BY <1>1, <1>2 DEF Calm, Typed, TypeOK
  <1>6. RequestKnows(req[r])'
    BY <1>2, <1>3, <1>4, <1>5 DEF RequestKnows
  <1>7. InSync(i)'
    BY <1>1, <1>2 DEF InSync
  <1>8. queue[i].state = "delayed" => rows[i].ver \notin Sent
    BY DEF Calm, CalmInv, Unsent
  <1> QED  BY <1>1, <1>2, <1>5, <1>6, <1>7, <1>8, StepsOn

LEMMA DeleteCalm ==
    ASSUME Calm, NEW r \in Requests, NEW i \in Ids, DeleteNewLetter(r, i), Undisturbed
    PROVE  CalmInv'
  <1>1. /\ Still /\ calls = {} /\ \A s \in Requests : req[s] = Idle /\ req[s].pc = "idle"
        /\ \A j \in Ids : InSync(j)
    BY Undisturbing
  <1>2. PICK q : q = [Idle EXCEPT !.pc = "deleteCancel", !.id = i] /\ req' = [req EXCEPT ![r] = q]
    BY DEF DeleteNewLetter
  <1>3. q.pc = "deleteCancel"
    BY <1>2 DEF Idle
  <1>4. UNCHANGED <<rows, queue, work, calls, delivered, saves, now>>
    BY DEF DeleteNewLetter
  <1>5. req'[r] = q /\ \A s \in Requests : s # r => req'[s] = Idle
    BY <1>1, <1>2 DEF Calm, Typed, TypeOK
  <1>6. RequestKnows(req[r])'
    BY <1>3, <1>5 DEF RequestKnows
  <1>7. InSync(i)'
    BY <1>1, <1>4 DEF InSync
  <1>8. queue[i].state = "delayed" => rows[i].ver \notin Sent
    BY DEF Calm, CalmInv, Unsent
  <1> QED  BY <1>1, <1>4, <1>5, <1>6, <1>7, <1>8, StepsOn

LEMMA WriteCalm ==
    ASSUME Calm, NEW r \in Requests, UpdateWrite(r)
    PROVE  CalmInv'
  <1>1. req[r] \in Updating /\ req[r].pc = "write"
    BY Kinds DEF UpdateWrite, Calm, Typed
  <1>2. PICK id : id = req[r].id
    OBVIOUS
  <1>3. id \in Ids /\ req[r].news \in Change
    BY <1>1, <1>2 DEF Updating
  <1>4. /\ Still /\ calls = {} /\ \A s \in Requests : s # r => req[s] = Idle /\ req[s].pc = "idle"
        /\ RequestKnows(req[r]) /\ \A i \in Ids : InSync(i)
    BY <1>1, OneAsking
  <1>5. rows[id] # NoRow
    BY <1>1, <1>2, <1>4 DEF RequestKnows
  <1>6. PICK row, q : /\ row = Updated(id, req[r].news) /\ rows' = [rows EXCEPT ![id] = row]
                      /\ q = [req[r] EXCEPT !.pc = "reread"] /\ req' = [req EXCEPT ![r] = q]
                      /\ saves' = saves + 1
    BY <1>2, <1>5 DEF UpdateWrite, Updated
  <1>7. UNCHANGED <<queue, work, calls, delivered, now>>
    BY DEF UpdateWrite
  <1>8. row \in News /\ row.ver = saves + 1 /\ StatusConstraints(row.status, row.mode, row.at)
    <2>1. /\ row \in News /\ row.ver = saves + 1
          /\ row.status = req[r].news.status /\ row.at = req[r].news.at
          /\ row.mode = IF req[r].news.mode = "none" THEN rows[id].mode ELSE req[r].news.mode
      BY <1>3, <1>5, <1>6, UpdatedRow DEF Calm
    <2> QED  BY <1>1, <1>2, <1>4, <2>1 DEF RequestKnows
  <1>9. row # NoRow /\ row.ver \notin Sent
    BY <1>8, NewsNotNone DEF Calm, CalmInv, Log, Typed, TypeOK
  <1>10. q.pc = "reread" /\ q.id = id
    BY <1>1, <1>2, <1>6 DEF Updating
  <1>11. req'[r] = q /\ \A s \in Requests : s # r => req'[s] = Idle
    BY <1>4, <1>6 DEF Calm, Typed, TypeOK
  <1>12. \A i \in Ids : rows'[i] = IF i = id THEN row ELSE rows[i]
    BY <1>6 DEF Calm, Typed, TypeOK
  <1>13. Sent' = Sent
    BY <1>7 DEF Sent
  <1>14. RequestKnows(req[r])'
    BY <1>3, <1>8, <1>9, <1>10, <1>11, <1>12, <1>13 DEF RequestKnows, Fresh
  <1>15. Between(id)'
    BY <1>10, <1>11 DEF Between
  <1> QED  BY <1>3, <1>4, <1>6, <1>7, <1>9, <1>11, <1>12, <1>14, <1>15, StepsOn

LEMMA RereadCalm ==
    ASSUME Calm, NEW r \in Requests, UpdateReread(r)
    PROVE  CalmInv'
  <1>1. req[r] \in Updating /\ req[r].pc = "reread"
    BY Kinds DEF UpdateReread, Calm, Typed
  <1>2. PICK id : id = req[r].id /\ id \in Ids
    BY <1>1 DEF Updating
  <1>3. /\ Still /\ calls = {} /\ \A s \in Requests : s # r => req[s] = Idle /\ req[s].pc = "idle"
        /\ RequestKnows(req[r]) /\ \A i \in Ids : i # id => InSync(i)
    BY <1>1, <1>2, OneAsking
  <1>4. rows[id] # NoRow /\ Fresh(rows[id])
    BY <1>1, <1>2, <1>3 DEF RequestKnows
  <1>5. PICK q : q = [[req[r] EXCEPT !.pc = "cancel"] EXCEPT !.news = rows[id]] /\ req' = [req EXCEPT ![r] = q]
    BY <1>1, <1>2, <1>4 DEF UpdateReread, Calm, Typed, TypeOK
  <1>6. UNCHANGED <<rows, queue, work, calls, delivered, saves, now>>
    BY DEF UpdateReread
  <1>7. q.pc = "cancel" /\ q.id = id /\ q.news = rows[id]
    BY <1>1, <1>2, <1>5 DEF Updating
  <1>8. req'[r] = q /\ \A s \in Requests : s # r => req'[s] = Idle
    BY <1>3, <1>5 DEF Calm, Typed, TypeOK
  <1>9. Sent' = Sent
    BY <1>6 DEF Sent
  <1>10. RequestKnows(req[r])'
    BY <1>4, <1>6, <1>7, <1>8, <1>9 DEF RequestKnows, Fresh
  <1>11. Between(id)'
    BY <1>7, <1>8 DEF Between
  <1>12. rows[id].ver \notin Sent
    BY <1>4 DEF Fresh
  <1> QED  BY <1>2, <1>3, <1>6, <1>8, <1>10, <1>11, <1>12, StepsOn

LEMMA CancelCalm ==
    ASSUME Calm, NEW r \in Requests, UpdateCancel(r)
    PROVE  CalmInv'
  <1>1. req[r] \in Canceling /\ req[r].pc = "cancel"
    BY Kinds DEF UpdateCancel, Calm, Typed
  <1>2. PICK id : id = req[r].id /\ id \in Ids
    BY <1>1 DEF Canceling
  <1>3. /\ Still /\ calls = {} /\ \A s \in Requests : s # r => req[s] = Idle /\ req[s].pc = "idle"
        /\ RequestKnows(req[r]) /\ \A i \in Ids : i # id => InSync(i)
    BY <1>1, <1>2, OneAsking
  <1>4. rows[id] = req[r].news /\ Fresh(rows[id]) /\ rows[id] # NoRow
    BY <1>1, <1>2, <1>3, NewsNotNone DEF RequestKnows, Canceling
  <1>5. PICK c : c = [pc |-> "begin", id |-> id, news |-> req[r].news, list |-> req[r].list, by |-> r]
    OBVIOUS
  <1>6. /\ queue' = [queue EXCEPT ![id] = NoJob] /\ calls' = {c}
        /\ req' = [req EXCEPT ![r] = Idle]
        /\ UNCHANGED <<rows, work, delivered, saves, now>>
    BY <1>2, <1>3, <1>5 DEF UpdateCancel, Removable, Still, HandlePostSave, Respond
  <1>7. c.pc = "begin" /\ c.id = id /\ c.news = rows[id]
    BY <1>4, <1>5
  <1>8. req'[r] = Idle /\ \A s \in Requests : s # r => req'[s] = Idle
    BY <1>3, <1>6 DEF Calm, Typed, TypeOK
  <1>9. \A i \in Ids : queue'[i] = IF i = id THEN NoJob ELSE queue[i]
    BY <1>6 DEF Calm, Typed, TypeOK
  <1>10. Sent' = Sent
    BY <1>6 DEF Sent
  <1>11. CallKnows(c)'
    BY <1>2, <1>4, <1>6, <1>7, <1>9, <1>10 DEF CallKnows, Fresh
  <1>12. Between(id)'
    BY <1>6, <1>7 DEF Between
  <1>13. RequestKnows(req[r])'
    BY <1>8, IdlePc DEF RequestKnows
  <1>14. rows[id].ver \notin Sent
    BY <1>4 DEF Fresh
  <1> QED  BY <1>2, <1>3, <1>6, <1>8, <1>9, <1>11, <1>12, <1>13, <1>14, StepsOn

LEMMA DeleteCancelCalm ==
    ASSUME Calm, NEW r \in Requests, DeleteCancel(r)
    PROVE  CalmInv'
  <1>1. req[r] \in Deleting /\ req[r].pc = "deleteCancel"
    BY Kinds DEF DeleteCancel, Calm, Typed
  <1>2. PICK id : id = req[r].id /\ id \in Ids
    BY <1>1 DEF Deleting
  <1>3. /\ Still /\ calls = {} /\ \A s \in Requests : s # r => req[s] = Idle /\ req[s].pc = "idle"
        /\ \A i \in Ids : InSync(i)
    BY <1>1, OneAsking
  <1>4. PICK q : /\ q = [req[r] EXCEPT !.pc = "deleteRow"] /\ req' = [req EXCEPT ![r] = q]
                 /\ queue' = [queue EXCEPT ![id] = NoJob]
    BY <1>2, <1>3 DEF DeleteCancel, Removable, Still
  <1>5. UNCHANGED <<rows, work, calls, delivered, saves, now>>
    BY DEF DeleteCancel
  <1>6. q.pc = "deleteRow" /\ q.id = id
    BY <1>1, <1>2, <1>4 DEF Deleting
  <1>7. req'[r] = q /\ \A s \in Requests : s # r => req'[s] = Idle
    BY <1>3, <1>4 DEF Calm, Typed, TypeOK
  <1>8. \A i \in Ids : queue'[i] = IF i = id THEN NoJob ELSE queue[i]
    BY <1>4 DEF Calm, Typed, TypeOK
  <1>9. RequestKnows(req[r])'
    BY <1>2, <1>6, <1>7, <1>8 DEF RequestKnows
  <1>10. Between(id)'
    BY <1>6, <1>7 DEF Between
  <1>11. queue'[id].state # "delayed"
    BY <1>2, <1>8 DEF NoJob
  <1> QED  BY <1>2, <1>3, <1>5, <1>7, <1>8, <1>9, <1>10, <1>11, StepsOn

LEMMA DeleteRowCalm ==
    ASSUME Calm, NEW r \in Requests, DeleteRow(r)
    PROVE  CalmInv'
  <1>1. req[r] \in Deleting /\ req[r].pc = "deleteRow"
    BY Kinds DEF DeleteRow, Calm, Typed
  <1>2. PICK id : id = req[r].id /\ id \in Ids
    BY <1>1 DEF Deleting
  <1>3. /\ Still /\ calls = {} /\ \A s \in Requests : s # r => req[s] = Idle /\ req[s].pc = "idle"
        /\ RequestKnows(req[r]) /\ \A i \in Ids : i # id => InSync(i)
    BY <1>1, <1>2, OneAsking
  <1>4. queue[id] = NoJob
    BY <1>1, <1>2, <1>3 DEF RequestKnows
  <1>5. /\ rows' = [rows EXCEPT ![id] = NoRow] /\ req' = [req EXCEPT ![r] = Idle]
        /\ UNCHANGED <<queue, work, calls, delivered, saves, now>>
    BY <1>2 DEF DeleteRow, Respond
  <1>6. req'[r] = Idle /\ \A s \in Requests : s # r => req'[s] = Idle
    BY <1>3, <1>5 DEF Calm, Typed, TypeOK
  <1>7. \A i \in Ids : rows'[i] = IF i = id THEN NoRow ELSE rows[i]
    BY <1>5 DEF Calm, Typed, TypeOK
  <1>8. InSync(id)'
    BY <1>2, <1>4, <1>5, <1>7 DEF InSync, NoJob, NoRow
  <1>9. RequestKnows(req[r])'
    BY <1>6, IdlePc DEF RequestKnows
  <1>10. queue'[id].state # "delayed"
    BY <1>4, <1>5 DEF NoJob
  <1> QED  BY <1>2, <1>3, <1>5, <1>6, <1>7, <1>8, <1>9, <1>10, StepsOn

\* A step of the one callback c after which it is under way, or none.
LEMMA CallsOn ==
    ASSUME Calm, NEW c \in calls, now' = now,
           \A s \in Requests : req'[s] = Idle,
           \A d, e \in calls' : d = e,
           \A d \in calls' : CallKnows(d)',
           \A i \in Ids : i # c.id => rows'[i] = rows[i] /\ queue'[i] = queue[i],
           InSync(c.id)', Still', Log',
           \A i \in Ids : queue'[i].state = "delayed" => rows'[i].ver \notin Sent'
    PROVE  CalmInv'
  <1>1. Alone'
    BY DEF Alone, Still
  <1>2. \A i \in Ids : InSync(i)'
    BY OneCalling DEF InSync
  <1>3. \A i \in Ids : WorkKnows(i)' /\ Unsent(i)'
    BY DEF Still, WorkKnows, Unsent, NoWork
  <1>4. \A s \in Requests : RequestKnows(req[s])'
    BY IdlePc DEF RequestKnows
  <1> QED  BY <1>1, <1>2, <1>3, <1>4 DEF CalmInv

\* What validation lets through, mode by mode.
LEMMA Constrained ==
    ASSUME Calm, NEW i \in Ids, rows[i] \in News, Fresh(rows[i])
    PROVE  /\ rows[i].mode = "IMMEDIATE" => rows[i].at = 0
           /\ rows[i].mode # "SCHEDULED" => rows[i].status # "SCHEDULED"
           /\ rows[i].mode = "SCHEDULED" /\ rows[i].at > now => rows[i].status = "SCHEDULED"
  <1>1. rows[i].at \in Nat /\ now \in Nat /\ rows[i].status \in Statuses
    BY DEF Calm, Typed, TypeOK, News
  <1>2. StatusConstraints(rows[i].status, rows[i].mode, rows[i].at)
    BY DEF Fresh
  <1> QED  BY <1>1, <1>2 DEF StatusConstraints, Statuses

\* Sending the row of i leaves every other row that waits unsent.
LEMMA OthersUnsent ==
    ASSUME Calm, NEW i \in Ids, rows[i] # NoRow, rows' = rows,
           Sent' \subseteq Sent \cup {rows[i].ver},
           NEW j \in Ids, j # i, queue[j] # NoJob => InSync(j),
           queue[j].state = "delayed" \/ work[j].pc \in {"find", "send"}
    PROVE  rows'[j].ver \notin Sent'
  <1>1. queue[j] # NoJob
    BY DEF Calm, Typed, WorkLocked, NoJob, NoWork
  <1>2. rows[j] # NoRow
    BY <1>1 DEF InSync
  <1>3. rows[j].ver \notin Sent
    BY DEF Calm, CalmInv, Unsent
  <1> QED  BY <1>2, <1>3 DEF Calm, Versions

LEMMA CallSendCalm ==
    ASSUME Calm, NEW c \in calls, CallSend(c)
    PROVE  CalmInv'
  <1>1. /\ Still /\ calls = {c} /\ \A s \in Requests : req[s] = Idle
        /\ c \in Call /\ c.id \in Ids /\ CallKnows(c) /\ rows[c.id] \in News
        /\ \A i \in Ids : i # c.id => InSync(i)
    BY OneCalling
  <1>2. c.pc = "begin" /\ c.news.mode = "IMMEDIATE" /\ UNCHANGED <<rows, queue, work, req, saves, now>>
    BY DEF CallSend
  <1>3. queue[c.id] = NoJob /\ rows[c.id] # NoRow /\ rows[c.id] = c.news /\ Fresh(rows[c.id])
    BY <1>1, <1>2 DEF CallKnows
  <1>4. PICK outcome \in {"sent", "nobody", "failed"} :
          /\ SendNewsLetter(c.id, c.news, c.list, outcome)
          /\ calls' = (calls \ {c}) \cup IF outcome = "nobody" THEN {} ELSE {[c EXCEPT !.pc = outcome]}
    BY DEF CallSend
  <1>5. PICK d : d = [c EXCEPT !.pc = outcome]
    OBVIOUS
  <1>6. calls' \subseteq {d} /\ d.id = c.id /\ d.pc # "begin"
    BY <1>1, <1>4, <1>5 DEF Call
  <1>7. CallKnows(d)'
    BY <1>2, <1>3, <1>6 DEF CallKnows
  <1>8. /\ rows[c.id].at = 0 /\ rows[c.id].status # "SCHEDULED" /\ rows[c.id].mode # "MANUAL"
        /\ rows[c.id].at <= now
    BY <1>1, <1>2, <1>3, Constrained DEF Calm, Typed, TypeOK
  <1>9. InSync(c.id)'
    BY <1>2, <1>3, <1>8 DEF InSync, NoJob
  <1>10. Log' /\ Sent' \subseteq Sent \cup {rows[c.id].ver}
    <2>1. CASE UNCHANGED delivered
      BY <1>2, <2>1, NothingSent
    <2>2. CASE \E e \in Delivery : e.news = c.news /\ e.at = now /\ delivered' = Append(delivered, e)
      BY <1>1, <1>2, <1>3, <1>8, <2>2, OneSent DEF Fresh
    <2> QED  BY <1>1, <1>3, <1>4, <2>1, <2>2, SendGoes DEF Calm, Typed
  <1>11. Still'
    BY <1>1, <1>2 DEF Still, Due
  <1>12. \A i \in Ids : queue'[i].state = "delayed" => rows'[i].ver \notin Sent'
    BY <1>1, <1>2, <1>3, <1>10, OthersUnsent DEF NoJob
  <1> QED  BY <1>1, <1>2, <1>6, <1>7, <1>9, <1>10, <1>11, <1>12, CallsOn

LEMMA CallStatusCalm ==
    ASSUME Calm, NEW c \in calls, CallStatus(c)
    PROVE  CalmInv'
  <1>1. /\ Still /\ calls = {c} /\ \A s \in Requests : req[s] = Idle
        /\ c.id \in Ids /\ CallKnows(c) /\ rows[c.id] \in News
        /\ \A i \in Ids : i # c.id => InSync(i)
    BY OneCalling
  <1>2. queue[c.id] = NoJob /\ rows[c.id] # NoRow
    BY <1>1 DEF CallKnows
  <1>3. PICK row, status : status \in {"SENT", "FAILED"} /\ StatusSet(c.id, row, status)
    BY <1>1, <1>2, StatusType DEF CallStatus, Calm
  <1>4. UNCHANGED <<delivered, saves, now>>
    BY DEF CallStatus
  <1>5. /\ calls' = {} /\ \A s \in Requests : req'[s] = Idle
        /\ \A i \in Ids : queue'[i] = queue[i] /\ work'[i] = NoWork
    <2>1. CASE Restart
      BY <1>1, <2>1 DEF Restart, Still
    <2>2. CASE calls' = calls \ {c} /\ UNCHANGED <<queue, work, req>>
      BY <1>1, <2>2 DEF Still
    <2> QED  BY <1>2, <2>1, <2>2 DEF CallStatus
  <1>6. \A i \in Ids : rows'[i] = IF i = c.id THEN row ELSE rows[i]
    BY <1>3 DEF StatusSet, Calm, Typed, TypeOK
  <1>7. row.status # "SCHEDULED"
    BY <1>3 DEF StatusSet
  <1>8. InSync(c.id)'
    BY <1>1, <1>2, <1>5, <1>6, <1>7 DEF InSync, NoJob
  <1>9. Log' /\ Sent' = Sent
    BY <1>4, NothingSent
  <1>10. Still'
    BY <1>1, <1>4, <1>5 DEF Still, Due
  <1>11. \A i \in Ids : queue'[i].state = "delayed" => rows'[i].ver \notin Sent'
    BY <1>2, <1>5, <1>6, <1>9 DEF Calm, CalmInv, Unsent, NoJob
  <1> QED  BY <1>1, <1>4, <1>5, <1>6, <1>8, <1>9, <1>10, <1>11, CallsOn

LEMMA CallAddCalm ==
    ASSUME Calm, NEW c \in calls, CallAdd(c) \/ CallNothing(c)
    PROVE  CalmInv'
  <1>1. /\ Still /\ calls = {c} /\ \A s \in Requests : req[s] = Idle
        /\ c.id \in Ids /\ CallKnows(c) /\ rows[c.id] \in News
        /\ \A i \in Ids : i # c.id => InSync(i)
    BY OneCalling
  <1>2. c.pc = "begin" /\ UNCHANGED <<rows, work, req, delivered, saves, now>> /\ calls' = {}
    BY <1>1 DEF CallAdd, CallNothing
  <1>3. queue[c.id] = NoJob /\ rows[c.id] # NoRow /\ rows[c.id] = c.news /\ Fresh(rows[c.id])
    BY <1>1, <1>2 DEF CallKnows
  <1>4. PICK job : job = [state |-> "delayed", due |-> c.news.at, list |-> FALSE, stalled |-> FALSE]
    OBVIOUS
  <1>5. job.state = "delayed" /\ job.due = rows[c.id].at
    BY <1>3, <1>4
  <1>6. \/ /\ rows[c.id].mode = "SCHEDULED" /\ rows[c.id].at > now
           /\ queue' = [queue EXCEPT ![c.id] = job]
        \/ /\ rows[c.id].mode = "SCHEDULED" => ~(rows[c.id].at > now)
           /\ queue' = queue
    BY <1>3, <1>4 DEF CallAdd, CallNothing
  <1>7. Log' /\ Sent' = Sent
    BY <1>2, NothingSent
  <1>8. rows[c.id].at \in Nat /\ now \in Nat
    BY <1>1 DEF Calm, Typed, TypeOK, News
  <1>9. /\ \A i \in Ids : i # c.id => queue'[i] = queue[i]
        /\ queue'[c.id] = NoJob \/ (/\ queue'[c.id] = job /\ rows[c.id].at > now
                                    /\ rows[c.id].mode = "SCHEDULED")
    BY <1>1, <1>3, <1>6 DEF Calm, Typed, TypeOK
  <1>10. Still'
    BY <1>1, <1>2, <1>5, <1>8, <1>9 DEF Still, Due, NoJob
  <1>11. \A i \in Ids : queue'[i].state = "delayed" => rows'[i].ver \notin Sent'
    BY <1>2, <1>3, <1>7, <1>9 DEF Calm, CalmInv, Unsent, Fresh
  <1>12. InSync(c.id)'
    <2>1. CASE queue'[c.id] = NoJob
      <3>1. ~(rows[c.id].status = "SCHEDULED" /\ rows[c.id].at > now)
        BY <1>1, <1>3, <1>5, <1>6, <2>1, Constrained DEF Calm, Typed, TypeOK, NoJob
      <3> QED  BY <1>2, <2>1, <3>1 DEF InSync, NoJob
    <2>2. CASE queue'[c.id] = job /\ rows[c.id].at > now /\ rows[c.id].mode = "SCHEDULED"
      <3>1. rows[c.id].status = "SCHEDULED"
        BY <1>1, <1>3, <2>2, Constrained
      <3> QED  BY <1>2, <1>3, <1>5, <2>2, <3>1 DEF InSync
    <2> QED  BY <1>9, <2>1, <2>2
  <1> QED  BY <1>1, <1>2, <1>7, <1>9, <1>10, <1>11, <1>12, CallsOn

\* A step for the job of i, which nothing else is beside.
LEMMA JobsOn ==
    ASSUME Calm, NEW i \in Ids, Due(i), UNCHANGED <<calls, req, now>>,
           \A j \in Ids : j # i => /\ rows'[j] = rows[j] /\ queue'[j] = queue[j] /\ work'[j] = work[j],
           InSync(i)', WorkKnows(i)', Log', Unsent(i)',
           \A j \in Ids : j # i /\ (queue[j].state = "delayed" \/ work[j].pc \in {"find", "send"}) =>
               rows'[j].ver \notin Sent'
    PROVE  CalmInv'
  <1>1. calls = {} /\ \A r \in Requests : req[r] = Idle
    BY DEF Calm, CalmInv, Alone, Settled
  <1>2. \A j \in Ids : InSync(j)
    BY <1>1, IdlePc DEF Calm, CalmInv, Between
  <1>3. Alone'
    BY <1>1 DEF Alone, Settled
  <1>4. \A j \in Ids : InSync(j)'
    BY <1>2 DEF InSync
  <1>5. \A j \in Ids : WorkKnows(j)'
    BY DEF WorkKnows, Calm, CalmInv
  <1>6. \A j \in Ids : Unsent(j)'
    BY DEF Unsent
  <1>7. \A r \in Requests : RequestKnows(req[r])'
    BY <1>1, IdlePc DEF RequestKnows
  <1>8. \A c \in calls' : CallKnows(c)'
    BY <1>1
  <1> QED  BY <1>3, <1>4, <1>5, <1>6, <1>7, <1>8 DEF CalmInv

\* The job that is worked off is due, and its row is there as it was scheduled.
LEMMA Working ==
    ASSUME Calm, NEW i \in Ids, Due(i)
    PROVE  /\ queue[i] # NoJob /\ rows[i] # NoRow /\ rows[i] \in News /\ InSync(i)
           /\ queue[i].due <= now /\ rows[i].mode = "SCHEDULED" /\ rows[i].at = queue[i].due
           /\ \A j \in Ids : InSync(j)
  <1>1. calls = {} /\ \A r \in Requests : req[r] = Idle
    BY DEF Calm, CalmInv, Alone, Settled
  <1>2. \A j \in Ids : InSync(j)
    BY <1>1, IdlePc DEF Calm, CalmInv, Between
  <1>3. queue[i] # NoJob /\ queue[i].state \in {"delayed", "active"}
    BY DEF Due, NoJob
  <1>4. rows[i] # NoRow /\ queue[i].due <= now /\ rows[i].mode = "SCHEDULED" /\ rows[i].at = queue[i].due
    BY <1>2, <1>3 DEF InSync, Due
  <1> QED  BY <1>2, <1>3, <1>4, Kept DEF Calm, Typed

LEMMA ActiveDue ==
    ASSUME Calm, NEW i \in Ids, work[i].pc # "none"
    PROVE  Due(i) /\ queue[i].state = "active" /\ work[i] \in Work
  BY Kept DEF Calm, Typed, WorkLocked, Due

LEMMA JobStartCalm ==
    ASSUME Calm, NEW i \in Ids, JobStart(i)
    PROVE  CalmInv'
  <1>1. Due(i) /\ queue[i].state = "delayed"
    BY DEF JobStart, Due
  <1>2. /\ queue[i] # NoJob /\ rows[i] # NoRow /\ queue[i].due <= now
        /\ rows[i].mode = "SCHEDULED" /\ rows[i].at = queue[i].due
    BY <1>1, Working
  <1>3. PICK job \in Job : queue' = [queue EXCEPT ![i] = job] /\ job.state = "active" /\ job.due = queue[i].due
    BY <1>2, JobSet DEF JobStart, Calm
  <1>4. PICK w : w = [pc |-> "find", news |-> NoRow] /\ work' = [work EXCEPT ![i] = w]
    BY DEF JobStart
  <1>5. UNCHANGED <<rows, calls, req, delivered, saves, now>>
    BY DEF JobStart
  <1>6. /\ \A j \in Ids : queue'[j] = IF j = i THEN job ELSE queue[j]
        /\ \A j \in Ids : work'[j] = IF j = i THEN w ELSE work[j]
    BY <1>3, <1>4 DEF Calm, Typed, TypeOK
  <1>7. queue[i].due \in Nat /\ now \in Nat
    BY <1>3 DEF Job, Calm, Typed, TypeOK
  <1>8. InSync(i)'
    BY <1>2, <1>3, <1>5, <1>6, <1>7 DEF InSync
  <1>9. Log' /\ Sent' = Sent
    BY <1>5, NothingSent
  <1>10. WorkKnows(i)' /\ Unsent(i)'
    BY <1>1, <1>4, <1>5, <1>6, <1>9 DEF WorkKnows, Unsent, Calm, CalmInv
  <1>11. \A j \in Ids : queue[j].state = "delayed" \/ work[j].pc \in {"find", "send"} => rows'[j].ver \notin Sent'
    BY <1>5, <1>9 DEF Unsent, Calm, CalmInv
  <1> QED  BY <1>1, <1>5, <1>6, <1>8, <1>9, <1>10, <1>11, JobsOn

\* The job fails, its row as it was or no longer scheduled.
LEMMA FailsCalm ==
    ASSUME Calm, NEW i \in Ids, work[i] # NoWork, JobFails(i),
           UNCHANGED <<calls, req, delivered, saves, now>>,
           NEW row, row # NoRow, row.ver = rows[i].ver, row = rows[i] \/ row.status # "SCHEDULED",
           \A j \in Ids : rows'[j] = IF j = i THEN row ELSE rows[j]
    PROVE  CalmInv'
  <1>1. Due(i)
    BY Kept, ActiveDue DEF Calm, Typed
  <1>2. /\ queue[i] # NoJob /\ rows[i] \in News /\ queue[i].due <= now /\ rows[i].at = queue[i].due
    BY <1>1, Working
  <1>3. PICK job \in Job : queue' = [queue EXCEPT ![i] = job] /\ job.state = "failed"
    BY <1>2, JobSet DEF JobFails, Calm
  <1>4. /\ \A j \in Ids : queue'[j] = IF j = i THEN job ELSE queue[j]
        /\ \A j \in Ids : work'[j] = IF j = i THEN NoWork ELSE work[j]
    BY <1>3 DEF JobFails, Calm, Typed, TypeOK
  <1>5. rows[i].at \in Nat /\ now \in Nat
    BY <1>2 DEF News, Calm, Typed, TypeOK
  <1>6. InSync(i)'
    BY <1>2, <1>3, <1>4, <1>5 DEF InSync
  <1>7. Log' /\ Sent' = Sent
    BY NothingSent
  <1>8. WorkKnows(i)' /\ Unsent(i)'
    BY <1>3, <1>4 DEF WorkKnows, Unsent, NoWork
  <1>9. \A j \in Ids : queue[j].state = "delayed" \/ work[j].pc \in {"find", "send"} => rows'[j].ver \notin Sent'
    BY <1>7 DEF Unsent, Calm, CalmInv
  <1> QED  BY <1>1, <1>4, <1>6, <1>7, <1>8, <1>9, JobsOn

LEMMA JobFindCalm ==
    ASSUME Calm, NEW i \in Ids, JobFind(i)
    PROVE  CalmInv'
  <1>1. Due(i) /\ queue[i].state = "active"
    BY ActiveDue DEF JobFind
  <1>2. rows[i] # NoRow /\ InSync(i)
    BY <1>1, Working
  <1>3. PICK w : w = [pc |-> "send", news |-> rows[i]] /\ work' = [work EXCEPT ![i] = w]
    BY <1>2 DEF JobFind
  <1>4. UNCHANGED <<rows, queue, calls, req, delivered, saves, now>>
    BY <1>2 DEF JobFind
  <1>5. \A j \in Ids : work'[j] = IF j = i THEN w ELSE work[j]
    BY <1>3 DEF Calm, Typed, TypeOK
  <1>6. Log' /\ Sent' = Sent
    BY <1>4, NothingSent
  <1>7. InSync(i)'
    BY <1>2, <1>4 DEF InSync
  <1>8. rows[i].ver \notin Sent
    BY DEF JobFind, Unsent, Calm, CalmInv
  <1>9. WorkKnows(i)' /\ Unsent(i)'
    BY <1>3, <1>4, <1>5, <1>6, <1>8 DEF WorkKnows, Unsent
  <1>10. \A j \in Ids : queue[j].state = "delayed" \/ work[j].pc \in {"find", "send"} => rows'[j].ver \notin Sent'
    BY <1>4, <1>6 DEF Unsent, Calm, CalmInv
  <1> QED  BY <1>1, <1>4, <1>5, <1>6, <1>7, <1>9, <1>10, JobsOn

LEMMA JobSendCalm ==
    ASSUME Calm, NEW i \in Ids, JobSend(i)
    PROVE  CalmInv'
  <1>1. Due(i) /\ queue[i].state = "active" /\ work[i] \in Work
    BY ActiveDue DEF JobSend
  <1>2. /\ rows[i] # NoRow /\ rows[i] \in News /\ InSync(i) /\ rows[i].mode = "SCHEDULED" /\ rows[i].at <= now
        /\ \A j \in Ids : InSync(j)
    BY <1>1, Working
  <1>3. work[i].news = rows[i] /\ rows[i].ver \notin Sent
    BY DEF JobSend, WorkKnows, Unsent, Calm, CalmInv
  <1>4. PICK outcome \in {"sent", "nobody", "failed"} :
          /\ SendNewsLetter(i, work[i].news, queue[i].list, outcome)
          /\ work' = [work EXCEPT ![i].pc = IF outcome = "nobody" THEN "cleanup" ELSE outcome]
    BY DEF JobSend
  <1>5. PICK pc \in {"sent", "failed", "cleanup"} : pc = IF outcome = "nobody" THEN "cleanup" ELSE outcome
    OBVIOUS
  <1>6. work' = [work EXCEPT ![i].pc = pc]
    BY <1>4, <1>5
  <1>7. PICK w \in Work : work' = [work EXCEPT ![i] = w] /\ w.pc = pc /\ w.news = work[i].news
    <2>1. work[i].news \in News /\ pc \in {"send", "sent", "failed", "cleanup"} /\ Typed
      BY <1>2, <1>3 DEF Calm
    <2> QED  BY <1>1, <1>6, <2>1, WorkSet
  <1>8. UNCHANGED <<rows, queue, calls, req, saves, now>>
    BY DEF JobSend
  <1>9. \A j \in Ids : work'[j] = IF j = i THEN w ELSE work[j]
    BY <1>7 DEF Calm, Typed, TypeOK
  <1>10. Log' /\ Sent' \subseteq Sent \cup {rows[i].ver}
    <2>1. CASE UNCHANGED delivered
      BY <1>8, <2>1, NothingSent
    <2>2. CASE \E d \in Delivery : d.news = rows[i] /\ d.at = now /\ delivered' = Append(delivered, d)
      BY <1>2, <1>3, <1>8, <2>2, OneSent
    <2>3. TypeOK
      BY DEF Calm, Typed
    <2> QED  BY <1>2, <1>3, <1>4, <2>1, <2>2, <2>3, SendGoes
  <1>11. InSync(i)'
    BY <1>2, <1>8 DEF InSync
  <1>12. WorkKnows(i)' /\ Unsent(i)'
    BY <1>1, <1>5, <1>7, <1>8, <1>9 DEF WorkKnows, Unsent
  <1>13. \A j \in Ids : j # i /\ (queue[j].state = "delayed" \/ work[j].pc \in {"find", "send"}) =>
             rows'[j].ver \notin Sent'
    BY <1>2, <1>8, <1>10, OthersUnsent
  <1> QED  BY <1>1, <1>8, <1>9, <1>10, <1>11, <1>12, <1>13, JobsOn

LEMMA JobStatusCalm ==
    ASSUME Calm, NEW i \in Ids, JobStatus(i)
    PROVE  CalmInv'
  <1>1. Due(i) /\ queue[i].state = "active" /\ work[i] \in Work /\ work[i] # NoWork
    BY Kept, ActiveDue DEF JobStatus, Calm, Typed
  <1>2. rows[i] # NoRow /\ InSync(i) /\ work[i].news \in News
    BY <1>1, Working DEF JobStatus, Work
  <1>3. PICK row, status : status \in {"SENT", "FAILED"} /\ StatusSet(i, row, status)
    BY <1>2, StatusType DEF JobStatus, Calm
  <1>4. UNCHANGED <<calls, req, delivered, saves, now>>
    BY DEF JobStatus
  <1>5. \A j \in Ids : rows'[j] = IF j = i THEN row ELSE rows[j]
    BY <1>3 DEF StatusSet, Calm, Typed, TypeOK
  <1>6. /\ row.status # "SCHEDULED" /\ row # NoRow /\ row.ver = rows[i].ver
        /\ row.mode = rows[i].mode /\ row.at = rows[i].at
    BY <1>3, NewsNotNone DEF StatusSet
  <1>7. CASE JobFails(i)
    BY <1>1, <1>4, <1>5, <1>6, <1>7, FailsCalm
  <1>8. CASE ~JobFails(i)
    <2>1. queue' = queue /\ work' = [work EXCEPT ![i].pc = "cleanup"]
      BY <1>2, <1>8 DEF JobStatus
    <2>2. PICK w \in Work : work' = [work EXCEPT ![i] = w] /\ w.pc = "cleanup"
      BY <1>1, <1>2, <2>1, WorkSet DEF Calm
    <2>3. \A j \in Ids : work'[j] = IF j = i THEN w ELSE work[j]
      BY <2>2 DEF Calm, Typed, TypeOK
    <2>4. Log' /\ Sent' = Sent
      BY <1>4, NothingSent
    <2>5. InSync(i)'
      BY <1>1, <1>2, <1>4, <1>5, <1>6, <2>1 DEF InSync
    <2>6. WorkKnows(i)' /\ Unsent(i)'
      BY <1>1, <2>1, <2>2, <2>3 DEF WorkKnows, Unsent
    <2>7. \A j \in Ids : queue[j].state = "delayed" \/ work[j].pc \in {"find", "send"} => rows'[j].ver \notin Sent'
      BY <1>5, <1>6, <2>4 DEF Unsent, Calm, CalmInv
    <2> QED  BY <1>1, <1>4, <1>5, <2>1, <2>3, <2>4, <2>5, <2>6, <2>7, JobsOn
  <1> QED  BY <1>7, <1>8

LEMMA JobCleanupCalm ==
    ASSUME Calm, NEW i \in Ids, JobCleanup(i)
    PROVE  CalmInv'
  <1>1. Due(i) /\ work[i] # NoWork
    BY Kept, ActiveDue DEF JobCleanup, Calm, Typed
  <1>2. rows[i] # NoRow
    BY <1>1, Working
  <1>3. PICK row : row = rows[i]
    OBVIOUS
  <1> QED  BY <1>1, <1>2, <1>3, FailsCalm DEF JobCleanup

LEMMA TickCalm ==
    ASSUME Calm, Tick, Undisturbed
    PROVE  CalmInv'
  <1>1. /\ Still /\ calls = {} /\ \A r \in Requests : req[r] = Idle
        /\ \A i \in Ids : InSync(i)
    BY Undisturbing
  <1>2. now' = now + 1 /\ UNCHANGED <<rows, queue, work, calls, req, delivered, saves>>
    BY DEF Tick, serverVars
  <1>3. Alone'
    BY <1>1, <1>2 DEF Alone, Settled
  <1>4. ASSUME NEW i \in Ids
        PROVE  InSync(i)'
    <2>1. rows[i].at \in Nat /\ now \in Nat
      BY Kept DEF Calm, Typed, TypeOK, News, NoRow
    <2> QED  BY <1>1, <1>2, <2>1 DEF InSync, Still
  <1>5. Log' /\ Sent' = Sent
    BY <1>2, NothingSent
  <1>6. \A i \in Ids : WorkKnows(i)' /\ Unsent(i)'
    BY <1>2, <1>5 DEF WorkKnows, Unsent, Calm, CalmInv
  <1>7. \A r \in Requests : RequestKnows(req[r])'
    BY <1>1, <1>2, IdlePc DEF RequestKnows
  <1> QED  BY <1>1, <1>2, <1>3, <1>4, <1>5, <1>6, <1>7 DEF CalmInv

-----------------------------------------------------------------------------
(* The invariant. *)

LEMMA InvInit == Init => Inv
  <1> SUFFICES ASSUME Init PROVE Inv
    OBVIOUS
  <1>1. \A i \in Ids : rows[i] = NoRow /\ queue[i] = NoJob /\ work[i] = NoWork
    BY DEF Init
  <1>2. calls = {} /\ (\A r \in Requests : req[r] = Idle) /\ delivered = <<>> /\ saves = 0
    BY DEF Init
  <1>3. Versions
    BY <1>1, <1>2 DEF Versions, NoRow
  <1>4. Alone
    BY <1>1, <1>2 DEF Alone, Due, NoJob, Settled
  <1>5. \A i \in Ids : InSync(i) /\ WorkKnows(i) /\ Unsent(i)
    BY <1>1 DEF InSync, WorkKnows, Unsent, NoRow, NoJob, NoWork
  <1>6. \A r \in Requests : RequestKnows(req[r])
    BY <1>2, IdlePc DEF RequestKnows
  <1>7. Log
    BY <1>2 DEF Log, Sent, DeliveredOnce, SentAsPlanned
  <1> QED  BY <1>2, <1>3, <1>4, <1>5, <1>6, <1>7, TypeInit DEF Inv, CalmInv, Typed

\* An arrival that meets something is not calm any more, and stays so.
LEMMA ArrivalMeets ==
    ASSUME Arrival
    PROVE  calm' = (calm /\ Undisturbed)
  <1>1. ASSUME NEW r, NEW i, NEW status, NEW mode, NEW at, NEW audience, NEW list,
               CreateNewsletter(r, i, status, mode, at, audience, list)
        PROVE  calm' = (calm /\ Undisturbed)
    BY <1>1 DEF CreateNewsletter, Arrives
  <1>2. ASSUME NEW r, NEW i, NEW status, NEW mode, NEW at, NEW audience, NEW list,
               UpdateNewsletter(r, i, status, mode, at, audience, list)
        PROVE  calm' = (calm /\ Undisturbed)
    BY <1>2 DEF UpdateNewsletter, Arrives
  <1>3. ASSUME NEW r, NEW i, DeleteNewLetter(r, i)
        PROVE  calm' = (calm /\ Undisturbed)
    BY <1>3 DEF DeleteNewLetter, Arrives
  <1> QED  BY <1>1, <1>2, <1>3 DEF Arrival

LEMMA CalmStep ==
    ASSUME Calm, [Next]_vars, calm'
    PROVE  CalmInv'
  <1>1. CASE Arrival
    <2>1. Undisturbed
      BY <1>1, ArrivalMeets
    <2> QED  BY <1>1, <2>1, CreateCalm, UpdateCalm, DeleteCalm DEF Arrival
  <1>2. ASSUME NEW r \in Requests, RequestStep(r)
        PROVE  CalmInv'
    BY <1>2, WriteCalm, RereadCalm, CancelCalm, DeleteCancelCalm, DeleteRowCalm DEF RequestStep
  <1>3. ASSUME NEW c \in calls, CallStep(c)
        PROVE  CalmInv'
    BY <1>3, CallSendCalm, CallStatusCalm, CallAddCalm DEF CallStep
  <1>4. ASSUME NEW i \in Ids, JobStep(i)
        PROVE  CalmInv'
    BY <1>4, JobStartCalm, JobFindCalm, JobSendCalm, JobStatusCalm, JobCleanupCalm DEF JobStep
  <1>5. CASE Tick
    BY <1>5, TickCalm DEF Tick
  <1>6. CASE Crash
    BY <1>6 DEF Crash, Fault
  <1>7. CASE UNCHANGED vars
    <2>1. /\ UNCHANGED <<rows, queue, work, calls>>
          /\ UNCHANGED <<req, delivered, saves, now>>
      BY <1>7 DEF vars, serverVars
    <2>2. Sent' = Sent
      BY <2>1 DEF Sent
    <2>3. Log'
      BY <2>1, NothingSent
    <2>4. Alone' /\ \A i \in Ids : InSync(i)' \/ Between(i)'
      BY <2>1 DEF Calm, CalmInv, Alone, Settled, Due, InSync, Between
    <2>5. \A i \in Ids : WorkKnows(i)' /\ Unsent(i)'
      BY <2>1, <2>2 DEF Calm, CalmInv, WorkKnows, Unsent
    <2>6. \A r \in Requests : RequestKnows(req[r])'
      BY <2>1, <2>2 DEF Calm, CalmInv, RequestKnows, Fresh
    <2>7. \A c \in calls' : CallKnows(c)'
      BY <2>1, <2>2 DEF Calm, CalmInv, CallKnows, Fresh
    <2> QED  BY <2>3, <2>4, <2>5, <2>6, <2>7 DEF CalmInv
  <1>8. CASE \/ \E r \in Requests : RequestFails(r)
             \/ \E c \in calls : CallFails(c)
             \/ \E i \in Ids : WorkFails(i)
    BY <1>8 DEF RequestFails, CallFails, WorkFails, Fault
  <1> QED  BY <1>1, <1>2, <1>3, <1>4, <1>5, <1>6, <1>7, <1>8 DEF Next

\* What met something, broke off or was restarted from outside is not calm again.
LEMMA CalmBefore == TypeOK /\ [Next]_vars /\ calm' => calm
  <1> SUFFICES ASSUME TypeOK, [Next]_vars, calm' PROVE calm
    OBVIOUS
  <1>1. CASE Arrival
    BY <1>1, ArrivalMeets
  <1>2. CASE ~Arrival
    BY <1>2 DEF Next, vars, RequestStep, CallStep, JobStep, Tick, Crash,
                  RequestFails, CallFails, WorkFails, Fault
  <1> QED  BY <1>1, <1>2

LEMMA InvStep == Inv /\ [Next]_vars => Inv'
  <1> SUFFICES ASSUME Inv, [Next]_vars PROVE Inv'
    OBVIOUS
  <1>1. Typed /\ Versions
    BY DEF Inv, Typed
  <1>2. Typed' /\ Versions'
    BY <1>1, TypeStep, VersionsStep
  <1>3. calm' => CalmInv'
    BY <1>1, CalmBefore, CalmStep DEF Inv, Calm, Typed
  <1> QED  BY <1>2, <1>3 DEF Inv, Typed

\* JobsSafe: once a request and the callback it left are done, nothing else met them and no query or
\* queue call failed, the queue has a job for a date to come exactly if the newsletter is scheduled
\* for it - through creations, updates that cancel the old job, deletions, jobs that ran and
\* deliveries that failed.
THEOREM JobsSafe == Spec => []JobsMatchRows
  <1>1. ASSUME Inv PROVE JobsMatchRows
    <2> SUFFICES ASSUME calm, Settled, NEW i \in Ids, NEW t \in 1..MaxTime, t > now
                 PROVE  rows[i].status = "SCHEDULED" /\ rows[i].at = t
                            <=> queue[i].state = "delayed" /\ queue[i].due = t
      BY DEF JobsMatchRows
    <2>1. InSync(i)
      BY <1>1, IdlePc DEF Inv, CalmInv, Settled, Between
    <2> QED  BY <2>1 DEF InSync
  <1> QED  BY <1>1, InvInit, InvStep, PTL DEF Spec

\* OnceSafe: while requests and jobs do not meet nor break off, a saved version is delivered at most once: by the
\* callback if it is to go at once, by its job if it is scheduled, never by both nor by a job left
\* from an earlier version.
THEOREM OnceSafe == Spec => []DeliveredOnce
  <1>1. Inv => DeliveredOnce
    BY DEF Inv, CalmInv, Log, DeliveredOnce
  <1> QED  BY <1>1, InvInit, InvStep, PTL DEF Spec

\* PlannedSafe: while requests and jobs do not meet nor break off, nothing that waits for a manual dispatch is
\* delivered, and nothing before the date it is scheduled for.
THEOREM PlannedSafe == Spec => []SentAsPlanned
  <1>1. Inv => SentAsPlanned
    BY DEF Inv, CalmInv, Log, SentAsPlanned
  <1> QED  BY <1>1, InvInit, InvStep, PTL DEF Spec

=============================================================================
