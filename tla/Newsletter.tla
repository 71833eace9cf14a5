----------------------------- MODULE Newsletter -----------------------------
(***************************************************************************)
(* Newsletters: the API of core/newsletters, the follow-up each write      *)
(* leaves in a setImmediate callback, the BullMQ queue of scheduled        *)
(* newsletters and the processor that works it off.                        *)
(*                                                                         *)
(* A step is what runs between two awaits.  A callback that throws is an   *)
(* unhandled rejection, which ends the Node process; whatever supervises   *)
(* it starts it again.  A request that is refused changes nothing; one     *)
(* whose query or queue call fails ends with 500 where it is.              *)
(* Labels, contents and channels are left out: ver numbers the saved       *)
(* versions of a newsletter.                                               *)
(***************************************************************************)
EXTENDS Naturals, Sequences, FiniteSets

CONSTANTS
    Ids,            \* pool of newsletter ids
    Requests,       \* API requests that may be in flight at once
    None,           \* no value
    Subscribers,    \* active users with the role "user"
    Staff,          \* active users with another role
    Listed,         \* the users a custom list names
    MaxSaves,       \* bound: rows inserted or updated
    MaxTime,        \* bound: units of time
    MaxFaults       \* bound: failed deliveries, queries and queue calls, and restarts from outside

ASSUME NewsletterAssumption ==
    /\ Subscribers \cap Staff = {}
    /\ Listed \subseteq Subscribers
    /\ MaxSaves \in Nat
    /\ MaxTime \in Nat
    /\ MaxFaults \in Nat

VARIABLES
    rows,       \* table newsletter
    queue,      \* the job with id newsletter-<id>, if there is one
    work,       \* what the processor does for the active job of an id
    calls,      \* callbacks not yet finished
    req,        \* API requests in flight
    delivered,  \* deliveries, in order
    saves,      \* versions saved so far
    now,        \* the time
    faults,     \* faults so far
    calm        \* so far, no request or due job met another, no query or queue call
                \* failed, and nobody restarted the server

serverVars == <<work, calls, req>>
vars == <<rows, queue, serverVars, delivered, saves, now, faults, calm>>

-----------------------------------------------------------------------------
Modes == {"IMMEDIATE", "SCHEDULED", "MANUAL"}
Audiences == {"ALL_USERS", "PREMIUM_USERS", "CUSTOM_LIST"}

\* A row: at is scheduledAt, 0 for NULL; ver numbers what was saved.
NoRow == [status |-> "none", mode |-> "none", at |-> 0, audience |-> "none", ver |-> 0]

\* A job: delayed, active or failed; list: its data has usersIds.
NoJob == [state |-> "none", due |-> 0, list |-> FALSE, stalled |-> FALSE]

\* What the processor is at: find, send, sent or failed, cleanup.
NoWork == [pc |-> "none", news |-> NoRow]

\* A request: write, reread, cancel; deleteCancel, deleteRow.
Idle == [pc |-> "idle", id |-> None, news |-> NoRow, list |-> FALSE]

Init ==
    /\ rows = [i \in Ids |-> NoRow]
    /\ queue = [i \in Ids |-> NoJob]
    /\ work = [i \in Ids |-> NoWork]
    /\ calls = {}
    /\ req = [r \in Requests |-> Idle]
    /\ delivered = <<>>
    /\ saves = 0
    /\ now = 1
    /\ faults = 0
    /\ calm = TRUE

-----------------------------------------------------------------------------
(* The rules on status, send mode and date.  A date given is in the future, *)
(* or requireFutureSchedule refuses it.                                    *)

Dates == {0} \cup {t \in 2..MaxTime : t > now}

\* resolveStatus: an explicit draft, or what date and mode say.
ResolveStatus(status, at, mode) ==
    IF status = "DRAFT" THEN "DRAFT"
    ELSE IF at # 0 THEN "SCHEDULED"
    ELSE IF mode = "MANUAL" THEN "PENDING"
    ELSE IF mode = "IMMEDIATE" THEN "SENT"
    ELSE "DRAFT"

\* validateStatusConstraints
StatusConstraints(status, mode, at) ==
    CASE status = "DRAFT" -> mode = "MANUAL" /\ at = 0
      [] status = "SCHEDULED" -> mode = "SCHEDULED" /\ at # 0
      [] status = "PENDING" -> mode = "IMMEDIATE" /\ at = 0
      [] OTHER -> at = 0

\* resolveAudienceRecipients.  A custom list without ids throws.
Unresolvable(audience, list) == audience = "CUSTOM_LIST" /\ ~list

Recipients(audience) ==
    CASE audience = "ALL_USERS" -> Subscribers
      [] audience = "PREMIUM_USERS" -> Subscribers \cup Staff
      [] OTHER -> Listed

-----------------------------------------------------------------------------
(* The API.                                                                *)

Due(i) == queue[i].state = "active" \/ (queue[i].state = "delayed" /\ queue[i].due <= now)

Undisturbed ==
    /\ calls = {}
    /\ \A r \in Requests : req[r] = Idle
    /\ \A i \in Ids : ~Due(i)

Arrives(r) ==
    /\ req[r] = Idle
    /\ calm' = (calm /\ Undisturbed)

\* Bound: a save is left, counting those of the updates under way.
Spare == saves + Cardinality({r \in Requests : req[r].pc = "write"}) < MaxSaves

Respond(r) == req' = [req EXCEPT ![r] = Idle]

\* handlePostSave leaves a callback with the entity and the ids of the request.
HandlePostSave(r, i, news, list) ==
    calls' = calls \cup {[pc |-> "begin", id |-> i, news |-> news, list |-> list, by |-> r]}

\* createNewsletter, from its INSERT to its answer.
CreateNewsletter(r, i, status, mode, at, audience, list) ==
    /\ Arrives(r)
    /\ rows[i] = NoRow
    /\ Spare
    /\ StatusConstraints(ResolveStatus(status, at, mode), mode, at)
    /\ LET news == [status |-> ResolveStatus(status, at, mode), mode |-> mode, at |-> at,
                    audience |-> audience, ver |-> saves + 1]
       IN  /\ rows' = [rows EXCEPT ![i] = news]
           /\ HandlePostSave(r, i, news, list)
    /\ saves' = saves + 1
    /\ UNCHANGED <<queue, work, req, delivered, now, faults>>

\* updateNewsletter reads the row and validates.  A mode or audience "none" is
\* left as it is; a date given with another mode than SCHEDULED is dropped,
\* after it decided the status.
UpdateNewsletter(r, i, status, mode, at, audience, list) ==
    LET merged == IF mode = "none" THEN rows[i].mode ELSE mode
        date == IF mode \in {"none", "SCHEDULED"} THEN at ELSE 0
        resolved == ResolveStatus(status, at, merged)
    IN  /\ Arrives(r)
        /\ rows[i] # NoRow
        /\ Spare
        /\ StatusConstraints(resolved, merged, date)
        /\ req' = [req EXCEPT ![r] =
             [pc |-> "write", id |-> i, list |-> list,
              news |-> [status |-> resolved, mode |-> mode, at |-> date,
                        audience |-> audience, ver |-> 0]]]
        /\ UNCHANGED <<rows, queue, work, calls, delivered, saves, now, faults>>

\* updateNewsLetter: an UPDATE by id of the columns that are given; a row
\* deleted meanwhile makes it throw.
UpdateWrite(r) ==
    LET i == req[r].id
        new == req[r].news
    IN  /\ req[r].pc = "write"
        /\ IF rows[i] = NoRow
           THEN Respond(r) /\ UNCHANGED <<rows, saves>>
           ELSE /\ rows' = [rows EXCEPT ![i] =
                     [new EXCEPT !.mode = IF @ = "none" THEN rows[i].mode ELSE @,
                                 !.audience = IF @ = "none" THEN rows[i].audience ELSE @,
                                 !.ver = saves + 1]]
                /\ saves' = saves + 1
                /\ req' = [req EXCEPT ![r].pc = "reread"]
        /\ UNCHANGED <<queue, work, calls, delivered, now, faults>>

\* The row is read again for the follow-up, whoever wrote it last.
UpdateReread(r) ==
    /\ req[r].pc = "reread"
    /\ IF rows[req[r].id] = NoRow
       THEN Respond(r)
       ELSE req' = [req EXCEPT ![r].pc = "cancel", ![r].news = rows[req[r].id]]
    /\ UNCHANGED <<rows, queue, work, calls, delivered, saves, now, faults>>

\* cancelScheduledJob.  job.remove throws for a job a worker has locked.
Removable(i) == queue[i].state # "active"

\* Mutant: the old job stays.
UpdateCancel_keepsJob(r) ==
    /\ req[r].pc = "cancel"
    /\ HandlePostSave(r, req[r].id, req[r].news, req[r].list)
    /\ Respond(r)
    /\ UNCHANGED <<rows, queue, work, delivered, saves, now, faults>>

\* The old job goes and the follow-up is left behind; or the request ends with
\* 500, its UPDATE done.
UpdateCancel(r) ==
    /\ req[r].pc = "cancel"
    /\ IF Removable(req[r].id)
       THEN /\ queue' = [queue EXCEPT ![req[r].id] = NoJob]
            /\ HandlePostSave(r, req[r].id, req[r].news, req[r].list)
       ELSE UNCHANGED <<queue, calls>>
    /\ Respond(r)
    /\ UNCHANGED <<rows, work, delivered, saves, now, faults>>

\* deleteNewLetter: the row is found, the job cancelled, the row deleted.
DeleteNewLetter(r, i) ==
    /\ Arrives(r)
    /\ rows[i] # NoRow
    /\ req' = [req EXCEPT ![r] = [Idle EXCEPT !.pc = "deleteCancel", !.id = i]]
    /\ UNCHANGED <<rows, queue, work, calls, delivered, saves, now, faults>>

DeleteCancel(r) ==
    /\ req[r].pc = "deleteCancel"
    /\ IF Removable(req[r].id)
       THEN /\ queue' = [queue EXCEPT ![req[r].id] = NoJob]
            /\ req' = [req EXCEPT ![r].pc = "deleteRow"]
       ELSE Respond(r) /\ UNCHANGED queue
    /\ UNCHANGED <<rows, work, calls, delivered, saves, now, faults>>

DeleteRow(r) ==
    /\ req[r].pc = "deleteRow"
    /\ rows' = [rows EXCEPT ![req[r].id] = NoRow]
    /\ Respond(r)
    /\ UNCHANGED <<queue, work, calls, delivered, saves, now, faults>>

-----------------------------------------------------------------------------
(* The callbacks and the processor.                                        *)

\* The process ends and starts again: an active job has lost its worker and is
\* run again as stalled, once.
Restart ==
    /\ req' = [r \in Requests |-> Idle]
    /\ calls' = {}
    /\ work' = [i \in Ids |-> NoWork]
    /\ queue' = [i \in Ids |->
         IF queue[i].state # "active" THEN queue[i]
         ELSE [queue[i] EXCEPT !.state = IF queue[i].stalled THEN "failed" ELSE "delayed",
                               !.stalled = TRUE]]

\* A query or a queue call fails, or the server is restarted from outside.
Fault ==
    /\ faults < MaxFaults
    /\ faults' = faults + 1
    /\ calm' = FALSE

\* What a request awaits throws: it ends with 500, and what it did stays.
RequestFails(r) ==
    /\ req[r].pc # "idle"
    /\ Respond(r)
    /\ Fault
    /\ UNCHANGED <<rows, queue, work, calls, delivered, saves, now>>

\* sendNewsLetter up to its UPDATE: it reaches its recipients, has none, or
\* fails, which by e-mail may be after it reached some of them.
SendNewsLetter(i, news, list, outcome) ==
    LET to == Recipients(news.audience)
        Reach(users) == delivered' = Append(delivered,
            [id |-> i, news |-> news, at |-> now, to |-> users])
    IN  IF Unresolvable(news.audience, list)
        THEN outcome = "failed" /\ UNCHANGED <<delivered, faults>>
        ELSE \/ outcome = "sent" /\ to # {} /\ Reach(to) /\ UNCHANGED faults
             \/ outcome = "nobody" /\ to = {} /\ UNCHANGED <<delivered, faults>>
             \/ /\ outcome = "failed"
                /\ faults < MaxFaults
                /\ faults' = faults + 1
                /\ UNCHANGED delivered \/ \E some \in SUBSET to \ {{}} : Reach(some)

\* The callback of an IMMEDIATE newsletter.
CallSend(c) ==
    /\ c.pc = "begin" /\ c.news.mode = "IMMEDIATE"
    /\ \E outcome \in {"sent", "nobody", "failed"} :
         /\ SendNewsLetter(c.id, c.news, c.list, outcome)
         /\ calls' = (calls \ {c}) \cup
              IF outcome = "nobody" THEN {} ELSE {[c EXCEPT !.pc = outcome]}
    /\ UNCHANGED <<rows, queue, work, req, saves, now>>

\* Its UPDATE to SENT; the one to FAILED, and an UPDATE of a row that is gone,
\* end in a throw that nothing catches.
CallStatus(c) ==
    /\ c.pc \in {"sent", "failed"}
    /\ IF rows[c.id] = NoRow
       THEN Restart /\ UNCHANGED rows
       ELSE IF c.pc = "failed"
       THEN Restart /\ rows' = [rows EXCEPT ![c.id].status = "FAILED"]
       ELSE /\ rows' = [rows EXCEPT ![c.id].status = "SENT"]
            /\ calls' = calls \ {c}
            /\ UNCHANGED <<queue, work, req>>
    /\ UNCHANGED <<delivered, saves, now, faults>>

\* Mutant: the job is added without its delay.
CallAdd_noDelay(c) ==
    /\ c.pc = "begin" /\ c.news.mode = "SCHEDULED"
    /\ queue' = IF c.news.at > now /\ queue[c.id] = NoJob
                THEN [queue EXCEPT ![c.id] = [state |-> "delayed", due |-> now,
                                              list |-> FALSE, stalled |-> FALSE]]
                ELSE queue
    /\ calls' = calls \ {c}
    /\ UNCHANGED <<rows, work, req, delivered, saves, now, faults>>

\* The callback of a SCHEDULED newsletter adds a job if its date is still to
\* come; BullMQ ignores a second job with the same id.
CallAdd(c) ==
    /\ c.pc = "begin" /\ c.news.mode = "SCHEDULED"
    /\ queue' = IF c.news.at > now /\ queue[c.id] = NoJob
                THEN [queue EXCEPT ![c.id] = [state |-> "delayed", due |-> c.news.at,
                                              list |-> FALSE, stalled |-> FALSE]]
                ELSE queue
    /\ calls' = calls \ {c}
    /\ UNCHANGED <<rows, work, req, delivered, saves, now, faults>>

\* A MANUAL newsletter has no follow-up.
CallNothing(c) ==
    /\ c.pc = "begin" /\ c.news.mode = "MANUAL"
    /\ calls' = calls \ {c}
    /\ UNCHANGED <<rows, queue, work, req, delivered, saves, now, faults>>

\* What a callback awaits throws: an UPDATE to SENT that fails is followed by
\* the one to FAILED, all else (the cache, the queue, that UPDATE) nothing catches.
CallFails(c) ==
    /\ IF c.pc = "sent"
       THEN /\ calls' = (calls \ {c}) \cup {[c EXCEPT !.pc = "failed"]}
            /\ UNCHANGED <<queue, work, req>>
       ELSE Restart
    /\ Fault
    /\ UNCHANGED <<rows, delivered, saves, now>>

\* BullMQ hands a due job to the processor.
JobStart(i) ==
    /\ queue[i].state = "delayed"
    /\ queue[i].due <= now
    /\ queue' = [queue EXCEPT ![i].state = "active"]
    /\ work' = [work EXCEPT ![i] = [pc |-> "find", news |-> NoRow]]
    /\ UNCHANGED <<rows, calls, req, delivered, saves, now, faults>>

\* process throws: the one attempt is over.
JobFails(i) ==
    /\ queue' = [queue EXCEPT ![i].state = "failed"]
    /\ work' = [work EXCEPT ![i] = NoWork]

\* process finds the newsletter; without it, 404.
JobFind(i) ==
    /\ work[i].pc = "find"
    /\ IF rows[i] = NoRow
       THEN JobFails(i)
       ELSE /\ work' = [work EXCEPT ![i] = [pc |-> "send", news |-> rows[i]]]
            /\ UNCHANGED queue
    /\ UNCHANGED <<rows, calls, req, delivered, saves, now, faults>>

JobSend(i) ==
    /\ work[i].pc = "send"
    /\ \E outcome \in {"sent", "nobody", "failed"} :
         /\ SendNewsLetter(i, work[i].news, queue[i].list, outcome)
         /\ work' = [work EXCEPT ![i].pc = IF outcome = "nobody" THEN "cleanup" ELSE outcome]
    /\ UNCHANGED <<rows, queue, calls, req, saves, now>>

\* Mutant: a job that failed is tried again.
JobStatus_retries(i) ==
    /\ work[i].pc \in {"sent", "failed"}
    /\ queue' = [queue EXCEPT ![i].state = "delayed"]
    /\ work' = [work EXCEPT ![i] = NoWork]
    /\ UNCHANGED <<rows, calls, req, delivered, saves, now, faults>>

\* Mutant: the status is not updated.
JobStatus_noUpdate(i) ==
    /\ work[i].pc \in {"sent", "failed"}
    /\ JobFails(i)
    /\ UNCHANGED <<rows, calls, req, delivered, saves, now, faults>>

JobStatus(i) ==
    /\ work[i].pc \in {"sent", "failed"}
    /\ IF rows[i] = NoRow
       THEN JobFails(i) /\ UNCHANGED rows
       ELSE IF work[i].pc = "failed"
       THEN JobFails(i) /\ rows' = [rows EXCEPT ![i].status = "FAILED"]
       ELSE /\ rows' = [rows EXCEPT ![i].status = "SENT"]
            /\ work' = [work EXCEPT ![i].pc = "cleanup"]
            /\ UNCHANGED queue
    /\ UNCHANGED <<calls, req, delivered, saves, now, faults>>

\* cancelScheduledJob on the very job that runs, which is locked: it throws.
JobCleanup(i) ==
    /\ work[i].pc = "cleanup"
    /\ JobFails(i)
    /\ UNCHANGED <<rows, calls, req, delivered, saves, now, faults>>

\* What the job awaits throws: as in a callback, or its one attempt is over.
WorkFails(i) ==
    /\ work[i].pc \in {"find", "sent", "failed"}
    /\ IF work[i].pc = "sent"
       THEN work' = [work EXCEPT ![i].pc = "failed"] /\ UNCHANGED queue
       ELSE JobFails(i)
    /\ Fault
    /\ UNCHANGED <<rows, calls, req, delivered, saves, now>>

Tick ==
    /\ now < MaxTime
    /\ now' = now + 1
    /\ calm' = (calm /\ Undisturbed)
    /\ UNCHANGED <<rows, queue, serverVars, delivered, saves, faults>>

\* The process is restarted from outside.
Crash ==
    /\ Restart
    /\ Fault
    /\ UNCHANGED <<rows, delivered, saves, now>>

-----------------------------------------------------------------------------
RequestStep(r) ==
    /\ \/ UpdateWrite(r)
       \/ UpdateReread(r)
       \/ UpdateCancel(r)
       \/ DeleteCancel(r)
       \/ DeleteRow(r)
    /\ UNCHANGED calm

CallStep(c) ==
    /\ \/ CallSend(c)
       \/ CallStatus(c)
       \/ CallAdd(c)
       \/ CallNothing(c)
    /\ UNCHANGED calm

JobStep(i) ==
    /\ \/ JobStart(i)
       \/ JobFind(i)
       \/ JobSend(i)
       \/ JobStatus(i)
       \/ JobCleanup(i)
    /\ UNCHANGED calm

Arrival ==
    \E r \in Requests, i \in Ids :
        \/ \E status \in {"DRAFT", "SENT"}, at \in Dates, list \in BOOLEAN :
             \/ \E mode \in Modes, audience \in Audiences :
                  CreateNewsletter(r, i, status, mode, at, audience, list)
             \/ \E mode \in Modes \cup {"none"}, audience \in Audiences \cup {"none"} :
                  UpdateNewsletter(r, i, status, mode, at, audience, list)
        \/ DeleteNewLetter(r, i)

Next ==
    \/ Arrival
    \/ \E r \in Requests : RequestStep(r)
    \/ \E c \in calls : CallStep(c)
    \/ \E i \in Ids : JobStep(i)
    \/ \E r \in Requests : RequestFails(r)
    \/ \E c \in calls : CallFails(c)
    \/ \E i \in Ids : WorkFails(i)
    \/ Tick
    \/ Crash

Spec == Init /\ [][Next]_vars

\* The server runs what it has begun, BullMQ its jobs, and time passes; what
\* fails is not owed.
FairSpec ==
    /\ Spec
    /\ \A r \in Requests : WF_vars(RequestStep(r))
    /\ WF_vars(\E c \in calls : CallStep(c))
    /\ \A i \in Ids : WF_vars(JobStep(i))
    /\ WF_vars(Tick)

-----------------------------------------------------------------------------
Settled == calls = {} /\ \A r \in Requests : req[r] = Idle

\* The table and the queue say the same, once a request and its callback are
\* done, if none of them met another or broke off: a newsletter waits for a date
\* to come exactly if it has a job for it.
JobsMatchRows ==
    calm /\ Settled => \A i \in Ids : \A t \in 1..MaxTime : t > now =>
        (rows[i].status = "SCHEDULED" /\ rows[i].at = t
            <=> queue[i].state = "delayed" /\ queue[i].due = t)

\* A saved version of a newsletter reaches its audience once, however it was
\* rescheduled, sent at once or deleted before, and whatever delivery failed, as
\* long as nothing met or broke off.
DeliveredOnce ==
    calm => \A m, n \in DOMAIN delivered :
        delivered[m].news.ver = delivered[n].news.ver => m = n

\* Nothing is delivered that is kept for a manual dispatch or before its date, as
\* long as nothing met or broke off: a request that fails between its UPDATE and
\* the cancellation leaves the old job beside the new row.
SentAsPlanned ==
    calm => \A n \in DOMAIN delivered :
        /\ delivered[n].news.mode # "MANUAL"
        /\ delivered[n].at >= delivered[n].news.at

\* A newsletter scheduled for a date that comes does not wait for ever: it is
\* sent, fails, is rescheduled or deleted, unless it has nobody to go to, or
\* something met or broke off on the way.
ScheduledGetsDone ==
    \A i \in Ids : \A v \in 1..MaxSaves :
        (rows[i].ver = v /\ rows[i].status = "SCHEDULED")
            ~> (rows[i].ver # v \/ rows[i].status # "SCHEDULED"
                \/ Recipients(rows[i].audience) = {} \/ ~calm)

=============================================================================
