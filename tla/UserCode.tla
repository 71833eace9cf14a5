------------------------------ MODULE UserCode ------------------------------
(***************************************************************************)
(* What a user is mailed to get in: the one-time password of a login, of   *)
(* core/users user-code.service, and the link to reset the password, of    *)
(* reset-password-request.service, with the operations of users.service    *)
(* that use them (loginUser, resendCode, verifyUserCode,                   *)
(* createResetPasswordRequest, resetPassword).  Both count what they mail  *)
(* and then make the user wait, each in its own way.                       *)
(*                                                                         *)
(* Neither table has a unique key: a user may come to have several rows,   *)
(* and findOne may return any of them.  rememberMe is left out.  A unit of *)
(* time is the six minutes a code or a link lives; a request ends in the   *)
(* unit it began in.                                                       *)
(***************************************************************************)
EXTENDS Naturals, Sequences, FiniteSets

CONSTANTS
    Users,      \* rows of the users table
    Requests,   \* requests that may be in flight at once
    None,       \* no value
    MaxCount,   \* codes asked for again, or links, before the user must wait: 5
    Delay,      \* how long: 24 hours
    MaxCodes,   \* bound: codes and links mailed
    MaxTime,    \* bound: units of time
    MaxFaults   \* bound: crashes and failed queries

ASSUME CodeAssumption ==
    /\ MaxCount \in Nat \ {0}
    /\ Delay \in Nat \ {0}
    /\ MaxCodes \in Nat
    /\ MaxTime \in Nat
    /\ MaxFaults \in Nat
    /\ None \notin Users

VARIABLES
    codes,      \* table users_code, a set of CodeRow
    mailed,     \* codes sent (Mail), with the row they were sent for
    unsent,     \* history: codes in a row whose request broke off before the mail
    opened,     \* sessions opened, a sequence of Opening
    resets,     \* table reset_password_request, a set of ResetRow
    links,      \* links sent (Mail); the link is the row's id
    unsentLinks,\* history: links whose request broke off before the mail
    changed,    \* passwords set by a link, a sequence of Change
    req,        \* requests in flight: a Request, or Idle
    generated,  \* codes and links sent so far: the last one's number
    now,        \* the time
    faults      \* failures so far

codeVars == <<codes, mailed, unsent, opened>>
resetVars == <<resets, links, unsentLinks, changed>>
vars == <<codeVars, resetVars, req, generated, now, faults>>

-----------------------------------------------------------------------------
\* id is the number of the row's first code.  delay 0 is NULL.
CodeRow == [id : Nat, user : Users, code : Nat, expires : Nat, count : Nat, delay : Nat]

Mail == [user : Users, code : Nat, row : Nat, at : Nat]

Opening == [user : Users, code : Nat]

ResetRow == [id : Nat, user : Users, expires : Nat, count : Nat, delay : Nat]

\* answered: the request that set the password has ended well.
Change == [link : Nat, answered : BOOLEAN]

Idle == [pc |-> "idle"]

Request ==
    [pc : {"find", "insert", "ask", "findReset", "insertReset"}, user : Users]
    \cup [pc : {"write", "delete", "session"}, user : Users, row : CodeRow]
    \cup [pc : {"writeReset", "password", "deleteReset"}, user : Users, row : ResetRow]
    \cup [pc : {"send", "reread", "sendLink", "rereadLink"}, user : Users, mail : Mail]

Init ==
    /\ codes = {}
    /\ mailed = {}
    /\ unsent = {}
    /\ opened = <<>>
    /\ resets = {}
    /\ links = {}
    /\ unsentLinks = {}
    /\ changed = <<>>
    /\ req = [r \in Requests |-> Idle]
    /\ generated = 0
    /\ now = 1
    /\ faults = 0

-----------------------------------------------------------------------------
RowsOf(u) == {row \in codes : row.user = u}

Respond(r) == req' = [req EXCEPT ![r] = Idle]

\* loginUser: an active user, the right password.
Login(r, u) ==
    /\ req[r] = Idle
    /\ req' = [req EXCEPT ![r] = [pc |-> "find", user |-> u]]
    /\ UNCHANGED <<codeVars, resetVars, generated, now, faults>>

\* resendCode: the user exists.
Resend(r, u) ==
    /\ req[r] = Idle
    /\ req' = [req EXCEPT ![r] = [pc |-> "ask", user |-> u]]
    /\ UNCHANGED <<codeVars, resetVars, generated, now, faults>>

\* createUserCode asks for a new code if the user has a row.
FindCode(r) ==
    /\ req[r].pc = "find"
    /\ req' = [req EXCEPT ![r] =
         [req[r] EXCEPT !.pc = IF RowsOf(req[r].user) = {} THEN "insert" ELSE "ask"]]
    /\ UNCHANGED <<codeVars, resetVars, generated, now, faults>>

\* The mail of the number just made, for a row.
MailOf(row) == [user |-> row.user, code |-> generated + 1, row |-> row.id, at |-> now]

\* The table is written, the mail is still to go: by way of a query that reads
\* the row again (pc "reread"), or at once (pc "send").
ToSend(r, pc, row) ==
    /\ generated < MaxCodes
    /\ generated' = generated + 1
    /\ req' = [req EXCEPT ![r] = [pc |-> pc, user |-> row.user, mail |-> MailOf(row)]]

\* The first code: count keeps its default.
InsertCode(r) ==
    /\ req[r].pc = "insert"
    /\ LET new == [id |-> generated + 1, user |-> req[r].user, code |-> generated + 1,
                   expires |-> now + 1, count |-> 0, delay |-> 0]
       IN  codes' = codes \cup {new} /\ ToSend(r, "send", new)
    /\ UNCHANGED <<mailed, unsent, opened, resetVars, now, faults>>

\* generateAndSendLoginOtp and resendCode hand the code to the mailer.
SendCode(r) ==
    /\ req[r].pc = "send"
    /\ mailed' = mailed \cup {req[r].mail}
    /\ Respond(r)
    /\ UNCHANGED <<codes, unsent, opened, resetVars, generated, now, faults>>

\* askNewCode reads a row of the user (none: 404), refuses while its delay
\* lasts, and forgets count and delay once it has passed.  (A request in the
\* very millisecond of delayDate, when neither holds, is left out.)
AskNewCode(r) ==
    /\ req[r].pc = "ask"
    /\ \/ /\ RowsOf(req[r].user) = {}
          /\ Respond(r)
       \/ \E row \in RowsOf(req[r].user) :
            IF row.delay > now
            THEN Respond(r)
            ELSE req' = [req EXCEPT ![r] =
                   [pc |-> "write", user |-> row.user,
                    row |-> IF row.delay # 0 THEN [row EXCEPT !.count = 0, !.delay = 0] ELSE row]]
    /\ UNCHANGED <<codeVars, resetVars, generated, now, faults>>

\* Mutant: the hash of the new code is not saved.
NewCodeOf_oldCode(row, code) ==
    [row EXCEPT !.count = @ + 1, !.expires = now + 1,
                !.delay = IF row.count + 1 >= MaxCount THEN now + Delay ELSE @]

\* Mutant: the count is compared but not kept.
NewCodeOf_noCount(row, code) ==
    [row EXCEPT !.code = code, !.expires = now + 1,
                !.delay = IF row.count + 1 >= MaxCount THEN now + Delay ELSE @]

\* incrementCountAndSetDelayDate
NewCodeOf(row, code) ==
    [row EXCEPT !.count = @ + 1, !.code = code, !.expires = now + 1,
                !.delay = IF row.count + 1 >= MaxCount THEN now + Delay ELSE @]

\* Its UPDATE by id writes every column of the entity as it was read; of a row
\* deleted meanwhile it writes nothing, and the query after it throws.
WriteCode(r) ==
    /\ req[r].pc = "write"
    /\ LET new == NewCodeOf(req[r].row, generated + 1)
       IN  IF \E old \in codes : old.id = new.id
           THEN /\ codes' = {row \in codes : row.id # new.id} \cup {new}
                /\ ToSend(r, "reread", new)
           ELSE Respond(r) /\ UNCHANGED <<codes, generated>>
    /\ UNCHANGED <<mailed, unsent, opened, resetVars, now, faults>>

\* The repository reads the row again by its id, then getUserCodeByUserId by its
\* user; either throws if it is gone.  The mail waits for both and for nothing else.
RereadCode(r) ==
    /\ req[r].pc = "reread"
    /\ IF \E row \in codes : row.id = req[r].mail.row
       THEN mailed' = mailed \cup {req[r].mail} /\ UNCHANGED unsent
       ELSE unsent' = unsent \cup {req[r].mail} /\ UNCHANGED mailed
    /\ Respond(r)
    /\ UNCHANGED <<codes, opened, resetVars, generated, now, faults>>

\* verifyUserCode reads a row of the user; the code must be that row's and not
\* be expired.
Verify(r, m) ==
    /\ req[r] = Idle
    /\ \E row \in RowsOf(m.user) :
         /\ row.code = m.code
         /\ row.expires >= now
         /\ req' = [req EXCEPT ![r] = [pc |-> "delete", user |-> row.user, row |-> row]]
    /\ UNCHANGED <<codeVars, resetVars, generated, now, faults>>

\* Mutant: the code is not deleted.
DeleteCode_kept(r) ==
    /\ req[r].pc = "delete"
    /\ req' = [req EXCEPT ![r].pc = "session"]
    /\ UNCHANGED <<codeVars, resetVars, generated, now, faults>>

\* deleteUserCode removes every row of the user.
DeleteCode(r) ==
    /\ req[r].pc = "delete"
    /\ codes' = codes \ RowsOf(req[r].user)
    /\ req' = [req EXCEPT ![r].pc = "session"]
    /\ UNCHANGED <<mailed, unsent, opened, resetVars, generated, now, faults>>

\* generateUserSession
OpenSession(r) ==
    /\ req[r].pc = "session"
    /\ opened' = Append(opened, [user |-> req[r].user, code |-> req[r].row.code])
    /\ Respond(r)
    /\ UNCHANGED <<codes, mailed, unsent, resetVars, generated, now, faults>>

-----------------------------------------------------------------------------
(* The link to reset the password. *)

ResetsOf(u) == {row \in resets : row.user = u}

\* createResetPasswordRequest; registerAdmin invites a new admin the same way.
AskReset(r, u) ==
    /\ req[r] = Idle
    /\ req' = [req EXCEPT ![r] = [pc |-> "findReset", user |-> u]]
    /\ UNCHANGED <<codeVars, resetVars, generated, now, faults>>

\* handleResetPasswordRequest reads a row of the user and refuses while its
\* delay lasts.  Here neither count nor delay is forgotten once it has passed.
FindReset(r) ==
    /\ req[r].pc = "findReset"
    /\ \/ /\ ResetsOf(req[r].user) = {}
          /\ req' = [req EXCEPT ![r] = [req[r] EXCEPT !.pc = "insertReset"]]
       \/ \E row \in ResetsOf(req[r].user) :
            IF row.delay > now
            THEN Respond(r)
            ELSE req' = [req EXCEPT ![r] = [pc |-> "writeReset", user |-> row.user, row |-> row]]
    /\ UNCHANGED <<codeVars, resetVars, generated, now, faults>>

\* createNewRequest
InsertReset(r) ==
    /\ req[r].pc = "insertReset"
    /\ LET new == [id |-> generated + 1, user |-> req[r].user, expires |-> now + 1,
                   count |-> 1, delay |-> 0]
       IN  resets' = resets \cup {new} /\ ToSend(r, "sendLink", new)
    /\ UNCHANGED <<codeVars, links, unsentLinks, changed, now, faults>>

\* sendResetPasswordMail
SendLink(r) ==
    /\ req[r].pc = "sendLink"
    /\ links' = links \cup {req[r].mail}
    /\ Respond(r)
    /\ UNCHANGED <<codeVars, resets, unsentLinks, changed, generated, now, faults>>

\* The same link again, for six minutes more.
NewLinkOf(row) ==
    [row EXCEPT !.count = @ + 1, !.expires = now + 1,
                !.delay = IF row.count + 1 >= MaxCount THEN now + Delay ELSE @]

\* UPDATE by id, of no row if it was deleted meanwhile ...
WriteReset(r) ==
    /\ req[r].pc = "writeReset"
    /\ LET new == NewLinkOf(req[r].row)
       IN  IF \E old \in resets : old.id = new.id
           THEN /\ resets' = {row \in resets : row.id # new.id} \cup {new}
                /\ ToSend(r, "rereadLink", new)
           ELSE Respond(r) /\ UNCHANGED <<resets, generated>>
    /\ UNCHANGED <<codeVars, links, unsentLinks, changed, now, faults>>

\* ... after which the repository reads the row again, and throws if it is gone.
RereadLink(r) ==
    /\ req[r].pc = "rereadLink"
    /\ IF \E row \in resets : row.id = req[r].mail.row
       THEN links' = links \cup {req[r].mail} /\ UNCHANGED unsentLinks
       ELSE unsentLinks' = unsentLinks \cup {req[r].mail} /\ UNCHANGED links
    /\ Respond(r)
    /\ UNCHANGED <<codeVars, resets, changed, generated, now, faults>>

\* resetPassword with a link that was mailed: its row is there and not expired.
ResetPassword(r, m) ==
    /\ req[r] = Idle
    /\ \E row \in resets :
         /\ row.id = m.row
         /\ row.expires >= now
         /\ req' = [req EXCEPT ![r] = [pc |-> "password", user |-> row.user, row |-> row]]
    /\ UNCHANGED <<codeVars, resetVars, generated, now, faults>>

\* updateUserDetails
SetPassword(r) ==
    /\ req[r].pc = "password"
    /\ changed' = Append(changed, [link |-> req[r].row.id, answered |-> FALSE])
    /\ req' = [req EXCEPT ![r].pc = "deleteReset"]
    /\ UNCHANGED <<codeVars, resets, links, unsentLinks, generated, now, faults>>

\* deleteResetPasswordRequest removes every row of the user.
DeleteReset(r) ==
    /\ req[r].pc = "deleteReset"
    /\ resets' = resets \ ResetsOf(req[r].user)
    /\ \E last \in DOMAIN changed :
         /\ changed[last].link = req[r].row.id
         /\ \A i \in last + 1 .. Len(changed) : changed[i].link # req[r].row.id
         /\ changed' = [changed EXCEPT ![last].answered = TRUE]
    /\ Respond(r)
    /\ UNCHANGED <<codeVars, links, unsentLinks, generated, now, faults>>

-----------------------------------------------------------------------------
Tick ==
    /\ now < MaxTime
    /\ \A r \in Requests : req[r] = Idle
    /\ now' = now + 1
    /\ UNCHANGED <<codeVars, resetVars, req, generated, faults>>

\* A query of a request throws, or the server restarts under it.  What is in the
\* tables stays there, mailed or not.
RequestFails(r) ==
    /\ faults < MaxFaults
    /\ req[r] # Idle
    /\ unsent' = IF req[r].pc \in {"send", "reread"} THEN unsent \cup {req[r].mail} ELSE unsent
    /\ unsentLinks' = IF req[r].pc \in {"sendLink", "rereadLink"}
                      THEN unsentLinks \cup {req[r].mail} ELSE unsentLinks
    /\ Respond(r)
    /\ faults' = faults + 1
    /\ UNCHANGED <<codes, mailed, opened, resets, links, changed, generated, now>>

-----------------------------------------------------------------------------
Step(r) ==
    \/ FindCode(r)
    \/ InsertCode(r)
    \/ SendCode(r)
    \/ AskNewCode(r)
    \/ WriteCode(r)
    \/ RereadCode(r)
    \/ DeleteCode(r)
    \/ OpenSession(r)
    \/ FindReset(r)
    \/ InsertReset(r)
    \/ SendLink(r)
    \/ WriteReset(r)
    \/ RereadLink(r)
    \/ SetPassword(r)
    \/ DeleteReset(r)

Next ==
    \/ \E r \in Requests :
         \/ \E u \in Users : Resend(r, u) \/ Login(r, u) \/ AskReset(r, u)
         \/ \E m \in mailed : Verify(r, m)
         \/ \E m \in links : ResetPassword(r, m)
         \/ Step(r)
         \/ RequestFails(r)
    \/ Tick

Spec == Init /\ [][Next]_vars

-----------------------------------------------------------------------------
\* A code opens one session: with one request of the user at a time no code is
\* accepted again, before or after it is replaced, expires or fails to open one.
\* Nor does a link set a password again once a reset with it was answered; one
\* that failed half way leaves it in use.
SingleUse ==
    /\ \A i, j \in DOMAIN opened : opened[i].code = opened[j].code => i = j
    /\ \A i, j \in DOMAIN changed :
           i < j /\ changed[i].link = changed[j].link => ~changed[i].answered

\* With one request of the user at a time the code that is accepted is the last
\* one mailed, for as long as the user has a code at all, unless a request after
\* that mail replaced it and is not done or broke off before its own mail; and
\* a link whose request is there works for six minutes from every mail.
LastMailedWorks ==
    /\ \A row \in codes :
         /\ \A m \in mailed : m.user = row.user => m.code <= row.code
         /\ \/ \E m \in mailed \cup unsent : m.row = row.id /\ m.code = row.code
            \/ \E r \in Requests : req[r].pc \in {"send", "reread"}
                                   /\ req[r].mail.row = row.id /\ req[r].mail.code = row.code
    /\ \A row \in resets : \A m \in links :
           m.user = row.user => m.row <= row.id /\ m.at < row.expires

MailedFrom(mails, first) ==
    Cardinality({m \in mails : m.row = first.row /\ first.at <= m.at /\ m.at < first.at + Delay})

\* The throttle holds over every window as long as the delay: no row mails more
\* than its first code and MaxCount others in it, or MaxCount links, wherever the
\* window begins and however often the count was reset in between.
Throttled ==
    /\ \A first \in mailed : MailedFrom(mailed, first) <= MaxCount + 1
    /\ \A first \in links : MailedFrom(links, first) <= MaxCount

=============================================================================
