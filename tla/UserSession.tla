---------------------------- MODULE UserSession ----------------------------
(***************************************************************************)
(* Sessions and their tokens: core/user-session, the JWT strategy that     *)
(* every authenticated request passes, and the status of users it reads.   *)
(*                                                                         *)
(* A step is one query of a request.  A request that is refused at its     *)
(* first query changes nothing and has no action.  Days are the unit of    *)
(* time: requests end on the day they began, and an access token expires   *)
(* before the next (ACCESS_TOKEN_EXPIRY), so that none is used across a    *)
(* Tick.                                                                   *)
(***************************************************************************)
EXTENDS Naturals, FiniteSets

CONSTANTS
    Users,          \* rows of the users table
    SessionIds,     \* pool of ids of user_session
    Requests,       \* requests that may be in flight at once
    None,           \* no value
    Lifetimes,      \* days a session may last: rememberMe or not
    MaxUserSession, \* MAX_SESSIONS_PER_USER
    InactiveDays,   \* days without activity after which no token is renewed
    Serial,         \* no two logins of a user, no two refreshes of a session overlap
    MaxTokens,      \* bound: refresh tokens generated
    MaxDay,         \* bound: days
    MaxFaults       \* bound: crashes, failed queries, lost answers

ASSUME SessionAssumption ==
    /\ Lifetimes \subseteq Nat
    /\ MaxUserSession \in Nat \ {0}
    /\ InactiveDays \in Nat
    /\ Serial \in BOOLEAN
    /\ MaxTokens \in Nat
    /\ MaxDay \in Nat
    /\ MaxFaults \in Nat
    /\ None \notin Users \cup SessionIds

VARIABLES
    sessions,   \* table user_session
    status,     \* users.status
    answered,   \* token pairs that reached a client
    req,        \* requests in flight
    issued,     \* refresh tokens generated so far: the last one's number
    day,        \* the date
    faults      \* failures so far

vars == <<sessions, status, answered, req, issued, day, faults>>

-----------------------------------------------------------------------------
NoSession == [user |-> None, hash |-> 0, ver |-> 0, last |-> 0, expires |-> 0,
              revoked |-> FALSE]

\* hash stands for refreshTokenHash: the number of the token it is the hash of.
Session == [user : Users, hash : Nat, ver : Nat, last : Nat, expires : Nat,
            revoked : BOOLEAN]

\* A refresh token, and the session and version its access token names.
TokenPair == [refresh : Nat, sid : SessionIds, ver : Nat]

Idle == [pc |-> "idle", user |-> None, sid |-> None, ver |-> 0, todo |-> {}]

LoginRequest == [pc : {"oldest", "revokeOldest", "create"}, user : Users,
                 sid : SessionIds \cup {None}, ver : {0}, todo : {{}}]

RefreshRequest == [pc : {"renew", "revokeInactive"}, user : Users, sid : SessionIds,
                   ver : Nat, todo : {{}}]

AuthRequest == [pc : {"activity", "handler", "revoke", "revokeAll"}, user : Users,
                sid : SessionIds, ver : {0}, todo : SUBSET SessionIds]

Init ==
    /\ sessions = [s \in SessionIds |-> NoSession]
    /\ status = [u \in Users |-> "active"]
    /\ answered = {}
    /\ req = [r \in Requests |-> Idle]
    /\ issued = 0
    /\ day = 0
    /\ faults = 0

-----------------------------------------------------------------------------
\* What userSessions counts: an expired session counts until it is revoked.
LiveSessions(u) == {s \in SessionIds : sessions[s].user = u /\ ~sessions[s].revoked}

Respond(r) == req' = [req EXCEPT ![r] = Idle]

Revoke(s) == sessions' = [sessions EXCEPT ![s].revoked = TRUE]

InLogin(u) == \E r \in Requests :
    req[r].user = u /\ req[r].pc \in {"oldest", "revokeOldest", "create"}

InRefresh(s) == \E r \in Requests :
    req[r].sid = s /\ req[r].pc \in {"renew", "revokeInactive"}

\* Mutant: the limit is passed before a session is revoked.
LoginCount_exceeds(r, u) ==
    /\ req[r].pc = "idle"
    /\ Serial => ~InLogin(u)
    /\ req' = [req EXCEPT ![r] =
         [Idle EXCEPT !.user = u,
             !.pc = IF Cardinality(LiveSessions(u)) > MaxUserSession THEN "oldest" ELSE "create"]]
    /\ UNCHANGED <<sessions, status, answered, issued, day, faults>>

\* generateUserSession for a user who proved who they are (a verified OTP,
\* whatever the status by then, or Google) begins by counting their sessions.
LoginCount(r, u) ==
    /\ req[r].pc = "idle"
    /\ Serial => ~InLogin(u)
    /\ req' = [req EXCEPT ![r] =
         [Idle EXCEPT !.user = u,
             !.pc = IF Cardinality(LiveSessions(u)) >= MaxUserSession THEN "oldest" ELSE "create"]]
    /\ UNCHANGED <<sessions, status, answered, issued, day, faults>>

\* revokeOldSession looks for the session least recently active ...
LoginOldest(r) ==
    /\ req[r].pc = "oldest"
    /\ \/ /\ LiveSessions(req[r].user) = {}
          /\ req' = [req EXCEPT ![r].pc = "create"]
       \/ \E s \in LiveSessions(req[r].user) :
            /\ \A t \in LiveSessions(req[r].user) : sessions[s].last <= sessions[t].last
            /\ req' = [req EXCEPT ![r].pc = "revokeOldest", ![r].sid = s]
    /\ UNCHANGED <<sessions, status, answered, issued, day, faults>>

\* ... and revokes it, whatever became of it meanwhile.
LoginRevoke(r) ==
    /\ req[r].pc = "revokeOldest"
    /\ Revoke(req[r].sid)
    /\ req' = [req EXCEPT ![r].pc = "create"]
    /\ UNCHANGED <<status, answered, issued, day, faults>>

\* initializeSession: it ends a number of days from now.
InitializeSession(u, token, days) ==
    [user |-> u, hash |-> token, ver |-> 1, last |-> day, expires |-> day + days,
     revoked |-> FALSE]

\* The new session, and the answer with its tokens.
LoginCreate(r) ==
    /\ req[r].pc = "create"
    /\ issued < MaxTokens
    /\ \E s \in SessionIds, days \in Lifetimes :
         /\ sessions[s] = NoSession
         /\ sessions' = [sessions EXCEPT ![s] =
              InitializeSession(req[r].user, issued + 1, days)]
         /\ answered' = answered \cup {[refresh |-> issued + 1, sid |-> s, ver |-> 1]}
    /\ issued' = issued + 1
    /\ Respond(r)
    /\ UNCHANGED <<status, day, faults>>

-----------------------------------------------------------------------------
\* ensureSessionNotRevoked, ensureSessionIsValid
SessionIsValid(s) == ~sessions[s].revoked /\ day <= sessions[s].expires

\* renewAccessToken finds the session that holds the token's hash; it must be
\* neither revoked nor expired.  A session without activity for too long is to
\* be revoked, any other renewed at the version read here.
RefreshRead(r, token) ==
    /\ req[r].pc = "idle"
    /\ \E s \in SessionIds :
         /\ sessions[s] # NoSession
         /\ sessions[s].hash = token
         /\ SessionIsValid(s)
         /\ Serial => ~InRefresh(s)
         /\ req' = [req EXCEPT ![r] =
              [pc |-> IF day - sessions[s].last > InactiveDays THEN "revokeInactive" ELSE "renew",
               user |-> sessions[s].user, sid |-> s, ver |-> sessions[s].ver, todo |-> {}]]
    /\ UNCHANGED <<sessions, status, answered, issued, day, faults>>

\* revokeInactiveSession, and the answer 401.
RefreshRevokeInactive(r) ==
    /\ req[r].pc = "revokeInactive"
    /\ Revoke(req[r].sid)
    /\ Respond(r)
    /\ UNCHANGED <<status, answered, issued, day, faults>>

\* Mutant: the row keeps its version.
RenewSession_sameVersion(s, ver) ==
    /\ issued < MaxTokens
    /\ sessions' = [sessions EXCEPT ![s].hash = issued + 1, ![s].ver = ver, ![s].last = day]
    /\ issued' = issued + 1

\* Mutant: the whole entity is saved as it was read.
RenewSession_saves(s, ver) ==
    /\ issued < MaxTokens
    /\ sessions' = [sessions EXCEPT ![s].hash = issued + 1, ![s].ver = ver + 1,
                                    ![s].last = day, ![s].revoked = FALSE]
    /\ issued' = issued + 1

\* renewSession: an UPDATE by id of three columns, with the version read
\* before plus one.
RenewSession(s, ver) ==
    /\ issued < MaxTokens
    /\ sessions' = [sessions EXCEPT ![s].hash = issued + 1, ![s].ver = ver + 1, ![s].last = day]
    /\ issued' = issued + 1

\* Mutant: the access token is signed for the session as it was read.
RefreshRenew_oldToken(r) ==
    /\ req[r].pc = "renew"
    /\ RenewSession(req[r].sid, req[r].ver)
    /\ answered' = answered \cup
         {[refresh |-> issued + 1, sid |-> req[r].sid, ver |-> req[r].ver]}
    /\ Respond(r)
    /\ UNCHANGED <<status, day, faults>>

\* The session renewed, and the answer with the tokens: the access token is
\* signed for the row as it was re-read after the UPDATE.
RefreshRenew(r) ==
    /\ req[r].pc = "renew"
    /\ RenewSession(req[r].sid, req[r].ver)
    /\ answered' = answered \cup
         {[refresh |-> issued + 1, sid |-> req[r].sid, ver |-> req[r].ver + 1]}
    /\ Respond(r)
    /\ UNCHANGED <<status, day, faults>>

-----------------------------------------------------------------------------
\* JwtStrategy.validate reads the session an access token names ...
Authenticate(r, token) ==
    /\ req[r].pc = "idle"
    /\ sessions[token.sid] # NoSession
    /\ ~sessions[token.sid].revoked
    /\ sessions[token.sid].ver = token.ver
    /\ status[sessions[token.sid].user] = "active"
    /\ req' = [req EXCEPT ![r] =
         [Idle EXCEPT !.pc = "activity", !.user = sessions[token.sid].user, !.sid = token.sid]]
    /\ UNCHANGED <<sessions, status, answered, issued, day, faults>>

\* ... and notes its activity.  The handler runs next.
AuthActivity(r) ==
    /\ req[r].pc = "activity"
    /\ sessions' = [sessions EXCEPT ![req[r].sid].last = day]
    /\ req' = [req EXCEPT ![r].pc = "handler"]
    /\ UNCHANGED <<status, answered, issued, day, faults>>

\* A handler of another component.
HandleOther(r) ==
    /\ req[r].pc = "handler"
    /\ Respond(r)
    /\ UNCHANGED <<sessions, status, answered, issued, day, faults>>

\* revokeSession finds one session of the user by its id ...
RevokeSessionFind(r, s) ==
    /\ req[r].pc = "handler"
    /\ s \in LiveSessions(req[r].user)
    /\ req' = [req EXCEPT ![r].pc = "revoke", ![r].todo = {s}]
    /\ UNCHANGED <<sessions, status, answered, issued, day, faults>>

\* ... revokeAllSessions all of them; with none, it answers at once ...
RevokeAllFind(r) ==
    /\ req[r].pc = "handler"
    /\ IF LiveSessions(req[r].user) = {}
       THEN Respond(r)
       ELSE req' = [req EXCEPT ![r].pc = "revokeAll", ![r].todo = LiveSessions(req[r].user)]
    /\ UNCHANGED <<sessions, status, answered, issued, day, faults>>

\* ... and they are revoked one by one.
RevokeNext(r) ==
    /\ req[r].pc \in {"revoke", "revokeAll"}
    /\ \E s \in req[r].todo :
         /\ Revoke(s)
         /\ IF req[r].todo = {s} THEN Respond(r)
            ELSE req' = [req EXCEPT ![r].todo = @ \ {s}]
    /\ UNCHANGED <<status, answered, issued, day, faults>>

-----------------------------------------------------------------------------
\* updateAdminUser: the super admin suspends or restores a user.
SetStatus(u, to) ==
    /\ status[u] # to
    /\ status' = [status EXCEPT ![u] = to]
    /\ UNCHANGED <<sessions, answered, req, issued, day, faults>>

Tick ==
    /\ day < MaxDay
    /\ \A r \in Requests : req[r].pc = "idle"
    /\ day' = day + 1
    /\ UNCHANGED <<sessions, status, answered, req, issued, faults>>

\* A query of a request throws.
RequestFails(r) ==
    /\ faults < MaxFaults
    /\ req[r].pc # "idle"
    /\ Respond(r)
    /\ faults' = faults + 1
    /\ UNCHANGED <<sessions, status, answered, issued, day>>

\* The session is renewed and the answer is lost.
AnswerLost(r) ==
    /\ faults < MaxFaults
    /\ req[r].pc = "renew"
    /\ RenewSession(req[r].sid, req[r].ver)
    /\ Respond(r)
    /\ faults' = faults + 1
    /\ UNCHANGED <<status, answered, day>>

Crash ==
    /\ faults < MaxFaults
    /\ req' = [r \in Requests |-> Idle]
    /\ faults' = faults + 1
    /\ UNCHANGED <<sessions, status, answered, issued, day>>

-----------------------------------------------------------------------------
Login(r) ==
    \/ LoginOldest(r)
    \/ LoginRevoke(r)
    \/ LoginCreate(r)

Refresh(r) ==
    \/ RefreshRevokeInactive(r)
    \/ RefreshRenew(r)

Authenticated(r) ==
    \/ AuthActivity(r)
    \/ HandleOther(r)
    \/ \E s \in SessionIds : RevokeSessionFind(r, s)
    \/ RevokeAllFind(r)
    \/ RevokeNext(r)

Arrive(r) ==
    \/ \E u \in Users : LoginCount(r, u)
    \/ \E token \in answered : RefreshRead(r, token.refresh) \/ Authenticate(r, token)

Fault ==
    \/ \E r \in Requests : RequestFails(r) \/ AnswerLost(r)
    \/ Crash

Next ==
    \/ \E r \in Requests : Arrive(r) \/ Login(r) \/ Refresh(r) \/ Authenticated(r)
    \/ \E u \in Users, to \in {"active", "suspended"} : SetStatus(u, to)
    \/ Tick
    \/ Fault

Spec == Init /\ [][Next]_vars

-----------------------------------------------------------------------------
TypeOK ==
    /\ sessions \in [SessionIds -> Session \cup {NoSession}]
    /\ status \in [Users -> {"active", "suspended"}]
    /\ answered \subseteq TokenPair
    /\ req \in [Requests -> {Idle} \cup LoginRequest \cup RefreshRequest \cup AuthRequest]
    /\ issued \in Nat
    /\ day \in Nat
    /\ faults \in Nat

\* A revoked session stays revoked, whichever renewal, activity or revocation
\* that read it before is written after (updateSession writes by id, and only
\* the columns it is given).
RevokedIsFinal ==
    [][\A s \in SessionIds : sessions[s].revoked => sessions'[s].revoked]_vars

\* If a user's logins do not overlap, the user never has more sessions than
\* MAX_SESSIONS_PER_USER, whatever else runs between their count, their
\* revocation and their insertion.
SessionLimit ==
    \A u \in Users : Cardinality(LiveSessions(u)) <= MaxUserSession

\* Once a session's refresh token is rotated, the access tokens handed out
\* before stop working: no rotation reuses a version or goes back to one.
RotationIsFresh ==
    [][\A s \in SessionIds :
          sessions[s] # NoSession /\ sessions'[s].hash # sessions[s].hash =>
              /\ sessions'[s].ver > sessions[s].ver
              /\ \A token \in answered : token.sid = s => token.ver < sessions'[s].ver]_vars

\* As long as no answer is lost, the last tokens a client was given keep working:
\* for every session there is a client with the very refresh token and version
\* the row asks for.
HolderKeepsAccess ==
    faults = 0 => \A s \in SessionIds : sessions[s] # NoSession =>
        [refresh |-> sessions[s].hash, sid |-> s, ver |-> sessions[s].ver] \in answered

=============================================================================
