------------------------- MODULE UserSessionProofs -------------------------
(***************************************************************************)
(* Proofs about UserSession, for every set of users, session ids and       *)
(* requests and every bound.                                               *)
(***************************************************************************)
EXTENDS UserSession, FiniteSetTheorems, TLAPS

\* The session a request names is a row of the table, and stays one: rows are
\* never deleted.
Present ==
    \A r \in Requests :
        /\ req[r].sid # None => sessions[req[r].sid] # NoSession
        /\ \A s \in req[r].todo : sessions[s] # NoSession

IndInv == TypeOK /\ Present

-----------------------------------------------------------------------------
\* The requests by their states.
LEMMA RequestCases ==
    ASSUME TypeOK, NEW r \in Requests
    PROVE  /\ req[r].pc \in {"oldest", "revokeOldest", "create"} => req[r] \in LoginRequest
           /\ req[r].pc \in {"renew", "revokeInactive"} => req[r] \in RefreshRequest
           /\ req[r].pc \in {"activity", "handler", "revoke", "revokeAll"} => req[r] \in AuthRequest
           /\ req[r].pc = "idle" => req[r] = Idle
  <1>1. req[r] \in {Idle} \cup LoginRequest \cup RefreshRequest \cup AuthRequest
    BY DEF TypeOK
  <1> QED  BY <1>1 DEF Idle, LoginRequest, RefreshRequest, AuthRequest

\* A row of the table that is there is a Session.
LEMMA RowType ==
    ASSUME TypeOK, NEW s \in SessionIds, sessions[s] # NoSession
    PROVE  sessions[s] \in Session
  BY DEF TypeOK

\* A live session of a user is a row.
LEMMA LivePresent ==
    ASSUME NEW u \in Users, NEW s \in LiveSessions(u)
    PROVE  s \in SessionIds /\ sessions[s] # NoSession /\ ~sessions[s].revoked
  BY SessionAssumption DEF LiveSessions, NoSession

\* What a step may do to the table.
Revokes(s) == sessions[s] # NoSession /\ Revoke(s)

Renews(r) ==
    /\ RefreshRenew(r) \/ AnswerLost(r)
    /\ req[r].pc = "renew"
    /\ sessions[req[r].sid] # NoSession
    /\ RenewSession(req[r].sid, req[r].ver)

Notes(r) ==
    /\ req[r].pc = "activity"
    /\ sessions[req[r].sid] # NoSession
    /\ sessions' = [sessions EXCEPT ![req[r].sid].last = day]

\* Every step leaves the table, revokes a session, renews one, notes the
\* activity of one or creates one.
LEMMA TableSteps ==
    ASSUME IndInv, [Next]_vars
    PROVE  \/ UNCHANGED sessions
           \/ \E s \in SessionIds : Revokes(s)
           \/ \E r \in Requests : Renews(r)
           \/ \E r \in Requests : Notes(r)
           \/ \E r \in Requests : LoginCreate(r)
  <1>1. ASSUME NEW r \in Requests, LoginRevoke(r) \/ RefreshRevokeInactive(r)
        PROVE  UNCHANGED sessions \/ \E s \in SessionIds : Revokes(s)
    <2>1. req[r] \in LoginRequest \cup RefreshRequest
      BY <1>1, RequestCases DEF IndInv, LoginRevoke, RefreshRevokeInactive
    <2>2. req[r].sid \in SessionIds \/ req[r].sid = None
      BY <2>1 DEF LoginRequest, RefreshRequest
    <2>3. CASE req[r].sid = None
      BY <1>1, <2>3, SessionAssumption DEF LoginRevoke, RefreshRevokeInactive, Revoke, IndInv, TypeOK
    <2>4. CASE req[r].sid \in SessionIds
      BY <1>1, <2>4, SessionAssumption DEF LoginRevoke, RefreshRevokeInactive, Revokes, IndInv, Present
    <2> QED  BY <2>2, <2>3, <2>4
  <1>2. ASSUME NEW r \in Requests, RefreshRenew(r) \/ AnswerLost(r)
        PROVE  Renews(r)
    <2>1. req[r] \in RefreshRequest
      BY <1>2, RequestCases DEF IndInv, RefreshRenew, AnswerLost
    <2> QED  BY <1>2, <2>1, SessionAssumption
             DEF RefreshRenew, AnswerLost, Renews, IndInv, Present, RefreshRequest
  <1>3. ASSUME NEW r \in Requests, AuthActivity(r)
        PROVE  Notes(r)
    <2>1. req[r] \in AuthRequest
      BY <1>3, RequestCases DEF IndInv, AuthActivity
    <2> QED  BY <1>3, <2>1, SessionAssumption
             DEF AuthActivity, Notes, IndInv, Present, AuthRequest
  <1>4. ASSUME NEW r \in Requests, RevokeNext(r)
        PROVE  \E s \in SessionIds : Revokes(s)
    <2>1. req[r] \in AuthRequest
      BY <1>4, RequestCases DEF IndInv, RevokeNext
    <2> QED  BY <1>4, <2>1 DEF RevokeNext, Revokes, IndInv, Present, AuthRequest
  <1> QED  BY <1>1, <1>2, <1>3, <1>4
           DEF Next, vars, Arrive, Login, Refresh, Authenticated, Fault, LoginCount, LoginOldest,
               RefreshRead, Authenticate, HandleOther, RevokeSessionFind, RevokeAllFind,
               SetStatus, Tick, RequestFails, Crash

\* A row that is written stays a row of the same user.
LEMMA RevokedRow ==
    ASSUME NEW old \in Session
    PROVE  /\ [old EXCEPT !.revoked = TRUE] \in Session
           /\ [old EXCEPT !.revoked = TRUE].user = old.user
  BY DEF Session

LEMMA NotedRow ==
    ASSUME NEW old \in Session, NEW d \in Nat
    PROVE  /\ [old EXCEPT !.last = d] \in Session
           /\ [old EXCEPT !.last = d].user = old.user
  BY DEF Session

Renewed(old, n, v, d) == [old EXCEPT !.hash = n, !.ver = v, !.last = d]

\* The table keeps its type, and its rows their users.
TableKept ==
    /\ sessions' \in [SessionIds -> Session \cup {NoSession}]
    /\ \A s \in SessionIds : sessions[s] # NoSession =>
         sessions'[s] # NoSession /\ sessions'[s].user = sessions[s].user

LEMMA TableType ==
    ASSUME IndInv, [Next]_vars
    PROVE  TableKept
  <1> USE DEF IndInv
  <1>0. \A s \in Session : s # NoSession
    BY SessionAssumption DEF Session, NoSession
  <1>1. ASSUME NEW s \in SessionIds, NEW new \in Session, sessions[s] # NoSession,
               new.user = sessions[s].user, sessions' = [sessions EXCEPT ![s] = new]
        PROVE  TableKept
    BY <1>0, <1>1 DEF TypeOK, TableKept
  <1>2. CASE UNCHANGED sessions
    BY <1>2 DEF TypeOK, TableKept
  <1>3. ASSUME NEW s \in SessionIds, Revokes(s)
        PROVE  TableKept
    <2>1. sessions[s] \in Session
      BY <1>3, RowType DEF Revokes
    <2>2. sessions' = [sessions EXCEPT ![s] = [sessions[s] EXCEPT !.revoked = TRUE]]
      BY <1>3 DEF Revokes, Revoke
    <2>3. /\ [sessions[s] EXCEPT !.revoked = TRUE] \in Session
          /\ [sessions[s] EXCEPT !.revoked = TRUE].user = sessions[s].user
      BY <2>1, RevokedRow
    <2> QED  BY <1>1, <1>3, <2>2, <2>3 DEF Revokes
  <1>4. ASSUME NEW r \in Requests, Renews(r)
        PROVE  TableKept
    <2> DEFINE s == req[r].sid
               n == issued + 1
               v == req[r].ver + 1
    <2>1. req[r] \in RefreshRequest
      BY <1>4, RequestCases DEF Renews
    <2>2. s \in SessionIds /\ v \in Nat /\ n \in Nat /\ day \in Nat
      BY <2>1 DEF RefreshRequest, TypeOK
    <2>3. sessions[s] \in Session
      BY <1>4, <2>2, RowType DEF Renews
    <2>4. sessions' = [sessions EXCEPT ![s] = Renewed(sessions[s], n, v, day)]
      BY <1>4 DEF Renews, RenewSession, Renewed
    <2>5. sessions[s] # NoSession
      BY <1>4 DEF Renews
    <2> HIDE DEF s, n, v
    <2>6. /\ Renewed(sessions[s], n, v, day) \in Session
          /\ Renewed(sessions[s], n, v, day).user = sessions[s].user
      BY <2>2, <2>3 DEF Renewed, Session
    <2> QED  BY <1>1, <2>2, <2>4, <2>5, <2>6
  <1>5. ASSUME NEW r \in Requests, Notes(r)
        PROVE  TableKept
    <2> DEFINE s == req[r].sid
    <2>1. req[r] \in AuthRequest
      BY <1>5, RequestCases DEF Notes
    <2>2. s \in SessionIds /\ day \in Nat
      BY <2>1 DEF AuthRequest, TypeOK
    <2>3. sessions[s] \in Session
      BY <1>5, <2>2, RowType DEF Notes
    <2>4. sessions' = [sessions EXCEPT ![s] = [sessions[s] EXCEPT !.last = day]]
      BY <1>5 DEF Notes
    <2>5. /\ [sessions[s] EXCEPT !.last = day] \in Session
          /\ [sessions[s] EXCEPT !.last = day].user = sessions[s].user
      BY <2>2, <2>3, NotedRow
    <2>6. sessions[s] # NoSession
      BY <1>5 DEF Notes
    <2> HIDE DEF s
    <2> QED  BY <1>1, <2>2, <2>4, <2>5, <2>6
  <1>6. ASSUME NEW r \in Requests, LoginCreate(r)
        PROVE  TableKept
    <2>1. req[r] \in LoginRequest
      BY <1>6, RequestCases DEF LoginCreate
    <2>2. PICK s \in SessionIds, days \in Lifetimes :
            /\ sessions[s] = NoSession
            /\ sessions' = [sessions EXCEPT ![s] =
                 InitializeSession(req[r].user, issued + 1, days)]
      BY <1>6 DEF LoginCreate
    <2>3. InitializeSession(req[r].user, issued + 1, days) \in Session
      BY <2>1, SessionAssumption DEF InitializeSession, Session, LoginRequest, TypeOK
    <2> QED  BY <2>2, <2>3 DEF TypeOK, TableKept
  <1> QED  BY <1>2, <1>3, <1>4, <1>5, <1>6, TableSteps

-----------------------------------------------------------------------------
\* The requests a step may leave behind.
RequestSet == {Idle} \cup LoginRequest \cup RefreshRequest \cup AuthRequest

\* A request whose session and list are rows of the table before the step.
Grounded(x) ==
    /\ x \in RequestSet
    /\ x.sid # None => sessions[x.sid] # NoSession
    /\ \A s \in x.todo : sessions[s] # NoSession

LEMMA IdleGrounded == Grounded(Idle)
  BY DEF Grounded, RequestSet, Idle

LEMMA RequestKept ==
    ASSUME IndInv, [Next]_vars
    PROVE  /\ req' \in [Requests -> RequestSet]
           /\ \A r \in Requests : Grounded(req'[r])
  <1> USE DEF IndInv
  <1>0. ASSUME NEW r \in Requests
        PROVE  Grounded(req[r])
    BY DEF TypeOK, Present, Grounded, RequestSet
  <1>1. ASSUME NEW r \in Requests, NEW new, Grounded(new), req' = [req EXCEPT ![r] = new]
        PROVE  /\ req' \in [Requests -> RequestSet]
               /\ \A q \in Requests : Grounded(req'[q])
    BY <1>0, <1>1 DEF TypeOK, Grounded, RequestSet
  <1>2. CASE req' = req
    BY <1>0, <1>2 DEF TypeOK, RequestSet
  <1>3. CASE Crash
    BY <1>3, IdleGrounded DEF Crash, RequestSet
  <1>4. ASSUME NEW r \in Requests, NEW u \in Users, LoginCount(r, u)
        PROVE  \E new : Grounded(new) /\ req' = [req EXCEPT ![r] = new]
    <2> DEFINE new == [Idle EXCEPT !.user = u,
                         !.pc = IF Cardinality(LiveSessions(u)) >= MaxUserSession
                                THEN "oldest" ELSE "create"]
    <2>1. new \in LoginRequest /\ new.sid = None /\ new.todo = {}
      BY DEF LoginRequest, Idle
    <2> QED  BY <1>4, <2>1 DEF LoginCount, Grounded, RequestSet
  <1>5. ASSUME NEW r \in Requests, LoginOldest(r)
        PROVE  \E new : Grounded(new) /\ req' = [req EXCEPT ![r] = new]
    <2>1. req[r] \in LoginRequest
      BY <1>5, RequestCases DEF LoginOldest
    <2>2. CASE req' = [req EXCEPT ![r].pc = "create"]
      <3>1. [req[r] EXCEPT !.pc = "create"] \in LoginRequest
        BY <2>1 DEF LoginRequest
      <3>2. /\ [req[r] EXCEPT !.pc = "create"].sid = req[r].sid
            /\ [req[r] EXCEPT !.pc = "create"].todo = req[r].todo
        BY <2>1 DEF LoginRequest
      <3> QED  BY <1>0, <2>2, <3>1, <3>2 DEF Grounded, RequestSet
    <2>3. ASSUME NEW s \in LiveSessions(req[r].user),
                 req' = [req EXCEPT ![r].pc = "revokeOldest", ![r].sid = s]
          PROVE  \E new : Grounded(new) /\ req' = [req EXCEPT ![r] = new]
      <3> DEFINE new == [req[r] EXCEPT !.pc = "revokeOldest", !.sid = s]
      <3>1. s \in SessionIds /\ sessions[s] # NoSession
        BY <2>1, LivePresent DEF LoginRequest
      <3>2. new \in LoginRequest /\ new.sid = s /\ new.todo = {}
        BY <2>1, <3>1 DEF LoginRequest
      <3>3. req' = [req EXCEPT ![r] = new]
        BY <2>3
      <3> QED  BY <3>1, <3>2, <3>3 DEF Grounded, RequestSet
    <2> QED  BY <1>5, <2>2, <2>3 DEF LoginOldest
  <1>6. ASSUME NEW r \in Requests, LoginRevoke(r)
        PROVE  \E new : Grounded(new) /\ req' = [req EXCEPT ![r] = new]
    <2>1. req[r] \in LoginRequest
      BY <1>6, RequestCases DEF LoginRevoke
    <2>2. [req[r] EXCEPT !.pc = "create"] \in LoginRequest
      BY <2>1 DEF LoginRequest
    <2>3. /\ [req[r] EXCEPT !.pc = "create"].sid = req[r].sid
          /\ [req[r] EXCEPT !.pc = "create"].todo = req[r].todo
      BY <2>1 DEF LoginRequest
    <2> QED  BY <1>0, <1>6, <2>2, <2>3 DEF Grounded, RequestSet, LoginRevoke
  <1>7. ASSUME NEW r \in Requests, NEW token \in answered, RefreshRead(r, token.refresh)
        PROVE  \E new : Grounded(new) /\ req' = [req EXCEPT ![r] = new]
    <2>1. PICK s \in SessionIds :
            /\ sessions[s] # NoSession
            /\ req' = [req EXCEPT ![r] =
                 [pc |-> IF day - sessions[s].last > InactiveDays
                         THEN "revokeInactive" ELSE "renew",
                  user |-> sessions[s].user, sid |-> s, ver |-> sessions[s].ver, todo |-> {}]]
      BY <1>7 DEF RefreshRead
    <2>2. sessions[s].user \in Users /\ sessions[s].ver \in Nat
      BY <2>1, RowType DEF Session
    <2>3. [pc |-> IF day - sessions[s].last > InactiveDays THEN "revokeInactive" ELSE "renew",
           user |-> sessions[s].user, sid |-> s, ver |-> sessions[s].ver, todo |-> {}]
             \in RefreshRequest
      BY <2>2 DEF RefreshRequest
    <2> QED  BY <2>1, <2>3 DEF Grounded, RequestSet
  <1>8. ASSUME NEW r \in Requests, NEW token \in answered, Authenticate(r, token)
        PROVE  \E new : Grounded(new) /\ req' = [req EXCEPT ![r] = new]
    <2>1. token.sid \in SessionIds /\ sessions[token.sid] # NoSession
      BY <1>8 DEF Authenticate, TypeOK, TokenPair
    <2>2. sessions[token.sid].user \in Users
      BY <2>1, RowType DEF Session
    <2> DEFINE new == [Idle EXCEPT !.pc = "activity", !.user = sessions[token.sid].user,
                                   !.sid = token.sid]
    <2>3. new \in AuthRequest /\ new.sid = token.sid /\ new.todo = {}
      BY <2>1, <2>2 DEF AuthRequest, Idle
    <2> QED  BY <1>8, <2>1, <2>3 DEF Authenticate, Grounded, RequestSet
  <1>9. ASSUME NEW r \in Requests, AuthActivity(r)
        PROVE  \E new : Grounded(new) /\ req' = [req EXCEPT ![r] = new]
    <2>1. req[r] \in AuthRequest
      BY <1>9, RequestCases DEF AuthActivity
    <2>2. [req[r] EXCEPT !.pc = "handler"] \in AuthRequest
      BY <2>1 DEF AuthRequest
    <2>3. /\ [req[r] EXCEPT !.pc = "handler"].sid = req[r].sid
          /\ [req[r] EXCEPT !.pc = "handler"].todo = req[r].todo
      BY <2>1 DEF AuthRequest
    <2> QED  BY <1>0, <1>9, <2>2, <2>3 DEF Grounded, RequestSet, AuthActivity
  <1>10. ASSUME NEW r \in Requests,
                (\E s \in SessionIds : RevokeSessionFind(r, s)) \/ RevokeAllFind(r)
         PROVE  \E new : Grounded(new) /\ req' = [req EXCEPT ![r] = new]
    <2>1. req[r] \in AuthRequest
      BY <1>10, RequestCases DEF RevokeSessionFind, RevokeAllFind
    <2>2. ASSUME NEW p \in {"revoke", "revokeAll"}, NEW todo \in SUBSET LiveSessions(req[r].user)
          PROVE  Grounded([req[r] EXCEPT !.pc = p, !.todo = todo])
      <3> DEFINE new == [req[r] EXCEPT !.pc = p, !.todo = todo]
      <3>1. \A s \in todo : s \in SessionIds /\ sessions[s] # NoSession
        BY <2>1, LivePresent DEF AuthRequest
      <3>2. new \in AuthRequest /\ new.sid = req[r].sid /\ new.todo = todo
        BY <2>1, <3>1 DEF AuthRequest
      <3> QED  BY <1>0, <3>1, <3>2 DEF Grounded, RequestSet
    <2>3. \/ Respond(r)
          \/ \E p \in {"revoke", "revokeAll"}, todo \in SUBSET LiveSessions(req[r].user) :
               req' = [req EXCEPT ![r] = [req[r] EXCEPT !.pc = p, !.todo = todo]]
      <3>1. ASSUME NEW s \in SessionIds, RevokeSessionFind(r, s)
            PROVE  /\ {s} \in SUBSET LiveSessions(req[r].user)
                   /\ req' = [req EXCEPT ![r] = [req[r] EXCEPT !.pc = "revoke", !.todo = {s}]]
        BY <3>1 DEF RevokeSessionFind, TypeOK
      <3>2. ASSUME RevokeAllFind(r), ~Respond(r)
            PROVE  req' = [req EXCEPT ![r] =
                     [req[r] EXCEPT !.pc = "revokeAll", !.todo = LiveSessions(req[r].user)]]
        BY <3>2 DEF RevokeAllFind, TypeOK
      <3> QED  BY <1>10, <3>1, <3>2
    <2> QED  BY <2>2, <2>3, IdleGrounded DEF Respond
  <1>11. ASSUME NEW r \in Requests, RevokeNext(r)
         PROVE  \E new : Grounded(new) /\ req' = [req EXCEPT ![r] = new]
    <2>1. req[r] \in AuthRequest
      BY <1>11, RequestCases DEF RevokeNext
    <2>2. ASSUME NEW s
          PROVE  Grounded([req[r] EXCEPT !.todo = @ \ {s}])
      <3> DEFINE new == [req[r] EXCEPT !.todo = @ \ {s}]
      <3>1. new \in AuthRequest /\ new.sid = req[r].sid /\ new.todo = req[r].todo \ {s}
        BY <2>1 DEF AuthRequest
      <3> QED  BY <1>0, <3>1 DEF Grounded, RequestSet
    <2>3. \/ Respond(r)
          \/ \E s \in req[r].todo : req' = [req EXCEPT ![r] = [req[r] EXCEPT !.todo = @ \ {s}]]
      BY <1>11 DEF RevokeNext
    <2> QED  BY <2>2, <2>3, IdleGrounded DEF Respond
  <1>12. ASSUME NEW r \in Requests, Respond(r)
         PROVE  \E new : Grounded(new) /\ req' = [req EXCEPT ![r] = new]
    BY <1>12, IdleGrounded DEF Respond
  <1>13. \/ req' = req
         \/ Crash
         \/ \E r \in Requests :
              \/ \E u \in Users : LoginCount(r, u)
              \/ \E token \in answered : RefreshRead(r, token.refresh) \/ Authenticate(r, token)
              \/ LoginOldest(r) \/ LoginRevoke(r) \/ AuthActivity(r) \/ RevokeNext(r)
              \/ (\E s \in SessionIds : RevokeSessionFind(r, s)) \/ RevokeAllFind(r)
              \/ Respond(r)
    BY DEF Next, vars, Arrive, Login, Refresh, Authenticated, Fault, LoginCreate, RefreshRenew,
           RefreshRevokeInactive, HandleOther, SetStatus, Tick, RequestFails, AnswerLost
  <1>14. CASE \E r \in Requests : \E new : Grounded(new) /\ req' = [req EXCEPT ![r] = new]
    BY <1>1, <1>14
  <1> QED  BY <1>2, <1>3, <1>4, <1>5, <1>6, <1>7, <1>8, <1>9, <1>10, <1>11, <1>12, <1>13, <1>14

-----------------------------------------------------------------------------
\* Token pairs keep their type: each is answered for a request's own session.
LEMMA AnswersKept ==
    ASSUME IndInv, [Next]_vars
    PROVE  answered' \subseteq TokenPair /\ issued' \in Nat
  <1> USE DEF IndInv
  <1>1. ASSUME NEW r \in Requests, LoginCreate(r)
        PROVE  answered' \subseteq TokenPair /\ issued' \in Nat
    BY <1>1 DEF LoginCreate, TypeOK, TokenPair
  <1>2. ASSUME NEW r \in Requests, RefreshRenew(r)
        PROVE  answered' \subseteq TokenPair /\ issued' \in Nat
    <2>1. req[r] \in RefreshRequest
      BY <1>2, RequestCases DEF RefreshRenew
    <2>2. req[r].sid \in SessionIds /\ req[r].ver \in Nat
      BY <2>1 DEF RefreshRequest
    <2> QED  BY <1>2, <2>2 DEF RefreshRenew, RenewSession, TypeOK, TokenPair
  <1>3. ASSUME NEW r \in Requests, AnswerLost(r)
        PROVE  answered' \subseteq TokenPair /\ issued' \in Nat
    BY <1>3 DEF AnswerLost, RenewSession, TypeOK
  <1>4. \/ answered' = answered /\ issued' = issued
        \/ \E r \in Requests : LoginCreate(r) \/ RefreshRenew(r) \/ AnswerLost(r)
    BY DEF Next, vars, Arrive, Login, Refresh, Authenticated, Fault, LoginCount, LoginOldest,
           LoginRevoke, RefreshRead, RefreshRevokeInactive, Authenticate, AuthActivity,
           HandleOther, RevokeSessionFind, RevokeAllFind, RevokeNext, SetStatus, Tick,
           RequestFails, Crash
  <1> QED  BY <1>1, <1>2, <1>3, <1>4 DEF TypeOK

\* The rest of the variables keep theirs.
LEMMA OthersKept ==
    ASSUME IndInv, [Next]_vars
    PROVE  /\ status' \in [Users -> {"active", "suspended"}]
           /\ day' \in Nat
           /\ faults' \in Nat
  <1>1. \/ status' = status
        \/ \E u \in Users, to \in {"active", "suspended"} : status' = [status EXCEPT ![u] = to]
    BY DEF Next, vars, Arrive, Login, Refresh, Authenticated, Fault, LoginCount, LoginOldest,
           LoginRevoke, LoginCreate, RefreshRead, RefreshRevokeInactive, RefreshRenew,
           Authenticate, AuthActivity, HandleOther, RevokeSessionFind, RevokeAllFind,
           RevokeNext, SetStatus, Tick, RequestFails, AnswerLost, Crash
  <1>2. (day' = day \/ day' = day + 1) /\ (faults' = faults \/ faults' = faults + 1)
    BY DEF Next, vars, Arrive, Login, Refresh, Authenticated, Fault, LoginCount, LoginOldest,
           LoginRevoke, LoginCreate, RefreshRead, RefreshRevokeInactive, RefreshRenew,
           Authenticate, AuthActivity, HandleOther, RevokeSessionFind, RevokeAllFind,
           RevokeNext, SetStatus, Tick, RequestFails, AnswerLost, Crash
  <1> QED  BY <1>1, <1>2 DEF IndInv, TypeOK

LEMMA Inductive ==
    /\ Init => IndInv
    /\ IndInv /\ [Next]_vars => IndInv'
  <1>1. ASSUME Init PROVE IndInv
    <2>1. TypeOK
      BY <1>1 DEF Init, TypeOK
    <2>2. Present
      BY <1>1, SessionAssumption DEF Init, Present, Idle
    <2> QED  BY <2>1, <2>2 DEF IndInv
  <1>2. ASSUME IndInv, [Next]_vars PROVE IndInv'
    <2>1. TypeOK'
      BY <1>2, TableType, RequestKept, AnswersKept, OthersKept
      DEF TypeOK, TableKept, RequestSet
    <2>2. Present'
      <3>1. ASSUME NEW r \in Requests
            PROVE  /\ req'[r].sid # None => sessions'[req'[r].sid] # NoSession
                   /\ \A s \in req'[r].todo : sessions'[s] # NoSession
        <4>1. Grounded(req'[r])
          BY <1>2, RequestKept
        <4>2. (req'[r].sid = None \/ req'[r].sid \in SessionIds) /\ req'[r].todo \subseteq SessionIds
          BY <4>1 DEF Grounded, RequestSet, Idle, LoginRequest, RefreshRequest, AuthRequest
        <4> QED  BY <1>2, <4>1, <4>2, TableType DEF Grounded, TableKept
      <3> QED  BY <3>1 DEF Present
    <2> QED  BY <2>1, <2>2 DEF IndInv
  <1> QED  BY <1>1, <1>2

LEMMA Invariance == Spec => []IndInv
  BY Inductive, PTL DEF Spec

\* Sessions, requests and token pairs keep their types in every reachable
\* state: no update is written to a session that is not there.
THEOREM TypeCorrect == Spec => []TypeOK
  <1>1. IndInv => TypeOK
    BY DEF IndInv
  <1> QED  BY <1>1, Invariance, PTL

-----------------------------------------------------------------------------
\* A revoked session is revoked for good: each update of a row is by id and
\* leaves revokedAt alone or sets it, whatever its request read before.
THEOREM RevokedSafe == Spec => RevokedIsFinal
  <1>1. ASSUME IndInv, [Next]_vars
        PROVE  \A s \in SessionIds : sessions[s].revoked => sessions'[s].revoked
    <2> USE DEF IndInv
    <2>1. ASSUME NEW t \in SessionIds, Revokes(t)
          PROVE  \A s \in SessionIds : sessions[s].revoked => sessions'[s].revoked
      BY <2>1, RowType DEF Revokes, Revoke, TypeOK, Session
    <2>2. ASSUME NEW r \in Requests, Renews(r)
          PROVE  \A s \in SessionIds : sessions[s].revoked => sessions'[s].revoked
      <3>1. sessions' = [sessions EXCEPT ![req[r].sid] =
                           Renewed(sessions[req[r].sid], issued + 1, req[r].ver + 1, day)]
        BY <2>2 DEF Renews, RenewSession, Renewed
      <3>2. req[r].sid \in SessionIds
        <4>1. req[r] \in RefreshRequest
          BY <1>1, <2>2, RequestCases DEF Renews
        <4> QED  BY <4>1 DEF RefreshRequest
      <3>3. Renewed(sessions[req[r].sid], issued + 1, req[r].ver + 1, day).revoked
              = sessions[req[r].sid].revoked
        BY <2>2, <3>2, RowType DEF Renews, Session, Renewed
      <3> QED  BY <3>1, <3>2, <3>3 DEF TypeOK
    <2>3. ASSUME NEW r \in Requests, Notes(r)
          PROVE  \A s \in SessionIds : sessions[s].revoked => sessions'[s].revoked
      <3>1. req[r].sid \in SessionIds
        <4>1. req[r] \in AuthRequest
          BY <1>1, <2>3, RequestCases DEF Notes
        <4> QED  BY <4>1 DEF AuthRequest
      <3>2. [sessions[req[r].sid] EXCEPT !.last = day].revoked = sessions[req[r].sid].revoked
        BY <2>3, <3>1, RowType DEF Notes, Session
      <3> QED  BY <2>3, <3>1, <3>2 DEF TypeOK, Notes
    <2>4. ASSUME NEW r \in Requests, LoginCreate(r)
          PROVE  \A s \in SessionIds : sessions[s].revoked => sessions'[s].revoked
      BY <2>4 DEF LoginCreate, NoSession, TypeOK
    <2> QED  BY <1>1, <2>1, <2>2, <2>3, <2>4, TableSteps
  <1>2. IndInv /\ [Next]_vars =>
          [\A s \in SessionIds : sessions[s].revoked => sessions'[s].revoked]_vars
    BY <1>1
  <1> QED  BY <1>2, Invariance, PTL DEF Spec, RevokedIsFinal

-----------------------------------------------------------------------------
(***************************************************************************)
(* The tokens.  A step gives a row a new hash and version in two ways, and *)
(* both hand them out.                                                     *)
(***************************************************************************)
\* No row is made, and none gets a new token.
Quiet ==
    /\ answered' = answered
    /\ \A s \in SessionIds :
         /\ sessions'[s] = NoSession <=> sessions[s] = NoSession
         /\ sessions'[s].hash = sessions[s].hash
         /\ sessions'[s].ver = sessions[s].ver

\* The row a renewal writes.
LEMMA RenewedRow ==
    ASSUME IndInv, NEW r \in Requests, Renews(r)
    PROVE  /\ req[r].sid \in SessionIds /\ req[r].ver \in Nat /\ issued \in Nat
           /\ sessions[req[r].sid] \in Session
           /\ sessions'[req[r].sid] # NoSession
           /\ sessions'[req[r].sid].hash = issued + 1
           /\ sessions'[req[r].sid].ver = req[r].ver + 1
           /\ \A s \in SessionIds : s # req[r].sid => sessions'[s] = sessions[s]
           /\ answered' \subseteq answered \cup
                {[refresh |-> issued + 1, sid |-> req[r].sid, ver |-> req[r].ver + 1]}
           /\ answered \subseteq answered'
           /\ req'[r] = Idle
  <1> DEFINE s == req[r].sid
             new == Renewed(sessions[s], issued + 1, req[r].ver + 1, day)
  <1>1. req[r] \in RefreshRequest
    BY RequestCases DEF Renews, IndInv
  <1>2. s \in SessionIds /\ req[r].ver \in Nat /\ issued \in Nat /\ day \in Nat
    BY <1>1 DEF RefreshRequest, IndInv, TypeOK
  <1>3. sessions[s] \in Session
    BY <1>2, RowType DEF Renews, IndInv
  <1>4. sessions' = [sessions EXCEPT ![s] = new]
    BY DEF Renews, RenewSession, Renewed
  <1>5. new \in Session /\ new.hash = issued + 1 /\ new.ver = req[r].ver + 1
    <2> DEFINE n == issued + 1
               v == req[r].ver + 1
    <2>1. n \in Nat /\ v \in Nat
      BY <1>2
    <2> HIDE DEF s, n, v
    <2>2. /\ Renewed(sessions[s], n, v, day) \in Session
          /\ Renewed(sessions[s], n, v, day).hash = n
          /\ Renewed(sessions[s], n, v, day).ver = v
      BY <1>2, <1>3, <2>1 DEF Renewed, Session
    <2> QED  BY <2>2 DEF n, v
  <1>6. new # NoSession
    BY <1>5, SessionAssumption DEF Session, NoSession
  <1> HIDE DEF new
  <1>7. sessions'[s] = new /\ \A t \in SessionIds : t # s => sessions'[t] = sessions[t]
    BY <1>2, <1>4 DEF IndInv, TypeOK
  <1>8. /\ answered' \subseteq answered \cup
                {[refresh |-> issued + 1, sid |-> req[r].sid, ver |-> req[r].ver + 1]}
        /\ answered \subseteq answered'
        /\ req'[r] = Idle
    BY DEF Renews, RefreshRenew, AnswerLost, Respond, IndInv, TypeOK
  <1> QED  BY <1>2, <1>3, <1>5, <1>6, <1>7, <1>8

\* The row a login makes.
LEMMA CreatedRow ==
    ASSUME IndInv, NEW r \in Requests, LoginCreate(r)
    PROVE  \E s \in SessionIds :
             /\ sessions[s] = NoSession /\ sessions'[s] # NoSession
             /\ sessions'[s].hash = issued + 1 /\ sessions'[s].ver = 1
             /\ \A t \in SessionIds : t # s => sessions'[t] = sessions[t]
             /\ answered' = answered \cup {[refresh |-> issued + 1, sid |-> s, ver |-> 1]}
  <1>1. PICK s \in SessionIds, days \in Lifetimes :
          /\ sessions[s] = NoSession
          /\ sessions' = [sessions EXCEPT ![s] =
               InitializeSession(req[r].user, issued + 1, days)]
          /\ answered' = answered \cup {[refresh |-> issued + 1, sid |-> s, ver |-> 1]}
    BY DEF LoginCreate
  <1>2. /\ InitializeSession(req[r].user, issued + 1, days).hash = issued + 1
        /\ InitializeSession(req[r].user, issued + 1, days).ver = 1
        /\ InitializeSession(req[r].user, issued + 1, days) # NoSession
    BY DEF InitializeSession, NoSession
  <1> QED  BY <1>1, <1>2 DEF IndInv, TypeOK

LEMMA KeySteps ==
    ASSUME IndInv, [Next]_vars
    PROVE  \/ Quiet
           \/ \E r \in Requests : LoginCreate(r) \/ Renews(r)
  <1> SUFFICES ASSUME \A r \in Requests : ~LoginCreate(r) /\ ~Renews(r)
               PROVE  Quiet
    OBVIOUS
  <1>1. \A r \in Requests : ~RefreshRenew(r) /\ ~AnswerLost(r)
    <2>1. ASSUME NEW r \in Requests, RefreshRenew(r) \/ AnswerLost(r)
          PROVE  Renews(r)
      <3>1. req[r] \in RefreshRequest
        BY <2>1, RequestCases DEF IndInv, RefreshRenew, AnswerLost
      <3> QED  BY <2>1, <3>1, SessionAssumption
               DEF RefreshRenew, AnswerLost, Renews, IndInv, Present, RefreshRequest
    <2> QED  BY <2>1
  <1>2. answered' = answered
    BY <1>1 DEF Next, vars, Arrive, Login, Refresh, Authenticated, Fault, LoginCount, LoginOldest,
           LoginRevoke, RefreshRead, RefreshRevokeInactive, Authenticate, AuthActivity,
           HandleOther, RevokeSessionFind, RevokeAllFind, RevokeNext, SetStatus, Tick,
           RequestFails, Crash
  <1>3. CASE UNCHANGED sessions
    BY <1>2, <1>3 DEF Quiet
  <1>4. ASSUME NEW s \in SessionIds, NEW new \in Session, sessions[s] # NoSession,
               sessions' = [sessions EXCEPT ![s] = new],
               new.hash = sessions[s].hash, new.ver = sessions[s].ver
        PROVE  Quiet
    <2>1. new # NoSession
      BY SessionAssumption DEF Session, NoSession
    <2> QED  BY <1>2, <1>4, <2>1 DEF Quiet, IndInv, TypeOK
  <1>5. ASSUME NEW s \in SessionIds, Revokes(s)
        PROVE  Quiet
    <2>1. sessions[s] \in Session /\ sessions[s] # NoSession
      BY <1>5, RowType DEF Revokes, IndInv
    <2>2. sessions' = [sessions EXCEPT ![s] = [sessions[s] EXCEPT !.revoked = TRUE]]
      BY <1>5 DEF Revokes, Revoke
    <2>3. /\ [sessions[s] EXCEPT !.revoked = TRUE] \in Session
          /\ [sessions[s] EXCEPT !.revoked = TRUE].hash = sessions[s].hash
          /\ [sessions[s] EXCEPT !.revoked = TRUE].ver = sessions[s].ver
      BY <2>1 DEF Session
    <2> QED  BY <1>4, <2>1, <2>2, <2>3
  <1>6. ASSUME NEW r \in Requests, Notes(r)
        PROVE  Quiet
    <2> DEFINE s == req[r].sid
    <2>1. req[r] \in AuthRequest
      BY <1>6, RequestCases DEF Notes, IndInv
    <2>2. s \in SessionIds /\ day \in Nat
      BY <2>1 DEF AuthRequest, IndInv, TypeOK
    <2>3. sessions[s] # NoSession /\ sessions' = [sessions EXCEPT ![s] = [sessions[s] EXCEPT !.last = day]]
      BY <1>6 DEF Notes
    <2> HIDE DEF s
    <2>4. sessions[s] \in Session
      BY <2>2, <2>3, RowType DEF IndInv
    <2>5. /\ [sessions[s] EXCEPT !.last = day] \in Session
          /\ [sessions[s] EXCEPT !.last = day].hash = sessions[s].hash
          /\ [sessions[s] EXCEPT !.last = day].ver = sessions[s].ver
      BY <2>2, <2>4 DEF Session
    <2> QED  BY <1>4, <2>2, <2>3, <2>5
  <1> QED  BY <1>3, <1>5, <1>6, TableSteps

\* Whatever logins and refreshes overlap: as long as no answer is lost, some
\* client holds the very tokens a session asks for.
THEOREM HolderKeeps == Spec => []HolderKeepsAccess
  <1>1. Init => HolderKeepsAccess
    BY DEF Init, HolderKeepsAccess
  <1>2. ASSUME IndInv, HolderKeepsAccess, [Next]_vars
        PROVE  HolderKeepsAccess'
    <2>1. SUFFICES ASSUME faults' = 0, NEW s \in SessionIds, sessions'[s] # NoSession
                   PROVE  [refresh |-> sessions'[s].hash, sid |-> s, ver |-> sessions'[s].ver]
                            \in answered'
      BY DEF HolderKeepsAccess
    <2>2. faults = 0
      <3>1. faults' = faults \/ faults' = faults + 1
        BY <1>2 DEF Next, vars, Arrive, Login, Refresh, Authenticated, Fault, LoginCount,
               LoginOldest, LoginRevoke, LoginCreate, RefreshRead, RefreshRevokeInactive,
               RefreshRenew, Authenticate, AuthActivity, HandleOther, RevokeSessionFind,
               RevokeAllFind, RevokeNext, SetStatus, Tick, RequestFails, AnswerLost, Crash
      <3> QED  BY <1>2, <2>1, <3>1 DEF IndInv, TypeOK
    <2>3. sessions[s] # NoSession =>
            [refresh |-> sessions[s].hash, sid |-> s, ver |-> sessions[s].ver] \in answered
      BY <1>2, <2>2 DEF HolderKeepsAccess
    <2>4. CASE Quiet
      BY <2>1, <2>3, <2>4 DEF Quiet
    <2>5. ASSUME NEW r \in Requests, LoginCreate(r)
          PROVE  [refresh |-> sessions'[s].hash, sid |-> s, ver |-> sessions'[s].ver] \in answered'
      <3>1. PICK t \in SessionIds :
              /\ sessions'[t].hash = issued + 1 /\ sessions'[t].ver = 1
              /\ \A x \in SessionIds : x # t => sessions'[x] = sessions[x]
              /\ answered' = answered \cup {[refresh |-> issued + 1, sid |-> t, ver |-> 1]}
        BY <1>2, <2>5, CreatedRow
      <3>2. CASE s = t
        BY <3>1, <3>2
      <3>3. CASE s # t
        BY <2>1, <2>3, <3>1, <3>3
      <3> QED  BY <3>2, <3>3
    <2>6. ASSUME NEW r \in Requests, Renews(r)
          PROVE  [refresh |-> sessions'[s].hash, sid |-> s, ver |-> sessions'[s].ver] \in answered'
      <3>1. RefreshRenew(r)
        BY <1>2, <2>1, <2>2, <2>6 DEF Renews, AnswerLost
      <3>2. [refresh |-> issued + 1, sid |-> req[r].sid, ver |-> req[r].ver + 1] \in answered'
        BY <3>1 DEF RefreshRenew
      <3>3. CASE s = req[r].sid
        BY <1>2, <2>6, <3>2, <3>3, RenewedRow
      <3>4. CASE s # req[r].sid
        <4>1. sessions'[s] = sessions[s] /\ answered \subseteq answered'
          BY <1>2, <2>6, <3>4, RenewedRow
        <4> QED  BY <2>1, <2>3, <4>1
      <3> QED  BY <3>3, <3>4
    <2> QED  BY <1>2, <2>4, <2>5, <2>6, KeySteps
  <1> QED  BY <1>1, <1>2, Invariance, PTL DEF Spec

-----------------------------------------------------------------------------
(***************************************************************************)
(* Rotation, when refreshes of a session do not overlap.  What a renewal   *)
(* writes is the version it read plus one: no other renewal may come       *)
(* between, and no token handed out may be ahead of its row.               *)
(***************************************************************************)
Refreshing(q) == req[q].pc \in {"renew", "revokeInactive"}

OneRefresh ==
    \A q, r \in Requests :
        Refreshing(q) /\ Refreshing(r) /\ req[q].sid = req[r].sid => q = r

ReadVersion ==
    \A r \in Requests : req[r].pc = "renew" => req[r].ver = sessions[req[r].sid].ver

TokensBehind ==
    \A token \in answered :
        sessions[token.sid] # NoSession /\ token.ver <= sessions[token.sid].ver

RotationInv == IndInv /\ OneRefresh /\ ReadVersion /\ TokensBehind

\* A request that is in a refresh was there before, or has just read its session.
LEMMA RefreshMoves ==
    ASSUME IndInv, [Next]_vars, NEW q \in Requests, Refreshing(q)'
    PROVE  \/ req'[q] = req[q]
           \/ \E token \in answered : RefreshRead(q, token.refresh)
  <1> USE DEF IndInv
  <1>1. ASSUME NEW r \in Requests, Respond(r)
        PROVE  req'[q] = req[q]
    BY <1>1 DEF Respond, Idle, Refreshing, TypeOK
  <1>2. ASSUME NEW r \in Requests,
               \/ \E u \in Users : LoginCount(r, u)
               \/ LoginOldest(r) \/ LoginRevoke(r)
        PROVE  req'[q] = req[q]
    <2>1. r # q => req'[q] = req[q]
      BY <1>2 DEF LoginCount, LoginOldest, LoginRevoke, TypeOK
    <2>2. req'[r].pc \in {"oldest", "create", "revokeOldest"}
      <3>1. CASE \E u \in Users : LoginCount(r, u)
        BY <3>1 DEF LoginCount, Idle, TypeOK
      <3>2. CASE LoginOldest(r) \/ LoginRevoke(r)
        <4>1. req[r] \in LoginRequest
          BY <3>2, RequestCases DEF LoginOldest, LoginRevoke
        <4> QED  BY <3>2, <4>1 DEF LoginOldest, LoginRevoke, TypeOK, LoginRequest
      <3> QED  BY <1>2, <3>1, <3>2
    <2> QED  BY <2>1, <2>2 DEF Refreshing
  <1>3. ASSUME NEW r \in Requests,
               \/ AuthActivity(r) \/ RevokeAllFind(r) \/ RevokeNext(r)
               \/ \E s \in SessionIds : RevokeSessionFind(r, s)
        PROVE  req'[q] = req[q]
    <2>1. req[r] \in AuthRequest
      BY <1>3, RequestCases DEF AuthActivity, RevokeAllFind, RevokeNext, RevokeSessionFind
    <2>2. r # q => req'[q] = req[q]
      BY <1>3 DEF AuthActivity, RevokeAllFind, RevokeNext, RevokeSessionFind, Respond, TypeOK
    <2>3. req'[r].pc \in {"handler", "revoke", "revokeAll", "idle"}
      BY <1>3, <2>1 DEF AuthActivity, RevokeAllFind, RevokeNext, RevokeSessionFind, Respond,
                        TypeOK, AuthRequest, Idle
    <2> QED  BY <2>2, <2>3 DEF Refreshing
  <1>4. ASSUME NEW r \in Requests, NEW token \in answered, Authenticate(r, token)
        PROVE  req'[q] = req[q]
    BY <1>4 DEF Authenticate, Idle, Refreshing, TypeOK
  <1>5. ASSUME NEW r \in Requests, NEW token \in answered, RefreshRead(r, token.refresh)
        PROVE  req'[q] = req[q] \/ RefreshRead(q, token.refresh)
    BY <1>5 DEF RefreshRead, TypeOK
  <1>6. ~Crash
    BY DEF Crash, Refreshing, Idle
  <1>7. \/ req' = req
        \/ \E r \in Requests :
             \/ Respond(r)
             \/ \E token \in answered : RefreshRead(r, token.refresh) \/ Authenticate(r, token)
             \/ AuthActivity(r) \/ RevokeAllFind(r) \/ RevokeNext(r)
             \/ \E s \in SessionIds : RevokeSessionFind(r, s)
             \/ (\E u \in Users : LoginCount(r, u)) \/ LoginOldest(r) \/ LoginRevoke(r)
    BY <1>6 DEF Next, vars, Arrive, Login, Refresh, Authenticated, Fault, LoginCreate,
                RefreshRenew, RefreshRevokeInactive, HandleOther, SetStatus, Tick,
                RequestFails, AnswerLost
  <1> QED  BY <1>1, <1>2, <1>3, <1>4, <1>5, <1>7

\* What reading a session for its refresh leaves behind.
LEMMA ReadMoves ==
    ASSUME IndInv, NEW r \in Requests, NEW token, RefreshRead(r, token)
    PROVE  \E s \in SessionIds :
             /\ req'[r].sid = s /\ req'[r].ver = sessions[s].ver
             /\ Serial => ~InRefresh(s)
             /\ sessions[s] # NoSession
             /\ UNCHANGED <<sessions, answered>>
             /\ \A q \in Requests : q # r => req'[q] = req[q]
  <1>1. PICK s \in SessionIds :
          /\ sessions[s] # NoSession
          /\ Serial => ~InRefresh(s)
          /\ req' = [req EXCEPT ![r] =
               [pc |-> IF day - sessions[s].last > InactiveDays THEN "revokeInactive" ELSE "renew",
                user |-> sessions[s].user, sid |-> s, ver |-> sessions[s].ver, todo |-> {}]]
    BY DEF RefreshRead
  <1>2. req'[r] =
               [pc |-> IF day - sessions[s].last > InactiveDays THEN "revokeInactive" ELSE "renew",
                user |-> sessions[s].user, sid |-> s, ver |-> sessions[s].ver, todo |-> {}]
    BY <1>1 DEF IndInv, TypeOK
  <1>3. req'[r].sid = s /\ req'[r].ver = sessions[s].ver
    BY <1>2
  <1>4. \A q \in Requests : q # r => req'[q] = req[q]
    BY <1>1 DEF IndInv, TypeOK
  <1> QED  BY <1>1, <1>3, <1>4 DEF RefreshRead

LEMMA OneRefreshKept ==
    ASSUME Serial, RotationInv, [Next]_vars
    PROVE  OneRefresh'
  <1> USE DEF RotationInv
  <1>1. SUFFICES ASSUME NEW q \in Requests, NEW r \in Requests, Refreshing(q)', Refreshing(r)',
                        req'[q].sid = req'[r].sid, q # r
                 PROVE  FALSE
    BY DEF OneRefresh, Refreshing
  <1>2. ASSUME NEW x \in Requests, NEW y \in Requests, x # y, Refreshing(y)',
               req'[x].sid = req'[y].sid, NEW token, RefreshRead(x, token)
        PROVE  FALSE
    <2>1. PICK s \in SessionIds : req'[x].sid = s /\ ~InRefresh(s) /\ req'[y] = req[y]
      BY <1>2, ReadMoves
    <2>2. Refreshing(y) /\ req[y].sid = s
      BY <1>2, <2>1 DEF Refreshing
    <2> QED  BY <2>1, <2>2 DEF InRefresh, Refreshing
  <1>3. req'[q] = req[q] /\ req'[r] = req[r]
    BY <1>1, <1>2, RefreshMoves
  <1> QED  BY <1>1, <1>3 DEF OneRefresh, Refreshing

LEMMA ReadVersionKept ==
    ASSUME RotationInv, [Next]_vars
    PROVE  ReadVersion'
  <1> USE DEF RotationInv
  <1>1. SUFFICES ASSUME NEW r \in Requests, req'[r].pc = "renew"
                 PROVE  req'[r].ver = sessions'[req'[r].sid].ver
    BY DEF ReadVersion
  <1>2. ASSUME NEW token, RefreshRead(r, token)
        PROVE  req'[r].ver = sessions'[req'[r].sid].ver
    BY <1>2, ReadMoves
  <1>3. CASE req'[r] = req[r]
    <2>1. /\ req[r].pc = "renew" /\ req[r].ver = sessions[req[r].sid].ver
          /\ req[r].sid \in SessionIds /\ sessions[req[r].sid] # NoSession
      <3>1. req[r] \in RefreshRequest
        BY <1>1, <1>3, RequestCases DEF IndInv
      <3> QED  BY <1>1, <1>3, <3>1, SessionAssumption
               DEF ReadVersion, RefreshRequest, IndInv, Present
    <2>2. CASE Quiet
      BY <1>3, <2>1, <2>2 DEF Quiet
    <2>3. ASSUME NEW p \in Requests, LoginCreate(p)
          PROVE  sessions'[req[r].sid].ver = sessions[req[r].sid].ver
      <3>1. PICK t \in SessionIds :
              sessions[t] = NoSession /\ \A x \in SessionIds : x # t => sessions'[x] = sessions[x]
        BY <2>3, CreatedRow
      <3> QED  BY <2>1, <3>1
    <2>4. ASSUME NEW p \in Requests, Renews(p)
          PROVE  sessions'[req[r].sid].ver = sessions[req[r].sid].ver
      <3>1. req'[p] = Idle
        BY <2>4, RenewedRow
      <3>2. p # r
        BY <1>1, <3>1 DEF Idle
      <3>3. req[p].sid # req[r].sid
        BY <2>1, <2>4, <3>2 DEF OneRefresh, Refreshing, Renews
      <3> QED  BY <2>1, <2>4, <3>3, RenewedRow
    <2> QED  BY <1>3, <2>1, <2>2, <2>3, <2>4, KeySteps
  <1> QED  BY <1>1, <1>2, <1>3, RefreshMoves DEF Refreshing

LEMMA TokensBehindKept ==
    ASSUME RotationInv, [Next]_vars
    PROVE  TokensBehind'
  <1> USE DEF RotationInv
  <1>0. \A token \in answered : /\ token.sid \in SessionIds /\ token.ver \in Nat
                                /\ sessions[token.sid] # NoSession
                                /\ token.ver <= sessions[token.sid].ver
                                /\ sessions[token.sid].ver \in Nat
    BY RowType DEF IndInv, TypeOK, TokenPair, TokensBehind, Session
  <1>1. CASE Quiet
    BY <1>0, <1>1 DEF Quiet, TokensBehind
  <1>2. ASSUME NEW r \in Requests, LoginCreate(r)
        PROVE  TokensBehind'
    <2>1. PICK s \in SessionIds :
            /\ sessions[s] = NoSession /\ sessions'[s] # NoSession
            /\ sessions'[s].ver = 1
            /\ \A t \in SessionIds : t # s => sessions'[t] = sessions[t]
            /\ answered' = answered \cup {[refresh |-> issued + 1, sid |-> s, ver |-> 1]}
      BY <1>2, CreatedRow
    <2> QED  BY <1>0, <2>1 DEF TokensBehind
  <1>3. ASSUME NEW r \in Requests, Renews(r)
        PROVE  TokensBehind'
    <2> DEFINE s == req[r].sid
    <2>1. /\ s \in SessionIds /\ req[r].ver \in Nat
          /\ sessions'[s] # NoSession /\ sessions'[s].ver = req[r].ver + 1
          /\ \A t \in SessionIds : t # s => sessions'[t] = sessions[t]
          /\ answered' \subseteq answered \cup
               {[refresh |-> issued + 1, sid |-> s, ver |-> req[r].ver + 1]}
      BY <1>3, RenewedRow
    <2>2. req[r].ver = sessions[s].ver
      BY <1>3 DEF ReadVersion, Renews
    <2>3. ASSUME NEW token \in answered'
          PROVE  sessions'[token.sid] # NoSession /\ token.ver <= sessions'[token.sid].ver
      <3>1. CASE token \in answered /\ token.sid = s
        BY <1>0, <2>1, <2>2, <3>1
      <3>2. CASE token \in answered /\ token.sid # s
        BY <1>0, <2>1, <3>2
      <3>3. CASE token = [refresh |-> issued + 1, sid |-> s, ver |-> req[r].ver + 1]
        BY <2>1, <3>3
      <3> QED  BY <2>1, <3>1, <3>2, <3>3
    <2> QED  BY <2>3 DEF TokensBehind
  <1> QED  BY <1>1, <1>2, <1>3, KeySteps

\* If the refreshes of a session do not overlap, a rotated refresh token takes
\* every access token handed out before out of use, whatever logins, activity,
\* revocations, lost answers and crashes come between.
THEOREM RotationFresh ==
    ASSUME Serial
    PROVE  Spec => RotationIsFresh
  <1> DEFINE Fresh == \A s \in SessionIds :
               sessions[s] # NoSession /\ sessions'[s].hash # sessions[s].hash =>
                 /\ sessions'[s].ver > sessions[s].ver
                 /\ \A token \in answered : token.sid = s => token.ver < sessions'[s].ver
  <1>1. Init /\ IndInv => RotationInv
    BY DEF Init, RotationInv, OneRefresh, ReadVersion, TokensBehind, Refreshing, Idle
  <1>2. RotationInv /\ IndInv' /\ [Next]_vars => RotationInv'
    BY OneRefreshKept, ReadVersionKept, TokensBehindKept DEF RotationInv
  <1>3. ASSUME RotationInv, [Next]_vars
        PROVE  Fresh
    <2> USE DEF RotationInv
    <2>1. SUFFICES ASSUME NEW s \in SessionIds, sessions[s] # NoSession,
                          sessions'[s].hash # sessions[s].hash
                   PROVE  /\ sessions'[s].ver > sessions[s].ver
                          /\ \A token \in answered : token.sid = s => token.ver < sessions'[s].ver
      OBVIOUS
    <2>2. ~Quiet
      BY <2>1 DEF Quiet
    <2>3. \A r \in Requests : ~LoginCreate(r)
      BY <1>3, <2>1, CreatedRow
    <2>4. PICK r \in Requests : Renews(r)
      BY <1>3, <2>2, <2>3, KeySteps
    <2>5. /\ s = req[r].sid /\ req[r].ver \in Nat
          /\ sessions'[s].ver = req[r].ver + 1
      BY <1>3, <2>1, <2>4, RenewedRow
    <2>6. req[r].ver = sessions[s].ver
      BY <1>3, <2>4, <2>5 DEF ReadVersion, Renews
    <2>7. \A token \in answered : token.ver \in Nat /\ (token.sid = s => token.ver <= sessions[s].ver)
      BY <1>3 DEF IndInv, TypeOK, TokenPair, TokensBehind
    <2> QED  BY <2>5, <2>6, <2>7
  <1>4. RotationInv /\ [Next]_vars => [Fresh]_vars
    BY <1>3
  <1> QED  BY <1>1, <1>2, <1>4, Invariance, PTL DEF Spec, RotationIsFresh

-----------------------------------------------------------------------------
(***************************************************************************)
(* The limit on sessions, when logins of a user do not overlap.  It is not *)
(* inductive: a login that has counted relies on the count still holding   *)
(* when it inserts, which no other login of that user may disturb.         *)
(***************************************************************************)
InLoginPc(q) == req[q].pc \in {"oldest", "revokeOldest", "create"}

\* No two logins of a user overlap.
OneLogin ==
    \A q, r \in Requests :
        InLoginPc(q) /\ InLoginPc(r) /\ req[q].user = req[r].user => q = r

\* The live sessions of a user in a table.
Live(table, u) == {s \in SessionIds : table[s].user = u /\ ~table[s].revoked}

\* A login about to insert has room for its session; one about to revoke has
\* room once it has.
HasRoom(r) ==
    /\ req[r].pc = "create" => Cardinality(Live(sessions, req[r].user)) < MaxUserSession
    /\ req[r].pc = "revokeOldest" =>
         Cardinality(Live(sessions, req[r].user) \ {req[r].sid}) < MaxUserSession

Room == \A r \in Requests : HasRoom(r)

LimitInv == IndInv /\ OneLogin /\ Room /\ SessionLimit

\* Only a login adds to the live sessions of a user.
LEMMA LiveShrinks ==
    ASSUME IndInv, [Next]_vars, \A r \in Requests : ~LoginCreate(r), NEW u \in Users
    PROVE  Live(sessions', u) \subseteq Live(sessions, u)
  <1> USE DEF IndInv
  <1>1. CASE UNCHANGED sessions
    BY <1>1 DEF Live
  <1>2. ASSUME NEW s \in SessionIds, Revokes(s)
        PROVE  Live(sessions', u) \subseteq Live(sessions, u)
    <2>1. sessions[s] \in Session
      BY <1>2, RowType DEF Revokes
    <2> QED  BY <1>2, <2>1 DEF Live, Revokes, Revoke, TypeOK, Session
  <1>3. ASSUME NEW r \in Requests, Renews(r)
        PROVE  Live(sessions', u) \subseteq Live(sessions, u)
    <2> DEFINE new == Renewed(sessions[req[r].sid], issued + 1, req[r].ver + 1, day)
    <2>1. req[r] \in RefreshRequest
      BY <1>3, RequestCases DEF Renews
    <2>2. sessions[req[r].sid] \in Session /\ req[r].sid \in SessionIds
      BY <1>3, <2>1, RowType DEF Renews, RefreshRequest
    <2>3. sessions' = [sessions EXCEPT ![req[r].sid] = new]
      BY <1>3 DEF Renews, RenewSession, Renewed
    <2>4. /\ new.user = sessions[req[r].sid].user
          /\ new.revoked = sessions[req[r].sid].revoked
      BY <2>2 DEF Renewed, Session
    <2> HIDE DEF new
    <2> QED  BY <2>2, <2>3, <2>4 DEF Live, TypeOK
  <1>4. ASSUME NEW r \in Requests, Notes(r)
        PROVE  Live(sessions', u) \subseteq Live(sessions, u)
    <2> DEFINE new == [sessions[req[r].sid] EXCEPT !.last = day]
    <2>1. req[r] \in AuthRequest
      BY <1>4, RequestCases DEF Notes
    <2>2. sessions[req[r].sid] \in Session /\ req[r].sid \in SessionIds
      BY <1>4, <2>1, RowType DEF Notes, AuthRequest
    <2>3. sessions' = [sessions EXCEPT ![req[r].sid] = new]
      BY <1>4 DEF Notes
    <2>4. /\ new.user = sessions[req[r].sid].user
          /\ new.revoked = sessions[req[r].sid].revoked
      BY <2>2 DEF Session
    <2> HIDE DEF new
    <2> QED  BY <2>2, <2>3, <2>4 DEF Live, TypeOK
  <1> QED  BY <1>1, <1>2, <1>3, <1>4, TableSteps

\* A login adds one session, to its own user's.
LEMMA CreateAdds ==
    ASSUME IndInv, NEW r \in Requests, LoginCreate(r)
    PROVE  \E s \in SessionIds : \A u \in Users :
             Live(sessions', u) \subseteq
               Live(sessions, u) \cup (IF u = req[r].user THEN {s} ELSE {})
  <1>1. PICK s \in SessionIds, days \in Lifetimes :
          sessions' = [sessions EXCEPT ![s] = InitializeSession(req[r].user, issued + 1, days)]
    BY DEF LoginCreate
  <1>2. InitializeSession(req[r].user, issued + 1, days).user = req[r].user
    BY DEF InitializeSession
  <1> QED  BY <1>1, <1>2 DEF Live, IndInv, TypeOK

\* A login revokes the session it found.
LEMMA LoginRevokes ==
    ASSUME IndInv, NEW r \in Requests, LoginRevoke(r), NEW u \in Users
    PROVE  Live(sessions', u) \subseteq Live(sessions, u) \ {req[r].sid}
  <1> USE DEF IndInv
  <1>1. req[r] \in LoginRequest
    BY RequestCases DEF LoginRevoke
  <1>2. req[r].sid = None \/ req[r].sid \in SessionIds
    BY <1>1 DEF LoginRequest
  <1>3. CASE req[r].sid = None
    BY <1>3, SessionAssumption DEF LoginRevoke, Revoke, Live, TypeOK
  <1>4. CASE req[r].sid \in SessionIds
    <2>1. sessions[req[r].sid] \in Session
      BY <1>4, RowType, SessionAssumption DEF Present
    <2> QED  BY <1>4, <2>1 DEF LoginRevoke, Revoke, Live, TypeOK, Session
  <1> QED  BY <1>2, <1>3, <1>4

\* A request that is in a login was there before, or has just made one of the
\* first three steps of a login.
LEMMA LoginMoves ==
    ASSUME IndInv, [Next]_vars, NEW q \in Requests, InLoginPc(q)'
    PROVE  \/ req'[q] = req[q] /\ ~LoginCreate(q)
           \/ \E u \in Users : LoginCount(q, u)
           \/ LoginOldest(q)
           \/ LoginRevoke(q)
  <1> USE DEF IndInv
  <1>1. ASSUME NEW r \in Requests, Respond(r)
        PROVE  req'[q] = req[q] /\ r # q
    BY <1>1 DEF Respond, Idle, InLoginPc, TypeOK
  <1>2. ASSUME NEW r \in Requests, NEW token \in answered,
               RefreshRead(r, token.refresh) \/ Authenticate(r, token)
        PROVE  req'[q] = req[q] /\ r # q
    <2>1. CASE RefreshRead(r, token.refresh)
      <3>1. PICK s \in SessionIds : req' = [req EXCEPT ![r] =
              [pc |-> IF day - sessions[s].last > InactiveDays THEN "revokeInactive" ELSE "renew",
               user |-> sessions[s].user, sid |-> s, ver |-> sessions[s].ver, todo |-> {}]]
        BY <2>1 DEF RefreshRead
      <3>2. req'[r].pc \in {"revokeInactive", "renew"}
        BY <3>1 DEF TypeOK
      <3> QED  BY <3>1, <3>2 DEF InLoginPc, TypeOK
    <2>2. CASE Authenticate(r, token)
      BY <2>2 DEF Authenticate, Idle, InLoginPc, TypeOK
    <2> QED  BY <1>2, <2>1, <2>2
  <1>3. ASSUME NEW r \in Requests,
               AuthActivity(r) \/ RevokeAllFind(r) \/ RevokeNext(r)
                 \/ \E s \in SessionIds : RevokeSessionFind(r, s)
        PROVE  req'[q] = req[q] /\ r # q
    <2>1. req[r] \in AuthRequest
      BY <1>3, RequestCases DEF AuthActivity, RevokeAllFind, RevokeNext, RevokeSessionFind
    <2>2. r # q => req'[q] = req[q]
      BY <1>3 DEF AuthActivity, RevokeAllFind, RevokeNext, RevokeSessionFind, Respond, TypeOK
    <2>3. req'[r].pc \in {"handler", "revoke", "revokeAll", "idle"}
      BY <1>3, <2>1 DEF AuthActivity, RevokeAllFind, RevokeNext, RevokeSessionFind, Respond,
                        TypeOK, AuthRequest, Idle
    <2> QED  BY <2>2, <2>3 DEF InLoginPc
  <1>4. ASSUME NEW r \in Requests,
               (\E u \in Users : LoginCount(r, u)) \/ LoginOldest(r) \/ LoginRevoke(r)
        PROVE  r # q => req'[q] = req[q]
    BY <1>4 DEF LoginCount, LoginOldest, LoginRevoke, TypeOK
  <1>5. ~Crash
    BY DEF Crash, InLoginPc, Idle
  <1>6. ASSUME LoginCreate(q)
        PROVE  FALSE
    BY <1>6 DEF LoginCreate, Respond, InLoginPc, Idle, TypeOK
  <1>7. \/ req' = req
        \/ \E r \in Requests :
             \/ Respond(r)
             \/ \E token \in answered : RefreshRead(r, token.refresh) \/ Authenticate(r, token)
             \/ AuthActivity(r) \/ RevokeAllFind(r) \/ RevokeNext(r)
             \/ \E s \in SessionIds : RevokeSessionFind(r, s)
             \/ (\E u \in Users : LoginCount(r, u)) \/ LoginOldest(r) \/ LoginRevoke(r)
    BY <1>5 DEF Next, vars, Arrive, Login, Refresh, Authenticated, Fault, LoginCreate,
                RefreshRenew, RefreshRevokeInactive, HandleOther, SetStatus, Tick,
                RequestFails, AnswerLost
  <1> QED  BY <1>1, <1>2, <1>3, <1>4, <1>6, <1>7

LEMMA OneLoginKept ==
    ASSUME Serial, LimitInv, [Next]_vars
    PROVE  OneLogin'
  <1> USE DEF LimitInv
  <1>1. ASSUME NEW q \in Requests, InLoginPc(q)'
        PROVE  \/ InLoginPc(q) /\ req'[q].user = req[q].user
               \/ \E u \in Users : LoginCount(q, u) /\ req'[q].user = u
    <2>1. CASE req'[q] = req[q]
      BY <1>1, <2>1 DEF InLoginPc
    <2>2. ASSUME NEW u \in Users, LoginCount(q, u)
          PROVE  req'[q].user = u
      BY <2>2 DEF LoginCount, Idle, IndInv, TypeOK
    <2>3. CASE LoginOldest(q) \/ LoginRevoke(q)
      <3>1. req[q] \in LoginRequest
        BY <2>3, RequestCases DEF LoginOldest, LoginRevoke, IndInv
      <3>2. req'[q].user = req[q].user
        BY <2>3, <3>1 DEF LoginOldest, LoginRevoke, IndInv, TypeOK, LoginRequest
      <3> QED  BY <2>3, <3>2 DEF LoginOldest, LoginRevoke, InLoginPc
    <2> QED  BY <1>1, <2>1, <2>2, <2>3, LoginMoves
  <1>2. SUFFICES ASSUME NEW q \in Requests, NEW r \in Requests, InLoginPc(q)', InLoginPc(r)',
                        req'[q].user = req'[r].user, q # r
                 PROVE  FALSE
    BY DEF OneLogin, InLoginPc
  <1>3. ASSUME NEW p \in Requests, NEW u \in Users, LoginCount(p, u)
        PROVE  /\ \A x \in Requests : InLoginPc(x) => req[x].user # u
               /\ \A x \in Requests : x # p => req'[x] = req[x]
               /\ ~InLoginPc(p)
    BY <1>3 DEF LoginCount, InLogin, InLoginPc, IndInv, TypeOK
  <1>4. CASE InLoginPc(q) /\ InLoginPc(r)
    BY <1>1, <1>2, <1>3, <1>4 DEF OneLogin
  <1>5. CASE ~InLoginPc(q)
    BY <1>1, <1>2, <1>3, <1>5 DEF InLoginPc
  <1>6. CASE ~InLoginPc(r)
    BY <1>1, <1>2, <1>3, <1>6 DEF InLoginPc
  <1> QED  BY <1>4, <1>5, <1>6

\* Cardinalities of sets of sessions.
LEMMA LiveFinite ==
    ASSUME IsFiniteSet(SessionIds), NEW S \in SUBSET SessionIds
    PROVE  /\ IsFiniteSet(S) /\ Cardinality(S) \in Nat
           /\ \A T \in SUBSET S : Cardinality(T) <= Cardinality(S)
           /\ \A s \in S : Cardinality(S \ {s}) < Cardinality(S)
           /\ \A s \in SessionIds : Cardinality(S \cup {s}) <= Cardinality(S) + 1
  <1>1. IsFiniteSet(S) /\ Cardinality(S) \in Nat
    BY FS_Subset, FS_CardinalityType
  <1>2. \A T \in SUBSET S : Cardinality(T) <= Cardinality(S)
    BY <1>1, FS_Subset
  <1>3. ASSUME NEW s \in S
        PROVE  Cardinality(S \ {s}) < Cardinality(S)
    <2>1. Cardinality(S \ {s}) = Cardinality(S) - 1
      BY <1>1, FS_RemoveElement
    <2> QED  BY <1>1, <2>1
  <1>4. ASSUME NEW s \in SessionIds
        PROVE  Cardinality(S \cup {s}) <= Cardinality(S) + 1
    <2>1. Cardinality(S \cup {s}) = IF s \in S THEN Cardinality(S) ELSE Cardinality(S) + 1
      BY <1>1, FS_AddElement
    <2> QED  BY <1>1, <2>1
  <1> QED  BY <1>1, <1>2, <1>3, <1>4

\* A smaller set of sessions than one below a bound is below it.
LEMMA LiveFewer ==
    ASSUME IsFiniteSet(SessionIds), NEW S \in SUBSET SessionIds, NEW T \in SUBSET S,
           NEW n \in Nat
    PROVE  /\ Cardinality(S) < n => Cardinality(T) < n
           /\ Cardinality(S) <= n => Cardinality(T) <= n
  <1>1. /\ Cardinality(T) <= Cardinality(S)
        /\ Cardinality(T) \in Nat
        /\ Cardinality(S) \in Nat
    BY LiveFinite
  <1> QED  BY <1>1

LEMMA LiveIds ==
    ASSUME NEW table, NEW u
    PROVE  Live(table, u) \in SUBSET SessionIds
  BY DEF Live

\* A request that does not move keeps its room while its user's sessions do
\* not grow.
LEMMA RoomStays ==
    ASSUME IsFiniteSet(SessionIds), NEW q \in Requests, HasRoom(q), req'[q] = req[q],
           Live(sessions', req[q].user) \subseteq Live(sessions, req[q].user)
    PROVE  HasRoom(q)'
  <1> DEFINE S == Live(sessions, req[q].user)
             T == Live(sessions', req[q].user)
  <1>1. /\ S \in SUBSET SessionIds /\ T \in SUBSET S
        /\ S \ {req[q].sid} \in SUBSET SessionIds
        /\ T \ {req[q].sid} \in SUBSET (S \ {req[q].sid})
    BY LiveIds
  <1>2. MaxUserSession \in Nat
    BY SessionAssumption
  <1>3. Cardinality(S) < MaxUserSession => Cardinality(T) < MaxUserSession
    BY <1>1, <1>2, LiveFewer
  <1>4. Cardinality(S \ {req[q].sid}) < MaxUserSession
          => Cardinality(T \ {req[q].sid}) < MaxUserSession
    BY <1>1, <1>2, LiveFewer
  <1> QED  BY <1>3, <1>4 DEF HasRoom

LEMMA LimitWhenCreated ==
    ASSUME IsFiniteSet(SessionIds), LimitInv, NEW r \in Requests, LoginCreate(r), [Next]_vars
    PROVE  Room' /\ \A u \in Users : Cardinality(Live(sessions', u)) <= MaxUserSession
  <1> USE DEF LimitInv
  <1>1. req[r] \in LoginRequest /\ req[r].user \in Users /\ MaxUserSession \in Nat
    BY RequestCases, SessionAssumption DEF LoginCreate, IndInv, LoginRequest
  <1>2. PICK s \in SessionIds : \A u \in Users :
          Live(sessions', u) \subseteq
            Live(sessions, u) \cup (IF u = req[r].user THEN {s} ELSE {})
    BY CreateAdds
  <1>3. ASSUME NEW u \in Users
        PROVE  Cardinality(Live(sessions', u)) <= MaxUserSession
    <2> DEFINE S == Live(sessions, u)
               T == Live(sessions', u)
    <2>1. S \in SUBSET SessionIds /\ S \cup {s} \in SUBSET SessionIds
      BY LiveIds
    <2>2. Cardinality(S) \in Nat /\ Cardinality(S \cup {s}) \in Nat
      BY <2>1, LiveFinite
    <2>3. CASE u = req[r].user
      <3>1. Cardinality(S) < MaxUserSession
        BY <2>3 DEF LoginCreate, Room, HasRoom
      <3>2. Cardinality(S \cup {s}) <= Cardinality(S) + 1
        BY <2>1, LiveFinite
      <3>3. Cardinality(S \cup {s}) <= MaxUserSession
        BY <1>1, <2>2, <3>1, <3>2
      <3>4. T \in SUBSET (S \cup {s})
        BY <1>2, <2>3
      <3> QED  BY <1>1, <2>1, <3>3, <3>4, LiveFewer
    <2>4. CASE u # req[r].user
      <3>1. Cardinality(S) <= MaxUserSession
        BY DEF SessionLimit, Live, LiveSessions
      <3>2. T \in SUBSET S
        BY <1>2, <2>4
      <3> QED  BY <1>1, <2>1, <3>1, <3>2, LiveFewer
    <2> QED  BY <2>3, <2>4
  <1>4. ASSUME NEW q \in Requests
        PROVE  HasRoom(q)'
    <2>1. CASE q = r
      BY <2>1 DEF LoginCreate, Respond, HasRoom, Idle, IndInv, TypeOK
    <2>2. CASE q # r /\ ~InLoginPc(q)
      BY <2>2 DEF LoginCreate, Respond, HasRoom, InLoginPc, IndInv, TypeOK
    <2>3. CASE q # r /\ InLoginPc(q)
      <3>1. req'[q] = req[q]
        BY <2>3 DEF LoginCreate, Respond, IndInv, TypeOK
      <3>2. req[q] \in LoginRequest
        BY <2>3, RequestCases DEF InLoginPc, IndInv
      <3>3. req[q].user \in Users /\ req[q].user # req[r].user
        BY <2>3, <3>2 DEF OneLogin, LoginRequest, LoginCreate, InLoginPc
      <3>4. Live(sessions', req[q].user) \subseteq Live(sessions, req[q].user)
        BY <1>2, <3>3
      <3>5. HasRoom(q)
        BY DEF Room
      <3> QED  BY <3>1, <3>4, <3>5, RoomStays
    <2> QED  BY <2>1, <2>2, <2>3
  <1> QED  BY <1>3, <1>4 DEF Room

LEMMA LimitOtherwise ==
    ASSUME IsFiniteSet(SessionIds), LimitInv, [Next]_vars, \A r \in Requests : ~LoginCreate(r)
    PROVE  Room' /\ \A u \in Users : Cardinality(Live(sessions', u)) <= MaxUserSession
  <1> USE DEF LimitInv
  <1>1. MaxUserSession \in Nat
    BY SessionAssumption
  <1>2. ASSUME NEW u \in Users
        PROVE  /\ Live(sessions', u) \in SUBSET Live(sessions, u)
               /\ Live(sessions, u) \in SUBSET SessionIds
               /\ Live(sessions', u) \in SUBSET SessionIds
               /\ Cardinality(Live(sessions, u)) <= MaxUserSession
               /\ Cardinality(Live(sessions, u)) \in Nat
    <2>1. Live(sessions', u) \in SUBSET Live(sessions, u)
      BY LiveShrinks
    <2>2. Cardinality(Live(sessions, u)) <= MaxUserSession
      BY DEF SessionLimit, Live, LiveSessions
    <2> QED  BY <2>1, <2>2, LiveIds, LiveFinite
  <1>3. ASSUME NEW u \in Users
        PROVE  Cardinality(Live(sessions', u)) <= MaxUserSession
    BY <1>1, <1>2, LiveFewer
  <1>4. ASSUME NEW q \in Requests, InLoginPc(q)'
        PROVE  HasRoom(q)'
    <2>1. CASE req'[q] = req[q]
      <3>1. req[q] \in LoginRequest
        BY <1>4, <2>1, RequestCases DEF InLoginPc, IndInv
      <3>2. req[q].user \in Users
        BY <3>1 DEF LoginRequest
      <3>3. HasRoom(q)
        BY DEF Room
      <3> QED  BY <1>2, <2>1, <3>2, <3>3, RoomStays
    <2>2. ASSUME NEW u \in Users, LoginCount(q, u)
          PROVE  HasRoom(q)'
      <3>1. req'[q].user = u /\ req'[q].pc # "revokeOldest"
        BY <2>2 DEF LoginCount, Idle, IndInv, TypeOK
      <3>2. sessions' = sessions
        BY <2>2 DEF LoginCount
      <3>3. req'[q].pc = "create" => ~(Cardinality(Live(sessions, u)) >= MaxUserSession)
        BY <2>2 DEF LoginCount, Idle, IndInv, TypeOK, Live, LiveSessions
      <3>4. req'[q].pc = "create" => Cardinality(Live(sessions, u)) < MaxUserSession
        BY <1>1, <1>2, <3>3
      <3> QED  BY <3>1, <3>2, <3>4 DEF HasRoom
    <2>3. CASE LoginOldest(q)
      <3> DEFINE u == req[q].user
                 S == Live(sessions, u)
      <3>1. req[q] \in LoginRequest
        BY <2>3, RequestCases DEF LoginOldest, IndInv
      <3>2. u \in Users /\ sessions' = sessions
        BY <2>3, <3>1 DEF LoginRequest, LoginOldest
      <3>3. CASE S = {} /\ req' = [req EXCEPT ![q].pc = "create"]
        <4>1. req'[q].user = u /\ req'[q].pc = "create"
          BY <3>1, <3>3 DEF LoginRequest, IndInv, TypeOK
        <4>2. Cardinality({}) < MaxUserSession
          BY FS_EmptySet, SessionAssumption
        <4> QED  BY <3>2, <3>3, <4>1, <4>2 DEF HasRoom
      <3>4. ASSUME NEW s \in S, req' = [req EXCEPT ![q].pc = "revokeOldest", ![q].sid = s]
            PROVE  HasRoom(q)'
        <4>1. req'[q].user = u /\ req'[q].pc = "revokeOldest" /\ req'[q].sid = s
          BY <3>1, <3>4 DEF LoginRequest, IndInv, TypeOK
        <4>2. S \in SUBSET SessionIds /\ Cardinality(S) \in Nat /\ Cardinality(S) <= MaxUserSession
          BY <1>2, <3>2
        <4>3. S \ {s} \in SUBSET SessionIds
          BY <4>2
        <4>4. Cardinality(S \ {s}) < Cardinality(S) /\ Cardinality(S \ {s}) \in Nat
          BY <4>2, <4>3, LiveFinite
        <4>5. Cardinality(S \ {s}) < MaxUserSession
          BY <1>1, <4>2, <4>4
        <4> QED  BY <3>2, <4>1, <4>5 DEF HasRoom
      <3> QED  BY <2>3, <3>3, <3>4 DEF LoginOldest, Live, LiveSessions
    <2>4. CASE LoginRevoke(q)
      <3> DEFINE u == req[q].user
      <3>1. req[q] \in LoginRequest
        BY <2>4, RequestCases DEF LoginRevoke, IndInv
      <3>2. u \in Users /\ req'[q].user = u /\ req'[q].pc = "create"
        BY <2>4, <3>1 DEF LoginRequest, LoginRevoke, IndInv, TypeOK
      <3>3. Cardinality(Live(sessions, u) \ {req[q].sid}) < MaxUserSession
        BY <2>4 DEF LoginRevoke, Room, HasRoom
      <3>4. Live(sessions', u) \subseteq Live(sessions, u) \ {req[q].sid}
        BY <2>4, <3>2, LoginRevokes
      <3>5. Live(sessions, u) \ {req[q].sid} \in SUBSET SessionIds
        BY LiveIds
      <3>6. Cardinality(Live(sessions', u)) < MaxUserSession
        BY <1>1, <3>3, <3>4, <3>5, LiveFewer
      <3> QED  BY <3>2, <3>6 DEF HasRoom
    <2> QED  BY <1>4, <2>1, <2>2, <2>3, <2>4, LoginMoves
  <1>5. ASSUME NEW q \in Requests, ~InLoginPc(q)'
        PROVE  HasRoom(q)'
    BY <1>5 DEF InLoginPc, HasRoom
  <1> QED  BY <1>3, <1>4, <1>5 DEF Room

-----------------------------------------------------------------------------
\* If the logins of a user do not overlap, no user ever has more sessions than
\* MAX_SESSIONS_PER_USER, whatever refreshes, revocations, failures and
\* crashes run between the steps of their logins.
THEOREM LimitHolds ==
    ASSUME Serial, IsFiniteSet(SessionIds)
    PROVE  Spec => []SessionLimit
  <1>1. Init /\ IndInv => LimitInv
    <2> SUFFICES ASSUME Init, IndInv
                 PROVE  LimitInv
      OBVIOUS
    <2>1. OneLogin /\ Room
      BY DEF Init, OneLogin, Room, HasRoom, InLoginPc, Idle
    <2>2. ASSUME NEW u \in Users
          PROVE  Cardinality(LiveSessions(u)) <= MaxUserSession
      <3>1. LiveSessions(u) = {}
        BY SessionAssumption DEF Init, LiveSessions, NoSession
      <3> QED  BY <3>1, FS_EmptySet, SessionAssumption
    <2> QED  BY <2>1, <2>2 DEF LimitInv, SessionLimit
  <1>2. LimitInv /\ IndInv' /\ [Next]_vars => LimitInv'
    <2> SUFFICES ASSUME LimitInv, IndInv', [Next]_vars
                 PROVE  LimitInv'
      OBVIOUS
    <2>1. OneLogin'
      BY OneLoginKept
    <2>2. Room' /\ \A u \in Users : Cardinality(Live(sessions', u)) <= MaxUserSession
      BY LimitWhenCreated, LimitOtherwise
    <2>3. SessionLimit'
      BY <2>2 DEF SessionLimit, Live, LiveSessions
    <2> QED  BY <2>1, <2>2, <2>3 DEF LimitInv
  <1>3. LimitInv => SessionLimit
    BY DEF LimitInv
  <1> QED  BY <1>1, <1>2, <1>3, Invariance, PTL DEF Spec
=============================================================================
