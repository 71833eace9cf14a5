--------------------------- MODULE UserCodeProofs ---------------------------
(***************************************************************************)
(* Proofs about UserCode, for any users and bounds.  Types hold whatever   *)
(* requests overlap; that a code is good for one session, that the last    *)
(* one mailed works and that the throttle holds, is proved of requests     *)
(* that are served one at a time: the tables have no unique key, and with  *)
(* two requests of a user none of the three holds.                         *)
(***************************************************************************)
EXTENDS UserCode, SequenceTheorems, FiniteSetTheorems, TLAPS

\* The codes and links that were put into a row: mailed, never to be mailed, or
\* on their way.
CodePcs == {"send", "reread"}
LinkPcs == {"sendLink", "rereadLink"}
Waiting(pcs) == {m \in Mail : \E r \in Requests : req[r].pc \in pcs /\ req[r].mail = m}
Issued == mailed \cup unsent \cup Waiting(CodePcs)
IssuedLinks == links \cup unsentLinks \cup Waiting(LinkPcs)

TypeOK ==
    /\ codes \subseteq CodeRow
    /\ mailed \subseteq Mail
    /\ unsent \subseteq Mail
    /\ opened \in Seq(Opening)
    /\ resets \subseteq ResetRow
    /\ links \subseteq Mail
    /\ unsentLinks \subseteq Mail
    /\ changed \in Seq(Change)
    /\ req \in [Requests -> Request \cup {Idle}]
    /\ generated \in Nat
    /\ now \in Nat
    /\ faults \in Nat
    /\ Issued \subseteq Mail
    /\ IssuedLinks \subseteq Mail

Finding == [pc : {"find", "insert", "ask", "findReset", "insertReset"}, user : Users]
Coding == [pc : {"write", "delete", "session"}, user : Users, row : CodeRow]
Resetting == [pc : {"writeReset", "password", "deleteReset"}, user : Users, row : ResetRow]
Mailing == [pc : {"send", "reread", "sendLink", "rereadLink"}, user : Users, mail : Mail]

\* The requests by their states.
LEMMA Kinds ==
    ASSUME TypeOK, NEW r \in Requests
    PROVE  /\ req[r].pc \in {"find", "insert", "ask", "findReset", "insertReset"} => req[r] \in Finding
           /\ req[r].pc \in {"write", "delete", "session"} => req[r] \in Coding
           /\ req[r].pc \in {"writeReset", "password", "deleteReset"} => req[r] \in Resetting
           /\ req[r].pc \in CodePcs \cup LinkPcs => req[r] \in Mailing
           /\ req[r].pc = "idle" <=> req[r] = Idle
  <1>1. req[r] \in Finding \cup Coding \cup Resetting \cup Mailing \cup {Idle}
    BY DEF TypeOK, Request, Finding, Coding, Resetting, Mailing
  <1> QED  BY <1>1 DEF Finding, Coding, Resetting, Mailing, CodePcs, LinkPcs, Idle

\* A request takes its next step.
Moves(r, q) ==
    /\ q \in Request \cup {Idle}
    /\ req' = [req EXCEPT ![r] = q]

LEMMA MovesOne ==
    ASSUME TypeOK, NEW r \in Requests, NEW q, Moves(r, q)
    PROVE  /\ req' \in [Requests -> Request \cup {Idle}]
           /\ req'[r] = q
           /\ \A s \in Requests : s # r => req'[s] = req[s]
  BY DEF TypeOK, Moves

LEMMA RespondMoves ==
    ASSUME NEW r \in Requests, Respond(r)
    PROVE  Moves(r, Idle)
  BY DEF Respond, Moves

\* A request that has nothing to do with the tables any more.
Ends(r) == \E q : Moves(r, q) /\ q.pc \in {"idle"} \cup CodePcs \cup LinkPcs

LEMMA RespondEnds ==
    ASSUME NEW r \in Requests, Respond(r)
    PROVE  Ends(r)
  BY RespondMoves DEF Ends, Idle

-----------------------------------------------------------------------------
(* What was issued.  It grows when a table is written, and by nothing else. *)

LEMMA WaitingMoves ==
    ASSUME TypeOK, NEW r \in Requests, NEW q, Moves(r, q), NEW pcs, NEW m \in Mail
    PROVE  /\ m \in Waiting(pcs) <=>
                 \/ \E s \in Requests \ {r} : req[s].pc \in pcs /\ req[s].mail = m
                 \/ req[r].pc \in pcs /\ req[r].mail = m
           /\ m \in Waiting(pcs)' <=>
                 \/ \E s \in Requests \ {r} : req[s].pc \in pcs /\ req[s].mail = m
                 \/ q.pc \in pcs /\ q.mail = m
  BY MovesOne DEF Waiting

LEMMA IssuedStay ==
    ASSUME TypeOK, NEW r \in Requests, NEW q, Moves(r, q),
           req[r].pc \notin CodePcs \cup LinkPcs, q.pc \notin CodePcs \cup LinkPcs,
           UNCHANGED <<mailed, unsent, links, unsentLinks>>
    PROVE  Issued' = Issued /\ IssuedLinks' = IssuedLinks
  <1>1. \A m \in Mail : /\ m \in Waiting(CodePcs)' <=> m \in Waiting(CodePcs)
                        /\ m \in Waiting(LinkPcs)' <=> m \in Waiting(LinkPcs)
    BY WaitingMoves
  <1>2. Waiting(CodePcs)' = Waiting(CodePcs) /\ Waiting(LinkPcs)' = Waiting(LinkPcs)
    BY <1>1 DEF Waiting
  <1> QED  BY <1>2 DEF Issued, IssuedLinks

LEMMA IssuedGrows ==
    ASSUME TypeOK, NEW r \in Requests, NEW q, Moves(r, q), NEW mail \in Mail, q.mail = mail,
           req[r].pc \notin CodePcs \cup LinkPcs,
           UNCHANGED <<mailed, unsent, links, unsentLinks>>
    PROVE  /\ q.pc \in CodePcs => Issued' = Issued \cup {mail} /\ IssuedLinks' = IssuedLinks
           /\ q.pc \in LinkPcs => Issued' = Issued /\ IssuedLinks' = IssuedLinks \cup {mail}
  <1>1. q.pc \in CodePcs => q.pc \notin LinkPcs
    BY DEF CodePcs, LinkPcs
  <1>2. \A m \in Mail :
          /\ m \in Waiting(CodePcs)' <=> m \in Waiting(CodePcs) \/ (q.pc \in CodePcs /\ m = mail)
          /\ m \in Waiting(LinkPcs)' <=> m \in Waiting(LinkPcs) \/ (q.pc \in LinkPcs /\ m = mail)
    BY WaitingMoves
  <1>3. /\ Waiting(CodePcs)' = Waiting(CodePcs) \cup (IF q.pc \in CodePcs THEN {mail} ELSE {})
        /\ Waiting(LinkPcs)' = Waiting(LinkPcs) \cup (IF q.pc \in LinkPcs THEN {mail} ELSE {})
    BY <1>2 DEF Waiting
  <1> QED  BY <1>1, <1>3 DEF Issued, IssuedLinks

\* A mail goes out, or never will.
LEMMA IssuedSent ==
    ASSUME TypeOK, NEW r \in Requests, Moves(r, Idle),
           req[r].pc \in CodePcs \cup LinkPcs,
           IF req[r].pc \in CodePcs
           THEN mailed' \cup unsent' = mailed \cup unsent \cup {req[r].mail}
           ELSE mailed' \cup unsent' = mailed \cup unsent,
           IF req[r].pc \in LinkPcs
           THEN links' \cup unsentLinks' = links \cup unsentLinks \cup {req[r].mail}
           ELSE links' \cup unsentLinks' = links \cup unsentLinks
    PROVE  Issued' = Issued /\ IssuedLinks' = IssuedLinks
  <1>1. Idle.pc \notin CodePcs \cup LinkPcs
    BY DEF Idle, CodePcs, LinkPcs
  <1>2. req[r].mail \in Mail
    BY Kinds DEF Mailing
  <1>3. \A m \in Mail :
          /\ m \in Waiting(CodePcs) <=>
               m \in Waiting(CodePcs)' \/ (req[r].pc \in CodePcs /\ m = req[r].mail)
          /\ m \in Waiting(LinkPcs) <=>
               m \in Waiting(LinkPcs)' \/ (req[r].pc \in LinkPcs /\ m = req[r].mail)
    BY <1>1, WaitingMoves
  <1>4. /\ Waiting(CodePcs) = Waiting(CodePcs)' \cup (IF req[r].pc \in CodePcs THEN {req[r].mail} ELSE {})
        /\ Waiting(LinkPcs) = Waiting(LinkPcs)' \cup (IF req[r].pc \in LinkPcs THEN {req[r].mail} ELSE {})
    BY <1>2, <1>3 DEF Waiting
  <1>5. Issued' = Issued
    BY <1>4 DEF Issued
  <1>6. IssuedLinks' = IssuedLinks
    BY <1>4 DEF IssuedLinks
  <1> QED  BY <1>5, <1>6

\* The request that writes a table, and the mail it leaves to be sent.
ToSendTo(r, pc, row) == [pc |-> pc, user |-> row.user, mail |-> MailOf(row)]

LEMMA ToSendMoves ==
    ASSUME TypeOK, NEW r \in Requests, NEW pc \in CodePcs \cup LinkPcs, NEW row,
           row.user \in Users, row.id \in Nat, ToSend(r, pc, row)
    PROVE  /\ MailOf(row) \in Mail /\ Moves(r, ToSendTo(r, pc, row)) /\ Ends(r)
           /\ generated' = generated + 1
  <1>1. MailOf(row) \in Mail
    BY DEF MailOf, Mail, TypeOK
  <1>2. ToSendTo(r, pc, row) \in Request
    BY <1>1 DEF ToSendTo, Request, CodePcs, LinkPcs
  <1>3. Moves(r, ToSendTo(r, pc, row))
    BY <1>2 DEF Moves, ToSend, ToSendTo
  <1>4. ToSendTo(r, pc, row).pc = pc
    BY DEF ToSendTo
  <1> QED  BY <1>1, <1>3, <1>4 DEF Ends, ToSend

\* What a table's writer leaves.
Wrote(r, pc, row) ==
    /\ MailOf(row) \in Mail /\ Ends(r) /\ generated' = generated + 1
    /\ pc \in CodePcs => Issued' = Issued \cup {MailOf(row)} /\ UNCHANGED IssuedLinks
    /\ pc \in LinkPcs => UNCHANGED Issued /\ IssuedLinks' = IssuedLinks \cup {MailOf(row)}

LEMMA ToSendWrote ==
    ASSUME TypeOK, NEW r \in Requests, NEW pc \in CodePcs \cup LinkPcs, NEW row,
           row.user \in Users, row.id \in Nat, ToSend(r, pc, row),
           req[r].pc \notin CodePcs \cup LinkPcs,
           UNCHANGED <<mailed, unsent, links, unsentLinks>>
    PROVE  Wrote(r, pc, row)
  <1> DEFINE q == ToSendTo(r, pc, row)
             mail == MailOf(row)
  <1>1. mail \in Mail /\ Moves(r, q) /\ Ends(r) /\ generated' = generated + 1
    BY ToSendMoves
  <1>2. q.pc = pc /\ q.mail = mail
    BY DEF ToSendTo
  <1> HIDE DEF q, mail
  <1>3. /\ q.pc \in CodePcs => Issued' = Issued \cup {mail} /\ IssuedLinks' = IssuedLinks
        /\ q.pc \in LinkPcs => Issued' = Issued /\ IssuedLinks' = IssuedLinks \cup {mail}
    BY <1>1, <1>2, IssuedGrows
  <1> QED  BY <1>1, <1>2, <1>3 DEF Wrote, mail

LEMMA RespondStays ==
    ASSUME TypeOK, NEW r \in Requests, Respond(r), req[r].pc \notin CodePcs \cup LinkPcs,
           UNCHANGED <<mailed, unsent, links, unsentLinks>>
    PROVE  Issued' = Issued /\ IssuedLinks' = IssuedLinks
  <1>1. Idle.pc \notin CodePcs \cup LinkPcs
    BY DEF Idle, CodePcs, LinkPcs
  <1> QED  BY <1>1, RespondMoves, IssuedStay

-----------------------------------------------------------------------------
(* What each step does to its request. *)

LEMMA BeginMoves ==
    ASSUME TypeOK, NEW r \in Requests, NEW u \in Users
    PROVE  /\ Login(r, u) => Moves(r, [pc |-> "find", user |-> u])
           /\ Resend(r, u) => Moves(r, [pc |-> "ask", user |-> u])
           /\ AskReset(r, u) => Moves(r, [pc |-> "findReset", user |-> u])
  BY DEF Login, Resend, AskReset, Moves, Request

LEMMA FindMoves ==
    ASSUME TypeOK, NEW r \in Requests, FindCode(r)
    PROVE  \/ Moves(r, [pc |-> "insert", user |-> req[r].user]) /\ RowsOf(req[r].user) = {}
           \/ Moves(r, [pc |-> "ask", user |-> req[r].user])
  <1>1. req[r] \in Finding
    BY Kinds DEF FindCode
  <1>2. /\ [req[r] EXCEPT !.pc = "insert"] = [pc |-> "insert", user |-> req[r].user]
        /\ [req[r] EXCEPT !.pc = "ask"] = [pc |-> "ask", user |-> req[r].user]
    BY <1>1 DEF Finding
  <1>3. /\ [pc |-> "insert", user |-> req[r].user] \in Request
        /\ [pc |-> "ask", user |-> req[r].user] \in Request
    BY <1>1 DEF Finding, Request
  <1>4. \/ RowsOf(req[r].user) = {} /\ req' = [req EXCEPT ![r] = [req[r] EXCEPT !.pc = "insert"]]
        \/ req' = [req EXCEPT ![r] = [req[r] EXCEPT !.pc = "ask"]]
    BY DEF FindCode
  <1> QED  BY <1>2, <1>3, <1>4 DEF Moves

\* The row a request for a new code goes on with.
Refreshed(row) == IF row.delay # 0 THEN [row EXCEPT !.count = 0, !.delay = 0] ELSE row

LEMMA RefreshedRow ==
    ASSUME NEW row \in CodeRow
    PROVE  /\ Refreshed(row) \in CodeRow
           /\ Refreshed(row).id = row.id /\ Refreshed(row).user = row.user
           /\ Refreshed(row).code = row.code /\ Refreshed(row).delay = 0
           /\ Refreshed(row).count = IF row.delay = 0 THEN row.count ELSE 0
  BY DEF CodeRow, Refreshed

LEMMA AskMoves ==
    ASSUME TypeOK, NEW r \in Requests, AskNewCode(r)
    PROVE  \/ Respond(r)
           \/ \E row \in codes :
                /\ row.delay <= now
                /\ Moves(r, [pc |-> "write", user |-> row.user, row |-> Refreshed(row)])
  <1>1. SUFFICES ASSUME NEW row \in RowsOf(req[r].user), ~(row.delay > now),
                        req' = [req EXCEPT ![r] =
                          [pc |-> "write", user |-> row.user, row |-> Refreshed(row)]]
                 PROVE  /\ row.delay <= now
                        /\ Moves(r, [pc |-> "write", user |-> row.user, row |-> Refreshed(row)])
    BY DEF AskNewCode, Refreshed, RowsOf
  <1>2. row \in CodeRow /\ row \in codes
    BY <1>1 DEF TypeOK, RowsOf
  <1>3. [pc |-> "write", user |-> row.user, row |-> Refreshed(row)] \in Request
    BY <1>2, RefreshedRow DEF CodeRow, Request
  <1>4. row.delay <= now
    BY <1>1, <1>2 DEF CodeRow, TypeOK
  <1> QED  BY <1>1, <1>3, <1>4 DEF Moves

LEMMA VerifyMoves ==
    ASSUME TypeOK, NEW r \in Requests, NEW m, Verify(r, m)
    PROVE  \E row \in codes : Moves(r, [pc |-> "delete", user |-> row.user, row |-> row])
  <1>1. PICK row \in RowsOf(m.user) :
          req' = [req EXCEPT ![r] = [pc |-> "delete", user |-> row.user, row |-> row]]
    BY DEF Verify
  <1>2. row \in codes /\ row \in CodeRow
    BY <1>1 DEF RowsOf, TypeOK
  <1>3. [pc |-> "delete", user |-> row.user, row |-> row] \in Request
    BY <1>2 DEF CodeRow, Request
  <1> QED  BY <1>1, <1>2, <1>3 DEF Moves

LEMMA DeleteMoves ==
    ASSUME TypeOK, NEW r \in Requests, DeleteCode(r)
    PROVE  Moves(r, [pc |-> "session", user |-> req[r].user, row |-> req[r].row])
  <1>1. req[r] \in Coding
    BY Kinds DEF DeleteCode
  <1>2. [req[r] EXCEPT !.pc = "session"] = [pc |-> "session", user |-> req[r].user, row |-> req[r].row]
    BY <1>1 DEF Coding
  <1>3. [pc |-> "session", user |-> req[r].user, row |-> req[r].row] \in Request
    BY <1>1 DEF Coding, Request
  <1>4. req' = [req EXCEPT ![r] = [req[r] EXCEPT !.pc = "session"]]
    BY DEF DeleteCode
  <1> QED  BY <1>2, <1>3, <1>4 DEF Moves

LEMMA DeleteWrites ==
    ASSUME TypeOK, NEW r \in Requests, DeleteCode(r)
    PROVE  /\ codes' = codes \ RowsOf(req[r].user)
           /\ UNCHANGED <<mailed, unsent, links, unsentLinks>>
           /\ UNCHANGED <<Issued, opened, resets, IssuedLinks, changed, generated, now, faults>>
  <1> DEFINE q == [pc |-> "session", user |-> req[r].user, row |-> req[r].row]
  <1>1. Moves(r, q)
    BY DeleteMoves
  <1>2. req[r].pc \notin CodePcs \cup LinkPcs /\ q.pc \notin CodePcs \cup LinkPcs
    BY DEF DeleteCode, CodePcs, LinkPcs
  <1>3. /\ codes' = codes \ RowsOf(req[r].user)
        /\ UNCHANGED <<mailed, unsent, links, unsentLinks>>
        /\ UNCHANGED <<opened, resets, changed, generated, now, faults>>
    BY DEF DeleteCode, resetVars
  <1> HIDE DEF q
  <1> QED  BY <1>1, <1>2, <1>3, IssuedStay

LEMMA FindResetMoves ==
    ASSUME TypeOK, NEW r \in Requests, FindReset(r)
    PROVE  \/ Respond(r)
           \/ /\ Moves(r, [pc |-> "insertReset", user |-> req[r].user])
              /\ ResetsOf(req[r].user) = {}
           \/ \E row \in resets :
                /\ row.delay <= now
                /\ Moves(r, [pc |-> "writeReset", user |-> row.user, row |-> row])
  <1>1. req[r] \in Finding
    BY Kinds DEF FindReset
  <1>2. CASE ResetsOf(req[r].user) = {}
               /\ req' = [req EXCEPT ![r] = [req[r] EXCEPT !.pc = "insertReset"]]
    <2>1. [req[r] EXCEPT !.pc = "insertReset"] = [pc |-> "insertReset", user |-> req[r].user]
      BY <1>1 DEF Finding
    <2>2. [pc |-> "insertReset", user |-> req[r].user] \in Request
      BY <1>1 DEF Finding, Request
    <2> QED  BY <1>2, <2>1, <2>2 DEF Moves
  <1>3. ASSUME NEW row \in ResetsOf(req[r].user), ~(row.delay > now),
               req' = [req EXCEPT ![r] = [pc |-> "writeReset", user |-> row.user, row |-> row]]
        PROVE  /\ row \in resets /\ row.delay <= now
               /\ Moves(r, [pc |-> "writeReset", user |-> row.user, row |-> row])
    <2>1. row \in resets /\ row \in ResetRow
      BY <1>3 DEF ResetsOf, TypeOK
    <2>2. [pc |-> "writeReset", user |-> row.user, row |-> row] \in Request
      BY <2>1 DEF ResetRow, Request
    <2>3. row.delay <= now
      BY <1>3, <2>1 DEF ResetRow, TypeOK
    <2> QED  BY <1>3, <2>1, <2>2, <2>3 DEF Moves
  <1> QED  BY <1>2, <1>3 DEF FindReset

LEMMA ResetMoves ==
    ASSUME TypeOK, NEW r \in Requests, NEW m, ResetPassword(r, m)
    PROVE  \E row \in resets : Moves(r, [pc |-> "password", user |-> row.user, row |-> row])
  <1>1. PICK row \in resets :
          req' = [req EXCEPT ![r] = [pc |-> "password", user |-> row.user, row |-> row]]
    BY DEF ResetPassword
  <1>2. row \in ResetRow
    BY DEF TypeOK
  <1>3. [pc |-> "password", user |-> row.user, row |-> row] \in Request
    BY <1>2 DEF ResetRow, Request
  <1> QED  BY <1>1, <1>3 DEF Moves

LEMMA SetMoves ==
    ASSUME TypeOK, NEW r \in Requests, SetPassword(r)
    PROVE  Moves(r, [pc |-> "deleteReset", user |-> req[r].user, row |-> req[r].row])
  <1>1. req[r] \in Resetting
    BY Kinds DEF SetPassword
  <1>2. [req[r] EXCEPT !.pc = "deleteReset"]
          = [pc |-> "deleteReset", user |-> req[r].user, row |-> req[r].row]
    BY <1>1 DEF Resetting
  <1>3. [pc |-> "deleteReset", user |-> req[r].user, row |-> req[r].row] \in Request
    BY <1>1 DEF Resetting, Request
  <1>4. req' = [req EXCEPT ![r] = [req[r] EXCEPT !.pc = "deleteReset"]]
    BY DEF SetPassword
  <1> QED  BY <1>2, <1>3, <1>4 DEF Moves

-----------------------------------------------------------------------------
(* The tables, and the types of everything. *)

LEMMA NewCode ==
    ASSUME TypeOK, NEW row \in CodeRow, NEW code \in Nat
    PROVE  /\ NewCodeOf(row, code) \in CodeRow
           /\ NewCodeOf(row, code).id = row.id /\ NewCodeOf(row, code).user = row.user
           /\ NewCodeOf(row, code).code = code /\ NewCodeOf(row, code).count = row.count + 1
           /\ NewCodeOf(row, code).delay =
                IF row.count + 1 >= MaxCount THEN now + Delay ELSE row.delay
  <1> DEFINE delay == IF row.count + 1 >= MaxCount THEN now + Delay ELSE row.delay
  <1>1. row.count + 1 \in Nat /\ now + 1 \in Nat /\ delay \in Nat
    BY CodeAssumption DEF TypeOK, CodeRow
  <1>2. NewCodeOf(row, code) = [row EXCEPT !.count = row.count + 1, !.code = code,
                                           !.expires = now + 1, !.delay = delay]
    BY DEF NewCodeOf
  <1> HIDE DEF delay
  <1>3. NewCodeOf(row, code) \in CodeRow
    BY <1>1, <1>2 DEF CodeRow
  <1>4. /\ NewCodeOf(row, code).id = row.id /\ NewCodeOf(row, code).user = row.user
        /\ NewCodeOf(row, code).code = code /\ NewCodeOf(row, code).count = row.count + 1
        /\ NewCodeOf(row, code).delay = delay
    BY <1>1, <1>2 DEF CodeRow
  <1> QED  BY <1>3, <1>4 DEF delay

LEMMA NewLink ==
    ASSUME TypeOK, NEW row \in ResetRow
    PROVE  /\ NewLinkOf(row) \in ResetRow
           /\ NewLinkOf(row).id = row.id /\ NewLinkOf(row).user = row.user
           /\ NewLinkOf(row).expires = now + 1 /\ NewLinkOf(row).count = row.count + 1
           /\ NewLinkOf(row).delay =
                IF row.count + 1 >= MaxCount THEN now + Delay ELSE row.delay
  <1> DEFINE delay == IF row.count + 1 >= MaxCount THEN now + Delay ELSE row.delay
  <1>1. row.count + 1 \in Nat /\ now + 1 \in Nat /\ delay \in Nat
    BY CodeAssumption DEF TypeOK, ResetRow
  <1>2. NewLinkOf(row) = [row EXCEPT !.count = row.count + 1, !.expires = now + 1, !.delay = delay]
    BY DEF NewLinkOf
  <1> HIDE DEF delay
  <1>3. NewLinkOf(row) \in ResetRow
    BY <1>1, <1>2 DEF ResetRow
  <1>4. /\ NewLinkOf(row).id = row.id /\ NewLinkOf(row).user = row.user
        /\ NewLinkOf(row).expires = now + 1 /\ NewLinkOf(row).count = row.count + 1
        /\ NewLinkOf(row).delay = delay
    BY <1>1, <1>2 DEF ResetRow
  <1> QED  BY <1>3, <1>4 DEF delay

\* The steps that write a table, by what they write.
Inserted(r) ==
    [id |-> generated + 1, user |-> req[r].user, code |-> generated + 1, expires |-> now + 1,
     count |-> 0, delay |-> 0]
InsertedReset(r) ==
    [id |-> generated + 1, user |-> req[r].user, expires |-> now + 1, count |-> 1, delay |-> 0]
Written(r) == NewCodeOf(req[r].row, generated + 1)

LEMMA InsertWrites ==
    ASSUME TypeOK, NEW r \in Requests, InsertCode(r)
    PROVE  /\ Inserted(r) \in CodeRow /\ MailOf(Inserted(r)) \in Mail
           /\ codes' = codes \cup {Inserted(r)}
           /\ Issued' = Issued \cup {MailOf(Inserted(r))}
           /\ generated' = generated + 1 /\ Ends(r)
           /\ UNCHANGED <<mailed, unsent, links, unsentLinks>>
           /\ UNCHANGED <<opened, resets, IssuedLinks, changed, now, faults>>
  <1>1. req[r].user \in Users /\ req[r].pc \notin CodePcs \cup LinkPcs
    BY Kinds DEF InsertCode, Finding, CodePcs, LinkPcs
  <1>2. Inserted(r) \in CodeRow /\ Inserted(r).user \in Users /\ Inserted(r).id \in Nat
    BY <1>1 DEF Inserted, CodeRow, TypeOK
  <1>3. ToSend(r, "send", Inserted(r)) /\ codes' = codes \cup {Inserted(r)}
    BY DEF InsertCode, Inserted
  <1>4. /\ UNCHANGED <<mailed, unsent, links, unsentLinks>>
        /\ UNCHANGED <<opened, resets, changed, now, faults>>
    BY DEF InsertCode, resetVars
  <1>5. "send" \in CodePcs
    BY DEF CodePcs
  <1>6. Wrote(r, "send", Inserted(r))
    BY <1>1, <1>2, <1>3, <1>4, <1>5, ToSendWrote
  <1> QED  BY <1>2, <1>3, <1>4, <1>5, <1>6 DEF Wrote

LEMMA WriteWrites ==
    ASSUME TypeOK, NEW r \in Requests, WriteCode(r)
    PROVE  /\ Ends(r)
           /\ UNCHANGED <<mailed, unsent, links, unsentLinks>>
           /\ UNCHANGED <<opened, resets, IssuedLinks, changed, now, faults>>
           /\ \/ UNCHANGED <<codes, Issued, generated>>
              \/ /\ Written(r) \in CodeRow /\ MailOf(Written(r)) \in Mail
                 /\ Written(r).id = req[r].row.id
                 /\ \E old \in codes : old.id = Written(r).id
                 /\ codes' = {row \in codes : row.id # Written(r).id} \cup {Written(r)}
                 /\ Issued' = Issued \cup {MailOf(Written(r))}
                 /\ generated' = generated + 1
  <1>1. req[r].row \in CodeRow /\ req[r].pc \notin CodePcs \cup LinkPcs
    BY Kinds DEF WriteCode, Coding, CodePcs, LinkPcs
  <1> DEFINE code == generated + 1
  <1>0. code \in Nat
    BY DEF TypeOK
  <1>a. Written(r) = NewCodeOf(req[r].row, code)
    BY DEF Written
  <1> HIDE DEF code
  <1>2. Written(r) \in CodeRow /\ Written(r).id = req[r].row.id
    BY <1>1, <1>0, <1>a, NewCode
  <1>3. Written(r).user \in Users /\ Written(r).id \in Nat
    BY <1>2 DEF CodeRow
  <1>4. /\ UNCHANGED <<mailed, unsent, links, unsentLinks>>
        /\ UNCHANGED <<opened, resets, changed, now, faults>>
    BY DEF WriteCode, resetVars
  <1>5. \/ UNCHANGED <<codes, generated>> /\ Respond(r)
        \/ /\ \E old \in codes : old.id = Written(r).id
           /\ codes' = {row \in codes : row.id # Written(r).id} \cup {Written(r)}
           /\ ToSend(r, "reread", Written(r))
    BY DEF WriteCode, Written
  <1>6. CASE UNCHANGED <<codes, generated>> /\ Respond(r)
    BY <1>1, <1>4, <1>6, RespondStays, RespondEnds
  <1>7. CASE ToSend(r, "reread", Written(r))
    <2>1. "reread" \in CodePcs
      BY DEF CodePcs
    <2>2. Wrote(r, "reread", Written(r))
      BY <1>1, <1>3, <1>4, <1>7, <2>1, ToSendWrote
    <2>3. /\ MailOf(Written(r)) \in Mail /\ Ends(r) /\ generated' = generated + 1
          /\ Issued' = Issued \cup {MailOf(Written(r))} /\ UNCHANGED IssuedLinks
      BY <2>1, <2>2 DEF Wrote
    <2> QED  BY <1>2, <1>4, <1>5, <2>3, <1>6
  <1> QED  BY <1>5, <1>6, <1>7

LEMMA InsertResetWrites ==
    ASSUME TypeOK, NEW r \in Requests, InsertReset(r)
    PROVE  /\ InsertedReset(r) \in ResetRow /\ MailOf(InsertedReset(r)) \in Mail
           /\ resets' = resets \cup {InsertedReset(r)}
           /\ IssuedLinks' = IssuedLinks \cup {MailOf(InsertedReset(r))}
           /\ generated' = generated + 1 /\ Ends(r)
           /\ UNCHANGED <<mailed, unsent, links, unsentLinks>>
           /\ UNCHANGED <<codes, Issued, opened, changed, now, faults>>
  <1>1. req[r].user \in Users /\ req[r].pc \notin CodePcs \cup LinkPcs
    BY Kinds DEF InsertReset, Finding, CodePcs, LinkPcs
  <1>2. InsertedReset(r) \in ResetRow /\ InsertedReset(r).user \in Users
        /\ InsertedReset(r).id \in Nat
    BY <1>1 DEF InsertedReset, ResetRow, TypeOK
  <1>3. ToSend(r, "sendLink", InsertedReset(r)) /\ resets' = resets \cup {InsertedReset(r)}
    BY DEF InsertReset, InsertedReset
  <1>4. /\ UNCHANGED <<mailed, unsent, links, unsentLinks>>
        /\ UNCHANGED <<codes, opened, changed, now, faults>>
    BY DEF InsertReset, codeVars
  <1>5. "sendLink" \in LinkPcs
    BY DEF LinkPcs
  <1>6. Wrote(r, "sendLink", InsertedReset(r))
    BY <1>1, <1>2, <1>3, <1>4, <1>5, ToSendWrote
  <1> QED  BY <1>2, <1>3, <1>4, <1>5, <1>6 DEF Wrote

LEMMA WriteResetWrites ==
    ASSUME TypeOK, NEW r \in Requests, WriteReset(r)
    PROVE  /\ Ends(r)
           /\ UNCHANGED <<mailed, unsent, links, unsentLinks>>
           /\ UNCHANGED <<codes, Issued, opened, changed, now, faults>>
           /\ \/ UNCHANGED <<resets, IssuedLinks, generated>>
              \/ /\ NewLinkOf(req[r].row) \in ResetRow /\ MailOf(NewLinkOf(req[r].row)) \in Mail
                 /\ resets' = {row \in resets : row.id # NewLinkOf(req[r].row).id}
                                \cup {NewLinkOf(req[r].row)}
                 /\ IssuedLinks' = IssuedLinks \cup {MailOf(NewLinkOf(req[r].row))}
                 /\ generated' = generated + 1
  <1> DEFINE new == NewLinkOf(req[r].row)
  <1>1. req[r].row \in ResetRow /\ req[r].pc \notin CodePcs \cup LinkPcs
    BY Kinds DEF WriteReset, Resetting, CodePcs, LinkPcs
  <1>2. new \in ResetRow
    BY <1>1, NewLink
  <1>3. new.user \in Users /\ new.id \in Nat
    BY <1>2 DEF ResetRow
  <1>4. /\ UNCHANGED <<mailed, unsent, links, unsentLinks>>
        /\ UNCHANGED <<codes, opened, changed, now, faults>>
    BY DEF WriteReset, codeVars
  <1>5. \/ UNCHANGED <<resets, generated>> /\ Respond(r)
        \/ /\ resets' = {row \in resets : row.id # new.id} \cup {new}
           /\ ToSend(r, "rereadLink", new)
    BY DEF WriteReset
  <1> HIDE DEF new
  <1>6. CASE UNCHANGED <<resets, generated>> /\ Respond(r)
    BY <1>1, <1>4, <1>6, RespondStays, RespondEnds
  <1>7. CASE /\ resets' = {row \in resets : row.id # new.id} \cup {new}
             /\ ToSend(r, "rereadLink", new)
    <2>1. "rereadLink" \in LinkPcs
      BY DEF LinkPcs
    <2>2. Wrote(r, "rereadLink", new)
      BY <1>1, <1>3, <1>4, <1>7, <2>1, ToSendWrote
    <2>3. /\ MailOf(new) \in Mail /\ Ends(r) /\ generated' = generated + 1
          /\ IssuedLinks' = IssuedLinks \cup {MailOf(new)} /\ UNCHANGED Issued
      BY <2>1, <2>2 DEF Wrote
    <2> QED  BY <1>2, <1>4, <1>7, <2>3 DEF new
  <1> QED  BY <1>5, <1>6, <1>7

LEMMA OpenWrites ==
    ASSUME TypeOK, NEW r \in Requests, OpenSession(r)
    PROVE  /\ [user |-> req[r].user, code |-> req[r].row.code] \in Opening
           /\ opened' = Append(opened, [user |-> req[r].user, code |-> req[r].row.code])
           /\ opened' \in Seq(Opening)
           /\ Moves(r, Idle)
           /\ UNCHANGED <<mailed, unsent, links, unsentLinks>>
           /\ UNCHANGED <<codes, Issued, resets, IssuedLinks, changed, generated, now, faults>>
  <1>1. req[r] \in Coding /\ req[r].pc \notin CodePcs \cup LinkPcs
    BY Kinds DEF OpenSession, CodePcs, LinkPcs
  <1>2. [user |-> req[r].user, code |-> req[r].row.code] \in Opening
    BY <1>1 DEF Coding, CodeRow, Opening
  <1>3. opened' = Append(opened, [user |-> req[r].user, code |-> req[r].row.code])
    BY DEF OpenSession
  <1>4. opened' \in Seq(Opening)
    BY <1>2, <1>3, AppendProperties DEF TypeOK
  <1>5. /\ Respond(r) /\ UNCHANGED <<mailed, unsent, links, unsentLinks>>
        /\ UNCHANGED <<codes, resets, changed, generated, now, faults>>
    BY DEF OpenSession, resetVars
  <1> QED  BY <1>1, <1>2, <1>3, <1>4, <1>5, RespondMoves, RespondStays

LEMMA SetWrites ==
    ASSUME TypeOK, NEW r \in Requests, SetPassword(r)
    PROVE  /\ [link |-> req[r].row.id, answered |-> FALSE] \in Change
           /\ changed' = Append(changed, [link |-> req[r].row.id, answered |-> FALSE])
           /\ changed' \in Seq(Change)
           /\ UNCHANGED <<mailed, unsent, links, unsentLinks>>
           /\ UNCHANGED <<codes, Issued, opened, resets, IssuedLinks, generated, now, faults>>
  <1>1. req[r] \in Resetting
    BY Kinds DEF SetPassword
  <1>2. [link |-> req[r].row.id, answered |-> FALSE] \in Change
    BY <1>1 DEF Resetting, ResetRow, Change
  <1>3. changed' = Append(changed, [link |-> req[r].row.id, answered |-> FALSE])
    BY DEF SetPassword
  <1>4. changed' \in Seq(Change)
    BY <1>2, <1>3, AppendProperties DEF TypeOK
  <1>5. /\ UNCHANGED <<mailed, unsent, links, unsentLinks>>
        /\ UNCHANGED <<codes, opened, resets, generated, now, faults>>
    BY DEF SetPassword, codeVars
  <1>6. Issued' = Issued /\ IssuedLinks' = IssuedLinks
    <2> DEFINE q == [pc |-> "deleteReset", user |-> req[r].user, row |-> req[r].row]
    <2>1. Moves(r, q)
      BY SetMoves
    <2>2. req[r].pc \notin CodePcs \cup LinkPcs /\ q.pc \notin CodePcs \cup LinkPcs
      BY DEF SetPassword, CodePcs, LinkPcs
    <2> HIDE DEF q
    <2> QED  BY <1>5, <2>1, <2>2, IssuedStay
  <1> QED  BY <1>2, <1>3, <1>4, <1>5, <1>6

\* The answer is noted at the last change by the link.
LEMMA DeleteResetWrites ==
    ASSUME TypeOK, NEW r \in Requests, DeleteReset(r)
    PROVE  /\ resets' = resets \ ResetsOf(req[r].user) /\ Moves(r, Idle)
           /\ UNCHANGED <<mailed, unsent, links, unsentLinks>>
           /\ UNCHANGED <<codes, Issued, opened, IssuedLinks, generated, now, faults>>
           /\ \E last \in 1 .. Len(changed) :
                /\ changed[last].link = req[r].row.id
                /\ \A i \in 1 .. Len(changed) : i > last => changed[i].link # req[r].row.id
                /\ changed' \in Seq(Change) /\ Len(changed') = Len(changed)
                /\ \A i \in 1 .. Len(changed) :
                     /\ changed'[i].link = changed[i].link
                     /\ changed'[i].answered = (changed[i].answered \/ i = last)
  <1>1. changed \in Seq(Change) /\ DOMAIN changed = 1 .. Len(changed) /\ Len(changed) \in Nat
    BY DEF TypeOK
  <1>2. PICK last \in DOMAIN changed :
          /\ changed[last].link = req[r].row.id
          /\ \A i \in last + 1 .. Len(changed) : changed[i].link # req[r].row.id
          /\ changed' = [changed EXCEPT ![last].answered = TRUE]
    BY DEF DeleteReset
  <1>3. last \in 1 .. Len(changed)
    BY <1>1
  <1>4. \A i \in 1 .. Len(changed) : changed[i] \in Change
    BY <1>1
  <1>5. [changed[last] EXCEPT !.answered = TRUE] \in Change
    BY <1>3, <1>4 DEF Change
  <1>6. changed' = [changed EXCEPT ![last] = [changed[last] EXCEPT !.answered = TRUE]]
    BY <1>2
  <1>7. changed' \in Seq(Change) /\ Len(changed') = Len(changed)
    BY <1>1, <1>3, <1>5, <1>6
  <1>8. \A i \in 1 .. Len(changed) :
          /\ changed'[i].link = changed[i].link
          /\ changed'[i].answered = (changed[i].answered \/ i = last)
    BY <1>1, <1>4, <1>6 DEF Change
  <1>9. \A i \in 1 .. Len(changed) : i > last => changed[i].link # req[r].row.id
    BY <1>1, <1>2, <1>3
  <1>10. Moves(r, Idle)
    BY RespondMoves DEF DeleteReset
  <1>11. /\ Respond(r) /\ resets' = resets \ ResetsOf(req[r].user)
         /\ UNCHANGED <<mailed, unsent, links, unsentLinks>>
         /\ UNCHANGED <<codes, opened, generated, now, faults>>
    BY DEF DeleteReset, codeVars
  <1>12. Issued' = Issued /\ IssuedLinks' = IssuedLinks
    <2>1. req[r].pc \notin CodePcs \cup LinkPcs
      BY DEF DeleteReset, CodePcs, LinkPcs
    <2> QED  BY <1>11, <2>1, RespondStays
  <1> QED  BY <1>2, <1>3, <1>7, <1>8, <1>9, <1>10, <1>11, <1>12


\* A step of a request that fails, or of time.
LEMMA FailMoves ==
    ASSUME TypeOK, NEW r \in Requests, RequestFails(r)
    PROVE  Moves(r, Idle) /\ faults' \in Nat
  BY RespondMoves DEF RequestFails, TypeOK

\* The steps of the mail.
Mails(r) == SendCode(r) \/ RereadCode(r) \/ SendLink(r) \/ RereadLink(r)

\* The steps that leave both tables and what was issued as they are.
Reads(r) ==
    \/ \E u \in Users : Resend(r, u) \/ Login(r, u) \/ AskReset(r, u)
    \/ \E m \in mailed : Verify(r, m)
    \/ \E m \in links : ResetPassword(r, m)
    \/ FindCode(r)
    \/ AskNewCode(r)
    \/ FindReset(r)
    \/ RequestFails(r)
    \/ Mails(r)

Kept == UNCHANGED <<codes, Issued, opened, resets, IssuedLinks, changed, generated, now>>

MailsTyped ==
    mailed' \subseteq Mail /\ unsent' \subseteq Mail /\ links' \subseteq Mail /\ unsentLinks' \subseteq Mail

\* A request that has no mail to send, before its step and after it.
LEMMA AsideKept ==
    ASSUME TypeOK, NEW r \in Requests, NEW q, Moves(r, q),
           req[r].pc \notin CodePcs \cup LinkPcs, q.pc \notin CodePcs \cup LinkPcs,
           UNCHANGED <<codes, mailed, unsent, opened, resets, links, unsentLinks, changed, generated, now>>
    PROVE  Kept /\ MailsTyped
  <1>1. Issued' = Issued /\ IssuedLinks' = IssuedLinks
    BY IssuedStay
  <1> QED  BY <1>1 DEF Kept, MailsTyped, TypeOK

LEMMA MailsMove ==
    ASSUME TypeOK, NEW r \in Requests, Mails(r)
    PROVE  Moves(r, Idle) /\ Kept /\ MailsTyped /\ faults' \in Nat
  <1>1. Respond(r) /\ UNCHANGED <<codes, opened, resets, changed, generated, now, faults>>
    BY DEF Mails, SendCode, RereadCode, SendLink, RereadLink, codeVars, resetVars
  <1>2. Moves(r, Idle)
    BY <1>1, RespondMoves
  <1>3. CASE SendCode(r) \/ RereadCode(r)
    <2>1. req[r].pc \in CodePcs /\ req[r].pc \notin LinkPcs
      BY <1>3 DEF SendCode, RereadCode, CodePcs, LinkPcs
    <2>2. req[r].mail \in Mail
      BY <2>1, Kinds DEF Mailing
    <2>3. UNCHANGED <<links, unsentLinks>>
      BY <1>3 DEF SendCode, RereadCode, resetVars
    <2>4. \/ mailed' = mailed \cup {req[r].mail} /\ unsent' = unsent
          \/ mailed' = mailed /\ unsent' = unsent \cup {req[r].mail}
      BY <1>3 DEF SendCode, RereadCode
    <2>5. Issued' = Issued /\ IssuedLinks' = IssuedLinks
      <3>1. mailed' \cup unsent' = mailed \cup unsent \cup {req[r].mail}
        BY <2>4
      <3>2. links' \cup unsentLinks' = links \cup unsentLinks
        BY <2>3
      <3> QED  BY <1>2, <2>1, <3>1, <3>2, IssuedSent
    <2>6. MailsTyped
      BY <2>2, <2>3, <2>4 DEF MailsTyped, TypeOK
    <2> QED  BY <1>1, <1>2, <2>5, <2>6 DEF Kept, TypeOK
  <1>4. CASE SendLink(r) \/ RereadLink(r)
    <2>1. req[r].pc \in LinkPcs /\ req[r].pc \notin CodePcs
      BY <1>4 DEF SendLink, RereadLink, CodePcs, LinkPcs
    <2>2. req[r].mail \in Mail
      BY <2>1, Kinds DEF Mailing
    <2>3. UNCHANGED <<mailed, unsent>>
      BY <1>4 DEF SendLink, RereadLink, codeVars
    <2>4. \/ links' = links \cup {req[r].mail} /\ unsentLinks' = unsentLinks
          \/ links' = links /\ unsentLinks' = unsentLinks \cup {req[r].mail}
      BY <1>4 DEF SendLink, RereadLink
    <2>5. Issued' = Issued /\ IssuedLinks' = IssuedLinks
      <3>1. links' \cup unsentLinks' = links \cup unsentLinks \cup {req[r].mail}
        BY <2>4
      <3>2. mailed' \cup unsent' = mailed \cup unsent
        BY <2>3
      <3> QED  BY <1>2, <2>1, <3>1, <3>2, IssuedSent
    <2>6. MailsTyped
      BY <2>2, <2>3, <2>4 DEF MailsTyped, TypeOK
    <2> QED  BY <1>1, <1>2, <2>5, <2>6 DEF Kept, TypeOK
  <1> QED  BY <1>3, <1>4 DEF Mails

LEMMA FailKeeps ==
    ASSUME TypeOK, NEW r \in Requests, RequestFails(r)
    PROVE  Kept /\ MailsTyped
  <1>1. Moves(r, Idle) /\ UNCHANGED <<codes, mailed, opened, resets, links, changed, generated, now>>
    BY FailMoves DEF RequestFails
  <1>2. /\ unsent' = IF req[r].pc \in CodePcs THEN unsent \cup {req[r].mail} ELSE unsent
        /\ unsentLinks' = IF req[r].pc \in LinkPcs THEN unsentLinks \cup {req[r].mail} ELSE unsentLinks
    BY DEF RequestFails, CodePcs, LinkPcs
  <1>3. CASE req[r].pc \in CodePcs \cup LinkPcs
    <2>1. req[r].mail \in Mail
      BY <1>3, Kinds DEF Mailing
    <2>2. Issued' = Issued /\ IssuedLinks' = IssuedLinks
      <3>1. IF req[r].pc \in CodePcs
            THEN mailed' \cup unsent' = mailed \cup unsent \cup {req[r].mail}
            ELSE mailed' \cup unsent' = mailed \cup unsent
        BY <1>1, <1>2
      <3>2. IF req[r].pc \in LinkPcs
            THEN links' \cup unsentLinks' = links \cup unsentLinks \cup {req[r].mail}
            ELSE links' \cup unsentLinks' = links \cup unsentLinks
        BY <1>1, <1>2
      <3> QED  BY <1>1, <1>3, <3>1, <3>2, IssuedSent
    <2> QED  BY <1>1, <1>2, <2>1, <2>2 DEF Kept, MailsTyped, TypeOK
  <1>4. CASE req[r].pc \notin CodePcs \cup LinkPcs
    <2>1. Idle.pc \notin CodePcs \cup LinkPcs
      BY DEF Idle, CodePcs, LinkPcs
    <2>2. UNCHANGED <<unsent, unsentLinks>>
      BY <1>2, <1>4
    <2> QED  BY <1>1, <1>4, <2>1, <2>2, AsideKept
  <1> QED  BY <1>3, <1>4

\* No mail before the step, none after it.
Plainly(r) ==
    \E q : Moves(r, q) /\ req[r].pc \notin CodePcs \cup LinkPcs /\ q.pc \notin CodePcs \cup LinkPcs

LEMMA PlainRespond ==
    ASSUME NEW r \in Requests, Respond(r), req[r].pc \notin CodePcs \cup LinkPcs
    PROVE  Plainly(r)
  BY RespondMoves DEF Plainly, Idle, CodePcs, LinkPcs

LEMMA PlainMove ==
    ASSUME NEW r \in Requests, NEW q, Moves(r, q),
           req[r].pc \notin CodePcs \cup LinkPcs, q.pc \notin CodePcs \cup LinkPcs
    PROVE  Plainly(r)
  BY DEF Plainly

LEMMA PlainPcs ==
    ASSUME NEW pc, pc \in {"idle", "find", "insert", "ask", "findReset", "insertReset", "write",
                           "delete", "session", "writeReset", "password", "deleteReset"}
    PROVE  pc \notin CodePcs \cup LinkPcs
  BY DEF CodePcs, LinkPcs

LEMMA PlainSteps ==
    ASSUME TypeOK, NEW r \in Requests, Reads(r), ~RequestFails(r), ~Mails(r)
    PROVE  Plainly(r)
  <1>0. req[r].pc \notin CodePcs \cup LinkPcs
    <2>1. req[r].pc \in {"idle", "find", "ask", "findReset"}
      <3>1. Idle.pc = "idle"
        BY DEF Idle
      <3>2. CASE \E u \in Users : Resend(r, u) \/ Login(r, u) \/ AskReset(r, u)
        BY <3>1, <3>2 DEF Resend, Login, AskReset
      <3>3. CASE (\E m \in mailed : Verify(r, m)) \/ (\E m \in links : ResetPassword(r, m))
        BY <3>1, <3>3 DEF Verify, ResetPassword
      <3>4. CASE FindCode(r) \/ AskNewCode(r) \/ FindReset(r)
        BY <3>4 DEF FindCode, AskNewCode, FindReset
      <3> QED  BY <3>2, <3>3, <3>4 DEF Reads
    <2> QED  BY <2>1, PlainPcs
  <1>a. \A pc, u : /\ [pc |-> pc, user |-> u].pc = pc
                   /\ \A row : [pc |-> pc, user |-> u, row |-> row].pc = pc
    OBVIOUS
  <1>1. CASE \E u \in Users : Resend(r, u) \/ Login(r, u) \/ AskReset(r, u)
    <2>1. PICK u \in Users : Resend(r, u) \/ Login(r, u) \/ AskReset(r, u)
      BY <1>1
    <2>2. \E pc \in {"find", "ask", "findReset"} : Moves(r, [pc |-> pc, user |-> u])
      BY <2>1, BeginMoves
    <2>3. PICK q : Moves(r, q) /\ q.pc \in {"find", "ask", "findReset"}
      BY <2>2
    <2> QED  BY <1>0, <2>3, PlainPcs, PlainMove
  <1>2. CASE \E m \in mailed : Verify(r, m)
    <2>1. PICK q : Moves(r, q) /\ q.pc = "delete"
      BY <1>2, <1>a, VerifyMoves
    <2> QED  BY <1>0, <2>1, PlainPcs, PlainMove
  <1>3. CASE \E m \in links : ResetPassword(r, m)
    <2>1. PICK q : Moves(r, q) /\ q.pc = "password"
      BY <1>3, <1>a, ResetMoves
    <2> QED  BY <1>0, <2>1, PlainPcs, PlainMove
  <1>4. CASE FindCode(r)
    <2>1. \E q : Moves(r, q) /\ q.pc \in {"insert", "ask"}
      BY <1>4, <1>a, FindMoves
    <2>2. PICK q : Moves(r, q) /\ q.pc \in {"insert", "ask"}
      BY <2>1
    <2> QED  BY <1>0, <2>2, PlainPcs, PlainMove
  <1>5. CASE AskNewCode(r)
    <2>1. CASE Respond(r)
      BY <1>0, <2>1, PlainRespond
    <2>2. CASE ~Respond(r)
      <3>1. PICK q : Moves(r, q) /\ q.pc = "write"
        BY <1>5, <1>a, <2>2, AskMoves
      <3> QED  BY <1>0, <3>1, PlainPcs, PlainMove
    <2> QED  BY <2>1, <2>2
  <1>6. CASE FindReset(r)
    <2>1. CASE Respond(r)
      BY <1>0, <2>1, PlainRespond
    <2>2. CASE ~Respond(r)
      <3>1. \E q : Moves(r, q) /\ q.pc \in {"insertReset", "writeReset"}
        BY <1>6, <1>a, <2>2, FindResetMoves
      <3>2. PICK q : Moves(r, q) /\ q.pc \in {"insertReset", "writeReset"}
        BY <3>1
      <3> QED  BY <1>0, <3>2, PlainPcs, PlainMove
    <2> QED  BY <2>1, <2>2
  <1> QED  BY <1>1, <1>2, <1>3, <1>4, <1>5, <1>6 DEF Reads

LEMMA ReadsMove ==
    ASSUME TypeOK, NEW r \in Requests, Reads(r)
    PROVE  /\ Kept /\ MailsTyped
           /\ faults' \in Nat
           /\ \E q : Moves(r, q)
  <1>1. CASE RequestFails(r)
    BY <1>1, FailMoves, FailKeeps
  <1>2. CASE Mails(r)
    BY <1>2, MailsMove
  <1>3. CASE ~RequestFails(r) /\ ~Mails(r)
    <2>1. PICK q : Moves(r, q) /\ req[r].pc \notin CodePcs \cup LinkPcs
                   /\ q.pc \notin CodePcs \cup LinkPcs
      BY <1>3, PlainSteps DEF Plainly
    <2>2. UNCHANGED <<codeVars, resetVars, generated, now, faults>>
      BY <1>3 DEF Reads, Resend, Login, AskReset, Verify, ResetPassword, FindCode, AskNewCode,
                  FindReset
    <2>3. Kept /\ MailsTyped
      BY <2>1, <2>2, AsideKept DEF codeVars, resetVars
    <2> QED  BY <2>1, <2>2, <2>3 DEF TypeOK
  <1> QED  BY <1>1, <1>2, <1>3

LEMMA NextCases ==
    ASSUME Next
    PROVE  \/ Tick
           \/ \E r \in Requests :
                \/ Reads(r) \/ InsertCode(r) \/ WriteCode(r) \/ DeleteCode(r) \/ OpenSession(r)
                \/ InsertReset(r) \/ WriteReset(r) \/ SetPassword(r) \/ DeleteReset(r)
  BY DEF Next, Step, Reads, Mails

LEMMA TypeInit == Init => TypeOK
  <1> SUFFICES ASSUME Init PROVE TypeOK
    OBVIOUS
  <1>1. mailed \cup unsent = {} /\ links \cup unsentLinks = {}
    BY DEF Init
  <1>2. Issued \subseteq Mail /\ IssuedLinks \subseteq Mail
    BY <1>1 DEF Issued, IssuedLinks, Waiting
  <1> QED  BY <1>2 DEF Init, TypeOK

\* The types of the variables; what was issued is then of mails.
Typed ==
    /\ codes \subseteq CodeRow
    /\ mailed \subseteq Mail /\ unsent \subseteq Mail
    /\ opened \in Seq(Opening)
    /\ resets \subseteq ResetRow
    /\ links \subseteq Mail /\ unsentLinks \subseteq Mail
    /\ changed \in Seq(Change)
    /\ req \in [Requests -> Request \cup {Idle}]
    /\ generated \in Nat /\ now \in Nat /\ faults \in Nat

LEMMA TypedType ==
    ASSUME Typed'
    PROVE  TypeOK'
  <1>1. Issued' \subseteq Mail /\ IssuedLinks' \subseteq Mail
    BY DEF Typed, Issued, IssuedLinks, Waiting
  <1> QED  BY <1>1 DEF Typed, TypeOK

\* The steps that leave the mails alone.
LEMMA TypeMove ==
    ASSUME TypeOK, NEW r \in Requests, NEW q, Moves(r, q),
           UNCHANGED <<mailed, unsent, links, unsentLinks, now>>,
           codes' \subseteq CodeRow, opened' \in Seq(Opening), resets' \subseteq ResetRow,
           changed' \in Seq(Change), generated' \in Nat, faults' \in Nat
    PROVE  TypeOK'
  <1>1. Typed'
    BY MovesOne DEF Typed, TypeOK
  <1> QED  BY <1>1, TypedType

LEMMA TypeStep ==
    ASSUME TypeOK, [Next]_vars
    PROVE  TypeOK'
  <1>0. generated \in Nat /\ generated + 1 \in Nat /\ codes \subseteq CodeRow
        /\ resets \subseteq ResetRow /\ opened \in Seq(Opening) /\ changed \in Seq(Change)
        /\ faults \in Nat
    BY DEF TypeOK
  <1>1. CASE UNCHANGED vars
    <2>1. Typed'
      BY <1>1 DEF vars, codeVars, resetVars, TypeOK, Typed
    <2> QED  BY <2>1, TypedType
  <1>2. CASE Tick
    <2>1. Typed'
      BY <1>2 DEF Tick, codeVars, resetVars, TypeOK, Typed
    <2> QED  BY <2>1, TypedType
  <1>3. ASSUME NEW r \in Requests, Reads(r)  PROVE TypeOK'
    <2>1. PICK q : Moves(r, q)
      BY <1>3, ReadsMove
    <2>2. Kept /\ MailsTyped /\ faults' \in Nat
      BY <1>3, ReadsMove
    <2>3. Typed'
      BY <2>1, <2>2, MovesOne DEF Kept, MailsTyped, TypeOK, Typed
    <2> QED  BY <2>3, TypedType
  <1>4. ASSUME NEW r \in Requests, InsertCode(r)  PROVE TypeOK'
    <2>1. PICK q : Moves(r, q)
      BY <1>4, InsertWrites DEF Ends
    <2>2. /\ UNCHANGED <<mailed, unsent, links, unsentLinks, now>>
          /\ UNCHANGED <<opened, resets, changed, faults>>
          /\ codes' \subseteq CodeRow /\ generated' \in Nat
      BY <1>0, <1>4, InsertWrites
    <2> QED  BY <1>0, <2>1, <2>2, TypeMove
  <1>5. ASSUME NEW r \in Requests, WriteCode(r)  PROVE TypeOK'
    <2>1. PICK q : Moves(r, q)
      BY <1>5, WriteWrites DEF Ends
    <2>2. /\ UNCHANGED <<mailed, unsent, links, unsentLinks, now>>
          /\ UNCHANGED <<opened, resets, changed, faults>>
          /\ codes' \subseteq CodeRow /\ generated' \in Nat
      BY <1>0, <1>5, WriteWrites
    <2> QED  BY <1>0, <2>1, <2>2, TypeMove
  <1>6. ASSUME NEW r \in Requests, DeleteCode(r)  PROVE TypeOK'
    <2>1. PICK q : Moves(r, q)
      BY <1>6, DeleteMoves
    <2>2. /\ UNCHANGED <<mailed, unsent, links, unsentLinks, now>>
          /\ UNCHANGED <<opened, resets, changed, generated, faults>>
          /\ codes' \subseteq CodeRow
      BY <1>0, <1>6, DeleteWrites
    <2> QED  BY <1>0, <2>1, <2>2, TypeMove
  <1>7. ASSUME NEW r \in Requests, OpenSession(r)  PROVE TypeOK'
    <2>1. /\ Moves(r, Idle) /\ UNCHANGED <<mailed, unsent, links, unsentLinks, now>>
          /\ UNCHANGED <<codes, resets, changed, generated, faults>>
          /\ opened' \in Seq(Opening)
      BY <1>7, OpenWrites
    <2> QED  BY <1>0, <2>1, TypeMove
  <1>8. ASSUME NEW r \in Requests, InsertReset(r)  PROVE TypeOK'
    <2>1. PICK q : Moves(r, q)
      BY <1>8, InsertResetWrites DEF Ends
    <2>2. /\ UNCHANGED <<mailed, unsent, links, unsentLinks, now>>
          /\ UNCHANGED <<codes, opened, changed, faults>>
          /\ resets' \subseteq ResetRow /\ generated' \in Nat
      BY <1>0, <1>8, InsertResetWrites
    <2> QED  BY <1>0, <2>1, <2>2, TypeMove
  <1>9. ASSUME NEW r \in Requests, WriteReset(r)  PROVE TypeOK'
    <2>1. PICK q : Moves(r, q)
      BY <1>9, WriteResetWrites DEF Ends
    <2>2. /\ UNCHANGED <<mailed, unsent, links, unsentLinks, now>>
          /\ UNCHANGED <<codes, opened, changed, faults>>
          /\ resets' \subseteq ResetRow /\ generated' \in Nat
      BY <1>0, <1>9, WriteResetWrites
    <2> QED  BY <1>0, <2>1, <2>2, TypeMove
  <1>10. ASSUME NEW r \in Requests, SetPassword(r)  PROVE TypeOK'
    <2>1. PICK q : Moves(r, q)
      BY <1>10, SetMoves
    <2>2. /\ UNCHANGED <<mailed, unsent, links, unsentLinks, now>>
          /\ UNCHANGED <<codes, opened, resets, generated, faults>>
          /\ changed' \in Seq(Change)
      BY <1>10, SetWrites
    <2> QED  BY <1>0, <2>1, <2>2, TypeMove
  <1>11. ASSUME NEW r \in Requests, DeleteReset(r)  PROVE TypeOK'
    <2>1. /\ Moves(r, Idle) /\ UNCHANGED <<mailed, unsent, links, unsentLinks, now>>
          /\ UNCHANGED <<codes, opened, generated, faults>>
          /\ resets' \subseteq ResetRow /\ changed' \in Seq(Change)
      BY <1>0, <1>11, DeleteResetWrites
    <2> QED  BY <1>0, <2>1, TypeMove
  <1> QED  BY <1>1, <1>2, <1>3, <1>4, <1>5, <1>6, <1>7, <1>8, <1>9, <1>10, <1>11, NextCases

\* Every table, mail and request in flight has the type it is declared with.
THEOREM TypeCorrect == Spec => []TypeOK
  <1>1. TypeOK /\ [Next]_vars => TypeOK'
    BY TypeStep
  <1> QED  BY TypeInit, <1>1, PTL DEF Spec

-----------------------------------------------------------------------------
(* The inductive invariant.  Two requests of a user are never in flight     *)
(* together.                                                                *)

OnePerUser ==
    \A q, r \in Requests :
        q # r /\ req[q] # Idle /\ req[r] # Idle => req[q].user # req[r].user

\* Codes, rows and mails so far.
CodesKnown ==
    /\ IsFiniteSet(Issued)
    /\ \A row \in codes : row.id <= generated /\ row.code <= generated
    /\ \A m \in Issued : m.code <= generated /\ m.row <= generated /\ m.at <= now
    /\ \A i \in DOMAIN opened : opened[i].code <= generated

\* A user has one row, an id and a code are of one row.
OneCode ==
    \A a, b \in codes : a.user = b.user \/ a.id = b.id \/ a.code = b.code => a = b

\* The code of a row was made for it.
CodesIssued ==
    \A row \in codes : \E m \in Issued : m.row = row.id /\ m.code = row.code

LastCode == \A row \in codes : \A m \in Issued : m.user = row.user => m.code <= row.code

\* A code opened one session, and one that is still there opened none.
OpenedOnce ==
    /\ \A i, j \in DOMAIN opened : opened[i].code = opened[j].code => i = j
    /\ \A row \in codes : \A i \in DOMAIN opened : opened[i].code # row.code

\* What a request q of a code relies on.
CodeRequest(q) ==
    /\ q.pc = "insert" => \A row \in codes : row.user # q.user
    /\ q.pc = "write" =>
         /\ q.row.user = q.user
         /\ \E old \in codes : old.id = q.row.id /\ old.user = q.user
    /\ q.pc = "delete" => q.row \in codes /\ q.row.user = q.user
    /\ q.pc = "session" =>
         /\ q.row.code <= generated
         /\ \A row \in codes : row.code # q.row.code
         /\ \A i \in DOMAIN opened : opened[i].code # q.row.code

SessionsApart ==
    \A q, r \in Requests :
        q # r /\ req[q].pc = "session" /\ req[r].pc = "session" => req[q].row.code # req[r].row.code

\* How many mails the window from first may hold, by the count and the delay of
\* its row as it is, or as a request will write it.
CodeCounted(row) ==
    row.delay = 0 =>
        /\ row.count < MaxCount
        /\ \A first \in Issued : first.row = row.id =>
             \/ first.at + Delay <= now
             \/ MailedFrom(Issued, first) <= row.count + 1

CodeDelayed(row) ==
    row.delay # 0 => \A first \in Issued : first.row = row.id => first.at + Delay <= row.delay

CodesThrottled ==
    /\ \A first \in Issued : MailedFrom(Issued, first) <= MaxCount + 1
    /\ \A row \in codes : CodeCounted(row) /\ CodeDelayed(row)
    /\ \A r \in Requests :
         req[r].pc = "write" => req[r].row.delay = 0 /\ CodeCounted(req[r].row)

CodeInv ==
    /\ CodesKnown
    /\ OneCode
    /\ CodesIssued
    /\ LastCode
    /\ OpenedOnce
    /\ \A r \in Requests : CodeRequest(req[r])
    /\ SessionsApart

-----------------------------------------------------------------------------
(* The same of links. *)

LinksKnown ==
    /\ IsFiniteSet(IssuedLinks)
    /\ \A row \in resets : row.id <= generated
    /\ \A m \in IssuedLinks : m.row <= generated /\ m.at <= now
    /\ \A i \in DOMAIN changed : changed[i].link <= generated

OneReset == \A a, b \in resets : a.user = b.user \/ a.id = b.id => a = b

LastLink ==
    \A row \in resets : \A m \in IssuedLinks :
        m.user = row.user => m.row <= row.id /\ m.at < row.expires

ChangedOnce ==
    /\ \A i, j \in DOMAIN changed :
         i < j /\ changed[i].link = changed[j].link => ~changed[i].answered
    /\ \A row \in resets : \A i \in DOMAIN changed :
         changed[i].link = row.id => ~changed[i].answered

ResetRequest(q) ==
    /\ q.pc = "insertReset" => \A row \in resets : row.user # q.user
    /\ q.pc \in {"writeReset", "password", "deleteReset"} =>
         q.row \in resets /\ q.row.user = q.user
    /\ q.pc = "writeReset" => q.row.delay <= now

\* Here the count is never forgotten.
LinksThrottled ==
    /\ \A first \in IssuedLinks : MailedFrom(IssuedLinks, first) <= MaxCount
    /\ \A row \in resets :
         IF row.delay = 0
         THEN row.count < MaxCount
              /\ \A first \in IssuedLinks : first.row = row.id => MailedFrom(IssuedLinks, first) <= row.count
         ELSE row.count >= MaxCount
              /\ \A first \in IssuedLinks : first.row = row.id => first.at + Delay <= row.delay

LinkInv ==
    /\ LinksKnown
    /\ OneReset
    /\ LastLink
    /\ ChangedOnce
    /\ \A r \in Requests : ResetRequest(req[r])


-----------------------------------------------------------------------------
(* The window from a mail. *)

LEMMA WindowNat ==
    ASSUME NEW mails, IsFiniteSet(mails), NEW first
    PROVE  MailedFrom(mails, first) \in Nat
  BY FS_Subset, FS_CardinalityType DEF MailedFrom

LEMMA WindowSubset ==
    ASSUME NEW all, IsFiniteSet(all), NEW mails, mails \subseteq all, NEW first
    PROVE  MailedFrom(mails, first) <= MailedFrom(all, first)
  <1>1. {m \in mails : m.row = first.row /\ first.at <= m.at /\ m.at < first.at + Delay}
          \subseteq {m \in all : m.row = first.row /\ first.at <= m.at /\ m.at < first.at + Delay}
    OBVIOUS
  <1>2. IsFiniteSet({m \in all : m.row = first.row /\ first.at <= m.at /\ m.at < first.at + Delay})
    BY FS_Subset
  <1> QED  BY <1>1, <1>2, FS_Subset DEF MailedFrom

LEMMA WindowAdd ==
    ASSUME NEW mails, IsFiniteSet(mails), NEW new, NEW first
    PROVE  /\ MailedFrom(mails \cup {new}, first) <= MailedFrom(mails, first) + 1
           /\ ~(new.row = first.row /\ first.at <= new.at /\ new.at < first.at + Delay)
                => MailedFrom(mails \cup {new}, first) = MailedFrom(mails, first)
  <1> DEFINE Within(m) == m.row = first.row /\ first.at <= m.at /\ m.at < first.at + Delay
             before == {m \in mails : Within(m)}
             after == {m \in mails \cup {new} : Within(m)}
  <1>1. IsFiniteSet(before) /\ Cardinality(before) \in Nat
    BY FS_Subset, FS_CardinalityType
  <1>2. MailedFrom(mails, first) = Cardinality(before)
        /\ MailedFrom(mails \cup {new}, first) = Cardinality(after)
    BY DEF MailedFrom
  <1>3. after = before \/ after = before \cup {new}
    OBVIOUS
  <1>4. ~Within(new) => after = before
    OBVIOUS
  <1>5. Cardinality(before \cup {new}) <= Cardinality(before) + 1
    <2>1. /\ IsFiniteSet(before \cup {new})
          /\ \/ Cardinality(before \cup {new}) = Cardinality(before)
             \/ Cardinality(before \cup {new}) = Cardinality(before) + 1
      BY <1>1, FS_AddElement
    <2> QED  BY <1>1, <2>1
  <1>6. Cardinality(after) <= Cardinality(before) + 1
    <2>1. CASE after = before
      <3>1. Cardinality(after) = Cardinality(before)
        BY <2>1
      <3> HIDE DEF before, after
      <3> QED  BY <1>1, <3>1
    <2>2. CASE after = before \cup {new}
      <3>1. Cardinality(after) = Cardinality(before \cup {new})
        BY <2>2
      <3> QED  BY <1>5, <3>1
    <2> QED  BY <1>3, <2>1, <2>2
  <1> QED  BY <1>2, <1>4, <1>6

\* A mail at the end of time has alone, or with another of the moment, the same
\* window.
LEMMA WindowLast ==
    ASSUME NEW mails \in SUBSET Mail, NEW new \in Mail, \A m \in mails : m.at <= new.at
    PROVE  \/ MailedFrom(mails \cup {new}, new) <= 1
           \/ \E old \in mails :
                /\ old.row = new.row /\ old.at = new.at
                /\ MailedFrom(mails \cup {new}, new) = MailedFrom(mails \cup {new}, old)
  <1>1. CASE \E old \in mails : old.row = new.row /\ old.at = new.at
    BY <1>1 DEF MailedFrom
  <1>2. CASE \A old \in mails : ~(old.row = new.row /\ old.at = new.at)
    <2>1. \A m \in mails : m.row = new.row => ~(new.at <= m.at)
      BY <1>2 DEF Mail
    <2>2. {m \in mails \cup {new} : m.row = new.row /\ new.at <= m.at /\ m.at < new.at + Delay}
            \subseteq {new}
      BY <2>1
    <2>3. IsFiniteSet({new}) /\ Cardinality({new}) = 1
      BY FS_Singleton
    <2>4. MailedFrom(mails \cup {new}, new) <= 1
      BY <2>2, <2>3, FS_Subset DEF MailedFrom
    <2> QED  BY <2>4
  <1> QED  BY <1>1, <1>2

\* One more mail of a row, where every window that it falls into held n at most.
LEMMA WindowsGrow ==
    ASSUME NEW mails \in SUBSET Mail, IsFiniteSet(mails), NEW new \in Mail, NEW n \in Nat,
           \A m \in mails : m.at <= new.at,
           \A first \in mails : first.row = new.row =>
               first.at + Delay <= new.at \/ MailedFrom(mails, first) <= n
    PROVE  /\ IsFiniteSet(mails \cup {new})
           /\ \A first \in mails \cup {new} :
                /\ first.row # new.row =>
                     first \in mails
                     /\ MailedFrom(mails \cup {new}, first) = MailedFrom(mails, first)
                /\ first.row = new.row =>
                     \/ /\ first \in mails /\ first.at + Delay <= new.at
                        /\ MailedFrom(mails \cup {new}, first) = MailedFrom(mails, first)
                     \/ MailedFrom(mails \cup {new}, first) <= n + 1
  <1> DEFINE all == mails \cup {new}
  <1>1. IsFiniteSet(all)
    BY FS_AddElement
  <1>2. \A first \in mails : first.row # new.row => MailedFrom(all, first) = MailedFrom(mails, first)
    BY WindowAdd
  <1>3. ASSUME NEW first \in mails, first.row = new.row
        PROVE  \/ /\ first.at + Delay <= new.at
                  /\ MailedFrom(all, first) = MailedFrom(mails, first)
               \/ MailedFrom(all, first) <= n + 1
    <2>1. MailedFrom(mails, first) \in Nat /\ MailedFrom(all, first) \in Nat
      BY <1>1, WindowNat
    <2>2. CASE first.at + Delay <= new.at
      <3>1. ~(new.at < first.at + Delay)
        BY <2>2, CodeAssumption DEF Mail
      <3> QED  BY <2>2, <3>1, WindowAdd
    <2>3. CASE MailedFrom(mails, first) <= n
      <3>1. MailedFrom(all, first) <= MailedFrom(mails, first) + 1
        BY WindowAdd
      <3> HIDE DEF all
      <3> QED  BY <2>1, <2>3, <3>1
    <2> QED  BY <1>3, <2>2, <2>3
  <1>4. MailedFrom(all, new) <= n + 1
    <2>1. MailedFrom(all, new) \in Nat
      BY <1>1, WindowNat
    <2>2. CASE MailedFrom(all, new) <= 1
      <3> HIDE DEF all
      <3> QED  BY <2>1, <2>2
    <2>3. ASSUME NEW old \in mails, old.row = new.row, old.at = new.at,
                 MailedFrom(all, new) = MailedFrom(all, old)
          PROVE  MailedFrom(all, new) <= n + 1
      <3>1. ~(old.at + Delay <= new.at)
        BY <2>3, CodeAssumption DEF Mail
      <3> QED  BY <1>3, <2>3, <3>1
    <2> QED  BY <2>2, <2>3, WindowLast
  <1> QED  BY <1>1, <1>2, <1>3, <1>4

-----------------------------------------------------------------------------
(* Codes: what the steps that leave them alone keep. *)

LEMMA KindOf ==
    ASSUME NEW q \in Request \cup {Idle}
    PROVE  /\ q.pc \in {"find", "insert", "ask", "findReset", "insertReset"} => q \in Finding
           /\ q.pc \in {"write", "delete", "session"} => q \in Coding
           /\ q.pc \in {"writeReset", "password", "deleteReset"} => q \in Resetting
           /\ q.pc = "idle" <=> q = Idle
  <1>1. q \in Finding \cup Coding \cup Resetting \cup Mailing \cup {Idle}
    BY DEF Request, Finding, Coding, Resetting, Mailing
  <1> QED  BY <1>1 DEF Finding, Coding, Resetting, Mailing, Idle

LEMMA Elements ==
    ASSUME TypeOK
    PROVE  /\ DOMAIN opened = 1 .. Len(opened) /\ Len(opened) \in Nat
           /\ \A i \in DOMAIN opened : opened[i] \in Opening
           /\ DOMAIN changed = 1 .. Len(changed) /\ Len(changed) \in Nat
           /\ \A i \in DOMAIN changed : changed[i] \in Change
  <1>1. opened \in Seq(Opening) /\ changed \in Seq(Change)
    BY DEF TypeOK
  <1> QED  BY <1>1, ElementOfSeq, LenProperties

\* A request that is done with the tables.
LEMMA EndsOne ==
    ASSUME TypeOK, NEW r \in Requests, Ends(r)
    PROVE  /\ req'[r].pc \notin {"insert", "write", "delete", "session"}
           /\ req'[r].pc \notin {"insertReset", "writeReset", "password", "deleteReset"}
           /\ \A s \in Requests : s # r => req'[s] = req[s]
           /\ \E q : /\ Moves(r, q) /\ q.pc \notin {"insert", "write", "delete", "session"}
                     /\ q.pc \notin {"insertReset", "writeReset", "password", "deleteReset"}
  <1>1. PICK q : Moves(r, q) /\ q.pc \in {"idle"} \cup CodePcs \cup LinkPcs
    BY DEF Ends
  <1>2. /\ q.pc \notin {"insert", "write", "delete", "session"}
        /\ q.pc \notin {"insertReset", "writeReset", "password", "deleteReset"}
    BY <1>1 DEF CodePcs, LinkPcs
  <1>3. req'[r] = q /\ \A s \in Requests : s # r => req'[s] = req[s]
    BY <1>1, MovesOne
  <1> QED  BY <1>1, <1>2, <1>3

LEMMA IssuedSame ==
    ASSUME UNCHANGED <<mailed, unsent, links, unsentLinks, req>>
    PROVE  Issued' = Issued /\ IssuedLinks' = IssuedLinks
  BY DEF Issued, IssuedLinks, Waiting

LEMMA IssuedInit ==
    ASSUME Init
    PROVE  Issued = {} /\ IssuedLinks = {}
  <1>1. \A r \in Requests : req[r].pc \notin CodePcs \cup LinkPcs
    BY DEF Init, Idle, CodePcs, LinkPcs
  <1>2. Waiting(CodePcs) = {} /\ Waiting(LinkPcs) = {}
    BY <1>1 DEF Waiting
  <1> QED  BY <1>2 DEF Init, Issued, IssuedLinks

LEMMA NoCodeRequest ==
    ASSUME NEW q, q.pc \notin {"insert", "write", "delete", "session"}
    PROVE  CodeRequest(q)
  BY DEF CodeRequest

LEMMA CodeRequestStays ==
    ASSUME TypeOK, TypeOK', NEW q \in Request \cup {Idle}, CodeRequest(q),
           UNCHANGED <<codes, opened>>, generated <= generated'
    PROVE  CodeRequest(q)'
  <1>1. q.pc = "session" => q.row.code \in Nat
    BY KindOf DEF Coding, CodeRow
  <1>2. q.pc = "session" => q.row.code <= generated'
    BY <1>1 DEF CodeRequest, TypeOK
  <1> QED  BY <1>2 DEF CodeRequest

LEMMA CodesStay ==
    ASSUME TypeOK, TypeOK', CodeInv, NEW r \in Requests, NEW q, Moves(r, q),
           UNCHANGED <<codes, Issued, opened, now>>, generated <= generated',
           q.pc # "session", CodeRequest(q)
    PROVE  CodeInv'
  <1>1. CodesKnown'
    <2>1. \A row \in codes : row.id \in Nat /\ row.code \in Nat
      BY DEF TypeOK, CodeRow
    <2>2. \A m \in Issued : m.code \in Nat /\ m.row \in Nat
      BY DEF TypeOK, Mail
    <2>3. \A i \in DOMAIN opened : opened[i].code \in Nat
      BY Elements DEF Opening
    <2>4. generated \in Nat /\ generated' \in Nat
      BY DEF TypeOK
    <2>5. CodesKnown
      BY DEF CodeInv
    <2>6. \A row \in codes : row.id <= generated' /\ row.code <= generated'
      BY <2>1, <2>4, <2>5 DEF CodesKnown
    <2>7. \A m \in Issued : m.code <= generated' /\ m.row <= generated'
      BY <2>2, <2>4, <2>5 DEF CodesKnown
    <2>8. \A i \in DOMAIN opened : opened[i].code <= generated'
      BY <2>3, <2>4, <2>5 DEF CodesKnown
    <2> QED  BY <2>5, <2>6, <2>7, <2>8 DEF CodesKnown
  <1>2. OneCode' /\ CodesIssued' /\ LastCode' /\ OpenedOnce'
    BY DEF CodeInv, OneCode, CodesIssued, LastCode, OpenedOnce
  <1>3. ASSUME NEW s \in Requests  PROVE CodeRequest(req[s])'
    <2>1. q \in Request \cup {Idle} /\ req[s] \in Request \cup {Idle}
      BY DEF Moves, TypeOK
    <2>2. CodeRequest(q)'
      BY <2>1, CodeRequestStays
    <2>3. CASE s = r
      BY <2>2, <2>3, MovesOne DEF CodeRequest
    <2>4. CASE s # r
      <3>1. req'[s] = req[s]
        BY <2>4, MovesOne
      <3>2. CodeRequest(req[s])
        BY DEF CodeInv
      <3> DEFINE p == req[s]
      <3>3. p \in Request \cup {Idle} /\ CodeRequest(p) /\ req'[s] = p
        BY <2>1, <3>1, <3>2
      <3>4. ASSUME NEW x \in Request \cup {Idle}, CodeRequest(x), req'[s] = x
            PROVE  CodeRequest(req[s])'
        <4>1. CodeRequest(x)'
          BY <3>4, CodeRequestStays
        <4> QED  BY <3>4, <4>1 DEF CodeRequest
      <3> HIDE DEF p
      <3> QED  BY <3>3, <3>4
    <2> QED  BY <2>3, <2>4
  <1>4. SessionsApart'
    <2>1. \A s \in Requests : req'[s].pc = "session" => s # r /\ req'[s] = req[s]
      BY MovesOne
    <2> QED  BY <2>1 DEF CodeInv, SessionsApart
  <1> QED  BY <1>1, <1>2, <1>3, <1>4 DEF CodeInv

LEMMA CodesThrottledStay ==
    ASSUME TypeOK, CodesThrottled, NEW r \in Requests, NEW q, Moves(r, q),
           UNCHANGED <<Issued, now>>, codes' \subseteq codes,
           q.pc = "write" => q.row.delay = 0 /\ CodeCounted(q.row)
    PROVE  CodesThrottled'
  <1>1. \A s \in Requests : req'[s] = q \/ req'[s] = req[s]
    BY MovesOne
  <1>2. ASSUME NEW row \in codes  PROVE CodeCounted(row)' /\ CodeDelayed(row)'
    BY DEF CodesThrottled, CodeCounted, CodeDelayed
  <1>3. ASSUME NEW s \in Requests, req'[s].pc = "write"
        PROVE  req'[s].row.delay = 0 /\ CodeCounted(req[s].row)'
    <2>1. CASE req'[s] = q
      BY <1>3, <2>1 DEF CodeCounted
    <2>2. CASE req'[s] = req[s]
      BY <1>3, <2>2 DEF CodesThrottled, CodeCounted
    <2> QED  BY <1>1, <2>1, <2>2
  <1>4. \A first \in Issued' : MailedFrom(Issued', first) <= MaxCount + 1
    BY DEF CodesThrottled
  <1> QED  BY <1>2, <1>3, <1>4 DEF CodesThrottled

LEMMA CodesInit == Init => CodeInv /\ CodesThrottled
  <1> SUFFICES ASSUME Init PROVE CodeInv /\ CodesThrottled
    OBVIOUS
  <1>1. \A r \in Requests : req[r] = Idle
    BY DEF Init
  <1>2. \A r \in Requests : CodeRequest(req[r])
    BY <1>1, NoCodeRequest DEF Idle
  <1>3. SessionsApart
    BY <1>1 DEF SessionsApart, Idle
  <1>4. CodesKnown /\ OneCode /\ CodesIssued /\ LastCode /\ OpenedOnce
    BY FS_EmptySet, IssuedInit DEF Init, CodesKnown, OneCode, CodesIssued, LastCode, OpenedOnce
  <1>5. CodesThrottled
    BY <1>1, IssuedInit DEF Init, CodesThrottled, Idle
  <1> QED  BY <1>2, <1>3, <1>4, <1>5 DEF CodeInv

LEMMA CodesTick ==
    ASSUME TypeOK, CodeInv, CodesThrottled, Tick
    PROVE  CodeInv' /\ CodesThrottled'
  <1>1. UNCHANGED <<codes, Issued, opened, req, generated>> /\ now' = now + 1
    BY IssuedSame DEF Tick, codeVars, resetVars
  <1>2. \A r \in Requests : req[r] = Idle
    BY DEF Tick
  <1>3. CodesKnown'
    <2>1. \A m \in Issued : m.at \in Nat
      BY DEF TypeOK, Mail
    <2> QED  BY <1>1, <2>1 DEF CodeInv, CodesKnown, TypeOK
  <1>4. OneCode' /\ CodesIssued' /\ LastCode' /\ OpenedOnce' /\ SessionsApart'
    BY <1>1 DEF CodeInv, OneCode, CodesIssued, LastCode, OpenedOnce, SessionsApart
  <1>5. \A r \in Requests : CodeRequest(req[r])'
    BY <1>1 DEF CodeInv, CodeRequest
  <1>6. ASSUME NEW row \in codes  PROVE CodeCounted(row)' /\ CodeDelayed(row)'
    <2>1. \A m \in Issued : m.at \in Nat
      BY DEF TypeOK, Mail
    <2>2. \A m \in Issued : m.at + Delay <= now => m.at + Delay <= now + 1
      BY <2>1, CodeAssumption DEF TypeOK
    <2> QED  BY <1>1, <2>2 DEF CodesThrottled, CodeCounted, CodeDelayed
  <1>7. CodesThrottled'
    BY <1>1, <1>2, <1>6 DEF CodesThrottled, Idle
  <1> QED  BY <1>3, <1>4, <1>5, <1>7 DEF CodeInv

-----------------------------------------------------------------------------
(* Codes: the steps that write them. *)

\* A request of another user than r's goes on.
LEMMA Others ==
    ASSUME TypeOK, OnePerUser, NEW r \in Requests, NEW s \in Requests, s # r,
           req[r].pc # "idle", req[s].pc # "idle"
    PROVE  req[s].user # req[r].user
  BY Kinds DEF OnePerUser

LEMMA InsertKeeps ==
    ASSUME TypeOK, TypeOK', OnePerUser, CodeInv, NEW r \in Requests, InsertCode(r)
    PROVE  CodeInv'
  <1> DEFINE new == Inserted(r)
             mail == MailOf(new)
  <1>1. /\ codes' = codes \cup {new} /\ Issued' = Issued \cup {mail}
        /\ generated' = generated + 1 /\ UNCHANGED <<opened, now>> /\ Ends(r)
        /\ new \in CodeRow /\ mail \in Mail
    BY InsertWrites
  <1>2. /\ new.id = generated + 1 /\ new.code = generated + 1 /\ new.user = req[r].user
        /\ mail.user = new.user /\ mail.code = generated + 1 /\ mail.row = generated + 1
        /\ mail.at = now
    BY DEF Inserted, MailOf
  <1> HIDE DEF new, mail
  <1>3. generated \in Nat /\ now \in Nat
    BY DEF TypeOK
  <1>4. /\ \A row \in codes : row.id \in Nat /\ row.code \in Nat
        /\ \A m \in Issued : m.code \in Nat /\ m.row \in Nat
        /\ \A i \in DOMAIN opened : opened[i].code \in Nat
    BY Elements DEF TypeOK, CodeRow, Mail, Opening
  <1>5. /\ \A row \in codes : row.id <= generated /\ row.code <= generated
        /\ \A m \in Issued : m.code <= generated /\ m.row <= generated /\ m.at <= now
        /\ \A i \in DOMAIN opened : opened[i].code <= generated
        /\ IsFiniteSet(Issued)
    BY DEF CodeInv, CodesKnown
  <1>6. req[r].pc = "insert" /\ \A row \in codes : row.user # new.user
    BY <1>2 DEF CodeInv, CodeRequest, InsertCode
  <1>7. CodesKnown'
    <2>1. IsFiniteSet(Issued')
      BY <1>1, <1>5, FS_AddElement
    <2>2. \A row \in codes' : row.id <= generated' /\ row.code <= generated'
      BY <1>1, <1>2, <1>3, <1>4, <1>5
    <2>3. \A m \in Issued' : m.code <= generated' /\ m.row <= generated' /\ m.at <= now
      BY <1>1, <1>2, <1>3, <1>4, <1>5
    <2>4. \A i \in DOMAIN opened : opened[i].code <= generated'
      BY <1>1, <1>3, <1>4, <1>5
    <2> QED  BY <1>1, <2>1, <2>2, <2>3, <2>4 DEF CodesKnown
  <1>8. OneCode'
    <2>1. \A row \in codes : row.user # new.user /\ row.id # new.id /\ row.code # new.code
      BY <1>2, <1>3, <1>4, <1>5, <1>6
    <2> QED  BY <1>1, <2>1 DEF CodeInv, OneCode
  <1>c. CodesIssued'
    <2>1. mail \in Issued' /\ mail.row = new.id /\ mail.code = new.code
      BY <1>1, <1>2
    <2> QED  BY <1>1, <2>1 DEF CodeInv, CodesIssued
  <1>9. LastCode'
    <2>1. \A m \in Issued' : m.code <= new.code
      BY <1>1, <1>2, <1>3, <1>4, <1>5
    <2> QED  BY <1>1, <1>2, <1>6, <2>1 DEF CodeInv, LastCode
  <1>10. OpenedOnce'
    <2>1. \A i \in DOMAIN opened : opened[i].code # new.code
      BY <1>2, <1>3, <1>4, <1>5
    <2> QED  BY <1>1, <2>1 DEF CodeInv, OpenedOnce
  <1>11. ASSUME NEW s \in Requests  PROVE CodeRequest(req[s])'
    <2>1. CASE s = r
      BY <1>1, <2>1, EndsOne DEF CodeRequest
    <2>2. CASE s # r
      <3>1. req'[s] = req[s] /\ CodeRequest(req[s])
        BY <1>1, <2>2, EndsOne DEF CodeInv
      <3>2. req[s].pc # "idle" => req[s].user # new.user
        BY <1>2, <1>6, <2>2, Others
      <3>3. req[s].pc = "session" => req[s].row.code \in Nat
        BY Kinds DEF Coding, CodeRow
      <3>4. req[s].pc = "insert" => \A row \in codes' : row.user # req[s].user
        BY <1>1, <3>1, <3>2 DEF CodeRequest
      <3>5. req[s].pc = "session" => req[s].row.code <= generated'
                                     /\ \A row \in codes' : row.code # req[s].row.code
        BY <1>1, <1>2, <1>3, <3>1, <3>3 DEF CodeRequest
      <3>6. req[s].pc = "write" => /\ req[s].row.user = req[s].user
                                   /\ \E old \in codes' : old.id = req[s].row.id /\ old.user = req[s].user
        BY <1>1, <3>1 DEF CodeRequest
      <3>7. req[s].pc = "delete" => req[s].row \in codes' /\ req[s].row.user = req[s].user
        BY <1>1, <3>1 DEF CodeRequest
      <3>8. req[s].pc = "session" => \A i \in DOMAIN opened' : opened'[i].code # req[s].row.code
        BY <1>1, <3>1 DEF CodeRequest
      <3> QED  BY <3>1, <3>4, <3>5, <3>6, <3>7, <3>8 DEF CodeRequest
    <2> QED  BY <2>1, <2>2
  <1>12. SessionsApart'
    <2>1. \A s \in Requests : req'[s].pc = "session" => req'[s] = req[s]
      BY <1>1, EndsOne
    <2> QED  BY <2>1 DEF CodeInv, SessionsApart
  <1> QED  BY <1>7, <1>8, <1>c, <1>9, <1>10, <1>11, <1>12 DEF CodeInv

\* The row written is the one of its user, and replaces it.
LEMMA OneWritten ==
    ASSUME TypeOK, CodeInv, NEW r \in Requests, req[r].pc = "write"
    PROVE  \A row \in codes : row.id = req[r].row.id <=> row.user = req[r].user
  BY DEF CodeInv, CodeRequest, OneCode

LEMMA WriteKeeps ==
    ASSUME TypeOK, TypeOK', OnePerUser, CodeInv, NEW r \in Requests, WriteCode(r)
    PROVE  CodeInv'
  <1>1. Ends(r) /\ UNCHANGED <<opened, now>>
    BY WriteWrites
  <1>2. CASE UNCHANGED <<codes, Issued, generated>>
    <2>1. PICK q : Moves(r, q) /\ q.pc \notin {"insert", "write", "delete", "session"}
      BY <1>1, EndsOne
    <2>2. generated <= generated'
      BY <1>2 DEF TypeOK
    <2> QED  BY <1>1, <1>2, <2>1, <2>2, NoCodeRequest, CodesStay
  <1>3. CASE ~UNCHANGED <<codes, Issued, generated>>
    <2> DEFINE new == Written(r)
               mail == MailOf(new)
    <2>1. /\ new \in CodeRow /\ mail \in Mail /\ new.id = req[r].row.id
          /\ codes' = {row \in codes : row.id # new.id} \cup {new}
          /\ Issued' = Issued \cup {mail} /\ generated' = generated + 1
      BY <1>3, WriteWrites
    <2>2. /\ mail.user = new.user /\ mail.code = generated + 1 /\ mail.row = new.id
          /\ mail.at = now
      BY DEF MailOf
    <2>3. generated \in Nat /\ now \in Nat
      BY DEF TypeOK
    <2>4. req[r].row \in CodeRow /\ req[r].pc = "write" /\ req[r].row.user = req[r].user
      BY Kinds DEF WriteCode, Coding, CodeInv, CodeRequest
    <2>5. new.code = generated + 1 /\ new.user = req[r].user
      <3>1. generated + 1 \in Nat
        BY <2>3
      <3> QED  BY <2>4, <3>1, NewCode DEF Written
    <2> HIDE DEF new, mail
    <2>6. /\ \A row \in codes : row.id \in Nat /\ row.code \in Nat
          /\ \A m \in Issued : m.code \in Nat /\ m.row \in Nat
          /\ \A i \in DOMAIN opened : opened[i].code \in Nat
      BY Elements DEF TypeOK, CodeRow, Mail, Opening
    <2>7. /\ \A row \in codes : row.id <= generated /\ row.code <= generated
          /\ \A m \in Issued : m.code <= generated /\ m.row <= generated /\ m.at <= now
          /\ \A i \in DOMAIN opened : opened[i].code <= generated
          /\ IsFiniteSet(Issued)
      BY DEF CodeInv, CodesKnown
    <2>8. \A row \in codes : row.id = new.id <=> row.user = new.user
      BY <2>1, <2>4, <2>5, OneWritten
    <2>9. new.id <= generated /\ new.id \in Nat
      <3>1. PICK old \in codes : old.id = req[r].row.id
        BY <2>4 DEF CodeInv, CodeRequest
      <3> QED  BY <2>1, <2>6, <2>7, <3>1
    <2>10. CodesKnown'
      <3>1. IsFiniteSet(Issued')
        BY <2>1, <2>7, FS_AddElement
      <3>2. \A row \in codes' : row.id <= generated' /\ row.code <= generated'
        BY <2>1, <2>3, <2>5, <2>6, <2>7, <2>9
      <3>3. \A m \in Issued' : m.code <= generated' /\ m.row <= generated' /\ m.at <= now
        BY <2>1, <2>2, <2>3, <2>6, <2>7, <2>9
      <3>4. \A i \in DOMAIN opened : opened[i].code <= generated'
        BY <2>1, <2>3, <2>6, <2>7
      <3> QED  BY <1>1, <3>1, <3>2, <3>3, <3>4 DEF CodesKnown
    <2>11. OneCode'
      <3>1. \A row \in codes : row.id # new.id => row.user # new.user /\ row.code # new.code
        BY <2>3, <2>5, <2>6, <2>7, <2>8
      <3> QED  BY <2>1, <3>1 DEF CodeInv, OneCode
    <2>c. CodesIssued'
      <3>1. mail \in Issued' /\ mail.row = new.id /\ mail.code = new.code
        BY <2>1, <2>2, <2>5
      <3> QED  BY <2>1, <3>1 DEF CodeInv, CodesIssued
    <2>12. LastCode'
      <3>1. \A m \in Issued' : m.code <= new.code
        BY <2>1, <2>2, <2>3, <2>5, <2>6, <2>7
      <3>2. \A row \in codes' : row = new \/ (row \in codes /\ row.user # new.user)
        BY <2>1, <2>8
      <3>3. \A m \in Issued' : m \in Issued \/ m.user = new.user
        BY <2>1, <2>2
      <3>4. \A row \in codes : \A m \in Issued : m.user = row.user => m.code <= row.code
        BY DEF CodeInv, LastCode
      <3>5. \A row \in codes' : \A m \in Issued' : m.user = row.user => m.code <= row.code
        BY <3>1, <3>2, <3>3, <3>4
      <3> QED  BY <3>5 DEF LastCode
    <2>13. OpenedOnce'
      <3>1. \A i \in DOMAIN opened : opened[i].code # new.code
        BY <2>3, <2>5, <2>6, <2>7
      <3> QED  BY <1>1, <2>1, <3>1 DEF CodeInv, OpenedOnce
    <2>14. ASSUME NEW s \in Requests  PROVE CodeRequest(req[s])'
      <3>1. CASE s = r
        BY <1>1, <3>1, EndsOne DEF CodeRequest
      <3>2. CASE s # r
        <4>1. req'[s] = req[s] /\ CodeRequest(req[s])
          BY <1>1, <3>2, EndsOne DEF CodeInv
        <4>2. req[s].pc # "idle" => req[s].user # new.user
          BY <2>4, <2>5, <3>2, Others
        <4>3. req[s].pc = "session" => req[s].row.code \in Nat
          BY Kinds DEF Coding, CodeRow
        <4>4. req[s].pc = "insert" => \A row \in codes' : row.user # req[s].user
          BY <2>1, <4>1, <4>2 DEF CodeRequest
        <4>5. req[s].pc = "session" => req[s].row.code <= generated'
                                       /\ \A row \in codes' : row.code # req[s].row.code
          BY <2>1, <2>3, <2>5, <4>1, <4>3 DEF CodeRequest
        <4>6. \A row \in codes : req[s].pc # "idle" /\ row.user = req[s].user => row \in codes'
          BY <2>1, <2>8, <4>2
        <4>7. req[s].pc = "write" => /\ req[s].row.user = req[s].user
                                     /\ \E old \in codes' : old.id = req[s].row.id /\ old.user = req[s].user
          BY <4>1, <4>6 DEF CodeRequest
        <4>8. req[s].pc = "delete" => req[s].row \in codes' /\ req[s].row.user = req[s].user
          BY <4>1, <4>6 DEF CodeRequest
        <4>9. req[s].pc = "session" => \A i \in DOMAIN opened' : opened'[i].code # req[s].row.code
          BY <1>1, <4>1 DEF CodeRequest
        <4> QED  BY <4>1, <4>4, <4>5, <4>7, <4>8, <4>9 DEF CodeRequest
      <3> QED  BY <3>1, <3>2
    <2>15. SessionsApart'
      <3>1. \A s \in Requests : req'[s].pc = "session" => req'[s] = req[s]
        BY <1>1, EndsOne
      <3> QED  BY <3>1 DEF CodeInv, SessionsApart
    <2> QED  BY <2>10, <2>11, <2>c, <2>12, <2>13, <2>14, <2>15 DEF CodeInv
  <1> QED  BY <1>2, <1>3

LEMMA DeleteKeeps ==
    ASSUME TypeOK, TypeOK', OnePerUser, CodeInv, NEW r \in Requests, DeleteCode(r)
    PROVE  CodeInv'
  <1> DEFINE gone == req[r].row
             u == req[r].user
  <1>1. /\ Moves(r, [pc |-> "session", user |-> u, row |-> gone])
        /\ codes' = codes \ RowsOf(u) /\ UNCHANGED <<Issued, opened, generated, now>>
        /\ req[r].pc = "delete"
    BY DeleteMoves, DeleteWrites DEF DeleteCode
  <1>2. /\ gone \in codes /\ gone.user = u
        /\ \A row \in codes : row \in codes' <=> row.user # u
        /\ codes' \subseteq codes
    BY <1>1 DEF CodeInv, CodeRequest, RowsOf
  <1>3. \A row \in codes' : row.code # gone.code
    BY <1>2 DEF CodeInv, OneCode
  <1>4. /\ req'[r].pc = "session" /\ req'[r].user = u /\ req'[r].row = gone
        /\ \A s \in Requests : s # r => req'[s] = req[s]
    BY <1>1, MovesOne
  <1> HIDE DEF gone, u
  <1>5. CodesKnown'
    BY <1>1, <1>2 DEF CodeInv, CodesKnown
  <1>6. OneCode' /\ CodesIssued' /\ LastCode' /\ OpenedOnce'
    BY <1>1, <1>2 DEF CodeInv, OneCode, CodesIssued, LastCode, OpenedOnce
  <1>7. ASSUME NEW s \in Requests  PROVE CodeRequest(req[s])'
    <2>1. CASE s = r
      <3>1. gone.code <= generated'
        BY <1>1, <1>2 DEF CodeInv, CodesKnown
      <3>2. \A i \in DOMAIN opened' : opened'[i].code # gone.code
        BY <1>1, <1>2 DEF CodeInv, OpenedOnce
      <3> QED  BY <1>3, <1>4, <2>1, <3>1, <3>2 DEF CodeRequest
    <2>2. CASE s # r
      <3>1. req'[s] = req[s] /\ CodeRequest(req[s])
        BY <1>4, <2>2 DEF CodeInv
      <3>2. req[s].pc # "idle" => req[s].user # u
        BY <1>1, <2>2, Others DEF u
      <3>3. req[s].pc = "insert" => \A row \in codes' : row.user # req[s].user
        BY <1>2, <3>1 DEF CodeRequest
      <3>4. req[s].pc = "write" => /\ req[s].row.user = req[s].user
                                   /\ \E old \in codes' : old.id = req[s].row.id /\ old.user = req[s].user
        BY <1>2, <3>1, <3>2 DEF CodeRequest
      <3>5. req[s].pc = "delete" => req[s].row \in codes' /\ req[s].row.user = req[s].user
        BY <1>2, <3>1, <3>2 DEF CodeRequest
      <3>6. req[s].pc = "session" =>
              /\ req[s].row.code <= generated'
              /\ \A row \in codes' : row.code # req[s].row.code
              /\ \A i \in DOMAIN opened' : opened'[i].code # req[s].row.code
        BY <1>1, <1>2, <3>1 DEF CodeRequest
      <3> QED  BY <3>1, <3>3, <3>4, <3>5, <3>6 DEF CodeRequest
    <2> QED  BY <2>1, <2>2
  <1>8. SessionsApart'
    <2>1. \A s \in Requests : s # r /\ req[s].pc = "session" => req[s].row.code # gone.code
      BY <1>2 DEF CodeInv, CodeRequest
    <2> QED  BY <1>4, <2>1 DEF CodeInv, SessionsApart
  <1> QED  BY <1>5, <1>6, <1>7, <1>8 DEF CodeInv

LEMMA OpenKeeps ==
    ASSUME TypeOK, TypeOK', OnePerUser, CodeInv, NEW r \in Requests, OpenSession(r)
    PROVE  CodeInv'
  <1> DEFINE code == req[r].row.code
  <1>1. /\ opened' = Append(opened, [user |-> req[r].user, code |-> code])
        /\ Moves(r, Idle) /\ UNCHANGED <<codes, Issued, generated, now>>
        /\ req[r].pc = "session"
    BY OpenWrites DEF OpenSession
  <1>2. /\ req'[r] = Idle
        /\ \A s \in Requests : s # r => req'[s] = req[s]
    BY <1>1, MovesOne
  <1>3. /\ code <= generated /\ \A row \in codes : row.code # code
        /\ \A i \in DOMAIN opened : opened[i].code # code
    BY <1>1 DEF CodeInv, CodeRequest
  <1>4. /\ DOMAIN opened = 1 .. Len(opened) /\ Len(opened) \in Nat
        /\ DOMAIN opened' = 1 .. Len(opened) + 1
        /\ opened'[Len(opened) + 1] = [user |-> req[r].user, code |-> code]
        /\ \A i \in DOMAIN opened : opened'[i] = opened[i]
    <2>1. opened \in Seq(Opening) /\ [user |-> req[r].user, code |-> code] \in Opening
      BY OpenWrites DEF TypeOK
    <2> QED  BY <1>1, <2>1, AppendProperties, LenProperties
  <1>5. \A i \in DOMAIN opened' :
          \/ i \in DOMAIN opened /\ opened'[i].code = opened[i].code
          \/ i = Len(opened) + 1 /\ opened'[i].code = code
    BY <1>4
  <1>6. \A i \in DOMAIN opened : i # Len(opened) + 1
    BY <1>4
  <1> HIDE DEF code
  <1>7. CodesKnown'
    BY <1>1, <1>3, <1>5 DEF CodeInv, CodesKnown
  <1>8. OneCode' /\ CodesIssued' /\ LastCode'
    BY <1>1 DEF CodeInv, OneCode, CodesIssued, LastCode
  <1>9. OpenedOnce'
    <2>1. \A i, j \in DOMAIN opened' : opened'[i].code = opened'[j].code => i = j
      BY <1>3, <1>5, <1>6 DEF CodeInv, OpenedOnce
    <2>2. \A row \in codes : \A i \in DOMAIN opened' : opened'[i].code # row.code
      BY <1>3, <1>5 DEF CodeInv, OpenedOnce
    <2> QED  BY <1>1, <2>1, <2>2 DEF OpenedOnce
  <1>10. ASSUME NEW s \in Requests  PROVE CodeRequest(req[s])'
    <2>1. CASE s = r
      BY <1>2, <2>1, NoCodeRequest DEF Idle, CodeRequest
    <2>2. CASE s # r
      <3>1. req'[s] = req[s] /\ CodeRequest(req[s])
        BY <1>2, <2>2 DEF CodeInv
      <3>2. req[s].pc = "session" => req[s].row.code # code
        BY <1>1, <2>2 DEF CodeInv, SessionsApart, code
      <3>3. req[s].pc = "session" =>
              /\ req[s].row.code <= generated'
              /\ \A row \in codes' : row.code # req[s].row.code
        BY <1>1, <3>1 DEF CodeRequest
      <3>4. req[s].pc = "session" => \A i \in DOMAIN opened' : opened'[i].code # req[s].row.code
        BY <1>5, <3>1, <3>2 DEF CodeRequest
      <3> QED  BY <1>1, <3>1, <3>3, <3>4 DEF CodeRequest
    <2> QED  BY <2>1, <2>2
  <1>11. SessionsApart'
    BY <1>2 DEF CodeInv, SessionsApart, Idle
  <1> QED  BY <1>7, <1>8, <1>9, <1>10, <1>11 DEF CodeInv

-----------------------------------------------------------------------------
(* Codes: the throttle. *)

\* A mail of another row is none of a row's business.
LEMMA CountedAside ==
    ASSUME NEW row, NEW mail, row.id # mail.row, now' = now,
           \A first \in Issued' : first.row # mail.row =>
               first \in Issued /\ MailedFrom(Issued', first) = MailedFrom(Issued, first)
    PROVE  /\ CodeCounted(row) => CodeCounted(row)'
           /\ CodeDelayed(row) => CodeDelayed(row)'
  BY DEF CodeCounted, CodeDelayed

LEMMA InsertThrottled ==
    ASSUME TypeOK, TypeOK', OnePerUser, CodeInv, CodesThrottled, NEW r \in Requests, InsertCode(r)
    PROVE  CodesThrottled'
  <1> DEFINE new == Inserted(r)
             mail == MailOf(new)
  <1>1. /\ codes' = codes \cup {new} /\ Issued' = Issued \cup {mail}
        /\ now' = now /\ Ends(r) /\ mail \in Mail
    BY InsertWrites
  <1>2. /\ new.id = generated + 1 /\ new.count = 0 /\ new.delay = 0
        /\ mail.row = generated + 1 /\ mail.at = now
    BY DEF Inserted, MailOf
  <1> HIDE DEF new, mail
  <1>3. generated \in Nat /\ now \in Nat /\ MaxCount \in Nat /\ MaxCount > 0
    BY CodeAssumption DEF TypeOK
  <1>4. /\ IsFiniteSet(Issued) /\ Issued \in SUBSET Mail
        /\ \A m \in Issued : m.at <= mail.at
        /\ \A m \in Issued : m.row # mail.row
    <2>1. \A m \in Issued : m.row \in Nat /\ m.row <= generated /\ m.at <= now
      BY DEF TypeOK, Mail, CodeInv, CodesKnown
    <2> QED  BY <1>2, <1>3, <2>1 DEF TypeOK, CodeInv, CodesKnown
  <1>5. /\ \A first \in Issued' : first.row # mail.row =>
             first \in Issued /\ MailedFrom(Issued', first) = MailedFrom(Issued, first)
        /\ \A first \in Issued' : first.row = mail.row => MailedFrom(Issued', first) <= 1
    <2> DEFINE none == 0
               all == Issued \cup {mail}
    <2>1. none \in Nat /\ none + 1 = 1
      OBVIOUS
    <2>2. \A first \in Issued : first.row = mail.row =>
            first.at + Delay <= mail.at \/ MailedFrom(Issued, first) <= none
      BY <1>4
    <2> HIDE DEF none
    <2>3. \A first \in Issued \cup {mail} :
            /\ first.row # mail.row =>
                 first \in Issued
                 /\ MailedFrom(Issued \cup {mail}, first) = MailedFrom(Issued, first)
            /\ first.row = mail.row =>
                 \/ /\ first \in Issued /\ first.at + Delay <= mail.at
                    /\ MailedFrom(Issued \cup {mail}, first) = MailedFrom(Issued, first)
                 \/ MailedFrom(Issued \cup {mail}, first) <= none + 1
      BY <1>1, <1>4, <2>1, <2>2, WindowsGrow
    <2>4. Issued' = all
      BY <1>1
    <2> HIDE DEF all
    <2>5. \A first \in all : first.row = mail.row => MailedFrom(all, first) <= none + 1
      BY <1>4, <2>3 DEF all
    <2>6. \A first \in all : first.row # mail.row =>
            first \in Issued /\ MailedFrom(all, first) = MailedFrom(Issued, first)
      BY <2>3 DEF all
    <2> QED  BY <2>1, <2>4, <2>5, <2>6
  <1>6. \A first \in Issued' : MailedFrom(Issued', first) <= MaxCount + 1
    <2>1. ASSUME NEW first \in Issued', first.row = mail.row
          PROVE  MailedFrom(Issued', first) <= MaxCount + 1
      <3>1. MailedFrom(Issued', first) <= 1 /\ MailedFrom(Issued', first) \in Nat
        <4>1. IsFiniteSet(Issued')
          BY <1>1, <1>4, FS_AddElement
        <4> QED  BY <1>5, <2>1, <4>1, WindowNat
      <3> QED  BY <1>3, <3>1
    <2>2. ASSUME NEW first \in Issued', first.row # mail.row
          PROVE  MailedFrom(Issued', first) <= MaxCount + 1
      BY <1>5, <2>2 DEF CodesThrottled
    <2> QED  BY <2>1, <2>2
  <1>7. ASSUME NEW row \in codes'  PROVE CodeCounted(row)' /\ CodeDelayed(row)'
    <2>1. CASE row = new
      <3>1. row.count < MaxCount /\ row.delay = 0 /\ row.id = mail.row /\ row.count + 1 = 1
        BY <1>2, <1>3, <2>1
      <3> QED  BY <1>5, <3>1 DEF CodeCounted, CodeDelayed
    <2>2. CASE row \in codes
      <3>1. row.id \in Nat /\ row.id <= generated
        BY <2>2 DEF TypeOK, CodeRow, CodeInv, CodesKnown
      <3>2. row.id # mail.row
        BY <1>2, <1>3, <3>1
      <3> QED  BY <1>1, <1>5, <2>2, <3>2, CountedAside DEF CodesThrottled
    <2> QED  BY <1>1, <2>1, <2>2
  <1>8. ASSUME NEW s \in Requests, req'[s].pc = "write"
        PROVE  req'[s].row.delay = 0 /\ CodeCounted(req[s].row)'
    <2>1. req'[s] = req[s]
      BY <1>1, <1>8, EndsOne
    <2> DEFINE row == req[s].row
    <2>2. row.delay = 0 /\ CodeCounted(row) /\ req'[s].row = row
      BY <1>8, <2>1 DEF CodesThrottled
    <2>3. row.id # mail.row
      <3>1. PICK old \in codes : old.id = row.id
        BY <1>8, <2>1 DEF CodeInv, CodeRequest
      <3>2. old.id \in Nat /\ old.id <= generated
        BY DEF TypeOK, CodeRow, CodeInv, CodesKnown
      <3> QED  BY <1>2, <1>3, <3>1, <3>2
    <2> HIDE DEF row
    <2>4. ASSUME NEW x, x = row, CodeCounted(x)  PROVE CodeCounted(x)'
      BY <1>1, <1>5, <2>3, <2>4, CountedAside
    <2> QED  BY <2>2, <2>4 DEF CodeCounted
  <1> QED  BY <1>6, <1>7, <1>8 DEF CodesThrottled

LEMMA WriteThrottled ==
    ASSUME TypeOK, TypeOK', OnePerUser, CodeInv, CodesThrottled, NEW r \in Requests, WriteCode(r)
    PROVE  CodesThrottled'
  <1>1. Ends(r) /\ now' = now
    BY WriteWrites
  <1>2. CASE UNCHANGED <<codes, Issued, generated>>
    <2>1. PICK q : Moves(r, q) /\ q.pc \notin {"insert", "write", "delete", "session"}
      BY <1>1, EndsOne
    <2> QED  BY <1>1, <1>2, <2>1, CodesThrottledStay
  <1>3. CASE ~UNCHANGED <<codes, Issued, generated>>
    <2> DEFINE old == req[r].row
               new == Written(r)
               mail == MailOf(new)
    <2>1. /\ new \in CodeRow /\ mail \in Mail /\ new.id = old.id
          /\ codes' = {row \in codes : row.id # new.id} \cup {new}
          /\ Issued' = Issued \cup {mail}
      BY <1>3, WriteWrites
    <2>2. mail.row = new.id /\ mail.at = now
      BY DEF MailOf
    <2>3. /\ old \in CodeRow /\ req[r].pc = "write" /\ old.delay = 0 /\ CodeCounted(old)
          /\ \E row \in codes : row.id = old.id /\ row.user = req[r].user
      BY Kinds DEF WriteCode, Coding, CodeInv, CodeRequest, CodesThrottled
    <2>4. /\ new.count = old.count + 1
          /\ new.delay = IF old.count + 1 >= MaxCount THEN now + Delay ELSE 0
      <3>1. generated + 1 \in Nat
        BY DEF TypeOK
      <3> QED  BY <2>3, <3>1, NewCode DEF Written
    <2> HIDE DEF old, new, mail
    <2>5. /\ now \in Nat /\ MaxCount \in Nat /\ old.count \in Nat /\ Delay \in Nat /\ Delay > 0
          /\ old.count < MaxCount /\ old.count + 1 \in Nat
      BY <2>3, CodeAssumption DEF TypeOK, CodeRow, CodeCounted
    <2>6. /\ IsFiniteSet(Issued) /\ Issued \in SUBSET Mail
          /\ \A m \in Issued : m.at <= mail.at
          /\ \A first \in Issued : first.row = mail.row =>
               first.at + Delay <= mail.at \/ MailedFrom(Issued, first) <= old.count + 1
      BY <2>1, <2>2, <2>3 DEF TypeOK, CodeInv, CodesKnown, CodeCounted
    <2>7. \A first \in Issued' :
            /\ first.row # mail.row =>
                 first \in Issued
                 /\ MailedFrom(Issued', first) = MailedFrom(Issued, first)
            /\ first.row = mail.row =>
                 \/ /\ first \in Issued /\ first.at + Delay <= mail.at
                    /\ MailedFrom(Issued', first) = MailedFrom(Issued, first)
                 \/ MailedFrom(Issued', first) <= (old.count + 1) + 1
      <3> DEFINE n == old.count + 1
      <3>1. n \in Nat
        BY <2>5
      <3>2. \A first \in Issued : first.row = mail.row =>
              first.at + Delay <= mail.at \/ MailedFrom(Issued, first) <= n
        BY <2>6
      <3> HIDE DEF n
      <3>3. \A first \in Issued \cup {mail} :
              /\ first.row # mail.row =>
                   first \in Issued
                   /\ MailedFrom(Issued \cup {mail}, first) = MailedFrom(Issued, first)
              /\ first.row = mail.row =>
                   \/ /\ first \in Issued /\ first.at + Delay <= mail.at
                      /\ MailedFrom(Issued \cup {mail}, first) = MailedFrom(Issued, first)
                   \/ MailedFrom(Issued \cup {mail}, first) <= n + 1
        BY <2>1, <2>6, <3>1, <3>2, WindowsGrow
      <3>4. Issued' = Issued \cup {mail}
        BY <2>1
      <3> QED  BY <3>3, <3>4 DEF n
    <2>8. \A first \in Issued' : MailedFrom(Issued', first) \in Nat
      <3>1. IsFiniteSet(Issued')
        BY <2>1, <2>6, FS_AddElement
      <3> QED  BY <3>1, WindowNat
    <2>9. ASSUME NEW first \in Issued'  PROVE MailedFrom(Issued', first) <= MaxCount + 1
      <3>1. CASE first \in Issued /\ MailedFrom(Issued', first) = MailedFrom(Issued, first)
        BY <3>1 DEF CodesThrottled
      <3>2. CASE MailedFrom(Issued', first) <= (old.count + 1) + 1
        BY <2>5, <2>8, <3>2
      <3> QED  BY <2>7, <3>1, <3>2
    <2>10. ASSUME NEW row \in codes'  PROVE CodeCounted(row)' /\ CodeDelayed(row)'
      <3>1. CASE row = new
        <4>1. CodeCounted(row)'
          <5>1. row.delay = 0 => row.count < MaxCount
            BY <2>4, <2>5, <3>1
          <5>2. ASSUME NEW first \in Issued', first.row = row.id
                PROVE  first.at + Delay <= now \/ MailedFrom(Issued', first) <= row.count + 1
            BY <2>2, <2>4, <2>7, <3>1, <5>2
          <5> QED  BY <1>1, <5>1, <5>2 DEF CodeCounted
        <4>2. CodeDelayed(row)'
          <5>1. ASSUME NEW first \in Issued'  PROVE first.at + Delay <= now + Delay
            <6>1. first.at \in Nat /\ first.at <= now
              BY <2>1, <2>2, <2>6 DEF Mail
            <6> QED  BY <2>5, <6>1
          <5>2. row.delay # 0 => row.delay = now + Delay
            BY <2>4, <3>1
          <5> QED  BY <5>1, <5>2 DEF CodeDelayed
        <4> QED  BY <4>1, <4>2
      <3>2. CASE row \in codes /\ row.id # new.id
        BY <1>1, <2>2, <2>7, <3>2, CountedAside DEF CodesThrottled
      <3>3. row = new \/ (row \in codes /\ row.id # new.id)
        BY <2>1
      <3> QED  BY <3>1, <3>2, <3>3
    <2>11. ASSUME NEW s \in Requests, req'[s].pc = "write"
           PROVE  req'[s].row.delay = 0 /\ CodeCounted(req[s].row)'
      <3>1. req'[s] = req[s] /\ s # r
        BY <1>1, <2>11, EndsOne
      <3> DEFINE row == req[s].row
      <3>2. row.delay = 0 /\ CodeCounted(row) /\ req'[s].row = row
        BY <2>11, <3>1 DEF CodesThrottled
      <3>3. row.id # mail.row
        <4>1. req[s].user # req[r].user
          BY <2>3, <2>11, <3>1, Others
        <4>2. PICK other \in codes : other.id = row.id /\ other.user = req[s].user
          BY <2>11, <3>1 DEF CodeInv, CodeRequest
        <4>3. other.id # old.id
          BY <2>3, <4>1, <4>2, OneWritten DEF old
        <4> QED  BY <2>1, <2>2, <4>2, <4>3
      <3> HIDE DEF row
      <3>4. ASSUME NEW x, x = row, CodeCounted(x)  PROVE CodeCounted(x)'
        BY <1>1, <2>7, <3>3, <3>4, CountedAside
      <3> QED  BY <3>2, <3>4 DEF CodeCounted
    <2> QED  BY <2>9, <2>10, <2>11 DEF CodesThrottled
  <1> QED  BY <1>2, <1>3

\* A row whose delay has passed starts to count again.
LEMMA RefreshedCounts ==
    ASSUME TypeOK, CodesThrottled, NEW row \in codes, row.delay <= now
    PROVE  Refreshed(row).delay = 0 /\ CodeCounted(Refreshed(row))
  <1> DEFINE new == Refreshed(row)
  <1>1. row \in CodeRow /\ row.delay \in Nat /\ now \in Nat
    BY DEF TypeOK, CodeRow
  <1>2. /\ new.delay = 0 /\ new.id = row.id
        /\ new.count = IF row.delay = 0 THEN row.count ELSE 0
    BY <1>1, RefreshedRow
  <1> HIDE DEF new
  <1>3. CodeCounted(row) /\ CodeDelayed(row)
    BY DEF CodesThrottled
  <1>4. CodeCounted(new)
    <2>1. CASE row.delay = 0
      BY <1>2, <1>3, <2>1 DEF CodeCounted
    <2>2. CASE row.delay # 0
      <3>1. new.count < MaxCount
        BY <1>2, <2>2, CodeAssumption
      <3>2. ASSUME NEW first \in Issued, first.row = new.id  PROVE first.at + Delay <= now
        <4>1. first.at \in Nat
          BY DEF TypeOK, Mail
        <4>2. first.at + Delay \in Nat
          BY <4>1, CodeAssumption
        <4>3. first.at + Delay <= row.delay
          BY <1>2, <1>3, <2>2, <3>2 DEF CodeDelayed
        <4> QED  BY <1>1, <4>2, <4>3
      <3> QED  BY <3>1, <3>2 DEF CodeCounted
    <2> QED  BY <2>1, <2>2
  <1> QED  BY <1>2, <1>4 DEF new

LEMMA ReadsRequest ==
    ASSUME TypeOK, CodeInv, CodesThrottled, NEW r \in Requests, Reads(r)
    PROVE  \E q : /\ Moves(r, q) /\ q.pc # "session" /\ CodeRequest(q)
                  /\ q.pc = "write" => q.row.delay = 0 /\ CodeCounted(q.row)
  <1> DEFINE Fits(q) == /\ q.pc # "session" /\ CodeRequest(q)
                        /\ q.pc = "write" => q.row.delay = 0 /\ CodeCounted(q.row)
  <1>1. ASSUME NEW q, q.pc \notin {"insert", "write", "delete", "session"}  PROVE Fits(q)
    BY <1>1, NoCodeRequest
  <1>2. Fits(Idle)
    BY <1>1 DEF Idle
  <1>3. CASE \E u \in Users : Resend(r, u) \/ Login(r, u) \/ AskReset(r, u)
    <2>1. PICK u \in Users : Resend(r, u) \/ Login(r, u) \/ AskReset(r, u)
      BY <1>3
    <2>2. /\ Fits([pc |-> "find", user |-> u]) /\ Fits([pc |-> "ask", user |-> u])
          /\ Fits([pc |-> "findReset", user |-> u])
      BY <1>1
    <2> HIDE DEF Fits
    <2>3. \E q : Moves(r, q) /\ Fits(q)
      BY <2>1, <2>2, BeginMoves
    <2> QED  BY <2>3 DEF Fits
  <1>4. CASE \E m \in mailed : Verify(r, m)
    <2>1. PICK row \in codes : Moves(r, [pc |-> "delete", user |-> row.user, row |-> row])
      BY <1>4, VerifyMoves
    <2>2. Fits([pc |-> "delete", user |-> row.user, row |-> row])
      BY DEF CodeRequest
    <2> QED  BY <2>1, <2>2
  <1>5. CASE \E m \in links : ResetPassword(r, m)
    <2>1. PICK row \in resets : Moves(r, [pc |-> "password", user |-> row.user, row |-> row])
      BY <1>5, ResetMoves
    <2>2. Fits([pc |-> "password", user |-> row.user, row |-> row])
      BY <1>1
    <2> QED  BY <2>1, <2>2
  <1>6. CASE FindCode(r)
    <2>1. CASE Moves(r, [pc |-> "insert", user |-> req[r].user]) /\ RowsOf(req[r].user) = {}
      <3>1. Fits([pc |-> "insert", user |-> req[r].user])
        BY <2>1 DEF CodeRequest, RowsOf
      <3> QED  BY <2>1, <3>1
    <2>2. CASE Moves(r, [pc |-> "ask", user |-> req[r].user])
      <3>1. Fits([pc |-> "ask", user |-> req[r].user])
        BY <1>1
      <3> QED  BY <2>2, <3>1
    <2> QED  BY <1>6, <2>1, <2>2, FindMoves
  <1>7. CASE AskNewCode(r)
    <2>1. CASE Respond(r)
      BY <1>2, <2>1, RespondMoves
    <2>2. ASSUME NEW row \in codes, row.delay <= now,
                 Moves(r, [pc |-> "write", user |-> row.user, row |-> Refreshed(row)])
          PROVE  \E q : Moves(r, q) /\ Fits(q)
      <3> DEFINE q == [pc |-> "write", user |-> row.user, row |-> Refreshed(row)]
      <3>1. row \in CodeRow
        BY DEF TypeOK
      <3>2. q.pc = "write" /\ q.user = row.user /\ q.row = Refreshed(row)
        OBVIOUS
      <3>3. q.row.delay = 0 /\ CodeCounted(q.row)
        BY <2>2, RefreshedCounts
      <3>4. q.row.id = row.id /\ q.row.user = row.user
        BY <3>1, RefreshedRow
      <3> HIDE DEF q
      <3>5. CodeRequest(q)
        BY <3>2, <3>4 DEF CodeRequest
      <3>6. Moves(r, q)
        BY <2>2 DEF q
      <3> QED  BY <3>2, <3>3, <3>5, <3>6
    <2> QED  BY <1>7, <2>1, <2>2, AskMoves
  <1>8. CASE FindReset(r)
    <2>1. CASE Respond(r)
      BY <1>2, <2>1, RespondMoves
    <2>2. CASE Moves(r, [pc |-> "insertReset", user |-> req[r].user])
      <3>1. Fits([pc |-> "insertReset", user |-> req[r].user])
        BY <1>1
      <3> QED  BY <2>2, <3>1
    <2>3. ASSUME NEW row \in resets,
                 Moves(r, [pc |-> "writeReset", user |-> row.user, row |-> row])
          PROVE  \E q : Moves(r, q) /\ Fits(q)
      <3>1. Fits([pc |-> "writeReset", user |-> row.user, row |-> row])
        BY <1>1
      <3> QED  BY <2>3, <3>1
    <2> QED  BY <1>8, <2>1, <2>2, <2>3, FindResetMoves
  <1>9. CASE RequestFails(r)
    BY <1>2, <1>9, FailMoves
  <1>10. CASE Mails(r)
    BY <1>2, <1>10, MailsMove
  <1> QED  BY <1>3, <1>4, <1>5, <1>6, <1>7, <1>8, <1>9, <1>10 DEF Reads

\* A step that leaves the codes alone, and its request with no code to hold.
LEMMA CodesAside ==
    ASSUME TypeOK, TypeOK', CodeInv, CodesThrottled, NEW r \in Requests, NEW q, Moves(r, q),
           UNCHANGED <<codes, Issued, opened, now>>, generated <= generated',
           q.pc \notin {"insert", "write", "delete", "session"}
    PROVE  CodeInv' /\ CodesThrottled'
  <1>1. CodeInv'
    BY CodesStay, NoCodeRequest
  <1>2. CodesThrottled'
    BY CodesThrottledStay
  <1> QED  BY <1>1, <1>2

LEMMA CodesStep ==
    ASSUME TypeOK, TypeOK', OnePerUser, CodeInv, CodesThrottled, [Next]_vars
    PROVE  CodeInv' /\ CodesThrottled'
  <1>0. generated \in Nat /\ Idle.pc \notin {"insert", "write", "delete", "session"}
    BY DEF TypeOK, Idle
  <1>1. CASE UNCHANGED vars
    <2>1. UNCHANGED <<codes, Issued, opened, req, generated, now>>
      BY <1>1, IssuedSame DEF vars, codeVars, resetVars
    <2>2. CodeInv'
      BY <2>1 DEF CodeInv, CodesKnown, OneCode, CodesIssued, LastCode, OpenedOnce,
                     CodeRequest, SessionsApart
    <2>3. CodesThrottled'
      BY <2>1 DEF CodesThrottled, CodeCounted, CodeDelayed
    <2> QED  BY <2>2, <2>3
  <1>2. CASE Tick
    BY <1>2, CodesTick
  <1>3. ASSUME NEW r \in Requests, Reads(r)  PROVE CodeInv' /\ CodesThrottled'
    <2>1. PICK q : /\ Moves(r, q) /\ q.pc # "session" /\ CodeRequest(q)
                   /\ q.pc = "write" => q.row.delay = 0 /\ CodeCounted(q.row)
      BY <1>3, ReadsRequest
    <2>2. UNCHANGED <<codes, Issued, opened, generated, now>> /\ generated <= generated'
          /\ codes' \subseteq codes
      BY <1>0, <1>3, ReadsMove DEF Kept
    <2>3. CodeInv'
      BY <2>1, <2>2, CodesStay
    <2>4. CodesThrottled'
      BY <2>1, <2>2, CodesThrottledStay
    <2> QED  BY <2>3, <2>4
  <1>4. ASSUME NEW r \in Requests, InsertCode(r)  PROVE CodeInv' /\ CodesThrottled'
    BY <1>4, InsertKeeps, InsertThrottled
  <1>5. ASSUME NEW r \in Requests, WriteCode(r)  PROVE CodeInv' /\ CodesThrottled'
    BY <1>5, WriteKeeps, WriteThrottled
  <1>6. ASSUME NEW r \in Requests, DeleteCode(r)  PROVE CodeInv' /\ CodesThrottled'
    <2>1. /\ Moves(r, [pc |-> "session", user |-> req[r].user, row |-> req[r].row])
          /\ codes' \subseteq codes /\ UNCHANGED <<Issued, now>>
      BY <1>6, DeleteMoves, DeleteWrites
    <2>2. CodesThrottled'
      BY <2>1, CodesThrottledStay
    <2> QED  BY <1>6, <2>2, DeleteKeeps
  <1>7. ASSUME NEW r \in Requests, OpenSession(r)  PROVE CodeInv' /\ CodesThrottled'
    <2>1. Moves(r, Idle) /\ codes' \subseteq codes /\ UNCHANGED <<Issued, now>>
      BY <1>7, OpenWrites
    <2>2. CodesThrottled'
      BY <1>0, <2>1, CodesThrottledStay
    <2> QED  BY <1>7, <2>2, OpenKeeps
  <1>8. ASSUME NEW r \in Requests,
               InsertReset(r) \/ WriteReset(r) \/ SetPassword(r) \/ DeleteReset(r)
        PROVE  CodeInv' /\ CodesThrottled'
    <2>1. UNCHANGED <<codes, Issued, opened, now>> /\ generated <= generated'
      <3>1. generated <= generated /\ generated <= generated + 1
        BY <1>0
      <3>2. CASE InsertReset(r)
        BY <3>1, <3>2, InsertResetWrites
      <3>3. CASE WriteReset(r)
        BY <3>1, <3>3, WriteResetWrites
      <3>4. CASE SetPassword(r)
        BY <3>1, <3>4, SetWrites
      <3>5. CASE DeleteReset(r)
        BY <3>1, <3>5, DeleteResetWrites
      <3> QED  BY <1>8, <3>2, <3>3, <3>4, <3>5
    <2>2. CASE SetPassword(r)
      BY <2>1, <2>2, SetMoves, CodesAside
    <2>3. CASE InsertReset(r) \/ WriteReset(r) \/ DeleteReset(r)
      <3>1. Ends(r)
        BY <2>3, InsertResetWrites, WriteResetWrites, RespondEnds DEF DeleteReset
      <3>2. PICK q : Moves(r, q) /\ q.pc \notin {"insert", "write", "delete", "session"}
        BY <3>1, EndsOne
      <3> QED  BY <2>1, <3>2, CodesAside
    <2> QED  BY <1>8, <2>2, <2>3
  <1> QED  BY <1>1, <1>2, <1>3, <1>4, <1>5, <1>6, <1>7, <1>8, NextCases

-----------------------------------------------------------------------------
(* Links: what the steps that leave them alone keep. *)

LEMMA NoResetRequest ==
    ASSUME NEW q, q.pc \notin {"insertReset", "writeReset", "password", "deleteReset"}
    PROVE  ResetRequest(q)
  BY DEF ResetRequest

\* Numbers given before stay below the last one.
LEMMA LinksKnownStay ==
    ASSUME TypeOK, TypeOK', LinksKnown, UNCHANGED <<IssuedLinks, changed>>, resets' \subseteq resets,
           generated <= generated', now <= now'
    PROVE  LinksKnown'
  <1>1. \A row \in resets : row.id \in Nat
    BY DEF TypeOK, ResetRow
  <1>2. \A m \in IssuedLinks : m.row \in Nat /\ m.at \in Nat
    BY DEF TypeOK, Mail
  <1>3. \A i \in DOMAIN changed : changed[i].link \in Nat
    BY Elements DEF Change
  <1>4. generated \in Nat /\ generated' \in Nat /\ now \in Nat /\ now' \in Nat
    BY DEF TypeOK
  <1>5. \A row \in resets : row.id <= generated'
    BY <1>1, <1>4 DEF LinksKnown
  <1>6. \A m \in IssuedLinks : m.row <= generated' /\ m.at <= now'
    BY <1>2, <1>4 DEF LinksKnown
  <1>7. \A i \in DOMAIN changed : changed[i].link <= generated'
    BY <1>3, <1>4 DEF LinksKnown
  <1> QED  BY <1>5, <1>6, <1>7 DEF LinksKnown

LEMMA LinksStay ==
    ASSUME TypeOK, TypeOK', LinkInv, NEW r \in Requests, NEW q, Moves(r, q),
           UNCHANGED <<resets, IssuedLinks, changed, now>>, generated <= generated', ResetRequest(q)
    PROVE  LinkInv'
  <1>1. LinksKnown'
    <2>1. now <= now' /\ resets' \subseteq resets
      BY DEF TypeOK
    <2> QED  BY <2>1, LinksKnownStay DEF LinkInv
  <1>2. OneReset' /\ LastLink' /\ ChangedOnce'
    BY DEF LinkInv, OneReset, LastLink, ChangedOnce
  <1>3. ASSUME NEW s \in Requests  PROVE ResetRequest(req[s])'
    <2>1. req'[s] = q \/ req'[s] = req[s]
      BY MovesOne
    <2> QED  BY <2>1 DEF LinkInv, ResetRequest
  <1> QED  BY <1>1, <1>2, <1>3 DEF LinkInv

LEMMA LinksThrottledStay ==
    ASSUME LinksThrottled, UNCHANGED IssuedLinks, resets' \subseteq resets
    PROVE  LinksThrottled'
  BY DEF LinksThrottled

\* A first link counts for one of MaxCount: with a MaxCount of one it would be one
\* too many already.
LinksLimited == MaxCount > 1 => LinksThrottled

LEMMA LinksLimitedStay ==
    ASSUME LinksLimited, UNCHANGED IssuedLinks, resets' \subseteq resets
    PROVE  LinksLimited'
  BY LinksThrottledStay DEF LinksLimited

LEMMA LinksInit == Init => LinkInv /\ LinksLimited
  <1> SUFFICES ASSUME Init PROVE LinkInv /\ LinksLimited
    OBVIOUS
  <1>1. \A r \in Requests : req[r] = Idle
    BY DEF Init
  <1>2. \A r \in Requests : ResetRequest(req[r])
    BY <1>1, NoResetRequest DEF Idle
  <1>3. LinksKnown /\ OneReset /\ LastLink /\ ChangedOnce
    BY FS_EmptySet, IssuedInit DEF Init, LinksKnown, OneReset, LastLink, ChangedOnce
  <1>4. LinksLimited
    BY IssuedInit DEF Init, LinksLimited, LinksThrottled
  <1> QED  BY <1>2, <1>3, <1>4 DEF LinkInv

LEMMA LinksTick ==
    ASSUME TypeOK, TypeOK', LinkInv, LinksLimited, Tick
    PROVE  LinkInv' /\ LinksLimited'
  <1>1. UNCHANGED <<resets, IssuedLinks, changed, req, generated>> /\ now' = now + 1
    BY IssuedSame DEF Tick, codeVars, resetVars
  <1>2. \A r \in Requests : req'[r] = Idle
    BY <1>1 DEF Tick
  <1>3. LinksKnown'
    <2>1. generated <= generated' /\ now <= now' /\ resets' \subseteq resets
      BY <1>1 DEF TypeOK
    <2> QED  BY <1>1, <2>1, LinksKnownStay DEF LinkInv
  <1>4. OneReset' /\ LastLink' /\ ChangedOnce'
    BY <1>1 DEF LinkInv, OneReset, LastLink, ChangedOnce
  <1>5. \A r \in Requests : ResetRequest(req[r])'
    BY <1>2 DEF ResetRequest, Idle
  <1>6. LinksLimited'
    BY <1>1, LinksLimitedStay
  <1> QED  BY <1>3, <1>4, <1>5, <1>6 DEF LinkInv

-----------------------------------------------------------------------------
(* Links: the steps that write them. *)

LEMMA InsertResetKeeps ==
    ASSUME TypeOK, TypeOK', OnePerUser, LinkInv, NEW r \in Requests, InsertReset(r)
    PROVE  LinkInv'
  <1> DEFINE new == InsertedReset(r)
             mail == MailOf(new)
  <1>1. /\ resets' = resets \cup {new} /\ IssuedLinks' = IssuedLinks \cup {mail}
        /\ generated' = generated + 1 /\ UNCHANGED <<changed, now>> /\ Ends(r)
    BY InsertResetWrites
  <1>2. /\ new.id = generated + 1 /\ new.user = req[r].user /\ new.expires = now + 1
        /\ mail.user = new.user /\ mail.row = generated + 1 /\ mail.at = now
    BY DEF InsertedReset, MailOf
  <1> HIDE DEF new, mail
  <1>3. generated \in Nat /\ now \in Nat
    BY DEF TypeOK
  <1>4. /\ \A row \in resets : row.id \in Nat /\ row.id <= generated
        /\ \A m \in IssuedLinks : m.row \in Nat /\ m.at \in Nat /\ m.row <= generated /\ m.at <= now
        /\ \A i \in DOMAIN changed : changed[i].link \in Nat /\ changed[i].link <= generated
        /\ IsFiniteSet(IssuedLinks)
    BY Elements DEF TypeOK, ResetRow, Mail, Change, LinkInv, LinksKnown
  <1>5. req[r].pc = "insertReset" /\ \A row \in resets : row.user # new.user
    BY <1>2 DEF LinkInv, ResetRequest, InsertReset
  <1>6. LinksKnown'
    <2>1. IsFiniteSet(IssuedLinks')
      BY <1>1, <1>4, FS_AddElement
    <2>2. \A row \in resets' : row.id <= generated'
      BY <1>1, <1>2, <1>3, <1>4
    <2>3. \A m \in IssuedLinks' : m.row <= generated' /\ m.at <= now
      BY <1>1, <1>2, <1>3, <1>4
    <2>4. \A i \in DOMAIN changed : changed[i].link <= generated'
      BY <1>1, <1>3, <1>4
    <2> QED  BY <1>1, <2>1, <2>2, <2>3, <2>4 DEF LinksKnown
  <1>7. OneReset'
    <2>1. \A row \in resets : row.user # new.user /\ row.id # new.id
      BY <1>2, <1>3, <1>4, <1>5
    <2> QED  BY <1>1, <2>1 DEF LinkInv, OneReset
  <1>8. LastLink'
    <2>1. \A m \in IssuedLinks' : m.row <= new.id /\ m.at < new.expires
      BY <1>1, <1>2, <1>3, <1>4
    <2> QED  BY <1>1, <1>2, <1>5, <2>1 DEF LinkInv, LastLink
  <1>9. ChangedOnce'
    <2>1. \A i \in DOMAIN changed : changed[i].link # new.id
      BY <1>2, <1>3, <1>4
    <2> QED  BY <1>1, <2>1 DEF LinkInv, ChangedOnce
  <1>10. ASSUME NEW s \in Requests  PROVE ResetRequest(req[s])'
    <2>1. CASE s = r
      BY <1>1, <2>1, EndsOne DEF ResetRequest
    <2>2. CASE s # r
      <3>1. req'[s] = req[s] /\ ResetRequest(req[s])
        BY <1>1, <2>2, EndsOne DEF LinkInv
      <3>2. req[s].pc # "idle" => req[s].user # new.user
        BY <1>2, <1>5, <2>2, Others
      <3> QED  BY <1>1, <3>1, <3>2 DEF ResetRequest
    <2> QED  BY <2>1, <2>2
  <1> QED  BY <1>6, <1>7, <1>8, <1>9, <1>10 DEF LinkInv

LEMMA WriteResetKeeps ==
    ASSUME TypeOK, TypeOK', OnePerUser, LinkInv, NEW r \in Requests, WriteReset(r)
    PROVE  LinkInv'
  <1>1. Ends(r) /\ UNCHANGED <<changed, now>>
    BY WriteResetWrites
  <1>2. CASE UNCHANGED <<resets, IssuedLinks, generated>>
    <2>1. PICK q : /\ Moves(r, q)
                   /\ q.pc \notin {"insertReset", "writeReset", "password", "deleteReset"}
      BY <1>1, EndsOne
    <2>2. ResetRequest(q) /\ generated <= generated'
      BY <1>2, <2>1, NoResetRequest DEF TypeOK
    <2> QED  BY <1>1, <1>2, <2>1, <2>2, LinksStay
  <1>3. CASE ~UNCHANGED <<resets, IssuedLinks, generated>>
    <2> DEFINE old == req[r].row
               new == NewLinkOf(old)
               mail == MailOf(new)
    <2>1. /\ resets' = {row \in resets : row.id # new.id} \cup {new}
          /\ IssuedLinks' = IssuedLinks \cup {mail} /\ generated' = generated + 1
      BY <1>3, WriteResetWrites
    <2>2. req[r].pc = "writeReset" /\ old \in resets /\ old \in ResetRow /\ old.user = req[r].user
      BY DEF WriteReset, LinkInv, ResetRequest, TypeOK
    <2>3. new.id = old.id /\ new.user = old.user /\ new.expires = now + 1
      BY <2>2, NewLink
    <2>4. mail.user = new.user /\ mail.row = new.id /\ mail.at = now
      BY DEF MailOf
    <2> HIDE DEF old, new, mail
    <2>5. generated \in Nat /\ now \in Nat
      BY DEF TypeOK
    <2>6. /\ \A row \in resets : row.id \in Nat /\ row.id <= generated
          /\ \A m \in IssuedLinks : m.row \in Nat /\ m.at \in Nat /\ m.row <= generated /\ m.at <= now
          /\ \A i \in DOMAIN changed : changed[i].link \in Nat /\ changed[i].link <= generated
          /\ IsFiniteSet(IssuedLinks)
      BY Elements DEF TypeOK, ResetRow, Mail, Change, LinkInv, LinksKnown
    <2>7. \A row \in resets : row.id = new.id <=> row.user = new.user
      BY <2>2, <2>3 DEF LinkInv, OneReset
    <2>8. \A row \in resets' : row = new \/ (row \in resets /\ row.user # new.user)
      BY <2>1, <2>7
    <2>9. \A m \in IssuedLinks' : m = mail \/ m \in IssuedLinks
      BY <2>1
    <2>10. LinksKnown'
      <3>1. IsFiniteSet(IssuedLinks')
        BY <2>1, <2>6, FS_AddElement
      <3>2. \A row \in resets' : row.id <= generated'
        BY <2>1, <2>2, <2>3, <2>5, <2>6
      <3>3. \A m \in IssuedLinks' : m.row <= generated' /\ m.at <= now
        BY <2>1, <2>2, <2>3, <2>4, <2>5, <2>6
      <3>4. \A i \in DOMAIN changed : changed[i].link <= generated'
        BY <2>1, <2>5, <2>6
      <3> QED  BY <1>1, <3>1, <3>2, <3>3, <3>4 DEF LinksKnown
    <2>11. OneReset'
      <3>1. \A row \in resets' : row = new \/ (row \in resets /\ row.user # new.user /\ row.id # new.id)
        BY <2>7, <2>8
      <3> QED  BY <3>1 DEF LinkInv, OneReset
    <2>12. LastLink'
      <3>1. \A m \in IssuedLinks : m.user = new.user => m.row <= new.id
        BY <2>2, <2>3 DEF LinkInv, LastLink
      <3>2. \A m \in IssuedLinks' : m.user = new.user => m.row <= new.id /\ m.at < new.expires
        BY <2>2, <2>3, <2>4, <2>5, <2>6, <2>9, <3>1
      <3>3. \A row \in resets : \A m \in IssuedLinks :
              m.user = row.user => m.row <= row.id /\ m.at < row.expires
        BY DEF LinkInv, LastLink
      <3>4. \A row \in resets' : \A m \in IssuedLinks' :
              m.user = row.user => m.row <= row.id /\ m.at < row.expires
        BY <2>4, <2>8, <2>9, <3>2, <3>3
      <3> QED  BY <3>4 DEF LastLink
    <2>13. ChangedOnce'
      <3>1. \A row \in resets' : \E same \in resets : same.id = row.id
        BY <2>2, <2>3, <2>8
      <3> QED  BY <1>1, <3>1 DEF LinkInv, ChangedOnce
    <2>14. ASSUME NEW s \in Requests  PROVE ResetRequest(req[s])'
      <3>1. CASE s = r
        BY <1>1, <3>1, EndsOne DEF ResetRequest
      <3>2. CASE s # r
        <4>1. req'[s] = req[s] /\ ResetRequest(req[s])
          BY <1>1, <3>2, EndsOne DEF LinkInv
        <4>2. req[s].pc # "idle" => req[s].user # new.user
          BY <2>2, <2>3, <3>2, Others DEF old
        <4>3. \A row \in resets : req[s].pc # "idle" /\ row.user = req[s].user => row \in resets'
          BY <2>1, <2>7, <4>2
        <4> QED  BY <1>1, <2>8, <4>1, <4>2, <4>3 DEF ResetRequest
      <3> QED  BY <3>1, <3>2
    <2> QED  BY <2>10, <2>11, <2>12, <2>13, <2>14 DEF LinkInv
  <1> QED  BY <1>2, <1>3

LEMMA SetKeeps ==
    ASSUME TypeOK, TypeOK', OnePerUser, LinkInv, NEW r \in Requests, SetPassword(r)
    PROVE  LinkInv'
  <1> DEFINE link == req[r].row.id
             n == Len(changed)
  <1>1. /\ changed' = Append(changed, [link |-> link, answered |-> FALSE])
        /\ Moves(r, [pc |-> "deleteReset", user |-> req[r].user, row |-> req[r].row])
        /\ UNCHANGED <<resets, IssuedLinks, generated, now>> /\ req[r].pc = "password"
    BY SetWrites, SetMoves DEF SetPassword
  <1>2. /\ req'[r] = [pc |-> "deleteReset", user |-> req[r].user, row |-> req[r].row]
        /\ \A s \in Requests : s # r => req'[s] = req[s]
    BY <1>1, MovesOne
  <1>3. req[r].row \in resets /\ req[r].row.user = req[r].user
    BY <1>1 DEF LinkInv, ResetRequest
  <1>4. /\ link <= generated
        /\ \A i \in DOMAIN changed : changed[i].link = link => ~changed[i].answered
    BY <1>3 DEF LinkInv, LinksKnown, ChangedOnce
  <1>5. /\ DOMAIN changed = 1 .. n /\ n \in Nat
        /\ DOMAIN changed' = 1 .. n + 1
        /\ changed'[n + 1] = [link |-> link, answered |-> FALSE]
        /\ \A i \in DOMAIN changed : changed'[i] = changed[i]
    <2>1. changed \in Seq(Change) /\ [link |-> link, answered |-> FALSE] \in Change
      BY SetWrites DEF TypeOK
    <2> QED  BY <1>1, <2>1, AppendProperties, LenProperties
  <1>6. \A i \in DOMAIN changed' :
          \/ i \in DOMAIN changed /\ changed'[i] = changed[i]
          \/ i = n + 1 /\ changed'[i].link = link /\ ~changed'[i].answered
    BY <1>5
  <1>7. \A i \in DOMAIN changed' : ~(n + 1 < i) /\ i \in Nat
    BY <1>5
  <1> HIDE DEF link, n
  <1>8. LinksKnown'
    BY <1>1, <1>4, <1>6 DEF LinkInv, LinksKnown
  <1>9. OneReset' /\ LastLink'
    BY <1>1 DEF LinkInv, OneReset, LastLink
  <1>10. ChangedOnce'
    <2>1. ASSUME NEW i \in DOMAIN changed', NEW j \in DOMAIN changed',
                 i < j, changed'[i].link = changed'[j].link
          PROVE  ~changed'[i].answered
      <3>1. CASE i \in DOMAIN changed /\ changed'[i] = changed[i]
                 /\ j \in DOMAIN changed /\ changed'[j] = changed[j]
        BY <2>1, <3>1 DEF LinkInv, ChangedOnce
      <3>2. CASE i \in DOMAIN changed /\ changed'[i] = changed[i] /\ changed'[j].link = link
        BY <1>4, <2>1, <3>2
      <3>3. CASE ~changed'[i].answered
        BY <3>3
      <3> QED  BY <1>6, <3>1, <3>2, <3>3
    <2>2. \A row \in resets : \A i \in DOMAIN changed' :
            changed'[i].link = row.id => ~changed'[i].answered
      BY <1>6 DEF LinkInv, ChangedOnce
    <2> QED  BY <1>1, <2>1, <2>2 DEF ChangedOnce
  <1>11. ASSUME NEW s \in Requests  PROVE ResetRequest(req[s])'
    <2>1. CASE s = r
      BY <1>1, <1>2, <1>3, <2>1 DEF ResetRequest
    <2>2. CASE s # r
      BY <1>1, <1>2, <2>2 DEF LinkInv, ResetRequest
    <2> QED  BY <2>1, <2>2
  <1> QED  BY <1>8, <1>9, <1>10, <1>11 DEF LinkInv

LEMMA DeleteResetKeeps ==
    ASSUME TypeOK, TypeOK', OnePerUser, LinkInv, NEW r \in Requests, DeleteReset(r)
    PROVE  LinkInv'
  <1> DEFINE gone == req[r].row
             u == req[r].user
  <1>1. /\ resets' = resets \ ResetsOf(u) /\ UNCHANGED <<IssuedLinks, generated, now>>
        /\ Moves(r, Idle) /\ req[r].pc = "deleteReset"
    BY DeleteResetWrites DEF DeleteReset
  <1>2. gone \in resets /\ gone.user = u
    BY <1>1 DEF LinkInv, ResetRequest
  <1>3. PICK last \in 1 .. Len(changed) :
          /\ changed[last].link = gone.id
          /\ \A i \in 1 .. Len(changed) : i > last => changed[i].link # gone.id
          /\ changed' \in Seq(Change) /\ Len(changed') = Len(changed)
          /\ \A i \in 1 .. Len(changed) :
               /\ changed'[i].link = changed[i].link
               /\ changed'[i].answered = (changed[i].answered \/ i = last)
    BY DeleteResetWrites
  <1>4. DOMAIN changed = 1 .. Len(changed) /\ DOMAIN changed' = 1 .. Len(changed)
        /\ Len(changed) \in Nat
    BY <1>3, Elements, LenProperties
  <1>5. \A row \in resets' : row \in resets /\ row.user # u /\ row.id # gone.id
    BY <1>1, <1>2 DEF ResetsOf, LinkInv, OneReset
  <1> HIDE DEF gone, u
  <1>6. LinksKnown'
    BY <1>1, <1>3, <1>4, <1>5 DEF LinkInv, LinksKnown
  <1>7. OneReset' /\ LastLink'
    BY <1>1, <1>5 DEF LinkInv, OneReset, LastLink
  <1>8. ChangedOnce'
    <2>1. ASSUME NEW i \in DOMAIN changed', NEW j \in DOMAIN changed',
                 i < j, changed'[i].link = changed'[j].link
          PROVE  ~changed'[i].answered
      <3>1. ~changed[i].answered
        BY <1>3, <1>4, <2>1 DEF LinkInv, ChangedOnce
      <3>2. i # last
        BY <1>3, <1>4, <2>1
      <3> QED  BY <1>3, <1>4, <3>1, <3>2
    <2>2. ASSUME NEW row \in resets', NEW i \in DOMAIN changed', changed'[i].link = row.id
          PROVE  ~changed'[i].answered
      <3>1. row \in resets /\ row.id # gone.id
        BY <1>5
      <3>2. ~changed[i].answered
        BY <1>3, <1>4, <2>2, <3>1 DEF LinkInv, ChangedOnce
      <3>3. i # last
        BY <1>3, <1>4, <2>2, <3>1
      <3> QED  BY <1>3, <1>4, <3>2, <3>3
    <2> QED  BY <2>1, <2>2 DEF ChangedOnce
  <1>9. ASSUME NEW s \in Requests  PROVE ResetRequest(req[s])'
    <2>1. CASE s = r
      BY <1>1, <2>1, MovesOne DEF Idle, ResetRequest
    <2>2. CASE s # r
      <3>1. req'[s] = req[s] /\ ResetRequest(req[s])
        BY <1>1, <2>2, MovesOne DEF LinkInv
      <3>2. req[s].pc # "idle" => req[s].user # u
        BY <1>1, <2>2, Others DEF u
      <3>3. \A row \in resets : req[s].pc # "idle" /\ row.user = req[s].user => row \in resets'
        BY <1>1, <3>2 DEF ResetsOf
      <3> QED  BY <1>1, <1>5, <3>1, <3>3 DEF ResetRequest
    <2> QED  BY <2>1, <2>2
  <1> QED  BY <1>6, <1>7, <1>8, <1>9 DEF LinkInv

-----------------------------------------------------------------------------
(* Links: the throttle. *)

LEMMA InsertResetThrottled ==
    ASSUME TypeOK, TypeOK', LinkInv, LinksThrottled, MaxCount > 1, NEW r \in Requests,
           InsertReset(r)
    PROVE  LinksThrottled'
  <1> DEFINE new == InsertedReset(r)
             mail == MailOf(new)
             all == IssuedLinks \cup {mail}
  <1>1. /\ resets' = resets \cup {new} /\ IssuedLinks' = all /\ mail \in Mail
    BY InsertResetWrites
  <1>2. /\ new.id = generated + 1 /\ new.count = 1 /\ new.delay = 0
        /\ mail.row = generated + 1 /\ mail.at = now
    BY DEF InsertedReset, MailOf
  <1> HIDE DEF new, mail
  <1>3. generated \in Nat /\ now \in Nat /\ MaxCount \in Nat
    BY CodeAssumption DEF TypeOK
  <1>4. /\ IsFiniteSet(IssuedLinks) /\ IssuedLinks \in SUBSET Mail
        /\ \A m \in IssuedLinks : m.at <= mail.at
        /\ \A m \in IssuedLinks : m.row # mail.row
        /\ \A row \in resets : row.id # mail.row
    <2>1. \A m \in IssuedLinks : m.row \in Nat /\ m.row <= generated /\ m.at <= now
      BY DEF TypeOK, Mail, LinkInv, LinksKnown
    <2>2. \A row \in resets : row.id \in Nat /\ row.id <= generated
      BY DEF TypeOK, ResetRow, LinkInv, LinksKnown
    <2> QED  BY <1>2, <1>3, <2>1, <2>2 DEF TypeOK, LinkInv, LinksKnown
  <1>5. /\ \A first \in all : first.row # mail.row =>
             first \in IssuedLinks /\ MailedFrom(all, first) = MailedFrom(IssuedLinks, first)
        /\ \A first \in all : first.row = mail.row => MailedFrom(all, first) <= 1
    <2> DEFINE none == 0
    <2>1. none \in Nat /\ none + 1 = 1
      OBVIOUS
    <2>2. \A first \in IssuedLinks : first.row = mail.row =>
            first.at + Delay <= mail.at \/ MailedFrom(IssuedLinks, first) <= none
      BY <1>4
    <2> HIDE DEF none
    <2>3. \A first \in IssuedLinks \cup {mail} :
            /\ first.row # mail.row =>
                 first \in IssuedLinks
                 /\ MailedFrom(IssuedLinks \cup {mail}, first) = MailedFrom(IssuedLinks, first)
            /\ first.row = mail.row =>
                 \/ /\ first \in IssuedLinks /\ first.at + Delay <= mail.at
                    /\ MailedFrom(IssuedLinks \cup {mail}, first) = MailedFrom(IssuedLinks, first)
                 \/ MailedFrom(IssuedLinks \cup {mail}, first) <= none + 1
      BY <1>1, <1>4, <2>1, <2>2, WindowsGrow
    <2>4. \A first \in all : first.row = mail.row => MailedFrom(all, first) <= none + 1
      BY <1>4, <2>3
    <2> QED  BY <2>1, <2>3, <2>4
  <1>6. \A first \in all : MailedFrom(all, first) \in Nat
    <2>1. IsFiniteSet(all)
      BY <1>4, FS_AddElement
    <2> QED  BY <2>1, WindowNat
  <1> HIDE DEF all
  <1>7. ASSUME NEW first \in all  PROVE MailedFrom(all, first) <= MaxCount
    <2>1. CASE first.row = mail.row
      BY <1>3, <1>5, <1>6, <2>1
    <2>2. CASE first.row # mail.row
      BY <1>5, <2>2 DEF LinksThrottled
    <2> QED  BY <2>1, <2>2
  <1>8. ASSUME NEW row \in resets'
        PROVE  IF row.delay = 0
               THEN row.count < MaxCount
                    /\ \A first \in all : first.row = row.id => MailedFrom(all, first) <= row.count
               ELSE row.count >= MaxCount
                    /\ \A first \in all : first.row = row.id => first.at + Delay <= row.delay
    <2>1. CASE row = new
      <3>1. row.delay = 0 /\ row.count < MaxCount /\ row.count = 1 /\ row.id = mail.row
        BY <1>2, <1>3, <2>1
      <3> QED  BY <1>5, <3>1
    <2>2. CASE row \in resets
      <3>1. \A first \in all : first.row = row.id =>
              first \in IssuedLinks /\ MailedFrom(all, first) = MailedFrom(IssuedLinks, first)
        BY <1>4, <1>5, <2>2
      <3> QED  BY <2>2, <3>1 DEF LinksThrottled
    <2> QED  BY <1>1, <2>1, <2>2
  <1> QED  BY <1>1, <1>7, <1>8 DEF LinksThrottled

LEMMA WriteResetThrottled ==
    ASSUME TypeOK, TypeOK', LinkInv, LinksThrottled, NEW r \in Requests, WriteReset(r)
    PROVE  LinksThrottled'
  <1>1. CASE UNCHANGED <<resets, IssuedLinks, generated>>
    BY <1>1, LinksThrottledStay
  <1>2. CASE ~UNCHANGED <<resets, IssuedLinks, generated>>
    <2> DEFINE old == req[r].row
               new == NewLinkOf(old)
               mail == MailOf(new)
               all == IssuedLinks \cup {mail}
               n == IF old.delay = 0 THEN old.count ELSE 0
    <2>1. /\ resets' = {row \in resets : row.id # new.id} \cup {new}
          /\ IssuedLinks' = all /\ mail \in Mail
      BY <1>2, WriteResetWrites
    <2>2. old \in resets /\ old \in ResetRow /\ old.delay <= now
      BY DEF WriteReset, LinkInv, ResetRequest, TypeOK
    <2>3. /\ new.id = old.id /\ new.count = old.count + 1
          /\ new.delay = IF old.count + 1 >= MaxCount THEN now + Delay ELSE old.delay
      BY <2>2, NewLink
    <2>4. mail.row = new.id /\ mail.at = now
      BY DEF MailOf
    <2> HIDE DEF old, new, mail
    <2>5. /\ now \in Nat /\ MaxCount \in Nat /\ MaxCount > 0 /\ Delay \in Nat /\ Delay > 0
          /\ old.count \in Nat /\ old.delay \in Nat
      BY <2>2, CodeAssumption DEF TypeOK, ResetRow
    <2>6. IF old.delay = 0
          THEN old.count < MaxCount
               /\ \A first \in IssuedLinks : first.row = old.id => MailedFrom(IssuedLinks, first) <= old.count
          ELSE old.count >= MaxCount
               /\ \A first \in IssuedLinks : first.row = old.id => first.at + Delay <= old.delay
      BY <2>2 DEF LinksThrottled
    <2>7. /\ IsFiniteSet(IssuedLinks) /\ IssuedLinks \in SUBSET Mail
          /\ \A m \in IssuedLinks : m.at <= mail.at
      BY <2>4 DEF TypeOK, LinkInv, LinksKnown
    <2>8. n \in Nat /\ n + 1 <= MaxCount /\ (old.delay = 0 => n = old.count)
      BY <2>5, <2>6
    <2>9. \A first \in IssuedLinks : first.row = mail.row =>
            first.at + Delay <= mail.at \/ MailedFrom(IssuedLinks, first) <= n
      <3>1. CASE old.delay = 0
        BY <2>3, <2>4, <2>6, <3>1
      <3>2. CASE old.delay # 0
        <4>1. \A first \in IssuedLinks : first.at \in Nat
          BY <2>7 DEF Mail
        <4> QED  BY <2>2, <2>3, <2>4, <2>5, <2>6, <3>2, <4>1
      <3> QED  BY <3>1, <3>2
    <2> HIDE DEF n
    <2>10. \A first \in IssuedLinks \cup {mail} :
             /\ first.row # mail.row =>
                  first \in IssuedLinks
                  /\ MailedFrom(IssuedLinks \cup {mail}, first) = MailedFrom(IssuedLinks, first)
             /\ first.row = mail.row =>
                  \/ /\ first \in IssuedLinks /\ first.at + Delay <= mail.at
                     /\ MailedFrom(IssuedLinks \cup {mail}, first) = MailedFrom(IssuedLinks, first)
                  \/ MailedFrom(IssuedLinks \cup {mail}, first) <= n + 1
      BY <2>1, <2>7, <2>8, <2>9, WindowsGrow
    <2>11. \A first \in all : MailedFrom(all, first) \in Nat
      <3>1. IsFiniteSet(all)
        BY <2>7, FS_AddElement
      <3> QED  BY <3>1, WindowNat
    <2>12. \A first \in all :
             \/ first \in IssuedLinks /\ MailedFrom(all, first) = MailedFrom(IssuedLinks, first)
             \/ first.row = mail.row /\ MailedFrom(all, first) <= n + 1
      BY <2>10
    <2>13. \A first \in all : first.row # mail.row =>
             first \in IssuedLinks /\ MailedFrom(all, first) = MailedFrom(IssuedLinks, first)
      BY <2>10
    <2>14. \A first \in all : first.at \in Nat /\ first.at <= now
      BY <2>1, <2>4, <2>5, <2>7 DEF Mail
    <2> HIDE DEF all
    <2>15. ASSUME NEW first \in all  PROVE MailedFrom(all, first) <= MaxCount
      <3>1. CASE first \in IssuedLinks /\ MailedFrom(all, first) = MailedFrom(IssuedLinks, first)
        BY <3>1 DEF LinksThrottled
      <3>2. CASE MailedFrom(all, first) <= n + 1
        BY <2>5, <2>8, <2>11, <3>2
      <3> QED  BY <2>12, <3>1, <3>2
    <2>16. ASSUME NEW row \in resets'
           PROVE  IF row.delay = 0
                  THEN row.count < MaxCount
                       /\ \A first \in all : first.row = row.id => MailedFrom(all, first) <= row.count
                  ELSE row.count >= MaxCount
                       /\ \A first \in all : first.row = row.id => first.at + Delay <= row.delay
      <3>1. CASE row \in resets /\ row.id # new.id
        <4>1. \A first \in all : first.row = row.id =>
                first \in IssuedLinks /\ MailedFrom(all, first) = MailedFrom(IssuedLinks, first)
          BY <2>4, <2>13, <3>1
        <4> QED  BY <3>1, <4>1 DEF LinksThrottled
      <3>2. CASE row = new
        <4>1. CASE old.count + 1 >= MaxCount
          <5>1. row.delay = now + Delay /\ row.delay # 0 /\ row.count >= MaxCount
            BY <2>3, <2>5, <3>2, <4>1
          <5>2. \A first \in all : first.at + Delay <= now + Delay
            BY <2>5, <2>14
          <5> QED  BY <5>1, <5>2
        <4>2. CASE ~(old.count + 1 >= MaxCount)
          <5>1. old.delay = 0 /\ n = old.count
            BY <2>5, <2>6, <2>8, <4>2
          <5>2. row.delay = 0 /\ row.count = old.count + 1 /\ row.count < MaxCount /\ row.id = old.id
            BY <2>3, <2>5, <3>2, <4>2, <5>1
          <5>3. ASSUME NEW first \in all, first.row = old.id
                PROVE  MailedFrom(all, first) <= old.count + 1
            <6>1. CASE first \in IssuedLinks /\ MailedFrom(all, first) = MailedFrom(IssuedLinks, first)
              <7>1. MailedFrom(all, first) <= old.count
                BY <2>6, <5>1, <5>3, <6>1
              <7> QED  BY <2>5, <2>11, <7>1
            <6>2. CASE MailedFrom(all, first) <= n + 1
              BY <5>1, <6>2
            <6> QED  BY <2>12, <6>1, <6>2
          <5> QED  BY <5>2, <5>3
        <4> QED  BY <4>1, <4>2
      <3>3. row = new \/ (row \in resets /\ row.id # new.id)
        BY <2>1
      <3> QED  BY <3>1, <3>2, <3>3
    <2> QED  BY <2>1, <2>15, <2>16 DEF LinksThrottled
  <1> QED  BY <1>1, <1>2

LEMMA ReadsResetRequest ==
    ASSUME TypeOK, LinkInv, NEW r \in Requests, Reads(r)
    PROVE  \E q : Moves(r, q) /\ ResetRequest(q)
  <1>1. ASSUME NEW q, q.pc \notin {"insertReset", "writeReset", "password", "deleteReset"}
        PROVE  ResetRequest(q)
    BY <1>1, NoResetRequest
  <1>2. ResetRequest(Idle)
    BY <1>1 DEF Idle
  <1>3. CASE \E u \in Users : Resend(r, u) \/ Login(r, u) \/ AskReset(r, u)
    <2>1. PICK u \in Users : Resend(r, u) \/ Login(r, u) \/ AskReset(r, u)
      BY <1>3
    <2>2. /\ ResetRequest([pc |-> "find", user |-> u]) /\ ResetRequest([pc |-> "ask", user |-> u])
          /\ ResetRequest([pc |-> "findReset", user |-> u])
      BY <1>1
    <2> QED  BY <2>1, <2>2, BeginMoves
  <1>4. CASE \E m \in mailed : Verify(r, m)
    <2>1. PICK row \in codes : Moves(r, [pc |-> "delete", user |-> row.user, row |-> row])
      BY <1>4, VerifyMoves
    <2>2. ResetRequest([pc |-> "delete", user |-> row.user, row |-> row])
      BY <1>1
    <2> QED  BY <2>1, <2>2
  <1>5. CASE \E m \in links : ResetPassword(r, m)
    <2>1. PICK row \in resets : Moves(r, [pc |-> "password", user |-> row.user, row |-> row])
      BY <1>5, ResetMoves
    <2>2. ResetRequest([pc |-> "password", user |-> row.user, row |-> row])
      BY DEF ResetRequest
    <2> QED  BY <2>1, <2>2
  <1>6. CASE FindCode(r)
    <2>1. /\ ResetRequest([pc |-> "insert", user |-> req[r].user])
          /\ ResetRequest([pc |-> "ask", user |-> req[r].user])
      BY <1>1
    <2> QED  BY <1>6, <2>1, FindMoves
  <1>7. CASE AskNewCode(r)
    <2>1. CASE Respond(r)
      BY <1>2, <2>1, RespondMoves
    <2>2. ASSUME NEW row \in codes,
                 Moves(r, [pc |-> "write", user |-> row.user, row |-> Refreshed(row)])
          PROVE  \E q : Moves(r, q) /\ ResetRequest(q)
      <3>1. ResetRequest([pc |-> "write", user |-> row.user, row |-> Refreshed(row)])
        BY <1>1
      <3> QED  BY <2>2, <3>1
    <2> QED  BY <1>7, <2>1, <2>2, AskMoves
  <1>8. CASE FindReset(r)
    <2>1. CASE Respond(r)
      BY <1>2, <2>1, RespondMoves
    <2>2. CASE Moves(r, [pc |-> "insertReset", user |-> req[r].user])
               /\ ResetsOf(req[r].user) = {}
      <3>1. ResetRequest([pc |-> "insertReset", user |-> req[r].user])
        BY <2>2 DEF ResetRequest, ResetsOf
      <3> QED  BY <2>2, <3>1
    <2>3. ASSUME NEW row \in resets, row.delay <= now,
                 Moves(r, [pc |-> "writeReset", user |-> row.user, row |-> row])
          PROVE  \E q : Moves(r, q) /\ ResetRequest(q)
      <3>1. ResetRequest([pc |-> "writeReset", user |-> row.user, row |-> row])
        BY <2>3 DEF ResetRequest
      <3> QED  BY <2>3, <3>1
    <2> QED  BY <1>8, <2>1, <2>2, <2>3, FindResetMoves
  <1>9. CASE RequestFails(r)
    BY <1>2, <1>9, FailMoves
  <1>10. CASE Mails(r)
    BY <1>2, <1>10, MailsMove
  <1> QED  BY <1>3, <1>4, <1>5, <1>6, <1>7, <1>8, <1>9, <1>10 DEF Reads

\* A step that leaves the links alone, and its request with no link to hold.
LEMMA LinksAside ==
    ASSUME TypeOK, TypeOK', LinkInv, LinksLimited, NEW r \in Requests, NEW q, Moves(r, q),
           UNCHANGED <<resets, IssuedLinks, changed, now>>, generated <= generated', ResetRequest(q)
    PROVE  LinkInv' /\ LinksLimited'
  <1>1. LinkInv'
    BY LinksStay
  <1>2. LinksLimited'
    BY LinksLimitedStay
  <1> QED  BY <1>1, <1>2

LEMMA LinksStep ==
    ASSUME TypeOK, TypeOK', OnePerUser, LinkInv, LinksLimited, [Next]_vars
    PROVE  LinkInv' /\ LinksLimited'
  <1>0. generated \in Nat
    BY DEF TypeOK
  <1>1. CASE UNCHANGED vars
    <2>1. UNCHANGED <<resets, IssuedLinks, changed, req, generated, now>>
      BY <1>1, IssuedSame DEF vars, codeVars, resetVars
    <2>2. LinkInv'
      BY <2>1 DEF LinkInv, LinksKnown, OneReset, LastLink, ChangedOnce, ResetRequest
    <2> QED  BY <2>1, <2>2, LinksLimitedStay
  <1>2. CASE Tick
    BY <1>2, LinksTick
  <1>3. ASSUME NEW r \in Requests, Reads(r)  PROVE LinkInv' /\ LinksLimited'
    <2>1. PICK q : Moves(r, q) /\ ResetRequest(q)
      BY <1>3, ReadsResetRequest
    <2>2. UNCHANGED <<resets, IssuedLinks, changed, now>> /\ generated <= generated'
      BY <1>0, <1>3, ReadsMove DEF Kept
    <2> QED  BY <2>1, <2>2, LinksAside
  <1>4. ASSUME NEW r \in Requests, InsertReset(r)  PROVE LinkInv' /\ LinksLimited'
    BY <1>4, InsertResetKeeps, InsertResetThrottled DEF LinksLimited
  <1>5. ASSUME NEW r \in Requests, WriteReset(r)  PROVE LinkInv' /\ LinksLimited'
    BY <1>5, WriteResetKeeps, WriteResetThrottled DEF LinksLimited
  <1>6. ASSUME NEW r \in Requests, SetPassword(r)  PROVE LinkInv' /\ LinksLimited'
    <2>1. UNCHANGED <<resets, IssuedLinks>>
      BY <1>6, SetWrites
    <2> QED  BY <1>6, <2>1, SetKeeps, LinksLimitedStay
  <1>7. ASSUME NEW r \in Requests, DeleteReset(r)  PROVE LinkInv' /\ LinksLimited'
    <2>1. resets' \subseteq resets /\ UNCHANGED IssuedLinks
      BY <1>7, DeleteResetWrites
    <2> QED  BY <1>7, <2>1, DeleteResetKeeps, LinksLimitedStay
  <1>8. ASSUME NEW r \in Requests, InsertCode(r) \/ WriteCode(r) \/ OpenSession(r)
        PROVE  LinkInv' /\ LinksLimited'
    <2>1. UNCHANGED <<resets, IssuedLinks, changed, now>>
      BY <1>8, InsertWrites, WriteWrites, OpenWrites
    <2>a. Ends(r)
      BY <1>8, InsertWrites, WriteWrites, RespondEnds DEF OpenSession
    <2>b. PICK q : /\ Moves(r, q)
                   /\ q.pc \notin {"insertReset", "writeReset", "password", "deleteReset"}
      BY <2>a, EndsOne
    <2>c. ResetRequest(q)
      BY <2>b, NoResetRequest
    <2>2. generated <= generated'
      <3>1. generated <= generated /\ generated <= generated + 1
        BY <1>0
      <3>2. CASE InsertCode(r)
        BY <3>1, <3>2, InsertWrites
      <3>3. CASE WriteCode(r)
        BY <3>1, <3>3, WriteWrites
      <3>4. CASE OpenSession(r)
        BY <3>1, <3>4, OpenWrites
      <3> QED  BY <1>8, <3>2, <3>3, <3>4
    <2> QED  BY <2>1, <2>2, <2>b, <2>c, LinksAside
  <1>9. ASSUME NEW r \in Requests, DeleteCode(r)  PROVE LinkInv' /\ LinksLimited'
    <2> DEFINE q == [pc |-> "session", user |-> req[r].user, row |-> req[r].row]
    <2>1. Moves(r, q)
      BY <1>9, DeleteMoves
    <2>2. UNCHANGED <<resets, IssuedLinks, changed, now>> /\ generated <= generated'
      BY <1>0, <1>9, DeleteWrites
    <2>3. ResetRequest(q)
      BY NoResetRequest
    <2> HIDE DEF q
    <2> QED  BY <2>1, <2>2, <2>3, LinksAside
  <1> QED  BY <1>1, <1>2, <1>3, <1>4, <1>5, <1>6, <1>7, <1>8, <1>9, NextCases

-----------------------------------------------------------------------------
(* The theorems. *)

LEMMA InvSingleUse ==
    ASSUME CodeInv, LinkInv
    PROVE  SingleUse
  BY DEF CodeInv, LinkInv, OpenedOnce, ChangedOnce, SingleUse

LEMMA InvLastMailedWorks ==
    ASSUME CodeInv, LinkInv
    PROVE  LastMailedWorks
  <1>1. mailed \subseteq Issued /\ links \subseteq IssuedLinks
    BY DEF Issued, IssuedLinks
  <1>2. \A row \in codes : \A m \in mailed : m.user = row.user => m.code <= row.code
    BY <1>1 DEF CodeInv, LastCode
  <1>3. ASSUME NEW row \in codes
        PROVE  \/ \E m \in mailed \cup unsent : m.row = row.id /\ m.code = row.code
               \/ \E r \in Requests : req[r].pc \in {"send", "reread"}
                                      /\ req[r].mail.row = row.id /\ req[r].mail.code = row.code
    <2>1. PICK m \in Issued : m.row = row.id /\ m.code = row.code
      BY DEF CodeInv, CodesIssued
    <2>2. CASE m \in mailed \cup unsent
      BY <2>1, <2>2
    <2>3. CASE m \in Waiting(CodePcs)
      <3>1. PICK r \in Requests : req[r].pc \in CodePcs /\ req[r].mail = m
        BY <2>3 DEF Waiting
      <3> QED  BY <2>1, <3>1 DEF CodePcs
    <2> QED  BY <2>1, <2>2, <2>3 DEF Issued
  <1>4. \A row \in resets : \A m \in links :
          m.user = row.user => m.row <= row.id /\ m.at < row.expires
    BY <1>1 DEF LinkInv, LastLink
  <1> QED  BY <1>2, <1>3, <1>4 DEF LastMailedWorks

LEMMA InvThrottled ==
    ASSUME CodeInv, LinkInv, CodesThrottled, LinksLimited, MaxCount > 1
    PROVE  Throttled
  <1>1. /\ mailed \subseteq Issued /\ IsFiniteSet(Issued)
        /\ links \subseteq IssuedLinks /\ IsFiniteSet(IssuedLinks)
    BY DEF Issued, IssuedLinks, CodeInv, CodesKnown, LinkInv, LinksKnown
  <1>2. MaxCount \in Nat
    BY CodeAssumption
  <1>3. ASSUME NEW first \in mailed  PROVE MailedFrom(mailed, first) <= MaxCount + 1
    <2>1. MailedFrom(Issued, first) <= MaxCount + 1
      BY <1>1 DEF CodesThrottled
    <2>2. MailedFrom(mailed, first) <= MailedFrom(Issued, first)
      BY <1>1, WindowSubset
    <2>3. MailedFrom(mailed, first) \in Nat /\ MailedFrom(Issued, first) \in Nat
      BY <1>1, FS_Subset, WindowNat
    <2> QED  BY <1>2, <2>1, <2>2, <2>3
  <1>4. ASSUME NEW first \in links  PROVE MailedFrom(links, first) <= MaxCount
    <2>1. MailedFrom(IssuedLinks, first) <= MaxCount
      BY <1>1 DEF LinksLimited, LinksThrottled
    <2>2. MailedFrom(links, first) <= MailedFrom(IssuedLinks, first)
      BY <1>1, WindowSubset
    <2>3. MailedFrom(links, first) \in Nat /\ MailedFrom(IssuedLinks, first) \in Nat
      BY <1>1, FS_Subset, WindowNat
    <2> QED  BY <1>2, <2>1, <2>2, <2>3
  <1> QED  BY <1>3, <1>4 DEF Throttled

Inv == TypeOK /\ CodeInv /\ CodesThrottled /\ LinkInv /\ LinksLimited

LEMMA InvHolds == Spec /\ []OnePerUser => []Inv
  <1>1. Init => Inv
    BY TypeInit, CodesInit, LinksInit DEF Inv
  <1>2. Inv /\ OnePerUser /\ [Next]_vars => Inv'
    <2> SUFFICES ASSUME Inv, OnePerUser, [Next]_vars  PROVE Inv'
      OBVIOUS
    <2>1. TypeOK'
      BY TypeStep DEF Inv
    <2>2. CodeInv' /\ CodesThrottled'
      BY <2>1, CodesStep DEF Inv
    <2>3. LinkInv' /\ LinksLimited'
      BY <2>1, LinksStep DEF Inv
    <2> QED  BY <2>1, <2>2, <2>3 DEF Inv
  <1> QED  BY <1>1, <1>2, PTL DEF Spec

\* verifyUserCode with deleteUserCode, and resetPassword with
\* deleteResetPasswordRequest: as long as a user has one request at a time, no
\* code opens two sessions and no link sets a password again after a reset with
\* it was answered.
THEOREM CodesGoodOnce == Spec /\ []OnePerUser => []SingleUse
  <1>1. Inv => SingleUse
    BY InvSingleUse DEF Inv
  <1> QED  BY <1>1, InvHolds, PTL

\* createUserCode, askNewCode and handleResetPasswordRequest: as long as a user
\* has one request at a time, no code he was mailed is later than that of his row,
\* which was mailed to him, is about to be, or never will be because the request
\* that wrote it broke off before its mail; and the link of his row is the only one
\* in use, good for six minutes after every mail of it.
THEOREM LastMailed == Spec /\ []OnePerUser => []LastMailedWorks
  <1>1. Inv => LastMailedWorks
    BY InvLastMailedWorks DEF Inv
  <1> QED  BY <1>1, InvHolds, PTL

\* incrementCountAndSetDelayDate: as long as a user has one request at a time, no
\* window as long as the delay holds more mails of a row than the limit, whatever
\* the limit, if it allows a link at all after the first.
THEOREM ThrottleHolds ==
    ASSUME MaxCount > 1
    PROVE  Spec /\ []OnePerUser => []Throttled
  <1>1. Inv => Throttled
    BY InvThrottled DEF Inv
  <1> QED  BY <1>1, InvHolds, PTL
=============================================================================
