--------------------------- MODULE SupportsProofs ---------------------------
(***************************************************************************)
(* Proofs about Supports, for every set of users, admins, chats and        *)
(* requests and every bound: the types, that a support chat is what        *)
(* ChatDesk promises, that the last message catches up, that no page       *)
(* leaves a gap, and what is true of cursors, unread counts and lists      *)
(* while requests do not overlap.                                          *)
(***************************************************************************)
EXTENDS Supports, FiniteSetTheorems, WellFoundedInduction, TLAPS

\* What types do not show: links are counted, cursors and callbacks name
\* messages that were numbered, callbacks name chats that exist, and a
\* request that stored a message has its number, one about a link its admin.
Numbered ==
    /\ IsFiniteSet(links)
    /\ \A l \in links : l.read <= serial
    /\ \A j \in jobs : j.msg <= serial /\ con[j.con] # None
    /\ \A r \in Requests :
         /\ req[r].pc \in {"commit", "last", "announce"} => req[r].msg # 0
         /\ req[r].pc \in {"update", "find", "add"} => req[r].who \in Admins

IndInv == TypeOK /\ Numbered

-----------------------------------------------------------------------------
LEMMA RequestRow ==
    ASSUME TypeOK, NEW r \in Requests, req[r].pc # "idle"
    PROVE  req[r] \in Request /\ con[req[r].con] \in Con /\ req[r].msg <= serial
  <1>1. req[r] \in Request
    BY DEF TypeOK, Idle
  <1>2. req[r].con \in Chats
    BY <1>1 DEF Request
  <1> QED  BY <1>1, <1>2 DEF TypeOK

\* The types of everything but the requests.
Store ==
    /\ con \in [Chats -> Con \cup {None}]
    /\ messages \subseteq Message
    /\ links \subseteq Link
    /\ IsFiniteSet(links)
    /\ jobs \subseteq Job
    /\ serial \in 0 .. MaxMessages
    /\ announced \subseteq Serials
    /\ told \in [Viewers -> [Chats -> 0 .. MaxMessages]]
    /\ broken \subseteq Serials
    /\ marked \in [Viewers -> [Chats -> 0 .. MaxMessages]]
    /\ overlapped \in BOOLEAN
    /\ asked \in 0 .. MaxAsked
    /\ faults \in 0 .. MaxFaults
    /\ \A c \in Chats : con[c] # None => con[c].last <= serial /\ con[c].read <= serial
    /\ \A l \in links : l.read <= serial
    /\ \A j \in jobs : j.msg <= serial /\ con[j.con] # None

\* What is true of a request.
Sound(q) ==
    /\ q \in Request \cup {Idle}
    /\ q.pc # "idle" => con[q.con] # None /\ q.msg <= serial
    /\ q.pc \in {"commit", "last", "announce"} => q.msg # 0
    /\ q.pc \in {"update", "find", "add"} => q.who \in Admins

Served ==
    /\ req \in [Requests -> Request \cup {Idle}]
    /\ \A r \in Requests : Sound(req[r])

\* The invariant, taken apart.
LEMMA Split ==
    IndInv <=> Store /\ Served
  <1>1. ASSUME IndInv PROVE Served
    BY <1>1 DEF IndInv, TypeOK, Numbered, Served, Sound
  <1>2. ASSUME IndInv PROVE Store
    BY <1>2 DEF IndInv, TypeOK, Numbered, Store
  <1>3. ASSUME Store, Served PROVE IndInv
    BY <1>3 DEF IndInv, TypeOK, Numbered, Store, Served, Sound
  <1> QED  BY <1>1, <1>2, <1>3

-----------------------------------------------------------------------------
(* Requests go on. *)

\* No chat goes and no number is given back.
Grown == /\ serial \in Nat /\ serial' \in Nat /\ serial <= serial'
         /\ \A c \in Chats : con[c] # None => con'[c] # None

LEMMA StaysSound ==
    ASSUME Grown, NEW q, Sound(q)
    PROVE  Sound(q)'
  BY DEF Grown, Sound, Request, Idle

LEMMA SetServed ==
    ASSUME Served, Grown, NEW r \in Requests, NEW q, Sound(q)', req' = [req EXCEPT ![r] = q]
    PROVE  Served'
  <1>1. \A s \in Requests : req'[s] = IF s = r THEN q ELSE req[s]
    BY DEF Served
  <1>2. \A s \in Requests : Sound(req[s])'
    BY <1>1, StaysSound DEF Served, Sound
  <1>3. q \in Request \cup {Idle}
    BY DEF Sound
  <1> QED  BY <1>2, <1>3 DEF Served

LEMMA SameServed ==
    ASSUME Served, Grown, req' = req
    PROVE  Served'
  BY StaysSound DEF Served, Sound

LEMMA RespondServed ==
    ASSUME Served, Grown, NEW r \in Requests, Respond(r)
    PROVE  Served'
  <1>1. Sound(Idle)'
    BY DEF Sound, Idle
  <1> QED  BY <1>1, SetServed DEF Respond

LEMMA AlikeSound ==
    ASSUME Grown, NEW q, Sound(q), q.pc # "idle", NEW new \in Request,
           new.con = q.con, new.msg = q.msg, new.who = q.who,
           new.pc \in {"update", "find", "add"} => q.pc \in {"update", "find", "add"},
           new.pc \in {"commit", "last", "announce"} => q.msg # 0
    PROVE  Sound(new)'
  <1>1. q \in Request /\ Sound(q)'
    BY StaysSound DEF Sound, Idle
  <1> QED  BY <1>1 DEF Sound

LEMMA GotoServed ==
    ASSUME Served, Grown, NEW r \in Requests, req[r].pc # "idle",
           NEW pc \in {"insert", "last", "announce", "add", "page"},
           pc \in {"last", "announce"} => req[r].msg # 0,
           pc = "add" => req[r].pc = "find",
           Goto(r, pc)
    PROVE  Served'
  <1>1. PICK q : q = req[r]
    OBVIOUS
  <1>2. Sound(q) /\ q.pc # "idle" /\ (pc \in {"last", "announce"} => q.msg # 0)
        /\ (pc = "add" => q.pc = "find")
    BY <1>1 DEF Served
  <1>3. q \in Request
    BY <1>2 DEF Sound, Idle
  <1>4. PICK new : new = [q EXCEPT !.pc = pc]
    OBVIOUS
  <1>5. new \in Request /\ new.pc = pc /\ new.msg = q.msg /\ new.con = q.con /\ new.who = q.who
    BY <1>3, <1>4 DEF Request
  <1>6. Sound(new)'
    BY <1>2, <1>5, AlikeSound
  <1>7. req' = [req EXCEPT ![r] = new]
    BY <1>1, <1>4 DEF Goto, Served
  <1> QED  BY <1>6, <1>7, SetServed

LEMMA BeginServed ==
    ASSUME Served, Grown, NEW r \in Requests, NEW q \in Request,
           con'[q.con] # None, q.msg <= serial', q.pc \notin {"commit", "last", "announce"},
           q.pc \in {"update", "find", "add"} => q.who \in Admins,
           BeginWith(r, q)
    PROVE  Served'
  <1>1. Sound(q)'
    BY DEF Sound
  <1> QED  BY <1>1, SetServed DEF BeginWith

-----------------------------------------------------------------------------
(* Every step keeps the types. *)

LEMMA BeginKeeps ==
    ASSUME Store, Served, NEW r \in Requests, NEW q \in Request,
           con[q.con] # None, q.msg <= serial, q.pc \notin {"commit", "last", "announce"},
           q.pc \in {"update", "find", "add"} => q.who \in Admins,
           BeginWith(r, q),
           UNCHANGED <<con, messages, links, jobs, serial, announced, told, broken, marked, faults>>
    PROVE  Store' /\ Served'
  <1>1. Store'
    BY SupportsAssumption DEF BeginWith, Store
  <1>2. Grown
    BY DEF Store, Grown
  <1>3. con'[q.con] # None /\ q.msg <= serial'
    OBVIOUS
  <1>4. Served'
    BY <1>2, <1>3, BeginServed
  <1> QED  BY <1>1, <1>4

\* Where a chat is, its row is one.
LEMMA ConRow ==
    ASSUME Store, NEW c \in Chats, con[c] # None
    PROVE  con[c] \in Con /\ con[c].last \in Nat /\ con[c].read \in Nat
           /\ con[c].last <= serial /\ con[c].read <= serial
  BY DEF Store, Con

LEMMA AskKeeps ==
    ASSUME Store, Served, NEW r \in Requests, Ask(r)
    PROVE  Store' /\ Served'
  <1> USE DEF rows
  <1>1. ASSUME NEW c \in Chats, NEW u \in Users, CreateConversation(r, u, c)
        PROVE  Store' /\ Served'
    <2>1. PICK row : row = [owner |-> u, status |-> "ACTIVE", last |-> 0, read |-> 0]
      OBVIOUS
    <2>2. row \in Con /\ row # None /\ row.last = 0 /\ row.read = 0
      BY <2>1, SupportsAssumption DEF Con
    <2>3. con' = [con EXCEPT ![c] = row]
      BY <1>1, <2>1 DEF CreateConversation
    <2>4. con' \in [Chats -> Con \cup {None}] /\ con'[c] = row
          /\ \A d \in Chats : d # c => con'[d] = con[d]
      BY <2>2, <2>3 DEF Store
    <2>5. \A d \in Chats : con[d] # None => con'[d] # None
      BY <2>2, <2>4
    <2>6. Grown
      BY <1>1, <2>5 DEF Store, Grown, CreateConversation
    <2>7. \A d \in Chats : con'[d] # None => con'[d].last <= serial' /\ con'[d].read <= serial'
      BY <1>1, <2>2, <2>4 DEF Store, CreateConversation
    <2>8. \A j \in jobs' : j.msg <= serial' /\ con'[j.con] # None
      BY <1>1, <2>5 DEF Store, CreateConversation, Job
    <2>9. /\ overlapped' \in BOOLEAN /\ asked' \in 0 .. MaxAsked
      BY <1>1, SupportsAssumption DEF CreateConversation, Begin, BeginWith, Store
    <2>10. Store'
      BY <1>1, <2>4, <2>7, <2>8, <2>9 DEF Store, CreateConversation
    <2>11. PICK q : q = [pc |-> "insert", who |-> u, con |-> c, msg |-> 0, link |-> 0, fresh |-> TRUE]
      OBVIOUS
    <2>12. q \in Request /\ q.con = c /\ q.msg = 0 /\ q.pc = "insert"
      BY <2>11 DEF Request, Viewers
    <2>13. BeginWith(r, q)
      BY <1>1, <2>11 DEF CreateConversation, Begin
    <2>14. con'[q.con] # None /\ q.msg <= serial' /\ q.pc \notin {"commit", "last", "announce"}
      BY <2>2, <2>4, <2>6, <2>12 DEF Grown
    <2>15. Served'
      BY <2>6, <2>12, <2>13, <2>14, BeginServed
    <2> QED  BY <2>10, <2>15
  <1>2. ASSUME NEW c \in Chats, NEW v \in Viewers, SendMessage(r, v, c)
        PROVE  Store' /\ Served'
    <2>1. PICK q : q = [pc |-> "read", who |-> v, con |-> c, msg |-> 0, link |-> 0, fresh |-> FALSE]
      OBVIOUS
    <2>2. q \in Request /\ q.con = c /\ q.msg = 0 /\ q.pc = "read"
      BY <2>1 DEF Request
    <2>3. BeginWith(r, q)
      BY <1>2, <2>1 DEF SendMessage, Begin
    <2>4. con[q.con] # None /\ q.msg <= serial
      BY <1>2, <2>2, SupportsAssumption DEF SendMessage, Store
    <2> QED  BY <1>2, <2>2, <2>3, <2>4, BeginKeeps DEF SendMessage
  <1>3. ASSUME NEW c \in Chats, NEW u \in Users, MarkAsReadByUser(r, u, c)
        PROVE  Store' /\ Served'
    <2>1. PICK q : q = [pc |-> "mark", who |-> u, con |-> c, msg |-> con[c].last, link |-> 0,
                        fresh |-> FALSE]
      OBVIOUS
    <2>2. con[c] # None
      BY <1>3 DEF MarkAsReadByUser
    <2>3. q \in Request /\ q.con = c /\ q.msg <= serial /\ q.pc = "mark"
      BY <2>1, <2>2, ConRow DEF Request, Viewers
    <2>4. BeginWith(r, q)
      BY <1>3, <2>1 DEF MarkAsReadByUser, Begin
    <2> QED  BY <1>3, <2>2, <2>3, <2>4, BeginKeeps DEF MarkAsReadByUser
  <1>4. ASSUME NEW c \in Chats, NEW u \in Users, OpenByUser(r, u, c)
        PROVE  Store' /\ Served'
    <2>1. PICK q : q = [pc |-> "page", who |-> u, con |-> c, msg |-> con[c].read, link |-> 0,
                        fresh |-> TRUE]
      OBVIOUS
    <2>2. con[c] # None
      BY <1>4 DEF OpenByUser
    <2>3. q \in Request /\ q.con = c /\ q.msg <= serial /\ q.pc = "page"
      BY <2>1, <2>2, ConRow DEF Request, Viewers
    <2>4. BeginWith(r, q)
      BY <1>4, <2>1 DEF OpenByUser, Begin
    <2> QED  BY <1>4, <2>2, <2>3, <2>4, BeginKeeps DEF OpenByUser
  <1>5. ASSUME NEW c \in Chats, NEW a \in Admins, OpenByAdmin(r, a, c)
        PROVE  Store' /\ Served'
    <2>1. PICK q : q = [pc |-> "find", who |-> a, con |-> c, msg |-> 0, link |-> 0, fresh |-> TRUE]
      OBVIOUS
    <2>2. con[c] # None
      BY <1>5 DEF OpenByAdmin
    <2>3. q \in Request /\ q.con = c /\ q.msg = 0 /\ q.pc = "find" /\ q.who \in Admins
      BY <2>1 DEF Request, Viewers
    <2>4. BeginWith(r, q)
      BY <1>5, <2>1 DEF OpenByAdmin, Begin
    <2>5. q.msg <= serial
      BY <2>3 DEF Store
    <2> QED  BY <1>5, <2>2, <2>3, <2>4, <2>5, BeginKeeps DEF OpenByAdmin
  <1>6. ASSUME NEW c \in Chats, NEW a \in Admins, CloseChat(r, a, c)
        PROVE  Store' /\ Served'
    <2>1. PICK q : q = [pc |-> "close", who |-> a, con |-> c, msg |-> con[c].last, link |-> 0,
                        fresh |-> FALSE]
      OBVIOUS
    <2>2. con[c] # None
      BY <1>6 DEF CloseChat
    <2>3. q \in Request /\ q.con = c /\ q.msg <= serial /\ q.pc = "close"
      BY <2>1, <2>2, ConRow DEF Request, Viewers
    <2>4. BeginWith(r, q)
      BY <1>6, <2>1 DEF CloseChat, Begin
    <2> QED  BY <1>6, <2>2, <2>3, <2>4, BeginKeeps DEF CloseChat
  <1>7. ASSUME NEW c \in Chats, NEW a \in Admins, MarkAsReadByAdmin(r, a, c)
        PROVE  Store' /\ Served'
    <2>1. con[c] # None
      BY <1>7 DEF MarkAsReadByAdmin
    <2>2. PICK q \in Request : /\ q.con = c /\ q.msg = con[c].last /\ q.pc \in {"find", "update"}
                               /\ q.who \in Admins /\ BeginWith(r, q)
      <3>1. CASE Begin(r, "find", a, c, con[c].last, FALSE)
        <4>1. PICK q : q = [pc |-> "find", who |-> a, con |-> c, msg |-> con[c].last, link |-> 0,
                            fresh |-> FALSE]
          OBVIOUS
        <4>2. q \in Request /\ q.con = c /\ q.msg = con[c].last /\ q.pc = "find" /\ q.who \in Admins
          BY <2>1, <4>1, ConRow DEF Request, Viewers
        <4> QED  BY <3>1, <4>1, <4>2 DEF Begin
      <3>2. ASSUME NEW l \in LinksOf(a, c),
                   BeginWith(r, [pc |-> "update", who |-> a, con |-> c, msg |-> con[c].last,
                                 link |-> l.id, fresh |-> FALSE])
            PROVE  \E q \in Request : /\ q.con = c /\ q.msg = con[c].last
                                      /\ q.pc \in {"find", "update"} /\ q.who \in Admins
                                      /\ BeginWith(r, q)
        <4>1. PICK q : q = [pc |-> "update", who |-> a, con |-> c, msg |-> con[c].last, link |-> l.id,
                            fresh |-> FALSE]
          OBVIOUS
        <4>2. l.id \in Nat
          BY DEF Store, LinksOf, Link
        <4>3. q \in Request /\ q.con = c /\ q.msg = con[c].last /\ q.pc = "update" /\ q.who \in Admins
          BY <2>1, <4>1, <4>2, ConRow DEF Request, Viewers
        <4> QED  BY <3>2, <4>1, <4>3
      <3> QED  BY <1>7, <3>1, <3>2 DEF MarkAsReadByAdmin
    <2>3. q.msg <= serial /\ con[q.con] # None
      BY <2>1, <2>2, ConRow
    <2> QED  BY <1>7, <2>2, <2>3, BeginKeeps DEF MarkAsReadByAdmin
  <1> QED  BY <1>1, <1>2, <1>3, <1>4, <1>5, <1>6, <1>7 DEF Ask

\* The request of a step that is under way.
LEMMA ServedRow ==
    ASSUME Store, Served, NEW r \in Requests, req[r].pc # "idle"
    PROVE  /\ req[r] \in Request
           /\ req[r].con \in Chats /\ req[r].who \in Viewers /\ req[r].msg \in 0 .. MaxMessages
           /\ con[req[r].con] \in Con /\ req[r].msg <= serial
           /\ req[r].pc \in {"commit", "last", "announce"} => req[r].msg \in Serials
  <1>1. PICK q : q = req[r]
    OBVIOUS
  <1>2. Sound(q) /\ q.pc # "idle"
    BY <1>1 DEF Served
  <1>3. q \in Request
    BY <1>2 DEF Sound, Idle
  <1>4. q.con \in Chats /\ q.who \in Viewers /\ q.msg \in Nat /\ q.msg <= serial /\ con[q.con] # None
    BY <1>2, <1>3 DEF Sound, Request
  <1>5. con[q.con] \in Con
    BY <1>4 DEF Store
  <1>6. serial \in Nat /\ serial <= MaxMessages /\ MaxMessages \in Nat
    BY SupportsAssumption DEF Store
  <1>7. q.msg \in 0 .. MaxMessages
    BY <1>4, <1>6
  <1>8. q.pc \in {"commit", "last", "announce"} => q.msg \in Serials
    BY <1>2, <1>7, <1>6 DEF Sound, Serials
  <1> QED  BY <1>1, <1>3, <1>4, <1>5, <1>7, <1>8

LEMMA SameStore ==
    ASSUME Store, UNCHANGED <<con, messages, links, jobs, serial, announced, told, broken, marked,
                              overlapped, asked, faults>>
    PROVE  Store' /\ Grown
  BY SupportsAssumption DEF Store, Grown

LEMMA ReadChatKeeps ==
    ASSUME Store, Served, NEW r \in Requests, ReadChat(r)
    PROVE  Store' /\ Served'
  <1>1. Store' /\ Grown
    BY SameStore DEF ReadChat, rows, history
  <1>2. req[r].pc # "idle" /\ (Goto(r, "insert") \/ Respond(r))
    BY DEF ReadChat
  <1> QED  BY <1>1, <1>2, GotoServed, RespondServed

LEMMA InsertMessageKeeps ==
    ASSUME Store, Served, NEW r \in Requests, InsertMessage(r)
    PROVE  Store' /\ Served'
  <1> USE DEF rows, history
  <1>1. serial \in Nat /\ serial' = serial + 1 /\ serial' \in 0 .. MaxMessages
    BY SupportsAssumption DEF InsertMessage, Store
  <1>2. \A c \in Chats : con[c] # None => con[c].last <= serial' /\ con[c].read <= serial'
    BY <1>1, ConRow
  <1>3. (\A l \in links : l.read <= serial') /\ \A j \in jobs : j.msg <= serial' /\ con[j.con] # None
    BY <1>1 DEF Store, Link, Job
  <1>4. Store'
    BY <1>1, <1>2, <1>3 DEF InsertMessage, Store
  <1>5. Grown
    BY <1>1 DEF InsertMessage, Grown
  <1>6. PICK q : q = req[r]
    OBVIOUS
  <1>7. Sound(q) /\ q \in Request /\ q.pc # "idle"
    BY <1>6, ServedRow DEF InsertMessage, Served
  <1>8. PICK n \in Nat : n = serial + 1
    BY <1>1
  <1>9. PICK new : new = [q EXCEPT !.pc = "commit", !.msg = n]
    OBVIOUS
  <1>10. new \in Request /\ new.pc = "commit" /\ new.msg = n /\ new.con = q.con
    BY <1>7, <1>9 DEF Request
  <1>11. con'[new.con] # None
    BY <1>7, <1>10 DEF Sound, InsertMessage
  <1>12. Sound(new)'
    BY <1>1, <1>8, <1>10, <1>11 DEF Sound
  <1>13. req' = [req EXCEPT ![r] = new]
    BY <1>6, <1>8, <1>9 DEF InsertMessage, Served
  <1> QED  BY <1>4, <1>5, <1>12, <1>13, SetServed

LEMMA CommitMessageKeeps ==
    ASSUME Store, Served, NEW r \in Requests, CommitMessage(r)
    PROVE  Store' /\ Served'
  <1> USE DEF history
  <1>1. req[r].pc = "commit"
    BY DEF CommitMessage
  <1>2. PICK m : /\ m = [serial |-> req[r].msg, con |-> req[r].con, by |-> req[r].who,
                         late |-> \E s \in SerialsOf(req[r].con) : s > req[r].msg,
                         beside |-> {req[q].msg : q \in {p \in Requests \ {r} :
                             req[p].pc \in {"commit", "last"} /\ req[p].con = req[r].con}}]
                /\ messages' = messages \cup {m}
    BY DEF CommitMessage
  <1>3. \A p \in Requests : req[p].pc \in {"commit", "last"} => req[p].msg \in Nat
    BY ServedRow
  <1>4. m \in Message
    BY <1>1, <1>2, <1>3, ServedRow DEF Message
  <1>5. Store'
    BY <1>2, <1>4 DEF CommitMessage, Store
  <1>6. Grown
    BY DEF CommitMessage, Store, Grown
  <1>7. Goto(r, "last") /\ req[r].msg # 0
    BY <1>1, ServedRow DEF CommitMessage, Serials
  <1> QED  BY <1>1, <1>5, <1>6, <1>7, GotoServed

\* What a step that writes a chat's row leaves.
ConKept ==
    /\ con' \in [Chats -> Con \cup {None}]
    /\ \A d \in Chats : con[d] # None => con'[d] # None
    /\ \A d \in Chats : con'[d] # None => con'[d].last <= serial /\ con'[d].read <= serial
    /\ \A j \in jobs : j.msg <= serial /\ con'[j.con] # None

\* A chat's row is written by its id.
LEMMA RowWritten ==
    ASSUME Store, NEW c \in Chats, con[c] # None, NEW row \in Con,
           row.last <= serial, row.read <= serial, con' = [con EXCEPT ![c] = row]
    PROVE  ConKept
  <1>1. row # None
    BY SupportsAssumption
  <1>2. con' \in [Chats -> Con \cup {None}] /\ con'[c] = row /\ \A d \in Chats : d # c => con'[d] = con[d]
    BY DEF Store
  <1>3. \A d \in Chats : con[d] # None => con'[d] # None
    BY <1>1, <1>2
  <1>4. \A d \in Chats : con'[d] # None => con'[d].last <= serial /\ con'[d].read <= serial
    BY <1>2 DEF Store
  <1>5. \A j \in jobs : j.msg <= serial /\ con'[j.con] # None
    BY <1>3 DEF Store, Job
  <1> QED  BY <1>2, <1>3, <1>4, <1>5 DEF ConKept

\* The chats change, and the marks of requests; the rest stays.
LEMMA ConsWritten ==
    ASSUME Store, ConKept,
           told' \in [Viewers -> [Chats -> 0 .. MaxMessages]],
           marked' \in [Viewers -> [Chats -> 0 .. MaxMessages]],
           jobs' \subseteq Job, \A j \in jobs' : j.msg <= serial /\ con'[j.con] # None,
           UNCHANGED <<messages, links, serial, announced, broken, overlapped, asked, faults>>
    PROVE  Store' /\ Grown
  BY SupportsAssumption DEF Store, Grown, ConKept

LEMMA TableType ==
    ASSUME NEW f \in [Viewers -> [Chats -> 0 .. MaxMessages]], NEW v \in Viewers, NEW c \in Chats,
           NEW m \in 0 .. MaxMessages
    PROVE  [f EXCEPT ![v][c] = m] \in [Viewers -> [Chats -> 0 .. MaxMessages]]
  OBVIOUS

LEMMA SetLastMessageKeeps ==
    ASSUME Store, Served, NEW r \in Requests, SetLastMessage(r)
    PROVE  Store' /\ Served'
  <1> USE DEF history
  <1>1. req[r].pc = "last"
    BY DEF SetLastMessage
  <1>2. PICK c \in Chats : c = req[r].con /\ con[c] \in Con /\ con[c] # None
    BY <1>1, ServedRow, SupportsAssumption
  <1>3. PICK row : row = [con[c] EXCEPT !.last = req[r].msg]
    OBVIOUS
  <1>4. row \in Con /\ row.last = req[r].msg /\ row.read = con[c].read
    BY <1>1, <1>2, <1>3, ServedRow DEF Con
  <1>5. row.last <= serial /\ row.read <= serial
    BY <1>1, <1>2, <1>4, ServedRow, ConRow
  <1>6. con' = [con EXCEPT ![c] = row]
    BY <1>2, <1>3 DEF SetLastMessage, Store
  <1>7. ConKept
    BY <1>2, <1>4, <1>5, <1>6, RowWritten
  <1>8. UNCHANGED <<messages, links, jobs, serial, announced, told, broken, marked, overlapped,
                     asked, faults>>
    BY DEF SetLastMessage
  <1>9. \A j \in jobs' : j.msg <= serial /\ con'[j.con] # None
    BY <1>7, <1>8 DEF ConKept
  <1>10. Store' /\ Grown
    BY <1>7, <1>8, <1>9, ConsWritten DEF Store
  <1>11. Goto(r, "announce") /\ req[r].msg # 0
    BY <1>1, ServedRow DEF SetLastMessage, Serials
  <1> QED  BY <1>1, <1>10, <1>11, GotoServed

LEMMA AnnounceKeeps ==
    ASSUME Store, Served, NEW r \in Requests, Announce(r)
    PROVE  Store' /\ Served'
  <1> USE DEF rows
  <1>1. req[r].pc = "announce" /\ Respond(r)
    BY DEF Announce
  <1>2. req[r].msg \in Serials /\ req[r].msg <= serial /\ req[r].con \in Chats /\ con[req[r].con] # None
    BY <1>1, ServedRow, SupportsAssumption
  <1>3. announced' \subseteq Serials /\ broken' \subseteq Serials
    BY <1>2 DEF Announce, Store
  <1>4. PICK j : j = [con |-> req[r].con, msg |-> req[r].msg, todo |-> {}, stage |-> "owner"]
    OBVIOUS
  <1>5. j \in Job /\ j.msg <= serial /\ con[j.con] # None
    BY <1>2, <1>4 DEF Job, Serials
  <1>6. jobs' \subseteq jobs \cup {j}
    BY <1>4 DEF Announce
  <1>7. Store'
    BY <1>3, <1>5, <1>6 DEF Announce, Store
  <1>8. Grown
    BY DEF Announce, Store, Grown
  <1> QED  BY <1>1, <1>7, <1>8, RespondServed

\* A mark is noted and told to who made it.
LEMMA MarkedType ==
    ASSUME Store, Served, NEW r \in Requests, req[r].pc # "idle",
           marked' = [marked EXCEPT ![req[r].who][req[r].con] = req[r].msg],
           Tell(req[r].who, req[r].con, req[r].msg)
    PROVE  /\ marked' \in [Viewers -> [Chats -> 0 .. MaxMessages]]
           /\ told' \in [Viewers -> [Chats -> 0 .. MaxMessages]]
  <1>1. /\ req[r].who \in Viewers /\ req[r].con \in Chats /\ req[r].msg \in 0 .. MaxMessages
    BY ServedRow
  <1> QED  BY <1>1, TableType DEF Tell, Store

LEMMA SaveReadKeeps ==
    ASSUME Store, Served, NEW r \in Requests, SaveRead(r)
    PROVE  Store' /\ Served'
  <1>1. req[r].pc = "mark" /\ Respond(r)
    BY DEF SaveRead
  <1>2. PICK c \in Chats : c = req[r].con /\ con[c] \in Con /\ con[c] # None
    BY <1>1, ServedRow, SupportsAssumption
  <1>3. PICK row : row = [con[c] EXCEPT !.read = req[r].msg]
    OBVIOUS
  <1>4. row \in Con /\ row.read = req[r].msg /\ row.last = con[c].last
    BY <1>1, <1>2, <1>3, ServedRow DEF Con
  <1>5. row.last <= serial /\ row.read <= serial
    BY <1>1, <1>2, <1>4, ServedRow, ConRow
  <1>6. con' = [con EXCEPT ![c] = row]
    BY <1>2, <1>3 DEF SaveRead, Store
  <1>7. /\ marked' \in [Viewers -> [Chats -> 0 .. MaxMessages]]
        /\ told' \in [Viewers -> [Chats -> 0 .. MaxMessages]]
    BY <1>1, MarkedType DEF SaveRead
  <1>8. ConKept
    BY <1>2, <1>4, <1>5, <1>6, RowWritten
  <1>9. UNCHANGED <<messages, links, jobs, serial, announced, broken, overlapped, asked, faults>>
    BY DEF SaveRead
  <1>10. \A j \in jobs' : j.msg <= serial /\ con'[j.con] # None
    BY <1>8, <1>9 DEF ConKept
  <1>11. Store' /\ Grown
    BY <1>7, <1>8, <1>9, <1>10, ConsWritten DEF Store
  <1> QED  BY <1>1, <1>11, RespondServed

\* The links change, the rest stays.
LEMMA LinksWritten ==
    ASSUME Store, links' \subseteq Link, IsFiniteSet(links'), \A l \in links' : l.read <= serial,
           told' \in [Viewers -> [Chats -> 0 .. MaxMessages]],
           marked' \in [Viewers -> [Chats -> 0 .. MaxMessages]],
           UNCHANGED <<con, messages, jobs, serial, announced, broken, overlapped, asked, faults>>
    PROVE  Store' /\ Grown
  BY DEF Store, Grown

LEMMA UpdateLinkKeeps ==
    ASSUME Store, Served, NEW r \in Requests, UpdateLink(r)
    PROVE  Store' /\ Served'
  <1>1. req[r].pc = "update" /\ Respond(r)
    BY DEF UpdateLink
  <1>2. /\ marked' \in [Viewers -> [Chats -> 0 .. MaxMessages]]
        /\ told' \in [Viewers -> [Chats -> 0 .. MaxMessages]]
    BY <1>1, MarkedType DEF UpdateLink
  <1>3. PICK new : new = [l \in links |-> IF l.id = req[r].link THEN [l EXCEPT !.read = req[r].msg] ELSE l]
    OBVIOUS
  <1>4. links' = {new[l] : l \in links}
    BY <1>3 DEF UpdateLink
  <1>5. \A l \in links : new[l] \in Link /\ new[l].read <= serial
    BY <1>1, <1>3, ServedRow DEF Store, Link
  <1>6. new \in Surjection(links, links')
    BY <1>3, <1>4 DEF Surjection
  <1>7. IsFiniteSet(links')
    BY <1>6, FS_Surjection DEF Store
  <1>8. Store' /\ Grown
    BY <1>2, <1>4, <1>5, <1>7, LinksWritten DEF UpdateLink
  <1> QED  BY <1>1, <1>8, RespondServed

LEMMA FindLinkKeeps ==
    ASSUME Store, Served, NEW r \in Requests, FindLink(r)
    PROVE  Store' /\ Served'
  <1> USE DEF rows
  <1>1. req[r].pc = "find"
    BY DEF FindLink
  <1>2. CASE Goto(r, "add") /\ UNCHANGED <<told, marked>>
    <2>1. Store' /\ Grown
      BY <1>2, SameStore DEF FindLink
    <2> QED  BY <1>1, <1>2, <2>1, GotoServed
  <1>3. ASSUME NEW l \in links, UNCHANGED <<told, marked>>,
               req' = [req EXCEPT ![r].pc = "page", ![r].msg = l.read]
        PROVE  Store' /\ Served'
    <2>1. Store' /\ Grown
      BY <1>3, SameStore DEF FindLink
    <2>2. PICK q : q = req[r]
      OBVIOUS
    <2>3. Sound(q) /\ q \in Request /\ q.pc # "idle"
      BY <1>1, <2>2, ServedRow DEF Served
    <2>4. PICK new : new = [q EXCEPT !.pc = "page", !.msg = l.read]
      OBVIOUS
    <2>5. l.read \in Nat /\ l.read <= serial
      BY DEF Store, Link
    <2>6. new \in Request /\ new.pc = "page" /\ new.msg = l.read /\ new.con = q.con
      BY <2>3, <2>4, <2>5 DEF Request
    <2>7. Sound(new)'
      BY <2>3, <2>5, <2>6 DEF Sound, FindLink
    <2>8. req' = [req EXCEPT ![r] = new]
      BY <1>3, <2>2, <2>4 DEF Served
    <2> QED  BY <2>1, <2>7, <2>8, SetServed
  <1>4. CASE /\ marked' = [marked EXCEPT ![req[r].who][req[r].con] = req[r].msg]
             /\ Tell(req[r].who, req[r].con, req[r].msg)
             /\ Respond(r)
    <2>1. /\ marked' \in [Viewers -> [Chats -> 0 .. MaxMessages]]
          /\ told' \in [Viewers -> [Chats -> 0 .. MaxMessages]]
      BY <1>1, <1>4, MarkedType
    <2>2. UNCHANGED <<con, messages, links, jobs, serial, announced, broken, overlapped, asked, faults>>
      BY DEF FindLink
    <2>3. Store' /\ Grown
      BY <2>1, <2>2, LinksWritten DEF Store
    <2> QED  BY <1>4, <2>3, RespondServed
  <1> QED  BY <1>2, <1>3, <1>4 DEF FindLink, LinksOf

LEMMA AddLinkKeeps ==
    ASSUME Store, Served, NEW r \in Requests, AddLink(r)
    PROVE  Store' /\ Served'
  <1>1. req[r].pc = "add"
    BY DEF AddLink
  <1>2. UNCHANGED <<con, messages, jobs, serial, announced, broken, overlapped, asked, faults>>
    BY DEF AddLink
  <1>3. PICK n \in Nat : n = Cardinality(links) + 1
    BY FS_CardinalityType DEF Store
  <1>4. req[r].who \in Admins
    BY <1>1 DEF Served, Sound
  <1>5. PICK l : l = [id |-> n, admin |-> req[r].who, con |-> req[r].con, read |-> req[r].msg]
    OBVIOUS
  <1>6. l \in Link /\ l.read <= serial
    BY <1>1, <1>4, <1>5, ServedRow DEF Link
  <1>7. links' = links \cup {l}
    BY <1>3, <1>5 DEF AddLink
  <1>8. links' \subseteq Link /\ IsFiniteSet(links') /\ \A k \in links' : k.read <= serial
    BY <1>6, <1>7, FS_AddElement DEF Store
  <1>9. CASE Goto(r, "page") /\ UNCHANGED <<told, marked>>
    <2>1. Store' /\ Grown
      BY <1>2, <1>8, <1>9, LinksWritten DEF Store
    <2> QED  BY <1>1, <1>9, <2>1, GotoServed
  <1>10. CASE /\ marked' = [marked EXCEPT ![req[r].who][req[r].con] = req[r].msg]
              /\ Tell(req[r].who, req[r].con, req[r].msg)
              /\ Respond(r)
    <2>1. /\ marked' \in [Viewers -> [Chats -> 0 .. MaxMessages]]
          /\ told' \in [Viewers -> [Chats -> 0 .. MaxMessages]]
      BY <1>1, <1>10, MarkedType
    <2>2. Store' /\ Grown
      BY <1>2, <1>8, <2>1, LinksWritten
    <2> QED  BY <1>10, <2>2, RespondServed
  <1> QED  BY <1>9, <1>10 DEF AddLink

LEMMA OpenPageKeeps ==
    ASSUME Store, Served, NEW r \in Requests, OpenPage(r)
    PROVE  Store' /\ Served'
  <1>1. Store' /\ Grown
    BY SameStore DEF OpenPage, rows, history
  <1> QED  BY <1>1, RespondServed DEF OpenPage

LEMMA SaveClosedKeeps ==
    ASSUME Store, Served, NEW r \in Requests, SaveClosed(r)
    PROVE  Store' /\ Served'
  <1> USE DEF history
  <1>1. req[r].pc = "close" /\ Respond(r)
    BY DEF SaveClosed
  <1>2. PICK c \in Chats : c = req[r].con /\ con[c] \in Con /\ con[c] # None
    BY <1>1, ServedRow, SupportsAssumption
  <1>3. PICK row : row = [con[c] EXCEPT !.status = "CLOSED"]
    OBVIOUS
  <1>4. row \in Con /\ row.read = con[c].read /\ row.last = con[c].last
    BY <1>1, <1>2, <1>3 DEF Con
  <1>5. row.last <= serial /\ row.read <= serial
    BY <1>1, <1>2, <1>4, ConRow
  <1>6. con' = [con EXCEPT ![c] = row]
    BY <1>2, <1>3 DEF SaveClosed, Store
  <1>7. ConKept
    BY <1>2, <1>4, <1>5, <1>6, RowWritten
  <1>8. PICK j : j = [con |-> c, msg |-> req[r].msg, todo |-> {}, stage |-> "owner"]
    OBVIOUS
  <1>9. j \in Job /\ j.msg <= serial /\ con'[j.con] # None
    BY <1>1, <1>2, <1>7, <1>8, ServedRow DEF Job, ConKept
  <1>10. jobs' = jobs \cup {j}
    BY <1>2, <1>8 DEF SaveClosed
  <1>11. jobs' \subseteq Job /\ \A k \in jobs' : k.msg <= serial /\ con'[k.con] # None
    BY <1>7, <1>9, <1>10 DEF Store, ConKept
  <1>12. UNCHANGED <<messages, links, serial, announced, told, broken, marked, overlapped, asked, faults>>
    BY DEF SaveClosed
  <1>13. Store' /\ Grown
    BY <1>7, <1>11, <1>12, ConsWritten DEF Store
  <1> QED  BY <1>1, <1>13, RespondServed

\* A callback tells a viewer and goes on or ends.
LEMMA ToldKeeps ==
    ASSUME Store, Served, NEW j \in jobs, NEW v \in Viewers, Tell(v, j.con, j.msg),
           NEW more \in SUBSET Job, jobs' = (jobs \ {j}) \cup more,
           \A k \in more : k.con = j.con /\ k.msg = j.msg,
           UNCHANGED <<con, messages, links, req, serial, announced, broken, marked, overlapped,
                       asked, faults>>
    PROVE  Store' /\ Served'
  <1>1. j \in Job /\ j.msg <= serial /\ con[j.con] # None
    BY DEF Store
  <1>2. j.con \in Chats /\ j.msg \in 0 .. MaxMessages
    BY <1>1, SupportsAssumption DEF Job, Store
  <1>3. told' \in [Viewers -> [Chats -> 0 .. MaxMessages]]
    BY <1>2, TableType DEF Tell, Store
  <1>4. jobs' \subseteq Job /\ \A k \in jobs' : k.msg <= serial /\ con[k.con] # None
    BY <1>1 DEF Store
  <1>5. Store' /\ Grown
    BY <1>3, <1>4 DEF Store, Grown
  <1> QED  BY <1>5, SameServed

LEMMA TellOwnerKeeps ==
    ASSUME Store, Served, NEW j \in jobs, TellOwner(j)
    PROVE  Store' /\ Served'
  <1> USE DEF rows, history
  <1>1. j \in Job /\ j.con \in Chats /\ con[j.con] \in Con
    BY DEF Store, Job
  <1>2. con[j.con].owner \in Viewers
    BY <1>1 DEF Con, Viewers
  <1>3. PICK admins \in SUBSET Admins : admins = {a \in Admins : LinksOf(a, j.con) # {}}
    OBVIOUS
  <1>4. PICK next : next = [j EXCEPT !.stage = "admins", !.todo = admins]
    OBVIOUS
  <1>5. next \in Job /\ next.con = j.con /\ next.msg = j.msg
    BY <1>1, <1>3, <1>4 DEF Job
  <1>6. PICK more : more = IF admins = {} THEN {} ELSE {next}
    OBVIOUS
  <1>7. more \in SUBSET Job /\ \A k \in more : k.con = j.con /\ k.msg = j.msg
    BY <1>5, <1>6
  <1>8. jobs' = (jobs \ {j}) \cup more
    BY <1>3, <1>4, <1>6 DEF TellOwner
  <1> QED  BY <1>2, <1>7, <1>8, ToldKeeps DEF TellOwner

LEMMA TellAdminKeeps ==
    ASSUME Store, Served, NEW j \in jobs, NEW a \in Admins, TellAdmin(j, a)
    PROVE  Store' /\ Served'
  <1> USE DEF rows, history
  <1>1. j \in Job
    BY DEF Store
  <1>2. PICK next : next = [j EXCEPT !.todo = @ \ {a}]
    OBVIOUS
  <1>3. next \in Job /\ next.con = j.con /\ next.msg = j.msg
    BY <1>1, <1>2 DEF Job
  <1>4. PICK more : more = IF j.todo = {a} THEN {} ELSE {next}
    OBVIOUS
  <1>5. more \in SUBSET Job /\ \A k \in more : k.con = j.con /\ k.msg = j.msg
    BY <1>3, <1>4
  <1>6. jobs' = (jobs \ {j}) \cup more
    BY <1>2, <1>4 DEF TellAdmin
  <1>7. a \in Viewers
    BY DEF Viewers
  <1> QED  BY <1>5, <1>6, <1>7, ToldKeeps DEF TellAdmin

LEMMA ScrollKeeps ==
    ASSUME Store, Served, Scroll
    PROVE  Store' /\ Served'
  <1>1. UNCHANGED <<con, messages, links, req, jobs, serial, announced, told, broken, marked,
                    overlapped, asked, faults>>
    BY DEF Scroll, ScrollBefore, ScrollAfter, rows, history
  <1> QED  BY <1>1, SameStore, SameServed

LEMMA StoredSerials ==
    ASSUME Store, Served, NEW R \in SUBSET Requests
    PROVE  Stored(R) \subseteq Serials
  BY ServedRow DEF Stored

LEMMA RequestFailsKeeps ==
    ASSUME Store, Served, NEW r \in Requests, RequestFails(r)
    PROVE  Store' /\ Served'
  <1> USE DEF rows
  <1>1. broken' \subseteq Serials
    BY StoredSerials DEF RequestFails, Store
  <1>2. faults' \in 0 .. MaxFaults
    BY SupportsAssumption DEF RequestFails, Store
  <1>3. Store'
    BY <1>1, <1>2 DEF RequestFails, Store
  <1>4. Grown
    BY DEF RequestFails, Store, Grown
  <1> QED  BY <1>3, <1>4, RespondServed DEF RequestFails

LEMMA RestartKeeps ==
    ASSUME Store, Served, Restart
    PROVE  Store' /\ Served'
  <1> USE DEF rows
  <1>1. broken' \subseteq Serials
    BY StoredSerials DEF Restart, Store
  <1>2. faults' \in 0 .. MaxFaults
    BY SupportsAssumption DEF Restart, Store
  <1>3. Store'
    BY <1>1, <1>2 DEF Restart, Store
  <1>4. Sound(Idle)'
    BY DEF Sound, Idle
  <1> QED  BY <1>3, <1>4 DEF Restart, Served, Sound

LEMMA StepKeeps ==
    ASSUME Store, Served, Next
    PROVE  Store' /\ Served'
  <1>1. ASSUME NEW r \in Requests, Serve(r) PROVE Store' /\ Served'
    BY <1>1, ReadChatKeeps, InsertMessageKeeps, CommitMessageKeeps, SetLastMessageKeeps, AnnounceKeeps,
       SaveReadKeeps, UpdateLinkKeeps, FindLinkKeeps, AddLinkKeeps, OpenPageKeeps, SaveClosedKeeps
    DEF Serve
  <1>2. CASE Callback
    BY <1>2, TellOwnerKeeps, TellAdminKeeps DEF Callback
  <1> QED  BY <1>1, <1>2, AskKeeps, RequestFailsKeeps, ScrollKeeps, RestartKeeps DEF Next

LEMMA StutterKeeps ==
    ASSUME Store, Served, UNCHANGED vars
    PROVE  Store' /\ Served'
  BY SameStore, SameServed DEF vars

LEMMA InitKeeps ==
    ASSUME Init
    PROVE  Store /\ Served
  <1>1. IsFiniteSet({})
    BY FS_EmptySet
  <1>2. /\ con \in [Chats -> Con \cup {None}] /\ \A c \in Chats : con[c] = None
        /\ told \in [Viewers -> [Chats -> 0 .. MaxMessages]]
        /\ marked \in [Viewers -> [Chats -> 0 .. MaxMessages]]
    BY SupportsAssumption DEF Init
  <1>3. /\ messages = {} /\ links = {} /\ jobs = {} /\ announced = {} /\ broken = {}
    BY DEF Init
  <1>4. /\ serial \in 0 .. MaxMessages /\ asked \in 0 .. MaxAsked /\ faults \in 0 .. MaxFaults
    BY SupportsAssumption DEF Init
  <1>5. overlapped \in BOOLEAN
    BY DEF Init
  <1>6. Store
    BY <1>1, <1>2, <1>3, <1>4, <1>5 DEF Store
  <1>7. Sound(Idle)
    BY DEF Sound, Idle
  <1> QED  BY <1>6, <1>7 DEF Init, Served, Sound

\* TypeCorrect: tables, requests and callbacks keep their shape, and what they name exists, whatever
\* requests overlap, fail or are cut off.
THEOREM TypeCorrect == Spec => []TypeOK
  <1>1. Init => IndInv
    BY InitKeeps, Split
  <1>2. IndInv /\ [Next]_vars => IndInv'
    <2>1. IndInv' <=> Store' /\ Served'
      BY Split, PTL
    <2> QED  BY <2>1, Split, StepKeeps, StutterKeeps
  <1>3. IndInv => TypeOK
    BY DEF IndInv
  <1> QED  BY <1>1, <1>2, <1>3, PTL DEF Spec

-----------------------------------------------------------------------------
(* Supports implements ChatDesk. *)

\* Permits that go, and nothing else, are a step of ChatDesk.
LEMMA Lapses ==
    ASSUME UNCHANGED <<ChatState, ChatPosts>>, ChatPermits' \subseteq ChatPermits
    PROVE  Desk!Next
  <1>1. PICK lost \in SUBSET ChatPermits : lost = ChatPermits \ ChatPermits'
    OBVIOUS
  <1>2. ChatPermits' = ChatPermits \ lost
    BY <1>1
  <1>3. Desk!Lapse(lost)
    BY <1>2 DEF Desk!Lapse
  <1> QED  BY <1>3 DEF Desk!Next

\* A request that does not begin to post adds no permit.
LEMMA FewerPermits ==
    ASSUME Served, NEW r \in Requests, NEW q, req' = [req EXCEPT ![r] = q],
           q.pc \notin Posting \/ (req[r].pc \in Posting /\ q.con = req[r].con /\ q.who = req[r].who)
    PROVE  ChatPermits' \subseteq ChatPermits
  <1>1. req'[r] = q /\ \A s \in Requests : s # r => req'[s] = req[s]
    BY DEF Served
  <1>2. ASSUME NEW s \in Requests, req'[s].pc \in Posting
        PROVE  req[s].pc \in Posting /\ PermitOf(s, req'[s]) = PermitOf(s, req[s])
    BY <1>1, <1>2 DEF PermitOf
  <1> QED  BY <1>2 DEF ChatPermits

\* A request that begins to post adds its permit.
LEMMA OnePermit ==
    ASSUME Served, NEW r \in Requests, NEW q, req' = [req EXCEPT ![r] = q],
           req[r].pc \notin Posting, q.pc \in Posting
    PROVE  ChatPermits' = ChatPermits \cup {PermitOf(r, q)}
  <1>1. req'[r] = q /\ \A s \in Requests : s # r => req'[s] = req[s]
    BY DEF Served
  <1> QED  BY <1>1 DEF ChatPermits

\* A request that has posted uses up its permit.
LEMMA PermitUsed ==
    ASSUME Served, NEW r \in Requests, NEW q, req' = [req EXCEPT ![r] = q],
           req[r].pc \in Posting, q.pc \notin Posting
    PROVE  ChatPermits' = ChatPermits \ {PermitOf(r, req[r])}
  <1>1. req'[r] = q /\ \A s \in Requests : s # r => req'[s] = req[s]
    BY DEF Served
  <1>2. \A s, t \in Requests : s # t => PermitOf(s, req[s]) # PermitOf(t, req[t])
    BY DEF PermitOf
  <1> QED  BY <1>1, <1>2 DEF ChatPermits

\* A row that keeps its status keeps the state of its chat.
LEMMA SameState ==
    ASSUME Store, NEW c \in Chats, con[c] # None, NEW row \in Con, row.status = con[c].status,
           con' = [con EXCEPT ![c] = row]
    PROVE  ChatState' = ChatState
  <1>1. con'[c] = row /\ row # None /\ \A d \in Chats : d # c => con'[d] = con[d]
    BY SupportsAssumption DEF Store
  <1> QED  BY <1>1 DEF ChatState, Active

LEMMA SameRows ==
    ASSUME UNCHANGED <<con, messages>>
    PROVE  UNCHANGED <<ChatState, ChatPosts>>
  BY DEF ChatState, ChatPosts, Active, MessagesOf

\* Where the tables stay, a step that does not begin to post lets permits lapse or none.
LEMMA QuietStep ==
    ASSUME Served, UNCHANGED <<con, messages>>, NEW r \in Requests, NEW q,
           req' = [req EXCEPT ![r] = q],
           q.pc \notin Posting \/ (req[r].pc \in Posting /\ q.con = req[r].con /\ q.who = req[r].who)
    PROVE  Desk!Next
  BY SameRows, FewerPermits, Lapses

LEMMA QuietRespond ==
    ASSUME Served, UNCHANGED <<con, messages>>, NEW r \in Requests, Respond(r)
    PROVE  Desk!Next
  <1>1. Idle.pc \notin Posting
    BY DEF Idle, Posting
  <1> QED  BY <1>1, QuietStep DEF Respond

LEMMA QuietGoto ==
    ASSUME Served, UNCHANGED <<con, messages>>, NEW r \in Requests, NEW pc, pc \notin Posting,
           req[r] \in Request, Goto(r, pc)
    PROVE  Desk!Next
  <1>1. PICK q : q = [req[r] EXCEPT !.pc = pc]
    OBVIOUS
  <1>2. q.pc = pc
    BY <1>1 DEF Request
  <1>3. req' = [req EXCEPT ![r] = q]
    BY <1>1 DEF Goto, Served
  <1> QED  BY <1>2, <1>3, QuietStep

\* Asking for anything but a new chat leaves the desk as it is.
LEMMA QuietBegin ==
    ASSUME Served, UNCHANGED <<con, messages>>, NEW r \in Requests, NEW q, BeginWith(r, q),
           q.pc \notin Posting
    PROVE  Desk!Next
  BY QuietStep DEF BeginWith

LEMMA AskSimulates ==
    ASSUME Store, Served, NEW r \in Requests, Ask(r)
    PROVE  Desk!Next
  <1> USE DEF rows
  <1>1. ASSUME NEW c \in Chats, NEW u \in Users, CreateConversation(r, u, c)
        PROVE  Desk!Next
    <2>1. PICK row : row = [owner |-> u, status |-> "ACTIVE", last |-> 0, read |-> 0]
      OBVIOUS
    <2>2. row # None /\ row.status = "ACTIVE"
      BY <2>1, SupportsAssumption DEF Con
    <2>3. con' = [con EXCEPT ![c] = row] /\ con[c] = None /\ UNCHANGED messages
      BY <1>1, <2>1 DEF CreateConversation
    <2>4. con'[c] = row /\ \A d \in Chats : d # c => con'[d] = con[d]
      BY <2>3 DEF Store
    <2>5. ChatState[c] = "none" /\ ChatState' = [ChatState EXCEPT ![c] = "open"]
      BY <2>2, <2>3, <2>4 DEF ChatState, Active
    <2>6. ChatPosts' = ChatPosts
      BY <2>3 DEF ChatPosts, MessagesOf
    <2>7. PICK q : q = [pc |-> "insert", who |-> u, con |-> c, msg |-> 0, link |-> 0, fresh |-> TRUE]
      OBVIOUS
    <2>8. req[r].pc = "idle" /\ req' = [req EXCEPT ![r] = q] /\ q.pc = "insert" /\ q.con = c /\ q.who = u
      BY <1>1, <2>7 DEF CreateConversation, Begin, BeginWith
    <2>9. PICK p : p = [holder |-> r, chat |-> c, by |-> u]
      OBVIOUS
    <2>10. ChatPermits' = ChatPermits \cup {p}
      BY <2>8, <2>9, OnePermit DEF Posting, PermitOf
    <2>11. p \in Desk!Permit /\ p.chat = c
      BY <2>9 DEF Desk!Permit, Viewers
    <2>12. Desk!Open(p)
      BY <2>5, <2>6, <2>10, <2>11 DEF Desk!Open
    <2> QED  BY <2>11, <2>12 DEF Desk!Next
  <1>2. ASSUME NEW q, BeginWith(r, q), q.pc \notin Posting, UNCHANGED <<con, messages>>
        PROVE  Desk!Next
    BY <1>2, QuietBegin
  <1>3. ASSUME NEW pc, NEW v, NEW c, NEW msg, NEW fresh, Begin(r, pc, v, c, msg, fresh),
               pc \notin Posting, UNCHANGED <<con, messages>>
        PROVE  Desk!Next
    BY <1>3, <1>2 DEF Begin
  <1>4. {"read", "mark", "find", "page", "close", "update"} \cap Posting = {}
    BY DEF Posting
  <1>5. ASSUME NEW c \in Chats, NEW a \in Admins, MarkAsReadByAdmin(r, a, c)
        PROVE  Desk!Next
    BY <1>2, <1>3, <1>4, <1>5 DEF MarkAsReadByAdmin
  <1>6. ASSUME NEW c \in Chats, NEW v,
               \/ SendMessage(r, v, c) \/ MarkAsReadByUser(r, v, c) \/ OpenByUser(r, v, c)
               \/ OpenByAdmin(r, v, c) \/ CloseChat(r, v, c)
        PROVE  Desk!Next
    BY <1>3, <1>4, <1>6 DEF SendMessage, MarkAsReadByUser, OpenByUser, OpenByAdmin, CloseChat
  <1> QED  BY <1>1, <1>5, <1>6 DEF Ask

\* A chat found open lets the request in.
LEMMA ReadChatSimulates ==
    ASSUME Store, Served, NEW r \in Requests, ReadChat(r)
    PROVE  Desk!Next
  <1>1. req[r].pc = "read" /\ UNCHANGED <<con, messages>>
    BY DEF ReadChat, rows
  <1>2. PICK old \in Request : old = req[r]
    BY <1>1, ServedRow
  <1>3. old.con \in Chats /\ old.who \in Viewers /\ con[old.con] # None
    BY <1>1, <1>2, ServedRow, SupportsAssumption
  <1>4. CASE Respond(r)
    BY <1>1, <1>4, QuietRespond
  <1>5. CASE Active(old.con) /\ Goto(r, "insert")
    <2>1. PICK q : q = [old EXCEPT !.pc = "insert"]
      OBVIOUS
    <2>2. q.pc = "insert" /\ q.con = old.con /\ q.who = old.who
      BY <2>1 DEF Request
    <2>3. req' = [req EXCEPT ![r] = q]
      BY <1>2, <1>5, <2>1 DEF Goto, Served
    <2>4. PICK p : p = [holder |-> r, chat |-> old.con, by |-> old.who]
      OBVIOUS
    <2>5. ChatPermits' = ChatPermits \cup {p}
      BY <1>1, <2>2, <2>3, <2>4, OnePermit DEF Posting, PermitOf
    <2>6. p \in Desk!Permit /\ p.chat = old.con
      BY <1>3, <2>4 DEF Desk!Permit
    <2>7. ChatState[p.chat] = "open"
      BY <1>3, <1>5, <2>6 DEF ChatState
    <2>8. Desk!Admit(p)
      BY <1>1, <2>5, <2>6, <2>7, SameRows DEF Desk!Admit
    <2> QED  BY <2>6, <2>8 DEF Desk!Next
  <1> QED  BY <1>2, <1>4, <1>5 DEF ReadChat

\* The COMMIT of a message uses the permit of its request.
LEMMA CommitSimulates ==
    ASSUME Store, Served, NEW r \in Requests, CommitMessage(r)
    PROVE  Desk!Next
  <1>1. req[r].pc = "commit" /\ Goto(r, "last") /\ con' = con
    BY DEF CommitMessage
  <1>2. PICK old \in Request : old = req[r]
    BY <1>1, ServedRow
  <1>3. old.con \in Chats /\ old.who \in Viewers /\ old.msg \in Serials
    BY <1>1, <1>2, ServedRow
  <1>4. PICK late, beside, m :
          /\ m = [serial |-> req[r].msg, con |-> req[r].con, by |-> req[r].who,
                  late |-> late, beside |-> beside]
          /\ messages' = messages \cup {m}
    BY DEF CommitMessage
  <1>5. PICK c \in Chats : c = old.con
    BY <1>3
  <1>6. PICK post : post = [post |-> old.msg, by |-> old.who]
    OBVIOUS
  <1>7. PostOf(m) = post
    BY <1>2, <1>4, <1>6 DEF PostOf
  <1>8. ChatPosts' = [ChatPosts EXCEPT ![c] = @ \cup {post}]
    <2>1. ASSUME NEW d \in Chats
          PROVE  MessagesOf(d)' = IF d = c THEN MessagesOf(d) \cup {m} ELSE MessagesOf(d)
      BY <1>2, <1>4, <1>5 DEF MessagesOf
    <2> QED  BY <1>7, <2>1 DEF ChatPosts
  <1>9. PICK q : q = [old EXCEPT !.pc = "last"]
    OBVIOUS
  <1>10. q.pc = "last" /\ req' = [req EXCEPT ![r] = q]
    BY <1>1, <1>2, <1>9 DEF Goto, Served, Request
  <1>11. PICK p : p = [holder |-> r, chat |-> c, by |-> old.who]
    OBVIOUS
  <1>12. PermitOf(r, req[r]) = p
    BY <1>2, <1>5, <1>11 DEF PermitOf
  <1>13. p \in ChatPermits /\ ChatPermits' = ChatPermits \ {p}
    BY <1>1, <1>10, <1>12, PermitUsed DEF Posting, ChatPermits
  <1>14. ChatState' = ChatState
    BY <1>1 DEF ChatState, Active
  <1>15. p.chat = c /\ p.by = old.who
    BY <1>11
  <1>16. Desk!Write(p, old.msg)
    BY <1>6, <1>8, <1>13, <1>14, <1>15 DEF Desk!Write
  <1> QED  BY <1>3, <1>13, <1>16 DEF Desk!Next

LEMMA SaveClosedSimulates ==
    ASSUME Store, Served, NEW r \in Requests, SaveClosed(r)
    PROVE  Desk!Next
  <1> USE DEF history
  <1>1. req[r].pc = "close" /\ Respond(r) /\ messages' = messages
    BY DEF SaveClosed
  <1>2. PICK c \in Chats : c = req[r].con /\ con[c] \in Con /\ con[c] # None
    BY <1>1, ServedRow, SupportsAssumption
  <1>3. PICK row : row = [con[c] EXCEPT !.status = "CLOSED"]
    OBVIOUS
  <1>4. row \in Con /\ row.status = "CLOSED" /\ row # None
    BY <1>2, <1>3, SupportsAssumption DEF Con
  <1>5. con' = [con EXCEPT ![c] = row]
    BY <1>2, <1>3 DEF SaveClosed, Store
  <1>6. ChatPosts' = ChatPosts
    BY <1>1 DEF ChatPosts, MessagesOf
  <1>7. Idle.pc \notin Posting /\ req[r].pc \notin Posting
    BY <1>1 DEF Idle, Posting
  <1>8. ChatPermits' \subseteq ChatPermits
    BY <1>1, <1>7, FewerPermits DEF Respond
  <1>9. CASE con[c].status = "CLOSED"
    <2>1. ChatState' = ChatState
      BY <1>2, <1>4, <1>5, <1>9, SameState
    <2> QED  BY <1>6, <1>8, <2>1, Lapses
  <1>10. CASE con[c].status # "CLOSED"
    <2>1. con[c].status = "ACTIVE"
      BY <1>2, <1>10 DEF Con
    <2>2. con'[c] = row /\ \A d \in Chats : d # c => con'[d] = con[d]
      BY <1>5 DEF Store
    <2>3. ChatState[c] = "open" /\ ChatState' = [ChatState EXCEPT ![c] = "closed"]
      BY <1>2, <1>4, <2>1, <2>2 DEF ChatState, Active
    <2>4. ChatPermits' = ChatPermits
      <3>1. req'[r] = Idle /\ \A s \in Requests : s # r => req'[s] = req[s]
        BY <1>1 DEF Respond, Served
      <3> QED  BY <1>7, <3>1 DEF ChatPermits
    <2>5. Desk!Close(c)
      BY <1>6, <2>3, <2>4 DEF Desk!Close
    <2> QED  BY <2>5 DEF Desk!Next
  <1> QED  BY <1>9, <1>10

LEMMA InsertSimulates ==
    ASSUME Store, Served, NEW r \in Requests, InsertMessage(r)
    PROVE  Desk!Next
  <1>1. req[r].pc = "insert" /\ UNCHANGED <<con, messages>>
    BY DEF InsertMessage, rows
  <1>2. PICK old \in Request : old = req[r]
    BY <1>1, ServedRow
  <1>3. PICK q : q = [old EXCEPT !.pc = "commit", !.msg = serial + 1]
    OBVIOUS
  <1>4. q.con = old.con /\ q.who = old.who
    BY <1>3 DEF Request
  <1>5. req' = [req EXCEPT ![r] = q]
    BY <1>2, <1>3 DEF InsertMessage, Served
  <1> QED  BY <1>1, <1>2, <1>4, <1>5, QuietStep DEF Posting

\* The last message and a cursor are no part of the desk.
LEMMA SetLastMessageSimulates ==
    ASSUME Store, Served, NEW r \in Requests, SetLastMessage(r)
    PROVE  Desk!Next
  <1>1. req[r].pc = "last" /\ Goto(r, "announce") /\ messages' = messages
    BY DEF SetLastMessage
  <1>2. PICK old \in Request : old = req[r]
    BY <1>1, ServedRow
  <1>3. PICK c \in Chats : c = old.con /\ con[c] \in Con /\ con[c] # None
    BY <1>1, <1>2, ServedRow, SupportsAssumption
  <1>4. PICK row : row = [con[c] EXCEPT !.last = old.msg]
    OBVIOUS
  <1>5. old.msg \in Nat
    BY DEF Request
  <1>6. row \in Con /\ row.status = con[c].status
    BY <1>3, <1>4, <1>5 DEF Con
  <1>7. con' = [con EXCEPT ![c] = row]
    BY <1>2, <1>3, <1>4 DEF SetLastMessage, Store
  <1>8. UNCHANGED <<ChatState, ChatPosts>>
    BY <1>1, <1>3, <1>6, <1>7, SameState DEF ChatPosts, MessagesOf
  <1>9. PICK q : q = [old EXCEPT !.pc = "announce"]
    OBVIOUS
  <1>10. q.pc = "announce" /\ req' = [req EXCEPT ![r] = q]
    BY <1>1, <1>2, <1>9 DEF Goto, Served, Request
  <1>11. ChatPermits' \subseteq ChatPermits
    BY <1>10, FewerPermits DEF Posting
  <1> QED  BY <1>8, <1>11, Lapses

LEMMA SaveReadSimulates ==
    ASSUME Store, Served, NEW r \in Requests, SaveRead(r)
    PROVE  Desk!Next
  <1>1. req[r].pc = "mark" /\ Respond(r) /\ messages' = messages
    BY DEF SaveRead
  <1>2. PICK old \in Request : old = req[r]
    BY <1>1, ServedRow
  <1>3. PICK c \in Chats : c = old.con /\ con[c] \in Con /\ con[c] # None
    BY <1>1, <1>2, ServedRow, SupportsAssumption
  <1>4. PICK row : row = [con[c] EXCEPT !.read = old.msg]
    OBVIOUS
  <1>5. old.msg \in Nat
    BY DEF Request
  <1>6. row \in Con /\ row.status = con[c].status
    BY <1>3, <1>4, <1>5 DEF Con
  <1>7. con' = [con EXCEPT ![c] = row]
    BY <1>2, <1>3, <1>4 DEF SaveRead, Store
  <1>8. UNCHANGED <<ChatState, ChatPosts>>
    BY <1>1, <1>3, <1>6, <1>7, SameState DEF ChatPosts, MessagesOf
  <1>9. ChatPermits' \subseteq ChatPermits
    BY <1>1, FewerPermits DEF Respond, Idle, Posting
  <1> QED  BY <1>8, <1>9, Lapses

\* Steps that write neither chats nor messages and post nothing.
LEMMA QuietServes ==
    ASSUME Store, Served, NEW r \in Requests,
           Announce(r) \/ UpdateLink(r) \/ FindLink(r) \/ AddLink(r) \/ OpenPage(r) \/ RequestFails(r)
    PROVE  Desk!Next
  <1> USE DEF rows
  <1>1. UNCHANGED <<con, messages>>
    BY DEF Announce, UpdateLink, FindLink, AddLink, OpenPage, RequestFails
  <1>2. PICK old : old = req[r]
    OBVIOUS
  <1>3. old.pc # "idle"
    BY <1>2 DEF Announce, UpdateLink, FindLink, AddLink, OpenPage, RequestFails
  <1>4. old \in Request
    BY <1>2, <1>3, ServedRow
  <1>5. CASE Respond(r)
    BY <1>1, <1>5, QuietRespond
  <1>6. ASSUME NEW pc \in {"add", "page"}, Goto(r, pc)
        PROVE  Desk!Next
    BY <1>1, <1>2, <1>4, <1>6, QuietGoto DEF Posting
  <1>7. ASSUME NEW msg, req' = [req EXCEPT ![r].pc = "page", ![r].msg = msg]
        PROVE  Desk!Next
    <2>1. PICK q : q = [old EXCEPT !.pc = "page", !.msg = msg]
      OBVIOUS
    <2>2. q.pc = "page"
      BY <1>4, <2>1 DEF Request
    <2>3. req' = [req EXCEPT ![r] = q]
      BY <1>2, <1>7, <2>1 DEF Served
    <2> QED  BY <1>1, <2>2, <2>3, QuietStep DEF Posting
  <1>8. CASE FindLink(r)
    BY <1>5, <1>6, <1>7, <1>8 DEF FindLink
  <1> QED  BY <1>5, <1>6, <1>8 DEF Announce, UpdateLink, AddLink, OpenPage, RequestFails

LEMMA RestartSimulates ==
    ASSUME Restart
    PROVE  Desk!Next
  <1>1. ChatPermits' = {}
    BY DEF Restart, ChatPermits, Idle, Posting
  <1>2. UNCHANGED <<ChatState, ChatPosts>>
    BY SameRows DEF Restart, rows
  <1> QED  BY <1>1, <1>2, Lapses

\* Events and pages are no part of the desk.
LEMMA SameDesk ==
    ASSUME UNCHANGED <<con, messages, req>>
    PROVE  UNCHANGED Desk!vars
  BY SameRows DEF Desk!vars, ChatPermits

LEMMA StepSimulates ==
    ASSUME Store, Served, Next
    PROVE  [Desk!Next]_(Desk!vars)
  <1>1. ASSUME NEW r \in Requests, Serve(r) PROVE Desk!Next
    BY <1>1, ReadChatSimulates, InsertSimulates, CommitSimulates, SetLastMessageSimulates,
       SaveReadSimulates, SaveClosedSimulates, QuietServes DEF Serve
  <1>2. ASSUME NEW r \in Requests, RequestFails(r) PROVE Desk!Next
    BY <1>2, QuietServes
  <1>3. CASE Callback \/ Scroll
    <2>1. UNCHANGED <<con, messages, req>>
      BY <1>3 DEF Callback, Scroll, TellOwner, TellAdmin, ScrollBefore, ScrollAfter, rows
    <2> QED  BY <2>1, SameDesk
  <1> QED  BY <1>1, <1>2, <1>3, AskSimulates, RestartSimulates DEF Next

\* Implements: a support chat is what ChatDesk promises. Whatever requests overlap, fail or are cut
\* off, only those who found a chat open, or opened it, post in it, once for each request; nothing
\* posted is lost, and a closed chat stays closed.
THEOREM Implements == Spec => DeskSpec
  <1>1. Init => Desk!Init
    BY DEF Init, Desk!Init, ChatState, ChatPosts, ChatPermits, MessagesOf, Idle, Posting
  <1>2. Init => IndInv
    BY InitKeeps, Split
  <1>3. IndInv /\ [Next]_vars => IndInv'
    <2>1. IndInv' <=> Store' /\ Served'
      BY Split, PTL
    <2> QED  BY <2>1, Split, StepKeeps, StutterKeeps
  <1>4. IndInv /\ [Next]_vars => [Desk!Next]_(Desk!vars)
    BY Split, StepSimulates, SameDesk DEF vars
  <1> QED  BY <1>1, <1>2, <1>3, <1>4, PTL DEF Spec, DeskSpec, Desk!Spec

-----------------------------------------------------------------------------
\* What every step of ChatDesk keeps.
LEMMA DeskKept ==
    ASSUME Desk!Next
    PROVE  Desk!Kept
  <1>1. DOMAIN ChatState = Chats /\ DOMAIN ChatPosts = Chats
    BY DEF ChatState, ChatPosts
  <1>2. ChatState \in [Chats -> {"none", "open", "closed"}] /\ ChatPosts = [c \in Chats |-> ChatPosts[c]]
    BY DEF ChatState, ChatPosts
  <1>3. ASSUME NEW p \in Desk!Permit, Desk!Open(p) \/ Desk!Admit(p)
        PROVE  Desk!Kept
    <2>1. p.chat \in Chats
      BY DEF Desk!Permit
    <2>2. ChatState[p.chat] # "closed" /\ ChatPosts' = ChatPosts /\ ChatPermits' = ChatPermits \cup {p}
      BY <1>3 DEF Desk!Open, Desk!Admit
    <2>3. \A c \in Chats : ChatState[c] = "closed" => ChatState'[c] = "closed"
      BY <1>2, <1>3, <2>1 DEF Desk!Open, Desk!Admit
    <2> QED  BY <2>2, <2>3 DEF Desk!Kept
  <1>4. ASSUME NEW p \in ChatPermits, NEW m \in Serials, Desk!Write(p, m)
        PROVE  Desk!Kept
    <2>1. /\ ChatPermits' = ChatPermits \ {p} /\ ChatState' = ChatState
          /\ ChatPosts' = [ChatPosts EXCEPT ![p.chat] = @ \cup {[post |-> m, by |-> p.by]}]
      BY <1>4 DEF Desk!Write
    <2>2. \A c \in Chats : /\ ChatPosts[c] \subseteq ChatPosts'[c]
                           /\ ChatPosts'[c] # ChatPosts[c] => p.chat = c
      BY <1>2, <2>1
    <2> QED  BY <1>4, <2>1, <2>2 DEF Desk!Kept
  <1>5. ASSUME NEW lost \in SUBSET ChatPermits, Desk!Lapse(lost)
        PROVE  Desk!Kept
    BY <1>5 DEF Desk!Lapse, Desk!Kept
  <1>6. ASSUME NEW c \in Chats, Desk!Close(c)
        PROVE  Desk!Kept
    BY <1>2, <1>6 DEF Desk!Close, Desk!Kept
  <1> QED  BY <1>3, <1>4, <1>5, <1>6 DEF Desk!Next

\* NothingLost: no message that was posted disappears, a closed chat stays closed, and a message that
\* still appears in it comes from a request that had found the chat open: sendMessageGeneric checks
\* before it writes, and closeChat waits for nobody.
THEOREM NothingLost == Spec => [][Desk!Kept]_(Desk!vars)
  <1>1. [Desk!Next]_(Desk!vars) => [Desk!Kept]_(Desk!vars)
    BY DeskKept
  <1> QED  BY <1>1, Implements, PTL DEF DeskSpec, Desk!Spec

-----------------------------------------------------------------------------
(* The last message of a chat lags behind, but not for long. *)

\* A stored message was numbered, and its chat exists.
RowsNumbered ==
    \A m \in messages : m.serial # 0 /\ m.serial <= serial /\ con[m.con] # None

\* The number a request has taken is no other request's and, until its COMMIT, no stored message's.
NumbersApart ==
    \A r \in Requests : req[r].pc = "commit" =>
        /\ \A m \in messages : m.serial # req[r].msg
        /\ \A q \in Requests \ {r} : req[q].pc = "commit" => req[q].msg # req[r].msg

\* A message was stored beside every older one whose request is still to name it the last one.
SeenBeside ==
    \A r \in Requests : req[r].pc \in {"commit", "last"} =>
        \A m \in MessagesOf(req[r].con) : m.serial > req[r].msg => req[r].msg \in m.beside

OnItsWay(m) == \E r \in Requests : req[r].pc = "last" /\ req[r].con = m.con /\ req[r].msg = m.serial

\* Why a message is newer than the last one of its chat.
LastNamed ==
    \A m \in messages : m.serial > con[m.con].last =>
        m.serial \in broken \/ con[m.con].last \in m.beside \/ OnItsWay(m)

LagInv == RowsNumbered /\ NumbersApart /\ SeenBeside /\ LastNamed

SameLast ==
    /\ serial' = serial
    /\ messages' = messages
    /\ broken \subseteq broken'
    /\ \A c \in Chats : con[c] # None => con'[c] # None /\ con'[c].last = con[c].last

\* A step that stores nothing: every request goes on as it was, or is none of those that write, and the
\* message of one that stops is broken off.
Unstored ==
    /\ SameLast
    /\ \A r \in Requests :
         \/ req'[r] = req[r]
         \/ /\ req'[r].pc \notin {"commit", "last"}
            /\ req[r].pc = "last" => req[r].msg \in broken'

LEMMA MessageRow ==
    ASSUME Store, RowsNumbered, NEW m \in messages
    PROVE  /\ m \in Message /\ m.con \in Chats /\ m.serial \in Serials /\ m.serial <= serial
           /\ con[m.con] # None /\ con[m.con].last \in Nat /\ m \in MessagesOf(m.con)
  <1>1. m \in Message /\ m.serial # 0 /\ m.serial <= serial /\ con[m.con] # None
    BY DEF Store, RowsNumbered
  <1>2. m.con \in Chats /\ m.serial \in Nat
    BY <1>1 DEF Message
  <1>3. serial \in Nat /\ serial <= MaxMessages /\ MaxMessages \in Nat
    BY SupportsAssumption DEF Store
  <1>4. m.serial \in Serials
    BY <1>1, <1>2, <1>3 DEF Serials
  <1>5. m \in MessagesOf(m.con)
    BY DEF MessagesOf
  <1> QED  BY <1>1, <1>2, <1>4, <1>5, ConRow

LEMMA UnstoredLag ==
    ASSUME Store, Served, LagInv, Unstored
    PROVE  LagInv'
  <1>1. ASSUME NEW m \in messages
        PROVE  /\ m.serial # 0 /\ m.serial <= serial' /\ con'[m.con] # None
               /\ con'[m.con].last = con[m.con].last
    <2>1. m.con \in Chats /\ con[m.con] # None /\ m.serial <= serial /\ m.serial \in Nat /\ m.serial # 0
      BY MessageRow DEF LagInv, RowsNumbered, Message
    <2> QED  BY <2>1 DEF SameLast, Unstored
  <1>2. RowsNumbered'
    BY <1>1 DEF RowsNumbered, Unstored, SameLast
  <1>3. \A r \in Requests : req'[r].pc \in {"commit", "last"} => req'[r] = req[r]
    BY DEF Unstored
  <1>4. NumbersApart'
    BY <1>3 DEF LagInv, NumbersApart, Unstored, SameLast
  <1>5. SeenBeside'
    BY <1>3 DEF LagInv, SeenBeside, Unstored, SameLast, MessagesOf
  <1>6. ASSUME NEW m \in messages, OnItsWay(m)
        PROVE  OnItsWay(m)' \/ m.serial \in broken'
    <2>1. PICK r \in Requests : req[r].pc = "last" /\ req[r].con = m.con /\ req[r].msg = m.serial
      BY <1>6 DEF OnItsWay
    <2>2. CASE req'[r] = req[r]
      BY <2>1, <2>2 DEF OnItsWay
    <2>3. CASE req[r].msg \in broken'
      BY <2>1, <2>3
    <2> QED  BY <2>1, <2>2, <2>3 DEF Unstored
  <1>7. LastNamed'
    BY <1>1, <1>6 DEF LagInv, LastNamed, Unstored, SameLast
  <1> QED  BY <1>2, <1>4, <1>5, <1>7 DEF LagInv

\* One request goes on, and no message is stored.
LEMMA GoesUnstored ==
    ASSUME Served, NEW r \in Requests, NEW q, req' = [req EXCEPT ![r] = q],
           q.pc \notin {"commit", "last"}, req[r].pc = "last" => req[r].msg \in broken',
           SameLast
    PROVE  Unstored
  <1>1. \A s \in Requests : req'[s] = IF s = r THEN q ELSE req[s]
    BY DEF Served
  <1> QED  BY <1>1 DEF Unstored

LEMMA RespondUnstored ==
    ASSUME Served, NEW r \in Requests, Respond(r), req[r].pc = "last" => req[r].msg \in broken',
           SameLast
    PROVE  Unstored
  <1>1. Idle.pc \notin {"commit", "last"}
    BY DEF Idle
  <1> QED  BY <1>1, GoesUnstored DEF Respond

LEMMA GotoUnstored ==
    ASSUME Served, NEW r \in Requests, req[r] \in Request, req[r].pc # "last",
           NEW pc \in {"insert", "announce", "add", "page"}, Goto(r, pc),
           SameLast
    PROVE  Unstored
  <1>1. PICK q : q = [req[r] EXCEPT !.pc = pc]
    OBVIOUS
  <1>2. q.pc \notin {"commit", "last"}
    BY <1>1 DEF Request
  <1>3. req' = [req EXCEPT ![r] = q]
    BY <1>1 DEF Goto, Served
  <1> QED  BY <1>2, <1>3, GoesUnstored

LEMMA BeginUnstored ==
    ASSUME Served, NEW r \in Requests, NEW q, BeginWith(r, q), q.pc \notin {"commit", "last"},
           SameLast
    PROVE  Unstored
  BY GoesUnstored DEF BeginWith

LEMMA AskUnstored ==
    ASSUME Store, Served, NEW r \in Requests, Ask(r)
    PROVE  Unstored
  <1> USE DEF rows
  <1>1. ASSUME NEW c \in Chats, NEW u \in Users, CreateConversation(r, u, c)
        PROVE  Unstored
    <2>1. PICK row : row = [owner |-> u, status |-> "ACTIVE", last |-> 0, read |-> 0]
      OBVIOUS
    <2>2. con' = [con EXCEPT ![c] = row] /\ con[c] = None /\ messages' = messages /\ broken' = broken
      BY <1>1, <2>1 DEF CreateConversation
    <2>3. SameLast
      BY <1>1, <2>2 DEF Store, SameLast, CreateConversation
    <2>4. PICK q : q = [pc |-> "insert", who |-> u, con |-> c, msg |-> 0, link |-> 0, fresh |-> TRUE]
      OBVIOUS
    <2>5. BeginWith(r, q) /\ q.pc = "insert"
      BY <1>1, <2>4 DEF CreateConversation, Begin
    <2> QED  BY <2>2, <2>3, <2>5, BeginUnstored
  <1>2. ASSUME NEW q, BeginWith(r, q), q.pc \notin {"commit", "last"}, UNCHANGED <<con, messages, broken, serial>>
        PROVE  Unstored
    <2>1. SameLast
      BY <1>2 DEF SameLast
    <2> QED  BY <1>2, <2>1, BeginUnstored
  <1>3. ASSUME NEW pc, NEW v, NEW c, NEW msg, NEW fresh, Begin(r, pc, v, c, msg, fresh),
               pc \notin {"commit", "last"}, UNCHANGED <<con, messages, broken, serial>>
        PROVE  Unstored
    BY <1>3, <1>2 DEF Begin
  <1>6. {"read", "mark", "find", "page", "close", "update"} \cap {"commit", "last"} = {}
    OBVIOUS
  <1>4. ASSUME NEW c \in Chats, NEW a \in Admins, MarkAsReadByAdmin(r, a, c)
        PROVE  Unstored
    <2>1. UNCHANGED <<con, messages, broken, serial>>
      BY <1>4 DEF MarkAsReadByAdmin
    <2> QED  BY <1>2, <1>3, <1>4, <1>6, <2>1 DEF MarkAsReadByAdmin
  <1>5. ASSUME NEW c \in Chats, NEW v,
               \/ SendMessage(r, v, c) \/ MarkAsReadByUser(r, v, c) \/ OpenByUser(r, v, c)
               \/ OpenByAdmin(r, v, c) \/ CloseChat(r, v, c)
        PROVE  Unstored
    <2>1. UNCHANGED <<con, messages, broken, serial>>
      BY <1>5 DEF SendMessage, MarkAsReadByUser, OpenByUser, OpenByAdmin, CloseChat
    <2> QED
      BY <1>3, <1>5, <1>6, <2>1 DEF SendMessage, MarkAsReadByUser, OpenByUser, OpenByAdmin, CloseChat
  <1> QED  BY <1>1, <1>4, <1>5 DEF Ask

\* A cursor or the status of a chat is written, and its last message stays.
LEMMA RowUnstored ==
    ASSUME Store, NEW c \in Chats, NEW row \in Con, row.last = con[c].last,
           con' = [con EXCEPT ![c] = row], UNCHANGED <<serial, messages, broken>>
    PROVE  SameLast
  BY SupportsAssumption DEF Store, SameLast

LEMMA ServeUnstored ==
    ASSUME Store, Served, NEW r \in Requests,
           \/ ReadChat(r) \/ Announce(r) \/ SaveRead(r) \/ UpdateLink(r) \/ FindLink(r) \/ AddLink(r)
           \/ OpenPage(r) \/ SaveClosed(r) \/ RequestFails(r)
    PROVE  Unstored
  <1> USE DEF rows, history
  <1>1. PICK old : old = req[r]
    OBVIOUS
  <1>2. old.pc # "idle"
    BY <1>1 DEF ReadChat, Announce, SaveRead, UpdateLink, FindLink, AddLink, OpenPage, SaveClosed,
                RequestFails
  <1>3. old \in Request /\ old.con \in Chats /\ con[old.con] \in Con
    BY <1>1, <1>2, ServedRow
  <1>11. ASSUME \/ ReadChat(r) \/ Announce(r) \/ UpdateLink(r) \/ FindLink(r) \/ AddLink(r)
                \/ OpenPage(r) \/ RequestFails(r)
         PROVE  SameLast
    BY <1>11 DEF SameLast, ReadChat, Announce, UpdateLink, FindLink, AddLink, OpenPage, RequestFails
  <1>4. CASE ReadChat(r) \/ OpenPage(r)
    BY <1>1, <1>3, <1>4, <1>11, GotoUnstored, RespondUnstored DEF ReadChat, OpenPage
  <1>5. CASE Announce(r)
    BY <1>5, <1>11, RespondUnstored DEF Announce
  <1>6. CASE UpdateLink(r) \/ AddLink(r)
    BY <1>1, <1>3, <1>6, <1>11, GotoUnstored, RespondUnstored DEF UpdateLink, AddLink
  <1>7. CASE RequestFails(r)
    <2>1. req[r].pc = "last" => req[r].msg \in broken'
      BY <1>7 DEF RequestFails, Stored
    <2> QED  BY <1>7, <1>11, <2>1, RespondUnstored DEF RequestFails
  <1>8. CASE FindLink(r)
    <2>1. ASSUME NEW msg, req' = [req EXCEPT ![r].pc = "page", ![r].msg = msg]
          PROVE  Unstored
      <3>1. PICK q : q = [old EXCEPT !.pc = "page", !.msg = msg]
        OBVIOUS
      <3>2. q.pc = "page"
        BY <1>3, <3>1 DEF Request
      <3>3. req' = [req EXCEPT ![r] = q]
        BY <1>1, <2>1, <3>1 DEF Served
      <3> QED  BY <1>8, <1>11, <3>2, <3>3, GoesUnstored DEF FindLink
    <2> QED  BY <1>1, <1>3, <1>8, <1>11, <2>1, GotoUnstored, RespondUnstored DEF FindLink
  <1>9. CASE SaveRead(r)
    <2>1. PICK row : row = [con[old.con] EXCEPT !.read = old.msg]
      OBVIOUS
    <2>2. row \in Con /\ row.last = con[old.con].last
      BY <1>3, <2>1 DEF Con, Request
    <2>3. con' = [con EXCEPT ![old.con] = row]
      BY <1>1, <1>3, <1>9, <2>1 DEF SaveRead, Store
    <2>4. SameLast
      BY <1>3, <1>9, <2>2, <2>3, RowUnstored DEF SaveRead
    <2> QED  BY <1>9, <2>4, RespondUnstored DEF SaveRead
  <1>10. CASE SaveClosed(r)
    <2>1. PICK row : row = [con[old.con] EXCEPT !.status = "CLOSED"]
      OBVIOUS
    <2>2. row \in Con /\ row.last = con[old.con].last
      BY <1>3, <2>1 DEF Con, Request
    <2>3. con' = [con EXCEPT ![old.con] = row]
      BY <1>1, <1>3, <1>10, <2>1 DEF SaveClosed, Store
    <2>4. SameLast
      BY <1>3, <1>10, <2>2, <2>3, RowUnstored DEF SaveClosed
    <2> QED  BY <1>10, <2>4, RespondUnstored DEF SaveClosed
  <1> QED  BY <1>4, <1>5, <1>6, <1>7, <1>8, <1>9, <1>10

LEMMA OthersUnstored ==
    ASSUME Store, Served, Callback \/ Scroll \/ Restart \/ UNCHANGED vars
    PROVE  Unstored
  <1> USE DEF rows, history
  <1>1. CASE Restart
    BY <1>1 DEF Restart, Unstored, SameLast, Stored, Idle
  <1>2. CASE Callback \/ Scroll \/ UNCHANGED vars
    <2>1. UNCHANGED <<con, messages, req, broken, serial>>
      BY <1>2 DEF Callback, Scroll, TellOwner, TellAdmin, ScrollBefore, ScrollAfter, vars
    <2> QED  BY <2>1 DEF Unstored, SameLast
  <1> QED  BY <1>1, <1>2

LEMMA InsertLag ==
    ASSUME Store, Served, LagInv, NEW r \in Requests, InsertMessage(r)
    PROVE  LagInv'
  <1> USE DEF rows, history
  <1>1. PICK n \in Nat : n = serial + 1
    BY DEF Store
  <1>2. PICK old \in Request : old = req[r]
    BY ServedRow DEF InsertMessage
  <1>3. PICK new : new = [old EXCEPT !.pc = "commit", !.msg = n]
    OBVIOUS
  <1>4. new.pc = "commit" /\ new.msg = n /\ new.con = old.con
    BY <1>3 DEF Request
  <1>5. req' = [req EXCEPT ![r] = new]
    BY <1>1, <1>2, <1>3 DEF InsertMessage, Served
  <1>6. \A s \in Requests : req'[s] = IF s = r THEN new ELSE req[s]
    BY <1>5 DEF Served
  <1>7. UNCHANGED <<con, messages, broken>> /\ serial' = n /\ old.pc = "insert"
    BY <1>1, <1>2 DEF InsertMessage
  <1>8. \A m \in messages : m.serial \in Nat /\ m.serial < n /\ m.serial <= serial
    BY <1>1, MessageRow DEF LagInv, Serials, Store
  <1>9. \A s \in Requests : req[s].pc = "commit" => req[s].msg \in Nat /\ req[s].msg < n
    BY <1>1, ServedRow DEF Store
  <1>10. RowsNumbered'
    BY <1>7, <1>8 DEF RowsNumbered, LagInv
  <1>11. NumbersApart'
    BY <1>4, <1>6, <1>7, <1>8, <1>9 DEF NumbersApart, LagInv
  <1>12. SeenBeside'
    <2>1. \A m \in messages : ~ (m.serial > n)
      BY <1>8
    <2> QED  BY <1>4, <1>6, <1>7, <2>1 DEF SeenBeside, LagInv, MessagesOf
  <1>13. \A m \in messages : OnItsWay(m) => OnItsWay(m)'
    <2>1. \A s \in Requests : req[s].pc = "last" => req'[s] = req[s]
      BY <1>2, <1>6, <1>7
    <2> QED  BY <2>1 DEF OnItsWay
  <1>14. LastNamed'
    BY <1>7, <1>13 DEF LastNamed, LagInv
  <1> QED  BY <1>10, <1>11, <1>12, <1>14 DEF LagInv

LEMMA CommitLag ==
    ASSUME Store, Served, LagInv, NEW r \in Requests, CommitMessage(r)
    PROVE  LagInv'
  <1>1. PICK old \in Request : old = req[r]
    BY ServedRow DEF CommitMessage
  <1>2. old.pc = "commit" /\ old.con \in Chats /\ con[old.con] # None /\ old.msg \in Serials /\ old.msg <= serial
    BY <1>1, ServedRow, SupportsAssumption DEF CommitMessage
  <1>3. PICK m : /\ m = [serial |-> req[r].msg, con |-> req[r].con, by |-> req[r].who,
                         late |-> \E s \in SerialsOf(req[r].con) : s > req[r].msg,
                         beside |-> {req[q].msg : q \in {p \in Requests \ {r} :
                             req[p].pc \in {"commit", "last"} /\ req[p].con = req[r].con}}]
                 /\ messages' = messages \cup {m}
    BY DEF CommitMessage
  <1>4. /\ m.serial = old.msg /\ m.con = old.con
        /\ \A q \in Requests \ {r} : req[q].pc \in {"commit", "last"} /\ req[q].con = old.con
             => req[q].msg \in m.beside
    BY <1>1, <1>3
  <1>5. PICK new : new = [old EXCEPT !.pc = "last"]
    OBVIOUS
  <1>6. new.pc = "last" /\ new.msg = old.msg /\ new.con = old.con
    BY <1>5 DEF Request
  <1>7. req' = [req EXCEPT ![r] = new] /\ UNCHANGED <<con, serial, broken>>
    BY <1>1, <1>5 DEF CommitMessage, Goto, Served, history
  <1>8. \A s \in Requests : req'[s] = IF s = r THEN new ELSE req[s]
    BY <1>7 DEF Served
  <1>9. old.msg \in Nat /\ old.msg # 0
    BY <1>2 DEF Serials
  <1> HIDE DEF LagInv
  <1>10. RowsNumbered'
    BY <1>2, <1>3, <1>4, <1>7, <1>9 DEF RowsNumbered, LagInv
  <1>11. NumbersApart'
    BY <1>1, <1>2, <1>3, <1>4, <1>6, <1>8 DEF NumbersApart, LagInv
  <1>12. ASSUME NEW s \in Requests, req'[s].pc \in {"commit", "last"}, NEW k \in messages',
                k.con = req'[s].con, k.serial > req'[s].msg
         PROVE  req'[s].msg \in k.beside
    <2>1. req[s].pc \in {"commit", "last"} /\ req'[s].con = req[s].con /\ req'[s].msg = req[s].msg
      BY <1>1, <1>2, <1>6, <1>8, <1>12
    <2>2. CASE k \in messages
      BY <1>12, <2>1, <2>2 DEF SeenBeside, LagInv, MessagesOf
    <2>3. CASE k = m /\ s # r
      BY <1>4, <1>12, <2>1, <2>3
    <2>4. CASE k = m /\ s = r
      BY <1>1, <1>4, <1>9, <1>12, <2>1, <2>4
    <2> QED  BY <1>3, <1>12, <2>2, <2>3, <2>4
  <1>13. SeenBeside'
    BY <1>12 DEF SeenBeside, MessagesOf
  <1>14. \A k \in messages : OnItsWay(k) => OnItsWay(k)'
    <2>1. \A s \in Requests : req[s].pc = "last" => req'[s] = req[s]
      BY <1>1, <1>2, <1>8
    <2> QED  BY <2>1 DEF OnItsWay
  <1>15. OnItsWay(m)'
    BY <1>4, <1>6, <1>8 DEF OnItsWay
  <1>16. LastNamed'
    BY <1>3, <1>7, <1>14, <1>15 DEF LastNamed, LagInv
  <1> QED  BY <1>10, <1>11, <1>13, <1>16 DEF LagInv

LEMMA SetLastLag ==
    ASSUME Store, Served, LagInv, NEW r \in Requests, SetLastMessage(r)
    PROVE  LagInv'
  <1>1. PICK old \in Request : old = req[r]
    BY ServedRow DEF SetLastMessage
  <1>2. PICK c \in Chats : c = old.con /\ con[c] \in Con /\ con[c] # None
    BY <1>1, ServedRow, SupportsAssumption DEF SetLastMessage
  <1>3. PICK row : row = [con[c] EXCEPT !.last = old.msg]
    OBVIOUS
  <1>4. old.msg \in Nat
    BY DEF Request
  <1>5. row \in Con /\ row # None /\ row.last = old.msg
    BY <1>2, <1>3, <1>4, SupportsAssumption DEF Con
  <1>6. con' = [con EXCEPT ![c] = row] /\ old.pc = "last" /\ UNCHANGED <<messages, serial, broken>>
    BY <1>1, <1>2, <1>3 DEF SetLastMessage, Store, history
  <1>7. \A d \in Chats : con'[d] = IF d = c THEN row ELSE con[d]
    BY <1>6 DEF Store
  <1>8. PICK new : new = [old EXCEPT !.pc = "announce"]
    OBVIOUS
  <1>9. new.pc = "announce" /\ req' = [req EXCEPT ![r] = new]
    BY <1>1, <1>8 DEF SetLastMessage, Goto, Served, Request
  <1>10. \A s \in Requests : req'[s] = IF s = r THEN new ELSE req[s]
    BY <1>9 DEF Served
  <1>11. \A m \in messages : m.con \in Chats /\ m.serial \in Nat /\ con[m.con].last \in Nat
                             /\ m \in MessagesOf(m.con)
    BY MessageRow DEF LagInv, Serials
  <1>12. RowsNumbered'
    BY <1>5, <1>6, <1>7, <1>11 DEF RowsNumbered, LagInv
  <1>13. NumbersApart'
    BY <1>6, <1>9, <1>10 DEF NumbersApart, LagInv
  <1>14. SeenBeside'
    BY <1>6, <1>9, <1>10 DEF SeenBeside, LagInv, MessagesOf
  <1>15. ASSUME NEW m \in messages, m.serial > con'[m.con].last
         PROVE  m.serial \in broken \/ con'[m.con].last \in m.beside \/ OnItsWay(m)'
    <2>1. CASE m.con = c
      <3>1. con'[m.con].last = old.msg /\ m \in MessagesOf(old.con)
        BY <1>2, <1>5, <1>7, <1>11, <2>1
      <3> QED  BY <1>1, <1>6, <1>15, <3>1 DEF SeenBeside, LagInv
    <2>2. CASE m.con # c
      <3>1. con'[m.con] = con[m.con]
        BY <1>7, <1>11, <2>2
      <3>2. OnItsWay(m) => OnItsWay(m)'
        BY <1>1, <1>2, <1>10, <2>2 DEF OnItsWay
      <3> QED  BY <1>15, <3>1, <3>2 DEF LastNamed, LagInv
    <2> QED  BY <2>1, <2>2
  <1>16. LastNamed'
    BY <1>6, <1>15 DEF LastNamed
  <1> QED  BY <1>12, <1>13, <1>14, <1>16 DEF LagInv

LEMMA StepLag ==
    ASSUME Store, Served, LagInv, [Next]_vars
    PROVE  LagInv'
  <1>1. ASSUME NEW r \in Requests, Serve(r)
        PROVE  LagInv'
    BY <1>1, InsertLag, CommitLag, SetLastLag, ServeUnstored, UnstoredLag DEF Serve
  <1>2. ASSUME NEW r \in Requests, Ask(r) \/ RequestFails(r)
        PROVE  LagInv'
    BY <1>2, AskUnstored, ServeUnstored, UnstoredLag
  <1> QED  BY <1>1, <1>2, OthersUnstored, UnstoredLag DEF Next

LEMMA InitLag ==
    ASSUME Init
    PROVE  LagInv
  BY DEF Init, Idle, LagInv, RowsNumbered, NumbersApart, SeenBeside, LastNamed

\* LastCatchesUp: createMessage stores a message and names it the last one of its chat in two
\* statements, and nothing orders those of two requests.  Still, once nobody is sending, lastMessage
\* is the newest, but for messages whose request broke off, and those stored while the request of
\* lastMessage had yet to name its own.
THEOREM LastCatchesUp == Spec => []LastMessageLags
  <1> DEFINE Inv == Store /\ Served /\ LagInv
  <1>1. Init => Inv
    BY InitKeeps, InitLag
  <1>2. Inv /\ [Next]_vars => Inv'
    BY StepKeeps, StutterKeeps, StepLag
  <1>3. Inv => LastMessageLags
    BY DEF LagInv, LastNamed, OnItsWay, LastMessageLags, Sending, MessagesOf
  <1> QED  BY <1>1, <1>2, <1>3, PTL DEF Spec

-----------------------------------------------------------------------------
(* Pages. *)

\* A finite set of numbers has a least and a greatest one.
LEMMA LeastGreatest ==
    ASSUME NEW S \in SUBSET Nat, IsFiniteSet(S), S # {}
    PROVE  /\ Min(S) \in S /\ \A s \in S : Min(S) <= s
           /\ Max(S) \in S /\ \A s \in S : s <= Max(S)
  <1> DEFINE R == StrictSubsetOrdering(S)
  <1>1. IsWellFoundedOn(R, FiniteSubsetsOf(S)) /\ FiniteSubsetsOf(S) = SUBSET S
    BY FS_StrictSubsetOrderingWellFounded, FS_FiniteSubsetsOfFinite
  <1>2. IsWellFoundedOn(R, SUBSET S)
    BY <1>1
  <1>3. PICK s0 \in S : TRUE
    OBVIOUS
  <1>4. \E x \in S : \A s \in S : x <= s
    <2> DEFINE below(s) == {t \in S : t <= s}
               T == {below(s) : s \in S}
    <2>1. T \subseteq SUBSET S /\ T # {}
      BY <1>3
    <2>2. PICK B \in T : \A C \in T : <<C, B>> \notin R
      <3> HIDE DEF R, T
      <3>1. \E B \in T : \A C \in T : ~ (<<C, B>> \in R)
        BY <1>2, <2>1, WFMin, Zenon
      <3> QED  BY <3>1
    <2>3. PICK x \in S : B = below(x)
      BY <2>2
    <2>4. ASSUME NEW s \in S, ~ (x <= s)
          PROVE  FALSE
      <3>1. s \in Nat /\ x \in Nat /\ s < x
        BY <2>4
      <3>4. \A t \in S : t \in Nat /\ (t <= s => t <= x)
        BY <3>1
      <3>5. below(s) \subseteq below(x)
        BY <3>4
      <3>6. x \in below(x)
        BY <3>1
      <3>7. x \notin below(s)
        BY <3>1
      <3>2. below(s) \subseteq below(x) /\ x \in below(x) /\ x \notin below(s)
        BY <3>5, <3>6, <3>7
      <3>3. <<below(s), B>> \in R
        BY <2>3, <3>2 DEF StrictSubsetOrdering
      <3> QED  BY <2>2, <3>3
    <2> QED  BY <2>4
  <1>5. \E x \in S : \A s \in S : x >= s
    <2> DEFINE above(s) == {t \in S : t >= s}
               T == {above(s) : s \in S}
    <2>1. T \subseteq SUBSET S /\ T # {}
      BY <1>3
    <2>2. PICK B \in T : \A C \in T : <<C, B>> \notin R
      <3> HIDE DEF R, T
      <3>1. \E B \in T : \A C \in T : ~ (<<C, B>> \in R)
        BY <1>2, <2>1, WFMin, Zenon
      <3> QED  BY <3>1
    <2>3. PICK x \in S : B = above(x)
      BY <2>2
    <2>4. ASSUME NEW s \in S, ~ (x >= s)
          PROVE  FALSE
      <3>1. s \in Nat /\ x \in Nat /\ x < s
        BY <2>4
      <3>4. \A t \in S : t \in Nat /\ (t >= s => t >= x)
        BY <3>1
      <3>5. above(s) \subseteq above(x)
        BY <3>4
      <3>6. x \in above(x)
        BY <3>1
      <3>7. x \notin above(s)
        BY <3>1
      <3>2. above(s) \subseteq above(x) /\ x \in above(x) /\ x \notin above(s)
        BY <3>5, <3>6, <3>7
      <3>3. <<above(s), B>> \in R
        BY <2>3, <3>2 DEF StrictSubsetOrdering
      <3> QED  BY <2>2, <3>3
    <2> QED  BY <2>4
  <1>6. Min(S) \in S /\ \A s \in S : Min(S) <= s
    BY <1>4 DEF Min
  <1>7. Max(S) \in S /\ \A s \in S : Max(S) >= s
    BY <1>5 DEF Max
  <1> QED  BY <1>6, <1>7

LEMMA SerialsFinite ==
    ASSUME Store, RowsNumbered, NEW c \in Chats
    PROVE  SerialsOf(c) \in SUBSET Serials /\ SerialsOf(c) \in SUBSET Nat /\ IsFiniteSet(SerialsOf(c))
  <1>1. \A m \in messages : m.serial \in Serials
    BY MessageRow
  <1>2. SerialsOf(c) \subseteq Serials
    BY <1>1 DEF SerialsOf, MessagesOf
  <1>3. IsFiniteSet(Serials) /\ Serials \subseteq Nat
    BY FS_Interval, SupportsAssumption DEF Serials
  <1> QED  BY <1>2, <1>3, FS_Subset

\* A row that lies between the ends of a page belongs to it.
LEMMA BeforeWhole ==
    ASSUME Store, RowsNumbered, NEW c \in Chats, NEW anchor \in Nat,
           NEW s \in SerialsOf(c), NEW t \in Before(c, anchor), t <= s, s <= anchor
    PROVE  s \in Before(c, anchor)
  <1> DEFINE older == {x \in SerialsOf(c) : x <= anchor}
             over(x) == {y \in older : y > x}
  <1>1. older \subseteq Nat /\ IsFiniteSet(older)
    BY SerialsFinite, FS_Subset
  <1>2. s \in older /\ t \in older /\ Cardinality(over(t)) < Limit
    BY DEF Before
  <1>3. over(s) \subseteq over(t)
    BY <1>1, <1>2
  <1>4. IsFiniteSet(over(t))
    BY <1>1, FS_Subset
  <1>5. Cardinality(over(s)) <= Cardinality(over(t)) /\ IsFiniteSet(over(s))
    BY <1>3, <1>4, FS_Subset
  <1>6. Cardinality(over(s)) \in Nat /\ Cardinality(over(t)) \in Nat
    BY <1>4, <1>5, FS_CardinalityType
  <1>7. Cardinality(over(s)) < Limit
    BY <1>2, <1>5, <1>6, SupportsAssumption
  <1> QED  BY <1>2, <1>7 DEF Before

LEMMA BeforeRange ==
    ASSUME NEW c, NEW anchor
    PROVE  Before(c, anchor) \subseteq SerialsOf(c) /\ \A s \in Before(c, anchor) : s <= anchor
  BY DEF Before

\* The page before a message begins with the message.
LEMMA BeforeAnchor ==
    ASSUME Store, RowsNumbered, NEW c \in Chats, NEW anchor \in SerialsOf(c)
    PROVE  anchor \in Before(c, anchor)
  <1> DEFINE older == {x \in SerialsOf(c) : x <= anchor}
             over == {y \in older : y > anchor}
  <1>1. anchor \in Nat /\ older \subseteq Nat
    BY SerialsFinite
  <1>2. anchor \in older /\ over = {}
    BY <1>1
  <1>3. Cardinality(over) = 0
    BY <1>2, FS_EmptySet
  <1>4. Cardinality(over) < Limit
    BY <1>3, SupportsAssumption
  <1> QED  BY <1>2, <1>4 DEF Before

LEMMA AfterWhole ==
    ASSUME Store, RowsNumbered, NEW c \in Chats, NEW anchor \in Nat,
           NEW s \in SerialsOf(c), NEW t \in After(c, anchor), s <= t, anchor < s
    PROVE  s \in After(c, anchor)
  <1> DEFINE newer == {x \in SerialsOf(c) : x > anchor}
             under(x) == {y \in newer : y < x}
  <1>1. newer \subseteq Nat /\ IsFiniteSet(newer)
    BY SerialsFinite, FS_Subset
  <1>2. s \in newer /\ t \in newer /\ Cardinality(under(t)) < Limit
    BY SerialsFinite DEF After
  <1>3. under(s) \subseteq under(t)
    BY <1>1, <1>2
  <1>4. IsFiniteSet(under(t))
    BY <1>1, FS_Subset
  <1>5. Cardinality(under(s)) <= Cardinality(under(t)) /\ IsFiniteSet(under(s))
    BY <1>3, <1>4, FS_Subset
  <1>6. Cardinality(under(s)) \in Nat /\ Cardinality(under(t)) \in Nat
    BY <1>4, <1>5, FS_CardinalityType
  <1>7. Cardinality(under(s)) < Limit
    BY <1>2, <1>5, <1>6, SupportsAssumption
  <1> QED  BY <1>2, <1>7 DEF After

View == [seen : SUBSET Nat, lo : Nat, hi : Nat, before : BOOLEAN, after : BOOLEAN]

\* Nothing is loaded, or the cursors are messages of the chat, and what lies between was loaded.
Whole(w, c) ==
    /\ \/ w.seen = {} /\ w.lo = 0 /\ w.hi = 0
       \/ w.seen # {} /\ w.lo \in SerialsOf(c) /\ w.hi \in SerialsOf(c)
    /\ \A m \in MessagesOf(c) : m.serial \in w.lo .. w.hi => m.serial \in w.seen \/ m.late

ViewInv ==
    /\ view \in [Readers -> [Chats -> View]]
    /\ \A v \in Readers, c \in Chats : Whole(view[v][c], c)

\* What a page shows.
LEMMA PageView ==
    ASSUME Store, RowsNumbered, NEW c \in Chats, NEW page \in SUBSET SerialsOf(c)
    PROVE  /\ ViewOf(c, page) \in View
           /\ ViewOf(c, page).seen = page
           /\ page # {} => /\ ViewOf(c, page).lo = Min(page) /\ ViewOf(c, page).hi = Max(page)
                           /\ Min(page) \in page /\ Max(page) \in page
                           /\ \A s \in page : Min(page) <= s /\ s <= Max(page)
           /\ page = {} => ViewOf(c, page) = NoView
  <1>1. page \in SUBSET Nat /\ IsFiniteSet(page)
    BY SerialsFinite, FS_Subset
  <1>2. CASE page = {}
    BY <1>2 DEF ViewOf, NoView, View
  <1>3. CASE page # {}
    <2>1. /\ Min(page) \in page /\ Max(page) \in page
          /\ \A s \in page : Min(page) <= s /\ s <= Max(page)
      BY <1>1, <1>3, LeastGreatest
    <2>2. Min(page) \in Nat /\ Max(page) \in Nat
      BY <1>1, <2>1
    <2>3. PICK b \in BOOLEAN : b = \E s \in SerialsOf(c) : s < Min(page)
      OBVIOUS
    <2>4. PICK a \in BOOLEAN : a = \E s \in SerialsOf(c) : s > Max(page)
      OBVIOUS
    <2>5. ViewOf(c, page) = [seen |-> page, lo |-> Min(page), hi |-> Max(page), before |-> b, after |-> a]
      BY <1>3, <2>3, <2>4 DEF ViewOf
    <2>6. ViewOf(c, page) \in View
      BY <1>1, <2>2, <2>5 DEF View
    <2>7. ViewOf(c, page).seen = page /\ ViewOf(c, page).lo = Min(page) /\ ViewOf(c, page).hi = Max(page)
      BY <2>5
    <2> QED  BY <1>3, <2>1, <2>6, <2>7
  <1> QED  BY <1>2, <1>3

\* The first page is the whole of what lies between its ends.
LEMMA FirstPageWhole ==
    ASSUME Store, RowsNumbered, NEW c \in Chats, NEW v, NEW cursor \in Nat
    PROVE  ViewOf(c, FirstPage(v, c, cursor)) \in View /\ Whole(ViewOf(c, FirstPage(v, c, cursor)), c)
  <1> DEFINE page == FirstPage(v, c, cursor)
  <1>1. SerialsOf(c) \in SUBSET Serials /\ SerialsOf(c) \in SUBSET Nat /\ IsFiniteSet(SerialsOf(c))
    BY SerialsFinite
  <1>2. CASE SerialsOf(c) = {}
    <2>1. page = {}
      BY <1>2 DEF FirstPage
    <2> HIDE DEF page
    <2>2. ViewOf(c, page) = NoView /\ ViewOf(c, page) \in View
      BY <2>1, PageView
    <2>3. MessagesOf(c) = {}
      BY <1>2 DEF SerialsOf
    <2>4. Whole(NoView, c)
      BY <2>3 DEF Whole, NoView
    <2> QED  BY <2>2, <2>4 DEF page
  <1>3. ASSUME SerialsOf(c) # {},
               page \subseteq SerialsOf(c),
               \A s \in SerialsOf(c), t, u \in page : t <= s /\ s <= u => s \in page
        PROVE  ViewOf(c, page) \in View /\ Whole(ViewOf(c, page), c)
    <2> HIDE DEF page
    <2>1. CASE page = {}
      <3>1. ViewOf(c, page) = NoView /\ ViewOf(c, page) \in View
        BY <2>1, PageView
      <3>2. ASSUME NEW m \in MessagesOf(c) PROVE m.serial \notin 0 .. 0
        <4>1. m.serial \in SerialsOf(c)
          BY DEF SerialsOf
        <4> QED  BY <1>1, <4>1 DEF Serials
      <3>3. Whole(NoView, c)
        BY <3>2 DEF Whole, NoView
      <3> QED  BY <3>1, <3>3
    <2>2. CASE page # {}
      <3>1. PICK w : w = ViewOf(c, page)
        OBVIOUS
      <3>2. w \in View /\ w.seen = page /\ w.lo \in page /\ w.hi \in page
        BY <1>3, <2>2, <3>1, PageView
      <3>3. ASSUME NEW m \in MessagesOf(c), m.serial \in w.lo .. w.hi PROVE m.serial \in w.seen
        <4>1. m.serial \in SerialsOf(c)
          BY DEF SerialsOf
        <4>2. w.lo <= m.serial /\ m.serial <= w.hi
          BY <1>1, <1>3, <3>2, <3>3, <4>1
        <4> QED  BY <1>3, <3>2, <4>1, <4>2
      <3> QED  BY <1>3, <2>2, <3>1, <3>2, <3>3 DEF Whole
    <2> QED  BY <2>1, <2>2
  <1>4. CASE SerialsOf(c) # {} /\ v \in Admins /\ cursor = 0
    <2>1. page = {Min(SerialsOf(c))} /\ Min(SerialsOf(c)) \in SerialsOf(c)
      BY <1>1, <1>4, LeastGreatest DEF FirstPage
    <2>2. \A s \in SerialsOf(c), t, u \in page : t <= s /\ s <= u => s \in page
      BY <1>1, <2>1
    <2> QED  BY <1>3, <1>4, <2>1, <2>2
  <1>5. CASE SerialsOf(c) # {} /\ ~ (v \in Admins /\ cursor = 0)
    <2>1. PICK anchor : anchor = Anchor(v, c, cursor)
      OBVIOUS
    <2>2. anchor \in Nat
      <3> DEFINE newer == {s \in SerialsOf(c) : s > cursor}
                 others == {m.serial : m \in {n \in MessagesOf(c) : n.by # v}}
      <3>1. newer \in SUBSET SerialsOf(c) /\ others \in SUBSET SerialsOf(c)
        BY DEF SerialsOf
      <3>2. newer \in SUBSET Nat /\ IsFiniteSet(newer) /\ others \in SUBSET Nat /\ IsFiniteSet(others)
        BY <1>1, <3>1, FS_Subset
      <3>3. (newer # {} => Max(newer) \in Nat) /\ (others # {} => Min(others) \in Nat)
        BY <3>2, LeastGreatest
      <3>4. Max(SerialsOf(c)) \in Nat
        BY <1>1, <1>5, LeastGreatest
      <3> QED  BY <2>1, <3>3, <3>4 DEF Anchor
    <2>3. page = Before(c, anchor)
      BY <1>5, <2>1 DEF FirstPage
    <2>4. page \subseteq SerialsOf(c) /\ \A s \in page : s <= anchor
      BY <2>3, BeforeRange
    <2>5. ASSUME NEW s \in SerialsOf(c), NEW t \in page, NEW u \in page, t <= s, s <= u
          PROVE  s \in page
      <3>1. s \in Nat /\ u \in Nat /\ u <= anchor
        BY <1>1, <2>4
      <3>2. s <= anchor
        BY <2>2, <2>5, <3>1
      <3> QED  BY <2>2, <2>3, <2>5, <3>2, BeforeWhole
    <2> QED  BY <1>3, <1>5, <2>4, <2>5
  <1> QED  BY <1>2, <1>4, <1>5

\* Where messages and pages stay, so does what the pages show.
LEMMA SamePages ==
    ASSUME ViewInv, UNCHANGED <<messages, view>>
    PROVE  ViewInv'
  BY DEF ViewInv, Whole, SerialsOf, MessagesOf

LEMMA PageWritten ==
    ASSUME ViewInv, messages' = messages, NEW v \in Readers, NEW c \in Chats, NEW w \in View, Whole(w, c),
           view' = [view EXCEPT ![v][c] = w]
    PROVE  ViewInv'
  <1>1. view' \in [Readers -> [Chats -> View]]
    BY DEF ViewInv
  <1>2. \A u \in Readers, d \in Chats : view'[u][d] = IF u = v /\ d = c THEN w ELSE view[u][d]
    BY DEF ViewInv
  <1>3. ASSUME NEW u \in Readers, NEW d \in Chats
        PROVE  Whole(view'[u][d], d)
    BY <1>2 DEF ViewInv
  <1>4. \A u \in Readers, d \in Chats : Whole(view[u][d], d)'
    BY <1>3 DEF Whole, SerialsOf, MessagesOf
  <1> QED  BY <1>1, <1>4 DEF ViewInv

\* A message that is stored between the cursors of a page is late: the later one is already there.
LEMMA CommitPages ==
    ASSUME Store, Served, LagInv, ViewInv, NEW r \in Requests, CommitMessage(r)
    PROVE  ViewInv'
  <1>1. PICK old \in Request : old = req[r]
    BY ServedRow DEF CommitMessage
  <1>2. old.pc = "commit" /\ old.con \in Chats /\ old.msg \in Serials
    BY <1>1, ServedRow DEF CommitMessage
  <1>3. PICK m : /\ m = [serial |-> req[r].msg, con |-> req[r].con, by |-> req[r].who,
                         late |-> \E s \in SerialsOf(req[r].con) : s > req[r].msg,
                         beside |-> {req[q].msg : q \in {p \in Requests \ {r} :
                             req[p].pc \in {"commit", "last"} /\ req[p].con = req[r].con}}]
                 /\ messages' = messages \cup {m}
    BY DEF CommitMessage
  <1>4. m.serial = old.msg /\ m.con = old.con /\ m.late = \E s \in SerialsOf(old.con) : s > old.msg
    BY <1>1, <1>3
  <1>5. view' = view
    BY DEF CommitMessage
  <1>6. \A c \in Chats : MessagesOf(c)' = MessagesOf(c) \cup (IF c = old.con THEN {m} ELSE {})
    BY <1>3, <1>4 DEF MessagesOf
  <1>7. \A c \in Chats : SerialsOf(c) \subseteq SerialsOf(c)'
    BY <1>6 DEF SerialsOf
  <1>8. \A k \in messages : k.serial # old.msg
    BY <1>1, <1>2 DEF LagInv, NumbersApart
  <1>9. ASSUME NEW v \in Readers, NEW c \in Chats
        PROVE  Whole(view[v][c], c)'
    <2>1. PICK w : w = view[v][c]
      OBVIOUS
    <2>2. Whole(w, c) /\ w \in View
      BY <2>1 DEF ViewInv
    <2>3. ASSUME NEW k \in MessagesOf(c)', k.serial \in w.lo .. w.hi
          PROVE  k.serial \in w.seen \/ k.late
      <3>1. CASE k \in MessagesOf(c)
        BY <2>2, <2>3, <3>1 DEF Whole
      <3>2. CASE k = m /\ c = old.con
        <4>1. old.msg \in Nat /\ old.msg # 0 /\ w.lo \in Nat /\ w.hi \in Nat /\ old.msg <= w.hi
          BY <1>2, <1>4, <2>2, <2>3, <3>2 DEF Serials, View
        <4>2. w.hi \in SerialsOf(c)
          BY <2>2, <4>1 DEF Whole
        <4>3. w.hi # old.msg
          BY <1>8, <4>2 DEF SerialsOf, MessagesOf
        <4>4. w.hi > old.msg
          BY <4>1, <4>3
        <4> QED  BY <1>4, <3>2, <4>2, <4>4
      <3> QED  BY <1>6, <2>3, <3>1, <3>2
    <2>4. \/ w.seen = {} /\ w.lo = 0 /\ w.hi = 0
          \/ w.seen # {} /\ w.lo \in SerialsOf(c)' /\ w.hi \in SerialsOf(c)'
      BY <1>7, <2>2 DEF Whole
    <2>5. view'[v][c] = w
      BY <1>5, <2>1
    <2>6. Whole(w, c)'
      BY <2>3, <2>4, <2>5 DEF Whole
    <2> QED  BY <1>5, <2>5, <2>6
  <1> QED  BY <1>5, <1>9 DEF ViewInv

LEMMA OpenPages ==
    ASSUME Store, Served, LagInv, ViewInv, NEW r \in Requests, OpenPage(r)
    PROVE  ViewInv'
  <1>1. PICK old \in Request : old = req[r]
    BY ServedRow DEF OpenPage
  <1>2. old.con \in Chats /\ old.msg \in Nat /\ messages' = messages
    BY <1>1 DEF Request, OpenPage, rows
  <1>3. CASE old.who \in Readers
    <2>1. PICK w : w = ViewOf(old.con, FirstPage(old.who, old.con, old.msg))
      OBVIOUS
    <2>2. w \in View /\ Whole(w, old.con)
      BY <1>2, <2>1, FirstPageWhole DEF LagInv
    <2>3. view' = [view EXCEPT ![old.who][old.con] = w]
      BY <1>1, <1>3, <2>1 DEF OpenPage
    <2> QED  BY <1>2, <1>3, <2>2, <2>3, PageWritten
  <1>4. CASE old.who \notin Readers
    BY <1>1, <1>2, <1>4, SamePages DEF OpenPage
  <1> QED  BY <1>3, <1>4

LEMMA ScrollBackPages ==
    ASSUME Store, LagInv, ViewInv, NEW v \in Readers, NEW c \in Chats, ScrollBefore(v, c)
    PROVE  ViewInv'
  <1>1. PICK w : w = view[v][c]
    OBVIOUS
  <1>2. w \in View /\ Whole(w, c) /\ w.seen # {}
    BY <1>1 DEF ViewInv, ScrollBefore
  <1>3. SerialsOf(c) \in SUBSET Nat
    BY SerialsFinite DEF LagInv
  <1>4. w.lo \in SerialsOf(c) /\ w.hi \in SerialsOf(c) /\ w.lo \in Nat /\ w.hi \in Nat
    BY <1>2, <1>3 DEF Whole
  <1>5. PICK back : back = Before(c, w.lo)
    OBVIOUS
  <1>6. back \subseteq SerialsOf(c) /\ w.lo \in back
    BY <1>4, <1>5, BeforeRange, BeforeAnchor DEF LagInv
  <1>7. PICK page : page = ViewOf(c, back)
    OBVIOUS
  <1>8. page \in View /\ page.seen = back /\ page.lo \in back
    BY <1>6, <1>7, PageView DEF LagInv
  <1>9. PICK new : new = [w EXCEPT !.seen = @ \cup page.seen, !.lo = page.lo, !.before = page.before]
    OBVIOUS
  <1>10. new \in View /\ new.seen = w.seen \cup back /\ new.lo = page.lo /\ new.hi = w.hi
    BY <1>2, <1>8, <1>9 DEF View
  <1>11. ASSUME NEW m \in MessagesOf(c), m.serial \in new.lo .. new.hi
         PROVE  m.serial \in new.seen \/ m.late
    <2>1. m.serial \in SerialsOf(c) /\ m.serial \in Nat
      BY <1>3 DEF SerialsOf
    <2>2. page.lo \in Nat /\ page.lo <= m.serial /\ m.serial <= w.hi
      BY <1>3, <1>6, <1>8, <1>10, <1>11, <2>1
    <2>3. CASE m.serial <= w.lo
      BY <1>4, <1>5, <1>8, <1>10, <2>1, <2>2, <2>3, BeforeWhole DEF LagInv
    <2>4. CASE ~ (m.serial <= w.lo)
      <3>1. m.serial \in w.lo .. w.hi
        BY <1>4, <2>1, <2>2, <2>4
      <3> QED  BY <1>2, <1>10, <3>1 DEF Whole
    <2> QED  BY <2>3, <2>4
  <1>12. Whole(new, c)
    BY <1>2, <1>4, <1>6, <1>8, <1>10, <1>11 DEF Whole
  <1>13. view' = [view EXCEPT ![v][c] = new] /\ messages' = messages
    BY <1>1, <1>5, <1>7, <1>9 DEF ScrollBefore, rows
  <1> QED  BY <1>10, <1>12, <1>13, PageWritten

LEMMA ScrollOnPages ==
    ASSUME Store, LagInv, ViewInv, NEW v \in Readers, NEW c \in Chats, ScrollAfter(v, c)
    PROVE  ViewInv'
  <1>1. PICK w : w = view[v][c]
    OBVIOUS
  <1>2. w \in View /\ Whole(w, c) /\ w.seen # {}
    BY <1>1 DEF ViewInv, ScrollAfter
  <1>3. SerialsOf(c) \in SUBSET Nat
    BY SerialsFinite DEF LagInv
  <1>4. w.lo \in SerialsOf(c) /\ w.hi \in SerialsOf(c) /\ w.lo \in Nat /\ w.hi \in Nat
    BY <1>2, <1>3 DEF Whole
  <1>5. PICK ahead : ahead = After(c, w.hi)
    OBVIOUS
  <1>6. ahead \subseteq SerialsOf(c)
    BY <1>5 DEF After
  <1>7. PICK page : page = ViewOf(c, ahead)
    OBVIOUS
  <1>8. ahead # {}
    BY <1>1, <1>5, <1>6, <1>7, PageView DEF LagInv, ScrollAfter
  <1>9. page \in View /\ page.seen = ahead /\ page.hi \in ahead
    BY <1>6, <1>7, <1>8, PageView DEF LagInv
  <1>10. PICK new : new = [w EXCEPT !.seen = @ \cup page.seen, !.hi = page.hi, !.after = page.after]
    OBVIOUS
  <1>11. new \in View /\ new.seen = w.seen \cup ahead /\ new.lo = w.lo /\ new.hi = page.hi
    BY <1>2, <1>9, <1>10 DEF View
  <1>12. ASSUME NEW m \in MessagesOf(c), m.serial \in new.lo .. new.hi
         PROVE  m.serial \in new.seen \/ m.late
    <2>1. m.serial \in SerialsOf(c) /\ m.serial \in Nat
      BY <1>3 DEF SerialsOf
    <2>2. page.hi \in Nat /\ w.lo <= m.serial /\ m.serial <= page.hi
      BY <1>3, <1>4, <1>6, <1>9, <1>11, <1>12, <2>1
    <2>3. CASE w.hi < m.serial
      BY <1>4, <1>5, <1>9, <1>11, <2>1, <2>2, <2>3, AfterWhole DEF LagInv
    <2>4. CASE ~ (w.hi < m.serial)
      <3>1. m.serial \in w.lo .. w.hi
        BY <1>4, <2>1, <2>2, <2>4
      <3> QED  BY <1>2, <1>11, <3>1 DEF Whole
    <2> QED  BY <2>3, <2>4
  <1>13. Whole(new, c)
    BY <1>2, <1>4, <1>6, <1>9, <1>11, <1>12 DEF Whole
  <1>14. view' = [view EXCEPT ![v][c] = new] /\ messages' = messages
    BY <1>1, <1>5, <1>7, <1>10 DEF ScrollAfter, rows
  <1> QED  BY <1>11, <1>13, <1>14, PageWritten

LEMMA StepPages ==
    ASSUME Store, Served, LagInv, ViewInv, [Next]_vars
    PROVE  ViewInv'
  <1> USE DEF rows
  <1>1. ASSUME NEW r \in Requests, Serve(r)
        PROVE  ViewInv'
    <2>1. CASE \/ ReadChat(r) \/ InsertMessage(r) \/ SetLastMessage(r) \/ Announce(r) \/ SaveRead(r)
               \/ UpdateLink(r) \/ FindLink(r) \/ AddLink(r) \/ SaveClosed(r)
      <3>1. UNCHANGED <<messages, view>>
        BY <2>1 DEF ReadChat, InsertMessage, SetLastMessage, Announce, SaveRead, UpdateLink, FindLink,
                    AddLink, SaveClosed
      <3> QED  BY <3>1, SamePages
    <2> QED  BY <1>1, <2>1, CommitPages, OpenPages DEF Serve
  <1>2. ASSUME NEW r \in Requests, Ask(r) \/ RequestFails(r)
        PROVE  ViewInv'
    <2>1. UNCHANGED <<messages, view>>
      BY <1>2 DEF Ask, RequestFails, CreateConversation, SendMessage, MarkAsReadByUser, OpenByUser,
                  MarkAsReadByAdmin, OpenByAdmin, CloseChat
    <2> QED  BY <2>1, SamePages
  <1>3. CASE Callback \/ Restart \/ UNCHANGED vars
    <2>1. UNCHANGED <<messages, view>>
      BY <1>3 DEF Callback, Restart, TellOwner, TellAdmin, vars
    <2> QED  BY <2>1, SamePages
  <1>4. CASE Scroll
    BY <1>4, ScrollBackPages, ScrollOnPages DEF Scroll
  <1> QED  BY <1>1, <1>2, <1>3, <1>4 DEF Next

LEMMA InitPages ==
    ASSUME Init
    PROVE  ViewInv
  <1>1. NoView \in View
    BY SMT DEF NoView, View
  <1>2. view = [v \in Readers |-> [c \in Chats |-> NoView]] /\ messages = {}
    BY DEF Init
  <1>3. \A c \in Chats : Whole(NoView, c)
    BY <1>2 DEF Whole, NoView, MessagesOf
  <1> QED  BY <1>1, <1>2, <1>3 DEF ViewInv

\* NoGapSafe: whatever requests overlap, fail or are cut off, a reader who scrolls to both sides from
\* where loadInitial put them has loaded every message between the cursors, but for those that were
\* committed after a newer one.
THEOREM NoGapSafe == Spec => []NoGap
  <1> DEFINE Inv == Store /\ Served /\ LagInv /\ ViewInv
  <1>1. Init => Inv
    BY InitKeeps, InitLag, InitPages
  <1>2. Inv /\ [Next]_vars => Inv'
    BY StepKeeps, StutterKeeps, StepLag, StepPages
  <1>3. Inv => NoGap
    BY DEF ViewInv, Whole, NoGap
  <1> QED  BY <1>1, <1>2, <1>3, PTL DEF Spec

-----------------------------------------------------------------------------
(* What is true while requests do not overlap. *)

\* Links are numbered apart.
LinkIds ==
    /\ \A l \in links : l.id \in 1 .. Cardinality(links)
    /\ \A l, k \in links : l.id = k.id => l = k

\* A chat that is not there was never linked, marked or told of.
NothingYet ==
    \A c \in Chats : con[c] = None =>
        /\ \A l \in links : l.con # c
        /\ \A v \in Viewers : marked[v][c] = 0 /\ told[v][c] = 0

\* A request that will write a link has found it, users have no links, and only linked admins are told of a chat.
Linked(a, c) == \E l \in links : l.admin = a /\ l.con = c

LinksKnown ==
    /\ \A r \in Requests : req[r].pc = "mark" => req[r].who \in Users
    /\ \A r \in Requests : req[r].pc = "update" =>
         \E l \in links : l.id = req[r].link /\ l.admin = req[r].who /\ l.con = req[r].con
    /\ \A j \in jobs : \A a \in j.todo : Linked(a, j.con)
    /\ \A a \in Admins, c \in Chats : told[a][c] # 0 => Linked(a, c)

LinkInv == LinkIds /\ NothingYet /\ LinksKnown

LEMMA LinkedOf ==
    ASSUME NEW a, NEW c
    PROVE  Linked(a, c) <=> LinksOf(a, c) # {}
  BY DEF Linked, LinksOf

\* One request goes on; the others stay.
Moves(r) == \A s \in Requests : s # r => req'[s] = req[s]

LEMMA ServeMoves ==
    ASSUME Served, NEW r \in Requests, Ask(r) \/ Serve(r) \/ RequestFails(r)
    PROVE  Moves(r)
  <1>1. ASSUME NEW q, req' = [req EXCEPT ![r] = q]
        PROVE  Moves(r)
    BY <1>1 DEF Moves, Served
  <1>2. ASSUME NEW q, BeginWith(r, q)
        PROVE  Moves(r)
    BY <1>1, <1>2 DEF BeginWith
  <1>3. CASE Ask(r)
    BY <1>2, <1>3 DEF Ask, CreateConversation, SendMessage, MarkAsReadByUser, OpenByUser,
                      MarkAsReadByAdmin, OpenByAdmin, CloseChat, Begin
  <1>4. ASSUME NEW pc, NEW msg, req' = [req EXCEPT ![r].pc = pc, ![r].msg = msg]
        PROVE  Moves(r)
    BY <1>4 DEF Moves, Served
  <1>5. ASSUME NEW pc, Goto(r, pc)
        PROVE  Moves(r)
    BY <1>5 DEF Moves, Served, Goto
  <1>6. CASE Respond(r)
    BY <1>1, <1>6 DEF Respond
  <1>7. CASE \/ ReadChat(r) \/ InsertMessage(r) \/ CommitMessage(r) \/ SetLastMessage(r) \/ Announce(r)
    BY <1>4, <1>5, <1>6, <1>7 DEF ReadChat, InsertMessage, CommitMessage, SetLastMessage, Announce
  <1>8. CASE \/ SaveRead(r) \/ UpdateLink(r) \/ FindLink(r) \/ AddLink(r) \/ OpenPage(r)
             \/ SaveClosed(r) \/ RequestFails(r)
    BY <1>4, <1>5, <1>6, <1>8 DEF SaveRead, UpdateLink, FindLink, AddLink, OpenPage, SaveClosed,
                                  RequestFails
  <1> QED  BY <1>3, <1>7, <1>8 DEF Serve

OneAtATime ==
    ~overlapped =>
        /\ \A r, q \in Requests : req[r].pc # "idle" /\ req[q].pc # "idle" => r = q
        /\ \A r \in Requests : req[r].pc # "idle" => jobs = {}
        /\ \A j, k \in jobs : j = k

LEMMA Solo ==
    ASSUME OneAtATime, ~overlapped, NEW r \in Requests, req[r].pc # "idle"
    PROVE  jobs = {} /\ \A s \in Requests : s # r => req[s].pc = "idle"
  BY DEF OneAtATime

\* A request starts unoverlapped where nothing else is under way.
LEMMA BeginSolo ==
    ASSUME Store, Served, NEW r \in Requests, Ask(r), ~overlapped'
    PROVE  /\ ~overlapped /\ jobs = {} /\ jobs' = {}
           /\ \A s \in Requests : req[s].pc = "idle"
           /\ \A s \in Requests : s # r => req'[s].pc = "idle"
  <1>1. \E q : BeginWith(r, q)
    BY DEF Ask, CreateConversation, SendMessage, MarkAsReadByUser, OpenByUser, MarkAsReadByAdmin,
           OpenByAdmin, CloseChat, Begin
  <1>2. ~overlapped /\ Busy = {} /\ jobs = {}
    BY <1>1 DEF BeginWith
  <1>3. \A s \in Requests : req[s].pc = "idle"
    BY <1>2 DEF Busy
  <1>4. jobs' = jobs
    BY DEF Ask, CreateConversation, SendMessage, MarkAsReadByUser, OpenByUser, MarkAsReadByAdmin,
           OpenByAdmin, CloseChat
  <1>5. Moves(r)
    BY ServeMoves
  <1> QED  BY <1>2, <1>3, <1>4, <1>5 DEF Moves

LEMMA StepSolo ==
    ASSUME Store, Served, OneAtATime, [Next]_vars
    PROVE  OneAtATime'
  <1> USE DEF history
  <1>1. ASSUME NEW r \in Requests, Ask(r)
        PROVE  OneAtATime'
    BY <1>1, BeginSolo DEF OneAtATime
  <1>2. ASSUME NEW r \in Requests, Serve(r) \/ RequestFails(r)
        PROVE  OneAtATime'
    <2>1. req[r].pc # "idle" /\ overlapped' = overlapped
      BY <1>2 DEF Serve, ReadChat, InsertMessage, CommitMessage, SetLastMessage, Announce, SaveRead,
                  UpdateLink, FindLink, AddLink, OpenPage, SaveClosed, RequestFails
    <2>2. Moves(r)
      BY <1>2, ServeMoves
    <2>3. jobs' = jobs \/ \E j : Respond(r) /\ jobs' = jobs \cup {j}
      BY <1>2 DEF Serve, ReadChat, InsertMessage, CommitMessage, SetLastMessage, Announce, SaveRead,
                  UpdateLink, FindLink, AddLink, OpenPage, SaveClosed, RequestFails, rows
    <2>4. ASSUME ~overlapped
          PROVE  /\ \A s \in Requests : s # r => req'[s].pc = "idle"
                 /\ jobs = {}
      BY <2>1, <2>2, <2>4, Solo DEF Moves
    <2>5. Respond(r) => req'[r].pc = "idle"
      BY DEF Respond, Idle, Served
    <2>6. CASE jobs' = jobs
      BY <2>1, <2>4, <2>6 DEF OneAtATime
    <2>7. ASSUME NEW j, Respond(r), jobs' = jobs \cup {j}
          PROVE  OneAtATime'
      BY <2>1, <2>4, <2>5, <2>7 DEF OneAtATime
    <2> QED  BY <2>3, <2>6, <2>7
  <1>3. ASSUME NEW j \in jobs, TellOwner(j) \/ \E a \in Admins : TellAdmin(j, a)
        PROVE  OneAtATime'
    <2>1. req' = req /\ overlapped' = overlapped
      BY <1>3 DEF TellOwner, TellAdmin
    <2>2. \E k : jobs' \subseteq (jobs \ {j}) \cup {k}
      BY <1>3 DEF TellOwner, TellAdmin
    <2> QED  BY <2>1, <2>2 DEF OneAtATime
  <1>4. CASE Scroll \/ UNCHANGED vars
    <2>1. UNCHANGED <<req, jobs, overlapped>>
      BY <1>4 DEF Scroll, ScrollBefore, ScrollAfter, vars
    <2> QED  BY <2>1 DEF OneAtATime
  <1>5. CASE Restart
    BY <1>5 DEF Restart, OneAtATime, Idle
  <1> QED  BY <1>1, <1>2, <1>3, <1>4, <1>5 DEF Next, Callback

\* The links stay, but for what was read of them.
LinksStay == \A l \in links : \E k \in links' : k.id = l.id /\ k.admin = l.admin /\ k.con = l.con

LEMMA LinkedStays ==
    ASSUME LinksStay, NEW a, NEW c, Linked(a, c)
    PROVE  Linked(a, c)'
  BY DEF LinksStay, Linked

\* An UPDATE of a link by its id leaves the others, and their number.
LEMMA LinkUpdated ==
    ASSUME Store, LinkIds, NEW id, NEW msg \in Nat,
           links' = {IF l.id = id THEN [l EXCEPT !.read = msg] ELSE l : l \in links}
    PROVE  /\ LinksStay /\ LinkIds'
           /\ \A k \in links' : \E l \in links :
                /\ k.id = l.id /\ k.admin = l.admin /\ k.con = l.con
                /\ k.read = IF l.id = id THEN msg ELSE l.read
  <1>1. PICK new : new = [l \in links |-> IF l.id = id THEN [l EXCEPT !.read = msg] ELSE l]
    OBVIOUS
  <1>2. links' = {new[l] : l \in links}
    BY <1>1
  <1>3. \A l \in links : /\ new[l].id = l.id /\ new[l].admin = l.admin /\ new[l].con = l.con
                         /\ new[l].read = IF l.id = id THEN msg ELSE l.read
    BY <1>1 DEF Store, Link
  <1>4. new \in Bijection(links, links')
    <2>1. new \in Surjection(links, links')
      BY <1>1, <1>2 DEF Surjection
    <2>2. \A l, k \in links : new[l] = new[k] => l = k
      BY <1>3 DEF LinkIds
    <2> QED  BY <2>1, <2>2 DEF Bijection, Injection, Surjection, IsInjective
  <1>8. ExistsBijection(links, links')
    BY <1>4 DEF ExistsBijection
  <1>5. Cardinality(links') = Cardinality(links)
    BY <1>8, FS_Bijection DEF Store
  <1>6. LinkIds'
    <2>1. \A k \in links' : k.id \in 1 .. Cardinality(links')
      BY <1>2, <1>3, <1>5 DEF LinkIds
    <2>2. \A l, k \in links' : l.id = k.id => l = k
      BY <1>2, <1>3 DEF LinkIds
    <2> QED  BY <2>1, <2>2 DEF LinkIds
  <1>7. LinksStay
    BY <1>2, <1>3 DEF LinksStay
  <1> QED  BY <1>2, <1>3, <1>6, <1>7

LEMMA LinkAdded ==
    ASSUME Store, LinkIds, NEW new, new.id = Cardinality(links) + 1, links' = links \cup {new}
    PROVE  LinksStay /\ LinkIds'
  <1>1. Cardinality(links) \in Nat
    BY FS_CardinalityType DEF Store
  <1>2. new \notin links
    BY <1>1 DEF LinkIds
  <1>3. Cardinality(links') = Cardinality(links) + 1
    BY <1>2, FS_AddElement DEF Store
  <1>4. \A l \in links' : l.id \in 1 .. Cardinality(links')
    BY <1>1, <1>3 DEF LinkIds
  <1>5. \A l, k \in links' : l.id = k.id => l = k
    BY <1>1 DEF LinkIds
  <1>6. LinksStay
    BY DEF LinksStay
  <1> QED  BY <1>4, <1>5, <1>6 DEF LinkIds

LEMMA ChatsStay ==
    ASSUME Store, Served, [Next]_vars
    PROVE  \A c \in Chats : con[c] # None => con'[c] # None
  <1>1. CASE Unstored
    BY <1>1 DEF Unstored, SameLast
  <1>2. ASSUME NEW r \in Requests, InsertMessage(r) \/ CommitMessage(r)
        PROVE  con' = con
    BY <1>2 DEF InsertMessage, CommitMessage, rows
  <1>3. ASSUME NEW r \in Requests, SetLastMessage(r)
        PROVE  \A c \in Chats : con[c] # None => con'[c] # None
    <2>1. PICK c \in Chats : c = req[r].con /\ con[c] \in Con
      BY <1>3, ServedRow DEF SetLastMessage
    <2>2. req[r].msg \in Nat
      BY <1>3, ServedRow DEF SetLastMessage, Request
    <2>3. PICK row : row = [con[c] EXCEPT !.last = req[r].msg]
      OBVIOUS
    <2>4. row \in Con /\ row # None
      BY <2>1, <2>2, <2>3, SupportsAssumption DEF Con
    <2>5. con' = [con EXCEPT ![c] = row]
      BY <1>3, <2>1, <2>3 DEF SetLastMessage, Store
    <2> QED  BY <2>4, <2>5 DEF Store
  <1>4. ASSUME NEW r \in Requests, Serve(r)
        PROVE  \A c \in Chats : con[c] # None => con'[c] # None
    BY <1>1, <1>2, <1>3, <1>4, ServeUnstored DEF Serve
  <1> QED  BY <1>1, <1>4, AskUnstored, ServeUnstored, OthersUnstored DEF Next

\* One entry of a table by viewer and chat is written.
LEMMA Entry ==
    ASSUME NEW f \in [Viewers -> [Chats -> 0 .. MaxMessages]], NEW v \in Viewers, NEW c \in Chats, NEW m
    PROVE  \A u \in Viewers, d \in Chats :
             [f EXCEPT ![v][c] = m][u][d] = IF u = v /\ d = c THEN m ELSE f[u][d]
  OBVIOUS

LEMMA LinkKept ==
    ASSUME Store, Served, LinkInv, [Next]_vars, LinksStay, LinkIds',
           \A r \in Requests : req'[r].pc = "update" =>
             \/ req'[r] = req[r]
             \/ \E l \in links : l.id = req'[r].link /\ l.admin = req'[r].who /\ l.con = req'[r].con,
           \A r \in Requests : req'[r].pc = "mark" => req'[r] = req[r] \/ req'[r].who \in Users,
           \A j \in jobs' : \A a \in j.todo : Linked(a, j.con),
           \A k \in links' : con[k.con] # None,
           \A v \in Viewers, c \in Chats : marked'[v][c] = marked[v][c] \/ con[c] # None,
           \A v \in Viewers, c \in Chats :
             told'[v][c] = told[v][c] \/ (con[c] # None /\ (v \in Admins => Linked(v, c)'))
    PROVE  LinkInv'
  <1>1. \A c \in Chats : con'[c] = None => con[c] = None
    BY ChatsStay
  <1>2. NothingYet'
    BY <1>1 DEF LinkInv, NothingYet
  <1>3. ASSUME NEW r \in Requests, req'[r].pc = "update"
        PROVE  \E l \in links' : l.id = req'[r].link /\ l.admin = req'[r].who /\ l.con = req'[r].con
    <2>1. PICK l \in links : l.id = req'[r].link /\ l.admin = req'[r].who /\ l.con = req'[r].con
      BY <1>3 DEF LinkInv, LinksKnown
    <2> QED  BY <2>1 DEF LinksStay
  <1>4. \A j \in jobs' : \A a \in j.todo : Linked(a, j.con)'
    BY LinkedStays
  <1>5. ASSUME NEW a \in Admins, NEW c \in Chats, told'[a][c] # 0
        PROVE  Linked(a, c)'
    BY <1>5, LinkedStays DEF LinkInv, LinksKnown, Viewers
  <1>6. \A r \in Requests : req'[r].pc = "mark" => req'[r].who \in Users
    BY DEF LinkInv, LinksKnown
  <1> QED  BY <1>2, <1>3, <1>4, <1>5, <1>6 DEF LinkInv, LinksKnown

LEMMA SameLinks ==
    ASSUME LinkInv, links' = links
    PROVE  /\ LinksStay /\ LinkIds' /\ (NothingYet /\ Store => \A k \in links' : con[k.con] # None)
  BY DEF LinksStay, LinkInv, LinkIds, NothingYet, Store, Link

LEMMA LinkRow ==
    ASSUME Store, LinkInv, NEW l \in links
    PROVE  l \in Link /\ l.con \in Chats /\ l.admin \in Admins /\ con[l.con] # None
  BY DEF LinkInv, NothingYet, Store, Link

LEMMA AskLinks ==
    ASSUME Store, Served, LinkInv, NEW r \in Requests, Ask(r)
    PROVE  LinkInv'
  <1>1. UNCHANGED <<links, jobs, told, marked>>
    BY DEF Ask, CreateConversation, SendMessage, MarkAsReadByUser, OpenByUser, MarkAsReadByAdmin,
           OpenByAdmin, CloseChat, rows
  <1>2. [Next]_vars
    BY DEF Next
  <1>3. LinksStay /\ LinkIds' /\ \A k \in links' : con[k.con] # None
    BY <1>1, SameLinks DEF LinkInv
  <1>4. \A j \in jobs' : \A a \in j.todo : Linked(a, j.con)
    BY <1>1 DEF LinkInv, LinksKnown
  <1>5. ASSUME NEW q, BeginWith(r, q)
        PROVE  req'[r].pc = q.pc /\ req'[r].who = q.who
    BY <1>5 DEF BeginWith, Served
  <1>6. ASSUME NEW pc, NEW v, NEW c, NEW msg, NEW fresh, Begin(r, pc, v, c, msg, fresh)
        PROVE  req'[r].pc = pc /\ req'[r].who = v
    BY <1>5, <1>6 DEF Begin
  <1>7. ASSUME NEW c \in Chats, NEW a \in Admins, MarkAsReadByAdmin(r, a, c), req'[r].pc = "update"
        PROVE  \E l \in links : l.id = req'[r].link /\ l.admin = req'[r].who /\ l.con = req'[r].con
    <2>1. PICK l \in LinksOf(a, c) :
            BeginWith(r, [pc |-> "update", who |-> a, con |-> c, msg |-> con[c].last,
                          link |-> l.id, fresh |-> FALSE])
      BY <1>6, <1>7 DEF MarkAsReadByAdmin
    <2>2. PICK q : q = [pc |-> "update", who |-> a, con |-> c, msg |-> con[c].last,
                        link |-> l.id, fresh |-> FALSE]
      OBVIOUS
    <2>3. req'[r] = q /\ q.link = l.id /\ q.who = a /\ q.con = c
      BY <2>1, <2>2 DEF BeginWith, Served
    <2> QED  BY <2>3 DEF LinksOf
  <1>8. ASSUME req'[r].pc = "update"
        PROVE  \E l \in links : l.id = req'[r].link /\ l.admin = req'[r].who /\ l.con = req'[r].con
    BY <1>6, <1>7, <1>8 DEF Ask, CreateConversation, SendMessage, MarkAsReadByUser, OpenByUser,
                            OpenByAdmin, CloseChat
  <1>9. \A s \in Requests : req'[s].pc = "update" =>
          \/ req'[s] = req[s]
          \/ \E l \in links : l.id = req'[s].link /\ l.admin = req'[s].who /\ l.con = req'[s].con
    BY <1>8, ServeMoves DEF Moves
  <1>10. \A v \in Viewers, c \in Chats : marked'[v][c] = marked[v][c] /\ told'[v][c] = told[v][c]
    BY <1>1
  <1>11. ASSUME NEW c \in Chats, NEW a \in Admins, MarkAsReadByAdmin(r, a, c)
         PROVE  req'[r].pc # "mark"
    <2>1. CASE Begin(r, "find", a, c, con[c].last, FALSE)
      BY <1>6, <2>1
    <2>2. ASSUME NEW l, BeginWith(r, [pc |-> "update", who |-> a, con |-> c, msg |-> con[c].last,
                                      link |-> l, fresh |-> FALSE])
          PROVE  req'[r].pc # "mark"
      <3>1. PICK q : q = [pc |-> "update", who |-> a, con |-> c, msg |-> con[c].last,
                          link |-> l, fresh |-> FALSE]
        OBVIOUS
      <3>2. q.pc = "update" /\ req'[r].pc = q.pc
        BY <1>5, <2>2, <3>1
      <3> QED  BY <3>2
    <2> QED  BY <1>11, <2>1, <2>2 DEF MarkAsReadByAdmin
  <1>12. req'[r].pc = "mark" => req'[r].who \in Users
    BY <1>6, <1>11 DEF Ask, CreateConversation, SendMessage, MarkAsReadByUser, OpenByUser,
                       OpenByAdmin, CloseChat
  <1>13. \A s \in Requests : req'[s].pc = "mark" => req'[s] = req[s] \/ req'[s].who \in Users
    BY <1>12, ServeMoves DEF Moves
  <1> QED  BY <1>2, <1>3, <1>4, <1>9, <1>10, <1>13, LinkKept

\* A mark and the UPDATE of a link are what a request begins with.
LEMMA ServePc ==
    ASSUME Store, Served, NEW r \in Requests, Serve(r) \/ RequestFails(r)
    PROVE  req'[r].pc \notin {"update", "mark"}
  <1>1. req[r] \in Request
    BY ServedRow DEF Serve, ReadChat, InsertMessage, CommitMessage, SetLastMessage, Announce, SaveRead,
                     UpdateLink, FindLink, AddLink, OpenPage, SaveClosed, RequestFails
  <1>2. Respond(r) => req'[r].pc = "idle"
    BY DEF Respond, Idle, Served
  <1>3. \A pc : Goto(r, pc) => req'[r].pc = pc
    BY <1>1 DEF Goto, Request, Served
  <1>4. \A pc, msg : req' = [req EXCEPT ![r].pc = pc, ![r].msg = msg] => req'[r].pc = pc
    BY <1>1 DEF Request, Served
  <1>5. CASE \/ ReadChat(r) \/ InsertMessage(r) \/ CommitMessage(r) \/ SetLastMessage(r) \/ Announce(r)
    BY <1>2, <1>3, <1>4, <1>5 DEF ReadChat, InsertMessage, CommitMessage, SetLastMessage, Announce
  <1>6. CASE SaveRead(r) \/ UpdateLink(r) \/ OpenPage(r) \/ SaveClosed(r) \/ RequestFails(r)
    BY <1>2, <1>6 DEF SaveRead, UpdateLink, OpenPage, SaveClosed, RequestFails
  <1>7. CASE FindLink(r) \/ AddLink(r)
    BY <1>2, <1>3, <1>4, <1>7 DEF FindLink, AddLink
  <1> QED  BY <1>5, <1>6, <1>7 DEF Serve

LEMMA ServeLinks ==
    ASSUME Store, Served, LinkInv, NEW r \in Requests, Serve(r) \/ RequestFails(r)
    PROVE  LinkInv'
  <1> USE DEF rows, history
  <1>1. [Next]_vars
    BY DEF Next
  <1>2. /\ \A s \in Requests : req'[s].pc = "update" => req'[s] = req[s]
        /\ \A s \in Requests : req'[s].pc = "mark" => req'[s] = req[s]
    BY ServeMoves, ServePc DEF Moves
  <1>3. \A j \in jobs : \A a \in j.todo : Linked(a, j.con)
    BY DEF LinkInv, LinksKnown
  <1>4. \A k \in links : con[k.con] # None
    BY LinkRow
  <1>5. PICK old : old = req[r]
    OBVIOUS
  <1>6. old.pc # "idle"
    BY <1>5 DEF Serve, ReadChat, InsertMessage, CommitMessage, SetLastMessage, Announce, SaveRead,
                UpdateLink, FindLink, AddLink, OpenPage, SaveClosed, RequestFails
  <1>7. old \in Request /\ old.con \in Chats /\ old.who \in Viewers /\ con[old.con] # None
        /\ old.msg \in 0 .. MaxMessages
    BY <1>5, <1>6, ServedRow, SupportsAssumption
  <1>8. ASSUME UNCHANGED <<links, told, marked>>,
               \A j \in jobs' : j \in jobs \/ j.todo = {}
        PROVE  LinkInv'
    <2>1. LinksStay /\ LinkIds' /\ \A k \in links' : con[k.con] # None
      BY <1>4, <1>8, SameLinks
    <2>2. \A j \in jobs' : \A a \in j.todo : Linked(a, j.con)
      BY <1>3, <1>8
    <2>3. \A v \in Viewers, c \in Chats : marked'[v][c] = marked[v][c] /\ told'[v][c] = told[v][c]
      BY <1>8
    <2> QED  BY <1>1, <1>2, <2>1, <2>2, <2>3, LinkKept
  <1>9. ASSUME marked' = [marked EXCEPT ![old.who][old.con] = old.msg],
               Tell(old.who, old.con, old.msg), jobs' = jobs,
               LinksStay, LinkIds', \A k \in links' : con[k.con] # None,
               old.who \in Admins => Linked(old.who, old.con)'
        PROVE  LinkInv'
    <2>1. \A v \in Viewers, c \in Chats :
            /\ marked'[v][c] = IF v = old.who /\ c = old.con THEN old.msg ELSE marked[v][c]
            /\ told'[v][c] = IF v = old.who /\ c = old.con THEN old.msg ELSE told[v][c]
      BY <1>7, <1>9, Entry DEF Tell, Store
    <2>2. \A v \in Viewers, c \in Chats : marked'[v][c] = marked[v][c] \/ con[c] # None
      BY <1>7, <2>1
    <2>3. \A v \in Viewers, c \in Chats :
             told'[v][c] = told[v][c] \/ (con[c] # None /\ (v \in Admins => Linked(v, c)'))
      BY <1>7, <1>9, <2>1
    <2>4. \A j \in jobs' : \A a \in j.todo : Linked(a, j.con)
      BY <1>3, <1>9
    <2> QED  BY <1>1, <1>2, <1>9, <2>2, <2>3, <2>4, LinkKept
  <1>10. CASE \/ ReadChat(r) \/ InsertMessage(r) \/ CommitMessage(r) \/ SetLastMessage(r) \/ OpenPage(r)
              \/ RequestFails(r)
    BY <1>8, <1>10 DEF ReadChat, InsertMessage, CommitMessage, SetLastMessage, OpenPage, RequestFails
  <1>11. CASE Announce(r) \/ SaveClosed(r)
    <2>1. UNCHANGED <<links, told, marked>>
      BY <1>11 DEF Announce, SaveClosed
    <2>2. \A j \in jobs' : j \in jobs \/ j.todo = {}
      BY <1>11 DEF Announce, SaveClosed
    <2> QED  BY <1>8, <2>1, <2>2
  <1>12. CASE SaveRead(r)
    <2>1. old.who \notin Admins
      BY <1>5, <1>12, SupportsAssumption DEF LinkInv, LinksKnown, SaveRead
    <2>2. LinksStay /\ LinkIds' /\ \A k \in links' : con[k.con] # None
      BY <1>4, <1>12, SameLinks DEF SaveRead
    <2> QED  BY <1>5, <1>9, <1>12, <2>1, <2>2 DEF SaveRead
  <1>13. CASE UpdateLink(r)
    <2>1. links' = {IF l.id = old.link THEN [l EXCEPT !.read = old.msg] ELSE l : l \in links}
      BY <1>5, <1>13 DEF UpdateLink
    <2>2. old.msg \in Nat
      BY <1>7
    <2>7. PICK id : id = old.link
      OBVIOUS
    <2>8. links' = {IF l.id = id THEN [l EXCEPT !.read = old.msg] ELSE l : l \in links}
      BY <2>1, <2>7
    <2>9. PICK msg \in Nat : msg = old.msg
      BY <2>2
    <2>10. links' = {IF l.id = id THEN [l EXCEPT !.read = msg] ELSE l : l \in links}
      BY <2>8, <2>9
    <2>11. /\ LinksStay /\ LinkIds'
           /\ \A k \in links' : \E l \in links :
                /\ k.id = l.id /\ k.admin = l.admin /\ k.con = l.con
                /\ k.read = IF l.id = id THEN msg ELSE l.read
      BY <2>10, LinkUpdated DEF LinkInv
    <2>3. /\ LinksStay /\ LinkIds'
          /\ \A k \in links' : \E l \in links : k.con = l.con
      BY <2>11
    <2>4. \A k \in links' : con[k.con] # None
      BY <1>4, <2>3
    <2>5. Linked(old.who, old.con)
      BY <1>5, <1>13 DEF LinkInv, LinksKnown, UpdateLink, Linked
    <2>6. Linked(old.who, old.con)'
      BY <2>3, <2>5, LinkedStays
    <2> QED  BY <1>5, <1>9, <1>13, <2>3, <2>4, <2>6 DEF UpdateLink
  <1>14. CASE FindLink(r)
    <2>1. LinksStay /\ LinkIds' /\ \A k \in links' : con[k.con] # None
      BY <1>4, <1>14, SameLinks DEF FindLink
    <2>2. CASE UNCHANGED <<told, marked>>
      BY <1>8, <1>14, <2>2 DEF FindLink
    <2>3. ASSUME NEW l \in LinksOf(old.who, old.con),
                 marked' = [marked EXCEPT ![old.who][old.con] = old.msg],
                 Tell(old.who, old.con, old.msg)
          PROVE  LinkInv'
      <3>1. Linked(old.who, old.con)
        BY <2>3, LinkedOf
      <3>2. Linked(old.who, old.con)'
        BY <2>1, <3>1, LinkedStays
      <3> QED  BY <1>9, <1>14, <2>1, <2>3, <3>2 DEF FindLink
    <2> QED  BY <1>5, <1>14, <2>2, <2>3 DEF FindLink
  <1>15. CASE AddLink(r)
    <2>1. PICK l : l = [id |-> Cardinality(links) + 1, admin |-> old.who, con |-> old.con, read |-> old.msg]
      OBVIOUS
    <2>2. l.id = Cardinality(links) + 1 /\ l.admin = old.who /\ l.con = old.con
      BY <2>1
    <2>3. links' = links \cup {l}
      BY <1>5, <1>15, <2>1 DEF AddLink
    <2>4. LinksStay /\ LinkIds'
      BY <2>2, <2>3, LinkAdded DEF LinkInv
    <2>5. \A k \in links' : con[k.con] # None
      BY <1>4, <1>7, <2>2, <2>3
    <2>6. Linked(old.who, old.con)'
      BY <2>2, <2>3 DEF Linked
    <2>7. CASE UNCHANGED <<told, marked>>
      <3>1. \A v \in Viewers, c \in Chats : marked'[v][c] = marked[v][c] /\ told'[v][c] = told[v][c]
        BY <2>7
      <3>2. \A j \in jobs' : \A a \in j.todo : Linked(a, j.con)
        BY <1>3, <1>15 DEF AddLink
      <3> QED  BY <1>1, <1>2, <2>4, <2>5, <3>1, <3>2, LinkKept
    <2>8. CASE /\ marked' = [marked EXCEPT ![old.who][old.con] = old.msg]
               /\ Tell(old.who, old.con, old.msg)
      BY <1>9, <1>15, <2>4, <2>5, <2>6, <2>8 DEF AddLink
    <2> QED  BY <1>5, <1>15, <2>7, <2>8 DEF AddLink
  <1> QED  BY <1>10, <1>11, <1>12, <1>13, <1>14, <1>15 DEF Serve

LEMMA CallbackLinks ==
    ASSUME Store, Served, LinkInv, Callback
    PROVE  LinkInv'
  <1> USE DEF rows, history
  <1>1. [Next]_vars /\ UNCHANGED <<links, marked, req>>
    BY DEF Next, Callback, TellOwner, TellAdmin
  <1>2. LinksStay /\ LinkIds' /\ \A k \in links' : con[k.con] # None
    BY <1>1, LinkRow, SameLinks
  <1>3. ASSUME NEW j \in jobs, NEW v \in Viewers, Tell(v, j.con, j.msg), v \in Admins => Linked(v, j.con),
               \A k \in jobs' : \A a \in k.todo : Linked(a, k.con)
        PROVE  LinkInv'
    <2>1. j.con \in Chats /\ con[j.con] # None /\ j.msg \in Nat
      BY DEF Store, Job
    <2>2. \A u \in Viewers, c \in Chats :
            told'[u][c] = IF u = v /\ c = j.con THEN j.msg ELSE told[u][c]
      BY <1>3, <2>1, Entry DEF Tell, Store
    <2>3. \A u \in Viewers, c \in Chats :
            told'[u][c] = told[u][c] \/ (con[c] # None /\ (u \in Admins => Linked(u, c)'))
      BY <1>2, <1>3, <2>1, <2>2, LinkedStays
    <2>4. \A u \in Viewers, c \in Chats : marked'[u][c] = marked[u][c]
      BY <1>1
    <2>5. \A s \in Requests : req'[s] = req[s]
      BY <1>1
    <2> QED  BY <1>1, <1>2, <1>3, <2>3, <2>4, <2>5, LinkKept
  <1>4. ASSUME NEW j \in jobs, TellOwner(j)
        PROVE  LinkInv'
    <2>1. PICK admins : admins = {a \in Admins : LinksOf(a, j.con) # {}}
      OBVIOUS
    <2>2. j \in Job /\ con[j.con] \in Con
      BY DEF Store, Job
    <2>3. con[j.con].owner \in Users /\ con[j.con].owner \in Viewers /\ con[j.con].owner \notin Admins
      BY <2>2, SupportsAssumption DEF Con, Viewers
    <2>4. PICK next : next = [j EXCEPT !.stage = "admins", !.todo = admins]
      OBVIOUS
    <2>5. next.todo = admins /\ next.con = j.con
      BY <2>2, <2>4 DEF Job
    <2>6. jobs' \subseteq jobs \cup {next}
      BY <1>4, <2>1, <2>4 DEF TellOwner
    <2>7. \A k \in jobs' : \A a \in k.todo : Linked(a, k.con)
      BY <2>1, <2>5, <2>6, LinkedOf DEF LinkInv, LinksKnown
    <2>8. Tell(con[j.con].owner, j.con, j.msg)
      BY <1>4 DEF TellOwner
    <2> QED  BY <1>3, <2>3, <2>7, <2>8
  <1>5. ASSUME NEW j \in jobs, NEW a \in Admins, TellAdmin(j, a)
        PROVE  LinkInv'
    <2>1. j \in Job /\ a \in j.todo /\ Linked(a, j.con)
      BY <1>5 DEF Store, TellAdmin, LinkInv, LinksKnown
    <2>2. PICK next : next = [j EXCEPT !.todo = @ \ {a}]
      OBVIOUS
    <2>3. next.todo \subseteq j.todo /\ next.con = j.con
      BY <2>1, <2>2 DEF Job
    <2>4. jobs' \subseteq jobs \cup {next}
      BY <1>5, <2>2 DEF TellAdmin
    <2>5. \A k \in jobs' : \A b \in k.todo : Linked(b, k.con)
      BY <2>3, <2>4 DEF LinkInv, LinksKnown
    <2>6. Tell(a, j.con, j.msg) /\ a \in Viewers
      BY <1>5 DEF TellAdmin, Viewers
    <2> QED  BY <1>3, <2>1, <2>5, <2>6
  <1> QED  BY <1>4, <1>5 DEF Callback

LEMMA StepLinks ==
    ASSUME Store, Served, LinkInv, [Next]_vars
    PROVE  LinkInv'
  <1>1. CASE Scroll \/ Restart \/ UNCHANGED vars
    <2>1. UNCHANGED <<links, told, marked>> /\ jobs' \subseteq jobs
      <3>1. Scroll => UNCHANGED <<links, told, marked, jobs>>
        BY DEF Scroll, ScrollBefore, ScrollAfter, rows, history
      <3>2. UNCHANGED vars => UNCHANGED <<links, told, marked, jobs>>
        BY DEF vars
      <3>3. Restart => UNCHANGED <<links, told, marked>> /\ jobs' = {}
        BY DEF Restart, rows
      <3> QED  BY <1>1, <3>1, <3>2, <3>3
    <2>2. \A s \in Requests : req'[s] = req[s] \/ req'[s].pc = "idle"
      <3>1. CASE Scroll \/ UNCHANGED vars
        BY <3>1 DEF Scroll, ScrollBefore, ScrollAfter, vars
      <3>2. CASE Restart
        <4>1. Idle.pc = "idle" /\ req' = [s \in Requests |-> Idle]
          BY <3>2 DEF Restart, Idle
        <4> QED  BY <4>1
      <3> QED  BY <1>1, <3>1, <3>2
    <2>3. LinksStay /\ LinkIds' /\ \A k \in links' : con[k.con] # None
      BY <2>1, LinkRow, SameLinks
    <2>4. \A j \in jobs' : \A a \in j.todo : Linked(a, j.con)
      BY <2>1 DEF LinkInv, LinksKnown
    <2>5. \A v \in Viewers, c \in Chats : marked'[v][c] = marked[v][c] /\ told'[v][c] = told[v][c]
      BY <2>1
    <2> QED  BY <2>2, <2>3, <2>4, <2>5, LinkKept
  <1> QED  BY <1>1, AskLinks, ServeLinks, CallbackLinks DEF Next

LEMMA InitLinks ==
    ASSUME Init
    PROVE  LinkInv /\ OneAtATime
  <1>1. /\ links = {} /\ jobs = {} /\ \A r \in Requests : req[r].pc = "idle"
        /\ \A v \in Viewers, c \in Chats : marked[v][c] = 0 /\ told[v][c] = 0
    BY DEF Init, Idle
  <1>2. LinkIds /\ OneAtATime
    BY <1>1 DEF LinkIds, OneAtATime
  <1>3. NothingYet /\ LinksKnown
    BY <1>1 DEF NothingYet, LinksKnown, Viewers
  <1> QED  BY <1>2, <1>3 DEF LinkInv

\* Cursors are what their viewers have marked, and an admin has one link to a chat.
TablesTrue ==
    /\ \A c \in Chats : con[c] # None =>
         /\ con[c].read = marked[con[c].owner][c]
         /\ \A a \in Admins : ~ Linked(a, c) => marked[a][c] = 0
    /\ \A l \in links : l.read = marked[l.admin][l.con]
    /\ \A l, k \in links : l.admin = k.admin /\ l.con = k.con => l = k

\* What a request that looks for a link knows.
CursorKnown(q) ==
    /\ q.pc = "find" => IF q.fresh THEN q.msg = 0 ELSE ~ Linked(q.who, q.con)
    /\ q.pc = "add" => ~ Linked(q.who, q.con) /\ (q.fresh => q.msg = 0)

CursorInv == ~overlapped => TablesTrue /\ \A r \in Requests : CursorKnown(req[r])

\* The owner of a chat is who marks it as read.
OwnersMark == \A r \in Requests : req[r].pc = "mark" => con[req[r].con].owner = req[r].who

\* No cursor is written; a new chat has none.
RowsAlike ==
    \A c \in Chats : con'[c] # None =>
        IF con[c] = None THEN con'[c].read = 0 /\ con'[c].owner \in Users
        ELSE con'[c].owner = con[c].owner /\ con'[c].read = con[c].read

LEMMA TablesKept ==
    ASSUME Store, LinkInv, TablesTrue, RowsAlike, UNCHANGED <<links, marked>>
    PROVE  TablesTrue'
  <1>1. ASSUME NEW c \in Chats, con'[c] # None
        PROVE  /\ con'[c].read = marked[con'[c].owner][c]
               /\ \A a \in Admins : ~ Linked(a, c) => marked[a][c] = 0
    <2>1. CASE con[c] = None
      <3>1. con'[c].read = 0 /\ con'[c].owner \in Viewers /\ Admins \subseteq Viewers
        BY <1>1, <2>1 DEF RowsAlike, Viewers
      <3> QED  BY <2>1, <3>1 DEF LinkInv, NothingYet
    <2>2. CASE con[c] # None
      BY <1>1, <2>2 DEF RowsAlike, TablesTrue
    <2> QED  BY <2>1, <2>2
  <1> QED  BY <1>1 DEF TablesTrue, Linked

\* Steps that write neither cursors nor links.
LEMMA AlikeSteps ==
    ASSUME Store, Served, NEW r \in Requests,
           \/ Ask(r) \/ ReadChat(r) \/ InsertMessage(r) \/ CommitMessage(r) \/ SetLastMessage(r)
           \/ Announce(r) \/ OpenPage(r) \/ SaveClosed(r) \/ RequestFails(r)
    PROVE  RowsAlike /\ UNCHANGED <<links, marked>>
  <1> USE DEF rows, history
  <1>1. ASSUME con' = con
        PROVE  RowsAlike
    BY <1>1 DEF RowsAlike
  <1>8. Ask(r) => UNCHANGED <<links, marked>>
    BY DEF Ask, CreateConversation, SendMessage, MarkAsReadByUser, OpenByUser, MarkAsReadByAdmin,
           OpenByAdmin, CloseChat
  <1>9. ReadChat(r) \/ InsertMessage(r) \/ CommitMessage(r) \/ SetLastMessage(r)
        => UNCHANGED <<links, marked>>
    BY DEF ReadChat, InsertMessage, CommitMessage, SetLastMessage
  <1>10. Announce(r) \/ OpenPage(r) \/ SaveClosed(r) \/ RequestFails(r) => UNCHANGED <<links, marked>>
    BY DEF Announce, OpenPage, SaveClosed, RequestFails
  <1>2. UNCHANGED <<links, marked>>
    BY <1>8, <1>9, <1>10
  <1>3. ASSUME NEW c \in Chats, NEW u \in Users, CreateConversation(r, u, c)
        PROVE  RowsAlike
    <2>1. PICK row : row = [owner |-> u, status |-> "ACTIVE", last |-> 0, read |-> 0]
      OBVIOUS
    <2>2. row.read = 0 /\ row.owner = u /\ con[c] = None /\ con' = [con EXCEPT ![c] = row]
      BY <1>3, <2>1 DEF CreateConversation
    <2> QED  BY <2>2 DEF RowsAlike, Store
  <1>4. CASE SetLastMessage(r)
    <2>1. PICK c \in Chats : c = req[r].con /\ con[c] \in Con /\ con[c] # None
      BY <1>4, ServedRow, SupportsAssumption DEF SetLastMessage
    <2>2. PICK row : row = [con[c] EXCEPT !.last = req[r].msg]
      OBVIOUS
    <2>3. row.read = con[c].read /\ row.owner = con[c].owner
      BY <2>1, <2>2 DEF Con
    <2>4. con' = [con EXCEPT ![c] = row]
      BY <1>4, <2>1, <2>2 DEF SetLastMessage, Store
    <2> QED  BY <1>2, <2>1, <2>3, <2>4 DEF RowsAlike, Store
  <1>5. CASE SaveClosed(r)
    <2>1. PICK c \in Chats : c = req[r].con /\ con[c] \in Con /\ con[c] # None
      BY <1>5, ServedRow, SupportsAssumption DEF SaveClosed
    <2>2. PICK row : row = [con[c] EXCEPT !.status = "CLOSED"]
      OBVIOUS
    <2>3. row.read = con[c].read /\ row.owner = con[c].owner
      BY <2>1, <2>2 DEF Con
    <2>4. con' = [con EXCEPT ![c] = row]
      BY <1>5, <2>1, <2>2 DEF SaveClosed, Store
    <2> QED  BY <1>2, <2>1, <2>3, <2>4 DEF RowsAlike, Store
  <1>6. Ask(r) => con' = con \/ \E c \in Chats, u \in Users : CreateConversation(r, u, c)
    BY DEF Ask, SendMessage, MarkAsReadByUser, OpenByUser, MarkAsReadByAdmin, OpenByAdmin, CloseChat
  <1>7. ReadChat(r) \/ InsertMessage(r) \/ CommitMessage(r) \/ Announce(r) \/ OpenPage(r) \/ RequestFails(r)
        => con' = con
    BY DEF ReadChat, InsertMessage, CommitMessage, Announce, OpenPage, RequestFails
  <1> QED  BY <1>1, <1>2, <1>3, <1>4, <1>5, <1>6, <1>7

LEMMA AskCursors ==
    ASSUME Store, Served, LinkInv, CursorInv, NEW r \in Requests, Ask(r)
    PROVE  CursorInv'
  <1> SUFFICES ASSUME ~overlapped'
               PROVE  TablesTrue' /\ \A s \in Requests : CursorKnown(req[s])'
    BY DEF CursorInv
  <1>1. ~overlapped /\ \A s \in Requests : s # r => req'[s].pc = "idle"
    BY BeginSolo
  <1>2. RowsAlike /\ UNCHANGED <<links, marked>>
    BY AlikeSteps
  <1>3. TablesTrue'
    BY <1>1, <1>2, TablesKept DEF CursorInv
  <1>4. \A s \in Requests : s # r => CursorKnown(req[s])'
    BY <1>1 DEF CursorKnown
  <1>5. ASSUME NEW q, BeginWith(r, q), CursorKnown(q)
        PROVE  CursorKnown(req[r])'
    BY <1>2, <1>5 DEF BeginWith, Served, CursorKnown, Linked
  <1>6. ASSUME NEW pc, NEW v, NEW c, NEW msg, NEW fresh, Begin(r, pc, v, c, msg, fresh),
               pc # "add", pc = "find" => IF fresh THEN msg = 0 ELSE ~ Linked(v, c)
        PROVE  CursorKnown(req[r])'
    <2>1. PICK q : q = [pc |-> pc, who |-> v, con |-> c, msg |-> msg, link |-> 0, fresh |-> fresh]
      OBVIOUS
    <2>2. CursorKnown(q)
      BY <1>6, <2>1 DEF CursorKnown
    <2> QED  BY <1>5, <1>6, <2>1, <2>2 DEF Begin
  <1>7. ASSUME NEW c \in Chats, NEW a \in Admins, MarkAsReadByAdmin(r, a, c)
        PROVE  CursorKnown(req[r])'
    <2>1. CASE LinksOf(a, c) = {} /\ Begin(r, "find", a, c, con[c].last, FALSE)
      BY <1>6, <2>1, LinkedOf
    <2>2. ASSUME NEW l, BeginWith(r, [pc |-> "update", who |-> a, con |-> c, msg |-> con[c].last,
                                      link |-> l, fresh |-> FALSE])
          PROVE  CursorKnown(req[r])'
      <3>1. PICK q : q = [pc |-> "update", who |-> a, con |-> c, msg |-> con[c].last,
                          link |-> l, fresh |-> FALSE]
        OBVIOUS
      <3>2. CursorKnown(q)
        BY <3>1 DEF CursorKnown
      <3> QED  BY <1>5, <2>2, <3>1, <3>2
    <2> QED  BY <1>7, <2>1, <2>2 DEF MarkAsReadByAdmin
  <1>8. CursorKnown(req[r])'
    BY <1>6, <1>7 DEF Ask, CreateConversation, SendMessage, MarkAsReadByUser, OpenByUser, OpenByAdmin,
                      CloseChat
  <1> QED  BY <1>3, <1>4, <1>8

LEMMA ServeCursors ==
    ASSUME Store, Served, OneAtATime, LinkInv, CursorInv, OwnersMark, NEW r \in Requests,
           Serve(r) \/ RequestFails(r)
    PROVE  CursorInv'
  <1>1. overlapped' = overlapped /\ req[r].pc # "idle"
    BY DEF Serve, ReadChat, InsertMessage, CommitMessage, SetLastMessage, Announce, SaveRead,
           UpdateLink, FindLink, AddLink, OpenPage, SaveClosed, RequestFails, history
  <1> SUFFICES ASSUME ~overlapped'
               PROVE  TablesTrue' /\ \A s \in Requests : CursorKnown(req[s])'
    BY DEF CursorInv
  <1>2. TablesTrue /\ CursorKnown(req[r])
    BY <1>1 DEF CursorInv
  <1>3. PICK old : old = req[r]
    OBVIOUS
  <1>4. old \in Request /\ old.con \in Chats /\ old.who \in Viewers /\ con[old.con] # None
        /\ con[old.con] \in Con /\ old.msg \in 0 .. MaxMessages /\ CursorKnown(old)
    BY <1>1, <1>2, <1>3, ServedRow, SupportsAssumption
  <1>5. \A s \in Requests : s # r => CursorKnown(req[s])'
    BY <1>1, Solo, ServeMoves DEF Moves, CursorKnown
  <1>6. ASSUME req'[r].pc \notin {"find", "add"}
        PROVE  CursorKnown(req[r])'
    BY <1>6 DEF CursorKnown
  <1>7. Respond(r) => req'[r].pc = "idle"
    BY DEF Respond, Idle, Served
  <1>8. \A pc : Goto(r, pc) => /\ req'[r].pc = pc /\ req'[r].who = old.who /\ req'[r].con = old.con
                               /\ req'[r].msg = old.msg /\ req'[r].fresh = old.fresh
    BY <1>3, <1>4 DEF Goto, Request, Served
  <1>9. \A pc, msg : req' = [req EXCEPT ![r].pc = pc, ![r].msg = msg] => req'[r].pc = pc
    BY <1>3, <1>4 DEF Request, Served
  <1>10. CASE \/ ReadChat(r) \/ InsertMessage(r) \/ CommitMessage(r) \/ SetLastMessage(r)
              \/ Announce(r) \/ OpenPage(r) \/ SaveClosed(r) \/ RequestFails(r)
    <2>1. TablesTrue'
      BY <1>2, <1>10, AlikeSteps, TablesKept
    <2>2. req'[r].pc \notin {"find", "add"}
      <3>1. CASE \/ ReadChat(r) \/ InsertMessage(r) \/ CommitMessage(r) \/ SetLastMessage(r)
        BY <1>7, <1>8, <1>9, <3>1 DEF ReadChat, InsertMessage, CommitMessage, SetLastMessage
      <3>2. CASE Announce(r) \/ OpenPage(r) \/ SaveClosed(r) \/ RequestFails(r)
        BY <1>7, <3>2 DEF Announce, OpenPage, SaveClosed, RequestFails
      <3> QED  BY <1>10, <3>1, <3>2
    <2> QED  BY <1>5, <1>6, <2>1, <2>2
  <1>11. ASSUME marked' = [marked EXCEPT ![old.who][old.con] = old.msg]
         PROVE  \A v \in Viewers, c \in Chats :
                  marked'[v][c] = IF v = old.who /\ c = old.con THEN old.msg ELSE marked[v][c]
    BY <1>4, <1>11, Entry DEF Store
  <1>12. CASE SaveRead(r)
    <2>1. PICK c \in Chats : c = old.con
      BY <1>4
    <2>2. old.who = con[c].owner /\ old.who \in Users
      BY <1>3, <1>12, <2>1 DEF OwnersMark, SaveRead, LinkInv, LinksKnown
    <2>3. PICK row : row = [con[c] EXCEPT !.read = old.msg]
      OBVIOUS
    <2>4. row.read = old.msg /\ row.owner = old.who
      BY <1>4, <2>1, <2>2, <2>3 DEF Con
    <2>5. con' = [con EXCEPT ![c] = row]
      BY <1>3, <1>12, <2>1, <2>3 DEF SaveRead, Store
    <2>6. \A d \in Chats : con'[d] = IF d = c THEN row ELSE con[d]
      BY <2>5 DEF Store
    <2>7. \A v \in Viewers, d \in Chats :
             marked'[v][d] = IF v = old.who /\ d = c THEN old.msg ELSE marked[v][d]
      BY <1>3, <1>11, <1>12, <2>1 DEF SaveRead
    <2>8. links' = links /\ Users \cap Admins = {} /\ Admins \subseteq Viewers
      BY <1>12, SupportsAssumption DEF SaveRead, Viewers
    <2>9. ASSUME NEW d \in Chats, con'[d] # None
          PROVE  /\ con'[d].read = marked'[con'[d].owner][d]
                 /\ \A a \in Admins : ~ Linked(a, d) => marked'[a][d] = 0
      <3>1. \A a \in Admins : marked'[a][d] = marked[a][d]
        BY <2>2, <2>7, <2>8
      <3>2. CASE d = c
        BY <1>2, <1>4, <2>1, <2>4, <2>6, <2>7, <3>1, <3>2 DEF TablesTrue
      <3>3. CASE d # c
        <4>1. con'[d] = con[d] /\ con[d] \in Con
          BY <2>6, <2>9, <3>3 DEF Store
        <4>2. con[d].owner \in Viewers
          BY <4>1 DEF Con, Viewers
        <4> QED  BY <1>2, <2>7, <2>9, <3>1, <3>3, <4>1, <4>2 DEF TablesTrue
      <3> QED  BY <3>2, <3>3
    <2>10. \A l \in links : l.read = marked'[l.admin][l.con]
      BY <1>2, <2>2, <2>7, <2>8, LinkRow DEF TablesTrue
    <2>11. TablesTrue'
      BY <1>2, <2>8, <2>9, <2>10 DEF TablesTrue, Linked
    <2> QED  BY <1>5, <1>6, <1>7, <1>12, <2>11 DEF SaveRead
  <1>13. CASE UpdateLink(r)
    <2>1. PICK id, msg : id = old.link /\ msg = old.msg
      OBVIOUS
    <2>2. links' = {IF l.id = id THEN [l EXCEPT !.read = msg] ELSE l : l \in links} /\ msg \in Nat
      BY <1>3, <1>4, <1>13, <2>1 DEF UpdateLink
    <2>3. /\ LinksStay /\ LinkIds'
          /\ \A k \in links' : \E l \in links :
                /\ k.id = l.id /\ k.admin = l.admin /\ k.con = l.con
                /\ k.read = IF l.id = id THEN msg ELSE l.read
      BY <2>2, LinkUpdated DEF LinkInv
    <2>4. PICK mine \in links : mine.id = id /\ mine.admin = old.who /\ mine.con = old.con
      BY <1>3, <1>13, <2>1 DEF LinkInv, LinksKnown, UpdateLink
    <2>5. \A v \in Viewers, d \in Chats :
             marked'[v][d] = IF v = old.who /\ d = old.con THEN msg ELSE marked[v][d]
      BY <1>3, <1>11, <1>13, <2>1 DEF UpdateLink
    <2>6. con' = con /\ old.who \in Admins /\ Admins \subseteq Viewers /\ Users \cap Admins = {}
      BY <1>13, <2>4, LinkRow, SupportsAssumption DEF UpdateLink, Viewers
    <2>7. \A l \in links : l.admin = old.who /\ l.con = old.con <=> l.id = id
      BY <1>2, <2>4 DEF TablesTrue, LinkInv, LinkIds
    <2>8. ASSUME NEW k \in links' PROVE k.read = marked'[k.admin][k.con]
      <3>1. PICK l \in links : /\ k.admin = l.admin /\ k.con = l.con
                               /\ k.read = IF l.id = id THEN msg ELSE l.read
        BY <2>3
      <3>2. l.admin \in Viewers /\ l.con \in Chats
        BY <2>6, LinkRow
      <3> QED  BY <1>2, <2>5, <2>7, <3>1, <3>2 DEF TablesTrue
    <2>9. \A l, k \in links' : l.admin = k.admin /\ l.con = k.con => l = k
      <3> SUFFICES ASSUME NEW l \in links', NEW k \in links', l.admin = k.admin, l.con = k.con
                   PROVE  l = k
        OBVIOUS
      <3>1. PICK l0 \in links : l.id = l0.id /\ l.admin = l0.admin /\ l.con = l0.con
        BY <2>3
      <3>2. PICK k0 \in links : k.id = k0.id /\ k.admin = k0.admin /\ k.con = k0.con
        BY <2>3
      <3>3. l0 = k0
        BY <1>2, <3>1, <3>2 DEF TablesTrue
      <3> QED  BY <2>3, <3>1, <3>2, <3>3 DEF LinkIds
    <2>10. ASSUME NEW d \in Chats, con[d] # None
           PROVE  /\ con[d].read = marked'[con[d].owner][d]
                  /\ \A a \in Admins : ~ Linked(a, d)' => marked'[a][d] = 0
      <3>1. con[d].owner \in Users
        BY <2>10 DEF Store, Con
      <3>2. con[d].owner \in Viewers /\ con[d].owner # old.who
        BY <2>6, <3>1 DEF Viewers
      <3>3. con[d].read = marked'[con[d].owner][d]
        BY <1>2, <2>5, <2>10, <3>2 DEF TablesTrue
      <3>4. ASSUME NEW a \in Admins, ~ Linked(a, d)' PROVE marked'[a][d] = 0
        <4>1. ~ Linked(a, d)
          BY <2>3, <3>4, LinkedStays
        <4>2. ~ (a = old.who /\ d = old.con)
          BY <2>4, <4>1 DEF Linked
        <4> QED  BY <1>2, <2>5, <2>6, <2>10, <4>1, <4>2 DEF TablesTrue
      <3> QED  BY <3>3, <3>4
    <2>11. TablesTrue'
      BY <2>6, <2>8, <2>9, <2>10 DEF TablesTrue
    <2> QED  BY <1>5, <1>6, <1>7, <1>13, <2>11 DEF UpdateLink
  <1>14. CASE FindLink(r)
    <2>1. con' = con /\ links' = links /\ old.pc = "find"
      BY <1>3, <1>14 DEF FindLink, rows
    <2>2. CASE LinksOf(old.who, old.con) = {} /\ Goto(r, "add") /\ UNCHANGED marked
      <3>1. TablesTrue'
        BY <1>2, <2>1, <2>2, TablesKept DEF RowsAlike
      <3>2. ~ Linked(old.who, old.con)
        BY <2>2, LinkedOf
      <3>3. CursorKnown(req[r])'
        BY <1>4, <1>8, <2>1, <2>2, <3>2 DEF CursorKnown, Linked
      <3> QED  BY <1>5, <3>1, <3>3
    <2>3. ASSUME NEW l \in LinksOf(old.who, old.con),
                 old.fresh, req' = [req EXCEPT ![r].pc = "page", ![r].msg = l.read], UNCHANGED marked
          PROVE  TablesTrue' /\ \A s \in Requests : CursorKnown(req[s])'
      <3>1. TablesTrue'
        BY <1>2, <2>1, <2>3, TablesKept DEF RowsAlike
      <3>2. req'[r].pc = "page"
        BY <1>9, <2>3
      <3> QED  BY <1>5, <1>6, <3>1, <3>2
    <2>4. ASSUME NEW l \in LinksOf(old.who, old.con), ~ old.fresh
          PROVE  FALSE
      BY <1>4, <2>1, <2>4, LinkedOf DEF CursorKnown
    <2> QED  BY <1>3, <1>14, <2>2, <2>3, <2>4 DEF FindLink
  <1>15. CASE AddLink(r)
    <2>1. con' = con /\ old.pc = "add" /\ ~ Linked(old.who, old.con) /\ (old.fresh => old.msg = 0)
      BY <1>3, <1>4, <1>15 DEF AddLink, CursorKnown
    <2>2. PICK new : new = [id |-> Cardinality(links) + 1, admin |-> old.who, con |-> old.con,
                            read |-> old.msg]
      OBVIOUS
    <2>3. new.admin = old.who /\ new.con = old.con /\ new.read = old.msg
      BY <2>2
    <2>4. links' = links \cup {new}
      BY <1>3, <1>15, <2>2 DEF AddLink
    <2>5. old.who \in Admins /\ Admins \subseteq Viewers /\ Users \cap Admins = {}
      BY <1>3, <2>1, SupportsAssumption DEF Served, Sound, Viewers
    <2>6. marked[old.who][old.con] = 0
      BY <1>2, <1>4, <2>1, <2>5 DEF TablesTrue
    <2>7. \A v \in Viewers, d \in Chats :
             marked'[v][d] = IF v = old.who /\ d = old.con THEN old.msg ELSE marked[v][d]
      <3>1. CASE old.fresh
        BY <1>3, <1>15, <2>1, <2>6, <3>1 DEF AddLink
      <3>2. CASE ~ old.fresh
        BY <1>3, <1>11, <1>15, <3>2 DEF AddLink
      <3> QED  BY <3>1, <3>2
    <2>8. \A l \in links : ~ (l.admin = old.who /\ l.con = old.con)
      BY <2>1 DEF Linked
    <2>9. ASSUME NEW k \in links' PROVE k.read = marked'[k.admin][k.con]
      <3>1. CASE k = new
        BY <1>4, <2>3, <2>7, <3>1
      <3>2. CASE k \in links
        <4>1. k.admin \in Viewers /\ k.con \in Chats
          BY <2>5, <3>2, LinkRow
        <4> QED  BY <1>2, <2>7, <2>8, <3>2, <4>1 DEF TablesTrue
      <3> QED  BY <2>4, <3>1, <3>2
    <2>10. \A l, k \in links' : l.admin = k.admin /\ l.con = k.con => l = k
      BY <1>2, <2>3, <2>4, <2>8 DEF TablesTrue
    <2>11. ASSUME NEW d \in Chats, con[d] # None
           PROVE  /\ con[d].read = marked'[con[d].owner][d]
                  /\ \A a \in Admins : ~ Linked(a, d)' => marked'[a][d] = 0
      <3>1. con[d].owner \in Users
        BY <2>11 DEF Store, Con
      <3>2. con[d].owner \in Viewers /\ con[d].owner # old.who
        BY <2>5, <3>1 DEF Viewers
      <3>3. con[d].read = marked'[con[d].owner][d]
        BY <1>2, <2>7, <2>11, <3>2 DEF TablesTrue
      <3>4. ASSUME NEW a \in Admins, ~ Linked(a, d)' PROVE marked'[a][d] = 0
        <4>1. ~ Linked(a, d) /\ ~ (a = old.who /\ d = old.con)
          BY <2>3, <2>4, <3>4 DEF Linked
        <4> QED  BY <1>2, <2>5, <2>7, <2>11, <4>1 DEF TablesTrue
      <3> QED  BY <3>3, <3>4
    <2>12. TablesTrue'
      BY <2>1, <2>9, <2>10, <2>11 DEF TablesTrue
    <2>13. req'[r].pc \notin {"find", "add"}
      BY <1>3, <1>7, <1>8, <1>15 DEF AddLink
    <2> QED  BY <1>5, <1>6, <2>12, <2>13
  <1> QED  BY <1>10, <1>12, <1>13, <1>14, <1>15 DEF Serve

LEMMA StepCursors ==
    ASSUME Store, Served, OneAtATime, LinkInv, CursorInv, OwnersMark, [Next]_vars
    PROVE  CursorInv'
  <1>1. ASSUME RowsAlike, UNCHANGED <<links, marked, overlapped>>,
               \A s \in Requests : req'[s] = req[s] \/ req'[s].pc = "idle"
        PROVE  CursorInv'
    <2>1. TablesTrue => TablesTrue'
      BY <1>1, TablesKept
    <2>2. \A s \in Requests : CursorKnown(req[s]) => CursorKnown(req[s])'
      BY <1>1 DEF CursorKnown, Linked
    <2> QED  BY <1>1, <2>1, <2>2 DEF CursorInv
  <1>2. ASSUME con' = con
        PROVE  RowsAlike
    BY <1>2 DEF RowsAlike
  <1>3. Callback => UNCHANGED <<con, links, marked, overlapped, req>>
    BY DEF Callback, TellOwner, TellAdmin, rows, history
  <1>4. Scroll => UNCHANGED <<con, links, marked, overlapped, req>>
    BY DEF Scroll, ScrollBefore, ScrollAfter, rows, history
  <1>5. UNCHANGED vars => UNCHANGED <<con, links, marked, overlapped, req>>
    BY DEF vars
  <1>6. CASE Restart
    <2>1. Idle.pc = "idle" /\ req' = [s \in Requests |-> Idle]
          /\ UNCHANGED <<con, links, marked, overlapped>>
      BY <1>6 DEF Restart, Idle, rows
    <2> QED  BY <1>1, <1>2, <2>1
  <1>7. CASE UNCHANGED <<con, links, marked, overlapped, req>>
    BY <1>1, <1>2, <1>7
  <1> QED  BY <1>3, <1>4, <1>5, <1>6, <1>7, AskCursors, ServeCursors DEF Next

\* The table of messages is finite.
LEMMA FewMessages ==
    ASSUME IsFiniteSet(messages), [Next]_vars
    PROVE  IsFiniteSet(messages')
  <1>1. messages' = messages \/ \E m : messages' = messages \cup {m}
    <2>1. ASSUME NEW r \in Requests, CommitMessage(r)
          PROVE  \E m : messages' = messages \cup {m}
      BY <2>1 DEF CommitMessage
    <2>2. ASSUME NEW r \in Requests, Serve(r)
          PROVE  messages' = messages \/ \E m : messages' = messages \cup {m}
      BY <2>1, <2>2 DEF Serve, ReadChat, InsertMessage, SetLastMessage, Announce, SaveRead, UpdateLink,
                        FindLink, AddLink, OpenPage, SaveClosed, rows
    <2>3. ASSUME NEW r \in Requests, Ask(r) \/ RequestFails(r)
          PROVE  messages' = messages
      BY <2>3 DEF Ask, RequestFails, CreateConversation, SendMessage, MarkAsReadByUser, OpenByUser,
                  MarkAsReadByAdmin, OpenByAdmin, CloseChat, rows
    <2>4. CASE Callback \/ Restart \/ Scroll \/ UNCHANGED vars
      BY <2>4 DEF Callback, Restart, Scroll, ScrollBefore, ScrollAfter, TellOwner, TellAdmin, rows, vars
    <2> QED  BY <2>2, <2>3, <2>4 DEF Next
  <1> QED  BY <1>1, FS_AddElement

\* applyUserUnread and applyAdminUnread count what a true cursor says.
LEMMA UnreadCounted ==
    ASSUME Store, RowsNumbered, CursorInv, IsFiniteSet(messages)
    PROVE  UnreadIsTrue
  <1> SUFFICES ASSUME ~overlapped, NEW c \in Chats, con[c] # None
               PROVE  /\ UserUnread(c, con[c].owner) =
                           Cardinality({m \in MessagesOf(c) : /\ m.by # con[c].owner
                                                              /\ m.serial > marked[con[c].owner][c]})
                      /\ \A a \in Admins :
                           AdminUnread(c, a) = Cardinality({m \in MessagesOf(c) :
                                                              m.by # a /\ m.serial > marked[a][c]})
    BY DEF UnreadIsTrue
  <1>1. TablesTrue
    BY DEF CursorInv
  <1>2. \A m \in MessagesOf(c) : m.serial \in Nat /\ m.serial > 0
    BY MessageRow DEF MessagesOf, Serials
  <1>4. UserUnread(c, con[c].owner) =
          Cardinality({m \in MessagesOf(c) : m.by # con[c].owner /\ m.serial > marked[con[c].owner][c]})
    <2>1. PICK k : k = con[c].read
      OBVIOUS
    <2>2. k = marked[con[c].owner][c]
      BY <1>1, <2>1 DEF TablesTrue
    <2>3. {m \in MessagesOf(c) : m.by # con[c].owner /\ (k = 0 \/ m.serial > k)}
          = {m \in MessagesOf(c) : m.by # con[c].owner /\ m.serial > k}
      BY <1>2
    <2> QED  BY <2>1, <2>2, <2>3 DEF UserUnread
  <1>5. ASSUME NEW a \in Admins
        PROVE  AdminUnread(c, a) =
                 Cardinality({m \in MessagesOf(c) : m.by # a /\ m.serial > marked[a][c]})
    <2> DEFINE others == {m \in MessagesOf(c) : m.by # a}
               unread == {m \in MessagesOf(c) : m.by # a /\ m.serial > marked[a][c]}
    <2>1. CASE LinksOf(a, c) = {}
      <3>1. marked[a][c] = 0
        BY <1>1, <2>1, LinkedOf DEF TablesTrue
      <3>2. others = unread
        BY <1>2, <3>1
      <3> QED  BY <2>1, <3>2 DEF AdminUnread
    <2>2. CASE LinksOf(a, c) # {}
      <3>1. PICK l \in links : LinksOf(a, c) = {l} /\ l.admin = a /\ l.con = c
        BY <1>1, <2>2 DEF TablesTrue, LinksOf
      <3>2. l.read = marked[a][c]
        BY <1>1, <3>1 DEF TablesTrue
      <3> DEFINE pairs == {ml \in others \X LinksOf(a, c) :
                             ml[2].read = 0 \/ ml[1].serial > ml[2].read}
      <3>3. pairs = {<<m, l>> : m \in unread}
        <4>1. ASSUME NEW ml \in pairs PROVE ml \in {<<m, l>> : m \in unread}
          <5>1. ml = <<ml[1], ml[2]>> /\ ml[1] \in others /\ ml[2] = l
            BY <3>1
          <5>2. ml[1].serial > marked[a][c]
            BY <1>2, <3>2, <5>1
          <5> QED  BY <5>1, <5>2
        <4>2. ASSUME NEW m \in unread PROVE <<m, l>> \in pairs
          BY <3>1, <3>2
        <4> QED  BY <4>1, <4>2
      <3>4. PICK f : f = [m \in unread |-> <<m, l>>]
        OBVIOUS
      <3> HIDE DEF pairs, unread
      <3>5. f \in Bijection(unread, pairs)
        <4>1. f \in [unread -> pairs] /\ \A m \in unread : f[m] = <<m, l>>
          BY <3>3, <3>4
        <4>2. \A m, n \in unread : f[m] = f[n] => m = n
          BY <4>1
        <4>3. \A p \in pairs : \E m \in unread : f[m] = p
          BY <3>3, <4>1
        <4> QED  BY <4>1, <4>2, <4>3 DEF Bijection, Injection, Surjection, IsInjective
      <3>6. ExistsBijection(unread, pairs)
        BY <3>5 DEF ExistsBijection
      <3>7. IsFiniteSet(unread)
        <4>1. unread \subseteq messages
          BY DEF unread, MessagesOf
        <4> QED  BY <4>1, FS_Subset
      <3>8. Cardinality(pairs) = Cardinality(unread)
        BY <3>6, <3>7, FS_Bijection
      <3>9. AdminUnread(c, a) = Cardinality(pairs)
        BY <2>2 DEF AdminUnread, pairs
      <3> QED  BY <3>8, <3>9 DEF unread
    <2> QED  BY <2>1, <2>2
  <1> QED  BY <1>4, <1>5

LEMMA InitCursors ==
    ASSUME Init
    PROVE  CursorInv /\ IsFiniteSet(messages)
  <1>1. /\ links = {} /\ messages = {} /\ \A c \in Chats : con[c] = None
        /\ \A r \in Requests : req[r].pc = "idle"
    BY DEF Init, Idle
  <1>2. TablesTrue
    BY <1>1 DEF TablesTrue
  <1>3. \A r \in Requests : CursorKnown(req[r])
    BY <1>1 DEF CursorKnown
  <1> QED  BY <1>1, <1>2, <1>3, FS_EmptySet DEF CursorInv

\* UnreadSafe: a chat's cursor, an admin's cursor and the absence of a link are three ways to say what
\* a viewer has read, written by marks, openings and the first of both.  While requests do not overlap,
\* whatever fails or is cut off, what the lists count as unread is what was not marked, as long as
\* whoever marks a chat as its user owns it: markAsReadByUser does not ask.
THEOREM UnreadSafe == Spec /\ []OwnersMark => []UnreadIsTrue
  <1> DEFINE Inv == /\ Store /\ Served /\ LagInv /\ OneAtATime /\ LinkInv /\ CursorInv
                    /\ IsFiniteSet(messages)
  <1>1. Init => Inv
    BY InitKeeps, InitLag, InitLinks, InitCursors
  <1>2. Inv /\ OwnersMark /\ [Next]_vars => Inv'
    <2> SUFFICES ASSUME Inv, OwnersMark, [Next]_vars PROVE Inv'
      OBVIOUS
    <2>1. Store' /\ Served'
      BY StepKeeps, StutterKeeps
    <2>2. LagInv' /\ OneAtATime' /\ LinkInv'
      BY StepLag, StepSolo, StepLinks
    <2>3. CursorInv' /\ IsFiniteSet(messages')
      BY StepCursors, FewMessages
    <2> QED  BY <2>1, <2>2, <2>3
  <1>3. Inv => UnreadIsTrue
    BY UnreadCounted DEF LagInv
  <1> QED  BY <1>1, <1>2, <1>3, PTL DEF Spec

-----------------------------------------------------------------------------
(* What the lists were told, while nothing overlaps or fails. *)

Quiet == ~overlapped /\ faults = 0 /\ broken = {}

\* Owner and linked admins were last told of the chat's last message.
Told(c) ==
    /\ told[con[c].owner][c] = con[c].last
    /\ \A a \in Admins : told[a][c] \in {0, con[c].last}

\* A request that read the last message, or wrote it, still has the last one.
Current(q) ==
    \/ q.pc \in {"mark", "update", "close", "announce"}
    \/ q.pc \in {"find", "add"} /\ ~ q.fresh
    => q.msg = con[q.con].last

\* A callback tells of the last message; when it is with the admins, all others were told.
Owed(j) ==
    /\ j.msg = con[j.con].last
    /\ j.stage = "admins" =>
         /\ told[con[j.con].owner][j.con] = con[j.con].last
         /\ \A a \in Admins \ j.todo : told[a][j.con] \in {0, con[j.con].last}

\* A chat whose viewers have not been told has a request or a callback that will see to it.
Follows(c) ==
    \/ Told(c)
    \/ \E r \in Requests : req[r].pc = "announce" /\ req[r].con = c
    \/ \E j \in jobs : j.con = c

ListInv ==
    Quiet =>
        /\ \A r \in Requests : Current(req[r])
        /\ \A j \in jobs : Owed(j)
        /\ \A c \in Chats : con[c] # None => Follows(c)

\* No last message is written; a new chat has none.
LastsAlike ==
    \A c \in Chats : con'[c] # None =>
        IF con[c] = None THEN con'[c].last = 0 /\ con'[c].owner \in Users
        ELSE con'[c].owner = con[c].owner /\ con'[c].last = con[c].last

\* Told again of the last message, viewers stay told.
LEMMA ToldStays ==
    ASSUME Store, LinkInv, LastsAlike, NEW c \in Chats, con'[c] # None, con[c] # None => Told(c),
           \A v \in Viewers : told'[v][c] \in {told[v][c], con'[c].last}
    PROVE  Told(c)'
  <1>1. Users \subseteq Viewers /\ Admins \subseteq Viewers
    BY DEF Viewers
  <1>2. CASE con[c] = None
    <2>1. con'[c].last = 0 /\ con'[c].owner \in Viewers
      BY <1>1, <1>2 DEF LastsAlike
    <2>2. \A v \in Viewers : told'[v][c] = 0
      BY <1>2, <2>1 DEF LinkInv, NothingYet
    <2> QED  BY <1>1, <2>1, <2>2 DEF Told
  <1>3. CASE con[c] # None
    <2>1. con'[c].owner = con[c].owner /\ con'[c].last = con[c].last
      BY <1>3 DEF LastsAlike
    <2>2. con[c].owner \in Viewers
      BY <1>1, <1>3, ConRow DEF Con
    <2> QED  BY <1>1, <1>3, <2>1, <2>2 DEF Told
  <1> QED  BY <1>2, <1>3

\* Before a step of the only request every chat was told of, but the one it is to announce.
LEMMA AllTold ==
    ASSUME OneAtATime, ListInv, Quiet, NEW r \in Requests,
           \A s \in Requests : s # r => req[s].pc = "idle", jobs = {}, NEW c \in Chats, con[c] # None
    PROVE  Told(c) \/ (req[r].pc = "announce" /\ req[r].con = c)
  BY DEF ListInv, Follows

LEMMA AskList ==
    ASSUME Store, Served, OneAtATime, LinkInv, ListInv, NEW r \in Requests, Ask(r)
    PROVE  ListInv'
  <1> SUFFICES ASSUME Quiet'
               PROVE  /\ \A s \in Requests : Current(req[s])'
                      /\ \A j \in jobs' : Owed(j)'
                      /\ \A c \in Chats : con'[c] # None => Follows(c)'
    BY DEF ListInv
  <1>1. /\ ~overlapped /\ jobs = {} /\ jobs' = {} /\ \A s \in Requests : req[s].pc = "idle"
        /\ \A s \in Requests : s # r => req'[s].pc = "idle"
    BY BeginSolo DEF Quiet
  <1>2. UNCHANGED <<told, broken, faults>>
    BY DEF Ask, CreateConversation, SendMessage, MarkAsReadByUser, OpenByUser, MarkAsReadByAdmin,
           OpenByAdmin, CloseChat
  <1>3. \A c \in Chats : con[c] # None => Told(c)
    BY <1>1, <1>2, AllTold DEF Quiet
  <1>4. ASSUME con' = con
        PROVE  LastsAlike
    BY <1>4 DEF LastsAlike
  <1>5. ASSUME NEW q, BeginWith(r, q), con' = con, Current(q)
        PROVE  LastsAlike /\ Current(req[r])'
    <2>1. req'[r] = q
      BY <1>5 DEF BeginWith, Served
    <2> QED  BY <1>4, <1>5, <2>1 DEF Current
  <1>6. ASSUME NEW pc, NEW v, NEW c, NEW msg, NEW fresh, Begin(r, pc, v, c, msg, fresh), con' = con,
               msg = con[c].last \/ pc \in {"read", "page"} \/ (pc = "find" /\ fresh)
        PROVE  LastsAlike /\ Current(req[r])'
    <2>1. PICK q : q = [pc |-> pc, who |-> v, con |-> c, msg |-> msg, link |-> 0, fresh |-> fresh]
      OBVIOUS
    <2>2. Current(q)
      BY <1>6, <2>1 DEF Current
    <2> QED  BY <1>5, <1>6, <2>1, <2>2 DEF Begin
  <1>7. ASSUME NEW c \in Chats, NEW a \in Admins, MarkAsReadByAdmin(r, a, c)
        PROVE  LastsAlike /\ Current(req[r])'
    <2>1. con' = con
      BY <1>7 DEF MarkAsReadByAdmin, rows
    <2>2. ASSUME NEW l, BeginWith(r, [pc |-> "update", who |-> a, con |-> c, msg |-> con[c].last,
                                      link |-> l, fresh |-> FALSE])
          PROVE  LastsAlike /\ Current(req[r])'
      <3>1. PICK q : q = [pc |-> "update", who |-> a, con |-> c, msg |-> con[c].last,
                          link |-> l, fresh |-> FALSE]
        OBVIOUS
      <3>2. Current(q)
        BY <3>1 DEF Current
      <3> QED  BY <1>5, <2>1, <2>2, <3>1, <3>2
    <2>3. CASE Begin(r, "find", a, c, con[c].last, FALSE)
      BY <1>6, <2>1, <2>3
    <2> QED  BY <1>7, <2>2, <2>3 DEF MarkAsReadByAdmin
  <1>8. ASSUME NEW c \in Chats, NEW u \in Users, CreateConversation(r, u, c)
        PROVE  LastsAlike /\ Current(req[r])'
    <2>1. PICK row : row = [owner |-> u, status |-> "ACTIVE", last |-> 0, read |-> 0]
      OBVIOUS
    <2>2. row.last = 0 /\ row.owner = u /\ con[c] = None /\ con' = [con EXCEPT ![c] = row]
      BY <1>8, <2>1 DEF CreateConversation
    <2>3. LastsAlike
      BY <2>2 DEF LastsAlike, Store
    <2>4. PICK q : q = [pc |-> "insert", who |-> u, con |-> c, msg |-> 0, link |-> 0, fresh |-> TRUE]
      OBVIOUS
    <2>5. BeginWith(r, q) /\ q.pc = "insert"
      BY <1>8, <2>4 DEF CreateConversation, Begin
    <2>6. req'[r].pc = "insert"
      BY <2>5 DEF BeginWith, Served
    <2> QED  BY <2>3, <2>6 DEF Current
  <1>9. LastsAlike /\ Current(req[r])'
    <2>1. ASSUME NEW c \in Chats, NEW u \in Users, MarkAsReadByUser(r, u, c) \/ OpenByUser(r, u, c)
          PROVE  LastsAlike /\ Current(req[r])'
      BY <1>6, <2>1 DEF MarkAsReadByUser, OpenByUser, rows
    <2>2. ASSUME NEW c \in Chats, NEW a \in Admins, OpenByAdmin(r, a, c) \/ CloseChat(r, a, c)
          PROVE  LastsAlike /\ Current(req[r])'
      BY <1>6, <2>2 DEF OpenByAdmin, CloseChat, rows
    <2>3. ASSUME NEW c \in Chats, NEW v \in Viewers, SendMessage(r, v, c)
          PROVE  LastsAlike /\ Current(req[r])'
      BY <1>6, <2>3 DEF SendMessage, rows
    <2> QED  BY <1>7, <1>8, <2>1, <2>2, <2>3 DEF Ask
  <1>10. \A s \in Requests : s # r => Current(req[s])'
    BY <1>1 DEF Current
  <1>11. ASSUME NEW c \in Chats, con'[c] # None
         PROVE  Follows(c)'
    <2>1. Told(c)'
      BY <1>2, <1>3, <1>9, <1>11, ToldStays
    <2> QED  BY <2>1 DEF Follows
  <1> QED  BY <1>1, <1>9, <1>10, <1>11

LEMMA ServeList ==
    ASSUME Store, Served, OneAtATime, LinkInv, ListInv, NEW r \in Requests, Serve(r)
    PROVE  ListInv'
  <1> SUFFICES ASSUME Quiet'
               PROVE  /\ \A s \in Requests : Current(req[s])'
                      /\ \A j \in jobs' : Owed(j)'
                      /\ \A c \in Chats : con'[c] # None => Follows(c)'
    BY DEF ListInv
  <1>1. overlapped' = overlapped /\ faults' = faults /\ broken \subseteq broken' /\ req[r].pc # "idle"
    BY DEF Serve, ReadChat, InsertMessage, CommitMessage, SetLastMessage, Announce, SaveRead,
           UpdateLink, FindLink, AddLink, OpenPage, SaveClosed, history
  <1>2. Quiet /\ broken' = {}
    BY <1>1 DEF Quiet
  <1>3. jobs = {} /\ \A s \in Requests : s # r => req[s].pc = "idle"
    BY <1>1, <1>2, Solo DEF Quiet
  <1>4. PICK old : old = req[r]
    OBVIOUS
  <1>5. old \in Request /\ old.con \in Chats /\ old.who \in Viewers /\ con[old.con] # None
        /\ con[old.con] \in Con /\ old.msg \in Nat /\ Current(old)
    BY <1>1, <1>2, <1>4, ServedRow, SupportsAssumption DEF ListInv, Request
  <1>6. \A s \in Requests : s # r => Current(req[s])'
    BY <1>3, ServeMoves DEF Moves, Current
  <1>7. \A c \in Chats : con[c] # None /\ ~ (old.pc = "announce" /\ old.con = c) => Told(c)
    BY <1>2, <1>3, <1>4, AllTold
  <1>8. Respond(r) => req'[r].pc = "idle"
    BY DEF Respond, Idle, Served
  <1>9. \A pc : Goto(r, pc) => /\ req'[r].pc = pc /\ req'[r].who = old.who /\ req'[r].con = old.con
                               /\ req'[r].msg = old.msg /\ req'[r].fresh = old.fresh
    BY <1>4, <1>5 DEF Goto, Request, Served
  <1>10. \A pc, msg : req' = [req EXCEPT ![r].pc = pc, ![r].msg = msg] => req'[r].pc = pc
    BY <1>4, <1>5 DEF Request, Served
  <1>11. ASSUME LastsAlike, jobs' = jobs, Current(req[r])', old.pc # "announce",
                UNCHANGED told \/ (Tell(old.who, old.con, old.msg) /\ old.msg = con'[old.con].last)
         PROVE  /\ \A s \in Requests : Current(req[s])'
                /\ \A j \in jobs' : Owed(j)'
                /\ \A c \in Chats : con'[c] # None => Follows(c)'
    <2>1. ASSUME NEW c \in Chats, con'[c] # None
          PROVE  Follows(c)'
      <3>1. \A v \in Viewers : told'[v][c] \in {told[v][c], con'[c].last}
        <4>1. CASE Tell(old.who, old.con, old.msg) /\ old.msg = con'[old.con].last
          BY <1>5, <4>1, Entry DEF Tell, Store
        <4> QED  BY <1>11, <4>1
      <3>2. Told(c)'
        BY <1>7, <1>11, <2>1, <3>1, ToldStays
      <3> QED  BY <3>2 DEF Follows
    <2> QED  BY <1>3, <1>6, <1>11, <2>1
  <1>12. ASSUME con' = con
         PROVE  LastsAlike
    BY <1>12 DEF LastsAlike
  <1>13. CASE ReadChat(r) \/ InsertMessage(r) \/ CommitMessage(r) \/ OpenPage(r)
    <2>1. con' = con /\ jobs' = jobs /\ told' = told /\ old.pc # "announce"
      BY <1>4, <1>13 DEF ReadChat, InsertMessage, CommitMessage, OpenPage, rows
    <2>2. req'[r].pc \in {"insert", "commit", "last", "idle"}
      BY <1>8, <1>9, <1>10, <1>13 DEF ReadChat, InsertMessage, CommitMessage, OpenPage
    <2>3. Current(req[r])'
      BY <2>2 DEF Current
    <2> QED  BY <1>11, <1>12, <2>1, <2>3
  <1>14. CASE SaveRead(r)
    <2>1. PICK row : row = [con[old.con] EXCEPT !.read = old.msg]
      OBVIOUS
    <2>2. row.last = con[old.con].last /\ row.owner = con[old.con].owner
      BY <1>5, <2>1 DEF Con
    <2>3. con' = [con EXCEPT ![old.con] = row]
      BY <1>4, <1>5, <1>14, <2>1 DEF SaveRead, Store
    <2>4. LastsAlike /\ con'[old.con].last = con[old.con].last
      BY <1>5, <2>2, <2>3 DEF LastsAlike, Store
    <2>5. old.pc = "mark" /\ Tell(old.who, old.con, old.msg) /\ jobs' = jobs /\ Respond(r)
      BY <1>4, <1>14 DEF SaveRead
    <2>6. Current(req[r])' /\ old.msg = con[old.con].last
      BY <1>5, <1>8, <2>5 DEF Current
    <2> QED  BY <1>11, <2>4, <2>5, <2>6
  <1>15. CASE UpdateLink(r) \/ FindLink(r) \/ AddLink(r)
    <2>1. con' = con /\ jobs' = jobs /\ old.pc \in {"update", "find", "add"}
      BY <1>4, <1>15 DEF UpdateLink, FindLink, AddLink, rows
    <2>2. UNCHANGED told \/ (Tell(old.who, old.con, old.msg) /\ (old.pc = "update" \/ ~ old.fresh))
      BY <1>4, <1>15 DEF UpdateLink, FindLink, AddLink
    <2>3. UNCHANGED told \/ (Tell(old.who, old.con, old.msg) /\ old.msg = con'[old.con].last)
      BY <1>5, <2>1, <2>2 DEF Current
    <2>4. req'[r].pc \in {"idle", "page"} \/ (old.pc = "find" /\ Goto(r, "add"))
      BY <1>4, <1>8, <1>9, <1>10, <1>15 DEF UpdateLink, FindLink, AddLink
    <2>5. Current(req[r])'
      BY <1>5, <1>9, <2>1, <2>4 DEF Current
    <2> QED  BY <1>11, <1>12, <2>1, <2>3, <2>5
  <1>16. CASE SetLastMessage(r)
    <2>1. PICK row : row = [con[old.con] EXCEPT !.last = old.msg]
      OBVIOUS
    <2>2. row.last = old.msg /\ row.owner = con[old.con].owner /\ row # None
      BY <1>5, <2>1, SupportsAssumption DEF Con
    <2>3. con' = [con EXCEPT ![old.con] = row] /\ told' = told /\ jobs' = jobs /\ old.pc = "last"
          /\ Goto(r, "announce")
      BY <1>4, <1>5, <1>16, <2>1 DEF SetLastMessage, Store
    <2>4. \A d \in Chats : con'[d] = IF d = old.con THEN row ELSE con[d]
      BY <2>3 DEF Store
    <2>5. Current(req[r])'
      BY <1>5, <1>9, <2>2, <2>3, <2>4 DEF Current
    <2>6. ASSUME NEW c \in Chats, con'[c] # None
          PROVE  Follows(c)'
      <3>1. CASE c = old.con
        BY <1>9, <2>3, <3>1 DEF Follows
      <3>2. CASE c # old.con
        <4>1. Told(c)'
          BY <1>7, <2>3, <2>4, <2>6, <3>2 DEF Told
        <4> QED  BY <4>1 DEF Follows
      <3> QED  BY <3>1, <3>2
    <2> QED  BY <1>3, <1>6, <2>3, <2>5, <2>6
  <1>17. CASE Announce(r) \/ SaveClosed(r)
    <2>1. PICK j : j = [con |-> old.con, msg |-> old.msg, todo |-> {}, stage |-> "owner"]
      OBVIOUS
    <2>2. j.con = old.con /\ j.msg = old.msg /\ j.stage = "owner"
      BY <2>1
    <2>3. jobs' = {j} /\ told' = told /\ Respond(r) /\ old.pc \in {"announce", "close"}
      <3>1. CASE Announce(r)
        BY <1>2, <1>3, <1>4, <2>1, <3>1 DEF Announce
      <3>2. CASE SaveClosed(r)
        BY <1>3, <1>4, <2>1, <3>2 DEF SaveClosed
      <3> QED  BY <1>17, <3>1, <3>2
    <2>4. LastsAlike
      <3>1. CASE Announce(r)
        BY <1>12, <3>1 DEF Announce, rows
      <3>2. CASE SaveClosed(r)
        <4>1. PICK row : row = [con[old.con] EXCEPT !.status = "CLOSED"]
          OBVIOUS
        <4>2. row.last = con[old.con].last /\ row.owner = con[old.con].owner
          BY <1>5, <4>1 DEF Con
        <4>3. con' = [con EXCEPT ![old.con] = row]
          BY <1>4, <1>5, <3>2, <4>1 DEF SaveClosed, Store
        <4> QED  BY <1>5, <4>2, <4>3 DEF LastsAlike, Store
      <3> QED  BY <1>17, <3>1, <3>2
    <2>5. con'[old.con].last = con[old.con].last
      <3>1. \A c \in Chats : con[c] # None => con'[c] # None
        BY ChatsStay DEF Next
      <3> QED  BY <1>5, <2>4, <3>1 DEF LastsAlike
    <2>6. Owed(j)'
      BY <1>5, <2>2, <2>3, <2>5 DEF Owed, Current
    <2>7. Current(req[r])'
      BY <1>8, <2>3 DEF Current
    <2>8. ASSUME NEW c \in Chats, con'[c] # None
          PROVE  Follows(c)'
      <3>1. CASE c = old.con
        BY <2>2, <2>3, <3>1 DEF Follows
      <3>2. CASE c # old.con
        <4>1. Told(c)'
          BY <1>7, <2>3, <2>4, <2>8, <3>2, ToldStays
        <4> QED  BY <4>1 DEF Follows
      <3> QED  BY <3>1, <3>2
    <2> QED  BY <1>6, <2>3, <2>6, <2>7, <2>8
  <1> QED  BY <1>13, <1>14, <1>15, <1>16, <1>17 DEF Serve

LEMMA CallbackList ==
    ASSUME Store, Served, OneAtATime, LinkInv, ListInv, Callback
    PROVE  ListInv'
  <1> USE DEF rows, history
  <1> SUFFICES ASSUME Quiet'
               PROVE  /\ \A s \in Requests : Current(req[s])'
                      /\ \A j \in jobs' : Owed(j)'
                      /\ \A c \in Chats : con'[c] # None => Follows(c)'
    BY DEF ListInv
  <1>0. UNCHANGED <<con, req, links, overlapped, faults, broken>>
    BY DEF Callback, TellOwner, TellAdmin
  <1>1. UNCHANGED <<con, req, links>> /\ Quiet
    BY <1>0 DEF Quiet
  <1>2. PICK j \in jobs : TellOwner(j) \/ \E a \in Admins : TellAdmin(j, a)
    BY DEF Callback
  <1>3. jobs = {j} /\ \A s \in Requests : req[s].pc = "idle"
    BY <1>1, <1>2 DEF OneAtATime, Quiet
  <1>4. j \in Job /\ j.con \in Chats /\ con[j.con] \in Con /\ con[j.con] # None /\ j.msg \in Nat
    BY <1>2 DEF Store, Job
  <1>5. PICK owner : owner = con[j.con].owner
    OBVIOUS
  <1>6. owner \in Viewers /\ owner \notin Admins /\ Admins \subseteq Viewers
    BY <1>4, <1>5, SupportsAssumption DEF Con, Viewers
  <1>7. Owed(j) /\ j.msg = con[j.con].last
    BY <1>1, <1>2 DEF ListInv, Owed
  <1>8. \A s \in Requests : Current(req[s])'
    BY <1>1, <1>3 DEF Current
  <1>9. \A c \in Chats : con[c] # None /\ c # j.con => Told(c)
    BY <1>1, <1>3 DEF ListInv, Follows
  <1>10. ASSUME NEW v \in Viewers, Tell(v, j.con, j.msg), Told(j.con)' \/ \E k \in jobs' : k.con = j.con,
                \A k \in jobs' : Owed(k)'
         PROVE  /\ \A s \in Requests : Current(req[s])'
                /\ \A k \in jobs' : Owed(k)'
                /\ \A c \in Chats : con'[c] # None => Follows(c)'
    <2>1. \A u \in Viewers, c \in Chats :
            told'[u][c] = IF u = v /\ c = j.con THEN j.msg ELSE told[u][c]
      BY <1>4, <1>10, Entry DEF Tell, Store
    <2>2. ASSUME NEW c \in Chats, con'[c] # None
          PROVE  Follows(c)'
      <3>1. CASE c = j.con
        BY <1>10, <3>1 DEF Follows
      <3>2. CASE c # j.con
        <4>1. con[c].owner \in Viewers
          BY <1>1, <2>2, ConRow DEF Con, Viewers
        <4>2. Told(c)'
          BY <1>1, <1>6, <1>9, <2>1, <2>2, <3>2, <4>1 DEF Told
        <4> QED  BY <4>2 DEF Follows
      <3> QED  BY <3>1, <3>2
    <2> QED  BY <1>8, <1>10, <2>2
  <1>11. CASE TellOwner(j)
    <2>1. PICK admins : admins = {a \in Admins : LinksOf(a, j.con) # {}}
      OBVIOUS
    <2>2. Tell(owner, j.con, j.msg)
      BY <1>5, <1>11 DEF TellOwner
    <2>3. \A u \in Viewers : told'[u][j.con] = IF u = owner THEN j.msg ELSE told[u][j.con]
      BY <1>4, <1>6, <2>2, Entry DEF Tell, Store
    <2>4. \A a \in Admins \ admins : told'[a][j.con] = 0
      BY <1>4, <1>6, <2>1, <2>3, LinkedOf DEF LinkInv, LinksKnown
    <2>5. PICK next : next = [j EXCEPT !.stage = "admins", !.todo = admins]
      OBVIOUS
    <2>6. next.todo = admins /\ next.con = j.con /\ next.msg = j.msg
      BY <1>4, <2>5 DEF Job
    <2>7. CASE admins = {}
      <3>1. jobs' = {}
        BY <1>3, <1>11, <2>1, <2>7 DEF TellOwner
      <3>2. Told(j.con)'
        BY <1>1, <1>5, <1>6, <1>7, <2>3, <2>4, <2>7 DEF Told
      <3> QED  BY <1>6, <1>10, <2>2, <3>1, <3>2
    <2>8. CASE admins # {}
      <3>1. jobs' = {next}
        BY <1>3, <1>11, <2>1, <2>5, <2>8 DEF TellOwner
      <3>2. Owed(next)'
        BY <1>1, <1>5, <1>6, <1>7, <2>3, <2>4, <2>6 DEF Owed
      <3> QED  BY <1>6, <1>10, <2>2, <2>6, <3>1, <3>2
    <2> QED  BY <2>7, <2>8
  <1>12. ASSUME NEW a \in Admins, TellAdmin(j, a)
         PROVE  /\ \A s \in Requests : Current(req[s])'
                /\ \A k \in jobs' : Owed(k)'
                /\ \A c \in Chats : con'[c] # None => Follows(c)'
    <2>1. Tell(a, j.con, j.msg) /\ j.stage = "admins" /\ a \in Viewers
      BY <1>6, <1>12 DEF TellAdmin
    <2>2. \A u \in Viewers : told'[u][j.con] = IF u = a THEN j.msg ELSE told[u][j.con]
      BY <1>4, <2>1, Entry DEF Tell, Store
    <2>3. told'[owner][j.con] = j.msg
      BY <1>5, <1>6, <1>7, <2>1, <2>2 DEF Owed
    <2>4. \A b \in Admins : b = a \/ b \notin j.todo => told'[b][j.con] \in {0, j.msg}
      BY <1>6, <1>7, <2>1, <2>2 DEF Owed
    <2>5. PICK next : next = [j EXCEPT !.todo = @ \ {a}]
      OBVIOUS
    <2>6. next.todo = j.todo \ {a} /\ next.con = j.con /\ next.msg = j.msg
      BY <1>4, <2>5 DEF Job
    <2>7. CASE j.todo = {a}
      <3>1. jobs' = {}
        BY <1>3, <1>12, <2>7 DEF TellAdmin
      <3>2. Told(j.con)'
        BY <1>1, <1>5, <1>7, <2>3, <2>4, <2>7 DEF Told
      <3> QED  BY <1>10, <2>1, <3>1, <3>2
    <2>8. CASE j.todo # {a}
      <3>1. jobs' = {next}
        BY <1>3, <1>12, <2>5, <2>8 DEF TellAdmin
      <3>2. Owed(next)'
        BY <1>1, <1>5, <1>7, <2>3, <2>4, <2>6 DEF Owed
      <3> QED  BY <1>10, <2>1, <2>6, <3>1, <3>2
    <2> QED  BY <2>7, <2>8
  <1> QED  BY <1>2, <1>11, <1>12

LEMMA StepList ==
    ASSUME Store, Served, OneAtATime, LinkInv, ListInv, [Next]_vars
    PROVE  ListInv'
  <1>1. ASSUME NEW r \in Requests, RequestFails(r)
        PROVE  ListInv'
    BY <1>1 DEF RequestFails, ListInv, Quiet, Store
  <1>2. CASE Restart
    BY <1>2 DEF Restart, ListInv, Quiet, Store
  <1>3. CASE Scroll \/ UNCHANGED vars
    <2>1. UNCHANGED <<con, req, jobs, told, overlapped, faults, broken>>
      BY <1>3 DEF Scroll, ScrollBefore, ScrollAfter, rows, history, vars
    <2>2. Quiet' = Quiet
      BY <2>1 DEF Quiet
    <2>3. \A c \in Chats : Follows(c)' = Follows(c)
      BY <2>1 DEF Follows, Told
    <2>4. \A j \in jobs : Owed(j)' = Owed(j)
      BY <2>1 DEF Owed
    <2>5. \A r \in Requests : Current(req[r])' = Current(req[r])
      BY <2>1 DEF Current
    <2> QED  BY <2>1, <2>2, <2>3, <2>4, <2>5 DEF ListInv
  <1> QED  BY <1>1, <1>2, <1>3, AskList, ServeList, CallbackList DEF Next

LEMMA InitList ==
    ASSUME Init
    PROVE  ListInv
  <1>1. /\ jobs = {} /\ \A c \in Chats : con[c] = None
        /\ \A r \in Requests : req[r].pc = "idle"
    BY DEF Init, Idle
  <1> QED  BY <1>1 DEF ListInv, Current

\* ListTold: the lists follow events that callbacks send, one viewer after the other, after the request
\* has been answered, and marks that tell the viewer alone.  Where requests and callbacks do not overlap
\* and none fails, the last event told the owner of the last message, and every admin of it or of none.
THEOREM ListTold == Spec => []ListFollows
  <1> DEFINE Inv == Store /\ Served /\ OneAtATime /\ LinkInv /\ ListInv
  <1>1. Init => Inv
    BY InitKeeps, InitLinks, InitList
  <1>2. Inv /\ [Next]_vars => Inv'
    <2> SUFFICES ASSUME Inv, [Next]_vars PROVE Inv'
      OBVIOUS
    <2>1. Store' /\ Served'
      BY StepKeeps, StutterKeeps
    <2> QED  BY <2>1, StepSolo, StepLinks, StepList
  <1>3. Inv => ListFollows
    BY DEF ListInv, Quiet, Follows, Told, ListFollows, Busy
  <1> QED  BY <1>1, <1>2, <1>3, PTL DEF Spec

=============================================================================
