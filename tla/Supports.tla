------------------------------ MODULE Supports ------------------------------
(***************************************************************************)
(* Support chats: core/supports (supports.service, s-messages.service,     *)
(* s-con.service, s-admin-con.service).                                    *)
(*                                                                         *)
(* A step is one query of a request, or one event sent by a callback that  *)
(* a request left behind with setImmediate.  A request refused before its  *)
(* first write changes nothing and may have no action.  Reading a page of  *)
(* messages and its two hasMore counts is one step.  serialId is taken by  *)
(* the INSERT and seen by others from its COMMIT on; createdAt is taken to *)
(* follow serialId.  Contents, replies and labels are left out; 0 is no    *)
(* message.                                                                *)
(***************************************************************************)
EXTENDS Naturals, FiniteSets, FiniteSetsExt

CONSTANTS
    Users,          \* users without an admin role
    Admins,         \* admins who see help_support
    Chats,          \* pool of ids of support_conversations
    Requests,       \* requests that may be in flight at once
    Readers,        \* viewers whose pages are followed
    None,           \* no value
    Limit,          \* messages in a page, asked for by the client
    MaxMessages,    \* bound: messages inserted
    MaxAsked,       \* bound: requests made
    MaxFaults       \* bound: failed queries and crashes

Con == [owner : Users, status : {"ACTIVE", "CLOSED"}, last : Nat, read : Nat]

ASSUME SupportsAssumption ==
    /\ None \notin Con
    /\ None \notin Users \cup Admins \cup Chats
    /\ Users \cap Admins = {}
    /\ Readers \subseteq Users \cup Admins
    /\ Limit \in Nat \ {0}
    /\ MaxMessages \in Nat
    /\ MaxAsked \in Nat
    /\ MaxFaults \in Nat

VARIABLES
    con,        \* table support_conversations, by id
    messages,   \* table support_messages: committed rows
    links,      \* table support_users_conversation
    req,        \* requests in flight
    jobs,       \* callbacks of setImmediate not yet done
    serial,     \* the sequence of serialId: the last number given
    announced,  \* messages emitted to the room of their chat
    told,       \* lastMessage in the last event each viewer got about a chat
    view,       \* pages each reader has loaded
    broken,     \* messages whose request failed after storing them
    marked,     \* the newest message each viewer has marked as read
    overlapped, \* two requests or callbacks have been under way at once
    asked,      \* requests made so far
    faults      \* failures so far

vars == <<con, messages, links, req, jobs, serial, announced, told, view, broken,
          marked, overlapped, asked, faults>>

rows == <<con, messages, links>>

history == <<broken, marked, overlapped, asked>>

-----------------------------------------------------------------------------
Viewers == Users \cup Admins

Serials == 1 .. MaxMessages

\* late: a newer message was visible before it.  beside: messages whose
\* requests had yet to name them the last one when it was committed.
Message == [serial : Nat, con : Chats, by : Viewers, late : BOOLEAN, beside : SUBSET Nat]

Link == [id : Nat, admin : Admins, con : Chats, read : Nat]

\* fresh: the request created the chat.  msg: a message read or written.
Request == [pc : {"read", "insert", "commit", "last", "announce", "mark",
                  "update", "find", "add", "page", "close"},
            who : Viewers, con : Chats, msg : Nat, link : Nat, fresh : BOOLEAN]

Idle == [pc |-> "idle", who |-> None, con |-> None, msg |-> 0, link |-> 0, fresh |-> FALSE]

Job == [con : Chats, msg : Nat, todo : SUBSET Admins, stage : {"owner", "admins"}]

\* lo and hi are cursorBefore and cursorAfter; before and after say whether
\* there is more.
NoView == [seen |-> {}, lo |-> 0, hi |-> 0, before |-> FALSE, after |-> FALSE]

Init ==
    /\ con = [c \in Chats |-> None]
    /\ messages = {}
    /\ links = {}
    /\ req = [r \in Requests |-> Idle]
    /\ jobs = {}
    /\ serial = 0
    /\ announced = {}
    /\ told = [v \in Viewers |-> [c \in Chats |-> 0]]
    /\ view = [v \in Readers |-> [c \in Chats |-> NoView]]
    /\ broken = {}
    /\ marked = [v \in Viewers |-> [c \in Chats |-> 0]]
    /\ overlapped = FALSE
    /\ asked = 0
    /\ faults = 0

-----------------------------------------------------------------------------
(* Requests. *)

Busy == {r \in Requests : req[r].pc # "idle"}

Goto(r, pc) == req' = [req EXCEPT ![r].pc = pc]

Respond(r) == req' = [req EXCEPT ![r] = Idle]

BeginWith(r, request) ==
    /\ req[r].pc = "idle"
    /\ asked < MaxAsked
    /\ asked' = asked + 1
    /\ req' = [req EXCEPT ![r] = request]
    /\ overlapped' = (overlapped \/ Busy # {} \/ jobs # {})

Begin(r, pc, v, c, msg, fresh) ==
    BeginWith(r, [pc |-> pc, who |-> v, con |-> c, msg |-> msg, link |-> 0, fresh |-> fresh])

Active(c) == con[c].status = "ACTIVE"

MessagesOf(c) == {m \in messages : m.con = c}

SerialsOf(c) == {m.serial : m \in MessagesOf(c)}

\* createConversation: the row of the chat.  Whether it is still open is not
\* asked before its first message.
CreateConversation(r, u, c) ==
    /\ con[c] = None
    /\ Begin(r, "insert", u, c, 0, TRUE)
    /\ con' = [con EXCEPT ![c] = [owner |-> u, status |-> "ACTIVE", last |-> 0, read |-> 0]]
    /\ UNCHANGED <<messages, links, jobs, serial, announced, told, view, broken, marked, faults>>

\* sendMessageByUser, sendMessageByAdmin: the chat exists.
SendMessage(r, v, c) ==
    /\ con[c] # None
    /\ Begin(r, "read", v, c, 0, FALSE)
    /\ UNCHANGED <<rows, jobs, serial, announced, told, view, broken, marked, faults>>

MayWrite(v, c) == v \in Admins \/ con[c].owner = v

\* Mutant: the chat is not asked to be open.
ReadChat_closed(r) ==
    /\ req[r].pc = "read"
    /\ IF MayWrite(req[r].who, req[r].con) THEN Goto(r, "insert") ELSE Respond(r)
    /\ UNCHANGED <<rows, jobs, serial, announced, told, view, history, faults>>

\* assertChatIsOpen on the row just read, then checkUserIsConOwner for a user
\* (an owner never changes).
ReadChat(r) ==
    /\ req[r].pc = "read"
    /\ IF Active(req[r].con) /\ MayWrite(req[r].who, req[r].con)
       THEN Goto(r, "insert") ELSE Respond(r)
    /\ UNCHANGED <<rows, jobs, serial, announced, told, view, history, faults>>

\* createMessage: the INSERT takes a serialId.
InsertMessage(r) ==
    /\ req[r].pc = "insert"
    /\ serial < MaxMessages
    /\ serial' = serial + 1
    /\ req' = [req EXCEPT ![r].pc = "commit", ![r].msg = serial + 1]
    /\ UNCHANGED <<rows, jobs, announced, told, view, history, faults>>

CommitMessage(r) ==
    LET c == req[r].con
    IN  /\ req[r].pc = "commit"
        /\ messages' = messages \cup
             {[serial |-> req[r].msg, con |-> c, by |-> req[r].who,
               late |-> \E s \in SerialsOf(c) : s > req[r].msg,
               beside |-> {req[q].msg : q \in {p \in Requests \ {r} :
                             req[p].pc \in {"commit", "last"} /\ req[p].con = c}}]}
        /\ Goto(r, "last")
        /\ UNCHANGED <<con, links, jobs, serial, announced, told, view, history, faults>>

\* Mutant: only the first message is named the last one.
SetLastMessage_first(r) ==
    /\ req[r].pc = "last"
    /\ con' = [con EXCEPT ![req[r].con].last = IF @ = 0 THEN req[r].msg ELSE @]
    /\ Goto(r, "announce")
    /\ UNCHANGED <<messages, links, jobs, serial, announced, told, view, history, faults>>

\* createMessage: updateCon, in a second statement.
SetLastMessage(r) ==
    /\ req[r].pc = "last"
    /\ con' = [con EXCEPT ![req[r].con].last = req[r].msg]
    /\ Goto(r, "announce")
    /\ UNCHANGED <<messages, links, jobs, serial, announced, told, view, history, faults>>

\* Mutant: the callback is forgotten.
Announce_noCallback(r) ==
    /\ req[r].pc = "announce"
    /\ Respond(r)
    /\ announced' = announced \cup {req[r].msg}
    /\ UNCHANGED <<rows, jobs, serial, told, view, history, faults>>

\* attachFilesToMessage, of whose files one may be missing (404), and
\* retrieveAndNotify, then setImmediate.  The notifications of the admins, awaited
\* after that, change nothing here; if they fail the sender of a stored message
\* gets a 500.
Announce(r) ==
    /\ req[r].pc = "announce"
    /\ Respond(r)
    /\ \/ /\ announced' = announced \cup {req[r].msg}
          /\ jobs' = jobs \cup {[con |-> req[r].con, msg |-> req[r].msg, todo |-> {},
                                 stage |-> "owner"]}
          /\ UNCHANGED broken
       \/ broken' = broken \cup {req[r].msg} /\ UNCHANGED <<announced, jobs>>
    /\ UNCHANGED <<rows, serial, told, view, marked, overlapped, asked, faults>>

-----------------------------------------------------------------------------
(* Reading. *)

Tell(v, c, msg) == told' = [told EXCEPT ![v][c] = msg]

\* markAsReadByUser: a chat without a last message is left alone.
MarkAsReadByUser(r, u, c) ==
    /\ con[c] # None
    /\ con[c].last # 0
    /\ Begin(r, "mark", u, c, con[c].last, FALSE)
    /\ UNCHANGED <<rows, jobs, serial, announced, told, view, broken, marked, faults>>

SaveRead(r) ==
    LET q == req[r]
    IN  /\ q.pc = "mark"
        /\ con' = [con EXCEPT ![q.con].read = q.msg]
        /\ marked' = [marked EXCEPT ![q.who][q.con] = q.msg]
        /\ Tell(q.who, q.con, q.msg)
        /\ Respond(r)
        /\ UNCHANGED <<messages, links, jobs, serial, announced, view, broken, overlapped, asked, faults>>

LinksOf(a, c) == {l \in links : l.admin = a /\ l.con = c}

\* markAsReadyAdmin reads the chat and the admin's link together.
MarkAsReadByAdmin(r, a, c) ==
    /\ con[c] # None
    /\ \/ LinksOf(a, c) = {} /\ Begin(r, "find", a, c, con[c].last, FALSE)
       \/ \E l \in LinksOf(a, c) :
            BeginWith(r, [pc |-> "update", who |-> a, con |-> c, msg |-> con[c].last,
                          link |-> l.id, fresh |-> FALSE])
    /\ UNCHANGED <<rows, jobs, serial, announced, told, view, broken, marked, faults>>

\* Mutant: a link that exists is left as it is.
UpdateLink_kept(r) ==
    LET q == req[r]
    IN  /\ q.pc = "update"
        /\ marked' = [marked EXCEPT ![q.who][q.con] = q.msg]
        /\ Tell(q.who, q.con, q.msg)
        /\ Respond(r)
        /\ UNCHANGED <<rows, jobs, serial, announced, view, broken, overlapped, asked, faults>>

UpdateLink(r) ==
    LET q == req[r]
    IN  /\ q.pc = "update"
        /\ links' = {IF l.id = q.link THEN [l EXCEPT !.read = q.msg] ELSE l : l \in links}
        /\ marked' = [marked EXCEPT ![q.who][q.con] = q.msg]
        /\ Tell(q.who, q.con, q.msg)
        /\ Respond(r)
        /\ UNCHANGED <<con, messages, jobs, serial, announced, view, broken, overlapped, asked, faults>>

\* openConMessagesByAdmin: an open chat.  fresh tells it from a mark.
OpenByAdmin(r, a, c) ==
    /\ con[c] # None
    /\ Active(c)
    /\ Begin(r, "find", a, c, 0, TRUE)
    /\ UNCHANGED <<rows, jobs, serial, announced, told, view, broken, marked, faults>>

\* associateAdminCon looks again: a link found is returned as it is, with the
\* cursor the page of an opening starts from.
FindLink(r) ==
    LET q == req[r]
        found == LinksOf(q.who, q.con)
    IN  /\ q.pc = "find"
        /\ \/ /\ found = {}
              /\ Goto(r, "add")
              /\ UNCHANGED <<told, marked>>
           \/ \E l \in found :
                IF q.fresh
                THEN /\ req' = [req EXCEPT ![r].pc = "page", ![r].msg = l.read]
                     /\ UNCHANGED <<told, marked>>
                ELSE /\ marked' = [marked EXCEPT ![q.who][q.con] = q.msg]
                     /\ Tell(q.who, q.con, q.msg)
                     /\ Respond(r)
        /\ UNCHANGED <<rows, jobs, serial, announced, view, broken, overlapped, asked, faults>>

\* associateAdminCon inserts a link: no key keeps a second one out.
AddLink(r) ==
    LET q == req[r]
    IN  /\ q.pc = "add"
        /\ links' = links \cup {[id |-> Cardinality(links) + 1, admin |-> q.who,
                                 con |-> q.con, read |-> q.msg]}
        /\ IF q.fresh
           THEN Goto(r, "page") /\ UNCHANGED <<told, marked>>
           ELSE /\ marked' = [marked EXCEPT ![q.who][q.con] = q.msg]
                /\ Tell(q.who, q.con, q.msg)
                /\ Respond(r)
        /\ UNCHANGED <<con, messages, jobs, serial, announced, view, broken, overlapped, asked, faults>>

\* openConMessagesByUser: an open chat, and its cursor.
OpenByUser(r, u, c) ==
    /\ con[c] # None
    /\ Active(c)
    /\ Begin(r, "page", u, c, con[c].read, TRUE)
    /\ UNCHANGED <<rows, jobs, serial, announced, told, view, broken, marked, faults>>

\* loadMessagesAround: the anchor belongs to the page before it, and not to
\* the page after it.
Before(c, anchor) ==
    LET older == {s \in SerialsOf(c) : s <= anchor}
    IN  {s \in older : Cardinality({t \in older : t > s}) < Limit}

\* Mutant: the page after the cursor skips one row, as the page before it
\* would have to.
After_skip(c, anchor) ==
    LET newer == {s \in SerialsOf(c) : s > anchor + 1}
    IN  {s \in newer : Cardinality({t \in newer : t < s}) < Limit}

After(c, anchor) ==
    LET newer == {s \in SerialsOf(c) : s > anchor}
    IN  {s \in newer : Cardinality({t \in newer : t < s}) < Limit}

\* resolveAnchorMessage: a newer message than the cursor, if there is one,
\* else the cursor; without a cursor, the first message of the others, else
\* the newest.
Anchor(v, c, cursor) ==
    LET all == SerialsOf(c)
        newer == {s \in all : s > cursor}
        others == {m.serial : m \in {n \in MessagesOf(c) : n.by # v}}
    IN  IF cursor # 0
        THEN IF newer = {} THEN cursor ELSE Max(newer)
        ELSE IF others = {} THEN Max(all) ELSE Min(others)

\* loadInitial, loadInitialForAdmin: an admin without a cursor gets the first
\* message alone.
FirstPage(v, c, cursor) ==
    IF SerialsOf(c) = {} THEN {}
    ELSE IF v \in Admins /\ cursor = 0 THEN {Min(SerialsOf(c))}
    ELSE Before(c, Anchor(v, c, cursor))

\* messageResponse, hasMoreBefore, hasMoreAfter.
ViewOf(c, page) ==
    IF page = {} THEN NoView
    ELSE [seen |-> page, lo |-> Min(page), hi |-> Max(page),
          before |-> \E s \in SerialsOf(c) : s < Min(page),
          after |-> \E s \in SerialsOf(c) : s > Max(page)]

OpenPage(r) ==
    LET q == req[r]
    IN  /\ q.pc = "page"
        /\ view' = IF q.who \in Readers
                   THEN [view EXCEPT ![q.who][q.con] = ViewOf(q.con, FirstPage(q.who, q.con, q.msg))]
                   ELSE view
        /\ Respond(r)
        /\ UNCHANGED <<rows, jobs, serial, announced, told, history, faults>>

\* scrollMessage, before the first message loaded: closed chats too.
ScrollBefore(v, c) ==
    LET w == view[v][c]
        page == ViewOf(c, Before(c, w.lo))
    IN  /\ w.seen # {}
        /\ w.before
        /\ view' = [view EXCEPT ![v][c] = [w EXCEPT !.seen = @ \cup page.seen, !.lo = page.lo,
                                                    !.before = page.before]]
        /\ UNCHANGED <<rows, req, jobs, serial, announced, told, history, faults>>

ScrollAfter(v, c) ==
    LET w == view[v][c]
        page == ViewOf(c, After(c, w.hi))
    IN  /\ w.seen # {}
        /\ page.seen # {}
        /\ view' = [view EXCEPT ![v][c] = [w EXCEPT !.seen = @ \cup page.seen, !.hi = page.hi,
                                                    !.after = page.after]]
        /\ UNCHANGED <<rows, req, jobs, serial, announced, told, history, faults>>

-----------------------------------------------------------------------------
(* Closing. *)

\* closeChat: an open chat, by an admin.
CloseChat(r, a, c) ==
    /\ con[c] # None
    /\ Active(c)
    /\ Begin(r, "close", a, c, con[c].last, FALSE)
    /\ UNCHANGED <<rows, jobs, serial, announced, told, view, broken, marked, faults>>

SaveClosed(r) ==
    LET q == req[r]
    IN  /\ q.pc = "close"
        /\ con' = [con EXCEPT ![q.con].status = "CLOSED"]
        /\ jobs' = jobs \cup {[con |-> q.con, msg |-> q.msg, todo |-> {}, stage |-> "owner"]}
        /\ Respond(r)
        /\ UNCHANGED <<messages, links, serial, announced, told, view, history, faults>>

-----------------------------------------------------------------------------
(* Callbacks: emitConversationUpdate, one viewer after the other. *)

\* The owner first, then the admins linked to the chat by then.
TellOwner(j) ==
    LET admins == {a \in Admins : LinksOf(a, j.con) # {}}
    IN  /\ j.stage = "owner"
        /\ Tell(con[j.con].owner, j.con, j.msg)
        /\ jobs' = (jobs \ {j}) \cup
             (IF admins = {} THEN {} ELSE {[j EXCEPT !.stage = "admins", !.todo = admins]})
        /\ UNCHANGED <<rows, req, serial, announced, view, history, faults>>

TellAdmin(j, a) ==
    /\ j.stage = "admins"
    /\ a \in j.todo
    /\ Tell(a, j.con, j.msg)
    /\ jobs' = (jobs \ {j}) \cup (IF j.todo = {a} THEN {} ELSE {[j EXCEPT !.todo = @ \ {a}]})
    /\ UNCHANGED <<rows, req, serial, announced, view, history, faults>>

-----------------------------------------------------------------------------
(* Failures. *)

Stored(R) == {req[r].msg : r \in {q \in R : req[q].pc \in {"last", "announce"}}}

\* A query fails: 500.  An INSERT that was not committed is rolled back.
RequestFails(r) ==
    /\ req[r].pc # "idle"
    /\ faults < MaxFaults
    /\ faults' = faults + 1
    /\ broken' = broken \cup Stored({r})
    /\ Respond(r)
    /\ UNCHANGED <<rows, jobs, serial, announced, told, view, marked, overlapped, asked>>

\* The process ends, by itself or because a callback throws: nothing handles
\* the rejection.
Restart ==
    /\ Busy # {} \/ jobs # {}
    /\ faults < MaxFaults
    /\ faults' = faults + 1
    /\ broken' = broken \cup Stored(Requests)
    /\ req' = [r \in Requests |-> Idle]
    /\ jobs' = {}
    /\ UNCHANGED <<rows, serial, announced, told, view, marked, overlapped, asked>>

-----------------------------------------------------------------------------
Serve(r) ==
    \/ ReadChat(r) \/ InsertMessage(r) \/ CommitMessage(r) \/ SetLastMessage(r) \/ Announce(r)
    \/ SaveRead(r) \/ UpdateLink(r) \/ FindLink(r) \/ AddLink(r) \/ OpenPage(r)
    \/ SaveClosed(r)

Ask(r) ==
    \E c \in Chats :
        \/ \E u \in Users : \/ CreateConversation(r, u, c)
                            \/ MarkAsReadByUser(r, u, c) \/ OpenByUser(r, u, c)
        \/ \E a \in Admins : \/ MarkAsReadByAdmin(r, a, c) \/ OpenByAdmin(r, a, c)
                             \/ CloseChat(r, a, c)
        \/ \E v \in Viewers : SendMessage(r, v, c)

Callback == \E j \in jobs : TellOwner(j) \/ \E a \in Admins : TellAdmin(j, a)

Scroll == \E v \in Readers, c \in Chats : ScrollBefore(v, c) \/ ScrollAfter(v, c)

Next ==
    \/ \E r \in Requests : Ask(r) \/ Serve(r) \/ RequestFails(r)
    \/ Callback
    \/ Scroll
    \/ Restart

Spec == Init /\ [][Next]_vars

-----------------------------------------------------------------------------
(* Properties. *)

\* TypeOK: tables, requests, callbacks and pages have the shape the code gives
\* them: a chat's last and read messages and a link's cursor were numbered,
\* and a request that has read a chat names one that exists.
TypeOK ==
    /\ con \in [Chats -> Con \cup {None}]
    /\ messages \subseteq Message
    /\ links \subseteq Link
    /\ req \in [Requests -> Request \cup {Idle}]
    /\ jobs \subseteq Job
    /\ serial \in 0 .. MaxMessages
    /\ announced \subseteq Serials
    /\ told \in [Viewers -> [Chats -> 0 .. MaxMessages]]
    /\ broken \subseteq Serials
    /\ marked \in [Viewers -> [Chats -> 0 .. MaxMessages]]
    /\ overlapped \in BOOLEAN
    /\ asked \in 0 .. MaxAsked
    /\ faults \in 0 .. MaxFaults
    /\ \A c \in Chats : con[c] # None => con[c].last <= serial /\ con[c].read <= serial
    /\ \A r \in Requests : req[r].pc # "idle" => con[req[r].con] # None /\ req[r].msg <= serial

Sending(c) == {r \in Requests : req[r].con = c /\ req[r].pc \in {"commit", "last"}}

\* LastMessageLags: once no message of a chat is on its way, lastMessage is
\* the newest message but for those whose request broke off, and those that
\* were stored while the request of lastMessage had yet to set it: createMessage
\* stores the message and names it the last one in two statements.
LastMessageLags ==
    \A c \in Chats : Sending(c) = {} =>
        \A m \in MessagesOf(c) :
            m.serial > con[c].last => m.serial \in broken \/ con[c].last \in m.beside

\* applyUserUnread, applyAdminUnread.
UserUnread(c, u) ==
    Cardinality({m \in MessagesOf(c) : m.by # u /\ (con[c].read = 0 \/ m.serial > con[c].read)})

AdminUnread(c, a) ==
    LET others == {m \in MessagesOf(c) : m.by # a}
    IN  IF LinksOf(a, c) = {} THEN Cardinality(others)
        ELSE Cardinality({ml \in others \X LinksOf(a, c) :
                            ml[2].read = 0 \/ ml[1].serial > ml[2].read})

\* UnreadIsTrue: where requests do not overlap, the count of unread messages in
\* a viewer's list is the number of messages of others after the newest one
\* the viewer has marked as read, whatever opened, marked or failed before.
\* (Two overlapping marks may leave two links, each counted, and move a cursor
\* back.)
UnreadIsTrue ==
    ~overlapped =>
        \A c \in Chats : con[c] # None =>
            /\ UserUnread(c, con[c].owner) =
                 Cardinality({m \in MessagesOf(c) : /\ m.by # con[c].owner
                                                    /\ m.serial > marked[con[c].owner][c]})
            /\ \A a \in Admins :
                 AdminUnread(c, a) = Cardinality({m \in MessagesOf(c) :
                                                    m.by # a /\ m.serial > marked[a][c]})

\* NoGap: a reader who scrolls has seen every message between the cursors but
\* those committed after a newer one, which no cursor will bring (the cursor
\* is a serialId, and serialIds become visible out of order).
NoGap ==
    \A v \in Readers, c \in Chats :
        \A m \in MessagesOf(c) :
            m.serial \in view[v][c].lo .. view[v][c].hi
                => m.serial \in view[v][c].seen \/ m.late

\* ListFollows: where nothing overlaps or fails, once the callbacks are done
\* the last event about a chat told its owner of the last message, and told no
\* linked admin of an older one than the chat shows.
ListFollows ==
    ~overlapped /\ faults = 0 /\ broken = {} /\ Busy = {} /\ jobs = {} =>
        \A c \in Chats : con[c] # None =>
            /\ told[con[c].owner][c] = con[c].last
            /\ \A a \in Admins : told[a][c] \in {0, con[c].last}

\* What is promised of a chat: posts are committed messages, and a permit is a
\* request of someone who may write, from the moment it found the chat open.
ChatState == [c \in Chats |-> IF con[c] = None THEN "none"
                              ELSE IF Active(c) THEN "open" ELSE "closed"]

PostOf(m) == [post |-> m.serial, by |-> m.by]

ChatPosts == [c \in Chats |-> {PostOf(m) : m \in MessagesOf(c)}]

Posting == {"insert", "commit"}

PermitOf(r, q) == [holder |-> r, chat |-> q.con, by |-> q.who]

ChatPermits == {PermitOf(r, req[r]) : r \in {s \in Requests : req[s].pc \in Posting}}

Desk == INSTANCE ChatDesk WITH
    Senders <- Viewers,
    Permits <- Requests,
    Posts <- Serials,
    state <- ChatState,
    posts <- ChatPosts,
    permits <- ChatPermits

\* DeskSpec: support chats implement ChatDesk: no message is posted by a
\* request that began after its chat was closed, none by a stranger, and none
\* is lost, though the chat is checked several awaits before the INSERT.
DeskSpec == Desk!Spec

=============================================================================
