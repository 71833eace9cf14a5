------------------------------ MODULE ChatDesk ------------------------------
(***************************************************************************)
(* What a support chat promises, without requests, cursors or events: a    *)
(* chat opens once and closes once, its posts are never changed or lost,   *)
(* and only who was let in while it was open may still post.               *)
(***************************************************************************)
EXTENDS FiniteSets

CONSTANTS
    Chats,      \* conversations
    Senders,    \* who may post
    Permits,    \* holders of a permission to post once
    Posts       \* what can be posted

VARIABLES
    state,      \* "none", "open" or "closed"
    posts,      \* posts of each chat, with their senders
    permits     \* permissions handed out and not yet used

vars == <<state, posts, permits>>

Post == [post : Posts, by : Senders]

Permit == [holder : Permits, chat : Chats, by : Senders]

Init ==
    /\ state = [c \in Chats |-> "none"]
    /\ posts = [c \in Chats |-> {}]
    /\ permits = {}

\* Whoever opens a chat may post in it.
Open(p) ==
    /\ state[p.chat] = "none"
    /\ state' = [state EXCEPT ![p.chat] = "open"]
    /\ permits' = permits \cup {p}
    /\ UNCHANGED posts

Admit(p) ==
    /\ state[p.chat] = "open"
    /\ permits' = permits \cup {p}
    /\ UNCHANGED <<state, posts>>

\* A permit is used once.
Write(p, m) ==
    /\ p \in permits
    /\ posts' = [posts EXCEPT ![p.chat] = @ \cup {[post |-> m, by |-> p.by]}]
    /\ permits' = permits \ {p}
    /\ UNCHANGED state

\* Permits lapse: a request fails, or the process ends.
Lapse(lost) ==
    /\ permits' = permits \ lost
    /\ UNCHANGED <<state, posts>>

Close(c) ==
    /\ state[c] = "open"
    /\ state' = [state EXCEPT ![c] = "closed"]
    /\ UNCHANGED <<posts, permits>>

Next ==
    \/ \E p \in Permit : Open(p) \/ Admit(p)
    \/ \E p \in permits, m \in Posts : Write(p, m)
    \/ \E lost \in SUBSET permits : Lapse(lost)
    \/ \E c \in Chats : Close(c)

Spec == Init /\ [][Next]_vars

-----------------------------------------------------------------------------
\* Nothing that was posted disappears, a closed chat stays closed, and after
\* the close each post uses up one of the permits that were out.
Kept ==
    \A c \in Chats :
        /\ posts[c] \subseteq posts'[c]
        /\ state[c] = "closed" =>
             /\ state'[c] = "closed"
             /\ {p \in permits' : p.chat = c} \subseteq {p \in permits : p.chat = c}
             /\ posts'[c] # posts[c] => \E p \in permits \ permits' : p.chat = c

=============================================================================
