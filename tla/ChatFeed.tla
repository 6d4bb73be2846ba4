------------------------------ MODULE ChatFeed ------------------------------
(***************************************************************************)
(* What the chats promise to those who only see messages: every chat is a  *)
(* feed that messages are published to, each message once and in one chat. *)
(* A client follows one chat, and every answer it gets brings it a piece   *)
(* of the feed without a gap, which begins behind all it has seen before.  *)
(* Between two answers it may miss messages.  There are no queues,         *)
(* connections, goroutines or restarts here: module Chat shows that the    *)
(* chats service and RabbitMQ implement this feed through all of them.     *)
(***************************************************************************)
EXTENDS Naturals, Sequences

CONSTANTS
    ChatId,   \* the chats
    Message,  \* the messages that may be sent
    Client,   \* those who read
    None      \* no chat

VARIABLES
    log,    \* the messages of each chat, in the order of their publication
    topic,  \* the chat that each client follows
    seen    \* the messages that each client has been shown

vars == <<log, topic, seen>>

Init ==
    /\ log = [c \in ChatId |-> <<>>]
    /\ topic = [r \in Client |-> None]
    /\ seen = [r \in Client |-> <<>>]

Published(c, m) == \E i \in 1 .. Len(log[c]) : log[c][i] = m

\* The messages of s stand in this order, each at a place of its own, among the
\* first n of l.
Placed(s, l, n) ==
    \E at \in [1 .. Len(s) -> 1 .. n] :
        /\ \A i, j \in 1 .. Len(s) : i < j => at[i] < at[j]
        /\ \A i \in 1 .. Len(s) : s[i] = l[at[i]]

Publish(c, m) ==
    /\ \A d \in ChatId : ~ Published(d, m)
    /\ log' = [log EXCEPT ![c] = Append(@, m)]
    /\ UNCHANGED <<topic, seen>>

Follow(r, c) ==
    /\ topic[r] = None
    /\ topic' = [topic EXCEPT ![r] = c]
    /\ UNCHANGED <<log, seen>>

\* An answer with the i-th to the j-th message of the chat.
Answer(r, i, j) ==
    /\ topic[r] # None
    /\ Placed(seen[r], log[topic[r]], i - 1)
    /\ seen' = [seen EXCEPT ![r] = @ \o SubSeq(log[topic[r]], i, j)]
    /\ UNCHANGED <<log, topic>>

Read(r) ==
    \E i, j \in 1 .. (IF topic[r] = None THEN 0 ELSE Len(log[topic[r]])) : Answer(r, i, j)

Next ==
    \/ \E c \in ChatId, m \in Message : Publish(c, m)
    \/ \E r \in Client : Read(r) \/ \E c \in ChatId : Follow(r, c)

Spec == Init /\ [][Next]_vars

-----------------------------------------------------------------------------
(* What follows for the clients. *)

\* A client is shown the messages of its chat in the order of their publication...
SeenInOrder ==
    \A r \in Client : seen[r] # <<>> =>
        Placed(seen[r], log[topic[r]], Len(log[topic[r]]))

\* ...and none of them twice.
SeenOnce ==
    \A r \in Client : \A i, j \in 1 .. Len(seen[r]) : seen[r][i] = seen[r][j] => i = j
=============================================================================
