-------------------------------- MODULE Chat --------------------------------
(* Chats: creation and messages in dbservice (dbchat.go), publishing and     *)
(* reading through RabbitMQ in the chats service (handler.go).               *)
(*                                                                           *)
(* RabbitMQ and PostgreSQL are external.  The chats service has one AMQP     *)
(* connection, opened when it starts and never again: once the connection is *)
(* lost, every request fails until the service is started again.             *)
EXTENDS Naturals, Sequences, FiniteSets

CONSTANTS
    ChatId,       \* ids of chats: in URLs, and as the sequence gives them out
    User,         \* users of the company
    Stranger,     \* an id of no user of the company
    Creation,     \* calls of CreateChat
    Save,         \* calls of SaveMessage that do not come from the chats service
    Post,         \* POST /chats/{chatID}/sendMessage
    Reader,       \* clients that GET /chats/{chatID}/messages
    Together,     \* sets of calls and clients that one behaviour may have
    MaxReads,     \* bound on the reads of a client
    MaxFaults,    \* bound on crashes, broker restarts and lost publications
    None

ASSUME ChatAssumption ==
    /\ Stranger \notin User
    /\ None \notin ChatId /\ None # "OK"
    /\ Cardinality(Creation) <= Cardinality(ChatId)
    /\ Together \subseteq SUBSET (Creation \cup Save \cup Post \cup Reader)
    /\ MaxReads \in Nat /\ MaxFaults \in Nat

VARIABLES
    \* PostgreSQL: committed chats, rows of chat_users, <<message, chat>> of
    \* messages, and the ids that the sequence has given out.
    chats, members, saved, given,
    \* CreateChat: where it is, the users, the chat's id, what the caller hears.
    pc, asked, id, answer,
    \* SaveMessage called directly: those that are over.
    over,
    \* RabbitMQ: the chat exchanges (durable), what each has routed (history),
    \* and whether the connection of the chats service is open.
    exchanges, log, linked,
    \* SendMessage: the chat of the URL, the handler, its two goroutines, errChan,
    \* the HTTP answer.
    url, handler, publisher, saver, errChan, reply,
    \* GetMessages: where it is, its chat, its temporary queue, what it has
    \* received, and where in the log its queue was bound (history).  The client
    \* listens to one chat, and has seen the messages of the answers it got.
    reading, chat, queue, got, since, reads, seen,
    faults

store == <<chats, members, saved, given>>
creation == <<pc, asked, id, answer>>
broker == <<exchanges, log, linked>>
post == <<url, handler, publisher, saver, errChan, reply>>
read == <<reading, chat, queue, got, since, reads, seen>>
vars == <<store, creation, over, broker, post, read, faults>>

CreationStage == {"idle", "insert", "commit", "open", "add", "addCommit", "done"}
HandlerStage == {"idle", "receive", "done"}
PublisherStage == {"idle", "declare", "publish", "sent"}
SaverStage == {"idle", "call", "sent"}
ReadStage == {"idle", "declare", "bind", "consume", "receive"}
Result == {"nil", "rabbit", "unauthenticated", "internal"}

TypeOK ==
    /\ chats \subseteq given /\ given \subseteq ChatId
    /\ members \in [ChatId -> SUBSET User]
    /\ saved \subseteq (Save \cup Post) \X ChatId
    /\ pc \in [Creation -> CreationStage]
    /\ asked \in [Creation -> SUBSET (User \cup {Stranger})]
    /\ id \in [Creation -> ChatId \cup {None}]
    /\ answer \in [Creation -> {None, "OK", "error"}]
    /\ over \subseteq Save
    /\ exchanges \subseteq ChatId
    /\ log \in [ChatId -> Seq(Post)]
    /\ linked \in BOOLEAN
    /\ url \in [Post -> ChatId \cup {None}]
    /\ handler \in [Post -> HandlerStage]
    /\ publisher \in [Post -> PublisherStage]
    /\ saver \in [Post -> SaverStage]
    /\ errChan \in [Post -> Seq(Result)]
    /\ \A p \in Post : Len(errChan[p]) <= 2
    /\ reply \in [Post -> {None, "200", "400", "500", "502"}]
    /\ reading \in [Reader -> ReadStage]
    /\ chat \in [Reader -> ChatId \cup {None}]
    /\ queue \in [Reader -> Seq(Post)] /\ got \in [Reader -> Seq(Post)]
    /\ seen \in [Reader -> Seq(Post)]
    /\ since \in [Reader -> Nat]
    /\ reads \in [Reader -> 0 .. MaxReads]
    /\ faults \in 0 .. MaxFaults

Init ==
    /\ chats = {} /\ given = {} /\ saved = {}
    /\ members = [c \in ChatId |-> {}]
    /\ asked = [k \in Creation |-> {}]
    /\ id = [k \in Creation |-> None] /\ answer = [k \in Creation |-> None]
    /\ exchanges = {} /\ linked = TRUE
    /\ log = [c \in ChatId |-> <<>>]
    /\ url = [p \in Post |-> None]
    /\ publisher = [p \in Post |-> "idle"] /\ saver = [p \in Post |-> "idle"]
    /\ errChan = [p \in Post |-> <<>>]
    /\ reply = [p \in Post |-> None]
    /\ reading = [r \in Reader |-> "idle"] /\ chat = [r \in Reader |-> None]
    /\ queue = [r \in Reader |-> <<>>] /\ got = [r \in Reader |-> <<>>]
    /\ since = [r \in Reader |-> 0] /\ seen = [r \in Reader |-> <<>>]
    /\ faults = 0
    \* A call that this behaviour does not make is over from the start.
    /\ \E calls \in Together :
          /\ pc = [k \in Creation |-> IF k \in calls THEN "idle" ELSE "done"]
          /\ over = Save \ calls
          /\ handler = [p \in Post |-> IF p \in calls THEN "idle" ELSE "done"]
          /\ reads = [r \in Reader |-> IF r \in calls THEN 0 ELSE MaxReads]

-----------------------------------------------------------------------------
(* dbservice: every call needs the metadata database and user-id. *)

Header == {"database", "user-id"}
Accepted(headers) == headers = Header

\* The chats service puts both into a context and then replaces the context by
\* one with a timeout, made from Background: it sends neither.
RestHeaders == {}

Ends(k, code) ==
    /\ pc' = [pc EXCEPT ![k] = "done"]
    /\ answer' = [answer EXCEPT ![k] = IF @ = None THEN code ELSE @]
Enter(k, stage) == pc' = [pc EXCEPT ![k] = stage] /\ UNCHANGED answer

elsewhere == <<over, broker, post, read, faults>>

CreateChat(k, headers) ==
    /\ pc[k] = "idle"
    /\ \E users \in SUBSET (User \cup {Stranger}) : asked' = [asked EXCEPT ![k] = users]
    /\ \/ Accepted(headers) /\ Enter(k, "insert")
       \/ Ends(k, "error")      \* no metadata, no logs service, no database
    /\ UNCHANGED <<id, store, elsewhere>>

\* POST /chats/createNewChat.
CreateNewChat(k) == CreateChat(k, RestHeaders)
CallCreateChat(k) == \E headers \in SUBSET Header : CreateChat(k, headers)

\* The chat's row, in a transaction of the call's context.
Insert(k) ==
    /\ pc[k] = "insert"
    /\ \E c \in ChatId \ given :
          /\ given' = given \cup {c}
          /\ id' = [id EXCEPT ![k] = c]
    /\ Enter(k, "commit")
    /\ UNCHANGED <<asked, chats, members, saved, elsewhere>>

InsertFails(k) ==
    /\ pc[k] = "insert"
    /\ Ends(k, "error")
    /\ UNCHANGED <<id, asked, store, elsewhere>>

Commit(k) ==
    /\ pc[k] = "commit"
    /\ chats' = chats \cup {id[k]}
    /\ Enter(k, "open")
    /\ UNCHANGED <<id, asked, members, saved, given, elsewhere>>

\* An error of Commit: the transaction is rolled back, or the answer was lost.
CommitFails(k) ==
    /\ pc[k] = "commit"
    /\ \E lost \in {{}, {id[k]}} : chats' = chats \cup lost
    /\ Ends(k, "error")
    /\ UNCHANGED <<id, asked, members, saved, given, elsewhere>>

\* Mutant: the error of AddUsersToChat is logged, and the chat reported.
AddUsersIgnored(k) ==
    /\ pc[k] \in {"open", "add"}
    /\ Ends(k, "OK")
    /\ UNCHANGED <<id, asked, store, elsewhere>>

\* AddUsersToChat opens a pool of its own and a transaction without the context.
AddUsersToChat(k) ==
    /\ pc[k] = "open"
    /\ Enter(k, "add")
    /\ UNCHANGED <<id, asked, store, elsewhere>>

AddUsersFails(k) ==
    /\ pc[k] \in {"open", "add"}
    /\ Ends(k, "error")
    /\ UNCHANGED <<id, asked, store, elsewhere>>

\* One INSERT for all users.  It is no SQL without users, and violates a foreign
\* key when one of them does not exist, or when it does not see the chat.
InsertUsers(k) ==
    /\ pc[k] = "add"
    /\ asked[k] # {} /\ asked[k] \subseteq User /\ id[k] \in chats
    /\ Enter(k, "addCommit")
    /\ UNCHANGED <<id, asked, store, elsewhere>>

AddCommit(k) ==
    /\ pc[k] = "addCommit"
    /\ members' = [members EXCEPT ![id[k]] = @ \cup asked[k]]
    /\ Ends(k, "OK")
    /\ UNCHANGED <<id, asked, chats, saved, given, elsewhere>>

AddCommitFails(k) ==
    /\ pc[k] = "addCommit"
    /\ \E lost \in {{}, asked[k]} : members' = [members EXCEPT ![id[k]] = @ \cup lost]
    /\ Ends(k, "error")
    /\ UNCHANGED <<id, asked, chats, saved, given, elsewhere>>

\* The caller's deadline or nginx's: it hears an error and dbservice goes on.
GiveUp(k) ==
    /\ pc[k] \notin {"idle", "done"} /\ answer[k] = None
    /\ answer' = [answer EXCEPT ![k] = "error"]
    /\ UNCHANGED <<pc, id, asked, store, elsewhere>>

\* One INSERT, committed by itself; the foreign key refuses an unknown chat.
SaveResult(c, headers) ==
    CASE ~ Accepted(headers) -> "unauthenticated"
      [] c \notin chats -> "internal"
      [] OTHER -> "nil"
SaveMessage(s, c, headers) ==
    saved' = IF SaveResult(c, headers) = "nil" THEN saved \cup {<<s, c>>} ELSE saved

CallSaveMessage(s) ==
    /\ s \notin over
    /\ over' = over \cup {s}
    /\ \E c \in ChatId, headers \in SUBSET Header : SaveMessage(s, c, headers)
    /\ UNCHANGED <<chats, members, given, creation, broker, post, read, faults>>

-----------------------------------------------------------------------------
(* SendMessage of the chats service. *)

quiet == <<store, creation, over, read, faults>>
Fault == faults < MaxFaults /\ faults' = faults + 1

\* The handler starts its goroutines.  The chat is named twice: in the URL for
\* the exchange, in the body for the row, and the two need not agree.
SendMessage(p) ==
    /\ handler[p] = "idle"
    /\ \E c \in ChatId : url' = [url EXCEPT ![p] = c]
    /\ handler' = [handler EXCEPT ![p] = "receive"]
    /\ publisher' = [publisher EXCEPT ![p] = "declare"]
    /\ saver' = [saver EXCEPT ![p] = "call"]
    /\ UNCHANGED <<errChan, reply, broker, quiet>>

\* A cookie is missing, access-token among them, or the body is no JSON.
SendRefused(p) ==
    /\ handler[p] = "idle"
    /\ handler' = [handler EXCEPT ![p] = "done"]
    /\ reply' = [reply EXCEPT ![p] = "400"]
    /\ UNCHANGED <<url, publisher, saver, errChan, broker, quiet>>

Report(p, result) == errChan' = [errChan EXCEPT ![p] = Append(@, result)]
request == <<url, handler, reply>>

\* A channel of its own, and the durable exchange of the chat.
DeclareExchange(p) ==
    /\ publisher[p] = "declare"
    /\ linked
    /\ exchanges' = exchanges \cup {url[p]}
    /\ publisher' = [publisher EXCEPT ![p] = "publish"]
    /\ UNCHANGED <<saver, errChan, request, log, linked, quiet>>

\* Mutant: messages start when the consumer is there, not when the queue is bound.
BoundLate(r) == reading[r] = "receive"

\* A fanout exchange copies the message into the queues that are bound now.  One
\* order for all of them is more than RabbitMQ promises: it is external.
Bound(r) == reading[r] \in {"consume", "receive"}
Publish(p) ==
    /\ publisher[p] = "publish"
    /\ linked
    /\ log' = [log EXCEPT ![url[p]] = Append(@, p)]
    /\ queue' = [r \in Reader |-> IF Bound(r) /\ chat[r] = url[p]
                                     THEN Append(queue[r], p) ELSE queue[r]]
    /\ publisher' = [publisher EXCEPT ![p] = "sent"]
    /\ Report(p, "nil")
    /\ UNCHANGED <<saver, request, exchanges, linked, store, creation, over,
                   reading, chat, got, since, reads, seen, faults>>

\* Publish does not wait for the broker: what was written to a connection that
\* breaks is lost, and the handler is told that it was published.
PublishLost(p) ==
    /\ publisher[p] = "publish"
    /\ linked
    /\ Fault
    /\ linked' = FALSE
    /\ publisher' = [publisher EXCEPT ![p] = "sent"]
    /\ Report(p, "nil")
    /\ queue' = [r \in Reader |-> <<>>]
    /\ UNCHANGED <<saver, request, exchanges, log, store, creation, over,
                   reading, chat, got, since, reads, seen>>

\* Mutant: the error is logged, and nothing is sent to errChan.
PublisherSilent(p) ==
    /\ publisher[p] \in {"declare", "publish"}
    /\ ~ linked
    /\ publisher' = [publisher EXCEPT ![p] = "sent"]
    /\ UNCHANGED <<saver, errChan, request, broker, quiet>>

\* Mutant: the error is sent, and the goroutine does not return.
PublisherGoesOn(p) ==
    /\ publisher[p] \in {"declare", "publish"}
    /\ ~ linked
    /\ publisher' = [publisher EXCEPT ![p] = IF @ = "declare" THEN "publish" ELSE "sent"]
    /\ Report(p, "rabbit")
    /\ UNCHANGED <<saver, request, broker, quiet>>

PublisherFails(p) ==
    /\ publisher[p] \in {"declare", "publish"}
    /\ ~ linked
    /\ publisher' = [publisher EXCEPT ![p] = "sent"]
    /\ Report(p, "rabbit")
    /\ UNCHANGED <<saver, request, broker, quiet>>

\* A connection of its own, and SaveMessage for the chat of the body, with the
\* context that has lost the headers.
CallSave(p, c) ==
    /\ saver[p] = "call"
    /\ SaveMessage(p, c, RestHeaders)
    /\ Report(p, SaveResult(c, RestHeaders))
    /\ saver' = [saver EXCEPT ![p] = "sent"]
    /\ UNCHANGED <<publisher, request, broker, chats, members, given, creation, over,
                   read, faults>>

\* nginx, dbservice, the logs service or PostgreSQL does not answer.
CallSaveFails(p) ==
    /\ saver[p] = "call"
    /\ saver' = [saver EXCEPT ![p] = "sent"]
    /\ Report(p, "internal")
    /\ UNCHANGED <<publisher, request, broker, quiet>>

\* The first error counts as RabbitMQ's, whoever sent it, a second one as the
\* database's.
Failures(p) == SelectSeq(errChan[p], LAMBDA e : e # "nil")
Verdict(p) ==
    CASE Failures(p) = <<>> -> "200"
      [] Failures(p) = <<"unauthenticated">> -> "400"
      [] OTHER -> "500"

\* Mutant: the handler returns at the first result.
ReplyFirst(p) ==
    /\ handler[p] = "receive"
    /\ errChan[p] # <<>>
    /\ handler' = [handler EXCEPT ![p] = "done"]
    /\ reply' = [reply EXCEPT ![p] = Verdict(p)]
    /\ errChan' = [errChan EXCEPT ![p] = <<>>]
    /\ UNCHANGED <<url, publisher, saver, broker, quiet>>

\* The handler takes two results from errChan, answers, and closes it.
Reply(p) ==
    /\ handler[p] = "receive"
    /\ Len(errChan[p]) = 2
    /\ handler' = [handler EXCEPT ![p] = "done"]
    /\ reply' = [reply EXCEPT ![p] = Verdict(p)]
    /\ errChan' = [errChan EXCEPT ![p] = <<>>]
    /\ UNCHANGED <<url, publisher, saver, broker, quiet>>

-----------------------------------------------------------------------------
(* GetMessages of the chats service. *)

others == <<store, creation, over, broker, post, faults>>

GetMessages(r) ==
    /\ reading[r] = "idle" /\ reads[r] < MaxReads
    /\ reads' = [reads EXCEPT ![r] = @ + 1]
    /\ \E c \in IF chat[r] = None THEN ChatId ELSE {chat[r]} : chat' = [chat EXCEPT ![r] = c]
    /\ reading' = [reading EXCEPT ![r] = "declare"]
    /\ UNCHANGED <<queue, got, since, seen, others>>

Advance(r, stage) == reading' = [reading EXCEPT ![r] = stage]

\* A channel, and a temporary queue that only this connection may use.
DeclareQueue(r) ==
    /\ reading[r] = "declare" /\ linked
    /\ Advance(r, "bind")
    /\ UNCHANGED <<chat, queue, got, since, reads, seen, others>>

BindQueue(r) ==
    /\ reading[r] = "bind" /\ linked
    /\ chat[r] \in exchanges
    /\ Advance(r, "consume")
    /\ since' = [since EXCEPT ![r] = Len(log[chat[r]])]
    /\ UNCHANGED <<chat, queue, got, reads, seen, others>>

\* The connection is lost, or no message was ever sent to the chat and its
\* exchange does not exist: 500.
ReadFails(r) ==
    /\ reading[r] \in {"declare", "bind", "consume"}
    /\ ~ linked \/ (reading[r] = "bind" /\ chat[r] \notin exchanges)
    /\ Advance(r, "idle")
    /\ queue' = [queue EXCEPT ![r] = <<>>]
    /\ since' = [since EXCEPT ![r] = 0]
    /\ UNCHANGED <<chat, got, reads, seen, others>>

Consume(r) ==
    /\ reading[r] = "consume" /\ linked
    /\ Advance(r, "receive")
    /\ UNCHANGED <<chat, queue, got, since, reads, seen, others>>

\* Mutant: no autoAck and no ack.
ReceiveUnacked(r) ==
    /\ reading[r] = "receive" /\ queue[r] # <<>> /\ Len(got[r]) < Cardinality(Post)
    /\ got' = [got EXCEPT ![r] = Append(@, Head(queue[r]))]
    /\ UNCHANGED <<reading, chat, queue, since, reads, seen, others>>

\* The broker forgets a message when it delivers it (autoAck).
ReceiveMessage(r) ==
    /\ reading[r] = "receive" /\ queue[r] # <<>>
    /\ got' = [got EXCEPT ![r] = Append(@, Head(queue[r]))]
    /\ queue' = [queue EXCEPT ![r] = Tail(@)]
    /\ UNCHANGED <<reading, chat, since, reads, seen, others>>

\* After five seconds the answer is what was received, whether it reaches the
\* client or not; what is left in the queue is dropped with it.
Timeout(r) ==
    /\ reading[r] = "receive"
    /\ Advance(r, "idle")
    /\ queue' = [queue EXCEPT ![r] = <<>>]
    /\ \E heard \in {<<>>, got[r]} : seen' = [seen EXCEPT ![r] = @ \o heard]
    /\ got' = [got EXCEPT ![r] = <<>>] /\ since' = [since EXCEPT ![r] = 0]
    /\ UNCHANGED <<chat, reads, others>>

-----------------------------------------------------------------------------
(* Failures. *)

\* RabbitMQ restarts, or the connection breaks: temporary queues go with it.
LoseConnection ==
    /\ linked
    /\ Fault
    /\ linked' = FALSE
    /\ queue' = [r \in Reader |-> <<>>]
    /\ UNCHANGED <<store, creation, over, exchanges, log, post, reading, chat,
                   got, since, reads, seen>>

\* The chats service stops: its clients see an error, a publication or a call
\* under way is or is not executed, temporary queues go with the connection.
\* ConnectToRabbitMQ tries ten times, then Docker starts the service again.
RestartChats ==
    /\ Fault
    /\ linked' = TRUE
    /\ handler' = [p \in Post |-> IF handler[p] = "receive" THEN "done" ELSE handler[p]]
    /\ reply' = [p \in Post |-> IF handler[p] = "receive" THEN "502" ELSE reply[p]]
    /\ publisher' = [p \in Post |-> "idle"]
    /\ saver' = [p \in Post |-> "idle"]
    /\ errChan' = [p \in Post |-> <<>>]
    /\ reading' = [r \in Reader |-> "idle"]
    /\ queue' = [r \in Reader |-> <<>>]
    /\ got' = [r \in Reader |-> <<>>] /\ since' = [r \in Reader |-> 0]
    /\ UNCHANGED <<store, creation, over, exchanges, log, url,
                   chat, reads, seen>>

\* dbservice stops: open transactions are rolled back.
RestartDb ==
    /\ Fault
    /\ \E k \in Creation : pc[k] \notin {"idle", "done"}
    /\ pc' = [k \in Creation |-> IF pc[k] = "idle" THEN "idle" ELSE "done"]
    /\ answer' = [k \in Creation |->
          IF pc[k] \notin {"idle", "done"} /\ answer[k] = None THEN "error" ELSE answer[k]]
    /\ UNCHANGED <<asked, id, store, over, broker, post, read>>

-----------------------------------------------------------------------------
CreateStep(k) ==
    \/ Insert(k) \/ InsertFails(k) \/ Commit(k) \/ CommitFails(k)
    \/ AddUsersToChat(k) \/ InsertUsers(k) \/ AddUsersFails(k)
    \/ AddCommit(k) \/ AddCommitFails(k)

PublishStep(p) ==
    \/ DeclareExchange(p) \/ Publish(p) \/ PublishLost(p) \/ PublisherFails(p)
SaveStep(p) == (\E c \in ChatId : CallSave(p, c)) \/ CallSaveFails(p)

ReadStep(r) ==
    \/ DeclareQueue(r) \/ BindQueue(r) \/ ReadFails(r) \/ Consume(r)
    \/ ReceiveMessage(r) \/ Timeout(r)

Next ==
    \/ \E k \in Creation :
          CreateNewChat(k) \/ CallCreateChat(k) \/ CreateStep(k) \/ GiveUp(k)
    \/ \E s \in Save : CallSaveMessage(s)
    \/ \E p \in Post :
          SendMessage(p) \/ SendRefused(p) \/ PublishStep(p) \/ SaveStep(p) \/ Reply(p)
    \/ \E r \in Reader : GetMessages(r) \/ ReadStep(r)
    \/ LoseConnection \/ RestartChats \/ RestartDb

Spec == Init /\ [][Next]_vars

\* Goroutines go on, calls of dbservice and RabbitMQ return (for a post it is enough
\* that one of its three goroutines goes on, for each takes few steps), and the five
\* seconds of a read pass, however many messages arrive.
FairSpec ==
    /\ Spec
    /\ \A p \in Post : WF_vars(PublishStep(p) \/ SaveStep(p) \/ Reply(p))
    /\ \A r \in Reader : WF_vars(ReadStep(r)) /\ WF_vars(Timeout(r))

-----------------------------------------------------------------------------
(* What the chats promise. *)

\* A committed chat has all the users it was created with or none, and the
\* caller is told of a chat only when it has them: two transactions, either of
\* which may fail or lose its answer (CreateChat and AddUsersToChat).
ChatsAreWhole ==
    \A k \in Creation : id[k] # None =>
        /\ members[id[k]] \in {{}, asked[k]}
        /\ answer[k] = "OK" => id[k] \in chats /\ members[id[k]] = asked[k]
        /\ members[id[k]] # {} => id[k] \in chats

\* errChan is closed when the handler of SendMessage returns, and a goroutine
\* that sends on a closed channel stops the whole service: no goroutine has its
\* result to send when the handler is done.
NoSendAfterClose ==
    \A p \in Post : handler[p] = "done" =>
        publisher[p] \in {"idle", "sent"} /\ saver[p] \in {"idle", "sent"}

Window(r) == SubSeq(log[chat[r]], since[r] + 1, Len(log[chat[r]]))

\* A read (GetMessages) misses and invents nothing from the moment its queue is
\* bound: while the connection lasts, what it has received and what waits for it
\* is what was published since, in that order; what it answers is a prefix of it.
WindowIsGapless ==
    \A r \in Reader :
        /\ Bound(r) /\ linked => got[r] \o queue[r] = Window(r)
        /\ got[r] # <<>> => got[r] = SubSeq(Window(r), 1, Len(got[r]))

\* Clients who read again and again (ListenForMessages) follow a feed: each message
\* is published once, and each answer shows a piece of the chat's log without a gap,
\* behind all that was shown before, whatever connection, queue or answer is lost in
\* between.  So a client sees nothing twice and nothing out of order; it may miss some.
Feed == INSTANCE ChatFeed WITH Message <- Post, Client <- Reader, topic <- chat
ImplementsFeed == Feed!Spec

\* Every SendMessage answers, whichever of its goroutines fails, and every
\* GetMessages does, however many messages arrive.
EverybodyIsAnswered ==
    /\ \A p \in Post : handler[p] = "receive" ~> handler[p] = "done"
    /\ \A r \in Reader : reading[r] # "idle" ~> reading[r] = "idle"

\* README.md:222, of SendMessage: "Сохраняет сообщение в базе данных через
\* gRPC-метод SaveMessage": a call that reaches dbservice for a chat that exists
\* saves the message.
PostIsSaved ==
    [][\A p \in Post, c \in chats : CallSave(p, c) => <<p, c>> \in saved']_vars
=============================================================================
