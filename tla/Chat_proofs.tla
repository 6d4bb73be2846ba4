----------------------------- MODULE Chat_proofs -----------------------------
(* Proofs about chats, for any chats, users, calls and clients.              *)
EXTENDS Chat, SequenceTheorems, TLAPS

-----------------------------------------------------------------------------
(* Creations. *)

creationState == <<chats, members, given, pc, asked, id, answer>>

CreationTypes ==
    /\ chats \subseteq given /\ given \subseteq ChatId
    /\ members \in [ChatId -> SUBSET User]
    /\ pc \in [Creation -> CreationStage]
    /\ asked \in [Creation -> SUBSET (User \cup {Stranger})]
    /\ id \in [Creation -> ChatId \cup {None}]
    /\ answer \in [Creation -> {None, "OK", "error"}]

\* The sequence gives an id to one creation only, and nothing is known of an id
\* that was not given out.
Given ==
    /\ \A k \in Creation : id[k] # None => id[k] \in given
    /\ \A k, l \in Creation : id[k] # None /\ id[k] = id[l] => k = l
    /\ \A c \in ChatId \ given : members[c] = {}

\* What a stage knows: the chat is committed before its users are inserted, it
\* has none before that transaction is committed, and no caller is told of it.
Staged ==
    \A k \in Creation :
        /\ pc[k] \in {"idle", "insert"} => id[k] = None
        /\ pc[k] \in {"commit", "open", "add", "addCommit"} =>
              id[k] # None /\ members[id[k]] = {}
        /\ pc[k] \in {"open", "add", "addCommit"} => id[k] \in chats
        /\ pc[k] = "addCommit" => asked[k] \subseteq User
        /\ pc[k] # "done" => answer[k] # "OK"

CInv == CreationTypes /\ Given /\ Staged /\ ChatsAreWhole

LEMMA InitCInv == Init => CInv
<1> SUFFICES ASSUME Init PROVE CInv
  OBVIOUS
<1>1. CreationTypes
  BY DEF Init, CreationTypes, CreationStage
<1>2. Given /\ Staged /\ ChatsAreWhole
  BY ChatAssumption DEF Init, Given, Staged, ChatsAreWhole
<1> QED
  BY <1>1, <1>2 DEF CInv

LEMMA UnchangedCInv == ASSUME CInv, UNCHANGED creationState PROVE CInv'
<1>1. CreationTypes' /\ Given'
  BY DEF creationState, CInv, CreationTypes, Given
<1>2. Staged' /\ ChatsAreWhole'
  BY DEF creationState, CInv, Staged, ChatsAreWhole
<1> QED
  BY <1>1, <1>2 DEF CInv

\* A step of k that changes no table: it ends with an error, or goes on.
LEMMA QuietCInv ==
    ASSUME CInv, NEW k \in Creation, UNCHANGED <<chats, members, given, id>>,
           NEW s \in CreationStage, NEW a \in {None, "OK", "error"},
           NEW u \in SUBSET (User \cup {Stranger}),
           pc' = [pc EXCEPT ![k] = s], answer' = [answer EXCEPT ![k] = a],
           asked' = [asked EXCEPT ![k] = u],
           a = "OK" => answer[k] = "OK" /\ s = "done",
           u = asked[k] \/ pc[k] = "idle",
           \/ s = "done"
           \/ pc[k] = "idle" /\ s = "insert"
           \/ pc[k] = "open" /\ s = "add"
           \/ pc[k] = "add" /\ s = "addCommit" /\ u \subseteq User
           \/ s = pc[k]
    PROVE  CInv'
<1>1. CreationTypes'
  BY DEF CInv, CreationTypes
<1>2. /\ pc'[k] = s /\ answer'[k] = a /\ asked'[k] = u
      /\ \A l \in Creation \ {k} : pc'[l] = pc[l] /\ answer'[l] = answer[l] /\ asked'[l] = asked[l]
  BY DEF CInv, CreationTypes
<1>3. Given'
  BY DEF CInv, Given
<1>4. Staged'
  BY <1>2 DEF CInv, Staged
<1>5. ChatsAreWhole'
  BY <1>2 DEF CInv, ChatsAreWhole, Staged
<1> QED
  BY <1>1, <1>3, <1>4, <1>5 DEF CInv

\* How a call ends, and how it goes on.
LEMMA EndsWith ==
    ASSUME CInv, NEW k \in Creation, NEW code \in {"OK", "error"}, Ends(k, code)
    PROVE  /\ pc' = [pc EXCEPT ![k] = "done"]
           /\ answer' = [answer EXCEPT ![k] = IF answer[k] = None THEN code ELSE answer[k]]
           /\ (IF answer[k] = None THEN code ELSE answer[k]) \in {None, "OK", "error"}
  BY DEF Ends, CInv, CreationTypes

LEMMA ErrorCInv ==
    ASSUME CInv, NEW k \in Creation, Ends(k, "error"),
           UNCHANGED <<chats, members, given, id>>,
           NEW u \in SUBSET (User \cup {Stranger}), asked' = [asked EXCEPT ![k] = u],
           u = asked[k] \/ pc[k] = "idle"
    PROVE  CInv'
<1> DEFINE a == IF answer[k] = None THEN "error" ELSE answer[k]
<1>1. /\ pc' = [pc EXCEPT ![k] = "done"] /\ answer' = [answer EXCEPT ![k] = a]
      /\ a \in {None, "OK", "error"}
  BY EndsWith
<1>2. a = "OK" => answer[k] = "OK"
  OBVIOUS
<1> HIDE DEF a
<1> QED
  BY <1>1, <1>2, QuietCInv DEF CreationStage

LEMMA EnterCInv ==
    ASSUME CInv, NEW k \in Creation, NEW s \in CreationStage, Enter(k, s),
           UNCHANGED <<chats, members, given, id>>,
           NEW u \in SUBSET (User \cup {Stranger}), asked' = [asked EXCEPT ![k] = u],
           u = asked[k] \/ pc[k] = "idle",
           \/ pc[k] = "idle" /\ s = "insert"
           \/ pc[k] = "open" /\ s = "add"
           \/ pc[k] = "add" /\ s = "addCommit" /\ u \subseteq User
    PROVE  CInv'
<1>1. /\ answer' = [answer EXCEPT ![k] = answer[k]] /\ answer[k] \in {None, "OK", "error"}
      /\ pc' = [pc EXCEPT ![k] = s] /\ answer[k] # "OK"
  BY DEF Enter, CInv, CreationTypes, Staged
<1> QED
  BY <1>1, QuietCInv

LEMMA CreateChatCInv ==
    ASSUME CInv, NEW k \in Creation, NEW headers, CreateChat(k, headers) PROVE CInv'
<1>1. PICK u \in SUBSET (User \cup {Stranger}) : asked' = [asked EXCEPT ![k] = u]
  BY DEF CreateChat
<1>2. pc[k] = "idle" /\ UNCHANGED <<chats, members, given, id>>
  BY DEF CreateChat, store
<1>3. Enter(k, "insert") \/ Ends(k, "error")
  BY DEF CreateChat
<1> QED
  BY <1>1, <1>2, <1>3, EnterCInv, ErrorCInv DEF CreationStage

LEMMA StepsOnCInv ==
    ASSUME CInv, NEW k \in Creation,
           \/ InsertFails(k) \/ AddUsersToChat(k) \/ AddUsersFails(k) \/ InsertUsers(k)
    PROVE  CInv'
<1>1. /\ UNCHANGED <<chats, members, given, id>>
      /\ asked' = [asked EXCEPT ![k] = asked[k]]
      /\ asked[k] \in SUBSET (User \cup {Stranger})
  BY DEF InsertFails, AddUsersToChat, AddUsersFails, InsertUsers, store, CInv, CreationTypes
<1>2. CASE InsertFails(k) \/ AddUsersFails(k)
  BY <1>1, <1>2, ErrorCInv DEF InsertFails, AddUsersFails
<1>3. CASE AddUsersToChat(k) \/ InsertUsers(k)
  BY <1>1, <1>3, EnterCInv DEF AddUsersToChat, InsertUsers, CreationStage
<1> QED
  BY <1>2, <1>3

LEMMA InsertCInv == ASSUME CInv, NEW k \in Creation, Insert(k) PROVE CInv'
<1>1. PICK c \in ChatId \ given : given' = given \cup {c} /\ id' = [id EXCEPT ![k] = c]
  BY DEF Insert
<1>2. /\ UNCHANGED <<chats, members, asked, answer>>
      /\ pc[k] = "insert" /\ pc' = [pc EXCEPT ![k] = "commit"]
  BY DEF Insert, Enter
<1>3. CreationTypes'
  BY <1>1, <1>2 DEF CInv, CreationTypes, CreationStage
<1>4. /\ id'[k] = c /\ c # None /\ pc'[k] = "commit" /\ members[c] = {} /\ c \notin chats
      /\ \A l \in Creation \ {k} : id'[l] = id[l] /\ pc'[l] = pc[l] /\ id[l] # c
  BY <1>1, <1>2, ChatAssumption DEF CInv, CreationTypes, Given
<1>5. Given'
  BY <1>1, <1>2, <1>4 DEF CInv, Given
<1>6. Staged'
  BY <1>2, <1>4 DEF CInv, Staged
<1>7. ChatsAreWhole'
  BY <1>2, <1>4 DEF CInv, ChatsAreWhole, Staged
<1> QED
  BY <1>3, <1>5, <1>6, <1>7 DEF CInv

\* The two commits, whether their answer arrives or not.
LEMMA CommitCInv ==
    ASSUME CInv, NEW k \in Creation, Commit(k) \/ CommitFails(k) PROVE CInv'
<1>1. /\ UNCHANGED <<members, given, id, asked>>
      /\ pc[k] = "commit" /\ pc' = [pc EXCEPT ![k] = pc'[k]]
      /\ pc'[k] \in {"open", "done"} /\ answer' = [answer EXCEPT ![k] = answer'[k]]
      /\ answer'[k] \in {None, "error"}
      /\ chats' \in {chats, chats \cup {id[k]}}
      /\ pc'[k] = "open" => chats' = chats \cup {id[k]}
  BY DEF Commit, CommitFails, Enter, Ends, CInv, CreationTypes, Staged
<1>2. id[k] \in given /\ members[id[k]] = {}
  BY <1>1 DEF CInv, Given, Staged
<1>3. CreationTypes'
  BY <1>1, <1>2 DEF CInv, CreationTypes, CreationStage
<1>4. \A l \in Creation \ {k} : pc'[l] = pc[l] /\ answer'[l] = answer[l]
  BY <1>1 DEF CInv, CreationTypes
<1>5. Given'
  BY <1>1 DEF CInv, Given
<1>6. Staged'
  BY <1>1, <1>2, <1>4, ChatAssumption DEF CInv, Staged
<1>7. ChatsAreWhole'
  BY <1>1, <1>2, <1>4, ChatAssumption DEF CInv, ChatsAreWhole
<1> QED
  BY <1>3, <1>5, <1>6, <1>7 DEF CInv

LEMMA AddCommitCInv ==
    ASSUME CInv, NEW k \in Creation, AddCommit(k) \/ AddCommitFails(k) PROVE CInv'
<1>1. /\ UNCHANGED <<chats, given, id, asked>>
      /\ pc[k] = "addCommit" /\ pc' = [pc EXCEPT ![k] = "done"]
  BY DEF AddCommit, AddCommitFails, Ends
<1>2. PICK m \in {{}, asked[k]} :
          /\ members' = [members EXCEPT ![id[k]] = @ \cup m]
          /\ AddCommit(k) => m = asked[k]
  BY DEF AddCommit, AddCommitFails
<1>3. /\ id[k] \in ChatId /\ id[k] \in chats /\ members[id[k]] = {} /\ asked[k] \subseteq User
      /\ id[k] # None
  BY <1>1 DEF CInv, CreationTypes, Given, Staged
<1>4. /\ members' = [members EXCEPT ![id[k]] = m]
      /\ m \in SUBSET User
  BY <1>2, <1>3 DEF CInv, CreationTypes
<1>5. /\ answer' = [answer EXCEPT ![k] = answer'[k]]
      /\ answer'[k] \in {None, "OK", "error"} /\ (answer'[k] = "OK" => m = asked[k])
  BY <1>1, <1>2 DEF AddCommit, AddCommitFails, Ends, CInv, CreationTypes, Staged
<1>6. CreationTypes'
  BY <1>1, <1>4, <1>5 DEF CInv, CreationTypes, CreationStage
<1>7. \A l \in Creation \ {k} : /\ pc'[l] = pc[l] /\ answer'[l] = answer[l]
                                /\ id[l] # id[k]
                                /\ id[l] # None => members'[id[l]] = members[id[l]]
  BY <1>1, <1>3, <1>4, <1>5 DEF CInv, CreationTypes, Given
<1>8. members'[id[k]] = m
  BY <1>3, <1>4 DEF CInv, CreationTypes
<1>9. Given'
  BY <1>1, <1>3, <1>4 DEF CInv, CreationTypes, Given
<1>10. Staged'
  BY <1>1, <1>7 DEF CInv, CreationTypes, Staged
<1>11. ChatsAreWhole'
  BY <1>1, <1>3, <1>5, <1>7, <1>8 DEF CInv, ChatsAreWhole
<1> QED
  BY <1>6, <1>9, <1>10, <1>11 DEF CInv

LEMMA GiveUpCInv == ASSUME CInv, NEW k \in Creation, GiveUp(k) PROVE CInv'
<1>1. /\ UNCHANGED <<chats, members, given, id>>
      /\ pc' = [pc EXCEPT ![k] = pc[k]] /\ pc[k] \in CreationStage
      /\ asked' = [asked EXCEPT ![k] = asked[k]]
      /\ asked[k] \in SUBSET (User \cup {Stranger})
      /\ answer' = [answer EXCEPT ![k] = "error"]
  BY DEF GiveUp, store, CInv, CreationTypes
<1> QED
  BY <1>1, QuietCInv

\* dbservice stops: no table changes, and no answer becomes OK.
LEMMA RestartDbCInv == ASSUME CInv, RestartDb PROVE CInv'
<1>1. UNCHANGED <<chats, members, given, id, asked>>
  BY DEF RestartDb, store
<1>2. CreationTypes'
  BY <1>1 DEF RestartDb, CInv, CreationTypes, CreationStage
<1>3. \A k \in Creation : /\ pc'[k] = IF pc[k] = "idle" THEN "idle" ELSE "done"
                          /\ answer'[k] = "OK" => answer[k] = "OK"
  BY DEF RestartDb
<1>4. Given'
  BY <1>1 DEF CInv, Given
<1>5. Staged'
  BY <1>1, <1>3 DEF CInv, Staged
<1>6. ChatsAreWhole'
  BY <1>1, <1>3 DEF CInv, ChatsAreWhole
<1> QED
  BY <1>2, <1>4, <1>5, <1>6 DEF CInv

\* What messages are sent, saved and read does not concern the creations.
LEMMA ElsewhereCInv ==
    ASSUME CInv,
           \/ \E s \in Save : CallSaveMessage(s)
           \/ \E p \in Post :
                 SendMessage(p) \/ SendRefused(p) \/ PublishStep(p) \/ SaveStep(p) \/ Reply(p)
           \/ \E r \in Reader : GetMessages(r) \/ ReadStep(r)
           \/ LoseConnection \/ RestartChats
    PROVE  CInv'
<1>1. UNCHANGED creationState
  BY DEF creationState, creation, store, quiet, others, CallSaveMessage, SendMessage, SendRefused,
         PublishStep, DeclareExchange, Publish, PublishLost, PublisherFails,
         SaveStep, CallSave, CallSaveFails, Reply, GetMessages, ReadStep, DeclareQueue,
         BindQueue, ReadFails, Consume, ReceiveMessage, Timeout, LoseConnection, RestartChats
<1> QED
  BY <1>1, UnchangedCInv

LEMMA NextCInv == ASSUME CInv, [Next]_vars PROVE CInv'
<1>1. CASE UNCHANGED vars
  BY <1>1, UnchangedCInv DEF vars, store, creation, creationState
<1>2. ASSUME NEW k \in Creation, CreateNewChat(k) \/ CallCreateChat(k) PROVE CInv'
  BY <1>2, CreateChatCInv DEF CreateNewChat, CallCreateChat
<1>3. ASSUME NEW k \in Creation, CreateStep(k) \/ GiveUp(k) PROVE CInv'
  BY <1>3, InsertCInv, CommitCInv, StepsOnCInv, AddCommitCInv, GiveUpCInv DEF CreateStep
<1> QED
  BY <1>1, <1>2, <1>3, ElsewhereCInv, RestartDbCInv DEF Next

-----------------------------------------------------------------------------
(* Posts. *)

PostTypes ==
    /\ exchanges \subseteq ChatId /\ linked \in BOOLEAN
    /\ log \in [ChatId -> Seq(Post)]
    /\ url \in [Post -> ChatId \cup {None}]
    /\ handler \in [Post -> HandlerStage]
    /\ publisher \in [Post -> PublisherStage]
    /\ saver \in [Post -> SaverStage]
    /\ errChan \in [Post -> Seq(Result)]
    /\ reply \in [Post -> {None, "200", "400", "500", "502"}]

\* A handler that waits gets one result of each goroutine: what errChan holds is
\* the number of those that are over.
Sent(stage) == IF stage = "sent" THEN 1 ELSE 0
Results ==
    \A p \in Post :
        /\ handler[p] = "idle" => publisher[p] = "idle" /\ saver[p] = "idle"
        /\ handler[p] # "receive" => errChan[p] = <<>>
        /\ handler[p] = "receive" =>
              /\ publisher[p] # "idle" /\ saver[p] # "idle" /\ url[p] \in ChatId
              /\ Len(errChan[p]) = Sent(publisher[p]) + Sent(saver[p])

PInv == PostTypes /\ Results /\ NoSendAfterClose

postState == <<exchanges, log, linked, url, handler, publisher, saver, errChan, reply>>

LEMMA InitPInv == Init => PInv
<1> SUFFICES ASSUME Init PROVE PInv
  OBVIOUS
<1>1. PICK calls \in Together :
          handler = [p \in Post |-> IF p \in calls THEN "idle" ELSE "done"]
  BY DEF Init
<1>2. PostTypes
  BY <1>1 DEF Init, PostTypes, HandlerStage, PublisherStage, SaverStage
<1>3. Results /\ NoSendAfterClose
  BY <1>1 DEF Init, Results, NoSendAfterClose
<1> QED
  BY <1>2, <1>3 DEF PInv

LEMMA UnchangedPInv == ASSUME PInv, UNCHANGED postState PROVE PInv'
<1>1. PostTypes'
  BY DEF postState, PInv, PostTypes
<1>2. Results' /\ NoSendAfterClose'
  BY DEF postState, PInv, Results, NoSendAfterClose
<1> QED
  BY <1>1, <1>2 DEF PInv

\* A step of one post that keeps what is said of it.
LEMMA OnePost ==
    ASSUME PInv, NEW p \in Post, PostTypes',
           \A q \in Post \ {p} : /\ handler'[q] = handler[q] /\ publisher'[q] = publisher[q]
                               /\ saver'[q] = saver[q] /\ errChan'[q] = errChan[q]
                               /\ url'[q] = url[q],
           handler'[p] = "idle" => publisher'[p] = "idle" /\ saver'[p] = "idle",
           handler'[p] # "receive" => errChan'[p] = <<>>,
           handler'[p] = "receive" =>
              /\ publisher'[p] # "idle" /\ saver'[p] # "idle" /\ url'[p] \in ChatId
              /\ Len(errChan'[p]) = Sent(publisher'[p]) + Sent(saver'[p]),
           handler'[p] = "done" =>
              publisher'[p] \in {"idle", "sent"} /\ saver'[p] \in {"idle", "sent"}
    PROVE  PInv'
<1>1. Results'
  BY DEF PInv, Results
<1>2. NoSendAfterClose'
  BY DEF PInv, NoSendAfterClose
<1> QED
  BY <1>1, <1>2 DEF PInv

LEMMA HandlerPInv ==
    ASSUME PInv, NEW p \in Post, SendMessage(p) \/ SendRefused(p) \/ Reply(p)
    PROVE  PInv'
<1>1. errChan[p] \in Seq(Result) /\ Len(errChan[p]) \in Nat
  BY DEF PInv, PostTypes
<1>2. PostTypes'
  <2>1. Verdict(p) \in {"200", "400", "500"}
    BY DEF Verdict
  <2>2. <<>> \in Seq(Result)
    OBVIOUS
  <2>3. UNCHANGED <<exchanges, log, linked>>
    BY DEF SendMessage, SendRefused, Reply, broker
  <2>4. /\ url' \in [Post -> ChatId \cup {None}] /\ handler' \in [Post -> HandlerStage]
        /\ publisher' \in [Post -> PublisherStage] /\ saver' \in [Post -> SaverStage]
    <3>1. CASE SendMessage(p)
      <4>1. PICK c \in ChatId : url' = [url EXCEPT ![p] = c]
        BY <3>1 DEF SendMessage
      <4> QED
        BY <3>1, <4>1 DEF SendMessage, PInv, PostTypes, HandlerStage, PublisherStage, SaverStage
    <3>2. CASE SendRefused(p) \/ Reply(p)
      BY <3>2 DEF SendRefused, Reply, PInv, PostTypes, HandlerStage
    <3> QED
      BY <3>1, <3>2
  <2>5. reply' \in [Post -> {None, "200", "400", "500", "502"}]
    BY <2>1 DEF SendMessage, SendRefused, Reply, PInv, PostTypes
  <2>6. errChan' \in [Post -> Seq(Result)]
    BY <2>2 DEF SendMessage, SendRefused, Reply, PInv, PostTypes
  <2> QED
    BY <2>3, <2>4, <2>5, <2>6 DEF PInv, PostTypes
<1>3. CASE SendMessage(p)
  <2>1. /\ handler'[p] = "receive" /\ publisher'[p] = "declare" /\ saver'[p] = "call"
        /\ url'[p] \in ChatId /\ errChan'[p] = <<>>
    BY <1>3 DEF SendMessage, PInv, PostTypes, Results
  <2>2. \A q \in Post \ {p} : /\ handler'[q] = handler[q] /\ publisher'[q] = publisher[q]
                            /\ saver'[q] = saver[q] /\ errChan'[q] = errChan[q]
                            /\ url'[q] = url[q]
    BY <1>3 DEF SendMessage, PInv, PostTypes
  <2> QED
    BY <1>2, <2>1, <2>2, OnePost DEF Sent
<1>4. CASE SendRefused(p)
  <2>1. /\ handler'[p] = "done" /\ publisher'[p] = "idle" /\ saver'[p] = "idle"
        /\ errChan'[p] = <<>>
    BY <1>4 DEF SendRefused, PInv, PostTypes, Results
  <2>2. \A q \in Post \ {p} : /\ handler'[q] = handler[q] /\ publisher'[q] = publisher[q]
                            /\ saver'[q] = saver[q] /\ errChan'[q] = errChan[q]
                            /\ url'[q] = url[q]
    BY <1>4 DEF SendRefused, PInv, PostTypes
  <2> QED
    BY <1>2, <2>1, <2>2, OnePost
<1>5. CASE Reply(p)
  <2>1. Len(errChan[p]) = Sent(publisher[p]) + Sent(saver[p]) /\ Len(errChan[p]) = 2
    BY <1>5 DEF Reply, PInv, Results
  <2>2. publisher[p] = "sent" /\ saver[p] = "sent"
    BY <2>1 DEF Sent
  <2>3. /\ handler'[p] = "done" /\ errChan'[p] = <<>>
        /\ publisher'[p] = "sent" /\ saver'[p] = "sent"
    BY <1>5, <2>2 DEF Reply, PInv, PostTypes
  <2>4. \A q \in Post \ {p} : /\ handler'[q] = handler[q] /\ publisher'[q] = publisher[q]
                            /\ saver'[q] = saver[q] /\ errChan'[q] = errChan[q]
                            /\ url'[q] = url[q]
    BY <1>5 DEF Reply, PInv, PostTypes
  <2> QED
    BY <1>2, <2>3, <2>4, OnePost
<1> QED
  BY <1>3, <1>4, <1>5

\* A goroutine that works has a handler that waits: it reports once, when it ends.
LEMMA PublisherPInv == ASSUME PInv, NEW p \in Post, PublishStep(p) PROVE PInv'
<1>1. /\ UNCHANGED <<url, handler, saver, reply>>
      /\ publisher[p] \in {"declare", "publish"} /\ handler[p] = "receive"
      /\ url[p] \in ChatId
  BY DEF PublishStep, DeclareExchange, Publish, PublishLost, PublisherFails, request,
         PInv, PostTypes, HandlerStage, Results, NoSendAfterClose
<1>2. \/ /\ publisher' = [publisher EXCEPT ![p] = "publish"] /\ publisher[p] = "declare"
         /\ UNCHANGED errChan
      \/ /\ publisher' = [publisher EXCEPT ![p] = "sent"]
         /\ \E e \in Result : errChan' = [errChan EXCEPT ![p] = Append(errChan[p], e)]
  BY DEF PublishStep, DeclareExchange, Publish, PublishLost, PublisherFails, Report, Result
<1>3. /\ errChan[p] \in Seq(Result) /\ Len(errChan[p]) \in Nat
      /\ Len(errChan[p]) = Sent(publisher[p]) + Sent(saver[p]) /\ saver[p] # "idle"
  BY <1>1 DEF PInv, PostTypes, Results
<1>4. \A e \in Result : /\ Append(errChan[p], e) \in Seq(Result)
                        /\ Len(Append(errChan[p], e)) = Len(errChan[p]) + 1
  BY <1>3
<1>5. /\ log' \in [ChatId -> Seq(Post)] /\ exchanges' \subseteq ChatId /\ linked' \in BOOLEAN
  <2>1. \A c \in ChatId : log[c] \in Seq(Post) /\ Append(log[c], p) \in Seq(Post)
    BY DEF PInv, PostTypes
  <2>2. exchanges' \subseteq ChatId /\ linked' \in BOOLEAN
    BY <1>1 DEF PublishStep, DeclareExchange, Publish, PublishLost, PublisherFails, broker,
       PInv, PostTypes
  <2>3. log' = log \/ log' = [log EXCEPT ![url[p]] = Append(@, p)]
    BY DEF PublishStep, DeclareExchange, Publish, PublishLost, PublisherFails, broker
  <2> QED
    BY <1>1, <2>1, <2>2, <2>3 DEF PInv, PostTypes
<1>6. PostTypes'
  BY <1>1, <1>2, <1>4, <1>5 DEF PInv, PostTypes, PublisherStage
<1>7. Len(errChan'[p]) = Sent(publisher'[p]) + Sent(saver[p]) /\ publisher'[p] # "idle"
  BY <1>1, <1>2, <1>3, <1>4 DEF PInv, PostTypes, Sent
<1>8. \A q \in Post \ {p} : publisher'[q] = publisher[q] /\ errChan'[q] = errChan[q]
  BY <1>2 DEF PInv, PostTypes
<1> QED
  BY <1>1, <1>3, <1>6, <1>7, <1>8, OnePost

LEMMA SaverPInv == ASSUME PInv, NEW p \in Post, SaveStep(p) PROVE PInv'
<1>1. /\ UNCHANGED <<url, handler, publisher, reply, exchanges, log, linked>>
      /\ saver[p] = "call" /\ saver' = [saver EXCEPT ![p] = "sent"]
      /\ handler[p] = "receive"
      /\ url[p] \in ChatId
  BY DEF SaveStep, CallSave, CallSaveFails, request, broker,
         PInv, PostTypes, HandlerStage, Results, NoSendAfterClose
<1>2. PICK e \in Result : errChan' = [errChan EXCEPT ![p] = Append(errChan[p], e)]
  BY DEF SaveStep, CallSave, CallSaveFails, Report, SaveResult, Result
<1>3. /\ errChan[p] \in Seq(Result) /\ Len(errChan[p]) \in Nat
      /\ Len(errChan[p]) = Sent(publisher[p]) + Sent(saver[p]) /\ publisher[p] # "idle"
  BY <1>1 DEF PInv, PostTypes, Results
<1>4. /\ Append(errChan[p], e) \in Seq(Result)
      /\ Len(Append(errChan[p], e)) = Len(errChan[p]) + 1
  BY <1>3
<1>5. PostTypes'
  BY <1>1, <1>2, <1>4 DEF PInv, PostTypes, SaverStage
<1>6. Len(errChan'[p]) = Sent(publisher[p]) + Sent(saver'[p]) /\ saver'[p] = "sent"
  BY <1>1, <1>2, <1>3, <1>4 DEF PInv, PostTypes, Sent
<1>7. \A q \in Post \ {p} : saver'[q] = saver[q] /\ errChan'[q] = errChan[q]
  BY <1>1, <1>2 DEF PInv, PostTypes
<1> QED
  BY <1>1, <1>3, <1>5, <1>6, <1>7, OnePost

\* The service stops, and its goroutines with it.
LEMMA RestartChatsPInv == ASSUME PInv, RestartChats PROVE PInv'
<1>1. PostTypes'
  BY DEF RestartChats, PInv, PostTypes, HandlerStage, PublisherStage, SaverStage
<1>2. Results' /\ NoSendAfterClose'
  BY DEF RestartChats, PInv, PostTypes, Results, NoSendAfterClose
<1> QED
  BY <1>1, <1>2 DEF PInv

LEMMA NextPInv == ASSUME PInv, [Next]_vars PROVE PInv'
<1>1. CASE UNCHANGED vars
  BY <1>1, UnchangedPInv DEF vars, broker, post, postState
<1>2. CASE LoseConnection
  <2>1. UNCHANGED <<exchanges, log, url, handler, publisher, saver, errChan, reply>>
        /\ linked' = FALSE
    BY <1>2 DEF LoseConnection, post
  <2> QED
    BY <2>1 DEF PInv, PostTypes, Results, NoSendAfterClose
<1>3. ASSUME NEW k \in Creation,
             CreateNewChat(k) \/ CallCreateChat(k) \/ CreateStep(k) \/ GiveUp(k)
      PROVE  PInv'
  BY <1>3, UnchangedPInv
     DEF postState, elsewhere, broker, post, CreateNewChat, CallCreateChat, CreateChat, CreateStep,
         Insert, InsertFails, Commit, CommitFails, AddUsersToChat, InsertUsers, AddUsersFails,
         AddCommit, AddCommitFails, GiveUp
<1>4. ASSUME \/ RestartDb
             \/ \E s \in Save : CallSaveMessage(s)
             \/ \E r \in Reader : GetMessages(r) \/ ReadStep(r)
      PROVE  PInv'
  BY <1>4, UnchangedPInv
     DEF postState, broker, post, others, RestartDb, CallSaveMessage, GetMessages, ReadStep,
         DeclareQueue, BindQueue, ReadFails, Consume, ReceiveMessage, Timeout
<1> QED
  BY <1>1, <1>2, <1>3, <1>4, HandlerPInv, PublisherPInv, SaverPInv, RestartChatsPInv DEF Next

-----------------------------------------------------------------------------
(* Sequences: what a message does that arrives at the end of a queue, and one *)
(* that is delivered from its head.                                           *)

LEMMA ArriveLast ==
    ASSUME NEW S, NEW s \in Seq(S), NEW t \in Seq(S), NEW e \in S
    PROVE  s \o Append(t, e) = Append(s \o t, e)
<1> DEFINE l == s \o Append(t, e)
           r == Append(s \o t, e)
<1>1. /\ s \o t \in Seq(S) /\ Len(s \o t) = Len(s) + Len(t)
      /\ \A i \in 1 .. Len(s) + Len(t) :
            (s \o t)[i] = IF i <= Len(s) THEN s[i] ELSE t[i - Len(s)]
  BY ConcatProperties
<1>2. /\ Append(t, e) \in Seq(S) /\ Len(Append(t, e)) = Len(t) + 1
      /\ \A i \in 1 .. Len(t) : Append(t, e)[i] = t[i]
      /\ Append(t, e)[Len(t) + 1] = e
  BY AppendProperties
<1>3. /\ l \in Seq(S) /\ Len(l) = Len(s) + Len(Append(t, e))
      /\ \A i \in 1 .. Len(s) + Len(Append(t, e)) :
            l[i] = IF i <= Len(s) THEN s[i] ELSE Append(t, e)[i - Len(s)]
  BY <1>2, ConcatProperties
<1>4. /\ r \in Seq(S) /\ Len(r) = Len(s \o t) + 1
      /\ \A i \in 1 .. Len(s \o t) : r[i] = (s \o t)[i]
      /\ r[Len(s \o t) + 1] = e
  BY <1>1, AppendProperties
<1>5. Len(s) \in Nat /\ Len(t) \in Nat
  BY LenProperties
<1> HIDE DEF l, r
<1>6. Len(l) = Len(r) /\ Len(l) = Len(s) + Len(t) + 1
  BY <1>1, <1>2, <1>3, <1>4, <1>5
<1>7. ASSUME NEW i \in 1 .. Len(l) PROVE l[i] = r[i]
  <2>1. CASE i <= Len(s) + Len(t)
    <3>1. r[i] = IF i <= Len(s) THEN s[i] ELSE t[i - Len(s)]
      BY <1>1, <1>4, <1>5, <2>1
    <3>2. l[i] = IF i <= Len(s) THEN s[i] ELSE Append(t, e)[i - Len(s)]
      BY <1>2, <1>3, <1>5, <1>6
    <3>3. i > Len(s) => i - Len(s) \in 1 .. Len(t)
      BY <1>5, <2>1
    <3> QED
      BY <1>2, <3>1, <3>2, <3>3
  <2>2. CASE i = Len(s) + Len(t) + 1
    <3>1. l[i] = Append(t, e)[Len(t) + 1]
      BY <1>2, <1>3, <1>5, <2>2
    <3> QED
      BY <1>1, <1>2, <1>4, <2>2, <3>1
  <2> QED
    BY <1>5, <1>6, <2>1, <2>2
<1>8. l = r
  BY <1>3, <1>4, <1>6, <1>7, SeqEqual
<1> QED
  BY <1>8 DEF l, r

LEMMA DeliverFirst ==
    ASSUME NEW S, NEW s \in Seq(S), NEW t \in Seq(S), t # <<>>
    PROVE  Append(s, Head(t)) \o Tail(t) = s \o t
<1> DEFINE h == <<Head(t)>>
<1>1. Head(t) \in S /\ Tail(t) \in Seq(S) /\ h \in Seq(S)
  BY HeadTailProperties
<1>2. Append(s, Head(t)) = s \o h
  <2>1. h = Append(<<>>, Head(t)) /\ <<>> \in Seq(S)
    BY <1>1
  <2>2. s \o Append(<<>>, Head(t)) = Append(s \o <<>>, Head(t))
    BY <1>1, <2>1, ArriveLast
  <2> QED
    BY <2>1, <2>2, ConcatEmptySeq
<1>3. h \o Tail(t) = t
  <2>1. Len(t) \in Nat \ {0}
    BY EmptySeq
  <2>2. SubSeq(t, 1, Len(t)) = <<t[1]>> \o SubSeq(t, 2, Len(t))
    BY <2>1, SubSeqRecursiveFirst
  <2> QED
    BY <2>1, <2>2, SubSeqFull, TailIsSubSeq
<1> QED
  BY <1>1, <1>2, <1>3, ConcatAssociative

\* The log from a point on, when a message is added to it.
LEMMA LogGrows ==
    ASSUME NEW S, NEW s \in Seq(S), NEW e \in S, NEW n \in 0 .. Len(s)
    PROVE  SubSeq(Append(s, e), n + 1, Len(Append(s, e))) = Append(SubSeq(s, n + 1, Len(s)), e)
<1> DEFINE a == Append(s, e)
           l == SubSeq(a, n + 1, Len(a))
           w == SubSeq(s, n + 1, Len(s))
           r == Append(w, e)
<1>1. Len(s) \in Nat /\ (\A i \in 1 .. Len(s) : s[i] \in S)
  BY LenProperties, ElementOfSeq
<1>2. /\ a \in Seq(S) /\ Len(a) = Len(s) + 1
      /\ \A i \in 1 .. Len(s) : a[i] = s[i]
      /\ a[Len(s) + 1] = e
  BY AppendProperties
<1> HIDE DEF a
<1>3. \A i \in n + 1 .. Len(a) : a[i] \in S
  BY <1>1, <1>2
<1>4. /\ l \in Seq(S) /\ Len(l) = Len(s) - n + 1
      /\ \A i \in 1 .. Len(s) - n + 1 : l[i] = a[n + i]
  <2>1. /\ l \in Seq(S)
        /\ Len(l) = IF n + 1 <= Len(a) THEN Len(a) - (n + 1) + 1 ELSE 0
        /\ \A i \in 1 .. Len(a) - (n + 1) + 1 : l[i] = a[(n + 1) + i - 1]
    BY <1>1, <1>2, <1>3, SubSeqProperties
  <2> QED
    BY <1>1, <1>2, <2>1
<1>5. /\ w \in Seq(S) /\ Len(w) = Len(s) - n
      /\ \A i \in 1 .. Len(s) - n : w[i] = s[n + i]
  <2>1. \A i \in n + 1 .. Len(s) : s[i] \in S
    BY <1>1
  <2>2. /\ w \in Seq(S)
        /\ Len(w) = IF n + 1 <= Len(s) THEN Len(s) - (n + 1) + 1 ELSE 0
        /\ \A i \in 1 .. Len(s) - (n + 1) + 1 : w[i] = s[(n + 1) + i - 1]
    BY <1>1, <2>1, SubSeqProperties
  <2> QED
    BY <1>1, <2>2
<1> HIDE DEF l, w
<1>6. /\ r \in Seq(S) /\ Len(r) = Len(w) + 1
      /\ \A i \in 1 .. Len(w) : r[i] = w[i]
      /\ r[Len(w) + 1] = e
  BY <1>5, AppendProperties
<1> HIDE DEF r
<1>7. Len(l) = Len(r)
  BY <1>1, <1>4, <1>5, <1>6
<1>8. ASSUME NEW i \in 1 .. Len(l) PROVE l[i] = r[i]
  <2>1. CASE i <= Len(s) - n
    BY <1>1, <1>2, <1>4, <1>5, <1>6, <2>1
  <2>2. CASE i = Len(s) - n + 1
    <3>1. n + i = Len(s) + 1 /\ i = Len(w) + 1
      BY <1>1, <1>5, <2>2
    <3> QED
      BY <1>1, <1>2, <1>4, <1>6, <2>2, <3>1
  <2> QED
    BY <1>1, <1>4, <2>1, <2>2
<1>9. l = r
  BY <1>4, <1>6, <1>7, <1>8, SeqEqual
<1> QED
  BY <1>9 DEF l, r, w, a

\* What has come in first is a prefix of all.
LEMMA PrefixOfAll ==
    ASSUME NEW S, NEW s \in Seq(S), NEW t \in Seq(S)
    PROVE  SubSeq(s \o t, 1, Len(s)) = s
<1>1. Len(s) \in Nat
  BY LenProperties
<1>2. CASE Len(s) = 0
  BY <1>2, EmptySeq, SubSeqEmpty
<1>3. CASE Len(s) > 0
  BY <1>1, <1>3, SubSeqOfConcat1, SubSeqFull
<1> QED
  BY <1>1, <1>2, <1>3

-----------------------------------------------------------------------------
(* Readers.  The log is only written while the connection lasts, and the      *)
(* queues are empty once it is lost.                                          *)

ReadTypes ==
    /\ reading \in [Reader -> ReadStage]
    /\ chat \in [Reader -> ChatId \cup {None}]
    /\ queue \in [Reader -> Seq(Post)] /\ got \in [Reader -> Seq(Post)]
    /\ seen \in [Reader -> Seq(Post)]
    /\ since \in [Reader -> Nat]
    /\ reads \in [Reader -> 0 .. MaxReads]

\* A reader with a queue knows where in the log it was bound.
Tuned ==
    \A r \in Reader :
        /\ reading[r] # "idle" => chat[r] \in ChatId
        /\ Bound(r) => since[r] \in 0 .. Len(log[chat[r]])
        /\ reading[r] # "receive" => got[r] = <<>>
        /\ ~ Bound(r) \/ ~ linked => queue[r] = <<>>

\* WindowIsGapless, one reader at a time.
Gapless(r) ==
    /\ Bound(r) /\ linked => got[r] \o queue[r] = Window(r)
    /\ got[r] # <<>> => got[r] = SubSeq(Window(r), 1, Len(got[r]))

RInv == ReadTypes /\ Tuned /\ \A r \in Reader : Gapless(r)

readState == <<reading, chat, queue, got, since, reads, seen, log, linked>>

LEMMA InitRInv == Init => RInv
<1> SUFFICES ASSUME Init PROVE RInv
  OBVIOUS
<1>1. ReadTypes
  BY ChatAssumption DEF Init, ReadTypes, ReadStage
<1>2. Tuned
  BY DEF Init, Tuned, Bound
<1>3. \A r \in Reader : Gapless(r)
  BY DEF Init, Gapless, Bound
<1> QED
  BY <1>1, <1>2, <1>3 DEF RInv

LEMMA UnchangedRInv == ASSUME RInv, UNCHANGED readState PROVE RInv'
<1>1. ReadTypes' /\ Tuned'
  BY DEF readState, RInv, ReadTypes, Tuned, Bound
<1>2. \A r \in Reader : Gapless(r)'
  BY DEF readState, RInv, Gapless, Bound, Window
<1> QED
  BY <1>1, <1>2 DEF RInv

\* A step of one reader keeps what is said of the others.
LEMMA OneReader ==
    ASSUME RInv, NEW r \in Reader, ReadTypes', UNCHANGED <<log, linked>>,
           \A q \in Reader \ {r} : /\ reading'[q] = reading[q] /\ chat'[q] = chat[q]
                                 /\ queue'[q] = queue[q] /\ got'[q] = got[q]
                                 /\ since'[q] = since[q],
           reading'[r] # "idle" => chat'[r] \in ChatId,
           Bound(r)' => since'[r] \in 0 .. Len(log[chat'[r]]),
           reading'[r] # "receive" => got'[r] = <<>>,
           ~ Bound(r)' \/ ~ linked => queue'[r] = <<>>,
           Gapless(r)'
    PROVE  RInv'
<1>1. Tuned'
  BY DEF RInv, Tuned, Bound
<1>2. \A q \in Reader \ {r} : Gapless(q)'
  BY DEF RInv, Gapless, Bound, Window
<1> QED
  BY <1>1, <1>2 DEF RInv

LEMMA ReadStepTypes ==
    ASSUME RInv, NEW r \in Reader, GetMessages(r) \/ ReadStep(r), PostTypes
    PROVE  /\ ReadTypes' /\ UNCHANGED <<log, linked>>
           /\ \A q \in Reader \ {r} : /\ reading'[q] = reading[q] /\ chat'[q] = chat[q]
                                     /\ queue'[q] = queue[q] /\ got'[q] = got[q]
                                     /\ since'[q] = since[q]
<1>1. UNCHANGED <<log, linked>>
  BY DEF GetMessages, ReadStep, DeclareQueue, BindQueue, ReadFails, Consume,
         ReceiveMessage, Timeout, others, broker
<1>2. \A q \in Reader \ {r} : /\ reading'[q] = reading[q] /\ chat'[q] = chat[q]
                            /\ queue'[q] = queue[q] /\ got'[q] = got[q]
                            /\ since'[q] = since[q]
  BY DEF GetMessages, ReadStep, DeclareQueue, BindQueue, ReadFails, Consume,
         ReceiveMessage, Timeout, Advance, RInv, ReadTypes
<1>3. CASE GetMessages(r)
  <2>1. reads[r] + 1 \in 0 .. MaxReads
    BY <1>3, ChatAssumption DEF GetMessages, RInv, ReadTypes
  <2>2. chat' \in [Reader -> ChatId \cup {None}]
    BY <1>3 DEF GetMessages, RInv, ReadTypes
  <2> QED
    BY <1>1, <1>2, <1>3, <2>1, <2>2 DEF GetMessages, RInv, ReadTypes, ReadStage
<1>4. CASE ReceiveMessage(r)
  <2>1. /\ queue[r] \in Seq(Post) /\ got[r] \in Seq(Post) /\ queue[r] # <<>>
    BY <1>4 DEF ReceiveMessage, RInv, ReadTypes
  <2>2. /\ Tail(queue[r]) \in Seq(Post) /\ Append(got[r], Head(queue[r])) \in Seq(Post)
    BY <2>1, HeadTailProperties
  <2> QED
    BY <1>1, <1>2, <1>4, <2>2 DEF ReceiveMessage, RInv, ReadTypes
<1>5. CASE Timeout(r)
  <2>1. \A heard \in {<<>>, got[r]} : seen[r] \o heard \in Seq(Post)
    BY ConcatProperties, EmptySeq DEF RInv, ReadTypes
  <2>2. seen' \in [Reader -> Seq(Post)]
    BY <1>5, <2>1 DEF Timeout, RInv, ReadTypes
  <2>3. <<>> \in Seq(Post)
    OBVIOUS
  <2> QED
    BY <1>1, <1>2, <1>5, <2>2, <2>3 DEF Timeout, Advance, RInv, ReadTypes, ReadStage
<1>6. CASE BindQueue(r)
  <2>1. Len(log[chat[r]]) \in Nat
    <3>1. chat[r] \in ChatId
      BY <1>6 DEF BindQueue, RInv, Tuned
    <3> QED
      BY <3>1, LenProperties DEF PostTypes
  <2> QED
    BY <1>1, <1>2, <1>6, <2>1 DEF BindQueue, Advance, RInv, ReadTypes, ReadStage
<1>7. CASE DeclareQueue(r) \/ Consume(r)
  BY <1>1, <1>2, <1>7 DEF DeclareQueue, Consume, Advance, RInv, ReadTypes, ReadStage
<1>8. CASE ReadFails(r)
  <2>1. <<>> \in Seq(Post)
    OBVIOUS
  <2> QED
    BY <1>1, <1>2, <1>8, <2>1 DEF ReadFails, Advance, RInv, ReadTypes, ReadStage
<1> QED
  BY <1>3, <1>4, <1>5, <1>6, <1>7, <1>8 DEF ReadStep

\* While the connection lasts, what a reader has received begins its window.
LEMMA LinkedGapless ==
    ASSUME NEW r \in Reader, got[r] \in Seq(Post), queue[r] \in Seq(Post),
           got[r] \o queue[r] = Window(r)
    PROVE  Gapless(r)
<1>1. SubSeq(got[r] \o queue[r], 1, Len(got[r])) = got[r]
  BY PrefixOfAll
<1> QED
  BY <1>1 DEF Gapless

LEMMA ReaderRInv ==
    ASSUME RInv, PInv, NEW r \in Reader, GetMessages(r) \/ ReadStep(r) PROVE RInv'
<1>1. /\ ReadTypes' /\ UNCHANGED <<log, linked>>
      /\ \A q \in Reader \ {r} : /\ reading'[q] = reading[q] /\ chat'[q] = chat[q]
                                /\ queue'[q] = queue[q] /\ got'[q] = got[q]
                                /\ since'[q] = since[q]
  BY ReadStepTypes DEF PInv
<1>2. CASE GetMessages(r) \/ DeclareQueue(r)
  <2>1. /\ reading'[r] \in {"declare", "bind"} /\ chat'[r] \in ChatId
        /\ got'[r] = <<>> /\ queue'[r] = <<>>
    BY <1>2 DEF GetMessages, DeclareQueue, Advance, RInv, ReadTypes, Tuned, Bound
  <2> QED
    BY <1>1, <2>1, OneReader DEF Bound, Gapless
<1>3. CASE BindQueue(r)
  <2>1. /\ reading'[r] = "consume" /\ chat'[r] = chat[r] /\ chat[r] \in ChatId /\ linked
        /\ got'[r] = <<>> /\ queue'[r] = <<>> /\ since'[r] = Len(log[chat[r]])
    BY <1>3 DEF BindQueue, Advance, RInv, ReadTypes, Tuned, Bound
  <2>2. log[chat[r]] \in Seq(Post) /\ Len(log[chat[r]]) \in Nat
    BY <2>1, LenProperties DEF PInv, PostTypes
  <2>3. Window(r)' = <<>>
    BY <1>1, <2>1, <2>2, SubSeqEmpty DEF Window
  <2>4. got'[r] \o queue'[r] = <<>>
    BY <2>1
  <2>5. Gapless(r)'
    BY <2>1, <2>3, <2>4 DEF Gapless
  <2> QED
    BY <1>1, <2>1, <2>2, <2>5, OneReader DEF Bound
<1>4. CASE Consume(r)
  <2>1. /\ reading'[r] = "receive" /\ Bound(r) /\ chat'[r] = chat[r] /\ chat[r] \in ChatId
        /\ got'[r] = got[r] /\ queue'[r] = queue[r] /\ since'[r] = since[r] /\ linked
        /\ since[r] \in 0 .. Len(log[chat[r]])
    BY <1>4 DEF Consume, Advance, RInv, ReadTypes, Tuned, Bound
  <2>2. Gapless(r)'
    BY <1>1, <2>1 DEF RInv, Gapless, Bound, Window
  <2> QED
    BY <1>1, <2>1, <2>2, OneReader DEF Bound
<1>5. CASE ReceiveMessage(r)
  <2>1. /\ reading'[r] = "receive" /\ Bound(r) /\ chat'[r] = chat[r] /\ chat[r] \in ChatId
        /\ queue[r] # <<>> /\ linked /\ since'[r] = since[r]
        /\ got'[r] = Append(got[r], Head(queue[r])) /\ queue'[r] = Tail(queue[r])
        /\ since[r] \in 0 .. Len(log[chat[r]])
    BY <1>5 DEF ReceiveMessage, RInv, ReadTypes, Tuned, Bound
  <2>2. got'[r] \o queue'[r] = got[r] \o queue[r]
    <3>1. got[r] \in Seq(Post) /\ queue[r] \in Seq(Post)
      BY DEF RInv, ReadTypes
    <3>2. Append(got[r], Head(queue[r])) \o Tail(queue[r]) = got[r] \o queue[r]
      BY <2>1, <3>1, DeliverFirst
    <3> QED
      BY <2>1, <3>2
  <2>3. got'[r] \o queue'[r] = Window(r)'
    BY <1>1, <2>1, <2>2 DEF RInv, Gapless, Window
  <2>4. got'[r] \in Seq(Post) /\ queue'[r] \in Seq(Post)
    BY <1>1 DEF ReadTypes
  <2>5. SubSeq(got'[r] \o queue'[r], 1, Len(got'[r])) = got'[r]
    BY <2>4, PrefixOfAll
  <2>6. Gapless(r)'
    BY <2>3, <2>5 DEF Gapless
  <2> QED
    BY <1>1, <2>1, <2>6, OneReader DEF Bound
<1>6. CASE ReadFails(r) \/ Timeout(r)
  <2>1. reading'[r] = "idle" /\ got'[r] = <<>> /\ queue'[r] = <<>>
    BY <1>6 DEF ReadFails, Timeout, Advance, RInv, ReadTypes, Tuned
  <2> QED
    BY <1>1, <2>1, OneReader DEF Bound, Gapless
<1> QED
  BY <1>2, <1>3, <1>4, <1>5, <1>6 DEF ReadStep

\* A message reaches every queue of its chat, and no other.
LEMMA PublishRInv == ASSUME RInv, PInv, NEW p \in Post, Publish(p) PROVE RInv'
<1>1. /\ linked /\ linked' = linked /\ url[p] \in ChatId
      /\ UNCHANGED <<reading, chat, got, since, reads, seen>>
      /\ log' = [log EXCEPT ![url[p]] = Append(log[url[p]], p)]
      /\ queue' = [r \in Reader |-> IF Bound(r) /\ chat[r] = url[p]
                                       THEN Append(queue[r], p) ELSE queue[r]]
  BY DEF Publish, PInv, PostTypes, HandlerStage, Results, NoSendAfterClose
<1>2. /\ log \in [ChatId -> Seq(Post)]
      /\ \A c \in ChatId : /\ log[c] \in Seq(Post) /\ Len(log[c]) \in Nat
                           /\ Append(log[c], p) \in Seq(Post)
                           /\ Len(Append(log[c], p)) = Len(log[c]) + 1
  BY AppendProperties, LenProperties DEF PInv, PostTypes
<1>3. ReadTypes'
  <2>1. \A r \in Reader : queue[r] \in Seq(Post) /\ Append(queue[r], p) \in Seq(Post)
    BY AppendProperties DEF RInv, ReadTypes
  <2> QED
    BY <1>1, <2>1 DEF RInv, ReadTypes
<1>4. ASSUME NEW r \in Reader, Bound(r), chat[r] = url[p]
      PROVE  since[r] \in 0 .. Len(log'[chat[r]]) /\ Gapless(r)'
  <2>1. since[r] \in 0 .. Len(log[chat[r]]) /\ got[r] \o queue[r] = Window(r)
    BY <1>1, <1>4 DEF RInv, Tuned, Gapless
  <2>2. /\ log'[chat[r]] = Append(log[chat[r]], p) /\ queue'[r] = Append(queue[r], p)
        /\ chat'[r] = chat[r] /\ since'[r] = since[r] /\ got'[r] = got[r]
    BY <1>1, <1>2, <1>4
  <2>3. got[r] \in Seq(Post) /\ queue[r] \in Seq(Post) /\ queue'[r] \in Seq(Post)
    BY <1>3, <1>1 DEF RInv, ReadTypes
  <2>4. got'[r] \o queue'[r] = Append(got[r] \o queue[r], p)
    <3>1. \A s, t \in Seq(Post) : s \o Append(t, p) = Append(s \o t, p)
      BY ArriveLast
    <3>2. got[r] \o Append(queue[r], p) = Append(got[r] \o queue[r], p)
      BY <2>3, <3>1
    <3> QED
      BY <2>2, <3>2
  <2>5. Window(r)' = Append(Window(r), p)
    BY <1>1, <1>2, <1>4, <2>1, <2>2, LogGrows DEF Window
  <2>6. SubSeq(got'[r] \o queue'[r], 1, Len(got'[r])) = got'[r]
    BY <2>2, <2>3, PrefixOfAll
  <2>7. Gapless(r)'
    BY <2>1, <2>4, <2>5, <2>6 DEF Gapless
  <2> QED
    BY <1>1, <1>2, <1>4, <2>1, <2>2, <2>7
<1>5. ASSUME NEW r \in Reader, Bound(r), chat[r] # url[p]
      PROVE  since[r] \in 0 .. Len(log'[chat[r]]) /\ Gapless(r)'
  <2>1. chat[r] \in ChatId
    BY <1>5 DEF RInv, Tuned, Bound
  <2>2. log'[chat[r]] = log[chat[r]] /\ queue'[r] = queue[r]
    BY <1>1, <1>2, <1>5, <2>1
  <2> QED
    BY <1>1, <1>5, <2>2 DEF RInv, Tuned, Gapless, Bound, Window
<1>6. ASSUME NEW r \in Reader, ~ Bound(r) PROVE got[r] = <<>> /\ queue'[r] = <<>>
  BY <1>1, <1>6 DEF RInv, Tuned, Bound
<1>7. Tuned'
  <2>1. \A r \in Reader : Bound(r)' <=> Bound(r)
    BY <1>1 DEF Bound
  <2> QED
    BY <1>1, <1>4, <1>5, <1>6, <2>1 DEF RInv, Tuned
<1>8. \A r \in Reader : Gapless(r)'
  <2>1. ASSUME NEW r \in Reader, ~ Bound(r) PROVE Gapless(r)'
    BY <1>1, <1>6, <2>1 DEF Gapless, Bound
  <2> QED
    BY <1>4, <1>5, <2>1
<1> QED
  BY <1>3, <1>7, <1>8 DEF RInv

\* The connection breaks: the queues are empty, what was received remains.
LEMMA BreakRInv ==
    ASSUME RInv, linked' = FALSE, queue' = [r \in Reader |-> <<>>],
           UNCHANGED <<log, reading, chat, got, since, reads, seen>>
    PROVE  RInv'
<1>1. ReadTypes'
  BY DEF RInv, ReadTypes
<1>2. Tuned'
  BY DEF RInv, Tuned, Bound
<1>3. \A r \in Reader : Gapless(r)'
  BY DEF RInv, Gapless, Window
<1> QED
  BY <1>1, <1>2, <1>3 DEF RInv

LEMMA RestartChatsRInv == ASSUME RInv, RestartChats PROVE RInv'
<1>1. /\ reading' = [r \in Reader |-> "idle"]
      /\ queue' = [r \in Reader |-> <<>>]
      /\ got' = [r \in Reader |-> <<>>] /\ since' = [r \in Reader |-> 0]
      /\ UNCHANGED <<log, chat, reads, seen>>
  BY DEF RestartChats
<1>2. ReadTypes'
  BY <1>1 DEF RInv, ReadTypes, ReadStage
<1>3. Tuned' /\ \A r \in Reader : Gapless(r)'
  BY <1>1 DEF Tuned, Gapless, Bound
<1> QED
  BY <1>2, <1>3 DEF RInv

LEMMA NextRInv == ASSUME RInv, PInv, [Next]_vars PROVE RInv'
<1>1. CASE UNCHANGED vars
  BY <1>1, UnchangedRInv DEF vars, broker, read, readState
<1>2. ASSUME NEW k \in Creation,
             CreateNewChat(k) \/ CallCreateChat(k) \/ CreateStep(k) \/ GiveUp(k)
      PROVE  RInv'
  BY <1>2, UnchangedRInv
     DEF readState, elsewhere, broker, read, CreateNewChat, CallCreateChat, CreateChat, CreateStep,
         Insert, InsertFails, Commit, CommitFails, AddUsersToChat, InsertUsers, AddUsersFails,
         AddCommit, AddCommitFails, GiveUp
<1>3. ASSUME RestartDb \/ \E s \in Save : CallSaveMessage(s) PROVE RInv'
  BY <1>3, UnchangedRInv DEF readState, broker, read, RestartDb, CallSaveMessage
<1>4. ASSUME NEW p \in Post,
             \/ SendMessage(p) \/ SendRefused(p) \/ SaveStep(p) \/ Reply(p)
             \/ DeclareExchange(p) \/ PublisherFails(p)
      PROVE  RInv'
  BY <1>4, UnchangedRInv
     DEF readState, broker, read, quiet, SendMessage, SendRefused, SaveStep, CallSave,
         CallSaveFails, Reply, DeclareExchange, PublisherFails
<1>5. ASSUME LoseConnection \/ \E p \in Post : PublishLost(p) PROVE RInv'
  BY <1>5, BreakRInv DEF LoseConnection, PublishLost
<1> QED
  BY <1>1, <1>2, <1>3, <1>4, <1>5, ReaderRInv, PublishRInv, RestartChatsRInv
     DEF Next, PublishStep

-----------------------------------------------------------------------------
(* What a client has seen over all its reads. *)

\* All of it was published before the queue of the read under way was bound, and
\* what this read has received was published since.
Earlier(r) == IF Bound(r) THEN since[r] ELSE Len(log[chat[r]])
Shown(r) ==
    /\ chat[r] = None => seen[r] = <<>>
    /\ Bound(r) => since[r] + Len(got[r]) <= Len(log[chat[r]])
    /\ chat[r] \in ChatId => Feed!Placed(seen[r], log[chat[r]], Earlier(r))
SInv == \A r \in Reader : Shown(r)

\* A log that goes on keeps what is in its place.
LEMMA PlacedLater ==
    ASSUME NEW s, NEW l, NEW k, NEW n \in Nat, NEW m \in Nat, n <= m,
           \A i \in 1 .. n : k[i] = l[i], Feed!Placed(s, l, n)
    PROVE  Feed!Placed(s, k, m)
<1>1. PICK at \in [1 .. Len(s) -> 1 .. n] :
          /\ \A i, j \in 1 .. Len(s) : i < j => at[i] < at[j]
          /\ \A i \in 1 .. Len(s) : s[i] = l[at[i]]
  BY DEF Feed!Placed
<1>2. at \in [1 .. Len(s) -> 1 .. m]
  BY <1>1
<1>3. \A i \in 1 .. Len(s) : s[i] = k[at[i]]
  BY <1>1
<1> QED
  BY <1>1, <1>2, <1>3 DEF Feed!Placed

LEMMA PlacedNone == ASSUME NEW l, NEW n \in Nat PROVE Feed!Placed(<<>>, l, n)
<1>1. Len(<<>>) = 0
  OBVIOUS
<1> DEFINE none == [i \in 1 .. 0 |-> 1]
<1>2. none \in [1 .. 0 -> 1 .. n] /\ \A i \in 1 .. 0 : FALSE
  OBVIOUS
<1> HIDE DEF none
<1> QED
  BY <1>1, <1>2 DEF Feed!Placed

\* What is read next follows what was seen.
LEMMA PlacedNext ==
    ASSUME NEW s \in Seq(Post), NEW t \in Seq(Post), NEW l \in Seq(Post),
           NEW n \in Nat, n + Len(t) <= Len(l),
           \A i \in 1 .. Len(t) : t[i] = l[n + i], Feed!Placed(s, l, n)
    PROVE  Feed!Placed(s \o t, l, Len(l))
<1> DEFINE a == Len(s)
           b == Len(t)
<1>1. a \in Nat /\ b \in Nat /\ Len(l) \in Nat
  BY LenProperties
<1>2. PICK at \in [1 .. a -> 1 .. n] :
          /\ \A i, j \in 1 .. a : i < j => at[i] < at[j]
          /\ \A i \in 1 .. a : s[i] = l[at[i]]
  BY DEF Feed!Placed
<1> DEFINE put == [i \in 1 .. (a + b) |-> IF i <= a THEN at[i] ELSE n + (i - a)]
<1>3. Len(s \o t) = a + b
  BY ConcatProperties
<1>4. \A i \in 1 .. (a + b) : (s \o t)[i] = IF i <= a THEN s[i] ELSE t[i - a]
  BY ConcatProperties
<1> HIDE DEF a, b
<1>5. put \in [1 .. (a + b) -> 1 .. Len(l)]
  <2> SUFFICES ASSUME NEW i \in 1 .. (a + b)
               PROVE  (IF i <= a THEN at[i] ELSE n + (i - a)) \in 1 .. Len(l)
    OBVIOUS
  <2>1. CASE i <= a
    <3>1. i \in 1 .. a
      BY <1>1, <2>1
    <3>2. at[i] \in 1 .. n
      BY <1>2, <3>1
    <3> QED
      BY <1>1, <2>1, <3>2 DEF b
  <2>2. CASE ~ (i <= a)
    BY <1>1, <2>2 DEF b
  <2> QED
    BY <2>1, <2>2
<1>6. \A i, j \in 1 .. (a + b) : i < j => put[i] < put[j]
  <2> SUFFICES ASSUME NEW i \in 1 .. (a + b), NEW j \in 1 .. (a + b), i < j
               PROVE  put[i] < put[j]
    OBVIOUS
  <2>1. CASE j <= a
    <3>1. i \in 1 .. a /\ j \in 1 .. a
      BY <1>1, <2>1
    <3> QED
      BY <1>2, <2>1, <3>1
  <2>2. CASE i <= a /\ ~ (j <= a)
    <3>1. at[i] \in 1 .. n
      BY <1>1, <1>2, <2>2
    <3> QED
      BY <1>1, <2>2, <3>1
  <2>3. CASE ~ (i <= a)
    BY <1>1, <2>3
  <2> QED
    BY <1>1, <2>1, <2>2, <2>3
<1>7. \A i \in 1 .. (a + b) : (s \o t)[i] = l[put[i]]
  <2> SUFFICES ASSUME NEW i \in 1 .. (a + b) PROVE (s \o t)[i] = l[put[i]]
    OBVIOUS
  <2>1. CASE i <= a
    <3>1. i \in 1 .. a
      BY <1>1, <2>1
    <3> QED
      BY <1>2, <1>4, <2>1, <3>1
  <2>2. CASE ~ (i <= a)
    <3>1. i - a \in 1 .. b /\ i - a \in 1 .. Len(t)
      BY <1>1, <2>2 DEF b
    <3> QED
      BY <1>4, <2>2, <3>1
  <2> QED
    BY <2>1, <2>2
<1> HIDE DEF put
<1> QED
  BY <1>3, <1>5, <1>6, <1>7 DEF Feed!Placed

\* A window holds what was received from it, at its places in the log.
LEMMA ReceivedFits ==
    ASSUME NEW l \in Seq(Post), NEW n \in 0 .. Len(l), NEW g \in Seq(Post), NEW q \in Seq(Post),
           g \o q = SubSeq(l, n + 1, Len(l))
    PROVE  n + Len(g) <= Len(l)
<1>1. Len(g \o q) = Len(g) + Len(q) /\ Len(g) \in Nat /\ Len(q) \in Nat /\ Len(l) \in Nat
  BY ConcatProperties, LenProperties
<1>2. Len(SubSeq(l, n + 1, Len(l))) = IF n + 1 <= Len(l) THEN Len(l) - (n + 1) + 1 ELSE 0
  BY <1>1, SubSeqProperties
<1> QED
  BY <1>1, <1>2

LEMMA WindowPlaces ==
    ASSUME NEW l \in Seq(Post), NEW n \in 0 .. Len(l), NEW g \in Seq(Post),
           n + Len(g) <= Len(l), g = SubSeq(SubSeq(l, n + 1, Len(l)), 1, Len(g))
    PROVE  \A i \in 1 .. Len(g) : g[i] = l[n + i]
<1> DEFINE w == SubSeq(l, n + 1, Len(l))
<1>1. Len(g) \in Nat /\ Len(l) \in Nat
  BY LenProperties
<1> SUFFICES ASSUME NEW i \in 1 .. Len(g) PROVE g[i] = l[n + i]
  OBVIOUS
<1>2. /\ w \in Seq(Post) /\ Len(w) = Len(l) - n
      /\ \A j \in 1 .. Len(w) : w[j] = l[n + 1 + j - 1]
  BY <1>1, SubSeqProperties
<1> HIDE DEF w
<1>3. \A j \in 1 .. Len(g) : SubSeq(w, 1, Len(g))[j] = w[1 + j - 1]
  BY <1>1, <1>2, SubSeqProperties
<1>4. g[i] = w[i]
  BY <1>1, <1>3 DEF w
<1> QED
  BY <1>1, <1>2, <1>4

LEMMA InitSInv == Init => SInv
  BY ChatAssumption DEF Init, SInv, Shown, Bound

LEMMA UnchangedSInv ==
    ASSUME SInv, UNCHANGED <<reading, chat, got, since, seen, log>> PROVE SInv'
  BY DEF SInv, Shown, Earlier, Bound

\* A reader's steps: a read is bound behind all that was seen, and what it has
\* received is seen behind it.
LEMMA ReaderSInv ==
    ASSUME RInv, RInv', PInv, SInv, NEW r \in Reader, GetMessages(r) \/ ReadStep(r)
    PROVE  SInv'
<1>1. /\ ReadTypes' /\ UNCHANGED <<log, linked>>
      /\ \A q \in Reader \ {r} : /\ reading'[q] = reading[q] /\ chat'[q] = chat[q]
                                /\ queue'[q] = queue[q] /\ got'[q] = got[q]
                                /\ since'[q] = since[q]
  BY ReadStepTypes DEF PInv
<1>2. \A q \in Reader \ {r} : seen'[q] = seen[q]
  BY DEF GetMessages, ReadStep, DeclareQueue, BindQueue, ReadFails, Consume,
         ReceiveMessage, Timeout, RInv, ReadTypes
<1>3. ASSUME NEW q \in Reader \ {r} PROVE Shown(q)'
  BY <1>1, <1>2 DEF SInv, Shown, Earlier, Bound
<1> SUFFICES Shown(r)'
  BY <1>3 DEF SInv
<1>4. \A c \in ChatId : log[c] \in Seq(Post) /\ Len(log[c]) \in Nat
  BY LenProperties DEF PInv, PostTypes
<1>5. Shown(r)
  BY DEF SInv
<1>6. CASE GetMessages(r)
  <2>1. /\ chat'[r] \in ChatId /\ chat[r] \in {None, chat'[r]} /\ seen'[r] = seen[r]
        /\ ~ Bound(r) /\ ~ Bound(r)'
    BY <1>6 DEF GetMessages, Bound, RInv, ReadTypes
  <2>2. CASE chat[r] = None
    BY <1>1, <1>4, <1>5, <2>1, <2>2, PlacedNone, ChatAssumption DEF Shown, Earlier
  <2>3. CASE chat[r] = chat'[r]
    BY <1>1, <1>5, <2>1, <2>3, ChatAssumption DEF Shown, Earlier
  <2> QED
    BY <2>1, <2>2, <2>3
<1>7. CASE DeclareQueue(r)
  <2>1. chat'[r] = chat[r] /\ seen'[r] = seen[r] /\ ~ Bound(r) /\ ~ Bound(r)'
    BY <1>7 DEF DeclareQueue, Advance, Bound, RInv, ReadTypes
  <2> QED
    BY <1>1, <1>5, <2>1 DEF Shown, Earlier
<1>8. CASE BindQueue(r)
  <2>1. /\ chat'[r] = chat[r] /\ chat[r] \in ChatId /\ seen'[r] = seen[r] /\ ~ Bound(r)
        /\ since'[r] = Len(log[chat[r]]) /\ got'[r] = <<>> /\ Bound(r)'
    BY <1>8 DEF BindQueue, Advance, Bound, RInv, ReadTypes, Tuned
  <2> QED
    BY <1>1, <1>4, <1>5, <2>1, ChatAssumption DEF Shown, Earlier
<1>9. CASE Consume(r)
  <2>1. /\ chat'[r] = chat[r] /\ seen'[r] = seen[r] /\ Bound(r) /\ Bound(r)'
        /\ since'[r] = since[r] /\ got'[r] = got[r]
    BY <1>9 DEF Consume, Advance, Bound, RInv, ReadTypes
  <2> QED
    BY <1>1, <1>5, <2>1 DEF Shown, Earlier
<1>10. CASE ReceiveMessage(r)
  <2>1. /\ chat'[r] = chat[r] /\ chat[r] \in ChatId /\ seen'[r] = seen[r] /\ Bound(r)
        /\ Bound(r)' /\ since'[r] = since[r] /\ linked
    BY <1>10 DEF ReceiveMessage, Bound, RInv, ReadTypes, Tuned
  <2>2. /\ got'[r] \o queue'[r] = SubSeq(log[chat[r]], since[r] + 1, Len(log[chat[r]]))
        /\ got'[r] \in Seq(Post) /\ queue'[r] \in Seq(Post)
        /\ since[r] \in 0 .. Len(log[chat[r]])
    BY <1>1, <2>1 DEF RInv, ReadTypes, Gapless, Window, Tuned
  <2>3. since[r] + Len(got'[r]) <= Len(log[chat[r]])
    BY <1>4, <2>1, <2>2, ReceivedFits
  <2> QED
    BY <1>1, <1>5, <2>1, <2>3 DEF Shown, Earlier
<1>11. CASE ReadFails(r)
  <2>1. chat'[r] = chat[r] /\ chat[r] \in ChatId /\ seen'[r] = seen[r] /\ ~ Bound(r)'
    BY <1>11 DEF ReadFails, Advance, Bound, RInv, ReadTypes, Tuned
  <2>2. Earlier(r) \in Nat /\ Earlier(r) <= Len(log[chat[r]])
    BY <1>4, <2>1 DEF Earlier, RInv, Tuned
  <2>3. Feed!Placed(seen[r], log[chat[r]], Len(log[chat[r]]))
    BY <1>4, <1>5, <2>1, <2>2, PlacedLater DEF Shown
  <2> QED
    BY <1>1, <2>1, <2>3, ChatAssumption DEF Shown, Earlier
<1>12. CASE Timeout(r)
  <2>1. /\ chat'[r] = chat[r] /\ chat[r] \in ChatId /\ Bound(r) /\ ~ Bound(r)'
        /\ since[r] \in 0 .. Len(log[chat[r]])
    BY <1>12 DEF Timeout, Advance, Bound, RInv, ReadTypes, Tuned
  <2>2. PICK heard \in {<<>>, got[r]} : seen'[r] = seen[r] \o heard
    BY <1>12 DEF Timeout, RInv, ReadTypes
  <2>3. /\ since[r] + Len(got[r]) <= Len(log[chat[r]])
        /\ Feed!Placed(seen[r], log[chat[r]], since[r])
    BY <1>5, <2>1 DEF Shown, Earlier
  <2>4. got[r] \in Seq(Post) /\ seen[r] \in Seq(Post)
    BY DEF RInv, ReadTypes
  <2>5. heard \in Seq(Post) /\ since[r] + Len(heard) <= Len(log[chat[r]])
    <3>1. <<>> \in Seq(Post) /\ Len(<<>>) = 0
      OBVIOUS
    <3>2. Len(log[chat[r]]) \in Nat /\ since[r] + 0 <= Len(log[chat[r]])
      BY <1>4, <2>1
    <3> QED
      BY <2>2, <2>3, <2>4, <3>1, <3>2
  <2>6. \A i \in 1 .. Len(heard) : heard[i] = log[chat[r]][since[r] + i]
    <3>1. CASE heard = <<>>
      BY <3>1
    <3>2. CASE heard = got[r] /\ got[r] # <<>>
      <4>1. got[r] = SubSeq(SubSeq(log[chat[r]], since[r] + 1, Len(log[chat[r]])), 1, Len(got[r]))
        BY <3>2 DEF RInv, Gapless, Window
      <4> QED
        BY <1>4, <2>1, <2>3, <2>4, <3>2, <4>1, WindowPlaces
    <3> QED
      BY <2>2, <3>1, <3>2
  <2>7. Feed!Placed(seen'[r], log[chat[r]], Len(log[chat[r]]))
    <3>1. log[chat[r]] \in Seq(Post) /\ since[r] \in Nat
      BY <1>4, <2>1
    <3>2. Feed!Placed(seen[r] \o heard, log[chat[r]], Len(log[chat[r]]))
      BY <2>3, <2>4, <2>5, <2>6, <3>1, PlacedNext
    <3> QED
      BY <2>2, <3>2
  <2> QED
    BY <1>1, <2>1, <2>7, ChatAssumption DEF Shown, Earlier
<1> QED
  BY <1>6, <1>7, <1>8, <1>9, <1>10, <1>11, <1>12 DEF ReadStep

LEMMA PublishSInv ==
    ASSUME RInv, PInv, SInv, NEW p \in Post, Publish(p) PROVE SInv'
<1>1. /\ UNCHANGED <<reading, chat, got, since, seen>> /\ url[p] \in ChatId
      /\ log' = [log EXCEPT ![url[p]] = Append(log[url[p]], p)]
  BY DEF Publish, PInv, PostTypes, HandlerStage, Results, NoSendAfterClose
<1>2. ASSUME NEW c \in ChatId
      PROVE  /\ Len(log[c]) \in Nat /\ Len(log'[c]) \in Nat /\ Len(log[c]) <= Len(log'[c])
             /\ \A i \in 1 .. Len(log[c]) : log'[c][i] = log[c][i]
  BY <1>1, AppendProperties, LenProperties DEF PInv, PostTypes
<1> SUFFICES ASSUME NEW r \in Reader PROVE Shown(r)'
  BY DEF SInv
<1>3. Shown(r) /\ (Bound(r)' <=> Bound(r))
  BY <1>1 DEF SInv, Bound
<1>4. CASE chat[r] \notin ChatId
  <2>1. ~ Bound(r)
    BY <1>4 DEF RInv, Tuned, Bound
  <2> QED
    BY <1>1, <1>3, <1>4, <2>1 DEF Shown
<1>5. CASE chat[r] \in ChatId
  <2>1. /\ Earlier(r) \in Nat /\ Earlier(r) <= Len(log[chat[r]])
        /\ Earlier(r)' \in Nat /\ Earlier(r) <= Earlier(r)'
    BY <1>1, <1>2, <1>3, <1>5 DEF Earlier, RInv, Tuned
  <2>2. Feed!Placed(seen[r], log'[chat[r]], Earlier(r)')
    <3>1. \A i \in 1 .. Earlier(r) : log'[chat[r]][i] = log[chat[r]][i]
      BY <1>2, <1>5, <2>1
    <3> QED
      BY <1>3, <1>5, <2>1, <3>1, PlacedLater DEF Shown
  <2>3. Bound(r) => since[r] + Len(got[r]) <= Len(log'[chat[r]])
    <3>1. got[r] \in Seq(Post) /\ Len(got[r]) \in Nat /\ since[r] \in Nat
      BY LenProperties DEF RInv, ReadTypes
    <3> QED
      BY <1>2, <1>3, <1>5, <3>1 DEF Shown
  <2> QED
    BY <1>1, <1>3, <1>5, <2>2, <2>3, ChatAssumption DEF Shown
<1> QED
  BY <1>4, <1>5

LEMMA RestartChatsSInv == ASSUME RInv, PInv, SInv, RestartChats PROVE SInv'
<1>1. /\ reading' = [r \in Reader |-> "idle"]
      /\ UNCHANGED <<log, chat, seen>>
  BY DEF RestartChats
<1> SUFFICES ASSUME NEW r \in Reader PROVE Shown(r)'
  BY DEF SInv
<1>2. Shown(r) /\ ~ Bound(r)'
  BY <1>1 DEF SInv, Bound
<1>3. ASSUME chat[r] \in ChatId PROVE Feed!Placed(seen[r], log[chat[r]], Len(log[chat[r]]))
  <2>1. Len(log[chat[r]]) \in Nat
    BY <1>3, LenProperties DEF PInv, PostTypes
  <2>2. Earlier(r) \in Nat /\ Earlier(r) <= Len(log[chat[r]])
    BY <2>1 DEF Earlier, RInv, Tuned
  <2> QED
    BY <1>2, <1>3, <2>1, <2>2, PlacedLater DEF Shown
<1> QED
  BY <1>1, <1>2, <1>3 DEF Shown, Earlier

LEMMA NextSInv == ASSUME RInv, RInv', PInv, SInv, [Next]_vars PROVE SInv'
<1>1. CASE UNCHANGED vars
  BY <1>1, UnchangedSInv DEF vars, broker, read
<1>2. ASSUME NEW k \in Creation,
             CreateNewChat(k) \/ CallCreateChat(k) \/ CreateStep(k) \/ GiveUp(k)
      PROVE  SInv'
  BY <1>2, UnchangedSInv
     DEF elsewhere, broker, read, CreateNewChat, CallCreateChat, CreateChat, CreateStep,
         Insert, InsertFails, Commit, CommitFails, AddUsersToChat, InsertUsers, AddUsersFails,
         AddCommit, AddCommitFails, GiveUp
<1>3. ASSUME RestartDb \/ \E s \in Save : CallSaveMessage(s) PROVE SInv'
  BY <1>3, UnchangedSInv DEF broker, read, RestartDb, CallSaveMessage
<1>4. ASSUME NEW p \in Post,
             \/ SendMessage(p) \/ SendRefused(p) \/ SaveStep(p) \/ Reply(p)
             \/ DeclareExchange(p) \/ PublisherFails(p) \/ PublishLost(p)
      PROVE  SInv'
  BY <1>4, UnchangedSInv
     DEF broker, read, quiet, SendMessage, SendRefused, SaveStep, CallSave,
         CallSaveFails, Reply, DeclareExchange, PublisherFails, PublishLost
<1>5. ASSUME LoseConnection PROVE SInv'
  BY <1>5, UnchangedSInv DEF LoseConnection
<1> QED
  BY <1>1, <1>2, <1>3, <1>4, <1>5, ReaderSInv, PublishSInv, RestartChatsSInv
     DEF Next, PublishStep

-----------------------------------------------------------------------------
(* The logs. *)

\* A goroutine that has yet to publish is of no post in a log...
Logged ==
    \A c \in ChatId : \A i \in 1 .. Len(log[c]) :
        /\ handler[log[c][i]] # "idle"
        /\ publisher[log[c][i]] \in {"idle", "sent"}

\* ...so that no post is at two places.
LoggedOnce ==
    \A c, d \in ChatId : \A i \in 1 .. Len(log[c]), j \in 1 .. Len(log[d]) :
        log[c][i] = log[d][j] => c = d /\ i = j

LInv == Logged /\ LoggedOnce

LEMMA InitLInv == Init => LInv
<1> SUFFICES ASSUME Init PROVE LInv
  OBVIOUS
<1>1. \A c \in ChatId : Len(log[c]) = 0
  BY DEF Init
<1> QED
  BY <1>1 DEF LInv, Logged, LoggedOnce

\* Nothing is published, and of the posts in the logs none starts to.
LEMMA QuietLInv ==
    ASSUME PInv, LInv, log' = log,
           \A p \in Post :
              handler[p] # "idle" /\ publisher[p] \in {"idle", "sent"} =>
                 handler'[p] # "idle" /\ publisher'[p] \in {"idle", "sent"}
    PROVE  LInv'
<1>1. \A c \in ChatId : \A i \in 1 .. Len(log[c]) : log[c][i] \in Post
  BY DEF PInv, PostTypes
<1> QED
  BY <1>1 DEF LInv, Logged, LoggedOnce

LEMMA PublishLInv == ASSUME PInv, LInv, NEW p \in Post, Publish(p) PROVE LInv'
<1> DEFINE u == url[p]
<1>1. /\ u \in ChatId /\ log' = [log EXCEPT ![u] = Append(log[u], p)]
      /\ publisher[p] = "publish" /\ publisher' = [publisher EXCEPT ![p] = "sent"]
      /\ handler' = handler /\ handler[p] = "receive"
  BY DEF Publish, request, PInv, PostTypes, HandlerStage, Results, NoSendAfterClose
<1>2. ASSUME NEW c \in ChatId
      PROVE  /\ Len(log[c]) \in Nat
             /\ Len(log'[c]) = IF c = u THEN Len(log[c]) + 1 ELSE Len(log[c])
             /\ \A i \in 1 .. Len(log[c]) : log'[c][i] = log[c][i] /\ log[c][i] \in Post
             /\ c = u => log'[c][Len(log[c]) + 1] = p
  BY <1>1, AppendProperties, LenProperties DEF PInv, PostTypes
<1> HIDE DEF u
<1>3. \A c \in ChatId : \A i \in 1 .. Len(log[c]) : log[c][i] # p
  BY <1>1 DEF LInv, Logged
<1>4. ASSUME NEW c \in ChatId, NEW i \in 1 .. Len(log'[c])
      PROVE  \/ i \in 1 .. Len(log[c]) /\ log'[c][i] = log[c][i] /\ log'[c][i] # p
             \/ c = u /\ i = Len(log[u]) + 1 /\ log'[c][i] = p
  BY <1>2, <1>3
<1>5. Logged'
  <2> SUFFICES ASSUME NEW c \in ChatId, NEW i \in 1 .. Len(log'[c])
               PROVE  /\ handler'[log'[c][i]] # "idle"
                      /\ publisher'[log'[c][i]] \in {"idle", "sent"}
    BY DEF Logged
  <2>1. CASE i \in 1 .. Len(log[c]) /\ log'[c][i] = log[c][i] /\ log'[c][i] # p
    BY <1>1, <2>1 DEF LInv, Logged, PInv, PostTypes
  <2>2. CASE log'[c][i] = p
    BY <1>1, <2>2 DEF PInv, PostTypes
  <2> QED
    BY <1>4, <2>1, <2>2
<1>6. LoggedOnce'
  <2> SUFFICES ASSUME NEW c \in ChatId, NEW d \in ChatId,
                      NEW i \in 1 .. Len(log'[c]), NEW j \in 1 .. Len(log'[d]),
                      log'[c][i] = log'[d][j]
               PROVE  c = d /\ i = j
    BY DEF LoggedOnce
  <2> QED
    BY <1>4 DEF LInv, LoggedOnce
<1> QED
  BY <1>5, <1>6 DEF LInv

LEMMA NextLInv == ASSUME PInv, LInv, [Next]_vars PROVE LInv'
<1>1. CASE UNCHANGED vars
  BY <1>1, QuietLInv DEF vars, broker, post
<1>2. ASSUME NEW k \in Creation,
             CreateNewChat(k) \/ CallCreateChat(k) \/ CreateStep(k) \/ GiveUp(k)
      PROVE  LInv'
  BY <1>2, QuietLInv
     DEF elsewhere, broker, post, CreateNewChat, CallCreateChat, CreateChat, CreateStep,
         Insert, InsertFails, Commit, CommitFails, AddUsersToChat, InsertUsers, AddUsersFails,
         AddCommit, AddCommitFails, GiveUp
<1>3. ASSUME \/ RestartDb \/ LoseConnection
             \/ \E s \in Save : CallSaveMessage(s)
             \/ \E r \in Reader : GetMessages(r) \/ ReadStep(r)
      PROVE  LInv'
  BY <1>3, QuietLInv
     DEF broker, post, others, RestartDb, LoseConnection, CallSaveMessage, GetMessages,
         ReadStep, DeclareQueue, BindQueue, ReadFails, Consume, ReceiveMessage, Timeout
<1>4. ASSUME NEW p \in Post, SendMessage(p) \/ SendRefused(p) \/ SaveStep(p) \/ Reply(p)
      PROVE  LInv'
  BY <1>4, QuietLInv
     DEF broker, quiet, request, SendMessage, SendRefused, SaveStep, CallSave, CallSaveFails,
         Reply, PInv, PostTypes
<1>5. ASSUME NEW p \in Post, DeclareExchange(p) \/ PublisherFails(p) \/ PublishLost(p)
      PROVE  LInv'
  BY <1>5, QuietLInv
     DEF broker, quiet, request, DeclareExchange, PublisherFails, PublishLost, PInv, PostTypes
<1>6. ASSUME RestartChats PROVE LInv'
  <2>1. \A p \in Post : /\ handler[p] # "idle" => handler'[p] # "idle"
                        /\ publisher'[p] = "idle"
    BY <1>6 DEF RestartChats
  <2> QED
    BY <1>6, <2>1, QuietLInv DEF RestartChats
<1> QED
  BY <1>1, <1>2, <1>3, <1>4, <1>5, <1>6, PublishLInv DEF Next, PublishStep

-----------------------------------------------------------------------------
(* The rest of the types, and the whole. *)

Rest ==
    /\ saved \subseteq (Save \cup Post) \X ChatId
    /\ over \subseteq Save
    /\ faults \in 0 .. MaxFaults

IInv == CInv /\ PInv /\ RInv /\ SInv /\ LInv /\ Rest

LEMMA InitRest == Init => Rest
  BY ChatAssumption DEF Init, Rest

LEMMA FaultTyped == ASSUME Rest, Fault PROVE faults' \in 0 .. MaxFaults
  BY ChatAssumption DEF Rest, Fault

LEMMA NextRest == ASSUME Rest, [Next]_vars PROVE Rest'
<1>1. CASE UNCHANGED vars
  BY <1>1 DEF vars, store, Rest
<1>2. ASSUME NEW k \in Creation,
             CreateNewChat(k) \/ CallCreateChat(k) \/ CreateStep(k) \/ GiveUp(k)
      PROVE  Rest'
  BY <1>2
     DEF Rest, elsewhere, store, CreateNewChat, CallCreateChat, CreateChat, CreateStep,
         Insert, InsertFails, Commit, CommitFails, AddUsersToChat, InsertUsers, AddUsersFails,
         AddCommit, AddCommitFails, GiveUp
<1>3. ASSUME NEW s \in Save, CallSaveMessage(s) PROVE Rest'
  BY <1>3 DEF Rest, CallSaveMessage, SaveMessage
<1>4. ASSUME NEW p \in Post,
             \/ SendMessage(p) \/ SendRefused(p) \/ CallSaveFails(p) \/ Reply(p)
             \/ DeclareExchange(p) \/ PublisherFails(p) \/ Publish(p)
      PROVE  Rest'
  BY <1>4 DEF Rest, quiet, store, SendMessage, SendRefused, CallSaveFails, Reply,
              DeclareExchange, PublisherFails, Publish
<1>5. ASSUME NEW p \in Post, NEW c \in ChatId, CallSave(p, c) PROVE Rest'
  BY <1>5 DEF Rest, CallSave, SaveMessage
<1>6. ASSUME NEW r \in Reader, GetMessages(r) \/ ReadStep(r) PROVE Rest'
  BY <1>6 DEF Rest, others, store, GetMessages, ReadStep, DeclareQueue, BindQueue, ReadFails,
              Consume, ReceiveMessage, Timeout
<1>7. ASSUME LoseConnection \/ RestartChats \/ RestartDb \/ \E p \in Post : PublishLost(p)
      PROVE  Rest'
  <2>1. faults' \in 0 .. MaxFaults
    BY <1>7, FaultTyped DEF LoseConnection, RestartChats, RestartDb, PublishLost
  <2> QED
    BY <1>7, <2>1 DEF Rest, store, LoseConnection, RestartChats, RestartDb, PublishLost
<1> QED
  BY <1>1, <1>2, <1>3, <1>4, <1>5, <1>6, <1>7 DEF Next, PublishStep, SaveStep

LEMMA InitIInv == Init => IInv
  BY InitCInv, InitPInv, InitRInv, InitSInv, InitLInv, InitRest DEF IInv

LEMMA NextIInv == ASSUME IInv, [Next]_vars PROVE IInv'
  BY NextCInv, NextPInv, NextRInv, NextSInv, NextLInv, NextRest DEF IInv

-----------------------------------------------------------------------------
\* Every variable keeps its type; of a post's two results neither is sent twice.
THEOREM TypeCorrect == Spec => []TypeOK
<1>1. IInv => TypeOK
  <2> SUFFICES ASSUME IInv PROVE TypeOK
    OBVIOUS
  <2>1. \A p \in Post : Len(errChan[p]) <= 2
    <3> TAKE p \in Post
    <3>1. handler[p] # "receive" => errChan[p] = <<>>
      BY DEF IInv, PInv, Results
    <3>2. handler[p] = "receive" => Len(errChan[p]) = Sent(publisher[p]) + Sent(saver[p])
      BY DEF IInv, PInv, Results
    <3>3. Len(<<>>) = 0
      OBVIOUS
    <3> QED
      BY <3>1, <3>2, <3>3 DEF Sent
  <2> QED
    BY <2>1 DEF IInv, CInv, CreationTypes, PInv, PostTypes, RInv, ReadTypes, Rest, TypeOK
<1> QED
  BY InitIInv, NextIInv, <1>1, PTL DEF Spec

\* CreateChat and AddUsersToChat leave a chat with all its users or with none, and
\* only a caller of the former is told that it was created.
THEOREM ChatsStayWhole == Spec => []ChatsAreWhole
<1>1. IInv => ChatsAreWhole
  BY DEF IInv, CInv
<1> QED
  BY InitIInv, NextIInv, <1>1, PTL DEF Spec

\* No goroutine of SendMessage sends on the channel that its handler has closed.
THEOREM NeverSendsAfterClose == Spec => []NoSendAfterClose
<1>1. IInv => NoSendAfterClose
  BY DEF IInv, PInv
<1> QED
  BY InitIInv, NextIInv, <1>1, PTL DEF Spec

\* A read of GetMessages misses and invents nothing from the binding of its queue
\* on, as long as the connection lasts, and never answers out of order.
THEOREM WindowStaysGapless == Spec => []WindowIsGapless
<1>1. IInv => WindowIsGapless
  BY DEF IInv, RInv, Gapless, WindowIsGapless
<1> QED
  BY InitIInv, NextIInv, <1>1, PTL DEF Spec

\* ListenForMessages: a client sees the messages of its chat in the order of their
\* publication and each at most once, over any number of reads and losses.
THEOREM ClientsSeeInOrder == Spec => [](Feed!SeenInOrder /\ Feed!SeenOnce)
<1>1. ASSUME IInv, NEW r \in Reader, seen[r] # <<>>
      PROVE  /\ chat[r] \in ChatId
             /\ Feed!Placed(seen[r], log[chat[r]], Len(log[chat[r]]))
  <2>1. Shown(r) /\ chat[r] \in ChatId
    BY <1>1 DEF IInv, SInv, Shown, RInv, ReadTypes
  <2>2. Len(log[chat[r]]) \in Nat
    BY <1>1, <2>1, LenProperties DEF IInv, PInv, PostTypes
  <2>3. Earlier(r) \in Nat /\ Earlier(r) <= Len(log[chat[r]])
    BY <1>1, <2>1, <2>2 DEF Earlier, IInv, RInv, Tuned
  <2> QED
    BY <2>1, <2>2, <2>3, PlacedLater DEF Shown
<1>2. IInv => Feed!SeenInOrder
  BY <1>1 DEF Feed!SeenInOrder
<1>3. ASSUME IInv, NEW r \in Reader, NEW i \in 1 .. Len(seen[r]), NEW j \in 1 .. Len(seen[r]),
             seen[r][i] = seen[r][j]
      PROVE  i = j
  <2>1. seen[r] # <<>> /\ i \in Nat /\ j \in Nat
    BY <1>3, LenProperties DEF IInv, RInv, ReadTypes
  <2>2. chat[r] \in ChatId /\ Feed!Placed(seen[r], log[chat[r]], Len(log[chat[r]]))
    BY <1>1, <1>3, <2>1
  <2>3. PICK at \in [1 .. Len(seen[r]) -> 1 .. Len(log[chat[r]])] :
            /\ \A x, y \in 1 .. Len(seen[r]) : x < y => at[x] < at[y]
            /\ \A x \in 1 .. Len(seen[r]) : seen[r][x] = log[chat[r]][at[x]]
    BY <2>2 DEF Feed!Placed
  <2>4. at[i] = at[j]
    BY <1>3, <2>2, <2>3 DEF IInv, LInv, LoggedOnce
  <2>5. at[i] \in Int /\ at[j] \in Int
    BY <2>3
  <2> QED
    BY <1>3, <2>1, <2>3, <2>4, <2>5
<1>4. IInv => Feed!SeenOnce
  BY <1>3 DEF Feed!SeenOnce
<1> QED
  BY InitIInv, NextIInv, <1>2, <1>4, PTL DEF Spec

-----------------------------------------------------------------------------
(* The answers to posts. *)

\* A handler that waits for two results has them in errChan, or one of its
\* goroutines is still to report: none of the ways in which they end is silent.
ResultsCome ==
    \A p \in Post : handler[p] = "receive" =>
        \/ Len(errChan[p]) = 2
        \/ publisher[p] \in {"declare", "publish"}
        \/ saver[p] = "call"

\* The steps that a post has left.
StepsLeft(h, pub, save) ==
    (CASE pub = "declare" -> 2 [] pub = "publish" -> 1 [] OTHER -> 0)
    + (IF save = "call" THEN 1 ELSE 0) + (IF h = "receive" THEN 1 ELSE 0)

\* A post that has begun never has more steps left than before, and each step of
\* its goroutines or its handler leaves one less.
Runs(p) == StepsLeft(handler[p], publisher[p], saver[p])
TowardsAnswer ==
    \A p \in Post : handler[p] # "idle" =>
        /\ Runs(p)' <= Runs(p)
        /\ PublishStep(p) \/ SaveStep(p) \/ Reply(p) => Runs(p)' < Runs(p)

LEMMA TowardsAnswerStep == PInv /\ [Next]_vars => TowardsAnswer
<1> SUFFICES ASSUME PInv, [Next]_vars, NEW p \in Post, handler[p] # "idle"
             PROVE  /\ Runs(p)' <= Runs(p)
                    /\ PublishStep(p) \/ SaveStep(p) \/ Reply(p) => Runs(p)' < Runs(p)
  BY DEF TowardsAnswer
<1>1. handler[p] \in HandlerStage /\ publisher[p] \in PublisherStage /\ saver[p] \in SaverStage
  BY DEF PInv, PostTypes
<1>2. CASE PublishStep(p)
  <2>1. /\ handler'[p] = handler[p] /\ saver'[p] = saver[p]
        /\ \/ publisher[p] = "declare" /\ publisher'[p] \in {"publish", "sent"}
           \/ publisher[p] = "publish" /\ publisher'[p] = "sent"
    BY <1>2 DEF PublishStep, DeclareExchange, Publish, PublishLost, PublisherFails, request,
                PInv, PostTypes
  <2> QED
    BY <1>1, <2>1 DEF Runs, StepsLeft
<1>3. CASE SaveStep(p)
  <2>1. /\ handler'[p] = handler[p] /\ publisher'[p] = publisher[p]
        /\ saver[p] = "call" /\ saver'[p] = "sent"
    BY <1>3 DEF SaveStep, CallSave, CallSaveFails, request, PInv, PostTypes
  <2> QED
    BY <1>1, <2>1 DEF Runs, StepsLeft
<1>4. CASE Reply(p)
  <2>1. /\ publisher'[p] = publisher[p] /\ saver'[p] = saver[p]
        /\ handler[p] = "receive" /\ handler'[p] = "done"
    BY <1>4 DEF Reply, PInv, PostTypes
  <2> QED
    BY <1>1, <2>1 DEF Runs, StepsLeft
<1>5. CASE RestartChats
  <2>1. handler'[p] = "done" /\ publisher'[p] = "idle" /\ saver'[p] = "idle"
    BY <1>1, <1>5 DEF RestartChats, HandlerStage
  <2>2. handler[p] = "receive" => Runs(p)' < Runs(p) /\ Runs(p)' <= Runs(p)
    BY <1>1, <2>1 DEF Runs, StepsLeft
  <2>3. handler[p] = "done" => ~ (PublishStep(p) \/ SaveStep(p) \/ Reply(p))
    BY DEF PublishStep, DeclareExchange, Publish, PublishLost, PublisherFails, SaveStep,
           CallSave, CallSaveFails, Reply, PInv, NoSendAfterClose
  <2>4. handler[p] = "done" => Runs(p)' <= Runs(p)
    BY <1>1, <2>1 DEF Runs, StepsLeft
  <2> QED
    BY <1>1, <2>2, <2>3, <2>4 DEF HandlerStage
<1>6. CASE ~ (PublishStep(p) \/ SaveStep(p) \/ Reply(p)) /\ ~ RestartChats
  <2>1. handler'[p] = handler[p] /\ publisher'[p] = publisher[p] /\ saver'[p] = saver[p]
    <3>1. ASSUME NEW q \in Post,
                 SendMessage(q) \/ SendRefused(q) \/ PublishStep(q) \/ SaveStep(q) \/ Reply(q)
          PROVE  handler'[p] = handler[p] /\ publisher'[p] = publisher[p] /\ saver'[p] = saver[p]
      <4>1. q # p
        BY <1>6, <3>1 DEF SendMessage, SendRefused
      <4> QED
        BY <3>1, <4>1 DEF SendMessage, SendRefused, PublishStep, DeclareExchange, Publish,
           PublishLost, PublisherFails, SaveStep, CallSave, CallSaveFails, Reply, request,
           PInv, PostTypes
    <3>2. ASSUME NEW k \in Creation,
                 CreateNewChat(k) \/ CallCreateChat(k) \/ CreateStep(k) \/ GiveUp(k)
          PROVE  UNCHANGED <<handler, publisher, saver>>
      BY <3>2
         DEF elsewhere, post, CreateNewChat, CallCreateChat, CreateChat, CreateStep,
             Insert, InsertFails, Commit, CommitFails, AddUsersToChat, InsertUsers,
             AddUsersFails, AddCommit, AddCommitFails, GiveUp
    <3>3. ASSUME \/ RestartDb \/ LoseConnection \/ UNCHANGED vars
                 \/ \E s \in Save : CallSaveMessage(s)
                 \/ \E r \in Reader : GetMessages(r) \/ ReadStep(r)
          PROVE  UNCHANGED <<handler, publisher, saver>>
      BY <3>3
         DEF vars, post, others, RestartDb, LoseConnection, CallSaveMessage, GetMessages,
             ReadStep, DeclareQueue, BindQueue, ReadFails, Consume, ReceiveMessage, Timeout
    <3> QED
      BY <1>6, <3>1, <3>2, <3>3 DEF Next
  <2> QED
    BY <1>1, <1>6, <2>1 DEF Runs, StepsLeft
<1> QED
  BY <1>2, <1>3, <1>4, <1>5, <1>6

\* SendMessage is never left waiting: its results are there or on their way, and at
\* most four steps of its own are left of it, whatever else happens: with fairness,
\* what EverybodyIsAnswered says of posts.
THEOREM ResultsAlwaysCome == Spec => []ResultsCome /\ [][TowardsAnswer]_vars
<1>1. IInv => ResultsCome
  <2> SUFFICES ASSUME IInv, NEW p \in Post, handler[p] = "receive",
                      publisher[p] \notin {"declare", "publish"}, saver[p] # "call"
               PROVE  Len(errChan[p]) = 2
    BY DEF ResultsCome
  <2>1. publisher[p] = "sent" /\ saver[p] = "sent"
    BY DEF IInv, PInv, PostTypes, Results, PublisherStage, SaverStage
  <2>2. Len(errChan[p]) = Sent(publisher[p]) + Sent(saver[p])
    BY DEF IInv, PInv, Results
  <2> QED
    BY <2>1, <2>2 DEF Sent
<1>2. IInv /\ [Next]_vars => [TowardsAnswer]_vars
  BY TowardsAnswerStep DEF IInv
<1> QED
  BY <1>1, <1>2, InitIInv, NextIInv, PTL DEF Spec

-----------------------------------------------------------------------------
(* The feed. *)

LEMMA FeedStutters ==
    ASSUME UNCHANGED <<log, chat, seen>> PROVE [Feed!Next]_(Feed!vars)
  BY DEF Feed!vars

\* The broker routes a message: it is published.
LEMMA PublishPublishes ==
    ASSUME IInv, NEW p \in Post, Publish(p) PROVE [Feed!Next]_(Feed!vars)
<1>1. url[p] \in ChatId
  BY DEF Publish, IInv, PInv, PostTypes, HandlerStage, Results, NoSendAfterClose
<1>2. \A d \in ChatId : ~ Feed!Published(d, p)
  BY DEF Publish, IInv, LInv, Logged, Feed!Published
<1>3. Feed!Publish(url[p], p)
  BY <1>2 DEF Publish, Feed!Publish
<1> QED
  BY <1>1, <1>3 DEF Feed!Next

\* The first read of a client settles which chat it follows.
LEMMA GetMessagesFollows ==
    ASSUME IInv, NEW r \in Reader, GetMessages(r) PROVE [Feed!Next]_(Feed!vars)
<1>1. /\ UNCHANGED <<log, seen>>
      /\ \E c \in IF chat[r] = None THEN ChatId ELSE {chat[r]} : chat' = [chat EXCEPT ![r] = c]
  BY DEF GetMessages, others, broker
<1>2. CASE chat[r] = None
  <2>1. PICK c \in ChatId : chat' = [chat EXCEPT ![r] = c]
    BY <1>1, <1>2
  <2>2. Feed!Follow(r, c)
    BY <1>1, <1>2, <2>1 DEF Feed!Follow
  <2> QED
    BY <2>2 DEF Feed!Next
<1>3. CASE chat[r] # None
  <2>1. UNCHANGED <<log, chat, seen>>
    BY <1>1, <1>3 DEF IInv, RInv, ReadTypes
  <2> QED
    BY <2>1, FeedStutters
<1> QED
  BY <1>2, <1>3

\* The answer of a read is the piece of the log that begins where its queue was
\* bound; a read that brings nothing, or whose answer is lost, changes nothing.
LEMMA TimeoutAnswers ==
    ASSUME IInv, NEW r \in Reader, Timeout(r) PROVE [Feed!Next]_(Feed!vars)
<1> DEFINE l == log[chat[r]]
           g == got[r]
<1>1. /\ UNCHANGED <<log, chat>> /\ chat[r] \in ChatId /\ chat[r] # None
      /\ \E heard \in {<<>>, g} : seen' = [seen EXCEPT ![r] = @ \o heard]
      /\ Bound(r) /\ since[r] \in 0 .. Len(l)
  BY ChatAssumption DEF Timeout, Bound, others, broker, IInv, RInv, Tuned
<1>2. l \in Seq(Post) /\ Len(l) \in Nat /\ g \in Seq(Post) /\ Len(g) \in Nat
      /\ seen[r] \in Seq(Post)
  BY <1>1, LenProperties DEF IInv, PInv, PostTypes, RInv, ReadTypes
<1>3. CASE seen' = [seen EXCEPT ![r] = @ \o <<>>] \/ g = <<>>
  <2>1. seen[r] \o <<>> = seen[r]
    BY <1>2, ConcatEmptySeq
  <2>2. seen' = seen
    BY <1>1, <1>3, <2>1 DEF IInv, RInv, ReadTypes
  <2> QED
    BY <1>1, <2>2, FeedStutters
<1>4. CASE seen' = [seen EXCEPT ![r] = @ \o g] /\ g # <<>>
  <2> DEFINE i == since[r] + 1
             j == since[r] + Len(g)
  <2>1. Len(g) > 0
    BY <1>2, <1>4, EmptySeq
  <2>2. /\ since[r] + Len(g) <= Len(l)
        /\ Feed!Placed(seen[r], l, since[r])
    BY <1>1 DEF IInv, SInv, Shown, Earlier
  <2>3. i \in 1 .. Len(l) /\ j \in 1 .. Len(l) /\ i - 1 = since[r]
    BY <1>1, <1>2, <2>1, <2>2
  <2>4. g = SubSeq(l, i, j)
    <3>1. g = SubSeq(SubSeq(l, since[r] + 1, Len(l)), 1, Len(g))
      BY <1>4 DEF IInv, RInv, Gapless, Window
    <3> HIDE DEF l, g
    <3>2. \A k \in 1 .. Len(g) : g[k] = l[since[r] + k]
      BY <1>1, <1>2, <2>2, <3>1, WindowPlaces
    <3>3. /\ SubSeq(l, i, j) \in Seq(Post) /\ Len(SubSeq(l, i, j)) = Len(g)
          /\ \A k \in 1 .. Len(g) : SubSeq(l, i, j)[k] = l[i + k - 1]
      <4>1. i \in Int /\ j \in Int /\ i <= j /\ j - i + 1 = Len(g)
        <5>1. since[r] \in Nat /\ Len(g) \in Nat
          BY <1>1, <1>2
        <5> QED
          BY <2>1, <5>1
      <4>2. \A k \in i .. j : l[k] \in Post
        BY <1>1, <1>2, <2>3
      <4> HIDE DEF i, j
      <4> QED
        BY <4>1, <4>2, SubSeqProperties
    <3>4. \A k \in 1 .. Len(g) : g[k] = SubSeq(l, i, j)[k]
      <4>1. \A k \in 1 .. Len(g) : i + k - 1 = since[r] + k
        BY <1>1, <1>2
      <4> HIDE DEF i, j
      <4> QED
        BY <3>2, <3>3, <4>1
    <3> HIDE DEF i, j
    <3> QED
      BY <1>2, <3>3, <3>4, SeqEqual
  <2>5. Feed!Answer(r, i, j)
    <3> HIDE DEF i, j
    <3> QED
      BY <1>1, <1>4, <2>2, <2>3, <2>4 DEF Feed!Answer
  <2>6. Feed!Read(r)
    <3> HIDE DEF i, j
    <3> QED
      BY <1>1, <2>3, <2>5 DEF Feed!Read
  <2> QED
    BY <2>6 DEF Feed!Next
<1> QED
  BY <1>1, <1>3, <1>4

LEMMA FeedStep == IInv /\ [Next]_vars => [Feed!Next]_(Feed!vars)
<1> SUFFICES ASSUME IInv, [Next]_vars PROVE [Feed!Next]_(Feed!vars)
  OBVIOUS
<1>1. CASE UNCHANGED vars
  BY <1>1, FeedStutters DEF vars, broker, read
<1>2. ASSUME NEW k \in Creation,
             CreateNewChat(k) \/ CallCreateChat(k) \/ CreateStep(k) \/ GiveUp(k)
      PROVE  [Feed!Next]_(Feed!vars)
  BY <1>2, FeedStutters
     DEF elsewhere, broker, read, CreateNewChat, CallCreateChat, CreateChat, CreateStep,
         Insert, InsertFails, Commit, CommitFails, AddUsersToChat, InsertUsers, AddUsersFails,
         AddCommit, AddCommitFails, GiveUp
<1>3. ASSUME RestartDb \/ \E s \in Save : CallSaveMessage(s)
      PROVE  [Feed!Next]_(Feed!vars)
  BY <1>3, FeedStutters DEF broker, read, RestartDb, CallSaveMessage
<1>4. ASSUME NEW p \in Post,
             \/ SendMessage(p) \/ SendRefused(p) \/ SaveStep(p) \/ Reply(p)
             \/ DeclareExchange(p) \/ PublisherFails(p) \/ PublishLost(p)
      PROVE  [Feed!Next]_(Feed!vars)
  BY <1>4, FeedStutters
     DEF broker, read, quiet, SendMessage, SendRefused, SaveStep, CallSave,
         CallSaveFails, Reply, DeclareExchange, PublisherFails, PublishLost
<1>5. ASSUME LoseConnection \/ RestartChats PROVE [Feed!Next]_(Feed!vars)
  BY <1>5, FeedStutters DEF LoseConnection, RestartChats
<1>6. ASSUME NEW r \in Reader,
             \/ DeclareQueue(r) \/ BindQueue(r) \/ ReadFails(r) \/ Consume(r)
             \/ ReceiveMessage(r)
      PROVE  [Feed!Next]_(Feed!vars)
  BY <1>6, FeedStutters
     DEF others, broker, DeclareQueue, BindQueue, ReadFails, Consume, ReceiveMessage
<1> QED
  BY <1>1, <1>2, <1>3, <1>4, <1>5, <1>6, PublishPublishes, GetMessagesFollows, TimeoutAnswers
     DEF Next, PublishStep, ReadStep

\* The chats service and RabbitMQ implement the feed: every answer to a client is a
\* piece of the chat without a gap, behind all that the client has been shown, and
\* no message is published twice, through lost connections and restarts.
THEOREM ChatsImplementFeed == Spec => ImplementsFeed
<1>1. Init => Feed!Init
  BY DEF Init, Feed!Init
<1> QED
  BY <1>1, InitIInv, NextIInv, FeedStep, PTL DEF Spec, ImplementsFeed, Feed!Spec
=============================================================================
