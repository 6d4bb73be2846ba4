-------------------------------- MODULE Team --------------------------------
(***************************************************************************)
(* Adding staff: RegisterUsersInCompany of dbservice/dbadminservice, and   *)
(* AddUsers of admin_control, which calls it and mails the users.          *)
(*                                                                         *)
(* A call goes through its batch with two transactions open, one on the    *)
(* authorization database and one on the company's, and commits them one   *)
(* after the other.  Batches run concurrently, in an order of their own    *)
(* each, because TransformUsersConcurrently shuffles them.                 *)
(*                                                                         *)
(* A row of authusers is named by the call that inserts it, the entry and  *)
(* the company it carries.  An INSERT whose key an open transaction has    *)
(* inserted waits for that transaction to end; PostgreSQL breaks a cycle   *)
(* of such waits, if the whole cycle is in one database.  Begin takes no   *)
(* snapshot and no lock, so that the beginning of both transactions is     *)
(* one step; nothing waits for a connection while it holds one of a later  *)
(* pool, so that pools are left out.                                       *)
(***************************************************************************)
EXTENDS Naturals

CONSTANTS
    Call,     \* the calls of AddUsers
    Entry,    \* what a batch may hold: records with an email and a phone
    Company,  \* the companies, and their databases
    Job,      \* what a call may carry: a batch of entries, the CompanyId of
              \* the body, the database of the cookie
    Founder,  \* rows of authusers that may exist already
    None      \* the absent job, row or call

Row == [by : Call \cup {None}, entry : Entry, company : Company]
Member == [database : Company, row : Row, by : Call \cup {None}]

\* The unique columns email and phone.
SameKey(e, f) == e.email = f.email \/ e.phone = f.phone
Clash(r, s) == SameKey(r.entry, s.entry)

ASSUME JobAssumption ==
    Job \subseteq [batch : (SUBSET Entry) \ {{}}, company : Company, database : Company]
ASSUME NoneAssumption == None \notin Call \cup Row \cup Job
ASSUME FounderAssumption ==
    /\ Founder \subseteq {r \in Row : r.by = None}
    /\ \A r, s \in Founder : r # s => ~Clash(r, s)

VARIABLES
    job,         \* what each call carries
    pc,          \* what each call of RegisterUsersInCompany does next
    todo,        \* the entries it has not begun with
    row,         \* the row found, or to be inserted, for the entry at hand
    newUsers,    \* rows of authusers its transaction tx has inserted
    newMembers,  \* rows of authusers that its transaction txc has linked
    txErr,       \* the calls for which tx.Commit has returned an error
    authusers,   \* committed rows of authusers
    members,     \* committed rows of users, over all company databases
    answer,      \* what RegisterUsersInCompany returns
    heard,       \* where AddUsers is with it
    mailed       \* the entries whose mail the e-mail service has accepted

txVars == <<newUsers, newMembers>>
dbVars == <<authusers, members>>
callerVars == <<heard, mailed>>
vars == <<job, pc, todo, row, txVars, txErr, dbVars, answer, callerVars>>

-----------------------------------------------------------------------------
Stages == {"idle", "begin", "next", "member", "insertUser", "link",
           "commitMembers", "done"}
Codes == {"none", "OK", "error", "unavailable"}

TypeOK ==
    /\ job \in [Call -> Job \cup {None}]
    /\ pc \in [Call -> Stages]
    /\ todo \in [Call -> SUBSET Entry]
    /\ row \in [Call -> Row \cup {None}]
    /\ newUsers \in [Call -> SUBSET Row]
    /\ newMembers \in [Call -> SUBSET Row]
    /\ txErr \subseteq Call
    /\ authusers \subseteq Row
    /\ members \subseteq Member
    /\ answer \in [Call -> [code : Codes, users : SUBSET Entry]]
    /\ heard \in [Call -> {"waiting", "mailing", "told", "failed"}]
    /\ mailed \in [Call -> SUBSET Entry]

NoAnswer == [code |-> "none", users |-> {}]

Init ==
    /\ job = [c \in Call |-> None]
    /\ pc = [c \in Call |-> "idle"]
    /\ todo = [c \in Call |-> {}]
    /\ row = [c \in Call |-> None]
    /\ newUsers = [c \in Call |-> {}]
    /\ newMembers = [c \in Call |-> {}]
    /\ txErr = {}
    /\ authusers \in SUBSET Founder
    /\ members \in SUBSET {[database |-> r.company, row |-> r, by |-> None] :
                              r \in authusers}
    /\ answer = [c \in Call |-> NoAnswer]
    /\ heard = [c \in Call |-> "waiting"]
    /\ mailed = [c \in Call |-> {}]

-----------------------------------------------------------------------------
(* Parts of the actions. *)

Goto(c, stage) == pc' = [pc EXCEPT ![c] = stage]

Return(c, code, users) ==
    /\ answer' = [answer EXCEPT ![c] = [code |-> code, users |-> users]]
    /\ Goto(c, "done")

\* Mutant: only tx is rolled back.
AbortUsers(c) ==
    /\ newUsers' = [newUsers EXCEPT ![c] = {}]
    /\ Return(c, "error", {})
    /\ UNCHANGED <<job, todo, row, newMembers, txErr, dbVars, callerVars>>

\* Return an error: the deferred functions roll both transactions back.
Abort(c) ==
    /\ newUsers' = [newUsers EXCEPT ![c] = {}]
    /\ newMembers' = [newMembers EXCEPT ![c] = {}]
    /\ Return(c, "error", {})
    /\ UNCHANGED <<job, todo, row, txErr, dbVars, callerVars>>

Database(c) == job[c].database
LinkedTo(c, r) == \E m \in members : m.database = Database(c) /\ m.row = r

\* What the INSERT of each kind waits for: the end of another transaction.
WaitsUser(c, d) ==
    /\ pc[c] = "insertUser" /\ d # c
    /\ \E r \in newUsers[d] : Clash(r, row[c])
WaitsMember(c, d) ==
    /\ pc[c] = "link" /\ d # c
    /\ row[c] \in newMembers[d] /\ Database(c) = Database(d)

-----------------------------------------------------------------------------
(* RegisterUsersInCompany *)

Arrive(c) ==
    /\ pc[c] = "idle"
    /\ \E q \in Job :
           /\ job' = [job EXCEPT ![c] = q]
           /\ todo' = [todo EXCEPT ![c] = q.batch]
    /\ Goto(c, "begin")
    /\ UNCHANGED <<row, txVars, txErr, dbVars, answer, callerVars>>

Begin(c) ==
    /\ pc[c] = "begin"
    /\ Goto(c, "next")
    /\ UNCHANGED <<job, todo, row, txVars, txErr, dbVars, answer, callerVars>>

\* A connector, a pool, a Begin or the Prepare fails.
BeginFails(c) == pc[c] = "begin" /\ Abort(c)

\* SELECT id FROM authusers WHERE email = $1 OR phone = $2, in tx, for the
\* next entry of the batch: the first of the rows that match...
Find(c, e) ==
    /\ pc[c] = "next" /\ e \in todo[c]
    /\ \E r \in authusers \cup newUsers[c] :
           SameKey(r.entry, e) /\ row' = [row EXCEPT ![c] = r]
    /\ todo' = [todo EXCEPT ![c] = @ \ {e}]
    /\ Goto(c, "member")
    /\ UNCHANGED <<job, txVars, txErr, dbVars, answer, callerVars>>

\* ...or none.
FindNone(c, e) ==
    /\ pc[c] = "next" /\ e \in todo[c]
    /\ \A r \in authusers \cup newUsers[c] : ~SameKey(r.entry, e)
    /\ row' = [row EXCEPT ![c] =
                  [by |-> c, entry |-> e, company |-> job[c].company]]
    /\ todo' = [todo EXCEPT ![c] = @ \ {e}]
    /\ Goto(c, "insertUser")
    /\ UNCHANGED <<job, txVars, txErr, dbVars, answer, callerVars>>

\* SELECT id FROM users WHERE authId = $1, in txc.
IsMember(c) ==
    /\ pc[c] = "member"
    /\ Goto(c, IF LinkedTo(c, row[c]) \/ row[c] \in newMembers[c]
               THEN "next" ELSE "link")
    /\ UNCHANGED <<job, todo, row, txVars, txErr, dbVars, answer, callerVars>>

\* Mutant: without the unique indexes, only the SELECT is trusted.
InsertUserUnindexed(c) ==
    /\ pc[c] = "insertUser"
    /\ newUsers' = [newUsers EXCEPT ![c] = @ \cup {row[c]}]
    /\ Goto(c, "link")
    /\ UNCHANGED <<job, todo, row, newMembers, txErr, dbVars, answer, callerVars>>

\* Mutant: the INSERT is run on dbConn, not on tx.
InsertUserOnPool(c) ==
    /\ pc[c] = "insertUser"
    /\ \A r \in authusers : ~Clash(r, row[c])
    /\ authusers' = authusers \cup {row[c]}
    /\ Goto(c, "link")
    /\ UNCHANGED <<job, todo, row, txVars, txErr, members, answer, callerVars>>

InsertUser(c) ==
    /\ pc[c] = "insertUser"
    /\ \A d \in Call : ~WaitsUser(c, d)
    /\ \A r \in authusers : ~Clash(r, row[c])
    /\ newUsers' = [newUsers EXCEPT ![c] = @ \cup {row[c]}]
    /\ Goto(c, "link")
    /\ UNCHANGED <<job, todo, row, newMembers, txErr, dbVars, answer, callerVars>>

Link(c) ==
    /\ pc[c] = "link"
    /\ \A d \in Call : ~WaitsMember(c, d)
    /\ ~LinkedTo(c, row[c])
    /\ newMembers' = [newMembers EXCEPT ![c] = @ \cup {row[c]}]
    /\ Goto(c, "next")
    /\ UNCHANGED <<job, todo, row, newUsers, txErr, dbVars, answer, callerVars>>

\* Whoever inserted the same key meanwhile has committed it.
InsertConflicts(c) ==
    /\ \/ /\ pc[c] = "insertUser"
          /\ \A d \in Call : ~WaitsUser(c, d)
          /\ \E r \in authusers : Clash(r, row[c])
       \/ /\ pc[c] = "link"
          /\ \A d \in Call : ~WaitsMember(c, d)
          /\ LinkedTo(c, row[c])
    /\ Abort(c)

\* A statement fails, be it that PostgreSQL chooses it to break a deadlock.  A
\* SELECT that fails leads to an INSERT in the same broken transaction.
StatementFails(c) ==
    /\ \/ pc[c] = "next" /\ todo[c] # {}
       \/ pc[c] \in {"member", "insertUser", "link"}
    /\ Abort(c)

-----------------------------------------------------------------------------
(* The commits. *)

EndTx(c) == newUsers' = [newUsers EXCEPT ![c] = {}]

\* Mutant: tx is closed, not committed.
CloseUsers(c) ==
    /\ pc[c] = "next" /\ todo[c] = {}
    /\ EndTx(c)
    /\ Goto(c, "commitMembers")
    /\ UNCHANGED <<job, todo, row, newMembers, txErr, dbVars, answer, callerVars>>

CommitUsers(c) ==
    /\ pc[c] = "next" /\ todo[c] = {}
    /\ authusers' = authusers \cup newUsers[c]
    /\ EndTx(c)
    /\ Goto(c, "commitMembers")
    /\ UNCHANGED <<job, todo, row, newMembers, txErr, members, answer, callerVars>>

\* The commit returns an error, perhaps after PostgreSQL has done it; the other
\* transaction is committed all the same.
CommitUsersFails(c) ==
    /\ pc[c] = "next" /\ todo[c] = {}
    /\ \E done \in {{}, newUsers[c]} : authusers' = authusers \cup done
    /\ EndTx(c)
    /\ txErr' = txErr \cup {c}
    /\ Goto(c, "commitMembers")
    /\ UNCHANGED <<job, todo, row, newMembers, members, answer, callerVars>>

Links(c) == [database : {Database(c)}, row : newMembers[c], by : {c}]

\* Mutant: txErr is not looked at.
AnswerIgnoringTxErr(c) == job[c].batch

\* After an error of either commit, err.Error() panics, for err is nil; the
\* deferred functions see no error, and RecoveryInterceptor answers with the
\* code of a nil error, OK, and without users.
AnswerOf(c) == IF c \in txErr THEN {} ELSE job[c].batch

CommitMembers(c) ==
    /\ pc[c] = "commitMembers"
    /\ members' = members \cup Links(c)
    /\ newMembers' = [newMembers EXCEPT ![c] = {}]
    /\ Return(c, "OK", AnswerOf(c))
    /\ UNCHANGED <<job, todo, row, newUsers, txErr, authusers, callerVars>>

\* Mutant: without RecoveryInterceptor.
CommitMembersPanics(c) ==
    /\ pc[c] = "commitMembers"
    /\ newMembers' = [newMembers EXCEPT ![c] = {}]
    /\ Return(c, "panic", {})
    /\ UNCHANGED <<job, todo, row, newUsers, txErr, dbVars, callerVars>>

CommitMembersFails(c) ==
    /\ pc[c] = "commitMembers"
    /\ \E done \in {{}, Links(c)} : members' = members \cup done
    /\ newMembers' = [newMembers EXCEPT ![c] = {}]
    /\ Return(c, "OK", {})
    /\ UNCHANGED <<job, todo, row, newUsers, txErr, authusers, callerVars>>

Running(c) == pc[c] \notin {"idle", "done"}

\* dbservice crashes and is restarted: PostgreSQL rolls back what is open.
Crash ==
    /\ \E c \in Call : Running(c)
    /\ pc' = [c \in Call |-> IF Running(c) THEN "done" ELSE pc[c]]
    /\ newUsers' = [c \in Call |-> {}]
    /\ newMembers' = [c \in Call |-> {}]
    /\ answer' = [c \in Call |->
           IF Running(c) THEN [code |-> "unavailable", users |-> {}] ELSE answer[c]]
    /\ UNCHANGED <<job, todo, row, txErr, dbVars, callerVars>>

-----------------------------------------------------------------------------
(* AddUsers *)

rpcVars == <<job, pc, todo, row, txVars, txErr, dbVars, answer>>

\* CallAddUsers has its answer...
Receive(c) ==
    /\ pc[c] = "done" /\ heard[c] = "waiting"
    /\ answer[c].code = "OK"
    /\ heard' = [heard EXCEPT ![c] = "mailing"]
    /\ UNCHANGED <<rpcVars, mailed>>

\* ...or an error: the call's own, the loss of the answer, the e-mail service not
\* to be reached, or the end of its ten seconds.  The call goes on when they
\* end and nothing asks whether they have: the step may as well come last.
ReceiveFails(c) ==
    /\ pc[c] = "done" /\ heard[c] = "waiting"
    /\ heard' = [heard EXCEPT ![c] = "failed"]
    /\ UNCHANGED <<rpcVars, mailed>>

Unsent(c) == answer[c].users \ mailed[c]

SendMail(c) ==
    /\ heard[c] = "mailing"
    /\ \E e \in Unsent(c) : mailed' = [mailed EXCEPT ![c] = @ \cup {e}]
    /\ UNCHANGED <<rpcVars, heard>>

\* SendEmail returns an error, perhaps after it was accepted: SendToEmailUser
\* reads resDB.Message of a nil response, and RecoverMiddleware answers 500.
SendMailFails(c) ==
    /\ heard[c] = "mailing"
    /\ \E e \in Unsent(c) : \E done \in {{}, {e}} :
           mailed' = [mailed EXCEPT ![c] = @ \cup done]
    /\ heard' = [heard EXCEPT ![c] = "failed"]
    /\ UNCHANGED rpcVars

Report(c) ==
    /\ heard[c] = "mailing" /\ Unsent(c) = {}
    /\ heard' = [heard EXCEPT ![c] = "told"]
    /\ UNCHANGED <<rpcVars, mailed>>

-----------------------------------------------------------------------------
Progress(c) ==
    \/ Begin(c) \/ \E e \in Entry : Find(c, e) \/ FindNone(c, e)
    \/ IsMember(c) \/ InsertUser(c) \/ Link(c) \/ InsertConflicts(c)
    \/ CommitUsers(c) \/ CommitMembers(c)

Failure(c) ==
    \/ BeginFails(c) \/ StatementFails(c)
    \/ CommitUsersFails(c) \/ CommitMembersFails(c)

Caller(c) ==
    \/ Arrive(c) \/ Receive(c) \/ ReceiveFails(c)
    \/ SendMail(c) \/ SendMailFails(c) \/ Report(c)

Next == Crash \/ \E c \in Call : Progress(c) \/ Failure(c) \/ Caller(c)

Spec == Init /\ [][Next]_vars

\* Calls that wait for each other, all in one database: one of them fails.
Knot(Waits(_, _), S) == S # {} /\ \A c \in S : \E d \in S : Waits(c, d)
KnotInOne(S) == Knot(WaitsUser, S) \/ Knot(WaitsMember, S)
Doomed(c) == \E S \in SUBSET Call : c \in S /\ KnotInOne(S)

\* A goroutine that is not blocked goes on, and PostgreSQL breaks the deadlocks
\* it sees.
FairSpec ==
    /\ Spec
    /\ \A c \in Call : WF_vars(Progress(c)) /\ WF_vars(Doomed(c) /\ StatementFails(c))

-----------------------------------------------------------------------------
(* Properties. *)

\* Whatever batches run together, hold the same people in any order, wait, fail or
\* are cut off, the two databases are a book of staff: a call's users are entered at
\* once and collide with nobody, then its members, each once, and it reports only
\* those who are in both.
Reported == [c \in Call |-> answer[c].users]
Book == INSTANCE StaffBook WITH users <- authusers, reported <- Reported
ImplementsBook == Book!Spec

\* A member of a company's database has a row to log in with, unless the call
\* that was to insert it was told that its first commit had failed and went on
\* to the second.
MembersBacked ==
    \A m \in members :
        \/ m.row \in authusers
        \/ m.row.by = m.by /\ m.by \in txErr

\* Whoever AddUsers reports or mails is in both databases, be it that he was
\* there before, came with another batch or twice with this one, or was left by
\* a call that failed halfway.
ReportedAreMembers ==
    \A c \in Call : \A e \in answer[c].users \cup mailed[c] :
        \E r \in authusers : SameKey(r.entry, e) /\ LinkedTo(c, r)

\* A call that returns an error leaves nothing behind in either database.
ErrorsLeaveNothing ==
    \A c \in Call : answer[c].code = "error" =>
        /\ \A r \in authusers : r.by # c
        /\ \A m \in members : m.by # c

\* Calls of which each waits for another, through both databases: PostgreSQL
\* does not see it, and no statement of the calls has a deadline.
WaitsAny(c, d) == WaitsUser(c, d) \/ WaitsMember(c, d)
Crossed ==
    \E S \in SUBSET Call :
        Knot(WaitsAny, S) /\ \A T \in SUBSET S : ~KnotInOne(T)

\* Every call is answered, unless calls wait for each other across databases:
\* the only way to hang is that one.
AnsweredUnlessCrossed ==
    []~Crossed => \A c \in Call : pc[c] = "begin" ~> pc[c] = "done"
=============================================================================
