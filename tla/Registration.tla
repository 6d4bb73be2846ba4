---------------------------- MODULE Registration ----------------------------
(***************************************************************************)
(* Company registration: RegisterCompany, registerCompany,                 *)
(* createClientDatabase and rollbackAuthDB of dbservice/dbauthservice, and *)
(* callRegisterCompany of the auth service, which waits for the answer.    *)
(*                                                                         *)
(* A registration is a saga over two databases.  It inserts a company and  *)
(* its first user in the authorization database in one transaction, then   *)
(* creates, migrates and seeds a database of the company's own, then       *)
(* caches the result in Redis.  Deferred functions are meant to undo the   *)
(* first transaction when a later step fails.  An action is one call to a  *)
(* shared database or service: requests interleave between calls, and      *)
(* every call may fail.                                                    *)
(*                                                                         *)
(* A row is named by the request that inserted it: a request inserts at    *)
(* most one company, one user and one company database.  PostgreSQL is     *)
(* modelled as far as the code relies on it: a statement reads committed   *)
(* rows, and an INSERT whose key an open transaction has inserted or       *)
(* deleted waits for that transaction to end.                              *)
(***************************************************************************)
EXTENDS FiniteSets, Naturals

CONSTANTS
    Request,   \* the calls of RegisterCompany
    Form,      \* the data they may carry, already in lower case
    PoolSize,  \* SetMaxOpenConns of the authorization database's pool
    None       \* the absent form, row id, code or header

ASSUME PoolSizeAssumption == PoolSize \in Nat \ {0}
ASSUME NoneAssumption == None \notin Request

VARIABLES
    form,       \* the data of each request
    pc,         \* the call each request makes next
    companyId,  \* the named result companyId of registerCompany
    answer,     \* what RegisterCompany returns
    heard,      \* what callRegisterCompany makes of it
    companies,  \* committed rows of companies
    authusers,  \* committed rows of authusers
    staff,      \* company databases whose first role and user are committed
    authConn    \* requests that hold a connection of the authorization pool

dbVars == <<companies, authusers, staff>>
vars == <<form, pc, companyId, answer, heard, dbVars, authConn>>

-----------------------------------------------------------------------------
\* Stages at which a transaction on the authorization database is open.
TxStages == {"select", "insertCompany", "insertUser", "commit",
             "rollbackDelete", "rollbackCommit"}

Stages == TxStages \cup {"idle", "redisGet", "begin", "createDb", "seed",
                         "redisSave", "rollbackBegin", "done"}

\* gRPC status codes.  The two AlreadyExists answers differ in their message.
Codes == {"OK", "Internal", "InvalidArgument", "Unimplemented",
          "Unauthenticated", "CompanyExists", "UserExists", "Unavailable"}

UserRow(r) == <<"users", r>>         \* users.id in the company's database
CompanyRow(r) == <<"companies", r>>  \* companies.id

\* registerCompany returns (nameDB, userId, companyId); RegisterCompany binds
\* them as (dbName, companyId, userId) and sends them as response headers.
Header(r) ==
    LET result == <<r, UserRow(r), CompanyRow(r)>>
    IN  [database |-> result[1], companyId |-> result[2], userId |-> result[3]]

Answers == [code : Codes \cup {None},
            header : {Header(r) : r \in Request} \cup {None}]

\* Mutant: the gRPC code is passed on as it is.
HeardRaw(a) == a.code

\* The HTTP status that callRegisterCompany derives from the answer.
Heard(a) ==
    CASE a.code = "OK" /\ a.header # None -> "created"
      [] a.code = "Unauthenticated" -> "unauthorized"
      [] a.code = "Unimplemented" -> "notImplemented"
      [] a.code \in {"CompanyExists", "UserExists"} -> "conflict"
      [] OTHER -> "error"

Statuses == {"nothing", "created", "unauthorized", "notImplemented",
             "conflict", "error"}

TypeOK ==
    /\ form \in [Request -> Form \cup {None}]
    /\ pc \in [Request -> Stages]
    /\ companyId \in [Request -> Request \cup {None}]
    /\ answer \in [Request -> Answers]
    /\ heard \in [Request -> Statuses]
    /\ companies \subseteq Request
    /\ authusers \subseteq Request
    /\ staff \subseteq Request
    /\ authConn \subseteq Request

Init ==
    /\ form = [r \in Request |-> None]
    /\ pc = [r \in Request |-> "idle"]
    /\ companyId = [r \in Request |-> None]
    /\ answer = [r \in Request |-> [code |-> None, header |-> None]]
    /\ heard = [r \in Request |-> "nothing"]
    /\ companies = {} /\ authusers = {} /\ staff = {} /\ authConn = {}

-----------------------------------------------------------------------------
(* Parts of the actions. *)

Goto(r, stage) == pc' = [pc EXCEPT ![r] = stage]

\* return "", "", "", code, err: the named result companyId is "" by the time
\* the deferred functions run.
ReturnError(r, code) ==
    /\ answer' = [answer EXCEPT ![r] = [code |-> code, header |-> None]]
    /\ companyId' = [companyId EXCEPT ![r] = None]

\* return newDbName, newUserId, companyId, codes.OK, nil
ReturnOk(r) ==
    /\ answer' = [answer EXCEPT ![r] = [code |-> "OK", header |-> Header(r)]]
    /\ UNCHANGED companyId

\* Begin waits for a connection of the pool, without a deadline.
FreeConn == Cardinality(authConn) < PoolSize
TakeConn(r) == FreeConn /\ authConn' = authConn \cup {r}
KeepConn(r) == UNCHANGED authConn \* mutant: nothing is rolled back
ReleaseConn(r) == authConn' = authConn \ {r}

SameAddress(r, q) == form[q].address = form[r].address
SameUser(r, q) == form[q].email = form[r].email \/ form[q].phone = form[r].phone
SameCompany(r, q) == form[q].name = form[r].name /\ SameAddress(r, q)

\* The row of request q is inserted, or deleted, by an open transaction.
CompanyLocked(q) == pc[q] \in {"insertUser", "commit", "rollbackCommit"}
UserLocked(q) == pc[q] \in {"commit", "rollbackCommit"}

\* No other open transaction holds a key of the row that r inserts.
AddressFree(r) == \A q \in Request \ {r} : CompanyLocked(q) => ~SameAddress(r, q)
UserFree(r) == \A q \in Request \ {r} : UserLocked(q) => ~SameUser(r, q)

-----------------------------------------------------------------------------
(* The caller, and the start of the call. *)

Arrive(r) ==
    /\ pc[r] = "idle"
    /\ \E f \in Form : form' = [form EXCEPT ![r] = f]
    /\ Goto(r, "redisGet")
    /\ UNCHANGED <<companyId, answer, heard, dbVars, authConn>>

\* callRegisterCompany receives the answer, or an error in its place when
\* SendHeader fails or the answer is lost on its way...
Relay(r) ==
    /\ pc[r] = "done"
    /\ heard[r] = "nothing"
    /\ \E status \in {Heard(answer[r]), "error"} :
           heard' = [heard EXCEPT ![r] = status]
    /\ UNCHANGED <<form, pc, companyId, answer, dbVars, authConn>>

\* ...or its ten seconds are over, while registerCompany, which has a context
\* of its own, goes on.
Timeout(r) ==
    /\ pc[r] \notin {"idle", "done"}
    /\ heard[r] = "nothing"
    /\ heard' = [heard EXCEPT ![r] = "error"]
    /\ UNCHANGED <<form, pc, companyId, answer, dbVars, authConn>>

\* Redis answers.  It is never a hit: the key read is name + "Register", every
\* key written ends in the new user's id.
RedisGet(r) ==
    /\ pc[r] = "redisGet"
    /\ Goto(r, "begin")
    /\ UNCHANGED <<form, companyId, answer, heard, dbVars, authConn>>

\* The token is missing or a connector cannot be built; or Get fails, its
\* error is not looked at, resRedis.Status panics on a nil response, and
\* RecoveryInterceptor answers with the code of a nil error, which is OK.
RedisGetFails(r) ==
    /\ pc[r] = "redisGet"
    /\ \E code \in {"Unauthenticated", "Internal", "OK"} : ReturnError(r, code)
    /\ Goto(r, "done")
    /\ UNCHANGED <<form, heard, dbVars, authConn>>

-----------------------------------------------------------------------------
(* The transaction on the authorization database. *)

Begin(r) ==
    /\ pc[r] = "begin"
    /\ TakeConn(r)
    /\ Goto(r, "select")
    /\ UNCHANGED <<form, companyId, answer, heard, dbVars>>

BeginFails(r) ==
    /\ pc[r] = "begin" /\ FreeConn
    /\ ReturnError(r, "Internal")
    /\ Goto(r, "done")
    /\ UNCHANGED <<form, heard, dbVars, authConn>>

SelectEmpty(r) ==
    /\ pc[r] = "select"
    /\ \A q \in companies : ~SameCompany(r, q)
    /\ Goto(r, "insertCompany")
    /\ UNCHANGED <<form, companyId, answer, heard, dbVars, authConn>>

\* The company exists.  The err that the deferred function tests is nil here,
\* so the transaction is not rolled back and keeps its connection.
SelectFinds(r) ==
    /\ pc[r] = "select"
    /\ \E q \in companies : SameCompany(r, q)
    /\ ReturnError(r, "CompanyExists")
    /\ Goto(r, "done")
    /\ UNCHANGED <<form, heard, dbVars, authConn>>

\* Mutant: companies.address is not UNIQUE, only the SELECT is trusted.
InsertCompanyUnindexed(r) ==
    /\ pc[r] = "insertCompany"
    /\ companyId' = [companyId EXCEPT ![r] = r]
    /\ Goto(r, "insertUser")
    /\ UNCHANGED <<form, answer, heard, dbVars, authConn>>

\* The INSERTs wait while another open transaction holds a key of theirs.
InsertCompany(r) ==
    /\ pc[r] = "insertCompany"
    /\ AddressFree(r)
    /\ \A q \in companies : ~SameAddress(r, q)
    /\ companyId' = [companyId EXCEPT ![r] = r]
    /\ Goto(r, "insertUser")
    /\ UNCHANGED <<form, answer, heard, dbVars, authConn>>

\* Mutant: the unique keys of authusers are checked, but not locked.
InsertUserUnlocked(r) ==
    /\ pc[r] = "insertUser"
    /\ \A q \in authusers : ~SameUser(r, q)
    /\ Goto(r, "commit")
    /\ UNCHANGED <<form, companyId, answer, heard, dbVars, authConn>>

InsertUser(r) ==
    /\ pc[r] = "insertUser"
    /\ UserFree(r)
    /\ \A q \in authusers : ~SameUser(r, q)
    /\ Goto(r, "commit")
    /\ UNCHANGED <<form, companyId, answer, heard, dbVars, authConn>>

\* A key is taken: the transaction is rolled back.
InsertConflicts(r) ==
    /\ \/ /\ pc[r] = "insertCompany"
          /\ AddressFree(r)
          /\ \E q \in companies : SameAddress(r, q)
          /\ ReturnError(r, "Internal")
       \/ /\ pc[r] = "insertUser"
          /\ UserFree(r)
          /\ \E q \in authusers : SameUser(r, q)
          /\ ReturnError(r, "UserExists")
    /\ ReleaseConn(r)
    /\ Goto(r, "done")
    /\ UNCHANGED <<form, heard, dbVars>>

\* A statement fails for any other reason: the transaction is rolled back.
StatementFails(r) ==
    /\ \/ pc[r] = "select" /\ ReturnError(r, "InvalidArgument")
       \/ /\ pc[r] \in {"insertCompany", "insertUser"}
          /\ ReturnError(r, "Internal")
    /\ ReleaseConn(r)
    /\ Goto(r, "done")
    /\ UNCHANGED <<form, heard, dbVars>>

Commit(r) ==
    /\ pc[r] = "commit"
    /\ companies' = companies \cup {r}
    /\ authusers' = authusers \cup {r}
    /\ ReleaseConn(r)
    /\ Goto(r, "createDb")
    /\ UNCHANGED <<form, companyId, answer, heard, staff>>

\* tx.Commit reports an error.  The server has committed all the same if only
\* its acknowledgement is lost.
CommitFails(r) ==
    /\ pc[r] = "commit"
    /\ \E done \in {{}, {r}} : /\ companies' = companies \cup done
                               /\ authusers' = authusers \cup done
    /\ ReturnError(r, "Internal")
    /\ ReleaseConn(r)
    /\ Goto(r, "done")
    /\ UNCHANGED <<form, heard, staff>>

-----------------------------------------------------------------------------
(* The company's own database, and the cache. *)

\* createClientDatabase (CREATE DATABASE, GetDb, Migration) and txc's Begin:
\* none of it is shared with another request.
CreateDb(r) ==
    /\ pc[r] = "createDb"
    /\ Goto(r, "seed")
    /\ UNCHANGED <<form, companyId, answer, heard, dbVars, authConn>>

\* The second deferred function is not registered yet: nothing deletes the
\* company and the user.
CreateDbFails(r) ==
    /\ pc[r] = "createDb"
    /\ ReturnError(r, "Internal")
    /\ Goto(r, "done")
    /\ UNCHANGED <<form, heard, dbVars, authConn>>

\* Mutant: the commit of txc is forgotten.
SeedUncommitted(r) ==
    /\ pc[r] = "seed"
    /\ Goto(r, "redisSave")
    /\ UNCHANGED <<form, companyId, answer, heard, dbVars, authConn>>

\* The rows of rights, users and availableactions, in the transaction txc.
Seed(r) ==
    /\ pc[r] = "seed"
    /\ staff' = staff \cup {r}
    /\ Goto(r, "redisSave")
    /\ UNCHANGED <<form, companyId, answer, heard, companies, authusers,
                   authConn>>

\* An INSERT or the commit of txc fails, the latter perhaps once applied: the
\* second deferred function rolls txc back and calls rollbackAuthDB.
SeedFails(r) ==
    /\ pc[r] = "seed"
    /\ \E done \in {{}, {r}} : staff' = staff \cup done
    /\ ReturnError(r, "Unimplemented")
    /\ Goto(r, "rollbackBegin")
    /\ UNCHANGED <<form, heard, companies, authusers, authConn>>

RedisSave(r) ==
    /\ pc[r] = "redisSave"
    /\ ReturnOk(r)
    /\ Goto(r, "done")
    /\ UNCHANGED <<form, heard, dbVars, authConn>>

\* The error is printed and the call returns OK, but it stays in the err that
\* the second deferred function tests.
RedisSaveFails(r) ==
    /\ pc[r] = "redisSave"
    /\ ReturnOk(r)
    /\ Goto(r, "rollbackBegin")
    /\ UNCHANGED <<form, heard, dbVars, authConn>>

-----------------------------------------------------------------------------
(* rollbackAuthDB, run by the second deferred function. *)

RollbackBegin(r) ==
    /\ pc[r] = "rollbackBegin"
    /\ TakeConn(r)
    /\ Goto(r, "rollbackDelete")
    /\ UNCHANGED <<form, companyId, answer, heard, dbVars>>

\* DELETE FROM authusers by authUserId, DELETE FROM companies by companyId.
RollbackDelete(r) ==
    /\ pc[r] = "rollbackDelete"
    /\ companyId[r] # None
    /\ Goto(r, "rollbackCommit")
    /\ UNCHANGED <<form, companyId, answer, heard, dbVars, authConn>>

\* Mutants: the company stays; every company of that name goes.
RollbackUserOnly(r) ==
    /\ pc[r] = "rollbackCommit"
    /\ authusers' = authusers \ {r}
    /\ ReleaseConn(r)
    /\ Goto(r, "done")
    /\ UNCHANGED <<form, companyId, answer, heard, companies, staff>>

RollbackByName(r) ==
    /\ pc[r] = "rollbackCommit"
    /\ authusers' = {q \in authusers : form[q].name # form[r].name}
    /\ companies' = {q \in companies : form[q].name # form[r].name}
    /\ ReleaseConn(r)
    /\ Goto(r, "done")
    /\ UNCHANGED <<form, companyId, answer, heard, staff>>

RollbackCommit(r) ==
    /\ pc[r] = "rollbackCommit"
    /\ authusers' = authusers \ {r}
    /\ companies' = companies \ {companyId[r]}
    /\ ReleaseConn(r)
    /\ Goto(r, "done")
    /\ UNCHANGED <<form, companyId, answer, heard, staff>>

\* Begin, a DELETE or the commit fails; an empty companyId always does, for
\* it is not an integer.  Only a commit may have been applied.
RollbackFails(r) ==
    /\ \/ pc[r] = "rollbackBegin" /\ FreeConn
       \/ pc[r] \in {"rollbackDelete", "rollbackCommit"}
    /\ \/ UNCHANGED <<companies, authusers>>
       \/ /\ pc[r] = "rollbackCommit"
          /\ authusers' = authusers \ {r}
          /\ companies' = companies \ {companyId[r]}
    /\ ReleaseConn(r)
    /\ Goto(r, "done")
    /\ UNCHANGED <<form, companyId, answer, heard, staff>>

-----------------------------------------------------------------------------
\* dbservice crashes and docker restarts it: the calls in progress end, their
\* open transactions are rolled back by PostgreSQL, and the pool is new.
Running(r) == pc[r] \notin {"idle", "done"}

Crash ==
    /\ \E r \in Request : Running(r)
    /\ pc' = [r \in Request |-> IF Running(r) THEN "done" ELSE pc[r]]
    /\ answer' = [r \in Request |->
                    IF Running(r) THEN [code |-> "Unavailable", header |-> None]
                                  ELSE answer[r]]
    /\ authConn' = {}
    /\ UNCHANGED <<form, companyId, heard, dbVars>>

-----------------------------------------------------------------------------
\* The steps of the call when nothing fails.
Progress(r) ==
    \/ RedisGet(r) \/ Begin(r) \/ SelectEmpty(r) \/ SelectFinds(r)
    \/ InsertCompany(r) \/ InsertUser(r) \/ InsertConflicts(r) \/ Commit(r)
    \/ CreateDb(r) \/ Seed(r) \/ RedisSave(r)
    \/ RollbackBegin(r) \/ RollbackDelete(r) \/ RollbackCommit(r)

\* The steps in which a call to a database or a service fails.
Failure(r) ==
    \/ RedisGetFails(r) \/ BeginFails(r) \/ StatementFails(r) \/ CommitFails(r)
    \/ CreateDbFails(r) \/ SeedFails(r) \/ RedisSaveFails(r) \/ RollbackFails(r)

Next ==
    \/ \E r \in Request :
           Arrive(r) \/ Progress(r) \/ Failure(r) \/ Relay(r) \/ Timeout(r)
    \/ Crash

Spec == Init /\ [][Next]_vars

-----------------------------------------------------------------------------
(* Properties. *)

\* Two registered accounts never share an address, an e-mail or a phone, even
\* when their registrations raced between the SELECT and the INSERTs.
KeysUnique ==
    \A r, q \in Request : r # q =>
        /\ {r, q} \subseteq companies => ~SameAddress(r, q)
        /\ {r, q} \subseteq authusers => ~SameUser(r, q)

\* The authorization database never holds half an account: a company has the
\* user who registered it and the user has the company, whatever transaction
\* or compensation was cut short.
AccountWhole == companies = authusers

\* The connections that are out belong to open transactions, and the others
\* are all leaked by one path: the answer that the company exists already.
InTx(r) == pc[r] \in TxStages
Leaked == {r \in authConn : pc[r] = "done"}
ConnAccounting ==
    /\ \A r \in Request : InTx(r) => r \in authConn
    /\ \A r \in authConn : InTx(r) \/ r \in Leaked
    /\ \A r \in Leaked : answer[r].code = "CompanyExists"

\* A caller that reads "created" has a company database whose first role and
\* user are committed, so that the new user has somewhere to log in to.
CreatedIsSeeded == \A r \in Request : heard[r] = "created" => r \in staff

\* An account disappears only by the compensation of the request that created
\* it, and only when that request has already reported success.
DeletesOwn ==
    [][\A r \in Request : r \in companies \cup authusers =>
          \/ r \in companies' /\ r \in authusers'
          \/ pc[r] = "rollbackCommit" /\ answer[r].code = "OK"]_dbVars

\* The committed accounts are an account directory.
Accounts == {form[r] : r \in companies \cap authusers}
Directory == INSTANCE AccountDirectory WITH directory <- Accounts
ImplementsDirectory == Directory!Spec

-----------------------------------------------------------------------------
(* What the documentation says and the code does not do. *)

\* README.md:532: a registration runs in transactions that are rolled back on
\* errors.  So an error after the first commit starts the compensation, and
\* with the id of the company to delete.
ErrorsAreCompensated ==
    [][\A r \in Request :
          /\ pc[r] \in {"createDb", "seed"}
          /\ answer'[r].code \in {"Internal", "Unimplemented"}
          => pc'[r] = "rollbackBegin" /\ companyId'[r] = r]_vars
=============================================================================
