# CRM_System in TLA+

A specification of the parts of CRM_System whose correctness depends on order,
failure and concurrency: the sagas, transactions, pools and migrations of
`dbservice`, the services that call it, the message broker behind the chats and
the gateway in front of it all. The modules are translated from the Go source, the SQL
migrations and the nginx configuration under `src/`; TLC checks them on small
instances and TLAPS proves the safety properties for all instances.

1. [The system](#1-the-system)
2. [The modules](#2-the-modules)
3. [The runs](#3-the-runs)
4. [Fairness](#4-fairness)
5. [The proofs](#5-the-proofs)
6. [Where documentation and code differ](#6-where-documentation-and-code-differ)
7. [What is not modelled](#7-what-is-not-modelled)
8. [Plan](#8-plan)

## 1. The system

A browser talks to **nginx**, which checks a JWT in a cookie and passes the
request to one of the REST services **auth**, **timer**, **chats** or
**admin_control**. Each of them calls **dbservice** over gRPC, with the cookies
`database`, `user-id` and `company-id` as metadata. `dbservice` is the only
client of PostgreSQL: one authorization database for the whole installation,
and one database per company. **redis** is a gRPC cache, **email-service** sends
mails, on request or from a RabbitMQ queue, **logs** forwards log lines to Loki. Docker
restarts a service that stops (`restart: always`).

| Component | State it keeps | Operations | Must hold |
|---|---|---|---|
| Company registration (`dbauth.go`, `auth` handler) | rows of `companies` and `authusers`, the company's database, open transactions | `RegisterCompany`, `createClientDatabase`, `rollbackAuthDB`, `callRegisterCompany` | accounts are unique and whole; success means a seeded database; errors are compensated; no connection is lost |
| Login (`dbauth.go`) | none | `LoginDB`, `checkUser` | a settled account is found; a login leads into a database that has the user |
| Timers (`dbtimer.go`, `timer` handler) | rows of `user_timers` | `StartTimer`, `EndTimer`, `StartTimerDB`, `EndTimerDB`, (`GetWorkingTimerDB`, `ChangeTimerDB`, `AddTimerDB`) | a new timer replaces the old; a timer is closed once; what a user is told is true; every call ends |
| Database pools (`mapConnectionsDb.go`) | the map of pools, 25 connections each | `GetDb`, `CloseAllDatabases` | one live pool per database; waits end |
| Staff administration (`dbadmin.go`, `admin_control` handler) | `authusers` and the company's `users` | `RegisterUsersInCompany`, `AddUsers` | users are unique; both rows of a user, or a known failure; whoever is reported can be found in both databases; every call ends |
| Chat (`dbchat.go`, `chats` handler) | `chats`, `chat_users`, `messages`; exchanges and temporary queues of RabbitMQ; one AMQP connection | `CreateChat`, `AddUsersToChat`, `SaveMessage`, `SendMessage`, `GetMessages` | a chat has its users or none; a read misses nothing while it lasts; no send on a closed channel; every request is answered |
| Sessions (`auth` handler, `tokenGenerator.go`, `nginx.conf`) | cookies and their expiry | `Login`, `Register`, `RefreshToken`, `CheckAuth`, `AddCookie`, JWT check and redirects | a session ends; refresh token and identity come from one login; redirects end; a session can be renewed |
| Schema migrations (`main.go`, `migration.go`, `createInsideDB.go`) | databases, their versions | `initDB`, `fullCompaniesMigrations`, `Migration`, `createClientDatabase` | no call without a migrated authorization database; a row of versions is true; a repair loses as little as it can; a start recovers |
| Redis cache (`redis/main.go`) | keys | `Save` (SetNX), `Get` | its failure undoes nothing |
| E-mail (`email-service`) | queue `email_tasks` | 5 consumers, `SendEmail` | a task is carried out |
| Logs, chat client | none | | |

How they interact, and what is hard:

* **Sagas without a coordinator.** A registration commits to the authorization
  database, then creates, migrates and seeds another database, then writes to
  the cache. Deferred Go functions compensate; they read variables (`err`, the
  named results) that the `return` in between has already changed.
* **Transactions that are not where they seem.** Some statements of a
  transaction run on the pool (`db.Exec`, `db.QueryRow`) instead of on `tx`, and
  commit by themselves on a second connection.
* **Bounded pools.** A transaction holds a connection until it ends. A path that
  neither commits nor rolls back loses it; a statement beside a transaction
  needs two.
* **Timeouts without cancellation.** The REST services give up after ten seconds
  (nginx after sixty); most calls of `dbservice` have a context of their own and
  go on.
* **Panics.** Several error paths call `err.Error()` on a nil error or read a nil
  response. `RecoveryInterceptor` turns that into an error made from a nil
  error's status, which is `OK`.
* **Unlocked memory.** The map of pools and the counter of migrations are shared by
  goroutines without a lock.
* **Delivery without memory.** A temporary queue exists while a read lasts, with
  automatic acknowledgement, and publications are not confirmed.
* **Answers that overtake each other**: the requests of one browser overlap, and each
  answer sets cookies.
* **Crashes** between any two of these steps, followed by a restart.

`PROJECT.json` lists the hazards one by one, at their lines, with the properties
that cover them.

## 2. The modules

| Module | What it is |
|---|---|
| `AccountDirectory` | Abstract: a set of accounts, opened and closed in one step each, no two of which clash. What registration promises. |
| `ChatFeed` | Abstract: chats as feeds. A message is published once, in one chat, and each answer brings a client a piece of its chat without a gap, behind all that it has seen. What the chats promise. |
| `StaffBook` | Abstract: a book of users and of the companies' members. A call enters its new users at once, and then makes members at once, nobody twice. What adding staff promises. |
| `Registration` | The registration saga. |
| `Login` | Extends `Registration` with the logins that run beside it. |
| `Timer` | Starting and ending timers in one company's database. |
| `TimerService` | Extends `Timer` with the REST service before it: requests, answers, users who give up and ask again. |
| `Team` | Adding staff: batches over two databases, and the mails. |
| `Migrations` | The start-up of `dbservice`: databases, versions, repairs, retries, restarts. |
| `Pools` | The map of pools that all handlers share. |
| `Chat` | Creating chats, sending and reading messages, through PostgreSQL and RabbitMQ. |
| `Session` | The cookies of a browser, the gateway, and the services that set and read them. |
| `*_proofs` (of all but the three abstract modules and `TimerService`, which `Timer_proofs` covers) | Theorems and their proofs. |
| `MC*` | Instances for TLC. |

In the modules about PostgreSQL a row is named by the request that inserts it (in `Team`, whose
calls insert several, by the call and the entry), an action is one call to something shared, requests
interleave between calls, and every call may fail. PostgreSQL is modelled as far
as the code relies on it: a statement reads committed rows (READ COMMITTED), an
INSERT whose unique key an open transaction has inserted or deleted waits for
that transaction, an UPDATE waits for the locked rows of its snapshot and then
evaluates its condition again.

### Registration

`pc[r]` is the next call of `registerCompany` for request `r`:

    idle -> redisGet -> begin -> select -> insertCompany -> insertUser -> commit
         -> createDb -> seed -> redisSave -> done
    seed, redisSave -(err # nil)-> rollbackBegin -> rollbackDelete -> rollbackCommit -> done

| Variable | In the code |
|---|---|
| `companies`, `authusers` | committed rows of the authorization database |
| `staff` | the company databases whose first role and user are committed (`txc`) |
| `authConn` | who holds a connection of the authorization pool |
| `companyId` | the named result, which the compensation reads |
| `answer` | code and headers that `RegisterCompany` returns |
| `heard` | the HTTP status that `callRegisterCompany` makes of the answer, or of its timeout |
| `form` | name, address, e-mail, phone and password of the request |

Details that are easy to miss and are in the model: `SelectFinds` leaves its
transaction open, for `err` is nil there; `CreateDbFails` comes before the
deferred compensation is installed; `SeedFails` sets `companyId` to the empty
string before the compensation uses it, so `RollbackDelete` is not enabled and
only `RollbackFails` remains; `RedisSaveFails` answers OK and compensates; a commit
that reports an error may have been applied; the answer to a request may be
lost, or come after its caller has given up.

`ImplementsDirectory` is the refinement: with `directory` mapped to the forms of
the committed accounts, each step of the saga opens or closes one account of
`AccountDirectory`, or none.

### Login

`at[l]` runs through the reads of `checkUser`: cache, user, company, the company's
own `users`. `FindUser` takes any row that matches e-mail or phone, and
the password, because the query has no order. `settled[l]` is a history
variable: the accounts that were registered, and whose calls had been answered
OK, when the login began. `LoginNext` leaves out `Relay` and `Timeout` of
`Registration`: they change only `heard`, which no login and no other registration
reads.

### Timer

`StartTimerDB` asks whether the user has an active timer. If not, it inserts one.
If so, it closes it with an UPDATE that commits by itself, begins a transaction, does
the same UPDATE again, inserts the new timer *beside* the transaction, and
commits. `EndTimerDB` is one UPDATE. An UPDATE is two steps (`Close` and
`CloseDone`, `TxClose` and `TxCloseDone`, `EndClose` and `EndDone`): its snapshot
`seen[c]`, and, once `LockedFor(c)` has none of those rows, the change of the
rows that are still active. `closing[c]` is what an open transaction has closed
and nobody else sees. `closer[t]` is who closed timer `t`; `None` is the column
`is_active`. `known[c]` is history: the user's active timers when the call began.

`TimerService` composes these calls with the handlers that wait for them. `stage[c]` is
where the request of a call is. When nginx stops waiting (`GiveUp`) the user has an
answer and the call goes on, so that his next request may overlap with it. Two variables are
history: `crossed`, the calls that have overlapped with another of their user, and
`told[u]`, what the last answer that says anything has told the user of his active
timers. An answer to a start names the new timer, a successful one to an end says that
there is none, and errors and panics say nothing (`Says`). Its steps are
those of `Timer`, or leave `Timer`'s variables alone (theorem `ServiceUsesTimers`). The
users are those who send the cookie `access-token` (section 7).

### Team

`pc[c]` is the next statement of `RegisterUsersInCompany` for call `c`:

    idle -> begin -> next -> member ----------> link -> next
                     next -> insertUser ------> link
                             member -> next
                     next -(todo = {})-> commitMembers -> done

| Variable | In the code |
|---|---|
| `job` | the batch and `CompanyId` of the body, and `database` of the cookie; nothing relates the two companies |
| `todo` | what is left of `req.Users`, in any order: `TransformUsersConcurrently` collects it from goroutines |
| `row` | `existingAuthUserId`, or the row for which `stmtAuth` is run |
| `newUsers`, `newMembers` | what the open `tx` and `txc` have inserted |
| `authusers`, `members` | committed rows of `authusers`, and of `users` in all company databases |
| `txErr` | history: the calls whose first commit returned an error |
| `answer`, `heard`, `mailed` | the answer of the RPC, and how far `AddUsers` is with it |

The two commits are two steps, with a crash possible between them, and the second is
done whatever the first returned. When one fails, `err` is still nil:
`err.Error()` panics, the deferred rollbacks see no error, and the caller reads
OK without users (`CommitMembersFails`, `AnswerOf`). A mail that fails is a nil
response that is read: `AddUsers` ends with 500 in the middle of its list
(`SendMailFails`). `WaitsUser` and `WaitsMember` say which open transaction an INSERT
waits for. `ReceiveFails` is enabled when the RPC is over: a caller that gives up earlier
changes nothing that the call looks at, so that the order of the two
does not matter.

`ImplementsBook` is the refinement: with `authusers` as the users of `StaffBook` and the users of each `answer` as
what is reported, the commit of `tx` is `Enter`, the commit of `txc` is `Confirm`, and no other step is seen.
`UniqueUsers` and `MemberOnce` follow from the book.

### Migrations

`phase` is where `main()` is (`down`, `auth`, `companies`, `serving`), `job[d]` where
`Migration()` is in database `d`. `golang-migrate` is external: it keeps one row
`version`, `dirty` in each database, marks it dirty before a file and clean after it, and
the three are separate statements between which a goroutine may fail or the process stop.

| Variable | In the code |
|---|---|
| `made`, `exists`, `rows` | databases, their tables (named by the file that creates them), tables that hold data |
| `attempt` | the loop variable of `initDB`; after the last attempt `log.Fatalf` |
| `counter`, `loaded` | `*counter++` of the goroutines, as a load and a store |
| `lost`, `hits`, `faults` | history: tables whose data a down file has dropped, interruptions per database, the bound |

Easy to miss: the repair of a dirty version is `Force(version - 1)` followed by `Steps(-1)`,
so that it undoes the version *below* the one that failed; of version 1 it makes 0, which has no
file, and every later start fails there (`DownRefused`, `UpRefused`); a down file is
refused while another table references its table (`Referenced`); of the companies' files
one creates its table without IF NOT EXISTS (`Bare`); a company's failed migration
is logged and the service starts all the same.

### Pools

A call of `GetDb` is its accesses to the map and to the pool, one action each: look
up, ping, delete, close, open, store. The map has no lock: while another call writes, a look-up
may miss an entry and a write may be lost (`Raced`), or Go stops the process
(`Restart`). A pool is closed while other calls use it (`Close`), and the entry is
removed whichever pool it names by then (`Delete`). `crossed` and `raced` are history:
the databases over which two calls have overlapped, and those an access to which was lost.

### Chat

| Variable | In the code |
|---|---|
| `chats`, `members`, `saved`, `given` | committed rows of `chats`, `chat_users`, `messages`; ids given out |
| `pc`, `asked`, `id`, `answer` | `CreateChat` with `AddUsersToChat`: two transactions, and what the caller hears |
| `exchanges`, `linked` | RabbitMQ: durable exchanges, and whether the one connection of the service is open |
| `url`, `handler`, `publisher`, `saver`, `errChan`, `reply` | `SendMessage`: the handler, its two goroutines and their channel |
| `reading`, `queue`, `got`, `seen` | `GetMessages`: its temporary queue, what the read has received, what the client has seen |
| `log`, `since` | history: what an exchange has routed, and where in it a queue was bound |

Easy to miss: the chats service replaces the context that carries its metadata
by one that does not, so that its own calls are refused (`RestHeaders`); a chat
is committed before `AddUsersToChat` opens a second transaction, on another pool and
without the caller's context; a publication into a breaking connection is reported as
published (`PublishLost`); a bind to an exchange that no message has declared yet fails;
messages are acknowledged when they are delivered, and what is left in the queue after
five seconds goes with it; `errChan` holds two results, and the handler that takes both
before it closes the channel is what keeps its goroutines from stopping the service.

`ImplementsFeed` is the refinement: with `log`, `seen` and the chat of each reader mapped to
`ChatFeed`, a publication that reaches its exchange is `Publish`, a client's first read `Follow`, the
end of a read's five seconds an `Answer` with what it has received, and everything else, that is queues, goroutines, errors, lost connections and
restarts, is not seen. That a client sees messages in order and none twice (`SeenInOrder`, `SeenOnce`)
follows from the feed.

### Session

Time is a bounded counter. A token has `exp`, and as history the `end` that its session
has by the login it began with; a cookie has `until` as well, its Max-Age. A request carries the cookies the
browser has when it sends it (or follows a redirect), and its answer sets cookies when it arrives,
which may be after the answer of a later request, or never.

Easy to miss: the gateway accepts a token in the second of its expiry and `auth` does
not, and this second is the only one in which a renewal happens; `Register` signs the
refresh token with the life of an access token; a redirected request of `/chats` keeps its method
and one of `/chats/.../messages` arrives as GET, which `/auth/refresh` refuses;
`AddUsers` calls `dbservice` through the gateway, which looks at the token again (`CallDb`);
`auth` sets `access_token`, the chats and timer services ask for `access-token`.

## 3. The runs

| Run | Instance | Shows |
|---|---|---|
| `registration` | 3 requests, 3 forms, 2 connections, symmetric requests | `TypeOK`, `KeysUnique`, `AccountWhole`, `ConnAccounting`, `CreatedIsSeeded`, `DeletesOwn`, `ImplementsDirectory` |
| `login` | 2 requests and 1 login; 3 requests that contend; 2 connections | `LoginTypeOK`, `SettledAccountIsFound`, `LoginIntoSeeded`, `AnsweredUnlessExhausted` |
| `timer` | `TimerService` with 2 starts, 2 ends, 2 users, 2 connections, symmetric | `ServiceTypeOK`, `Supersedes`, `ToldIsTrue`, `ClosedOnceByItsUser` |
| `timer_live` | 1 user with a running timer, 2 more starts, 1 end, 2 connections | `Answered` |
| `team` | 2 calls, 2 companies, 3 entries, a founder who may exist | `TypeOK`, `ImplementsBook`, `MembersBacked`, `ReportedAreMembers`, `ErrorsLeaveNothing`, `AnsweredUnlessCrossed` |
| `migrations` | the authorization database with its 2 files, 2 companies with the real 9 files, references and bare CREATE; 2 attempts, 2 faults | `TypeOK`, `RowsAreTrue`, `AuthReady`, `LossesAreBounded`, `CounterIsBounded`, `Recovers` |
| `chat` | 2 creations; a creation and a save; a creation and a post; 2 posts and a client that reads twice; 2 chat ids, 1 fault | `TypeOK`, `ChatsAreWhole`, `NoSendAfterClose`, `WindowIsGapless`, `ImplementsFeed`, `EverybodyIsAnswered` |
| `session` | 2 overlapping requests, lives of 1 (access), 2 (cookie), 3 (refresh), time 0 to 3, of which the last moment for one request | `TypeOK`, `SessionIsBounded`, `RenewableIsUsable`, `RequestsEnd` |
| `pools` | 3 calls, 2 databases, 4 pools, 1 fault, symmetric calls and pools | `TypeOK`, `MapIsSound` |
| `compensation` | 2 registrations, 1 connection | what section 6 describes |
| `chat_saved` | 1 creation, 1 post | what section 6 describes |
| `session_renewed` | as `session`, with both requests up to time 3 | what section 6 describes |

**Registration.** `KeysUnique`: the SELECT is not what keeps accounts apart, the
unique indexes are, and the model lets two requests pass it together.
`AccountWhole`: no failure, compensation or crash leaves a company without its
user or a user without company, in spite of the saga. `ConnAccounting`: there is
exactly one way to lose a connection. `CreatedIsSeeded`: whoever reads "created"
has a database to log in to. `DeletesOwn`: a compensation deletes the account of
its own request, and the only compensations that succeed belong to requests
which have reported success (the bug of section 6, stated as what it can and
cannot do).

**Login.** `SettledAccountIsFound`: a login is not disturbed by registrations and
compensations around it, provided its credentials match settled accounts only.
`LoginIntoSeeded`: it never leads into an unfinished database. `AnsweredUnlessExhausted`,
of logins and registrations: with every connection wait and key wait in the model there
is no deadlock until leaked connections have used up the pool. Its case is three registrations on two connections:
while two hold them, the one waiting for the other's company or user key, the third waits to begin, or to
compensate; and when two have leaked theirs, the third's compensation waits for ever, which is what the exception is
for. Two registrations are enough for a login to wait, behind both of them or behind one and a leaked connection.

**Timer.** `Supersedes`: whatever overlaps, fails or crashes, the timers that were
active when a start began are closed once its own timer exists. Two active
timers of one user are possible, and only from overlapping starts.
`ClosedOnceByItsUser`: `end_time` is never moved. `ToldIsTrue`: a user can rely on the
answer to a request that crossed no other of his until he sends the next, even if earlier
requests have failed halfway, panicked or were given up: the timer he was given is his only
active one, or he has none. Of requests that cross no such thing can be said: a
start that was given up may still close what was started after it. `Answered`: transactions that
hold all the connections, and each wait for one more for their INSERT, are a
deadlock, and the calls' contexts break it.

**Team.** `ImplementsBook`: two batches may both find that a person does not exist; the
unique indexes decide, and waiting for them does not let a duplicate through, nor a second link of
the same person. What a call has inserted is seen all at once, its users before its members, and
it reports nobody who is not in both. The book allows what the code cannot exclude: a call that stops between
its commits, and members whose users were lost by a commit that failed, which then reports nobody.
`MembersBacked`: of the two independent commits it is only a failed first one
that leaves a member without an account; a crash between them does not.
`ReportedAreMembers`: nobody is reported or mailed on the strength of a
transaction that was rolled back, be it his batch's or another's.
`ErrorsLeaveNothing`: a call that answers with an error has changed nothing (one
that answers OK without users may have). `AnsweredUnlessCrossed`: deadlocks inside one
database are broken by PostgreSQL, and the only way for a call to hang is a
cycle of waits that crosses the two databases, which PostgreSQL cannot see and
no context ends. Such a cycle is reachable: one batch has inserted ann and
waits to link bob, whose link another has inserted that waits to insert ann.

**Migrations.** `RowsAreTrue`: `Force` and `Steps` act without looking at the tables; that
a row never claims a table that is missing is what makes them safe. `AuthReady`: no
attempt, however it ended, lets calls through to a half-migrated authorization database.
`LossesAreBounded`: a down file drops data, and a repair that is itself interrupted
begins again one version lower; over the real files each interruption costs at most one
table. `CounterIsBounded`: increments may be lost, but the number in the log is never too high and
not zero when something was migrated. `Recovers`: from every sound database (`Sound`) a start without
faults reaches the last version; a dirty version 1 is not sound.

**Chat.** `ChatsAreWhole`: between two transactions and a lost answer, a chat has all its users
or none, and an OK is only heard for the former. `NoSendAfterClose`: for every order of the
two goroutines, of errors and of a lost connection. `WindowIsGapless`: from the binding of
its queue on a read misses nothing and invents nothing, also in the gap before its consumer starts.
`ImplementsFeed`: over several reads, with losses between them, what a client sees is what an
abstract feed would show it: messages in the order of their publication, none of them twice. `EverybodyIsAnswered`: no failure leaves the handler
waiting on its channel.

**Session.** `SessionIsBounded`: renewals cannot prolong a session for ever, although nothing on the server
remembers it. `RenewableIsUsable`: the refresh token and the identity of a browser always come
from one login, whatever answers overtake each other (an access token may come from
an older one). `RequestsEnd`: a redirect leads to a location that does not redirect.

**Pools.** `MapIsSound`: in spite of the missing lock, unless a data race loses an access the map never leads to a
closed pool or to another database's, and a pool is left behind only where two calls for one
database overlap.

**Bounds.** The number of requests, forms, users and calls, and the size of the
pool (25 in the code); beside them the faults of `Migrations`, `Chat` and `Pools`, the pools that `Pools` may open, the reads of a client and the time of `Session`. Two
requests that collide and a third that holds a connection or collides with
the loser are the shortest way to every interplay of keys and connections; the
three forms share an address, share an e-mail or a phone, and differ. In `login`, requests arrive in the order of
their numbers, which are only names; three of them carry the forms that contend and run without the login, for
liveness over all forms and logins at once is beyond TLC. On a pool
of two, a call that needs two connections meets another one that holds one, or that
needs two as well; `timer_live` begins with a running timer (a state that the first start reaches),
for then two more starts suffice. Two starts and two ends let a call that was given up, an end and
a start of one user overlap, and one more of another user hold a connection; three starts at once are left to
the theorems. Two batches that share a person, or only a phone,
meet in either database, in opposite orders and across both; a founder of one
company is the person whom the other's batch finds. Two faults let a repair be interrupted
itself; one broken connection meets every stage of a post and of a read, and a second
read shows what the first has left behind. In `Session` a token expires at 1 and a cookie at 2, so
that a browser meets each alone and both together; a renewal and a login in flight
are two requests. At 3 the refresh token of a first login expires: whether it is renewed beyond its end takes one
request, and only one is under way then. Three calls let one remove what a second has stored while a third
looks it up. Every row and call is used once, so that
`CHECK_DEADLOCK FALSE` is needed: a state in which all calls are over has no
successor. That no call is stuck before is what the liveness properties say.
The theorems hold for every size.

**Symmetry** is used where only safety is checked, over requests, calls, pools and
users, none of which the modules compare or order.

## 4. Fairness

`LoginSpec` and `FairSpec` are weakly fair to each call's own next step: a
goroutine that is not blocked is scheduled, and a statement that PostgreSQL can
execute ends. A registration or login is owed the step it takes when nothing fails (`Advances`,
`LoginProgress`): no failure is counted on to end a wait. The one exception is no wait: a DELETE
by the empty `companyId` cannot but fail.
A blocked step, on the pool or on a unique key, is not enabled and owes
nothing, and one that others may block again is not assumed to win: both
liveness runs hold with weak fairness alone, because calls do not come back.
In `FairSpec` failures are required only of stages whose statement has
the call's context (`HasContext`): nginx's `grpc_read_timeout`, 60 seconds by
default, ends the call and cancels the context. No call has to arrive, no crash
has to happen, and no caller has to listen.

`Team`'s `FairSpec` is weakly fair to each call's next step and, for a call in a
knot of waits inside one database (`Doomed`), to the failure of its statement:
PostgreSQL's deadlock detector ends one transaction of such a cycle. It owes
nothing to a cycle across databases. `AnsweredUnlessCrossed` excludes behaviours that have such a
cycle; like the condition on leaked connections that is a condition on the
behaviour, and it can fail.

`Migrations`: `main()` and each goroutine go on, and Docker restarts the service; no
company registers, nobody writes, and no fault has to happen. `Recovers` begins when the
faults are used up, that is, when nothing fails any more.

`Chat`: a post goes on while its handler or one of its goroutines can, whichever it is; calls of `dbservice` and
RabbitMQ return, in whatever way; a reader's steps go on, and its five seconds pass
however many messages arrive (`Timeout` has a fairness of its own, for it stays enabled).

`Session`: nginx and the services answer each request, well or badly. Time need not pass.

`AnsweredUnlessExhausted` assumes that fewer connections than
the pool has are leaked. That is not a fairness assumption but a condition on
the behaviour, and it can fail: each "the company exists" leaks one.

## 5. The proofs

TLAPS checks every theorem for arbitrary constants: any requests, forms, callers,
calls, users, entries, companies, databases, files, chats and pools, any pool size, lifetimes and
bounds. The only assumptions are those the modules name: sizes, lifetimes and bounds are
numbers; `None` is none of the requests, calls, forms, ids, pools or tokens; starts are not ends; a job is a non-empty
batch with two companies; founders do not clash; an access token lives no longer than a refresh token; the
set of databases is finite, and each has a file and references that point backwards; only the last file
of a database creates its table barely, and it does not reference the table of the file below. TLC
evaluates them in every run.

| Theorem | Property |
|---|---|
| `Registration_proofs!TypeCorrect` | `TypeOK` |
| `Registration_proofs!UniqueKeys` | `KeysUnique` |
| `Registration_proofs!WholeAccounts` | `AccountWhole` |
| `Registration_proofs!ConnectionsAccounted` | `ConnAccounting` |
| `Registration_proofs!CreatedMeansSeeded` | `CreatedIsSeeded` |
| `Registration_proofs!OnlyOwnDeletion` | `DeletesOwn` |
| `Registration_proofs!RefinesDirectory` | `ImplementsDirectory` |
| `Timer_proofs!ServiceTypeCorrect` | `ServiceTypeOK` |
| `Timer_proofs!NewTimerSupersedes` | `Supersedes` |
| `Timer_proofs!TimersCloseOnce` | `ClosedOnceByItsUser` |
| `Timer_proofs!ToldStaysTrue` | `ToldIsTrue` |
| `Timer_proofs!ServiceUsesTimers` | `ServiceSpec => Spec` |
| `Team_proofs!TypeCorrect` | `TypeOK` |
| `Team_proofs!TeamImplementsBook` | `ImplementsBook` |
| `Team_proofs!UsersAreUnique` | `UniqueUsers` and `MemberOnce` of `StaffBook` |
| `Team_proofs!MembersAreBacked` | `MembersBacked` |
| `Team_proofs!ReportedAreInBoth` | `ReportedAreMembers` |
| `Team_proofs!ErrorsAreClean` | `ErrorsLeaveNothing` |
| `Login_proofs!LoginTypeCorrect` | `LoginTypeOK` |
| `Login_proofs!LoginsAreSeeded` | `LoginIntoSeeded` |
| `Login_proofs!SettledIsFound` | `SettledAccountIsFound` |
| `Migrations_proofs!TypeCorrect` | `TypeOK` |
| `Migrations_proofs!RowsStayTrue` | `RowsAreTrue` |
| `Migrations_proofs!AuthStaysReady` | `AuthReady` |
| `Migrations_proofs!LossesStayBounded` | `LossesAreBounded` |
| `Migrations_proofs!CounterStaysBounded` | `CounterIsBounded` |
| `Chat_proofs!TypeCorrect` | `TypeOK` |
| `Chat_proofs!ChatsStayWhole` | `ChatsAreWhole` |
| `Chat_proofs!NeverSendsAfterClose` | `NoSendAfterClose` |
| `Chat_proofs!WindowStaysGapless` | `WindowIsGapless` |
| `Chat_proofs!ChatsImplementFeed` | `ImplementsFeed` |
| `Chat_proofs!ClientsSeeInOrder` | `SeenInOrder` and `SeenOnce` of `ChatFeed` |
| `Session_proofs!TypeCorrect` | `TypeOK` |
| `Session_proofs!SessionsEnd` | `SessionIsBounded` |
| `Session_proofs!RenewableStaysUsable` | `RenewableIsUsable` |
| `Pools_proofs!TypeCorrect` | `TypeOK` |
| `Pools_proofs!MapStaysSound` | `MapIsSound` |

Liveness itself is out of the prover's reach. What it rests on is not, and is proved: that
somebody can always go on, and that going on leads somewhere. These theorems state no property of
a run, for they are the halves of the arguments behind the liveness properties that TLC checks.

| Theorem | Says | Behind |
|---|---|---|
| `Registration_proofs!NoDeadlock` | unless leaks have exhausted the pool, some running registration waits for nothing | `AnsweredUnlessExhausted` |
| `Registration_proofs!CallsMoveForward` | no registration comes back to a point it has left | the same |
| `Registration_proofs!ExhaustionIsForGood` | the connections that are out never exceed the pool; once leaks have taken them all, no step but a crash hands one out | the exception it makes |
| `Login_proofs!LoginsLeaveRegistration` | `LoginSpec => Spec`: logins only read | what holds of registrations holds beside logins |
| `Login_proofs!NoLoginDeadlock` | `NoDeadlock`, of registrations and logins together | `AnsweredUnlessExhausted` |
| `Login_proofs!LoginsMoveForward` | neither comes back to a point it has left | the same |
| `Timer_proofs!OnlySecondConnectionDeadlocks` | when all running calls wait, one waits for the connection of its INSERT and has a deadline | `Answered` |
| `Timer_proofs!CallsMoveForward` | no call comes back to a point it has left | the same |
| `Team_proofs!OnlyCrossedStandStill` | when all running batches wait, PostgreSQL sees a deadlock, or they cross the two databases | `AnsweredUnlessCrossed` |
| `Team_proofs!OnlySharedMembersCross` | they cross only over somebody with an older account, whom two of them add to one company | the exception it makes |
| `Team_proofs!BatchesGoForward` | every step of a batch takes an entry off it or brings the one at hand further | `AnsweredUnlessCrossed` |
| `Chat_proofs!ResultsAlwaysCome` | a waiting handler has both results or a goroutine that is still to report, and every step of a post brings its answer nearer | `EverybodyIsAnswered` |
| `Session_proofs!RequestsWindDown` | each step takes at least one of at most five off a request, redirects included | `RequestsEnd` |
| `Migrations_proofs!DoneIsMigrated` | a success means every table and a clean row at the last version | `Recovers`, `AuthReady` |
| `Migrations_proofs!SoundIsNeverRefused` | a sound database stays on a way on which nothing is refused, unless there is a new fault | `Recovers` |
| `Migrations_proofs!JobsAdvance` | every step of a job takes it further | `Recovers` |

`Waits` in these modules says of a call that a guard of its next step speaks of a connection, key or lock
that another holds. That it is exactly when no progress of a running call is enabled was checked with TLC on the
instances of the runs, for ENABLED is out of the prover's reach.

**Registration.** `IInv` is inductive. To `TypeOK`, `AccountWhole` and
`ConnAccounting` it adds what makes the others so:

* `Arrived`: a request that has not arrived has no rows and no connection, one
  that has has a form.
* `KeysHeldUnique` strengthens `KeysUnique` from committed rows to rows that are
  committed *or held* by an open transaction. Without it the commit of an insert
  could not be known to be free of clashes: the key was checked two steps
  earlier, and it is the lock on the key that carries the check to the commit.
* `Compensation`: `companyId[r]` is `r`'s own row or empty; it is not empty when the
  compensation commits; and a request that compensates has answered OK or has it
  empty. It is what the named results leave of the compensation.
* `Seeded`: a request that has come as far as the cache, has headers in its answer
  or was heard as created has a seeded database.

`CreatedIsSeeded` follows from `Seeded` and what `callRegisterCompany` accepts as success. `OnlyOwnDeletion` and `RefinesDirectory` are step
properties: each action either leaves the accounts alone, or is a commit (`Open`,
which `KeysHeldUnique` shows not to clash) or a compensation (`Close`, by
`Compensation`).

`NoDeadlock` goes along the order in which a registration takes its locks: the key of the company, then those of
the user, then the commit. Who waits for a company's key waits for somebody who is past that point; who
waits for a user's key waits for somebody at the commit or in a compensation, who holds his connection and waits for
nothing; and while a connection is neither free nor leaked, it is held by one of these. The pool is finite, so that
`FS_` facts on cardinalities tell a full pool from a leaked one. `ExhaustionIsForGood` is the other side:
a leaked connection belongs to an answer that is given (`ConnAccounting`), and no later step of anybody returns it.

**Timer.** `IInv` adds to `TypeOK` and `Supersedes`:

* `Inserted`: a row exists only at the end of its start, so that only a transaction's
  commit is still to come when there is something to supersede.
* `Owned`: the rows in `seen`, `closing` and `known` exist and belong to the call's user.
* `Fresh`: only an open transaction that has done its UPDATE has closed rows, and
  only a finished call an answer.
* `Locked`: rows closed by an open transaction are open for everybody else, and no
  two transactions have one in common. It is why the commit cannot move an `end_time`.
* `Covered`, the heart: what a call knew from its beginning and is still active is
  in the snapshot of its UPDATE in progress, and nothing of it is active before
  the call inserts or begins its transaction. It is what survives a failing or
  waiting UPDATE, up to the moment the new row appears outside of the
  transaction.

For `TimerService`, `SInv` adds to `IInv` and `ToldIsTrue`:

* `Before`, `Named`: a call does not know its own timer, a timer that is not there is
  not closed, and an answer names no timer but the call's own, which is there.
* `Sent`, `Apart`: a call that is waited for and has crossed no other is the only one under
  way for its user.
* `Only`, the heart: while it is, that user's active timers are ones that it knew when it began, or its own;
  it closes none but those, and nobody closes its own. With `Supersedes` its answer is the whole truth.
* `Quiet`: who has been told anything has no call under way that could make it untrue.

`ServiceUsesTimers` then hands `NewTimerSupersedes` and `TimersCloseOnce` on to the service.

`OnlySecondConnectionDeadlocks`: the waits are for the locks of rows and for connections. Who holds
locked rows has a transaction, and with it a connection; it next needs its INSERT's, or commits. A standstill
without anybody who wants the second connection would have to be one of row locks alone, and a transaction that
holds those waits for no row.

**Team.** `IInv` adds to `TypeOK` and the three other invariants, all of which are needed
(`ReportedAreMembers` speaks of answers, which come from `Batched`):

* `KeysHeldUnique`: as for registrations, over committed and open inserts. `Own` is what
  a batch contributes: its transaction sees its own inserts, so that what it is about to
  insert clashes with none of them, and other transactions' are excluded by the wait.
* `Backed`: a row that is linked, or about to be, is committed or the call's own; after the
  first commit the call's own rows are committed, or its `txErr` is set.
* `Batched`: every entry of the batch that is no longer to do has an account that is
  linked (`Handled`), or is at hand. It passes through the first commit, unless
  that fails, and the second makes `ReportedAreMembers` of it.
* `Unseen`: before a commit, nothing of the call is in that database. It gives
  `ErrorsLeaveNothing`, for no error is returned after the first commit.
* `Local`: what a stage knows of the locals.
* `Ended`: only a running call has open inserts, so that whoever is waited for is running.

`BookInv` adds what the book asks of a member and `IInv` does not say:

* `Whole`: what a call links is committed or will be with it, or its first commit has left *none* of its users.
  `Backed` says that of each row alone; that the loss is of all of them is what makes it one step of the book.
* `LinkedOnce`: what an open transaction links is not linked, and no other is linking it. The SELECT of `IsMember`
  is older than that: it is the wait on the unique column, and the check that follows it, that make it true.

`TeamImplementsBook` then has three lemmas: a first commit is `Enter` (which `KeysHeldUnique` of the state it leads to shows not to
clash, and `Unseen` to be the call's only one), a second is `Confirm` (what it reports is in both by `ReportedAreMembers`
of that state), and all other steps, with waits, aborts, crashes and mails, are not seen: a call has
no users in its answer before it is done.

`Ended` makes `OnlyCrossedStandStill` of the definitions of `Doomed` and `Crossed`: in a standstill the running calls
are themselves a knot. `OnlySharedMembersCross` takes a crossing apart: it is no knot in either database alone,
so that it has a wait in each. A call that waits to link a person whom another has linked, and that itself waits, has
the row from neither: by `Own`, `Backed` and `Unseen` it was committed by a third or was always there.

**Login.** The invariant of `Registration` is used as it is: `LoginStepsNext` says that every step of
`LoginNext` is one of registration or leaves its variables alone. `Lasting` is what such
a step leaves to the logins: staff and forms stay, what is over is over, and a company
goes only with a request that has answered OK. On it rest

* `Entered`: a login that has found its company finds it later, or its
  registration is over and had reported success.
* `SettledStands`: the accounts of `settled` are there for good. This is why a read that
  follows another by any time still finds them.
* `Excused`: a login that reports no user has seen that no settled account matches, and
  one that reports no company had a row in hand that matches and is not settled.

**Migrations.** Beside `RowsAreTrue`, `IInv` has `Marked`: what a job has found or done in its
database (a row is dirty while a file runs; before the last statement of a step its tables are there),
and `AuthDone`: once the authorization database's job is done it stays migrated, for nobody
else works on it. `CounterIsBounded` has an invariant of its own, `Counting`: what a goroutine has loaded
is at most the number of goroutines that have stored; and the number stored by the last of them is at least one.
`LossesAreBounded` has `Paying`. A refused bare file is what makes it hard: every start then repairs, and drops
a table, without an interruption of its own. `Doomed` is the table that those repairs drop, always
the same one; it is charged in advance to the interruption that left the bare table without a clean row. `Owes` says when a
repair may still drop another: only after an interruption that no table was lost to. `RefusedIsBare` and `RefusedOwes`
show that nothing else is refused in a way that starts this over; both rest on what the files are (`BareAssumption`).
`OnTrack` carries `Sound` through the middle of a migration, stage by stage: after the repair's Force exactly
the tables of the lower versions are there, so that nothing references the one that is dropped; on the way up the tables that
a file references are there, for references point backwards and `RowsAreTrue`, and a bare file does not meet its own table.
`Travelled` is the distance: the repair comes before all files, and each file counts three.

**Pools.** `Mapped`: a pool in the map was opened for its key. `Hand`: so was a
pool in a call's hand. `Unstored`: a pool that is about to be stored is open and nobody else knows it, so that
nobody can have closed it. `Removed`: a pool that is about to be closed is no longer in the
map. `Alone` and `InStep`: over a key that is not crossed there is one call, and what it
has read is still so; they give the second half of `MapIsSound`.

**Session.** `Bounded` strengthens `SessionIsBounded`: a refresh token leaves room for the life of one more
access token, so that a renewal stays inside. `Paired` is `RenewableIsUsable` for the cookies of an answer.
`StepsLeft` counts five steps for a request that may be redirected and four for one at the location it is redirected to.

**Chat.** Four invariants, one for each group of variables. `CInv`: `Given` (an id belongs to one creation, and
nothing is known of an id that was not given out) and `Staged` (what a stage knows). `PInv`:
`Results`, the heart of `NoSendAfterClose`: while the handler waits, `errChan` holds as many results as
goroutines have sent, so that the second result it takes is the last there will be.
`RInv`: `Tuned` and `Gapless`, by which received and waiting messages are the log since the binding.
`SInv`: what a client saw in earlier reads was placed in the log before the binding of its current
queue; what the current read shows follows behind it, by `RInv`. The two halves are what the feed asks of an
answer. `LInv` is what it asks of a publication: a message that was published is that of a post
which has been routed (`Logged`), and stands once in one log (`LoggedOnce`). `ChatsImplementFeed` then has a lemma for each of the steps
that the feed sees, and one for all others; `ClientsSeeInOrder` follows from the same invariants.
`ResultsAlwaysCome`: by `Results`, a handler that waits has both results in `errChan`, or one of its goroutines is still to
report: none of the ways in which they end is silent.

**Only model-checked:** the liveness properties, `AnsweredUnlessExhausted`, `Answered`, `AnsweredUnlessCrossed`,
`Recovers`, `EverybodyIsAnswered` and `RequestsEnd`, which TLAPS does not reach; their halves are proved as the
table says. Every invariant, every action property and all three refinements of the passing runs have a theorem.

## 6. Where documentation and code differ

Each of these runs checks one statement of the documentation, and TLC finds a
behaviour of the code that violates it.

* `compensation`: "with rollback on errors" (README.md:532). An error after the
  first commit is either not compensated, or with an id that is already empty:
  the account stays, its address and e-mail are taken, and it leads to no
  database.
* `chat_saved`: `SendMessage` "saves the message in the database" (README.md:222). Its
  call of `SaveMessage` has lost the metadata (handler.go:282) and is refused, while the
  message is published.
* `session_renewed`: `/auth/refresh` serves "to prolong the session without a new login"
  (README.md:185). The gateway asks for a valid access token there too
  (nginx.conf:66), so a browser that needs a renewal does not get one.

## 7. What is not modelled

* The contents of the cache: the keys that are read (`name + "Register"`, the
  login without a user id) are never the keys that are written, so `Get` never
  hits. The models have its answer and its errors.
* In `Registration`, the creation and migration of a company's database are one step that
  succeeds or fails; `Migrations` has its parts.
* `ChangeTimerDB` and `AddTimerDB`: no REST route leads to them, and their SQL fails before it changes
  anything. `GetWorkingTimerDB` changes nothing. `publishToRabbitMQ` of the chats service: the call before it is always refused.
* The consumers of `email_tasks`: no service of the repository publishes to the queue. One
  SMTP call per task, acknowledged on delivery.
* In `Team`, the pools: no call waits for a connection of one database while it
  holds one of another that somebody needs in the opposite order; the authorization
  database always comes first. That registrations have leaked the connections of that
  pool is one more way for a batch to hang, beside the one of `AnsweredUnlessCrossed`: it is `Registration`'s.
* In `Chat`, that RabbitMQ may hand the publications of different channels to different queues in
  different orders. A publication is one step for all queues, so that all readers of a chat share one `log`; RabbitMQ
  promises an order for each channel and queue only. The run has one reader, to whom this makes no difference;
  what the theorems say of several readers assumes it.
* Logging, TLS, generated code: no state that others read. The
  only effect of a failing log service is a printed line.
* Values: names, times and amounts are model values; only their equality
  matters. Hashing and formatting are left out.

Most of the repository's lines are none of this: about 12,700 of the 21,500 lines of
implementation are generated gRPC code, and much of the rest is a copy of the same utilities
(logging, TLS, gRPC dialling, JSON helpers) in each service. The share of lines that
definitions stand for is small for that reason.

**Known divergences that no run shows.** They were met while modelling; where
they change state the models do what the code does.

* A registration whose last step, the cache, fails is answered "registration
  successful" and compensated all the same (dbauth.go:565).
* The cookies `user-id` and `company-id` carry each other's value after a
  registration (dbauth.go:314).
* A start of a timer that fails halfway has closed the old timer and opened none (dbtimer.go:248).
* A panic is answered OK (RecoveryInterceptor.go:21): its code is that of an error which is nil. In `StartTimerDB`, `err.Error()`
  after a successful rollback panics (dbtimer.go:279).
* A user who exists already is mailed the default password, with which he cannot log in (dbadmin.go:178).
* The chats and timer services ask for a cookie `access-token`, `auth` sets `access_token` (chats handler.go:62,
  timer handler.go:49): no browser gets past them. `chat_client` sends no cookies at all.
* `Register` signs its refresh token as an access token (auth handler.go:479).
* A dirty version 1 is forced to 0, from which no start recovers (migration.go:102), and a repair undoes one
  version too many; connections of the migration library are never returned (migration.go:50).
* The chats service opens its AMQP connection once (chats main.go:64); after it breaks every request fails
  until a restart. A failed `QueueBind` leaves its queue behind (chats handler.go:579), and once the channel of
  messages is closed the read spins until its five seconds are over (handler.go:628).
* A failure of the database is reported as one of RabbitMQ when it is the first error in the channel. The chat of
  a message is named twice, in the URL and in the body, and nothing compares the two.
* `GET /timer/get-working-timer` "returns the data of the active timer" (README.md:261-263). The gateway's list of gRPC
  methods lacks `GetWorkingTimerDB` (nginx.conf:186), its statement is a SELECT with RETURNING, which PostgreSQL refuses,
  and after the error the handler goes on and reads the nil response (timer handler.go:302).
* A start of a timer that nginx has given up goes on, and may close a timer that the user has started since (dbtimer.go:248).
* The cache's expiration is in seconds for its callers and in nanoseconds for the service (redis main.go:32).
* A token may expire between the gateway and the handler's own call through the gateway (admin handler.go:149):
  the request has then passed and fails.

## 8. Plan

Done: all the modules that were planned, with the proofs of each.

Left, in this order:

1. The composition of `Team` with `Login`: what the login of a new member needs. Both
   read the same rows; each is checked alone so far.
2. The pools of `Pools` under `Registration` and `Timer`, whose pool is one set of connections.
