----------------------------- MODULE Migrations -----------------------------
(* Schema migrations of dbservice.  At every start dbservice migrates the    *)
(* authorization database, with retries, and stops if it cannot; then all    *)
(* companies' databases, one goroutine each; then it serves, and registers   *)
(* companies whose databases it creates and migrates.  It may stop at any    *)
(* point and is started again.                                               *)
(*                                                                           *)
(* golang-migrate is external.  It keeps one row (version, dirty) in each    *)
(* database: a step writes the version it leads to as dirty, runs the file,  *)
(* and writes the version again as clean.                                    *)
EXTENDS Integers, FiniteSets

CONSTANTS
    Database,     \* databases of the PostgreSQL server
    AuthDb,       \* the authorization database, the others are companies'
    Last,         \* Last[d]: the number of migration files for d
    Needs,        \* Needs[d]: <<v, u>> when the table of file v references that of u
    Bare,         \* Bare[d]: files that CREATE TABLE without IF NOT EXISTS
    Begin,        \* Begin[d]: versions at which an earlier release left d
    Attempts,     \* maxAttempts of initDB
    MaxFaults     \* bound on crashes and database errors

Company == Database \ {AuthDb}
File(d) == 1 .. Last[d]
NilVersion == -1      \* no row: nothing was ever migrated
Absent == -2          \* in Begin: the database does not exist yet

ASSUME MigrationsAssumption ==
    /\ IsFiniteSet(Database) /\ AuthDb \in Database
    /\ Last \in [Database -> Nat \ {0}]
    /\ \A d \in Database :
          /\ \A need \in Needs[d] : need \in File(d) \X File(d) /\ need[2] < need[1]
          /\ Bare[d] \subseteq File(d)
          /\ Begin[d] \subseteq {Absent, NilVersion} \cup File(d)
    /\ Attempts \in Nat \ {0}
    /\ MaxFaults \in Nat

\* The one bare CREATE TABLE is in the last file, which does not reference the
\* table of the file below.
ASSUME BareAssumption ==
    \A d \in Database :
        /\ Bare[d] \subseteq {Last[d]}
        /\ Bare[d] # {} => <<Last[d], Last[d] - 1>> \notin Needs[d]

VARIABLES
    made,       \* databases that exist
    version, dirty,  \* the row of each database
    exists,     \* tables of each database, named by the file that creates them
    rows,       \* tables that hold rows
    lost,       \* tables whose rows a down file has dropped (history)
    hits,       \* interruptions of a step of each database (history)
    phase,      \* where main() is
    attempt,    \* initDB's loop variable
    job,        \* where Migration() is in each database
    counter, loaded,  \* *counter and what each goroutine has read of it
    faults      \* crashes and errors so far

schema == <<version, dirty, exists, rows, lost>>
vars == <<made, schema, hits, phase, attempt, job, counter, loaded, faults>>

Phase == {"down", "auth", "companies", "serving"}
Stage == {"idle", "read", "force", "down", "drop", "dropped", "up", "create",
          "created", "count", "store", "done", "failed"}
Working == Stage \ {"idle", "done", "failed"}

TypeOK ==
    /\ made \subseteq Database
    /\ version \in [Database -> Int]
    /\ \A d \in Database : version[d] \in NilVersion .. Last[d]
    /\ dirty \in [Database -> BOOLEAN]
    /\ exists \in [Database -> SUBSET Nat]
    /\ rows \in [Database -> SUBSET Nat]
    /\ lost \in [Database -> SUBSET Nat]
    /\ \A d \in Database : rows[d] \subseteq exists[d] /\ exists[d] \subseteq File(d)
    /\ hits \in [Database -> Nat]
    /\ phase \in Phase
    /\ attempt \in 1 .. Attempts
    /\ job \in [Database -> Stage]
    /\ counter \in Nat
    /\ loaded \in [Database -> Nat]
    /\ faults \in 0 .. MaxFaults

Init ==
    \E v \in [Database -> {Absent, NilVersion} \cup UNION {File(d) : d \in Database}] :
        /\ \A d \in Database : v[d] \in Begin[d]
        /\ made = {d \in Database : v[d] # Absent}
        /\ version = [d \in Database |-> IF v[d] = Absent THEN NilVersion ELSE v[d]]
        /\ dirty = [d \in Database |-> FALSE]
        /\ exists = [d \in Database |-> {f \in File(d) : f <= v[d]}]
        /\ rows = exists
        /\ lost = [d \in Database |-> {}]
        /\ hits = [d \in Database |-> 0]
        /\ phase = "down"
        /\ attempt = 1
        /\ job = [d \in Database |-> "idle"]
        /\ counter = 0
        /\ loaded = [d \in Database |-> 0]
        /\ faults = 0

-----------------------------------------------------------------------------
(* golang-migrate, in one database. *)

Prev(v) == IF v = 1 THEN NilVersion ELSE v - 1
Succ(v) == IF v = NilVersion THEN 1 ELSE v + 1

\* The row is replaced in a transaction of its own.
SetVersion(d, v, isDirty) ==
    /\ version' = [version EXCEPT ![d] = v]
    /\ dirty' = [dirty EXCEPT ![d] = isDirty]

Goto(d, stage) == job' = [job EXCEPT ![d] = stage]
Referenced(d, f) == \E g \in exists[d] : <<g, f>> \in Needs[d]
CanCreate(d, f) ==
    IF f \in exists[d] THEN f \notin Bare[d]
                       ELSE \A g \in File(d) : <<f, g>> \in Needs[d] => g \in exists[d]

process == <<made, hits, phase, attempt, counter, loaded, faults>>

\* A job of the start-up counts a success, one of initDB or a registration
\* does not.
Succeeded(d) == IF phase = "companies" THEN "count" ELSE "done"

\* m.Version(), and what Migration makes of its answer.
ReadVersion(d) ==
    /\ job[d] = "read"
    /\ Goto(d, IF version[d] # NilVersion /\ dirty[d] THEN "force" ELSE "up")
    /\ UNCHANGED <<process, schema>>

\* Mutant: the dirty version itself is forced.
ForceSame(d) ==
    /\ job[d] = "force"
    /\ SetVersion(d, version[d], FALSE)
    /\ Goto(d, "down")
    /\ UNCHANGED <<process, exists, rows, lost>>

\* m.Force(version - 1): the version below, clean, whatever the tables are.
ForceBelow(d) ==
    /\ job[d] = "force"
    /\ SetVersion(d, version[d] - 1, FALSE)
    /\ Goto(d, "down")
    /\ UNCHANGED <<process, exists, rows, lost>>

\* m.Steps(-1) refuses a version without a file: after Force(0).
DownRefused(d) ==
    /\ job[d] = "down"
    /\ version[d] \notin File(d)
    /\ Goto(d, "failed")
    /\ UNCHANGED <<process, schema>>

DownMark(d) ==
    /\ job[d] = "down"
    /\ version[d] \in File(d)
    /\ SetVersion(d, Prev(version[d]), TRUE)
    /\ Goto(d, "drop")
    /\ UNCHANGED <<process, exists, rows, lost>>

\* The down file: DROP TABLE IF EXISTS, refused while another table references it.
Drop(d) ==
    LET f == Succ(version[d])
    IN  /\ job[d] = "drop"
        /\ ~ Referenced(d, f)
        /\ exists' = [exists EXCEPT ![d] = @ \ {f}]
        /\ rows' = [rows EXCEPT ![d] = @ \ {f}]
        /\ lost' = [lost EXCEPT ![d] = @ \cup (rows[d] \cap {f})]
        /\ Goto(d, "dropped")
        /\ UNCHANGED <<process, version, dirty>>

DropRefused(d) ==
    /\ job[d] = "drop"
    /\ Referenced(d, Succ(version[d]))
    /\ Goto(d, "failed")
    /\ UNCHANGED <<process, schema>>

\* Mutants: every version is undone, not one; and the process stops there.
DownCleanAll(d) ==
    /\ job[d] = "dropped"
    /\ SetVersion(d, version[d], FALSE)
    /\ Goto(d, IF version[d] = NilVersion THEN "up" ELSE "down")
    /\ UNCHANGED <<process, exists, rows, lost>>
DownCleanOnly(d) ==
    /\ job[d] = "dropped"
    /\ SetVersion(d, version[d], FALSE)
    /\ Goto(d, "done")
    /\ UNCHANGED <<process, exists, rows, lost>>

DownClean(d) ==
    /\ job[d] = "dropped"
    /\ SetVersion(d, version[d], FALSE)
    /\ Goto(d, "up")
    /\ UNCHANGED <<process, exists, rows, lost>>

\* m.Up() refuses a dirty database and a version without a file, ...
UpRefused(d) ==
    /\ job[d] = "up"
    /\ dirty[d] \/ version[d] = 0
    /\ Goto(d, "failed")
    /\ UNCHANGED <<process, schema>>

\* ... has nothing left to do (ErrNoChange is no error here), ...
UpEnd(d) ==
    /\ job[d] = "up"
    /\ ~ dirty[d] /\ version[d] = Last[d]
    /\ Goto(d, Succeeded(d))
    /\ UNCHANGED <<process, schema>>

\* ... or takes the next file.
UpMark(d) ==
    /\ job[d] = "up"
    /\ ~ dirty[d] /\ version[d] \notin {0, Last[d]}
    /\ SetVersion(d, Succ(version[d]), TRUE)
    /\ Goto(d, "create")
    /\ UNCHANGED <<process, exists, rows, lost>>

Create(d) ==
    /\ job[d] = "create"
    /\ CanCreate(d, version[d])
    /\ exists' = [exists EXCEPT ![d] = @ \cup {version[d]}]
    /\ Goto(d, "created")
    /\ UNCHANGED <<process, version, dirty, rows, lost>>

CreateRefused(d) ==
    /\ job[d] = "create"
    /\ ~ CanCreate(d, version[d])
    /\ Goto(d, "failed")
    /\ UNCHANGED <<process, schema>>

UpClean(d) ==
    /\ job[d] = "created"
    /\ SetVersion(d, version[d], FALSE)
    /\ Goto(d, "up")
    /\ UNCHANGED <<process, exists, rows, lost>>

Step(d) ==
    \/ ReadVersion(d) \/ ForceBelow(d)
    \/ DownRefused(d) \/ DownMark(d) \/ Drop(d) \/ DropRefused(d) \/ DownClean(d)
    \/ UpRefused(d) \/ UpEnd(d) \/ UpMark(d) \/ Create(d) \/ CreateRefused(d) \/ UpClean(d)

-----------------------------------------------------------------------------
(* Database errors: each is a fault.  A statement that was executed but whose *)
(* answer was lost leaves the state in which the next stage's statement fails. *)

Fault == faults < MaxFaults /\ faults' = faults + 1

\* Between the statement that makes the row dirty and the one that cleans it.
Interrupted(d) == job[d] \in {"drop", "dropped", "create", "created"}

\* The logs service cannot be reached, the version cannot be read (then Up is
\* tried), or a statement fails.
ReadFails(d) ==
    /\ job[d] = "read"
    /\ Fault
    /\ \E stage \in {"up", "failed"} : Goto(d, stage)
    /\ UNCHANGED <<made, schema, hits, phase, attempt, counter, loaded>>

StatementFails(d) ==
    /\ job[d] \in {"force", "down", "drop", "dropped", "up", "create", "created"}
    /\ Fault
    /\ hits' = [hits EXCEPT ![d] = IF Interrupted(d) THEN @ + 1 ELSE @]
    /\ Goto(d, "failed")
    /\ UNCHANGED <<made, schema, phase, attempt, counter, loaded>>

-----------------------------------------------------------------------------
(* main() of dbservice. *)

\* log.Fatalf: the process ends, and Docker starts it again.
Fatal == phase' = "down"

\* CreateInsideDB: the authorization database is there, or is created.
Start ==
    /\ phase = "down"
    /\ phase' = "auth"
    /\ made' = made \cup {AuthDb}
    /\ attempt' = 1
    /\ job' = [d \in Database |-> IF d = AuthDb THEN "read" ELSE "idle"]
    /\ counter' = 0
    /\ UNCHANGED <<schema, hits, loaded, faults>>

\* The server, or the database in ten checks, is not ready.
StartFails ==
    /\ phase = "auth" /\ job[AuthDb] = "read"
    /\ Fault
    /\ Fatal
    /\ Goto(AuthDb, "idle")
    /\ UNCHANGED <<made, schema, hits, attempt, counter, loaded>>

\* Mutant: one attempt too many.
RetryAuthOnceMore ==
    /\ phase = "auth" /\ job[AuthDb] = "failed"
    /\ IF attempt <= Attempts
          THEN attempt' = attempt + 1 /\ Goto(AuthDb, "read") /\ UNCHANGED phase
          ELSE Fatal /\ Goto(AuthDb, "idle") /\ UNCHANGED attempt
    /\ UNCHANGED <<made, schema, hits, counter, loaded, faults>>

\* Mutant: the last attempt is logged, and the service starts all the same.
RetryAuthThenGo ==
    /\ phase = "auth" /\ job[AuthDb] = "failed"
    /\ IF attempt < Attempts
          THEN attempt' = attempt + 1 /\ Goto(AuthDb, "read")
          ELSE Goto(AuthDb, "done") /\ UNCHANGED attempt
    /\ UNCHANGED <<made, schema, hits, phase, counter, loaded, faults>>

RetryAuth ==
    /\ phase = "auth" /\ job[AuthDb] = "failed"
    /\ IF attempt < Attempts
          THEN attempt' = attempt + 1 /\ Goto(AuthDb, "read") /\ UNCHANGED phase
          ELSE Fatal /\ Goto(AuthDb, "idle") /\ UNCHANGED attempt
    /\ UNCHANGED <<made, schema, hits, counter, loaded, faults>>

\* GetDatabasesToMigrate names every other database; a goroutine for each.
MigrateCompanies ==
    /\ phase = "auth" /\ job[AuthDb] = "done"
    /\ phase' = "companies"
    /\ job' = [d \in Database |-> IF d \in made \cap Company THEN "read" ELSE job[d]]
    /\ UNCHANGED <<made, schema, hits, attempt, counter, loaded, faults>>

ListFails ==
    /\ phase = "auth" /\ job[AuthDb] = "done"
    /\ Fault
    /\ Fatal
    /\ Goto(AuthDb, "idle")
    /\ UNCHANGED <<made, schema, hits, attempt, counter, loaded>>

\* Mutant: the counter is given to the goroutines by value.
CountStoreByValue(d) ==
    /\ job[d] = "store"
    /\ loaded' = [loaded EXCEPT ![d] = 0]
    /\ Goto(d, "done")
    /\ UNCHANGED <<made, schema, hits, phase, attempt, counter, faults>>

\* *counter++ is a load and a store, with nothing between the goroutines.
CountLoad(d) ==
    /\ job[d] = "count"
    /\ loaded' = [loaded EXCEPT ![d] = counter]
    /\ Goto(d, "store")
    /\ UNCHANGED <<made, schema, hits, phase, attempt, counter, faults>>

CountStore(d) ==
    /\ job[d] = "store"
    /\ counter' = loaded[d] + 1
    /\ loaded' = [loaded EXCEPT ![d] = 0]
    /\ Goto(d, "done")
    /\ UNCHANGED <<made, schema, hits, phase, attempt, faults>>

\* wg.Wait(): a company that could not be migrated is logged, no more.
Serve ==
    /\ phase = "companies"
    /\ \A d \in Company : job[d] \notin Working
    /\ phase' = "serving"
    /\ UNCHANGED <<made, schema, hits, attempt, job, counter, loaded, faults>>

\* createClientDatabase: a registration creates and migrates a database.
Register(d) ==
    /\ phase = "serving"
    /\ d \in Company \ made
    /\ made' = made \cup {d}
    /\ Goto(d, "read")
    /\ UNCHANGED <<schema, hits, phase, attempt, counter, loaded, faults>>

\* The services write to the tables of the databases.
Write(d) ==
    /\ phase = "serving"
    /\ d \in made
    /\ job[d] \notin Working
    /\ rows[d] # exists[d]
    /\ rows' = [rows EXCEPT ![d] = exists[d]]
    /\ UNCHANGED <<made, version, dirty, exists, lost, hits, phase, attempt,
                   job, counter, loaded, faults>>

Crash ==
    /\ phase # "down"
    /\ Fault
    /\ Fatal
    /\ hits' = [d \in Database |-> IF Interrupted(d) THEN hits[d] + 1 ELSE hits[d]]
    /\ job' = [d \in Database |-> "idle"]
    /\ loaded' = [d \in Database |-> 0]
    /\ UNCHANGED <<made, schema, attempt, counter>>

-----------------------------------------------------------------------------
Count(d) == CountLoad(d) \/ CountStore(d)
Main == Start \/ RetryAuth \/ MigrateCompanies \/ Serve

Next ==
    \/ Main
    \/ \E d \in Database : Step(d) \/ Count(d) \/ ReadFails(d) \/ StatementFails(d)
    \/ StartFails \/ ListFails \/ Crash
    \/ \E d \in Company : Register(d)
    \/ \E d \in Database : Write(d)

Spec == Init /\ [][Next]_vars

\* main() and its goroutines go on, and Docker restarts the service.  Nobody
\* has to register a company or write, and nothing has to fail.
FairSpec ==
    /\ Spec
    /\ WF_vars(Main)
    /\ \A d \in Database : WF_vars(Step(d) \/ Count(d))

-----------------------------------------------------------------------------
(* Properties. *)

\* What a row promises: a clean version has all its tables, a dirty one all but
\* its own.  Migration relies on it when it forces the version below a dirty
\* one without looking at the tables; it survives every order of crashes,
\* refused files and retries.
RowIsTrue(d) ==
    LET complete == IF dirty[d] THEN version[d] - 1 ELSE version[d]
    IN  1 .. complete \subseteq exists[d]
RowsAreTrue == \A d \in Database : RowIsTrue(d)

\* Calls are only served over a completely migrated authorization database,
\* whatever failed on the way.
AuthReady ==
    phase \in {"companies", "serving"} =>
        /\ AuthDb \in made
        /\ version[AuthDb] = Last[AuthDb] /\ ~ dirty[AuthDb]
        /\ File(AuthDb) = exists[AuthDb]

\* Rows are only lost to interruptions, one table for each: a repair that is
\* refused and starts again further down does not go on dropping tables.
LossesAreBounded == \A d \in Database : Cardinality(lost[d]) <= hits[d]

\* The number of migrated databases that the start-up logs is never too high,
\* and not 0 when one was migrated, though increments of concurrent goroutines
\* may be lost.
CounterIsBounded ==
    phase = "companies" =>
        LET counted == {d \in Company : job[d] = "done"}
        IN  counter <= Cardinality(counted) /\ (counted # {} => counter >= 1)

Migrated(d) == version[d] = Last[d] /\ ~ dirty[d] /\ exists[d] = File(d)

\* A database from which Migration finds a way to the last version: its row is
\* clean or one version too high, and no bare file would meet its own table.
Sound(d) ==
    IF dirty[d] THEN version[d] >= 2 /\ exists[d] = 1 .. (version[d] - 1)
    ELSE version[d] # 0 /\ \A f \in Bare[d] : f \in exists[d] => f <= version[d]

\* When nothing fails any more, a start brings every sound database to its last
\* version, provided the authorization database is sound too.
Recovers ==
    \A d \in Database :
        (phase = "down" /\ faults = MaxFaults /\ d \in made /\ Sound(d) /\ Sound(AuthDb))
            ~> (phase = "serving" /\ Migrated(d))
=============================================================================
