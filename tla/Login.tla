-------------------------------- MODULE Login --------------------------------
(***************************************************************************)
(* LoginDB and checkUser of dbservice/dbauthservice, beside registration.  *)
(* A login reads a user, then the user's company, then the company's own   *)
(* database, each in a statement of its own on a connection it takes from  *)
(* the pool and gives back: registrations commit, compensate and leak      *)
(* connections between the reads.                                          *)
(***************************************************************************)
EXTENDS Registration

CONSTANTS
    Caller,     \* the calls of LoginDB
    Credential  \* what they may carry: an e-mail, a phone and a password

ASSUME CallerAssumption == Caller \cap Request = {}
ASSUME FormAssumption == None \notin Form

VARIABLES
    cred,     \* the credentials of each login
    at,       \* the call each login makes next
    row,      \* the authusers row it has read
    outcome,  \* what LoginDB returns
    settled   \* history: the accounts that stood, registered, at its start

loginVars == <<cred, at, row, outcome, settled>>
allVars == <<vars, loginVars>>

LoginStages == {"idle", "redisGet", "user", "company", "staff", "done"}
Outcomes == {"pending", "ok", "noUser", "noCompany", "noStaff", "failed"}

LoginTypeOK ==
    /\ cred \in [Caller -> Credential \cup {None}]
    /\ at \in [Caller -> LoginStages]
    /\ row \in [Caller -> Request \cup {None}]
    /\ outcome \in [Caller -> Outcomes]
    /\ settled \in [Caller -> SUBSET Request]

LoginInit ==
    /\ Init
    /\ cred = [l \in Caller |-> None]
    /\ at = [l \in Caller |-> "idle"]
    /\ row = [l \in Caller |-> None]
    /\ outcome = [l \in Caller |-> "pending"]
    /\ settled = [l \in Caller |-> {}]

-----------------------------------------------------------------------------
MoveTo(l, stage) == at' = [at EXCEPT ![l] = stage]

Finish(l, result) ==
    /\ outcome' = [outcome EXCEPT ![l] = result]
    /\ MoveTo(l, "done")
    /\ UNCHANGED <<cred, row, settled>>

\* WHERE (email = $1 OR phone = $2) AND password = $3
Matches(c, q) ==
    /\ form[q].email = c.email \/ form[q].phone = c.phone
    /\ form[q].password = c.password

StartLogin(l) ==
    /\ at[l] = "idle"
    /\ \E c \in Credential : cred' = [cred EXCEPT ![l] = c]
    /\ settled' = [settled EXCEPT ![l] =
                      {q \in companies : pc[q] = "done" /\ answer[q].code = "OK"}]
    /\ MoveTo(l, "redisGet")
    /\ UNCHANGED <<row, outcome>>

\* GetDb pings the pool, which takes a connection.  Redis answers, and never
\* with a hit: the key read has no user id, the key saved at the end has one.
LoginRedisGet(l) ==
    /\ at[l] = "redisGet"
    /\ FreeConn
    /\ MoveTo(l, "user")
    /\ UNCHANGED <<cred, row, outcome, settled>>

\* The first row that matches, of those that do.
FindUser(l) ==
    /\ at[l] = "user"
    /\ FreeConn
    /\ \E q \in authusers :
           /\ Matches(cred[l], q)
           /\ row' = [row EXCEPT ![l] = q]
    /\ MoveTo(l, "company")
    /\ UNCHANGED <<cred, outcome, settled>>

\* Mutant: that no row matches is not reported.
NoUserUnreported(l) ==
    /\ at[l] = "user"
    /\ FreeConn
    /\ \A q \in authusers : ~Matches(cred[l], q)
    /\ Finish(l, None)

NoUser(l) ==
    /\ at[l] = "user"
    /\ FreeConn
    /\ \A q \in authusers : ~Matches(cred[l], q)
    /\ Finish(l, "noUser")

\* SELECT dbName FROM companies by the user's company_id.
FindCompany(l) ==
    /\ at[l] = "company"
    /\ FreeConn
    /\ IF row[l] \in companies
       THEN MoveTo(l, "staff") /\ UNCHANGED <<cred, row, outcome, settled>>
       ELSE Finish(l, "noCompany")

\* Mutant: a missing row of users is not an error.
FindStaffUnchecked(l) == at[l] = "staff" /\ Finish(l, "ok")

\* SELECT id FROM users by authId, in the company's own database.  Saving the
\* result in Redis changes nothing: its error is logged and dropped.
FindStaff(l) ==
    /\ at[l] = "staff"
    /\ Finish(l, IF row[l] \in staff THEN "ok" ELSE "noStaff")

\* A connector, Redis or a statement fails.
LoginFails(l) ==
    /\ at[l] \in {"redisGet", "user", "company", "staff"}
    /\ at[l] \in {"user", "company"} => FreeConn
    /\ Finish(l, "failed")

LoginProgress(l) ==
    \/ LoginRedisGet(l) \/ FindUser(l) \/ NoUser(l) \/ FindCompany(l) \/ FindStaff(l)

LoginStep(l) == LoginProgress(l) \/ LoginFails(l)

\* A crash of dbservice ends the logins in progress too.
LoginsCrash ==
    LET cut(l) == at[l] \notin {"idle", "done"}
    IN  /\ at' = [l \in Caller |-> IF cut(l) THEN "done" ELSE at[l]]
        /\ outcome' = [l \in Caller |-> IF cut(l) THEN "failed" ELSE outcome[l]]
        /\ UNCHANGED <<cred, row, settled>>

\* The caller's own steps, Relay and Timeout, change nothing that a login or
\* another registration reads: they are left to the runs of Registration.
LoginNext ==
    \/ \E l \in Caller : (StartLogin(l) \/ LoginStep(l)) /\ UNCHANGED vars
    \/ /\ \E r \in Request : Arrive(r) \/ Progress(r) \/ Failure(r)
       /\ UNCHANGED loginVars
    \/ Crash /\ LoginsCrash

\* What a registration does when nothing fails.  A DELETE by an empty companyId is
\* the exception: it cannot but fail.
Advances(r) == Progress(r) \/ (companyId[r] = None /\ RollbackFails(r))

\* A goroutine that is not blocked goes on.  No failure is counted on to end a
\* wait for a connection or a key; callers and crashes owe nothing.
LoginFairness ==
    /\ \A r \in Request : WF_allVars(Advances(r) /\ UNCHANGED loginVars)
    /\ \A l \in Caller : WF_allVars(LoginProgress(l) /\ UNCHANGED vars)

LoginSpec == LoginInit /\ [][LoginNext]_allVars /\ LoginFairness

-----------------------------------------------------------------------------
\* A login whose account stands, registered and answered OK, when it starts is
\* not told that the account is unknown or unfinished, whatever registrations
\* and compensations run meanwhile.  This needs that its e-mail or phone, with
\* its password, matches no other account: the query takes the first of the
\* rows that match, which may be one that is being compensated.
SettledAccountIsFound ==
    \A l \in Caller :
        LET matching == {q \in Request : form[q] # None /\ Matches(cred[l], q)}
        IN  cred[l] # None /\ matching # {} /\ matching \subseteq settled[l]
                => outcome[l] \notin {"noUser", "noCompany"}

\* A login that ends well leads into a company database that has its user; and
\* if the account is gone by then, its registration had reported success and
\* was compensated while the login was reading.
LoginIntoSeeded ==
    \A l \in Caller : outcome[l] = "ok" =>
        /\ row[l] \in staff
        /\ row[l] \notin companies => answer[row[l]].code = "OK"

\* Every login and every registration is answered, unless leaked connections
\* exhaust the pool: waits for unique keys and for connections, among them the
\* second turn of a compensation, never form a cycle.
AnsweredUnlessExhausted ==
    [](Cardinality(Leaked) < PoolSize) =>
        /\ \A l \in Caller : at[l] = "redisGet" ~> at[l] = "done"
        /\ \A r \in Request : pc[r] = "redisGet" ~> pc[r] = "done"
=============================================================================
