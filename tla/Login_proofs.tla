---------------------------- MODULE Login_proofs ----------------------------
(***************************************************************************)
(* Proofs about logins beside registrations, for any number of either, any *)
(* forms and credentials and any pool size.  The registrations' own        *)
(* invariant IInv is taken from Registration_proofs: a step of LoginNext   *)
(* is a step of registration, or leaves its variables alone.               *)
(***************************************************************************)
EXTENDS Login, Registration_proofs

-----------------------------------------------------------------------------
(* The inductive invariant.                                                  *)

\* A login that has found its company finds it gone later only if the account
\* has been compensated after a success; and one that ended well has staff.
Entered ==
    \A l \in Caller :
        /\ at[l] = "staff" \/ outcome[l] = "ok" =>
              /\ row[l] \in Request
              /\ \/ row[l] \in companies
                 \/ pc[row[l]] = "done" /\ answer[row[l]].code = "OK"
        /\ outcome[l] = "ok" => row[l] \in staff

\* Settled accounts stand for good: their calls are over.
SettledStands ==
    \A l \in Caller : \A q \in settled[l] :
        q \in companies /\ q \in authusers /\ pc[q] = "done"

\* What a login knows when it reports that there is no account.
Excused ==
    \A l \in Caller :
        /\ at[l] # "done" => outcome[l] = "pending"
        /\ outcome[l] = "noUser" =>
              \A q \in settled[l] : ~Matches(cred[l], q)
        /\ at[l] = "company" \/ outcome[l] = "noCompany" =>
              /\ row[l] \in Request
              /\ pc[row[l]] # "idle"
              /\ Matches(cred[l], row[l])
        /\ outcome[l] = "noCompany" => row[l] \notin settled[l]

LInv == IInv /\ LoginTypeOK /\ Entered /\ SettledStands /\ Excused

-----------------------------------------------------------------------------
(* What the steps of registrations leave to the logins.                      *)

\* Staff and forms stay, what is over is over, and a company that goes had
\* been reported as registered.
Lasting ==
    /\ staff \subseteq staff'
    /\ \A q \in Request :
           /\ pc[q] # "idle" => pc'[q] # "idle" /\ form'[q] = form[q]
           /\ pc[q] = "done" => pc'[q] = "done" /\ answer'[q] = answer[q]
           /\ q \in companies /\ pc[q] = "done" => q \in companies'
           /\ q \in companies =>
                 q \in companies' \/ (pc'[q] = "done" /\ answer'[q].code = "OK")

LEMMA LastingStep == TypeOK /\ Compensation /\ [Next]_vars => Lasting
<1> SUFFICES ASSUME TypeOK, Compensation, [Next]_vars PROVE Lasting
  OBVIOUS
<1>1. ASSUME NEW r \in Request,
             Arrive(r) \/ Relay(r) \/ Timeout(r) \/ RedisGet(r) \/ Begin(r) \/
             SelectEmpty(r) \/ InsertCompany(r) \/ InsertUser(r) \/
             CreateDb(r) \/ RollbackBegin(r) \/ RollbackDelete(r)
      PROVE  Lasting
  BY <1>1 DEF Arrive, Relay, Timeout, RedisGet, Begin, SelectEmpty,
     InsertCompany, InsertUser, CreateDb, RollbackBegin, RollbackDelete,
     Goto, dbVars, TypeOK, Lasting
<1>2. ASSUME NEW r \in Request,
             RedisGetFails(r) \/ BeginFails(r) \/ SelectFinds(r) \/
             InsertConflicts(r) \/ StatementFails(r) \/ CreateDbFails(r) \/
             SeedFails(r) \/ RedisSave(r) \/ RedisSaveFails(r)
      PROVE  Lasting
  BY <1>2 DEF RedisGetFails, BeginFails, SelectFinds, InsertConflicts,
     StatementFails, CreateDbFails, SeedFails, RedisSave, RedisSaveFails,
     Goto, dbVars, ReturnError, ReturnOk, TypeOK, Lasting
<1>3. ASSUME NEW r \in Request, Seed(r) PROVE Lasting
  BY <1>3 DEF Seed, Goto, TypeOK, Lasting
<1>4. ASSUME NEW r \in Request, Commit(r) PROVE Lasting
  BY <1>4 DEF Commit, Goto, TypeOK, Lasting
<1>5. ASSUME NEW r \in Request, CommitFails(r) PROVE Lasting
  BY <1>5 DEF CommitFails, ReturnError, Goto, TypeOK, Lasting
<1>6. ASSUME NEW r \in Request, RollbackCommit(r) PROVE Lasting
  <2>1. companyId[r] = r /\ answer[r].code = "OK"
    BY <1>6, NoneAssumption DEF RollbackCommit, Compensation
  <2>2. QED
    BY <1>6, <2>1 DEF RollbackCommit, Goto, TypeOK, Lasting
<1>7. ASSUME NEW r \in Request, RollbackFails(r) PROVE Lasting
  <2>1. pc[r] = "rollbackCommit" => companyId[r] = r /\ answer[r].code = "OK"
    BY NoneAssumption DEF Compensation
  <2>2. QED
    BY <1>7, <2>1 DEF RollbackFails, Goto, TypeOK, Lasting
<1>8. ASSUME Crash PROVE Lasting
  BY <1>8 DEF Crash, Running, dbVars, TypeOK, Lasting
<1>9. CASE UNCHANGED vars
  BY <1>9 DEF vars, dbVars, TypeOK, Lasting
<1>10. QED
  BY <1>1, <1>2, <1>3, <1>4, <1>5, <1>6, <1>7, <1>8, <1>9
     DEF Next, Progress, Failure

\* A step of LoginNext is a step of registration or none.
LEMMA LoginStepsNext == [LoginNext]_allVars => [Next]_vars
  BY DEF LoginNext, Next, allVars

\* Registrations' steps do not change whether a row, once it is there, matches.
LEMMA MatchesStays ==
  ASSUME Lasting, NEW q \in Request, pc[q] # "idle", NEW c
  PROVE  /\ (form'[q].email = c.email \/ form'[q].phone = c.phone)
            /\ form'[q].password = c.password
         <=> Matches(c, q)
  BY DEF Lasting, Matches

\* What a step of registrations preserves when no login moves.
LEMMA OthersStep ==
  ASSUME LInv, IInv', Lasting, UNCHANGED loginVars
  PROVE  Entered' /\ SettledStands' /\ Excused'
<1>1. Entered'
  BY DEF LInv, Entered, Lasting, loginVars
<1>2. SettledStands'
  <2>1. authusers' = companies'
    BY DEF IInv, AccountWhole
  <2>2. QED
    BY <2>1 DEF LInv, SettledStands, LoginTypeOK, Lasting, loginVars
<1>3. Excused'
  <2> SUFFICES ASSUME NEW l \in Caller
               PROVE  /\ at[l] # "done" => outcome[l] = "pending"
                      /\ outcome[l] = "noUser" =>
                            \A q \in settled[l] : ~Matches(cred[l], q)'
                      /\ at[l] = "company" \/ outcome[l] = "noCompany" =>
                            /\ row[l] \in Request
                            /\ pc'[row[l]] # "idle"
                            /\ Matches(cred[l], row[l])'
                      /\ outcome[l] = "noCompany" => row[l] \notin settled[l]
    BY DEF Excused, Matches, loginVars
  <2>1. cred' = cred /\ row' = row
    BY DEF loginVars
  <2>2. ASSUME NEW q \in settled[l], outcome[l] = "noUser"
        PROVE  ~Matches(cred[l], q)'
    <3>1. q \in Request /\ pc[q] # "idle"
      BY DEF LInv, SettledStands, LoginTypeOK
    <3>2. ~Matches(cred[l], q)
      BY <2>2 DEF LInv, Excused
    <3>3. QED
      BY <2>1, <3>1, <3>2, MatchesStays DEF Matches
  <2>3. ASSUME at[l] = "company" \/ outcome[l] = "noCompany"
        PROVE  /\ row[l] \in Request
               /\ pc'[row[l]] # "idle"
               /\ Matches(cred[l], row[l])'
    <3>1. row[l] \in Request /\ pc[row[l]] # "idle" /\ Matches(cred[l], row[l])
      BY <2>3 DEF LInv, Excused
    <3>2. QED
      BY <2>1, <3>1, MatchesStays DEF Matches, Lasting
  <2>4. QED
    BY <2>2, <2>3 DEF LInv, Excused
<1>4. QED
  BY <1>1, <1>2, <1>3

-----------------------------------------------------------------------------
(* The logins' own steps.                                                    *)

LEMMA LoginTypeStep == TypeOK /\ LoginTypeOK /\ [LoginNext]_allVars => LoginTypeOK'
<1> SUFFICES ASSUME TypeOK, LoginTypeOK, [LoginNext]_allVars PROVE LoginTypeOK'
  OBVIOUS
<1>1. ASSUME NEW l \in Caller, StartLogin(l) PROVE LoginTypeOK'
  BY <1>1 DEF StartLogin, MoveTo, LoginTypeOK, LoginStages, TypeOK
<1>2. ASSUME NEW l \in Caller, LoginRedisGet(l) PROVE LoginTypeOK'
  BY <1>2 DEF LoginRedisGet, MoveTo, LoginTypeOK, LoginStages
<1>3. ASSUME NEW l \in Caller, FindUser(l) PROVE LoginTypeOK'
  BY <1>3 DEF FindUser, MoveTo, LoginTypeOK, LoginStages, TypeOK
<1>4. ASSUME NEW l \in Caller,
             NoUser(l) \/ FindCompany(l) \/ FindStaff(l) \/ LoginFails(l)
      PROVE  LoginTypeOK'
  BY <1>4 DEF NoUser, FindCompany, FindStaff, LoginFails, Finish, MoveTo,
     LoginTypeOK, LoginStages, Outcomes
<1>5. ASSUME LoginsCrash PROVE LoginTypeOK'
  BY <1>5 DEF LoginsCrash, LoginTypeOK, LoginStages, Outcomes
<1>6. CASE UNCHANGED loginVars
  BY <1>6 DEF loginVars, LoginTypeOK
<1>7. QED
  BY <1>1, <1>2, <1>3, <1>4, <1>5, <1>6 DEF LoginNext, LoginStep, LoginProgress, allVars

\* A step of one login leaves the parts of the invariant standing.
LEMMA OwnStep ==
  ASSUME LInv, NEW l \in Caller, StartLogin(l) \/ LoginStep(l), UNCHANGED vars
  PROVE  Entered' /\ SettledStands' /\ Excused'
<1> USE DEF vars, dbVars
<1>0. /\ TypeOK /\ LoginTypeOK /\ Entered /\ SettledStands /\ Excused
      /\ companies = authusers
  BY DEF LInv, IInv, AccountWhole
<1>1. CASE StartLogin(l)
  BY <1>0, <1>1 DEF StartLogin, MoveTo, LoginTypeOK, LoginStages, TypeOK,
     Entered, SettledStands, Excused, Matches
<1>2. CASE LoginRedisGet(l)
  BY <1>0, <1>2 DEF LoginRedisGet, MoveTo, LoginTypeOK, LoginStages, TypeOK,
     Entered, SettledStands, Excused, Matches
<1>3. CASE FindUser(l)
  <2>1. PICK q \in authusers :
           Matches(cred[l], q) /\ row' = [row EXCEPT ![l] = q]
    BY <1>3 DEF FindUser
  <2>2. q \in Request /\ pc[q] # "idle"
    BY <2>1, <1>0 DEF LInv, IInv, Arrived, TypeOK
  <2>3. QED
    BY <1>0, <1>3, <2>1, <2>2 DEF FindUser, MoveTo, LoginTypeOK, LoginStages,
       Entered, SettledStands, Excused, Matches
<1>4. CASE NoUser(l)
  BY <1>0, <1>4 DEF NoUser, Finish, MoveTo, LoginTypeOK, LoginStages,
     Entered, SettledStands, Excused, Matches
<1>5. CASE FindCompany(l)
  BY <1>0, <1>5 DEF FindCompany, Finish, MoveTo, LoginTypeOK, LoginStages,
     Entered, SettledStands, Excused, Matches
<1>6. CASE FindStaff(l)
  BY <1>0, <1>6 DEF FindStaff, Finish, MoveTo, LoginTypeOK, LoginStages,
     Entered, SettledStands, Excused, Matches
<1>7. CASE LoginFails(l)
  BY <1>0, <1>7 DEF LoginFails, Finish, MoveTo, LoginTypeOK, LoginStages,
     Entered, SettledStands, Excused, Matches
<1>8. QED
  BY <1>1, <1>2, <1>3, <1>4, <1>5, <1>6, <1>7 DEF LoginStep, LoginProgress

LEMMA CrashStep ==
  ASSUME LInv, IInv', Lasting, Crash, LoginsCrash
  PROVE  Entered' /\ SettledStands' /\ Excused'
<1>0. /\ LoginTypeOK /\ Entered /\ SettledStands /\ Excused
      /\ companies' = companies /\ authusers' = authusers /\ form' = form
  BY DEF LInv, Crash, dbVars
<1>1. Entered'
  BY <1>0 DEF LoginsCrash, Entered, Lasting, LoginTypeOK
<1>2. SettledStands'
  BY <1>0 DEF LoginsCrash, SettledStands, Lasting, LoginTypeOK
<1>3. Excused'
  BY <1>0 DEF LoginsCrash, Excused, Lasting, LoginTypeOK, LoginStages, Matches
<1>4. QED
  BY <1>1, <1>2, <1>3

LEMMA InitLInv == LoginInit => LInv
  BY InitIInv DEF LoginInit, LInv, LoginTypeOK, LoginStages, Outcomes, Entered,
     SettledStands, Excused

LEMMA NextLInv == LInv /\ [LoginNext]_allVars => LInv'
<1> SUFFICES ASSUME LInv, [LoginNext]_allVars PROVE LInv'
  OBVIOUS
<1>1. [Next]_vars
  BY LoginStepsNext
<1>2. IInv' /\ Lasting
  BY <1>1, NextIInv, LastingStep DEF LInv, IInv
<1>3. LoginTypeOK'
  BY LoginTypeStep DEF LInv, IInv
<1>4. Entered' /\ SettledStands' /\ Excused'
  <2>1. CASE \E l \in Caller : (StartLogin(l) \/ LoginStep(l)) /\ UNCHANGED vars
    BY <2>1, OwnStep
  <2>2. CASE UNCHANGED loginVars
    BY <1>2, <2>2, OthersStep
  <2>3. CASE Crash /\ LoginsCrash
    BY <1>2, <2>3, CrashStep
  <2>4. QED
    BY <2>1, <2>2, <2>3 DEF LoginNext, allVars
<1>5. QED
  BY <1>2, <1>3, <1>4 DEF LInv

LEMMA LoginInvariance == LoginSpec => []LInv
  BY InitLInv, NextLInv, PTL DEF LoginSpec

-----------------------------------------------------------------------------
(* The theorems.                                                             *)

\* Every variable of a login keeps its type, whatever registrations do.
THEOREM LoginTypeCorrect == LoginSpec => []LoginTypeOK
  BY LoginInvariance, PTL DEF LInv

\* checkUser never leads into a company database without the user, and an
\* account that is gone by then was compensated after its success.
THEOREM LoginsAreSeeded == LoginSpec => []LoginIntoSeeded
<1>1. LInv => LoginIntoSeeded
  BY DEF LInv, Entered, LoginIntoSeeded
<1>2. QED
  BY <1>1, LoginInvariance, PTL

\* checkUser finds a registered account, whatever registrations and
\* compensations of others go on between its statements.
THEOREM SettledIsFound == LoginSpec => []SettledAccountIsFound
<1>1. ASSUME LInv, NEW l \in Caller,
             NEW matching,
             matching = {q \in Request : form[q] # None /\ Matches(cred[l], q)},
             matching # {}, matching \subseteq settled[l]
      PROVE  outcome[l] \notin {"noUser", "noCompany"}
  <2>1. outcome[l] # "noUser"
    BY <1>1 DEF LInv, Excused
  <2>2. ASSUME outcome[l] = "noCompany" PROVE FALSE
    <3>1. /\ row[l] \in Request /\ pc[row[l]] # "idle"
          /\ Matches(cred[l], row[l]) /\ row[l] \notin settled[l]
      BY <1>1, <2>2 DEF LInv, Excused
    <3>2. form[row[l]] # None
      BY <1>1, <3>1, FormAssumption DEF LInv, IInv, Arrived
    <3>3. QED
      BY <1>1, <3>1, <3>2
  <2>3. QED
    BY <2>1, <2>2
<1>2. LInv => SettledAccountIsFound
  BY <1>1 DEF SettledAccountIsFound
<1>3. QED
  BY <1>2, LoginInvariance, PTL

-----------------------------------------------------------------------------
(* Registrations beside logins.                                              *)

\* Logins leave registrations what they are: everything that Registration_proofs
\* shows of Spec holds of LoginSpec too, the account directory and the absence
\* of deadlocks among it.
THEOREM LoginsLeaveRegistration == LoginSpec => Spec
<1>1. LoginInit => Init
  BY DEF LoginInit
<1>2. QED
  BY <1>1, LoginStepsNext, PTL DEF LoginSpec, Spec

-----------------------------------------------------------------------------
(* Waiting.  A login waits for a connection of the pool, which it gives back *)
(* within the step, and for nothing else.                                    *)

LoginRuns(l) == at[l] \notin {"idle", "done"}
LoginWaits(l) == at[l] \in {"redisGet", "user", "company"} /\ ~FreeConn

CallRuns == (\E r \in Request : Running(r)) \/ (\E l \in Caller : LoginRuns(l))
CallGoesOn == SomebodyGoesOn \/ \E l \in Caller : LoginRuns(l) /\ ~LoginWaits(l)

\* Logins and registrations never all wait for each other, as long as a
\* connection of the pool is not leaked.
THEOREM NoLoginDeadlock ==
  LoginSpec => [](Cardinality(Leaked) < PoolSize /\ CallRuns => CallGoesOn)
<1>1. ASSUME IInv, Cardinality(Leaked) < PoolSize, CallRuns
      PROVE  CallGoesOn
  <2>1. CASE \E r \in Request : Running(r)
    BY <1>1, <2>1, RunningGoOn DEF IInv, CallGoesOn
  <2>2. CASE ~FreeConn
    BY <1>1, <2>2, PoolHoldersGoOn DEF IInv, CallGoesOn
  <2>3. CASE FreeConn /\ \E l \in Caller : LoginRuns(l)
    BY <2>3 DEF LoginWaits, CallGoesOn
  <2>4. QED
    BY <1>1, <2>1, <2>2, <2>3 DEF CallRuns
<1>2. LInv => (Cardinality(Leaked) < PoolSize /\ CallRuns => CallGoesOn)
  BY <1>1 DEF LInv
<1>3. QED
  BY <1>2, LoginInvariance, PTL

\* The stages of a login in their order.
LoginRank(stage) ==
    CASE stage = "idle" -> 0
      [] stage = "redisGet" -> 1
      [] stage = "user" -> 2
      [] stage = "company" -> 3
      [] stage = "staff" -> 4
      [] stage = "done" -> 5

LoginForward ==
    \A l \in Caller : at'[l] # at[l] => LoginRank(at[l]) < LoginRank(at'[l])

LEMMA LoginForwardStep == LoginTypeOK /\ [LoginNext]_allVars => LoginForward
<1> SUFFICES ASSUME LoginTypeOK, [LoginNext]_allVars PROVE LoginForward
  OBVIOUS
<1>1. ASSUME NEW l \in Caller, NEW stage \in LoginStages, MoveTo(l, stage),
             LoginRank(at[l]) < LoginRank(stage)
      PROVE  LoginForward
  BY <1>1 DEF MoveTo, LoginForward, LoginTypeOK
<1>2. ASSUME NEW l \in Caller, StartLogin(l) \/ LoginRedisGet(l) \/ FindUser(l)
      PROVE  LoginForward
  BY <1>1, <1>2 DEF StartLogin, LoginRedisGet, FindUser, LoginRank, LoginStages
<1>3. ASSUME NEW l \in Caller,
             NoUser(l) \/ FindCompany(l) \/ FindStaff(l) \/ LoginFails(l)
      PROVE  LoginForward
  BY <1>1, <1>3 DEF NoUser, FindCompany, FindStaff, LoginFails, Finish,
     LoginRank, LoginStages
<1>4. ASSUME LoginsCrash PROVE LoginForward
  <2>1. \A stage \in LoginStages \ {"done"} : LoginRank(stage) < LoginRank("done")
    BY DEF LoginRank, LoginStages
  <2>2. QED
    BY <1>4, <2>1 DEF LoginsCrash, LoginForward, LoginTypeOK
<1>5. CASE UNCHANGED loginVars
  BY <1>5 DEF loginVars, LoginForward
<1>6. QED
  BY <1>2, <1>3, <1>4, <1>5 DEF LoginNext, LoginStep, LoginProgress, allVars

\* Neither a login nor a registration comes back to a stage it has left: with
\* NoLoginDeadlock, what AnsweredUnlessExhausted rests on.
THEOREM LoginsMoveForward == LoginSpec => [][LoginForward /\ Forward]_allVars
<1>1. LInv /\ [LoginNext]_allVars => [LoginForward /\ Forward]_allVars
  BY LoginForwardStep, LoginStepsNext, ForwardStep DEF LInv, IInv
<1>2. QED
  BY <1>1, LoginInvariance, PTL DEF LoginSpec
=============================================================================
