------------------------- MODULE Registration_proofs -------------------------
(***************************************************************************)
(* Proofs about registration, for any number of requests, any forms and    *)
(* any pool size.                                                          *)
(***************************************************************************)
EXTENDS Registration, FiniteSetTheorems, TLAPS

-----------------------------------------------------------------------------
(* The inductive invariant.  What a transaction has inserted but not yet     *)
(* committed counts as held: uniqueness of the committed keys is inductive   *)
(* only together with uniqueness of the held ones.                           *)

CompanyHeld(r) == r \in companies \/ pc[r] \in {"insertUser", "commit"}
UserHeld(r) == r \in authusers \/ pc[r] = "commit"

KeysHeldUnique ==
    \A r, q \in Request : r # q =>
        /\ CompanyHeld(r) /\ CompanyHeld(q) => ~SameAddress(r, q)
        /\ UserHeld(r) /\ UserHeld(q) => ~SameUser(r, q)

\* A request that has not arrived has no trace; one that has, has its form.
Arrived ==
    \A r \in Request :
        IF pc[r] = "idle"
        THEN r \notin companies /\ r \notin authusers /\ r \notin authConn
        ELSE form[r] \in Form

\* Who may delete which company, and after which answer.
Compensation ==
    \A r \in Request :
        /\ companyId[r] \in {None, r}
        /\ pc[r] = "rollbackCommit" => companyId[r] = r
        /\ pc[r] \in {"rollbackBegin", "rollbackDelete", "rollbackCommit"} =>
              answer[r].code = "OK" \/ companyId[r] = None

\* From the commit of the company database on, its staff exists.
Seeded ==
    \A r \in Request :
        /\ pc[r] = "redisSave" => r \in staff
        /\ answer[r].header # None => r \in staff
        /\ heard[r] = "created" => r \in staff

IInv == TypeOK /\ Arrived /\ AccountWhole /\ KeysHeldUnique /\ Compensation
             /\ Seeded /\ ConnAccounting

-----------------------------------------------------------------------------
LEMMA HeardType == \A a : Heard(a) \in Statuses
  BY DEF Heard, Statuses

LEMMA InitIInv == Init => IInv
  BY NoneAssumption DEF Init, IInv, TypeOK, Stages, TxStages, Codes, Answers,
     Statuses, Arrived, AccountWhole, KeysHeldUnique, CompanyHeld, UserHeld,
     Compensation, Seeded, ConnAccounting, InTx, Leaked

LEMMA TypeStep == TypeOK /\ [Next]_vars => TypeOK'
<1> SUFFICES ASSUME TypeOK, [Next]_vars PROVE TypeOK'
  OBVIOUS
<1>1. ASSUME NEW r \in Request, Arrive(r) PROVE TypeOK'
  BY <1>1 DEF Arrive, Goto, dbVars, TypeOK, Stages
<1>2. ASSUME NEW r \in Request, Relay(r) PROVE TypeOK'
  <2>1. PICK status \in Statuses : heard' = [heard EXCEPT ![r] = status]
    BY <1>2, HeardType DEF Relay, Statuses
  <2>2. QED
    BY <1>2, <2>1 DEF Relay, dbVars, TypeOK
<1>3. ASSUME NEW r \in Request, Timeout(r) PROVE TypeOK'
  BY <1>3 DEF Timeout, dbVars, TypeOK, Statuses
<1>4. ASSUME NEW r \in Request, RedisGet(r) PROVE TypeOK'
  BY <1>4 DEF RedisGet, Goto, dbVars, TypeOK, Stages
<1>5. ASSUME NEW r \in Request, RedisGetFails(r) PROVE TypeOK'
  BY <1>5 DEF RedisGetFails, ReturnError, Goto, dbVars, TypeOK, Stages, Codes,
     Answers
<1>6. ASSUME NEW r \in Request, Begin(r) PROVE TypeOK'
  BY <1>6 DEF Begin, TakeConn, Goto, dbVars, TypeOK, Stages, TxStages
<1>7. ASSUME NEW r \in Request, BeginFails(r) PROVE TypeOK'
  BY <1>7 DEF BeginFails, ReturnError, Goto, dbVars, TypeOK, Stages, Codes,
     Answers
<1>8. ASSUME NEW r \in Request, SelectEmpty(r) PROVE TypeOK'
  BY <1>8 DEF SelectEmpty, Goto, dbVars, TypeOK, Stages, TxStages
<1>9. ASSUME NEW r \in Request, SelectFinds(r) PROVE TypeOK'
  BY <1>9 DEF SelectFinds, ReturnError, Goto, dbVars, TypeOK, Stages, Codes,
     Answers
<1>10. ASSUME NEW r \in Request, InsertCompany(r) PROVE TypeOK'
  BY <1>10 DEF InsertCompany, Goto, dbVars, TypeOK, Stages, TxStages
<1>11. ASSUME NEW r \in Request, InsertUser(r) PROVE TypeOK'
  BY <1>11 DEF InsertUser, Goto, dbVars, TypeOK, Stages, TxStages
<1>12. ASSUME NEW r \in Request, InsertConflicts(r) PROVE TypeOK'
  <2>1. PICK code \in {"Internal", "UserExists"} : ReturnError(r, code)
    BY <1>12 DEF InsertConflicts
  <2>2. Goto(r, "done") /\ ReleaseConn(r) /\ UNCHANGED <<form, heard, dbVars>>
    BY <1>12 DEF InsertConflicts
  <2>3. QED
    BY <2>1, <2>2 DEF TypeOK, Goto, ReturnError, ReleaseConn, dbVars, Stages,
       Codes, Answers
<1>13. ASSUME NEW r \in Request, StatementFails(r) PROVE TypeOK'
  BY <1>13 DEF StatementFails, ReturnError, ReleaseConn, Goto, dbVars, TypeOK,
     Stages, Codes, Answers
<1>14. ASSUME NEW r \in Request, Commit(r) PROVE TypeOK'
  BY <1>14 DEF Commit, ReleaseConn, Goto, TypeOK, Stages
<1>15. ASSUME NEW r \in Request, CommitFails(r) PROVE TypeOK'
  BY <1>15 DEF CommitFails, ReturnError, ReleaseConn, Goto, TypeOK, Stages,
     Codes, Answers
<1>16. ASSUME NEW r \in Request, CreateDb(r) PROVE TypeOK'
  BY <1>16 DEF CreateDb, Goto, dbVars, TypeOK, Stages
<1>17. ASSUME NEW r \in Request, CreateDbFails(r) PROVE TypeOK'
  BY <1>17 DEF CreateDbFails, ReturnError, Goto, dbVars, TypeOK, Stages,
     Codes, Answers
<1>18. ASSUME NEW r \in Request, Seed(r) PROVE TypeOK'
  BY <1>18 DEF Seed, Goto, TypeOK, Stages
<1>19. ASSUME NEW r \in Request, SeedFails(r) PROVE TypeOK'
  BY <1>19 DEF SeedFails, ReturnError, Goto, TypeOK, Stages, Codes, Answers
<1>20. ASSUME NEW r \in Request, RedisSave(r) PROVE TypeOK'
  BY <1>20 DEF RedisSave, ReturnOk, Goto, dbVars, TypeOK, Stages, Codes,
     Answers
<1>21. ASSUME NEW r \in Request, RedisSaveFails(r) PROVE TypeOK'
  BY <1>21 DEF RedisSaveFails, ReturnOk, Goto, dbVars, TypeOK, Stages, Codes,
     Answers
<1>22. ASSUME NEW r \in Request, RollbackBegin(r) PROVE TypeOK'
  BY <1>22 DEF RollbackBegin, TakeConn, Goto, dbVars, TypeOK, Stages, TxStages
<1>23. ASSUME NEW r \in Request, RollbackDelete(r) PROVE TypeOK'
  BY <1>23 DEF RollbackDelete, Goto, dbVars, TypeOK, Stages, TxStages
<1>24. ASSUME NEW r \in Request, RollbackCommit(r) PROVE TypeOK'
  BY <1>24 DEF RollbackCommit, ReleaseConn, Goto, TypeOK, Stages
<1>25. ASSUME NEW r \in Request, RollbackFails(r) PROVE TypeOK'
  BY <1>25 DEF RollbackFails, ReleaseConn, Goto, TypeOK, Stages
<1>26. ASSUME Crash PROVE TypeOK'
  BY <1>26 DEF Crash, Running, dbVars, TypeOK, Stages, Codes, Answers
<1>27. CASE UNCHANGED vars
  BY <1>27 DEF vars, dbVars, TypeOK
<1>28. QED
  BY <1>1, <1>2, <1>3, <1>4, <1>5, <1>6, <1>7, <1>8, <1>9, <1>10, <1>11,
     <1>12, <1>13, <1>14, <1>15, <1>16, <1>17, <1>18, <1>19, <1>20, <1>21,
     <1>22, <1>23, <1>24, <1>25, <1>26, <1>27 DEF Next, Progress, Failure

LEMMA ArrivedStep == TypeOK /\ Arrived /\ [Next]_vars => Arrived'
<1> SUFFICES ASSUME TypeOK /\ Arrived, [Next]_vars PROVE Arrived'
  OBVIOUS
<1>1. ASSUME NEW r \in Request, Arrive(r) PROVE Arrived'
  BY <1>1 DEF Arrive, Goto, dbVars, Arrived, TypeOK
<1>2. ASSUME NEW r \in Request, Relay(r) PROVE Arrived'
  BY <1>2 DEF Relay, dbVars, Arrived, TypeOK
<1>3. ASSUME NEW r \in Request, Timeout(r) PROVE Arrived'
  BY <1>3 DEF Timeout, dbVars, Arrived, TypeOK
<1>4. ASSUME NEW r \in Request, RedisGet(r) PROVE Arrived'
  BY <1>4 DEF RedisGet, Goto, dbVars, Arrived, TypeOK
<1>5. ASSUME NEW r \in Request, RedisGetFails(r) PROVE Arrived'
  BY <1>5 DEF RedisGetFails, ReturnError, Goto, dbVars, Arrived, TypeOK
<1>6. ASSUME NEW r \in Request, Begin(r) PROVE Arrived'
  BY <1>6 DEF Begin, TakeConn, Goto, dbVars, Arrived, TypeOK
<1>7. ASSUME NEW r \in Request, BeginFails(r) PROVE Arrived'
  BY <1>7 DEF BeginFails, ReturnError, Goto, dbVars, Arrived, TypeOK
<1>8. ASSUME NEW r \in Request, SelectEmpty(r) PROVE Arrived'
  BY <1>8 DEF SelectEmpty, Goto, dbVars, Arrived, TypeOK
<1>9. ASSUME NEW r \in Request, SelectFinds(r) PROVE Arrived'
  BY <1>9 DEF SelectFinds, ReturnError, Goto, dbVars, Arrived, TypeOK
<1>10. ASSUME NEW r \in Request, InsertCompany(r) PROVE Arrived'
  BY <1>10 DEF InsertCompany, Goto, dbVars, Arrived, TypeOK
<1>11. ASSUME NEW r \in Request, InsertUser(r) PROVE Arrived'
  BY <1>11 DEF InsertUser, Goto, dbVars, Arrived, TypeOK
<1>12. ASSUME NEW r \in Request, InsertConflicts(r) PROVE Arrived'
  BY <1>12 DEF InsertConflicts, ReturnError, ReleaseConn, Goto, dbVars,
     Arrived, TypeOK
<1>13. ASSUME NEW r \in Request, StatementFails(r) PROVE Arrived'
  BY <1>13 DEF StatementFails, ReturnError, ReleaseConn, Goto, dbVars,
     Arrived, TypeOK
<1>14. ASSUME NEW r \in Request, Commit(r) PROVE Arrived'
  BY <1>14 DEF Commit, ReleaseConn, Goto, Arrived, TypeOK
<1>15. ASSUME NEW r \in Request, CommitFails(r) PROVE Arrived'
  BY <1>15 DEF CommitFails, ReturnError, ReleaseConn, Goto, Arrived, TypeOK
<1>16. ASSUME NEW r \in Request, CreateDb(r) PROVE Arrived'
  BY <1>16 DEF CreateDb, Goto, dbVars, Arrived, TypeOK
<1>17. ASSUME NEW r \in Request, CreateDbFails(r) PROVE Arrived'
  BY <1>17 DEF CreateDbFails, ReturnError, Goto, dbVars, Arrived, TypeOK
<1>18. ASSUME NEW r \in Request, Seed(r) PROVE Arrived'
  BY <1>18 DEF Seed, Goto, Arrived, TypeOK
<1>19. ASSUME NEW r \in Request, SeedFails(r) PROVE Arrived'
  BY <1>19 DEF SeedFails, ReturnError, Goto, Arrived, TypeOK
<1>20. ASSUME NEW r \in Request, RedisSave(r) PROVE Arrived'
  BY <1>20 DEF RedisSave, ReturnOk, Goto, dbVars, Arrived, TypeOK
<1>21. ASSUME NEW r \in Request, RedisSaveFails(r) PROVE Arrived'
  BY <1>21 DEF RedisSaveFails, ReturnOk, Goto, dbVars, Arrived, TypeOK
<1>22. ASSUME NEW r \in Request, RollbackBegin(r) PROVE Arrived'
  BY <1>22 DEF RollbackBegin, TakeConn, Goto, dbVars, Arrived, TypeOK
<1>23. ASSUME NEW r \in Request, RollbackDelete(r) PROVE Arrived'
  BY <1>23 DEF RollbackDelete, Goto, dbVars, Arrived, TypeOK
<1>24. ASSUME NEW r \in Request, RollbackCommit(r) PROVE Arrived'
  BY <1>24 DEF RollbackCommit, ReleaseConn, Goto, Arrived, TypeOK
<1>25. ASSUME NEW r \in Request, RollbackFails(r) PROVE Arrived'
  BY <1>25 DEF RollbackFails, ReleaseConn, Goto, Arrived, TypeOK
<1>26. ASSUME Crash PROVE Arrived'
  BY <1>26 DEF Crash, Running, dbVars, Arrived, TypeOK
<1>27. CASE UNCHANGED vars
  BY <1>27 DEF vars, dbVars, Arrived, TypeOK
<1>28. QED
  BY <1>1, <1>2, <1>3, <1>4, <1>5, <1>6, <1>7, <1>8, <1>9, <1>10, <1>11,
     <1>12, <1>13, <1>14, <1>15, <1>16, <1>17, <1>18, <1>19, <1>20, <1>21,
     <1>22, <1>23, <1>24, <1>25, <1>26, <1>27 DEF Next, Progress, Failure

LEMMA AccountWholeStep == AccountWhole /\ Compensation /\ [Next]_vars => AccountWhole'
<1> SUFFICES ASSUME AccountWhole /\ Compensation, [Next]_vars PROVE AccountWhole'
  OBVIOUS
<1>1. ASSUME NEW r \in Request,
             Arrive(r) \/ Relay(r) \/ Timeout(r) \/ RedisGet(r) \/
             RedisGetFails(r) \/ Begin(r) \/ BeginFails(r) \/ SelectEmpty(r)
             \/ SelectFinds(r) \/ InsertCompany(r) \/ InsertUser(r) \/
             InsertConflicts(r) \/ StatementFails(r) \/ CreateDb(r) \/
             CreateDbFails(r) \/ Seed(r) \/ SeedFails(r) \/ RedisSave(r) \/
             RedisSaveFails(r) \/ RollbackBegin(r) \/ RollbackDelete(r)
      PROVE  AccountWhole'
  BY <1>1 DEF Arrive, Relay, Timeout, RedisGet, RedisGetFails, Begin,
     BeginFails, SelectEmpty, SelectFinds, InsertCompany, InsertUser,
     InsertConflicts, StatementFails, CreateDb, CreateDbFails, Seed,
     SeedFails, RedisSave, RedisSaveFails, RollbackBegin, RollbackDelete,
     Goto, dbVars, ReturnError, TakeConn, ReleaseConn, ReturnOk, AccountWhole
<1>2. ASSUME NEW r \in Request, Commit(r) PROVE AccountWhole'
  BY <1>2 DEF Commit, ReleaseConn, Goto, AccountWhole
<1>3. ASSUME NEW r \in Request, CommitFails(r) PROVE AccountWhole'
  BY <1>3 DEF CommitFails, ReturnError, ReleaseConn, Goto, AccountWhole
<1>4. ASSUME NEW r \in Request, RollbackCommit(r) PROVE AccountWhole'
  BY <1>4 DEF RollbackCommit, ReleaseConn, Goto, AccountWhole, Compensation
<1>5. ASSUME NEW r \in Request, RollbackFails(r) PROVE AccountWhole'
  BY <1>5 DEF RollbackFails, ReleaseConn, Goto, AccountWhole, Compensation
<1>6. ASSUME Crash PROVE AccountWhole'
  BY <1>6 DEF Crash, Running, dbVars, AccountWhole
<1>7. CASE UNCHANGED vars
  BY <1>7 DEF vars, dbVars, AccountWhole
<1>8. QED
  BY <1>1, <1>2, <1>3, <1>4, <1>5, <1>6, <1>7 DEF Next, Progress, Failure

LEMMA CompensationStep == TypeOK /\ Compensation /\ [Next]_vars => Compensation'
<1> SUFFICES ASSUME TypeOK /\ Compensation, [Next]_vars PROVE Compensation'
  OBVIOUS
<1>1. ASSUME NEW r \in Request, Arrive(r) PROVE Compensation'
  BY <1>1 DEF Arrive, Goto, dbVars, Compensation, TypeOK
<1>2. ASSUME NEW r \in Request, Relay(r) PROVE Compensation'
  BY <1>2 DEF Relay, dbVars, Compensation, TypeOK
<1>3. ASSUME NEW r \in Request, Timeout(r) PROVE Compensation'
  BY <1>3 DEF Timeout, dbVars, Compensation, TypeOK
<1>4. ASSUME NEW r \in Request, RedisGet(r) PROVE Compensation'
  BY <1>4 DEF RedisGet, Goto, dbVars, Compensation, TypeOK
<1>5. ASSUME NEW r \in Request, RedisGetFails(r) PROVE Compensation'
  BY <1>5 DEF RedisGetFails, ReturnError, Goto, dbVars, Compensation, TypeOK
<1>6. ASSUME NEW r \in Request, Begin(r) PROVE Compensation'
  BY <1>6 DEF Begin, TakeConn, Goto, dbVars, Compensation, TypeOK
<1>7. ASSUME NEW r \in Request, BeginFails(r) PROVE Compensation'
  BY <1>7 DEF BeginFails, ReturnError, Goto, dbVars, Compensation, TypeOK
<1>8. ASSUME NEW r \in Request, SelectEmpty(r) PROVE Compensation'
  BY <1>8 DEF SelectEmpty, Goto, dbVars, Compensation, TypeOK
<1>9. ASSUME NEW r \in Request, SelectFinds(r) PROVE Compensation'
  BY <1>9 DEF SelectFinds, ReturnError, Goto, dbVars, Compensation, TypeOK
<1>10. ASSUME NEW r \in Request, InsertCompany(r) PROVE Compensation'
  BY <1>10 DEF InsertCompany, Goto, dbVars, Compensation, TypeOK
<1>11. ASSUME NEW r \in Request, InsertUser(r) PROVE Compensation'
  BY <1>11 DEF InsertUser, Goto, dbVars, Compensation, TypeOK
<1>12. ASSUME NEW r \in Request, InsertConflicts(r) PROVE Compensation'
  BY <1>12 DEF InsertConflicts, ReturnError, ReleaseConn, Goto, dbVars,
     Compensation, TypeOK
<1>13. ASSUME NEW r \in Request, StatementFails(r) PROVE Compensation'
  BY <1>13 DEF StatementFails, ReturnError, ReleaseConn, Goto, dbVars,
     Compensation, TypeOK
<1>14. ASSUME NEW r \in Request, Commit(r) PROVE Compensation'
  BY <1>14 DEF Commit, ReleaseConn, Goto, Compensation, TypeOK
<1>15. ASSUME NEW r \in Request, CommitFails(r) PROVE Compensation'
  BY <1>15 DEF CommitFails, ReturnError, ReleaseConn, Goto, Compensation,
     TypeOK
<1>16. ASSUME NEW r \in Request, CreateDb(r) PROVE Compensation'
  BY <1>16 DEF CreateDb, Goto, dbVars, Compensation, TypeOK
<1>17. ASSUME NEW r \in Request, CreateDbFails(r) PROVE Compensation'
  BY <1>17 DEF CreateDbFails, ReturnError, Goto, dbVars, Compensation, TypeOK
<1>18. ASSUME NEW r \in Request, Seed(r) PROVE Compensation'
  BY <1>18 DEF Seed, Goto, Compensation, TypeOK
<1>19. ASSUME NEW r \in Request, SeedFails(r) PROVE Compensation'
  BY <1>19 DEF SeedFails, ReturnError, Goto, Compensation, TypeOK
<1>20. ASSUME NEW r \in Request, RedisSave(r) PROVE Compensation'
  BY <1>20 DEF RedisSave, ReturnOk, Goto, dbVars, Compensation, TypeOK
<1>21. ASSUME NEW r \in Request, RedisSaveFails(r) PROVE Compensation'
  BY <1>21 DEF RedisSaveFails, ReturnOk, Goto, dbVars, Compensation, TypeOK
<1>22. ASSUME NEW r \in Request, RollbackBegin(r) PROVE Compensation'
  BY <1>22 DEF RollbackBegin, TakeConn, Goto, dbVars, Compensation, TypeOK
<1>23. ASSUME NEW r \in Request, RollbackDelete(r) PROVE Compensation'
  BY <1>23 DEF RollbackDelete, Goto, dbVars, Compensation, TypeOK
<1>24. ASSUME NEW r \in Request, RollbackCommit(r) PROVE Compensation'
  BY <1>24 DEF RollbackCommit, ReleaseConn, Goto, Compensation, TypeOK
<1>25. ASSUME NEW r \in Request, RollbackFails(r) PROVE Compensation'
  BY <1>25 DEF RollbackFails, ReleaseConn, Goto, Compensation, TypeOK
<1>26. ASSUME Crash PROVE Compensation'
  BY <1>26 DEF Crash, Running, dbVars, Compensation, TypeOK
<1>27. CASE UNCHANGED vars
  BY <1>27 DEF vars, dbVars, Compensation, TypeOK
<1>28. QED
  BY <1>1, <1>2, <1>3, <1>4, <1>5, <1>6, <1>7, <1>8, <1>9, <1>10, <1>11,
     <1>12, <1>13, <1>14, <1>15, <1>16, <1>17, <1>18, <1>19, <1>20, <1>21,
     <1>22, <1>23, <1>24, <1>25, <1>26, <1>27 DEF Next, Progress, Failure

LEMMA SeededStep == TypeOK /\ Seeded /\ [Next]_vars => Seeded'
<1> SUFFICES ASSUME TypeOK /\ Seeded, [Next]_vars PROVE Seeded'
  OBVIOUS
<1>1. ASSUME NEW r \in Request, Arrive(r) PROVE Seeded'
  BY <1>1 DEF Arrive, Goto, dbVars, Seeded, TypeOK
<1>2. ASSUME NEW r \in Request, Relay(r) PROVE Seeded'
  BY <1>2 DEF Relay, dbVars, Seeded, TypeOK, Heard
<1>3. ASSUME NEW r \in Request, Timeout(r) PROVE Seeded'
  BY <1>3 DEF Timeout, dbVars, Seeded, TypeOK
<1>4. ASSUME NEW r \in Request, RedisGet(r) PROVE Seeded'
  BY <1>4 DEF RedisGet, Goto, dbVars, Seeded, TypeOK
<1>5. ASSUME NEW r \in Request, RedisGetFails(r) PROVE Seeded'
  BY <1>5 DEF RedisGetFails, ReturnError, Goto, dbVars, Seeded, TypeOK
<1>6. ASSUME NEW r \in Request, Begin(r) PROVE Seeded'
  BY <1>6 DEF Begin, TakeConn, Goto, dbVars, Seeded, TypeOK
<1>7. ASSUME NEW r \in Request, BeginFails(r) PROVE Seeded'
  BY <1>7 DEF BeginFails, ReturnError, Goto, dbVars, Seeded, TypeOK
<1>8. ASSUME NEW r \in Request, SelectEmpty(r) PROVE Seeded'
  BY <1>8 DEF SelectEmpty, Goto, dbVars, Seeded, TypeOK
<1>9. ASSUME NEW r \in Request, SelectFinds(r) PROVE Seeded'
  BY <1>9 DEF SelectFinds, ReturnError, Goto, dbVars, Seeded, TypeOK
<1>10. ASSUME NEW r \in Request, InsertCompany(r) PROVE Seeded'
  BY <1>10 DEF InsertCompany, Goto, dbVars, Seeded, TypeOK
<1>11. ASSUME NEW r \in Request, InsertUser(r) PROVE Seeded'
  BY <1>11 DEF InsertUser, Goto, dbVars, Seeded, TypeOK
<1>12. ASSUME NEW r \in Request, InsertConflicts(r) PROVE Seeded'
  BY <1>12 DEF InsertConflicts, ReturnError, ReleaseConn, Goto, dbVars,
     Seeded, TypeOK
<1>13. ASSUME NEW r \in Request, StatementFails(r) PROVE Seeded'
  BY <1>13 DEF StatementFails, ReturnError, ReleaseConn, Goto, dbVars, Seeded,
     TypeOK
<1>14. ASSUME NEW r \in Request, Commit(r) PROVE Seeded'
  BY <1>14 DEF Commit, ReleaseConn, Goto, Seeded, TypeOK
<1>15. ASSUME NEW r \in Request, CommitFails(r) PROVE Seeded'
  BY <1>15 DEF CommitFails, ReturnError, ReleaseConn, Goto, Seeded, TypeOK
<1>16. ASSUME NEW r \in Request, CreateDb(r) PROVE Seeded'
  BY <1>16 DEF CreateDb, Goto, dbVars, Seeded, TypeOK
<1>17. ASSUME NEW r \in Request, CreateDbFails(r) PROVE Seeded'
  BY <1>17 DEF CreateDbFails, ReturnError, Goto, dbVars, Seeded, TypeOK
<1>18. ASSUME NEW r \in Request, Seed(r) PROVE Seeded'
  BY <1>18 DEF Seed, Goto, Seeded, TypeOK
<1>19. ASSUME NEW r \in Request, SeedFails(r) PROVE Seeded'
  BY <1>19 DEF SeedFails, ReturnError, Goto, Seeded, TypeOK
<1>20. ASSUME NEW r \in Request, RedisSave(r) PROVE Seeded'
  BY <1>20 DEF RedisSave, ReturnOk, Goto, dbVars, Seeded, TypeOK
<1>21. ASSUME NEW r \in Request, RedisSaveFails(r) PROVE Seeded'
  BY <1>21 DEF RedisSaveFails, ReturnOk, Goto, dbVars, Seeded, TypeOK
<1>22. ASSUME NEW r \in Request, RollbackBegin(r) PROVE Seeded'
  BY <1>22 DEF RollbackBegin, TakeConn, Goto, dbVars, Seeded, TypeOK
<1>23. ASSUME NEW r \in Request, RollbackDelete(r) PROVE Seeded'
  BY <1>23 DEF RollbackDelete, Goto, dbVars, Seeded, TypeOK
<1>24. ASSUME NEW r \in Request, RollbackCommit(r) PROVE Seeded'
  BY <1>24 DEF RollbackCommit, ReleaseConn, Goto, Seeded, TypeOK
<1>25. ASSUME NEW r \in Request, RollbackFails(r) PROVE Seeded'
  BY <1>25 DEF RollbackFails, ReleaseConn, Goto, Seeded, TypeOK
<1>26. ASSUME Crash PROVE Seeded'
  BY <1>26 DEF Crash, Running, dbVars, Seeded, TypeOK
<1>27. CASE UNCHANGED vars
  BY <1>27 DEF vars, dbVars, Seeded, TypeOK
<1>28. QED
  BY <1>1, <1>2, <1>3, <1>4, <1>5, <1>6, <1>7, <1>8, <1>9, <1>10, <1>11,
     <1>12, <1>13, <1>14, <1>15, <1>16, <1>17, <1>18, <1>19, <1>20, <1>21,
     <1>22, <1>23, <1>24, <1>25, <1>26, <1>27 DEF Next, Progress, Failure

LEMMA ConnStep == TypeOK /\ Arrived /\ ConnAccounting /\ [Next]_vars => ConnAccounting'
<1> SUFFICES ASSUME TypeOK /\ Arrived /\ ConnAccounting, [Next]_vars PROVE ConnAccounting'
  OBVIOUS
<1>1. ASSUME NEW r \in Request, Arrive(r) PROVE ConnAccounting'
  BY <1>1 DEF Arrive, Goto, dbVars, ConnAccounting, InTx, TxStages, Leaked,
     TypeOK, Arrived
<1>2. ASSUME NEW r \in Request, Relay(r) PROVE ConnAccounting'
  BY <1>2 DEF Relay, dbVars, ConnAccounting, InTx, TxStages, Leaked, TypeOK
<1>3. ASSUME NEW r \in Request, Timeout(r) PROVE ConnAccounting'
  BY <1>3 DEF Timeout, dbVars, ConnAccounting, InTx, TxStages, Leaked, TypeOK
<1>4. ASSUME NEW r \in Request, RedisGet(r) PROVE ConnAccounting'
  BY <1>4 DEF RedisGet, Goto, dbVars, ConnAccounting, InTx, TxStages, Leaked,
     TypeOK
<1>5. ASSUME NEW r \in Request, RedisGetFails(r) PROVE ConnAccounting'
  BY <1>5 DEF RedisGetFails, ReturnError, Goto, dbVars, ConnAccounting, InTx,
     TxStages, Leaked, TypeOK
<1>6. ASSUME NEW r \in Request, Begin(r) PROVE ConnAccounting'
  BY <1>6 DEF Begin, TakeConn, Goto, dbVars, ConnAccounting, InTx, TxStages,
     Leaked, TypeOK
<1>7. ASSUME NEW r \in Request, BeginFails(r) PROVE ConnAccounting'
  BY <1>7 DEF BeginFails, ReturnError, Goto, dbVars, ConnAccounting, InTx,
     TxStages, Leaked, TypeOK
<1>8. ASSUME NEW r \in Request, SelectEmpty(r) PROVE ConnAccounting'
  BY <1>8 DEF SelectEmpty, Goto, dbVars, ConnAccounting, InTx, TxStages,
     Leaked, TypeOK
<1>9. ASSUME NEW r \in Request, SelectFinds(r) PROVE ConnAccounting'
  BY <1>9 DEF SelectFinds, ReturnError, Goto, dbVars, ConnAccounting, InTx,
     TxStages, Leaked, TypeOK
<1>10. ASSUME NEW r \in Request, InsertCompany(r) PROVE ConnAccounting'
  BY <1>10 DEF InsertCompany, Goto, dbVars, ConnAccounting, InTx, TxStages,
     Leaked, TypeOK
<1>11. ASSUME NEW r \in Request, InsertUser(r) PROVE ConnAccounting'
  BY <1>11 DEF InsertUser, Goto, dbVars, ConnAccounting, InTx, TxStages,
     Leaked, TypeOK
<1>12. ASSUME NEW r \in Request, InsertConflicts(r) PROVE ConnAccounting'
  BY <1>12 DEF InsertConflicts, ReturnError, ReleaseConn, Goto, dbVars,
     ConnAccounting, InTx, TxStages, Leaked, TypeOK
<1>13. ASSUME NEW r \in Request, StatementFails(r) PROVE ConnAccounting'
  BY <1>13 DEF StatementFails, ReturnError, ReleaseConn, Goto, dbVars,
     ConnAccounting, InTx, TxStages, Leaked, TypeOK
<1>14. ASSUME NEW r \in Request, Commit(r) PROVE ConnAccounting'
  BY <1>14 DEF Commit, ReleaseConn, Goto, ConnAccounting, InTx, TxStages,
     Leaked, TypeOK
<1>15. ASSUME NEW r \in Request, CommitFails(r) PROVE ConnAccounting'
  BY <1>15 DEF CommitFails, ReturnError, ReleaseConn, Goto, ConnAccounting,
     InTx, TxStages, Leaked, TypeOK
<1>16. ASSUME NEW r \in Request, CreateDb(r) PROVE ConnAccounting'
  BY <1>16 DEF CreateDb, Goto, dbVars, ConnAccounting, InTx, TxStages, Leaked,
     TypeOK
<1>17. ASSUME NEW r \in Request, CreateDbFails(r) PROVE ConnAccounting'
  BY <1>17 DEF CreateDbFails, ReturnError, Goto, dbVars, ConnAccounting, InTx,
     TxStages, Leaked, TypeOK
<1>18. ASSUME NEW r \in Request, Seed(r) PROVE ConnAccounting'
  BY <1>18 DEF Seed, Goto, ConnAccounting, InTx, TxStages, Leaked, TypeOK
<1>19. ASSUME NEW r \in Request, SeedFails(r) PROVE ConnAccounting'
  BY <1>19 DEF SeedFails, ReturnError, Goto, ConnAccounting, InTx, TxStages,
     Leaked, TypeOK
<1>20. ASSUME NEW r \in Request, RedisSave(r) PROVE ConnAccounting'
  BY <1>20 DEF RedisSave, ReturnOk, Goto, dbVars, ConnAccounting, InTx,
     TxStages, Leaked, TypeOK
<1>21. ASSUME NEW r \in Request, RedisSaveFails(r) PROVE ConnAccounting'
  BY <1>21 DEF RedisSaveFails, ReturnOk, Goto, dbVars, ConnAccounting, InTx,
     TxStages, Leaked, TypeOK
<1>22. ASSUME NEW r \in Request, RollbackBegin(r) PROVE ConnAccounting'
  BY <1>22 DEF RollbackBegin, TakeConn, Goto, dbVars, ConnAccounting, InTx,
     TxStages, Leaked, TypeOK
<1>23. ASSUME NEW r \in Request, RollbackDelete(r) PROVE ConnAccounting'
  BY <1>23 DEF RollbackDelete, Goto, dbVars, ConnAccounting, InTx, TxStages,
     Leaked, TypeOK
<1>24. ASSUME NEW r \in Request, RollbackCommit(r) PROVE ConnAccounting'
  BY <1>24 DEF RollbackCommit, ReleaseConn, Goto, ConnAccounting, InTx,
     TxStages, Leaked, TypeOK
<1>25. ASSUME NEW r \in Request, RollbackFails(r) PROVE ConnAccounting'
  BY <1>25 DEF RollbackFails, ReleaseConn, Goto, ConnAccounting, InTx,
     TxStages, Leaked, TypeOK
<1>26. ASSUME Crash PROVE ConnAccounting'
  BY <1>26 DEF Crash, Running, dbVars, ConnAccounting, InTx, TxStages, Leaked,
     TypeOK
<1>27. CASE UNCHANGED vars
  BY <1>27 DEF vars, dbVars, ConnAccounting, InTx, TxStages, Leaked, TypeOK
<1>28. QED
  BY <1>1, <1>2, <1>3, <1>4, <1>5, <1>6, <1>7, <1>8, <1>9, <1>10, <1>11,
     <1>12, <1>13, <1>14, <1>15, <1>16, <1>17, <1>18, <1>19, <1>20, <1>21,
     <1>22, <1>23, <1>24, <1>25, <1>26, <1>27 DEF Next, Progress, Failure

\* A step after which every held key was held before keeps the keys unique.
LEMMA HeldShrinks ==
  ASSUME KeysHeldUnique, form' = form,
         \A q \in Request : CompanyHeld(q)' => CompanyHeld(q),
         \A q \in Request : UserHeld(q)' => UserHeld(q)
  PROVE  KeysHeldUnique'
  BY DEF KeysHeldUnique, SameAddress, SameUser

LEMMA KeysHeldStep == TypeOK /\ Arrived /\ KeysHeldUnique /\ [Next]_vars => KeysHeldUnique'
<1> SUFFICES ASSUME TypeOK /\ Arrived /\ KeysHeldUnique, [Next]_vars PROVE KeysHeldUnique'
  OBVIOUS
<1>1. ASSUME NEW r \in Request, Arrive(r) PROVE KeysHeldUnique'
  <2>1. ~CompanyHeld(r)' /\ ~UserHeld(r)'
    BY <1>1 DEF Arrive, Goto, dbVars, Arrived, CompanyHeld, UserHeld, TypeOK
  <2>2. ASSUME NEW q \in Request, q # r
        PROVE  /\ form'[q] = form[q]
               /\ CompanyHeld(q)' <=> CompanyHeld(q)
               /\ UserHeld(q)' <=> UserHeld(q)
    BY <1>1, <2>2 DEF Arrive, Goto, dbVars, CompanyHeld, UserHeld, TypeOK
  <2>3. QED
    BY <2>1, <2>2 DEF KeysHeldUnique, SameAddress, SameUser
<1>2. ASSUME NEW r \in Request, Relay(r) PROVE KeysHeldUnique'
  <2>1. /\ form' = form
        /\ \A q \in Request : CompanyHeld(q)' => CompanyHeld(q)
        /\ \A q \in Request : UserHeld(q)' => UserHeld(q)
    BY <1>2 DEF Relay, dbVars, CompanyHeld, UserHeld, TypeOK
  <2>2. QED
    BY <2>1, HeldShrinks
<1>3. ASSUME NEW r \in Request, Timeout(r) PROVE KeysHeldUnique'
  <2>1. /\ form' = form
        /\ \A q \in Request : CompanyHeld(q)' => CompanyHeld(q)
        /\ \A q \in Request : UserHeld(q)' => UserHeld(q)
    BY <1>3 DEF Timeout, dbVars, CompanyHeld, UserHeld, TypeOK
  <2>2. QED
    BY <2>1, HeldShrinks
<1>4. ASSUME NEW r \in Request, RedisGet(r) PROVE KeysHeldUnique'
  <2>1. /\ form' = form
        /\ \A q \in Request : CompanyHeld(q)' => CompanyHeld(q)
        /\ \A q \in Request : UserHeld(q)' => UserHeld(q)
    BY <1>4 DEF RedisGet, Goto, dbVars, CompanyHeld, UserHeld, TypeOK
  <2>2. QED
    BY <2>1, HeldShrinks
<1>5. ASSUME NEW r \in Request, RedisGetFails(r) PROVE KeysHeldUnique'
  <2>1. /\ form' = form
        /\ \A q \in Request : CompanyHeld(q)' => CompanyHeld(q)
        /\ \A q \in Request : UserHeld(q)' => UserHeld(q)
    BY <1>5 DEF RedisGetFails, ReturnError, Goto, dbVars, CompanyHeld, UserHeld,
       TypeOK
  <2>2. QED
    BY <2>1, HeldShrinks
<1>6. ASSUME NEW r \in Request, Begin(r) PROVE KeysHeldUnique'
  <2>1. /\ form' = form
        /\ \A q \in Request : CompanyHeld(q)' => CompanyHeld(q)
        /\ \A q \in Request : UserHeld(q)' => UserHeld(q)
    BY <1>6 DEF Begin, TakeConn, Goto, dbVars, CompanyHeld, UserHeld, TypeOK
  <2>2. QED
    BY <2>1, HeldShrinks
<1>7. ASSUME NEW r \in Request, BeginFails(r) PROVE KeysHeldUnique'
  <2>1. /\ form' = form
        /\ \A q \in Request : CompanyHeld(q)' => CompanyHeld(q)
        /\ \A q \in Request : UserHeld(q)' => UserHeld(q)
    BY <1>7 DEF BeginFails, ReturnError, Goto, dbVars, CompanyHeld, UserHeld,
       TypeOK
  <2>2. QED
    BY <2>1, HeldShrinks
<1>8. ASSUME NEW r \in Request, SelectEmpty(r) PROVE KeysHeldUnique'
  <2>1. /\ form' = form
        /\ \A q \in Request : CompanyHeld(q)' => CompanyHeld(q)
        /\ \A q \in Request : UserHeld(q)' => UserHeld(q)
    BY <1>8 DEF SelectEmpty, Goto, dbVars, CompanyHeld, UserHeld, TypeOK
  <2>2. QED
    BY <2>1, HeldShrinks
<1>9. ASSUME NEW r \in Request, SelectFinds(r) PROVE KeysHeldUnique'
  <2>1. /\ form' = form
        /\ \A q \in Request : CompanyHeld(q)' => CompanyHeld(q)
        /\ \A q \in Request : UserHeld(q)' => UserHeld(q)
    BY <1>9 DEF SelectFinds, ReturnError, Goto, dbVars, CompanyHeld, UserHeld,
       TypeOK
  <2>2. QED
    BY <2>1, HeldShrinks
<1>10. ASSUME NEW r \in Request, InsertCompany(r) PROVE KeysHeldUnique'
  <2>1. ASSUME NEW q \in Request
        PROVE  /\ form'[q] = form[q]
               /\ CompanyHeld(q)' <=> CompanyHeld(q) \/ q = r
               /\ UserHeld(q)' <=> UserHeld(q)
    BY <1>10 DEF InsertCompany, Goto, dbVars, CompanyHeld, UserHeld, TypeOK
  <2>2. ASSUME NEW q \in Request, q # r, CompanyHeld(q)
        PROVE  ~SameAddress(r, q)
    BY <1>10, <2>2 DEF InsertCompany, AddressFree, CompanyHeld, CompanyLocked
  <2>3. QED
    BY <2>1, <2>2 DEF KeysHeldUnique, SameAddress, SameUser
<1>11. ASSUME NEW r \in Request, InsertUser(r) PROVE KeysHeldUnique'
  <2>1. ASSUME NEW q \in Request
        PROVE  /\ form'[q] = form[q]
               /\ CompanyHeld(q)' <=> CompanyHeld(q)
               /\ UserHeld(q)' <=> UserHeld(q) \/ q = r
    BY <1>11 DEF InsertUser, Goto, dbVars, CompanyHeld, UserHeld, TypeOK
  <2>2. ASSUME NEW q \in Request, q # r, UserHeld(q)
        PROVE  ~SameUser(r, q)
    BY <1>11, <2>2 DEF InsertUser, UserFree, UserHeld, UserLocked
  <2>3. QED
    BY <2>1, <2>2 DEF KeysHeldUnique, SameAddress, SameUser
<1>12. ASSUME NEW r \in Request, InsertConflicts(r) PROVE KeysHeldUnique'
  <2>1. /\ form' = form
        /\ \A q \in Request : CompanyHeld(q)' => CompanyHeld(q)
        /\ \A q \in Request : UserHeld(q)' => UserHeld(q)
    BY <1>12 DEF InsertConflicts, ReturnError, ReleaseConn, Goto, dbVars,
       CompanyHeld, UserHeld, TypeOK
  <2>2. QED
    BY <2>1, HeldShrinks
<1>13. ASSUME NEW r \in Request, StatementFails(r) PROVE KeysHeldUnique'
  <2>1. /\ form' = form
        /\ \A q \in Request : CompanyHeld(q)' => CompanyHeld(q)
        /\ \A q \in Request : UserHeld(q)' => UserHeld(q)
    BY <1>13 DEF StatementFails, ReturnError, ReleaseConn, Goto, dbVars,
       CompanyHeld, UserHeld, TypeOK
  <2>2. QED
    BY <2>1, HeldShrinks
<1>14. ASSUME NEW r \in Request, Commit(r) PROVE KeysHeldUnique'
  <2>1. /\ form' = form
        /\ \A q \in Request : CompanyHeld(q)' => CompanyHeld(q)
        /\ \A q \in Request : UserHeld(q)' => UserHeld(q)
    BY <1>14 DEF Commit, ReleaseConn, Goto, CompanyHeld, UserHeld, TypeOK
  <2>2. QED
    BY <2>1, HeldShrinks
<1>15. ASSUME NEW r \in Request, CommitFails(r) PROVE KeysHeldUnique'
  <2>1. /\ form' = form
        /\ \A q \in Request : CompanyHeld(q)' => CompanyHeld(q)
        /\ \A q \in Request : UserHeld(q)' => UserHeld(q)
    BY <1>15 DEF CommitFails, ReturnError, ReleaseConn, Goto, CompanyHeld, UserHeld,
       TypeOK
  <2>2. QED
    BY <2>1, HeldShrinks
<1>16. ASSUME NEW r \in Request, CreateDb(r) PROVE KeysHeldUnique'
  <2>1. /\ form' = form
        /\ \A q \in Request : CompanyHeld(q)' => CompanyHeld(q)
        /\ \A q \in Request : UserHeld(q)' => UserHeld(q)
    BY <1>16 DEF CreateDb, Goto, dbVars, CompanyHeld, UserHeld, TypeOK
  <2>2. QED
    BY <2>1, HeldShrinks
<1>17. ASSUME NEW r \in Request, CreateDbFails(r) PROVE KeysHeldUnique'
  <2>1. /\ form' = form
        /\ \A q \in Request : CompanyHeld(q)' => CompanyHeld(q)
        /\ \A q \in Request : UserHeld(q)' => UserHeld(q)
    BY <1>17 DEF CreateDbFails, ReturnError, Goto, dbVars, CompanyHeld, UserHeld,
       TypeOK
  <2>2. QED
    BY <2>1, HeldShrinks
<1>18. ASSUME NEW r \in Request, Seed(r) PROVE KeysHeldUnique'
  <2>1. /\ form' = form
        /\ \A q \in Request : CompanyHeld(q)' => CompanyHeld(q)
        /\ \A q \in Request : UserHeld(q)' => UserHeld(q)
    BY <1>18 DEF Seed, Goto, CompanyHeld, UserHeld, TypeOK
  <2>2. QED
    BY <2>1, HeldShrinks
<1>19. ASSUME NEW r \in Request, SeedFails(r) PROVE KeysHeldUnique'
  <2>1. /\ form' = form
        /\ \A q \in Request : CompanyHeld(q)' => CompanyHeld(q)
        /\ \A q \in Request : UserHeld(q)' => UserHeld(q)
    BY <1>19 DEF SeedFails, ReturnError, Goto, CompanyHeld, UserHeld, TypeOK
  <2>2. QED
    BY <2>1, HeldShrinks
<1>20. ASSUME NEW r \in Request, RedisSave(r) PROVE KeysHeldUnique'
  <2>1. /\ form' = form
        /\ \A q \in Request : CompanyHeld(q)' => CompanyHeld(q)
        /\ \A q \in Request : UserHeld(q)' => UserHeld(q)
    BY <1>20 DEF RedisSave, ReturnOk, Goto, dbVars, CompanyHeld, UserHeld, TypeOK
  <2>2. QED
    BY <2>1, HeldShrinks
<1>21. ASSUME NEW r \in Request, RedisSaveFails(r) PROVE KeysHeldUnique'
  <2>1. /\ form' = form
        /\ \A q \in Request : CompanyHeld(q)' => CompanyHeld(q)
        /\ \A q \in Request : UserHeld(q)' => UserHeld(q)
    BY <1>21 DEF RedisSaveFails, ReturnOk, Goto, dbVars, CompanyHeld, UserHeld,
       TypeOK
  <2>2. QED
    BY <2>1, HeldShrinks
<1>22. ASSUME NEW r \in Request, RollbackBegin(r) PROVE KeysHeldUnique'
  <2>1. /\ form' = form
        /\ \A q \in Request : CompanyHeld(q)' => CompanyHeld(q)
        /\ \A q \in Request : UserHeld(q)' => UserHeld(q)
    BY <1>22 DEF RollbackBegin, TakeConn, Goto, dbVars, CompanyHeld, UserHeld,
       TypeOK
  <2>2. QED
    BY <2>1, HeldShrinks
<1>23. ASSUME NEW r \in Request, RollbackDelete(r) PROVE KeysHeldUnique'
  <2>1. /\ form' = form
        /\ \A q \in Request : CompanyHeld(q)' => CompanyHeld(q)
        /\ \A q \in Request : UserHeld(q)' => UserHeld(q)
    BY <1>23 DEF RollbackDelete, Goto, dbVars, CompanyHeld, UserHeld, TypeOK
  <2>2. QED
    BY <2>1, HeldShrinks
<1>24. ASSUME NEW r \in Request, RollbackCommit(r) PROVE KeysHeldUnique'
  <2>1. /\ form' = form
        /\ \A q \in Request : CompanyHeld(q)' => CompanyHeld(q)
        /\ \A q \in Request : UserHeld(q)' => UserHeld(q)
    BY <1>24 DEF RollbackCommit, ReleaseConn, Goto, CompanyHeld, UserHeld, TypeOK
  <2>2. QED
    BY <2>1, HeldShrinks
<1>25. ASSUME NEW r \in Request, RollbackFails(r) PROVE KeysHeldUnique'
  <2>1. /\ form' = form
        /\ \A q \in Request : CompanyHeld(q)' => CompanyHeld(q)
        /\ \A q \in Request : UserHeld(q)' => UserHeld(q)
    BY <1>25 DEF RollbackFails, ReleaseConn, Goto, CompanyHeld, UserHeld, TypeOK
  <2>2. QED
    BY <2>1, HeldShrinks
<1>26. ASSUME Crash PROVE KeysHeldUnique'
  BY <1>26, HeldShrinks DEF Crash, Running, dbVars, CompanyHeld, UserHeld,
     TypeOK
<1>27. CASE UNCHANGED vars
  BY <1>27 DEF vars, dbVars, CompanyHeld, UserHeld, TypeOK, KeysHeldUnique,
     SameAddress, SameUser
<1>28. QED
  BY <1>1, <1>2, <1>3, <1>4, <1>5, <1>6, <1>7, <1>8, <1>9, <1>10, <1>11,
     <1>12, <1>13, <1>14, <1>15, <1>16, <1>17, <1>18, <1>19, <1>20, <1>21,
     <1>22, <1>23, <1>24, <1>25, <1>26, <1>27 DEF Next, Progress, Failure

LEMMA NextIInv == IInv /\ [Next]_vars => IInv'
  BY TypeStep, ArrivedStep, AccountWholeStep, KeysHeldStep, CompensationStep,
     SeededStep, ConnStep DEF IInv

LEMMA Invariance == Spec => []IInv
  BY InitIInv, NextIInv, PTL DEF Spec

-----------------------------------------------------------------------------
(* The theorems.                                                             *)

\* Every variable keeps its type: in particular RegisterCompany answers with
\* one of its codes, and callRegisterCompany with one of its statuses.
THEOREM TypeCorrect == Spec => []TypeOK
  BY Invariance, PTL DEF IInv

\* No two committed accounts share an address, an e-mail or a phone.
THEOREM UniqueKeys == Spec => []KeysUnique
<1>1. IInv => KeysUnique
  BY DEF IInv, KeysHeldUnique, KeysUnique, CompanyHeld, UserHeld
<1>2. QED
  BY <1>1, Invariance, PTL

\* The authorization database never holds half an account.
THEOREM WholeAccounts == Spec => []AccountWhole
  BY Invariance, PTL DEF IInv

\* Only the answer "the company exists already" leaks a pool connection.
THEOREM ConnectionsAccounted == Spec => []ConnAccounting
  BY Invariance, PTL DEF IInv

\* "created" is only read for a seeded company database.
THEOREM CreatedMeansSeeded == Spec => []CreatedIsSeeded
<1>1. IInv => CreatedIsSeeded
  BY DEF IInv, Seeded, CreatedIsSeeded
<1>2. QED
  BY <1>1, Invariance, PTL

-----------------------------------------------------------------------------
(* A committed account stays, except for its own compensation.               *)

KeptOrCompensated ==
    \A r \in Request : r \in companies \cup authusers =>
        \/ r \in companies' /\ r \in authusers'
        \/ pc[r] = "rollbackCommit" /\ answer[r].code = "OK"

LEMMA DeletesOwnStep == AccountWhole /\ Compensation /\ [Next]_vars => KeptOrCompensated
<1> SUFFICES ASSUME AccountWhole /\ Compensation, [Next]_vars PROVE KeptOrCompensated
  OBVIOUS
<1>1. ASSUME NEW r \in Request,
             Arrive(r) \/ Relay(r) \/ Timeout(r) \/ RedisGet(r) \/
             RedisGetFails(r) \/ Begin(r) \/ BeginFails(r) \/ SelectEmpty(r)
             \/ SelectFinds(r) \/ InsertCompany(r) \/ InsertUser(r) \/
             InsertConflicts(r) \/ StatementFails(r) \/ CreateDb(r) \/
             CreateDbFails(r) \/ Seed(r) \/ SeedFails(r) \/ RedisSave(r) \/
             RedisSaveFails(r) \/ RollbackBegin(r) \/ RollbackDelete(r)
      PROVE  KeptOrCompensated
  BY <1>1 DEF Arrive, Relay, Timeout, RedisGet, RedisGetFails, Begin,
     BeginFails, SelectEmpty, SelectFinds, InsertCompany, InsertUser,
     InsertConflicts, StatementFails, CreateDb, CreateDbFails, Seed,
     SeedFails, RedisSave, RedisSaveFails, RollbackBegin, RollbackDelete,
     Goto, dbVars, ReturnError, TakeConn, ReleaseConn, ReturnOk,
     KeptOrCompensated, AccountWhole
<1>2. ASSUME NEW r \in Request, Commit(r) PROVE KeptOrCompensated
  BY <1>2 DEF Commit, ReleaseConn, Goto, KeptOrCompensated, AccountWhole
<1>3. ASSUME NEW r \in Request, CommitFails(r) PROVE KeptOrCompensated
  BY <1>3 DEF CommitFails, ReturnError, ReleaseConn, Goto, KeptOrCompensated,
     AccountWhole
<1>4. ASSUME NEW r \in Request, RollbackCommit(r) PROVE KeptOrCompensated
  <2>1. pc[r] = "rollbackCommit" => companyId[r] = r /\ answer[r].code = "OK"
    BY NoneAssumption DEF Compensation
  <2>2. QED
    BY <1>4, <2>1 DEF RollbackCommit, KeptOrCompensated, AccountWhole
<1>5. ASSUME NEW r \in Request, RollbackFails(r) PROVE KeptOrCompensated
  <2>1. pc[r] = "rollbackCommit" => companyId[r] = r /\ answer[r].code = "OK"
    BY NoneAssumption DEF Compensation
  <2>2. QED
    BY <1>5, <2>1 DEF RollbackFails, KeptOrCompensated, AccountWhole
<1>6. ASSUME Crash PROVE KeptOrCompensated
  BY <1>6 DEF Crash, Running, dbVars, KeptOrCompensated, AccountWhole
<1>7. CASE UNCHANGED vars
  BY <1>7 DEF vars, dbVars, KeptOrCompensated, AccountWhole
<1>8. QED
  BY <1>1, <1>2, <1>3, <1>4, <1>5, <1>6, <1>7 DEF Next, Progress, Failure

\* An account is deleted only by its own request's compensation, and only
\* after that request has answered OK.
THEOREM OnlyOwnDeletion == Spec => DeletesOwn
<1>1. IInv /\ [Next]_vars => [KeptOrCompensated]_dbVars
  BY DeletesOwnStep DEF IInv
<1>2. QED
  BY <1>1, Invariance, PTL DEF Spec, DeletesOwn, KeptOrCompensated

-----------------------------------------------------------------------------
(* Refinement: the committed accounts form an account directory.             *)

\* A step in which nobody's account appears or disappears is a stutter.
LEMMA SameAccounts ==
  ASSUME companies' = companies, authusers' = authusers,
         \A q \in companies : form'[q] = form[q]
  PROVE  Accounts' = Accounts
  BY DEF Accounts

\* The account of a request that commits opens in the directory.
LEMMA OpenAccount ==
  ASSUME TypeOK, Arrived, AccountWhole, KeysHeldUnique,
         NEW r \in Request, pc[r] = "commit", form' = form,
         companies' = companies \cup {r}, authusers' = authusers \cup {r}
  PROVE  [Directory!Next]_Accounts
<1>1. CASE r \in companies
  BY <1>1 DEF AccountWhole, Accounts
<1>2. CASE r \notin companies
  <2>1. form[r] \in Form
    BY DEF Arrived
  <2>2. Accounts' = Accounts \cup {form[r]}
    BY DEF AccountWhole, Accounts
  <2>3. ASSUME NEW q \in companies \cap authusers
        PROVE  ~Directory!Clash(form[r], form[q])
    BY <1>2, <2>3 DEF KeysHeldUnique, CompanyHeld, UserHeld, SameAddress,
       SameUser, Directory!Clash, TypeOK
  <2>4. \A g \in Accounts : ~Directory!Clash(form[r], g)
    BY <2>3 DEF Accounts
  <2>5. Directory!Open(form[r])
    BY <2>2, <2>4 DEF Directory!Open
  <2>6. \E f \in Form : Directory!Open(f)
    BY <2>1, <2>5
  <2>7. QED
    BY <2>6 DEF Directory!Next
<1>3. QED
  BY <1>1, <1>2

\* A compensation that commits closes the account of its request.
LEMMA CloseAccount ==
  ASSUME TypeOK, Arrived, AccountWhole, KeysHeldUnique,
         NEW r \in Request, pc[r] = "rollbackCommit", form' = form,
         companies' = companies \ {r}, authusers' = authusers \ {r}
  PROVE  [Directory!Next]_Accounts
<1>1. CASE r \notin companies
  <2>1. r \notin authusers
    BY <1>1 DEF AccountWhole
  <2>2. QED
    BY <1>1, <2>1 DEF Accounts
<1>2. CASE r \in companies
  <2>1. form[r] \in Form /\ form[r] \in Accounts
    BY <1>2 DEF Arrived, AccountWhole, Accounts
  <2>2. ASSUME NEW q \in companies \cap authusers, q # r
        PROVE  form[q] # form[r]
    BY <1>2, <2>2 DEF KeysHeldUnique, CompanyHeld, SameAddress, TypeOK
  <2>3. Accounts' = Accounts \ {form[r]}
    BY <2>2 DEF Accounts
  <2>4. Directory!Close(form[r])
    BY <2>1, <2>3 DEF Directory!Close
  <2>5. \E f \in Form : Directory!Close(f)
    BY <2>1, <2>4
  <2>6. QED
    BY <2>5 DEF Directory!Next
<1>3. QED
  BY <1>1, <1>2

LEMMA DirectoryStep == IInv /\ [Next]_vars => [Directory!Next]_Accounts
<1> SUFFICES ASSUME IInv, [Next]_vars PROVE [Directory!Next]_Accounts
  OBVIOUS
<1>1. ASSUME NEW r \in Request, Arrive(r) PROVE [Directory!Next]_Accounts
  <2>1. \A q \in companies : form'[q] = form[q]
    BY <1>1 DEF Arrive, IInv, Arrived, TypeOK
  <2>2. QED
    BY <1>1, <2>1, SameAccounts DEF Arrive, dbVars
<1>2. ASSUME NEW r \in Request,
             Relay(r) \/ Timeout(r) \/ RedisGet(r) \/ RedisGetFails(r) \/
             Begin(r) \/ BeginFails(r) \/ SelectEmpty(r) \/ SelectFinds(r) \/
             InsertCompany(r) \/ InsertUser(r) \/ InsertConflicts(r) \/
             StatementFails(r) \/ CreateDb(r) \/ CreateDbFails(r) \/ Seed(r)
             \/ SeedFails(r) \/ RedisSave(r) \/ RedisSaveFails(r) \/
             RollbackBegin(r) \/ RollbackDelete(r)
      PROVE  [Directory!Next]_Accounts
  BY <1>2, SameAccounts DEF Relay, Timeout, RedisGet, RedisGetFails, Begin,
     BeginFails, SelectEmpty, SelectFinds, InsertCompany, InsertUser,
     InsertConflicts, StatementFails, CreateDb, CreateDbFails, Seed,
     SeedFails, RedisSave, RedisSaveFails, RollbackBegin, RollbackDelete,
     dbVars
<1>3. ASSUME NEW r \in Request, Commit(r) PROVE [Directory!Next]_Accounts
  BY <1>3, OpenAccount DEF Commit, IInv
<1>4. ASSUME NEW r \in Request, CommitFails(r) PROVE [Directory!Next]_Accounts
  <2>1. CASE companies' = companies /\ authusers' = authusers
    BY <1>4, <2>1, SameAccounts DEF CommitFails
  <2>2. CASE companies' = companies \cup {r} /\ authusers' = authusers \cup {r}
    BY <1>4, <2>2, OpenAccount DEF CommitFails, IInv
  <2>3. QED
    BY <1>4, <2>1, <2>2 DEF CommitFails
<1>5. ASSUME NEW r \in Request, RollbackCommit(r) PROVE [Directory!Next]_Accounts
  BY <1>5, CloseAccount DEF RollbackCommit, IInv, Compensation
<1>6. ASSUME NEW r \in Request, RollbackFails(r) PROVE [Directory!Next]_Accounts
  <2>1. CASE companies' = companies /\ authusers' = authusers
    BY <1>6, <2>1, SameAccounts DEF RollbackFails
  <2>2. CASE ~(companies' = companies /\ authusers' = authusers)
    BY <1>6, <2>2, CloseAccount DEF RollbackFails, IInv, Compensation
  <2>3. QED
    BY <2>1, <2>2
<1>7. ASSUME Crash PROVE [Directory!Next]_Accounts
  BY <1>7, SameAccounts DEF Crash, Running, dbVars
<1>8. CASE UNCHANGED vars
  BY <1>8, SameAccounts DEF vars, dbVars
<1>9. QED
  BY <1>1, <1>2, <1>3, <1>4, <1>5, <1>6, <1>7, <1>8 DEF Next, Progress,
     Failure

\* Registration implements the account directory.
THEOREM RefinesDirectory == Spec => ImplementsDirectory
<1>1. Init => Directory!Init
  BY DEF Init, Directory!Init, Accounts
<1>2. QED
  BY <1>1, DirectoryStep, Invariance, PTL
     DEF Spec, ImplementsDirectory, Directory!Spec

-----------------------------------------------------------------------------
(* Waiting.  A registration waits, without a deadline, for a connection of   *)
(* the pool and for the keys that other open transactions hold; nothing else *)
(* in the guards of Progress can keep a call that is running from going on.  *)

Waits(r) ==
    \/ pc[r] \in {"begin", "rollbackBegin"} /\ ~FreeConn
    \/ pc[r] = "insertCompany" /\ ~AddressFree(r)
    \/ pc[r] = "insertUser" /\ ~UserFree(r)

SomebodyGoesOn == \E r \in Request : Running(r) /\ ~Waits(r)

\* Keys are taken in one order, the company's before the user's, and who holds
\* all of them waits for nothing...
LEMMA KeyHoldersGoOn ==
  ASSUME TypeOK, NEW r \in Request, InTx(r)
  PROVE  SomebodyGoesOn
<1>1. ASSUME NEW q \in Request, UserLocked(q) PROVE SomebodyGoesOn
  BY <1>1 DEF UserLocked, SomebodyGoesOn, Running, Waits
<1>2. ASSUME NEW q \in Request, pc[q] = "insertUser" PROVE SomebodyGoesOn
  BY <1>1, <1>2 DEF UserFree, SomebodyGoesOn, Running, Waits
<1>3. ASSUME NEW q \in Request, CompanyLocked(q) PROVE SomebodyGoesOn
  BY <1>1, <1>2, <1>3 DEF CompanyLocked, UserLocked
<1>4. CASE pc[r] = "insertCompany"
  BY <1>3, <1>4 DEF AddressFree, SomebodyGoesOn, Running, Waits
<1>5. CASE pc[r] \in {"select", "commit", "rollbackDelete", "rollbackCommit"}
  BY <1>5 DEF SomebodyGoesOn, Running, Waits
<1>6. QED
  BY <1>2, <1>4, <1>5 DEF InTx, TxStages

\* ...and a connection that is out has such a transaction, unless it is leaked.
LEMMA PoolHoldersGoOn ==
  ASSUME TypeOK, ConnAccounting, Cardinality(Leaked) < PoolSize, ~FreeConn
  PROVE  SomebodyGoesOn
<1>1. PICK q \in authConn : q \notin Leaked
  <2>1. CASE authConn \subseteq Leaked
    <3>1. authConn = Leaked
      BY <2>1 DEF Leaked
    <3>2. QED
      BY <3>1 DEF FreeConn
  <2>2. QED
    BY <2>1
<1>2. q \in Request /\ InTx(q)
  BY <1>1 DEF TypeOK, ConnAccounting
<1>3. QED
  BY <1>2, KeyHoldersGoOn

LEMMA RunningGoOn ==
  ASSUME TypeOK, ConnAccounting, Cardinality(Leaked) < PoolSize,
         NEW r \in Request, Running(r)
  PROVE  SomebodyGoesOn
<1>1. CASE ~Waits(r)
  BY <1>1 DEF SomebodyGoesOn
<1>2. CASE ~FreeConn
  BY <1>2, PoolHoldersGoOn
<1>3. CASE pc[r] \in {"insertCompany", "insertUser"}
  BY <1>3, KeyHoldersGoOn DEF InTx, TxStages
<1>4. QED
  BY <1>1, <1>2, <1>3 DEF Waits

\* Registrations never all wait for each other: as long as a connection of the
\* pool is not leaked and a call runs, one of them can take its next step.
THEOREM NoDeadlock ==
  Spec => [](Cardinality(Leaked) < PoolSize /\ (\E r \in Request : Running(r))
                => SomebodyGoesOn)
<1>1. IInv => (Cardinality(Leaked) < PoolSize /\ (\E r \in Request : Running(r))
                  => SomebodyGoesOn)
  BY RunningGoOn DEF IInv
<1>2. QED
  BY <1>1, Invariance, PTL

\* The stages in the order in which a call passes them.
Rank(stage) ==
    CASE stage = "idle" -> 0
      [] stage = "redisGet" -> 1
      [] stage = "begin" -> 2
      [] stage = "select" -> 3
      [] stage = "insertCompany" -> 4
      [] stage = "insertUser" -> 5
      [] stage = "commit" -> 6
      [] stage = "createDb" -> 7
      [] stage = "seed" -> 8
      [] stage = "redisSave" -> 9
      [] stage = "rollbackBegin" -> 10
      [] stage = "rollbackDelete" -> 11
      [] stage = "rollbackCommit" -> 12
      [] stage = "done" -> 13

Forward ==
    \A r \in Request : pc'[r] # pc[r] => Rank(pc[r]) < Rank(pc'[r])

LEMMA ForwardStep == TypeOK /\ [Next]_vars => Forward
<1> SUFFICES ASSUME TypeOK, [Next]_vars PROVE Forward
  OBVIOUS
<1>1. ASSUME NEW r \in Request, NEW stage \in Stages, Goto(r, stage),
             Rank(pc[r]) < Rank(stage)
      PROVE  Forward
  BY <1>1 DEF Goto, Forward, TypeOK
<1>2. ASSUME NEW r \in Request,
             Arrive(r) \/ RedisGet(r) \/ RedisGetFails(r) \/ Begin(r) \/
             BeginFails(r) \/ SelectEmpty(r) \/ SelectFinds(r)
      PROVE  Forward
  BY <1>1, <1>2 DEF Arrive, RedisGet, RedisGetFails, Begin, BeginFails,
     SelectEmpty, SelectFinds, Rank, Stages, TxStages
<1>3. ASSUME NEW r \in Request,
             InsertCompany(r) \/ InsertUser(r) \/ InsertConflicts(r) \/
             StatementFails(r) \/ Commit(r) \/ CommitFails(r)
      PROVE  Forward
  BY <1>1, <1>3 DEF InsertCompany, InsertUser, InsertConflicts,
     StatementFails, Commit, CommitFails, Rank, Stages, TxStages
<1>4. ASSUME NEW r \in Request,
             CreateDb(r) \/ CreateDbFails(r) \/ Seed(r) \/ SeedFails(r) \/
             RedisSave(r) \/ RedisSaveFails(r)
      PROVE  Forward
  BY <1>1, <1>4 DEF CreateDb, CreateDbFails, Seed, SeedFails, RedisSave,
     RedisSaveFails, Rank, Stages, TxStages
<1>5. ASSUME NEW r \in Request,
             RollbackBegin(r) \/ RollbackDelete(r) \/ RollbackCommit(r) \/
             RollbackFails(r)
      PROVE  Forward
  BY <1>1, <1>5 DEF RollbackBegin, RollbackDelete, RollbackCommit,
     RollbackFails, Rank, Stages, TxStages
<1>6. ASSUME Crash PROVE Forward
  <2>1. \A stage \in Stages \ {"done"} : Rank(stage) < Rank("done")
    BY DEF Rank, Stages, TxStages
  <2>2. QED
    BY <1>6, <2>1 DEF Crash, Forward, TypeOK
<1>7. ASSUME \/ \E r \in Request : Relay(r) \/ Timeout(r)
             \/ UNCHANGED vars
      PROVE  Forward
  BY <1>7 DEF Relay, Timeout, vars, Forward
<1>8. QED
  BY <1>2, <1>3, <1>4, <1>5, <1>6, <1>7 DEF Next, Progress, Failure

\* No call comes back to a stage it has left, so that it takes at most thirteen
\* steps of its own: with NoDeadlock, what AnsweredUnlessExhausted rests on.
THEOREM CallsMoveForward == Spec => [][Forward]_vars
<1>1. IInv /\ [Next]_vars => [Forward]_vars
  BY ForwardStep DEF IInv
<1>2. QED
  BY <1>1, Invariance, PTL DEF Spec

-----------------------------------------------------------------------------
(* Exhaustion.  The pool hands out no more connections than it has, and a    *)
(* leaked one comes back only with a new process.                            *)

PoolBounded == IsFiniteSet(authConn) /\ Cardinality(authConn) <= PoolSize

LEMMA InitPool == Init => PoolBounded
  BY FS_EmptySet, PoolSizeAssumption DEF Init, PoolBounded

LEMMA ConnMoves ==
  ASSUME [Next]_vars
  PROVE  \/ authConn' \subseteq authConn
         \/ FreeConn /\ \E r \in Request : authConn' = authConn \cup {r}
<1>1. ASSUME NEW r \in Request,
             Arrive(r) \/ Relay(r) \/ Timeout(r) \/ RedisGet(r) \/
             RedisGetFails(r) \/ BeginFails(r) \/ SelectEmpty(r) \/
             SelectFinds(r) \/ InsertCompany(r) \/ InsertUser(r) \/
             CreateDb(r) \/ CreateDbFails(r) \/ Seed(r) \/ SeedFails(r) \/
             RedisSave(r) \/ RedisSaveFails(r) \/ RollbackDelete(r)
      PROVE  authConn' = authConn
  BY <1>1 DEF Arrive, Relay, Timeout, RedisGet, RedisGetFails, BeginFails,
     SelectEmpty, SelectFinds, InsertCompany, InsertUser, CreateDb,
     CreateDbFails, Seed, SeedFails, RedisSave, RedisSaveFails, RollbackDelete
<1>2. ASSUME NEW r \in Request, Begin(r) \/ RollbackBegin(r)
      PROVE  FreeConn /\ authConn' = authConn \cup {r}
  BY <1>2 DEF Begin, RollbackBegin, TakeConn
<1>3. ASSUME NEW r \in Request,
             InsertConflicts(r) \/ StatementFails(r) \/ Commit(r) \/
             CommitFails(r) \/ RollbackCommit(r) \/ RollbackFails(r)
      PROVE  authConn' \subseteq authConn
  BY <1>3 DEF InsertConflicts, StatementFails, Commit, CommitFails,
     RollbackCommit, RollbackFails, ReleaseConn
<1>4. ASSUME Crash PROVE authConn' \subseteq authConn
  BY <1>4 DEF Crash
<1>5. CASE UNCHANGED vars
  BY <1>5 DEF vars
<1>6. QED
  BY <1>1, <1>2, <1>3, <1>4, <1>5 DEF Next, Progress, Failure

LEMMA PoolStep == PoolBounded /\ [Next]_vars => PoolBounded'
<1> SUFFICES ASSUME PoolBounded, [Next]_vars PROVE PoolBounded'
  OBVIOUS
<1>1. IsFiniteSet(authConn) /\ Cardinality(authConn) \in Nat
  BY FS_CardinalityType DEF PoolBounded
<1>2. CASE authConn' \subseteq authConn
  <2>1. IsFiniteSet(authConn') /\ Cardinality(authConn') <= Cardinality(authConn)
    BY <1>1, <1>2, FS_Subset
  <2>2. Cardinality(authConn') \in Nat
    BY <2>1, FS_CardinalityType
  <2>3. QED
    BY <1>1, <2>1, <2>2, PoolSizeAssumption DEF PoolBounded
<1>3. ASSUME NEW r \in Request, FreeConn, authConn' = authConn \cup {r}
      PROVE  PoolBounded'
  <2>1. /\ IsFiniteSet(authConn')
        /\ Cardinality(authConn') \in {Cardinality(authConn), Cardinality(authConn) + 1}
    BY <1>1, <1>3, FS_AddElement
  <2>2. QED
    BY <1>1, <1>3, <2>1, PoolSizeAssumption DEF PoolBounded, FreeConn
<1>4. QED
  BY <1>2, <1>3, ConnMoves

\* Only a request that is done can leak, and a step of its own it has no more.
LEMMA LeakStays ==
  ASSUME TypeOK, [Next]_vars, ~Crash
  PROVE  Leaked \subseteq Leaked'
<1> SUFFICES ASSUME NEW q \in Leaked PROVE q \in Leaked'
  OBVIOUS
<1>1. q \in Request /\ q \in authConn /\ pc[q] = "done"
  BY DEF Leaked, TypeOK
<1>2. ASSUME NEW r \in Request,
             Arrive(r) \/ Relay(r) \/ Timeout(r) \/ RedisGet(r) \/
             RedisGetFails(r) \/ BeginFails(r) \/ SelectEmpty(r) \/
             SelectFinds(r) \/ InsertCompany(r) \/ InsertUser(r) \/
             CreateDb(r) \/ CreateDbFails(r) \/ Seed(r) \/ SeedFails(r) \/
             RedisSave(r) \/ RedisSaveFails(r) \/ RollbackDelete(r)
      PROVE  q \in Leaked'
  BY <1>1, <1>2 DEF Arrive, Relay, Timeout, RedisGet, RedisGetFails,
     BeginFails, SelectEmpty, SelectFinds, InsertCompany, InsertUser,
     CreateDb, CreateDbFails, Seed, SeedFails, RedisSave, RedisSaveFails,
     RollbackDelete, Goto, TypeOK, Leaked
<1>3. ASSUME NEW r \in Request,
             Begin(r) \/ RollbackBegin(r) \/ InsertConflicts(r) \/
             StatementFails(r) \/ Commit(r) \/ CommitFails(r) \/
             RollbackCommit(r) \/ RollbackFails(r)
      PROVE  q \in Leaked'
  BY <1>1, <1>3 DEF Begin, RollbackBegin, InsertConflicts, StatementFails,
     Commit, CommitFails, RollbackCommit, RollbackFails, TakeConn,
     ReleaseConn, Goto, TypeOK, Leaked
<1>4. CASE UNCHANGED vars
  BY <1>1, <1>4 DEF vars, Leaked
<1>5. QED
  BY <1>2, <1>3, <1>4 DEF Next, Progress, Failure

\* Once every connection is leaked, none is handed out to anybody...
Exhausted == Cardinality(Leaked) >= PoolSize
NothingHandedOut == Exhausted /\ ~Crash => Exhausted' /\ authConn' = authConn

LEMMA ExhaustionStep ==
  TypeOK /\ PoolBounded /\ PoolBounded' /\ [Next]_vars => NothingHandedOut
<1> SUFFICES ASSUME TypeOK, PoolBounded, PoolBounded', [Next]_vars, Exhausted, ~Crash
             PROVE  Exhausted' /\ authConn' = authConn
  BY DEF NothingHandedOut
<1>1. /\ Leaked \subseteq Leaked' /\ Leaked \subseteq authConn
      /\ Leaked' \subseteq authConn'
  BY LeakStays DEF Leaked
<1>2. /\ IsFiniteSet(authConn) /\ IsFiniteSet(authConn')
      /\ IsFiniteSet(Leaked) /\ IsFiniteSet(Leaked')
  BY <1>1, FS_Subset DEF PoolBounded
<1>3. /\ Cardinality(authConn) \in Nat /\ Cardinality(authConn') \in Nat
      /\ Cardinality(Leaked) \in Nat /\ Cardinality(Leaked') \in Nat
  BY <1>2, FS_CardinalityType
<1>4. Cardinality(Leaked) <= Cardinality(Leaked')
  BY <1>1, <1>2, FS_Subset
<1>5. Exhausted'
  BY <1>3, <1>4, PoolSizeAssumption DEF Exhausted
<1>6. authConn = Leaked /\ authConn' = Leaked'
  BY <1>1, <1>2, <1>3, <1>5, FS_Subset, PoolSizeAssumption DEF PoolBounded, Exhausted
<1>7. authConn' = authConn
  <2>1. authConn \subseteq authConn'
    BY <1>1, <1>6
  <2>2. Cardinality(authConn) = Cardinality(authConn')
    BY <1>3, <1>5, <1>6, PoolSizeAssumption DEF PoolBounded, Exhausted
  <2>3. QED
    BY <1>2, <2>1, <2>2, FS_Subset
<1>8. QED
  BY <1>5, <1>7

\* ...and that lasts until dbservice crashes: the leak of SelectFinds, repeated
\* as often as the pool has connections, stops every registration and login.
THEOREM ExhaustionIsForGood == Spec => []PoolBounded /\ [][NothingHandedOut]_vars
<1>1. Spec => []PoolBounded
  BY InitPool, PoolStep, PTL DEF Spec
<1>2. IInv /\ PoolBounded /\ PoolBounded' /\ [Next]_vars => [NothingHandedOut]_vars
  BY ExhaustionStep DEF IInv
<1>3. QED
  BY <1>1, <1>2, Invariance, PTL DEF Spec
=============================================================================
