-------------------------------- MODULE Timer --------------------------------
(***************************************************************************)
(* Work timers: StartTimerDB and EndTimerDB of dbservice/dbtimerservice,   *)
(* on the table user_timers of one company's database and the pool of      *)
(* connections that MapConnectionsDB keeps for it.                         *)
(*                                                                         *)
(* A user may have several calls in progress: two tabs, a double click.    *)
(* Starting a timer closes the user's active one first, once by a          *)
(* statement of its own and once more in a transaction; but the INSERT of  *)
(* the new timer runs outside of that transaction, on a second connection. *)
(*                                                                         *)
(* A row of user_timers is named by the call that inserts it.  An UPDATE   *)
(* is two steps, as in PostgreSQL: its snapshot, and, once no other        *)
(* transaction has changed one of those rows without committing, the       *)
(* change of those that still qualify.                                     *)
(***************************************************************************)
EXTENDS FiniteSets, Naturals

CONSTANTS
    Start,     \* the calls of StartTimerDB
    End,       \* the calls of EndTimerDB
    User,      \* the users of the company
    PoolSize,  \* SetMaxOpenConns of the company database's pool
    None       \* the absent user, timer or closing call

Call == Start \cup End

ASSUME PoolAssumption == PoolSize \in Nat \ {0}
ASSUME CallAssumption == Start \cap End = {} /\ None \notin Call \cup {"OK"}

VARIABLES
    user,      \* the user-id metadata of each call
    pc,        \* what each call does next
    seen,      \* the rows in the snapshot of each call's UPDATE
    closing,   \* the rows that each call's open transaction has closed
    timers,    \* the rows of user_timers
    closer,    \* the call that has closed each row, or None while is_active
    answer,    \* what each call returns
    known      \* history: the user's active timers when the call began

rowVars == <<timers, closer>>
vars == <<user, pc, seen, closing, rowVars, answer, known>>

-----------------------------------------------------------------------------
\* Stages at which a call's transaction is open.
TxStages == {"txClose", "txClosing", "txInsert", "txCommit"}

EndStages == {"idle", "ping", "end", "ending", "done"}

Stages == EndStages \cup TxStages
              \cup {"exists", "close", "closing", "begin", "insert"}

Answers == [code : {None, "OK", "error"}, timer : Start \cup {None}]

TypeOK ==
    /\ user \in [Call -> User \cup {None}]
    /\ pc \in [Call -> Stages]
    /\ \A c \in End : pc[c] \in EndStages
    /\ seen \in [Call -> SUBSET Start]
    /\ closing \in [Call -> SUBSET Start]
    /\ timers \subseteq Start
    /\ closer \in [Start -> Call \cup {None}]
    /\ answer \in [Call -> Answers]
    /\ known \in [Call -> SUBSET Start]

Init ==
    /\ user = [c \in Call |-> None]
    /\ pc = [c \in Call |-> "idle"]
    /\ seen = [c \in Call |-> {}]
    /\ closing = [c \in Call |-> {}]
    /\ timers = {}
    /\ closer = [t \in Start |-> None]
    /\ answer = [c \in Call |-> [code |-> None, timer |-> None]]
    /\ known = [c \in Call |-> {}]

-----------------------------------------------------------------------------
Active == {t \in timers : closer[t] = None}
ActiveOf(u) == {t \in Active : user[t] = u}

Running(c) == pc[c] \notin {"idle", "done"}

\* A transaction keeps its connection, an UPDATE has one while it waits.
HoldsConn(c) == pc[c] \in TxStages \cup {"closing", "ending"}
FreeConn == Cardinality({c \in Call : HoldsConn(c)}) < PoolSize

LockedFor(c) == UNION {closing[d] : d \in Call \ {c}}

Goto(c, stage) == pc' = [pc EXCEPT ![c] = stage]

Return(c, code, timer) ==
    /\ answer' = [answer EXCEPT ![c] = [code |-> code, timer |-> timer]]
    /\ Goto(c, "done")

\* Mutant: without RecoveryInterceptor.
ReturnPanicRaw(c) == Return(c, "panic", None)

\* The panic of err.Error() on the nil error of a successful Rollback, in the
\* branches that report a failed statement: RecoveryInterceptor returns a nil
\* response and an error made from the code of a nil error, which is nil.
ReturnPanic(c) == Return(c, "OK", None)

Snapshot(c) == seen' = [seen EXCEPT ![c] = ActiveOf(user[c])]

\* The rows of the snapshot that still qualify once none is locked.
Updatable(c) == {t \in seen[c] : closer[t] = None}

\* Mutant: WHERE is_active = TRUE, without the user_id.
CloseRowsOfAll(c, rows) ==
    closer' = [t \in Start |-> IF t \in Active THEN c ELSE closer[t]]

CloseRows(c, rows) ==
    closer' = [t \in Start |-> IF t \in rows THEN c ELSE closer[t]]

-----------------------------------------------------------------------------
(* Both calls: the request, and the pool of its database. *)

Arrive(c) ==
    /\ pc[c] = "idle"
    /\ \E u \in User :
           /\ user' = [user EXCEPT ![c] = u]
           /\ known' = [known EXCEPT ![c] = ActiveOf(u)]
    /\ Goto(c, "ping")
    /\ UNCHANGED <<seen, closing, rowVars, answer>>

\* GetDb pings the pool, without a deadline.
Ping(c) ==
    /\ pc[c] = "ping" /\ FreeConn
    /\ Goto(c, IF c \in Start THEN "exists" ELSE "end")
    /\ UNCHANGED <<user, seen, closing, rowVars, answer, known>>

-----------------------------------------------------------------------------
(* StartTimerDB *)

\* Mutant: only the INSERT is left.
ExistsIgnored(c) ==
    /\ pc[c] = "exists" /\ FreeConn
    /\ Goto(c, "insert")
    /\ UNCHANGED <<user, seen, closing, rowVars, answer, known>>

Exists(c) ==
    /\ pc[c] = "exists" /\ FreeConn
    /\ Goto(c, IF ActiveOf(user[c]) # {} THEN "close" ELSE "insert")
    /\ UNCHANGED <<user, seen, closing, rowVars, answer, known>>

Insert(c) ==
    /\ pc[c] = "insert" /\ FreeConn
    /\ timers' = timers \cup {c}
    /\ Return(c, "OK", c)
    /\ UNCHANGED <<user, seen, closing, closer, known>>

\* The UPDATE that db.Exec commits by itself.
Close(c) ==
    /\ pc[c] = "close" /\ FreeConn
    /\ Snapshot(c)
    /\ Goto(c, "closing")
    /\ UNCHANGED <<user, closing, rowVars, answer, known>>

CloseDone(c) ==
    /\ pc[c] = "closing"
    /\ seen[c] \cap LockedFor(c) = {}
    /\ CloseRows(c, Updatable(c))
    /\ Goto(c, "begin")
    /\ UNCHANGED <<user, seen, closing, timers, answer, known>>

Begin(c) ==
    /\ pc[c] = "begin" /\ FreeConn
    /\ Goto(c, "txClose")
    /\ UNCHANGED <<user, seen, closing, rowVars, answer, known>>

\* The same UPDATE in the transaction.
TxClose(c) ==
    /\ pc[c] = "txClose"
    /\ Snapshot(c)
    /\ Goto(c, "txClosing")
    /\ UNCHANGED <<user, closing, rowVars, answer, known>>

TxCloseDone(c) ==
    /\ pc[c] = "txClosing"
    /\ seen[c] \cap LockedFor(c) = {}
    /\ closing' = [closing EXCEPT ![c] = Updatable(c)]
    /\ Goto(c, "txInsert")
    /\ UNCHANGED <<user, seen, rowVars, answer, known>>

\* db.QueryRowContext, not tx: committed by itself, on another connection.
TxInsert(c) ==
    /\ pc[c] = "txInsert" /\ FreeConn
    /\ timers' = timers \cup {c}
    /\ Goto(c, "txCommit")
    /\ UNCHANGED <<user, seen, closing, closer, answer, known>>

TxCommit(c) ==
    /\ pc[c] = "txCommit"
    /\ CloseRows(c, closing[c])
    /\ closing' = [closing EXCEPT ![c] = {}]
    /\ Return(c, "OK", c)
    /\ UNCHANGED <<user, seen, timers, known>>

-----------------------------------------------------------------------------
(* EndTimerDB: one UPDATE ... RETURNING, of which Scan reads the first row. *)

EndClose(c) ==
    /\ pc[c] = "end" /\ FreeConn
    /\ Snapshot(c)
    /\ Goto(c, "ending")
    /\ UNCHANGED <<user, closing, rowVars, answer, known>>

EndDone(c) ==
    /\ pc[c] = "ending"
    /\ seen[c] \cap LockedFor(c) = {}
    /\ CloseRows(c, Updatable(c))
    /\ \/ \E t \in Updatable(c) : Return(c, "OK", t)
       \/ Updatable(c) = {} /\ Return(c, "error", None)
    /\ UNCHANGED <<user, seen, closing, timers, known>>

-----------------------------------------------------------------------------
(* A call to the database fails, perhaps after its effect.  A statement with  *)
(* the call's context also fails when nginx stops waiting for the answer,    *)
(* be it while it waits for a connection.                                    *)

\* A connector, the metadata, or a read.
ReadFails(c) ==
    /\ pc[c] \in {"ping", "exists"}
    /\ Return(c, "error", None)
    /\ UNCHANGED <<user, seen, closing, rowVars, known>>

InsertFails(c) ==
    /\ pc[c] = "insert"
    /\ \E done \in {{}, {c}} : timers' = timers \cup done
    /\ Return(c, "error", None)
    /\ UNCHANGED <<user, seen, closing, closer, known>>

\* An UPDATE outside of a transaction; only EndTimerDB's has a context.
UpdateFails(c) ==
    /\ \/ pc[c] = "close" /\ FreeConn
       \/ pc[c] \in {"closing", "end", "ending"}
    /\ \/ UNCHANGED closer
       \/ /\ pc[c] \in {"closing", "ending"}
          /\ seen[c] \cap LockedFor(c) = {}
          /\ CloseRows(c, Updatable(c))
    /\ Return(c, "error", None)
    /\ UNCHANGED <<user, seen, closing, timers, known>>

BeginFails(c) ==
    /\ pc[c] = "begin" /\ FreeConn
    /\ Return(c, "error", None)
    /\ UNCHANGED <<user, seen, closing, rowVars, known>>

\* Mutant: db.QueryRow for db.QueryRowContext.
TxFailsConnected(c) ==
    /\ \/ pc[c] \in {"txClose", "txClosing"} /\ UNCHANGED timers
       \/ /\ pc[c] = "txInsert" /\ FreeConn
          /\ \E done \in {{}, {c}} : timers' = timers \cup done
    /\ closing' = [closing EXCEPT ![c] = {}]
    /\ ReturnPanic(c) \/ Return(c, "error", None)
    /\ UNCHANGED <<user, seen, closer, known>>

\* The transaction is rolled back; what was inserted beside it stays.
TxFails(c) ==
    /\ \/ pc[c] \in {"txClose", "txClosing"} /\ UNCHANGED timers
       \/ /\ pc[c] = "txInsert"
          /\ \E done \in {{}, {c}} : timers' = timers \cup done
    /\ closing' = [closing EXCEPT ![c] = {}]
    /\ ReturnPanic(c) \/ Return(c, "error", None)
    /\ UNCHANGED <<user, seen, closer, known>>

CommitFails(c) ==
    /\ pc[c] = "txCommit"
    /\ \E done \in {{}, closing[c]} : CloseRows(c, done)
    /\ closing' = [closing EXCEPT ![c] = {}]
    /\ Return(c, "error", None)
    /\ UNCHANGED <<user, seen, timers, known>>

\* dbservice crashes and is restarted.  Open transactions are rolled back; an
\* UPDATE that is already waiting in PostgreSQL may still be executed.
Crash ==
    /\ \E c \in Call : Running(c)
    /\ \E sent \in SUBSET {c \in Call : pc[c] \in {"closing", "ending"}} :
           LET by(t) == {c \in sent : t \in Updatable(c)}
           IN  closer' \in {f \in [Start -> Call \cup {None}] :
                   \A t \in Start : IF by(t) = {} THEN f[t] = closer[t]
                                                 ELSE f[t] \in by(t)}
    /\ pc' = [c \in Call |-> IF Running(c) THEN "done" ELSE pc[c]]
    /\ answer' = [c \in Call |->
           IF Running(c) THEN [code |-> "error", timer |-> None] ELSE answer[c]]
    /\ closing' = [c \in Call |-> {}]
    /\ UNCHANGED <<user, seen, timers, known>>

-----------------------------------------------------------------------------
Progress(c) ==
    \/ Ping(c) \/ Exists(c) \/ Insert(c)
    \/ Close(c) \/ CloseDone(c)
    \/ Begin(c) \/ TxClose(c) \/ TxCloseDone(c) \/ TxInsert(c) \/ TxCommit(c)
    \/ EndClose(c) \/ EndDone(c)

Failure(c) ==
    \/ ReadFails(c) \/ InsertFails(c) \/ UpdateFails(c) \/ BeginFails(c)
    \/ TxFails(c) \/ CommitFails(c)

Next ==
    \/ \E c \in Call : Arrive(c) \/ Progress(c) \/ Failure(c)
    \/ Crash

Spec == Init /\ [][Next]_vars

\* A goroutine that is not blocked goes on; a wait with the call's context ends
\* with nginx's patience.  No other failure, call or crash has to happen.
HasContext(c) == pc[c] \in {"exists", "insert", "txInsert", "end", "ending"}
Fairness == \A c \in Call : WF_vars(Progress(c)) /\ WF_vars(HasContext(c) /\ Failure(c))

FairSpec == Spec /\ Fairness

-----------------------------------------------------------------------------
(* Properties. *)

\* A timer that was active when a StartTimerDB began is closed by the time that
\* call's own timer exists, and one that was active when an EndTimerDB began is
\* closed when that call reports success: whatever calls of the user overlap,
\* fail or are cut off, only timers of overlapping starts are active together.
Supersedes ==
    /\ \A c \in Start \cap timers : known[c] \cap Active = {}
    /\ \A c \in End : answer[c].code = "OK" => known[c] \cap Active = {}

\* A timer is closed once, by a call of its own user: the end_time that the
\* hours are counted from is never moved, even when two calls close together.
ClosedOnceByItsUser ==
    [][\A t \in Start : closer'[t] # closer[t] =>
          closer[t] = None /\ user[closer'[t]] = user[t]]_vars

\* Every call is answered: an INSERT that waits for a second connection while
\* its transaction holds the last one waits until its context is cancelled, and
\* whoever waits for that transaction's rows or connection goes on then.
Answered == \A c \in Call : pc[c] = "ping" ~> pc[c] = "done"
=============================================================================
